---------------------------- MODULE Config_proofs ----------------------------
(***************************************************************************)
(* Whatever the files, the command line and the order of the walk, a       *)
(* command that is accepted has a config in which nothing of its files and *)
(* flags is lost, that is limited as they say, and that does not depend on *)
(* that order, except in what the order is known to decide.                *)
(***************************************************************************)
EXTENDS Config, SequenceTheorems, FiniteSetTheorems, WellFoundedInduction, TLAPS

-----------------------------------------------------------------------------
\* Sequences and numbers.

LEMMA ToSetConcat ==
  ASSUME NEW s, NEW t, s \in Seq(ToSet(s)), t \in Seq(ToSet(t))
  PROVE  /\ ToSet(s \o t) = ToSet(s) \cup ToSet(t)
         /\ s \o t \in Seq(ToSet(s \o t))
<1> DEFINE S == ToSet(s) \cup ToSet(t)
<1>1. s \in Seq(S) /\ t \in Seq(S)
  BY SeqMonotonic
<1>2. Range(s \o t) = Range(s) \cup Range(t)
  BY <1>1, RangeConcatenation
<1>3. s \o t \in Seq(Range(s \o t))
  BY <1>1, ConcatProperties, SeqOfRange
<1> QED
  BY <1>2, <1>3 DEF Range, ToSet

LEMMA Least ==
  ASSUME NEW S \in SUBSET Nat, S # {}
  PROVE  \E m \in S : \A x \in S : m <= x
<1> DEFINE R == {ss \in Nat \X Nat : ss[1] < ss[2]}
<1>1. IsWellFoundedOn(R, Nat)
  BY NatLessThanWellFounded DEF OpToRel
<1>2. PICK m \in S : \A y \in S : ~ (<<y, m>> \in R)
  <2> HIDE DEF R
  <2> QED
    BY <1>1, WFMin
<1>3. ASSUME NEW x \in S
      PROVE  m <= x
  <2>1. x \in Nat /\ m \in Nat /\ ~ (<<x, m>> \in R)
    BY <1>2
  <2>2. ~ (x < m)
    BY <2>1
  <2> QED
    BY <2>1, <2>2
<1> QED
  BY <1>3

\* A name that is specified has a first spec.
LEMMA SpecOfName ==
  ASSUME NEW spec, spec \in Seq(ToSet(spec)), NEW n \in Names(spec)
  PROVE  SpecOf(spec, n) \in ToSet(spec) /\ SpecOf(spec, n).name = n
<1> DEFINE I == {i \in DOMAIN spec : spec[i].name = n}
<1>1. I \in SUBSET Nat
  BY LenProperties
<1>2. I # {}
  BY DEF Names
<1>3. Min(I) \in I
  <2> HIDE DEF I
  <2> QED
    BY <1>1, <1>2, Least DEF Min
<1> QED
  BY <1>3 DEF SpecOf, ToSet

LEMMA ValueFields ==
  /\ Null.kind = "null" /\ Null.items = <<>> /\ Null.text = ""
  /\ \A t : Text(t).kind = "scalar" /\ Text(t).items = <<>> /\ Text(t).text = t
  /\ \A s : Items(s).kind = "list" /\ Items(s).items = s /\ Items(s).text = ""
BY DEF Null, Text, Items

LEMMA ValueKinds ==
  ASSUME NEW v, isValue(v)
  PROVE  /\ v.kind \in {"null", "list", "scalar"}
         /\ v.kind = "null" => v = Null /\ ToSet(v.items) = {}
         /\ v.kind # "list" => v.items = <<>>
         /\ v.kind = "list" => v = Items(v.items)
         /\ v.items \in Seq(ToSet(v.items))
         /\ v.kind = "list" => (Truthy(v) <=> v.items # <<>>)
         /\ ~ Truthy(Null)
<1>1. ~ Truthy(Null)
  BY ValueFields DEF Truthy
<1>2. ToSet(<<>>) = {} /\ <<>> \in Seq(ToSet(<<>>))
  BY DEF ToSet
<1>3. CASE v = Null
  <2>1. v.kind = "null" /\ v.items = <<>>
    BY <1>3, ValueFields
  <2> QED
    BY <1>1, <1>2, <1>3, <2>1, Zenon
<1>4. CASE v = Text(v.text)
  <2>1. v.kind = "scalar" /\ v.items = <<>>
    BY <1>4, ValueFields
  <2>2. v.items \in Seq(ToSet(v.items))
    BY <1>2, <2>1, Zenon
  <2>3. /\ v.kind \in {"null", "list", "scalar"}
        /\ v.kind # "null" /\ v.kind # "list"
    BY <2>1
  <2> QED
    BY <1>1, <2>1, <2>2, <2>3, Zenon
<1>5. CASE v = Items(v.items) /\ v.items \in Seq(ToSet(v.items))
  <2>1. v.kind = "list" /\ v.text = ""
    <3>1. PICK x : v = Items(x)
      BY <1>5
    <3> QED
      BY <3>1, ValueFields
  <2>2. Truthy(v) <=> v.items # <<>>
    BY <2>1 DEF Truthy
  <2>3. v.kind \in {"null", "list", "scalar"} /\ v.kind # "null"
    BY <2>1
  <2> QED
    BY <1>1, <1>5, <2>1, <2>2, <2>3, Zenon
<1> QED
  BY <1>3, <1>4, <1>5 DEF isValue

-----------------------------------------------------------------------------
\* Merging one more file.

LEMMA MergedValue ==
  ASSUME NEW c1, NEW c2, ~ Conflict(c1, c2),
         \A k \in DOMAIN c1 : isValue(c1[k]), \A k \in DOMAIN c2 : isValue(c2[k]),
         NEW k \in DOMAIN c1 \cup DOMAIN c2,
         NEW m, m = merge_configs(c1, c2)
  PROVE  /\ k \in DOMAIN m
         /\ isValue(m[k])
         /\ k \in DOMAIN c1 /\ k \notin DOMAIN c2 => m[k] = c1[k]
         /\ k \notin DOMAIN c1 /\ k \in DOMAIN c2 => m[k] = c2[k]
         /\ k \in DOMAIN c1 /\ k \in DOMAIN c2 =>
              \/ c1[k].kind = "null" /\ m[k] = c2[k]
              \/ /\ c1[k].kind = "list" /\ c2[k].kind = "list" /\ m[k].kind = "list"
                 /\ ToSet(m[k].items) = ToSet(c1[k].items) \cup ToSet(c2[k].items)
<1>1. k \in DOMAIN m
  BY DEF merge_configs
<1>2. k \in DOMAIN c1 /\ k \notin DOMAIN c2 => m[k] = c1[k]
  BY DEF merge_configs
<1>3. k \notin DOMAIN c1 /\ k \in DOMAIN c2 => m[k] = c2[k]
  BY DEF merge_configs
<1>4. ASSUME k \in DOMAIN c1, k \in DOMAIN c2, c1[k].kind = "null"
      PROVE  m[k] = c2[k]
  BY <1>4 DEF merge_configs
<1>5. ASSUME k \in DOMAIN c1, k \in DOMAIN c2, c1[k].kind # "null"
      PROVE  /\ c1[k].kind = "list" /\ c2[k].kind = "list" /\ m[k].kind = "list"
             /\ ToSet(m[k].items) = ToSet(c1[k].items) \cup ToSet(c2[k].items)
             /\ isValue(m[k])
  <2>1. c1[k].kind = "list" /\ c2[k].kind = "list"
    BY <1>5 DEF Conflict
  <2>2. m[k] = Items(c1[k].items \o c2[k].items)
    BY <1>5, <2>1 DEF merge_configs
  <2>3. c1[k].items \in Seq(ToSet(c1[k].items)) /\ c2[k].items \in Seq(ToSet(c2[k].items))
    BY <1>5, ValueKinds
  <2>4. m[k].kind = "list" /\ m[k].items = c1[k].items \o c2[k].items
    BY <2>2, ValueFields
  <2> QED
    BY <2>1, <2>2, <2>3, <2>4, ToSetConcat DEF isValue
<1> QED
  BY <1>1, <1>2, <1>3, <1>4, <1>5

-----------------------------------------------------------------------------
\* The invariant: what is merged has exactly what the files merged say, and a
\* config is what its command makes of that.

\* Nothing of a file is lost.
Kept(f, k) ==
  /\ k \in DOMAIN yaml
  /\ tree[f][k].kind = "scalar" => yaml[k] = tree[f][k]
  /\ tree[f][k].kind = "list" => yaml[k].kind = "list"
  /\ ToSet(tree[f][k].items) \subseteq ToSet(yaml[k].items)

\* And nothing comes from nowhere.
Given(k) ==
  /\ isValue(yaml[k])
  /\ \E f \in crawl : Holds(f, k)
  /\ \A x \in ToSet(yaml[k].items) :
       \E f \in crawl : Holds(f, k) /\ x \in ToSet(tree[f][k].items)
  /\ yaml[k].kind = "scalar" => \E f \in crawl : Holds(f, k) /\ tree[f][k] = yaml[k]

Merged ==
  /\ \A f \in crawl \ unread : tree[f] # EmptyFile /\ \A k \in DOMAIN tree[f] : Kept(f, k)
  /\ \A k \in DOMAIN yaml : Given(k)

Phases ==
  /\ phase \in {"start", "merge", "collect", "check", "accepted", "refused"}
  /\ phase \in {"merge", "collect"} => cli.path
  /\ phase = "collect" => unread = {}
  /\ phase \notin {"check", "accepted"} => config = Empty \/ phase = "refused"

Collected ==
  phase \in {"check", "accepted"} =>
    \/ /\ cli.path /\ unread = {}
       /\ CanCollect(yaml) /\ config = collect_blueprint_config(yaml)
    \/ /\ ~ cli.path
       /\ ~ VarsConflict
       /\ config = BlueprintConfig([s \in Settings |-> Get(cli_config, s)], merge_vars, <<>>, {})

Checked == phase = "accepted" => Valid(config)

ConfigDomain == DOMAIN config \in {{}, Settings \cup {"vars", "vars_spec", "resources"}}

IInv ==
  /\ tree \in [File -> Contents] /\ cli \in Commands /\ unread \subseteq crawl
  /\ Merged /\ Phases /\ Collected /\ Checked /\ ConfigDomain

LEMMA InitInv == Init => IInv
BY DEF Init, IInv, crawl, Merged, Empty, Phases, Collected, Checked, ConfigDomain

LEMMA MergedInv ==
  ASSUME IInv, MergeFile
  PROVE  Merged'
<1>1. PICK f \in unread :
        /\ CanMerge(yaml, f)
        /\ yaml' = merge_configs(yaml, tree[f])
        /\ unread' = unread \ {f}
  BY DEF MergeFile
<1>2. tree' = tree /\ crawl' = crawl /\ \A g, k : Holds(g, k)' <=> Holds(g, k)
  BY DEF MergeFile, crawl, Holds
<1>3. f \in crawl /\ tree[f] # EmptyFile /\ tree[f] # Ignored /\ tree[f] \in Contents
      /\ ~ Conflict(yaml, tree[f])
  BY <1>1 DEF IInv, crawl, CanMerge
<1>4. \A k \in DOMAIN tree[f] : isValue(tree[f][k])
  BY <1>3, ConfigAssumption
<1>5. \A k \in DOMAIN yaml : isValue(yaml[k])
  BY DEF IInv, Merged, Given
<1>6. ASSUME NEW k \in DOMAIN yaml \cup DOMAIN tree[f]
      PROVE  /\ k \in DOMAIN yaml'
             /\ isValue(yaml'[k])
             /\ k \in DOMAIN yaml /\ k \notin DOMAIN tree[f] => yaml'[k] = yaml[k]
             /\ k \notin DOMAIN yaml /\ k \in DOMAIN tree[f] => yaml'[k] = tree[f][k]
             /\ k \in DOMAIN yaml /\ k \in DOMAIN tree[f] =>
                  \/ yaml[k].kind = "null" /\ yaml'[k] = tree[f][k]
                  \/ /\ yaml[k].kind = "list" /\ tree[f][k].kind = "list" /\ yaml'[k].kind = "list"
                     /\ ToSet(yaml'[k].items) = ToSet(yaml[k].items) \cup ToSet(tree[f][k].items)
  BY <1>1, <1>3, <1>4, <1>5, MergedValue
<1>7. DOMAIN yaml' = DOMAIN yaml \cup DOMAIN tree[f]
  BY <1>1 DEF merge_configs
<1>8. ASSUME NEW g \in crawl \ unread', NEW k \in DOMAIN tree[g]
      PROVE  Kept(g, k)'
  <2>1. CASE g = f
    BY <1>2, <1>6, <2>1 DEF Kept
  <2>2. CASE g # f
    <3>1. g \in crawl \ unread /\ Kept(g, k) /\ k \in DOMAIN yaml
      BY <1>1, <1>8, <2>2 DEF IInv, Merged, Kept
    <3>2. isValue(yaml[k]) /\ isValue(tree[g][k])
      <4>1. tree[g] \in Contents \ {EmptyFile, Ignored}
        BY <3>1 DEF IInv, Merged, crawl
      <4> QED
        BY <1>5, <3>1, <4>1, ConfigAssumption
    <3>3. yaml[k].kind = "null" => tree[g][k].kind = "null" /\ ToSet(tree[g][k].items) = {}
      BY <3>1, <3>2, ValueKinds, ValueFields DEF Kept
    <3> QED
      BY <1>2, <1>6, <3>1, <3>3, ValueKinds DEF Kept
  <2> QED
    BY <2>1, <2>2
<1>9. ASSUME NEW k \in DOMAIN yaml'
      PROVE  Given(k)'
  <2>1. k \in DOMAIN tree[f] => Holds(f, k)
    BY <1>3 DEF Holds
  <2>2. k \in DOMAIN yaml => Given(k)
    BY DEF IInv, Merged
  <2>3. \E g \in crawl : Holds(g, k)
    BY <1>3, <1>7, <2>1, <2>2 DEF Given
  <2>4. ASSUME NEW x \in ToSet(yaml'[k].items)
        PROVE  \E g \in crawl : Holds(g, k) /\ x \in ToSet(tree[g][k].items)
    BY <1>3, <1>6, <1>7, <2>1, <2>2, <2>4 DEF Given
  <2>5. ASSUME yaml'[k].kind = "scalar"
        PROVE  \E g \in crawl : Holds(g, k) /\ tree[g][k] = yaml'[k]
    BY <1>3, <1>6, <1>7, <2>1, <2>2, <2>5 DEF Given
  <2> QED
    BY <1>2, <1>6, <1>7, <2>3, <2>4, <2>5 DEF Given
<1> QED
  BY <1>1, <1>2, <1>3, <1>8, <1>9 DEF IInv, Merged

\* The operators of the command line are the same after a step.
LEMMA SameInput ==
  ASSUME UNCHANGED <<tree, cli>>
  PROVE  /\ crawl' = crawl /\ \A f, k : Holds(f, k)' <=> Holds(f, k)
         /\ cli_config' = cli_config /\ merge_vars' = merge_vars
         /\ VarsConflict' <=> VarsConflict
         /\ \A c : CanCollect(c)' <=> CanCollect(c)
         /\ \A c : collect_blueprint_config(c)' = collect_blueprint_config(c)
<1>1. crawl' = crawl /\ cli_config' = cli_config
  BY DEF crawl, cli_config
<1>2. collect_vars_from_environment' = collect_vars_from_environment
  BY DEF collect_vars_from_environment
<1>3. merge_vars' = merge_vars /\ (VarsConflict' <=> VarsConflict)
  BY <1>2 DEF merge_vars, VarsConflict
<1>4. \A c : InputVars(c)' = InputVars(c)
  BY <1>3 DEF InputVars
<1> QED
  BY <1>1, <1>3, <1>4 DEF Holds, CanCollect, collect_blueprint_config

LEMMA ConfigFields ==
  ASSUME NEW s, NEW g, NEW spec, NEW r, NEW c, c = BlueprintConfig(s, g, spec, r)
  PROVE  /\ DOMAIN c = Settings \cup {"vars", "vars_spec", "resources"}
         /\ \A k \in Settings : c[k] = s[k]
         /\ c.vars = g /\ c.vars_spec = spec /\ c.resources = r
BY DEF BlueprintConfig, Settings

LEMMA NextInv ==
  ASSUME IInv, [Next]_vars
  PROVE  IInv'
<1>1. UNCHANGED <<tree, cli>>
  BY DEF Next, vars, StartFails, Start, ApplySaved, MergeFile, MergeFails, Collect,
         CollectFails, PostInit, PostInitFails, Refuse
<1>2. /\ crawl' = crawl /\ \A f, k : Holds(f, k)' <=> Holds(f, k)
      /\ cli_config' = cli_config /\ merge_vars' = merge_vars
      /\ VarsConflict' <=> VarsConflict
      /\ \A c : CanCollect(c)' <=> CanCollect(c)
      /\ \A c : collect_blueprint_config(c)' = collect_blueprint_config(c)
  BY <1>1, SameInput
<1>3. ASSUME UNCHANGED <<unread, yaml>>
      PROVE  Merged'
  <2>1. \A f, k : Kept(f, k) => Kept(f, k)'
    BY <1>1, <1>3 DEF Kept
  <2>2. \A k : Given(k) => Given(k)'
    BY <1>1, <1>2, <1>3 DEF Given
  <2> QED
    BY <1>1, <1>2, <1>3, <2>1, <2>2 DEF IInv, Merged
<1>4. CASE MergeFile
  <2>1. Merged'
    BY <1>4, MergedInv
  <2> QED
    BY <1>1, <1>2, <1>4, <2>1
       DEF MergeFile, IInv, Phases, Collected, Checked, ConfigDomain
<1>5. CASE Collect
  <2>1. config' = collect_blueprint_config(yaml)
    BY <1>5 DEF Collect
  <2>2. ConfigDomain'
    BY <2>1, ConfigFields DEF collect_blueprint_config, ConfigDomain
  <2> QED
    BY <1>1, <1>2, <1>3, <1>5, <2>1, <2>2 DEF Collect, IInv, Phases, Collected, Checked
<1>6. CASE ApplySaved /\ ~ VarsConflict
  <2> DEFINE c == BlueprintConfig([s \in Settings |-> Get(cli_config, s)], merge_vars, <<>>, {})
  <2>1. config' = c /\ ConfigDomain'
    BY <1>6, ConfigFields DEF ApplySaved, ConfigDomain
  <2>2. Collected'
    BY <1>2, <1>6, <2>1 DEF ApplySaved, Collected, Get
  <2> QED
    BY <1>1, <1>2, <1>3, <1>6, <2>1, <2>2 DEF ApplySaved, IInv, Phases, Checked
<1>7. CASE Start \/ PostInit \/ Refuse \/ UNCHANGED vars
  <2>1. UNCHANGED <<unread, yaml, config>>
    BY <1>7 DEF Start, PostInit, Refuse, vars
  <2>2. Phases' /\ Checked' /\ ConfigDomain'
    BY <1>1, <1>7, <2>1
       DEF Start, PostInit, Refuse, vars, IInv, Phases, Checked, ConfigDomain, Valid
  <2>3. Collected'
    BY <1>1, <1>2, <1>7, <2>1 DEF Start, PostInit, Refuse, vars, IInv, Collected
  <2> QED
    BY <1>1, <1>2, <1>3, <2>1, <2>2, <2>3 DEF IInv
<1> QED
  BY <1>4, <1>5, <1>6, <1>7
     DEF Next, ApplySaved, StartFails, MergeFails, CollectFails, PostInitFails

LEMMA InvType == IInv => TypeOK
<1> SUFFICES ASSUME IInv PROVE TypeOK
  OBVIOUS
<1>1. \A k \in DOMAIN yaml :
        yaml[k].kind \in {"null", "list", "scalar"} /\ \E f \in crawl : Holds(f, k)
  BY ValueKinds DEF IInv, Merged, Given
<1>2. phase \in {"check", "accepted"} => DOMAIN config # {}
  BY ConfigFields DEF IInv, Collected, collect_blueprint_config
<1>3. DOMAIN Empty = {}
  BY DEF Empty
<1> QED
  BY <1>1, <1>2, <1>3 DEF IInv, Phases, Collected, ConfigDomain, TypeOK

LEMMA Invariance == Spec => []IInv
BY InitInv, NextInv, PTL DEF Spec

\* A config exists once it was collected, with its settings and no others, and
\* nothing is merged that no file has.
THEOREM ConfigTypeOK == Spec => []TypeOK
BY Invariance, InvType, PTL

-----------------------------------------------------------------------------
\* What a config has of its files.

LEMMA ToSetEmpty ==
  ASSUME NEW s, s \in Seq(ToSet(s))
  PROVE  s = <<>> <=> ToSet(s) = {}
<1>1. DOMAIN s = {} <=> s = <<>>
  BY EmptySeq, LenProperties
<1> QED
  BY <1>1 DEF ToSet

\* A value that counts comes from one that counts.
LEMMA TruthyFromFile ==
  ASSUME IInv, NEW k \in DOMAIN yaml, Truthy(yaml[k])
  PROVE  \E f \in crawl : Holds(f, k) /\ Truthy(tree[f][k])
<1>1. Given(k) /\ isValue(yaml[k])
  BY DEF IInv, Merged, Given
<1>2. CASE yaml[k].kind = "list"
  <2>1. PICK x : x \in ToSet(yaml[k].items)
    BY <1>1, <1>2, ToSetEmpty, ValueKinds
  <2>2. PICK f \in crawl : Holds(f, k) /\ x \in ToSet(tree[f][k].items)
    BY <1>1, <2>1 DEF Given
  <2>3. tree[f][k].items # <<>>
    BY <2>2 DEF ToSet
  <2> QED
    BY <2>2, <2>3 DEF Truthy
<1>3. CASE yaml[k].kind = "scalar"
  BY <1>1, <1>3 DEF Given
<1> QED
  BY <1>1, <1>2, <1>3, ValueKinds

\* Of a command with files, what is known when it is accepted.
LEMMA AcceptedConfig ==
  ASSUME IInv, Accepted
  PROVE  /\ CanCollect(yaml)
         /\ Valid(config)
         /\ \A f, k : Holds(f, k) => Kept(f, k) /\ isValue(tree[f][k])
         /\ \A s \in Settings : config[s] = Setting(yaml, cli_config, s)
         /\ config.vars = InputVars(yaml)
         /\ config.vars_spec = Get(yaml, "vars").items
         /\ config.resources = _resources_for_config(yaml, InputVars(yaml))
<1>1. CanCollect(yaml) /\ config = collect_blueprint_config(yaml) /\ unread = {}
  BY DEF IInv, Accepted, Collected
<1>2. Valid(config)
  BY DEF IInv, Accepted, Checked
<1>3. ASSUME NEW f, NEW k, Holds(f, k)
      PROVE  Kept(f, k) /\ isValue(tree[f][k])
  <2>1. tree[f] \in Contents \ {EmptyFile, Ignored} /\ k \in DOMAIN tree[f]
    BY <1>3 DEF Holds, crawl, IInv
  <2> QED
    BY <1>1, <1>3, <2>1, ConfigAssumption DEF Holds, IInv, Merged
<1> QED
  BY <1>1, <1>2, <1>3, ConfigFields DEF collect_blueprint_config

LEMMA FlagsInv ==
  ASSUME IInv
  PROVE  FlagsInForce
<1> SUFFICES ASSUME phase = "accepted" PROVE FlagsInForce
  BY DEF FlagsInForce
<1>1. DOMAIN cli_config \subseteq Settings
  BY ConfigAssumption DEF IInv, cli_config
<1>2. \A s \in DOMAIN cli_config : Truthy(cli_config[s])
  BY DEF cli_config
<1>3. \A n \in DOMAIN cli.vars : n \in DOMAIN merge_vars /\ merge_vars[n] = cli.vars[n]
  BY DEF merge_vars
<1>4. CASE cli.path
  <2>1. /\ CanCollect(yaml)
        /\ \A s \in Settings : config[s] = Setting(yaml, cli_config, s)
        /\ config.vars = InputVars(yaml)
    BY <1>4, AcceptedConfig DEF Accepted
  <2>2. ASSUME NEW s \in DOMAIN cli_config
        PROVE  \/ config[s] = cli_config[s]
               \/ /\ s \notin OneSided
                  /\ \E f \in crawl : Holds(f, s) /\ Truthy(tree[f][s])
    <3>1. CASE Truthy(Get(yaml, s))
      <4>1. s \in DOMAIN yaml /\ Truthy(yaml[s])
        BY <3>1, ValueFields DEF Get, Truthy
      <4>2. s \notin OneSided
        BY <2>1, <4>1 DEF CanCollect
      <4> QED
        BY <4>1, <4>2, TruthyFromFile
    <3>2. CASE ~ Truthy(Get(yaml, s))
      BY <1>1, <1>2, <2>1, <3>2 DEF Setting, Get
    <3> QED
      BY <3>1, <3>2
  <2>3. ASSUME NEW n \in DOMAIN cli.vars
        PROVE  config.vars[n] = cli.vars[n]
    BY <1>3, <2>1 DEF InputVars, set_vars_defaults
  <2> QED
    BY <1>4, <2>2, <2>3 DEF FlagsInForce
<1>5. CASE ~ cli.path
  <2>1. /\ \A s \in Settings : config[s] = Get(cli_config, s)
        /\ config.vars = merge_vars
    BY <1>5, ConfigFields DEF IInv, Collected
  <2> QED
    BY <1>1, <1>3, <2>1 DEF FlagsInForce, Get
<1> QED
  BY <1>4, <1>5

\* A flag of an accepted command is in force, unless a file gives a scope,
\* database or schema too, and so is every var of --vars: what --dry-run and
\* --allowlist forbid is not forgotten on the way to the config.
THEOREM FlagsStayInForce == Spec => []FlagsInForce
BY Invariance, FlagsInv, PTL

-----------------------------------------------------------------------------
LEMMA SettingIs ==
  ASSUME NEW c, NEW flags, NEW key
  PROVE  \/ key \in DOMAIN c /\ Truthy(c[key]) /\ Setting(c, flags, key) = c[key]
         \/ key \in DOMAIN flags /\ Truthy(flags[key]) /\ Setting(c, flags, key) = flags[key]
         \/ Setting(c, flags, key) = Null
<1>1. ~ Truthy(Null)
  BY ValueFields DEF Truthy
<1> QED
  BY <1>1 DEF Setting, Get

LEMMA SyncInv ==
  ASSUME IInv
  PROVE  SyncIsLimited
<1> DEFINE listed == ToSet(config.allowlist.items)
           files == {f \in crawl : Holds(f, "allowlist")}
           given == ToSet(Get(cli_config, "allowlist").items) \cup
                    UNION {ToSet(tree[f]["allowlist"].items) : f \in files}
<1> SUFFICES ASSUME Accepted, config.run_mode = Text("SYNC") \/ config.allowlist # Null
             PROVE  /\ listed # {} /\ listed \subseteq given
                    /\ \A r \in config.resources : r.type \in listed
  BY DEF SyncIsLimited
<1>1. /\ CanCollect(yaml)
      /\ Valid(config)
      /\ \A s \in Settings : config[s] = Setting(yaml, cli_config, s)
      /\ config.resources = _resources_for_config(yaml, InputVars(yaml))
  BY AcceptedConfig
<1>2. config.allowlist # Null /\ ~ NotAllowed(config)
  BY <1>1 DEF Valid
<1>3. config.allowlist = Setting(yaml, cli_config, "allowlist")
  BY <1>1 DEF Settings
<1>4. ASSUME NEW r \in config.resources
      PROVE  r.type \in listed
  <2>1. Contains(config.allowlist.items, r.type)
    BY <1>2 DEF NotAllowed
  <2>2. config.allowlist.items \in Seq(ToSet(config.allowlist.items))
    <3>1. ASSUME "allowlist" \in DOMAIN yaml
          PROVE  isValue(yaml["allowlist"])
      BY <3>1 DEF IInv, Merged, Given
    <3>2. ASSUME "allowlist" \in DOMAIN cli_config
          PROVE  isValue(cli_config["allowlist"])
      BY <3>2, ConfigAssumption DEF IInv, cli_config
    <3>3. isValue(Null)
      BY DEF isValue
    <3>4. isValue(config.allowlist)
      BY <1>3, <3>1, <3>2, <3>3, SettingIs
    <3> QED
      BY <3>4, ValueKinds
  <2>3. PICK i \in 1 .. Len(config.allowlist.items) : config.allowlist.items[i] = r.type
    BY <2>1 DEF Contains
  <2>4. i \in DOMAIN config.allowlist.items
    BY <2>2, <2>3, LenProperties
  <2> QED
    BY <2>3, <2>4 DEF ToSet
<1>5. listed # {}
  BY <1>1, <1>4 DEF CanCollect
<1>6. listed \subseteq given
  <2>1. CASE "allowlist" \in DOMAIN yaml /\ config.allowlist = yaml["allowlist"]
    <3>1. Given("allowlist")
      BY <2>1 DEF IInv, Merged
    <3> QED
      BY <2>1, <3>1 DEF Given
  <2>2. CASE "allowlist" \in DOMAIN cli_config /\ config.allowlist = cli_config["allowlist"]
    BY <2>2 DEF Get
  <2> QED
    BY <1>2, <1>3, <2>1, <2>2, SettingIs
<1> QED
  BY <1>4, <1>5, <1>6

\* A run in sync mode, which drops what is not declared, is limited to types
\* somebody listed, and an allowlist covers every resource declared under it,
\* those nested in others too.
THEOREM SyncStaysLimited == Spec => []SyncIsLimited
BY Invariance, SyncInv, PTL

-----------------------------------------------------------------------------
LEMMA VarsInv ==
  ASSUME IInv
  PROVE  VarsAsSpecified
<1> DEFINE files == {f \in crawl : Holds(f, "vars")}
           specs == UNION {ToSet(tree[f]["vars"].items) : f \in files}
           spec == yaml["vars"].items
<1> SUFFICES ASSUME Accepted, specs # {}
             PROVE  /\ DOMAIN config.vars = {s.name : s \in specs}
                    /\ \A n \in DOMAIN config.vars :
                         /\ \E s \in specs : s.name = n /\ s.type = config.vars[n].type
                         /\ IF n \in DOMAIN merge_vars THEN config.vars[n] = merge_vars[n]
                            ELSE \E s \in specs : s.name = n /\ s.default = config.vars[n]
  BY DEF VarsAsSpecified
<1>1. /\ CanCollect(yaml)
      /\ Valid(config)
      /\ \A f, k : Holds(f, k) => Kept(f, k) /\ isValue(tree[f][k])
      /\ config.vars = InputVars(yaml)
      /\ config.vars_spec = Get(yaml, "vars").items
  BY AcceptedConfig
<1>2. PICK f \in files : ToSet(tree[f]["vars"].items) # {}
  OBVIOUS
<1>3. "vars" \in DOMAIN yaml /\ isValue(yaml["vars"]) /\ ToSet(spec) # {} /\ Given("vars")
  BY <1>1, <1>2 DEF Kept, IInv, Merged, Given
<1>4. ToSet(spec) = specs
  BY <1>1, <1>3 DEF Kept, Given
<1>5. Truthy(yaml["vars"]) /\ spec # <<>> /\ spec \in Seq(ToSet(spec))
  BY <1>3, ToSetEmpty, ValueKinds DEF Truthy
<1>6. config.vars_spec = spec /\ config.vars = set_vars_defaults(spec, merge_vars)
  BY <1>1, <1>3, <1>5 DEF Get, InputVars
<1>7. Names(spec) = {s.name : s \in specs}
  BY <1>4 DEF Names, ToSet
<1>8. ~ BadVars(config)
  BY <1>1 DEF Valid
<1>9. ASSUME NEW n \in DOMAIN config.vars
      PROVE  n \in Names(spec) /\ SpecOf(spec, n).type = config.vars[n].type
  BY <1>5, <1>6, <1>8 DEF BadVars
<1>10. DOMAIN config.vars = Names(spec)
  BY <1>6, <1>9 DEF set_vars_defaults
<1>11. ASSUME NEW n \in DOMAIN config.vars
       PROVE  /\ SpecOf(spec, n) \in specs
              /\ SpecOf(spec, n).name = n
  BY <1>4, <1>5, <1>9, <1>11, SpecOfName
<1>12. ASSUME NEW n \in DOMAIN config.vars
       PROVE  config.vars[n] = IF n \in DOMAIN merge_vars THEN merge_vars[n]
                               ELSE SpecOf(spec, n).default
  BY <1>6, <1>9, <1>12 DEF set_vars_defaults
<1> QED
  BY <1>7, <1>9, <1>10, <1>11, <1>12

\* Where a file specifies vars, an accepted config has a value of the declared
\* type for each of them and for no other, given or, failing that, a default.
THEOREM VarsStayAsSpecified == Spec => []VarsAsSpecified
BY Invariance, VarsInv, PTL

-----------------------------------------------------------------------------
\* The resources of a block are those of its items.
LEMMA BlockOfItems ==
  ASSUME NEW block, NEW items, NEW given
  PROVE  FromBlock(block, items, given) = UNION {FromItem(block, x, given) : x \in ToSet(items)}
BY DEF FromBlock, ToSet

LEMMA NothingLostInv ==
  ASSUME IInv
  PROVE  NothingLost
<1> SUFFICES ASSUME Accepted PROVE NothingLost
  BY DEF NothingLost
<1>1. /\ CanCollect(yaml)
      /\ \A f, k : Holds(f, k) => Kept(f, k) /\ isValue(tree[f][k])
      /\ \A s \in Settings : config[s] = Setting(yaml, cli_config, s)
      /\ config.vars = InputVars(yaml)
      /\ config.resources = _resources_for_config(yaml, InputVars(yaml))
  BY AcceptedConfig
<1>2. \A k \in DOMAIN yaml : Given(k)
  BY DEF IInv, Merged
<1> DEFINE ofFiles ==
      UNION {UNION {FromBlock(b, tree[f][b].items, config.vars) : f \in {g \in crawl : Holds(g, b)}} :
               b \in Blocks}
<1>3. ASSUME NEW r \in config.resources
      PROVE  r \in ofFiles
  <2>1. PICK b \in Blocks \cap DOMAIN yaml : r \in FromBlock(b, yaml[b].items, config.vars)
    BY <1>1 DEF _resources_for_config
  <2>2. PICK x \in ToSet(yaml[b].items) : r \in FromItem(b, x, config.vars)
    BY <2>1, BlockOfItems
  <2>3. PICK f \in crawl : Holds(f, b) /\ x \in ToSet(tree[f][b].items)
    BY <1>2, <2>2 DEF Given
  <2>4. r \in FromBlock(b, tree[f][b].items, config.vars)
    BY <2>2, <2>3, BlockOfItems
  <2> QED
    BY <2>3, <2>4
<1>4. ASSUME NEW r \in ofFiles
      PROVE  r \in config.resources
  <2>1. PICK b \in Blocks, f \in crawl :
          Holds(f, b) /\ r \in FromBlock(b, tree[f][b].items, config.vars)
    OBVIOUS
  <2>2. PICK x \in ToSet(tree[f][b].items) : r \in FromItem(b, x, config.vars)
    BY <2>1, BlockOfItems
  <2>3. b \in DOMAIN yaml /\ x \in ToSet(yaml[b].items)
    BY <1>1, <2>1 DEF Kept
  <2>4. r \in FromBlock(b, yaml[b].items, config.vars)
    BY <2>2, <2>3, BlockOfItems
  <2> QED
    BY <1>1, <2>3, <2>4 DEF _resources_for_config
<1>5. ASSUME NEW f \in crawl, NEW s \in Settings, Holds(f, s), Truthy(tree[f][s])
      PROVE  IF tree[f][s].kind = "list"
               THEN ToSet(tree[f][s].items) \subseteq ToSet(config[s].items)
               ELSE config[s] = tree[f][s]
  <2>1. Kept(f, s) /\ isValue(tree[f][s]) /\ isValue(yaml[s])
    BY <1>1, <1>2, <1>5 DEF Kept, Given
  <2>2. tree[f][s].kind \in {"list", "scalar"}
    BY <1>5, <2>1, ValueKinds
  <2>3. Truthy(yaml[s])
    <3>1. CASE tree[f][s].kind = "scalar"
      BY <1>5, <2>1, <3>1 DEF Kept
    <3>2. CASE tree[f][s].kind = "list"
      <4>1. ToSet(tree[f][s].items) # {}
        BY <1>5, <2>1, <3>2, ToSetEmpty, ValueKinds
      <4>2. yaml[s].kind = "list" /\ ToSet(yaml[s].items) # {}
        BY <2>1, <3>2, <4>1 DEF Kept
      <4> QED
        BY <2>1, <4>2, ToSetEmpty, ValueKinds
    <3> QED
      BY <2>2, <3>1, <3>2
  <2>4. config[s] = yaml[s]
    BY <1>1, <2>1, <2>3 DEF Setting, Get, Kept
  <2> QED
    BY <2>1, <2>2, <2>4 DEF Kept
<1> QED
  BY <1>3, <1>4, <1>5 DEF NothingLost

\* Nothing a file declares is lost: whatever the files and the order of the walk,
\* the resources of an accepted config are those of all files together (in sync
\* mode the others would be dropped) and each setting of a file is in force.
THEOREM NothingIsLost == Spec => []NothingLost
BY Invariance, NothingLostInv, PTL

-----------------------------------------------------------------------------
\* The order of the files.  Unless order matters, what is merged of a set of
\* files is their sum, up to the order of its lists; sums of the same files agree;
\* and configs that agree are refused alike, or accepted alike.

Known == Blocks \cup Settings \cup {"vars"}

Holders(F, k) == {f \in F : Holds(f, k)}

\* A value of a known key, among what files F say of it.
SumValue(v, F, k) ==
  /\ \A f \in Holders(F, k) : tree[f][k].kind = v.kind
  /\ (v.kind # "list" \/ k \in Settings \ {"allowlist"}) =>
       \E f \in F : Holders(F, k) = {f} /\ v = tree[f][k]
  /\ ToSet(v.items) = UNION {ToSet(tree[f][k].items) : f \in Holders(F, k)}

SumSpecs(v, F) ==
  \A f \in Holders(F, "vars") : \A n \in Names(tree[f]["vars"].items) :
    n \in Names(v.items) /\ SpecOf(v.items, n) = SpecOf(tree[f]["vars"].items, n)

SumOf(c, F) ==
  /\ \A f \in F : tree[f] # EmptyFile
  /\ \A k : k \in DOMAIN c <=> Holders(F, k) # {}
  /\ \A k \in DOMAIN c : isValue(c[k]) /\ (k \in Known => SumValue(c[k], F, k))
  /\ "vars" \in DOMAIN c => SumSpecs(c["vars"], F)

\* A name's first spec in a list that another follows, or is preceded by.
LEMMA SpecOfConcat ==
  ASSUME NEW s, NEW t, s \in Seq(ToSet(s)), t \in Seq(ToSet(t)), NEW n
  PROVE  /\ n \in Names(s) => n \in Names(s \o t) /\ SpecOf(s \o t, n) = SpecOf(s, n)
         /\ n \in Names(t) /\ n \notin Names(s) =>
              n \in Names(s \o t) /\ SpecOf(s \o t, n) = SpecOf(t, n)
<1> DEFINE at(u) == {i \in DOMAIN u : u[i].name = n}
           st == s \o t
<1>1. /\ Len(s) \in Nat /\ Len(t) \in Nat
      /\ DOMAIN s = 1 .. Len(s) /\ DOMAIN t = 1 .. Len(t)
      /\ DOMAIN st = 1 .. Len(s) + Len(t)
      /\ \A i \in DOMAIN s : st[i] = s[i]
      /\ \A i \in DOMAIN t : st[Len(s) + i] = t[i]
  <2>1. s \in Seq(ToSet(s) \cup ToSet(t)) /\ t \in Seq(ToSet(s) \cup ToSet(t))
    BY SeqMonotonic
  <2> QED
    BY <2>1, ConcatProperties, LenProperties
<1>2. \A u : n \in Names(u) <=> at(u) # {}
  BY DEF Names
<1>3. \A u : SpecOf(u, n) = u[Min(at(u))]
  BY DEF SpecOf
<1>4. ASSUME NEW I \in SUBSET Nat, NEW m \in I, \A i \in I : m <= i
      PROVE  Min(I) = m
  <2>1. Min(I) \in I /\ \A i \in I : Min(I) <= i
    BY <1>4 DEF Min
  <2>2. Min(I) <= m /\ m <= Min(I) /\ m \in Nat /\ Min(I) \in Nat
    BY <1>4, <2>1
  <2> QED
    BY <2>2
<1>5. ASSUME n \in Names(s)
      PROVE  n \in Names(st) /\ SpecOf(st, n) = SpecOf(s, n)
  <2>1. at(s) # {} /\ at(s) \in SUBSET Nat /\ at(st) \in SUBSET Nat
    BY <1>1, <1>2, <1>5
  <2>2. PICK m \in at(s) : \A i \in at(s) : m <= i
    <3> HIDE DEF at
    <3> QED
      BY <2>1, Least
  <2>3. m \in at(st) /\ \A i \in at(st) : m <= i
    BY <1>1, <2>2
  <2>4. Min(at(s)) = m /\ Min(at(st)) = m
    <3> HIDE DEF at
    <3> QED
      BY <1>4, <2>1, <2>2, <2>3
  <2>5. n \in Names(st)
    BY <1>2, <2>3
  <2>6. SpecOf(s, n) = s[m] /\ SpecOf(st, n) = st[m]
    BY <1>3, <2>4
  <2> QED
    BY <1>1, <2>2, <2>5, <2>6
<1>6. ASSUME n \in Names(t), n \notin Names(s)
      PROVE  n \in Names(st) /\ SpecOf(st, n) = SpecOf(t, n)
  <2>1. at(s) = {} /\ at(t) # {} /\ at(t) \in SUBSET Nat /\ at(st) \in SUBSET Nat
    BY <1>1, <1>2, <1>6
  <2>2. PICK m \in at(t) : \A i \in at(t) : m <= i
    <3> HIDE DEF at
    <3> QED
      BY <2>1, Least
  <2>3. Len(s) + m \in at(st)
    BY <1>1, <2>2
  <2>4. ASSUME NEW i \in at(st)
        PROVE  Len(s) + m <= i
    <3>1. i \notin DOMAIN s
      BY <1>1, <2>1
    <3>2. i - Len(s) \in DOMAIN t /\ i = Len(s) + (i - Len(s))
      BY <1>1, <3>1
    <3>3. i - Len(s) \in at(t)
      BY <1>1, <3>2
    <3> QED
      BY <1>1, <2>2, <3>3
  <2>5. Min(at(t)) = m /\ Min(at(st)) = Len(s) + m
    <3> HIDE DEF at
    <3> QED
      BY <1>4, <2>1, <2>2, <2>3, <2>4
  <2>6. n \in Names(st)
    BY <1>2, <2>3
  <2>7. SpecOf(t, n) = t[m] /\ SpecOf(st, n) = st[Len(s) + m]
    BY <1>3, <2>5
  <2> QED
    BY <1>1, <2>2, <2>6, <2>7
<1> QED
  BY <1>5, <1>6

\* What a file that crawl finds may say.
LEMMA FileValues ==
  ASSUME tree \in [File -> Contents], NEW f, NEW k, Holds(f, k)
  PROVE  isValue(tree[f][k])
<1>1. tree[f] \in Contents \ {EmptyFile, Ignored} /\ k \in DOMAIN tree[f]
  BY DEF Holds, crawl
<1> QED
  BY <1>1, ConfigAssumption

\* Two files that hold a known key.
LEMMA Disjoint ==
  ASSUME ~ OrderMatters, NEW f, NEW g, f # g, NEW k \in Known, Holds(f, k), Holds(g, k)
  PROVE  /\ tree[f][k] # Null
         /\ k \in Settings \ {"allowlist"} =>
              ~ (tree[f][k].kind = "list" /\ tree[g][k].kind = "list")
         /\ k = "vars" => Names(tree[f]["vars"].items) \cap Names(tree[g]["vars"].items) = {}
<1>1. f \in crawl /\ g \in crawl
  BY DEF Holds
<1> QED
  BY <1>1 DEF OrderMatters, Known

LEMMA EmptySum ==
  /\ DOMAIN Empty = {}
  /\ SumOf(Empty, {})
<1>1. DOMAIN Empty = {}
  BY DEF Empty
<1>2. \A k : Holders({}, k) = {}
  BY DEF Holders
<1> QED
  BY <1>1, <1>2, Zenon DEF SumOf

\* The sum of one file more.
LEMMA SumStep ==
  ASSUME ~ OrderMatters, tree \in [File -> Contents],
         NEW F \in SUBSET crawl, NEW f \in crawl \ F,
         NEW c, SumOf(c, F), CanMerge(c, f), NEW m, m = merge_configs(c, tree[f])
  PROVE  SumOf(m, F \cup {f})
<1> DEFINE t == tree[f]
           G == F \cup {f}
<1>1. t # EmptyFile /\ ~ Conflict(c, t)
  BY DEF CanMerge
<1>2. \A k : Holds(f, k) <=> k \in DOMAIN t
  BY <1>1 DEF Holds
<1>3. \A k : /\ k \in DOMAIN t => Holders(G, k) = Holders(F, k) \cup {f}
             /\ k \notin DOMAIN t => Holders(G, k) = Holders(F, k)
  BY <1>2 DEF Holders
<1>4. /\ \A k : k \in DOMAIN c <=> Holders(F, k) # {}
      /\ \A k \in DOMAIN c : k \in Known => SumValue(c[k], F, k)
      /\ "vars" \in DOMAIN c => SumSpecs(c["vars"], F)
  BY DEF SumOf
<1>5. DOMAIN m = DOMAIN c \cup DOMAIN t
  BY DEF merge_configs
<1>6. \A k : k \in DOMAIN m <=> Holders(G, k) # {}
  BY <1>3, <1>4, <1>5
<1>7. (\A k \in DOMAIN c : isValue(c[k])) /\ (\A k \in DOMAIN t : isValue(t[k]))
  BY <1>2, FileValues DEF SumOf
<1>8. ASSUME NEW k \in DOMAIN m
      PROVE  /\ isValue(m[k])
             /\ k \in DOMAIN c /\ k \notin DOMAIN t => m[k] = c[k]
             /\ k \notin DOMAIN c => m[k] = t[k]
             /\ k \in DOMAIN c /\ k \in DOMAIN t =>
                  \/ c[k].kind = "null"
                  \/ /\ c[k].kind = "list" /\ t[k].kind = "list" /\ m[k].kind = "list"
                     /\ m[k] = Items(c[k].items \o t[k].items)
                     /\ ToSet(m[k].items) = ToSet(c[k].items) \cup ToSet(t[k].items)
  <2>1. k \in DOMAIN c \cup DOMAIN t
    BY <1>5
  <2>2. /\ isValue(m[k])
        /\ k \in DOMAIN c /\ k \notin DOMAIN t => m[k] = c[k]
        /\ k \notin DOMAIN c /\ k \in DOMAIN t => m[k] = t[k]
        /\ k \in DOMAIN c /\ k \in DOMAIN t =>
             \/ c[k].kind = "null" /\ m[k] = t[k]
             \/ /\ c[k].kind = "list" /\ t[k].kind = "list" /\ m[k].kind = "list"
                /\ ToSet(m[k].items) = ToSet(c[k].items) \cup ToSet(t[k].items)
    BY <1>1, <1>7, <2>1, MergedValue
  <2>3. k \in DOMAIN c /\ k \in DOMAIN t /\ c[k].kind = "list" => m[k] = Items(c[k].items \o t[k].items)
    BY DEF merge_configs
  <2> QED
    BY <2>1, <2>2, <2>3
<1>9. ASSUME NEW k \in Known, k \in DOMAIN c, k \in DOMAIN t
      PROVE  /\ c[k].kind = "list" /\ t[k].kind = "list"
             /\ k \notin Settings \ {"allowlist"}
  <2>1. SumValue(c[k], F, k)
    BY <1>9 DEF SumOf
  <2>2. ASSUME NEW g \in Holders(F, k)
        PROVE  /\ tree[g][k] # Null
               /\ k \in Settings \ {"allowlist"} => ~ (tree[g][k].kind = "list" /\ t[k].kind = "list")
    <3>1. Holds(g, k) /\ Holds(f, k) /\ g # f
      BY <1>2, <1>9 DEF Holders
    <3> QED
      BY <3>1, Disjoint
  <2>3. c[k].kind = "list" /\ t[k].kind = "list"
    <3>1. ASSUME c[k].kind = "null"
          PROVE  FALSE
      <4>1. PICK g \in F : Holders(F, k) = {g} /\ c[k] = tree[g][k]
        BY <2>1, <3>1 DEF SumValue
      <4>2. c[k] = Null
        BY <1>7, <1>9, <3>1, ValueKinds
      <4> QED
        BY <2>2, <4>1, <4>2
    <3> QED
      BY <1>5, <1>8, <1>9, <3>1
  <2>4. PICK g : g \in Holders(F, k)
    BY <1>4, <1>9
  <2>5. tree[g][k].kind = "list"
    BY <2>1, <2>3, <2>4 DEF SumValue
  <2> QED
    BY <2>2, <2>3, <2>4, <2>5
<1>10. ASSUME NEW k \in DOMAIN m, k \in Known
       PROVE  SumValue(m[k], G, k)
  <2>1. CASE k \in DOMAIN c /\ k \notin DOMAIN t
    <3>1. m[k] = c[k] /\ Holders(G, k) = Holders(F, k) /\ SumValue(c[k], F, k)
      BY <1>3, <1>4, <1>8, <1>10, <2>1
    <3> QED
      BY <3>1 DEF SumValue
  <2>2. CASE k \notin DOMAIN c
    <3>1. m[k] = t[k] /\ Holders(G, k) = {f}
      BY <1>3, <1>4, <1>5, <1>8, <2>2
    <3> QED
      BY <3>1 DEF SumValue
  <2>3. CASE k \in DOMAIN c /\ k \in DOMAIN t
    <3>1. /\ c[k].kind = "list" /\ t[k].kind = "list" /\ m[k].kind = "list"
          /\ k \notin Settings \ {"allowlist"}
          /\ ToSet(m[k].items) = ToSet(c[k].items) \cup ToSet(t[k].items)
      BY <1>8, <1>9, <1>10, <2>3
    <3>2. Holders(G, k) = Holders(F, k) \cup {f} /\ SumValue(c[k], F, k)
      BY <1>3, <1>4, <1>10, <2>3
    <3>3. ASSUME NEW g \in Holders(G, k)
          PROVE  tree[g][k].kind = m[k].kind
      BY <3>1, <3>2 DEF SumValue
    <3>4. ToSet(m[k].items) = UNION {ToSet(tree[g][k].items) : g \in Holders(G, k)}
      <4>1. ToSet(c[k].items) = UNION {ToSet(tree[g][k].items) : g \in Holders(F, k)}
        BY <3>2 DEF SumValue
      <4> QED
        BY <3>1, <3>2, <4>1
    <3> QED
      BY <3>1, <3>3, <3>4 DEF SumValue
  <2> QED
    BY <1>5, <2>1, <2>2, <2>3
<1>11. ASSUME "vars" \in DOMAIN m
       PROVE  SumSpecs(m["vars"], G)
  <2>1. "vars" \in Known
    BY DEF Known
  <2>2. CASE "vars" \in DOMAIN c /\ "vars" \notin DOMAIN t
    <3>1. m["vars"] = c["vars"] /\ Holders(G, "vars") = Holders(F, "vars") /\ SumSpecs(c["vars"], F)
      BY <1>3, <1>4, <1>8, <1>11, <2>2
    <3> QED
      BY <3>1 DEF SumSpecs
  <2>3. CASE "vars" \notin DOMAIN c
    <3>1. m["vars"] = t["vars"] /\ Holders(G, "vars") = {f}
      BY <1>3, <1>4, <1>5, <1>8, <1>11, <2>3
    <3> QED
      BY <3>1 DEF SumSpecs
  <2>4. CASE "vars" \in DOMAIN c /\ "vars" \in DOMAIN t
    <3> DEFINE s == c["vars"].items
               u == t["vars"].items
    <3>1. c["vars"].kind = "list" /\ t["vars"].kind = "list"
      BY <1>9, <2>1, <2>4
    <3>2. m["vars"].items = s \o u
      <4>1. m["vars"] = Items(s \o u)
        BY <1>8, <1>11, <2>4, <3>1
      <4> QED
        BY <4>1, ValueFields, Zenon
    <3>3. s \in Seq(ToSet(s)) /\ u \in Seq(ToSet(u))
      BY <1>7, <2>4, ValueKinds
    <3>4. Holders(G, "vars") = Holders(F, "vars") \cup {f} /\ SumSpecs(c["vars"], F)
      BY <1>3, <1>4, <2>4
    <3>5. ASSUME NEW n \in Names(u)
          PROVE  n \notin Names(s)
      <4>1. SUFFICES ASSUME n \in Names(s) PROVE FALSE
        OBVIOUS
      <4>2. PICK x \in ToSet(s) : x.name = n
        BY <4>1 DEF Names, ToSet
      <4>3. SumValue(c["vars"], F, "vars")
        BY <2>1, <2>4 DEF SumOf
      <4>4. PICK g \in Holders(F, "vars") : x \in ToSet(tree[g]["vars"].items)
        BY <4>2, <4>3 DEF SumValue
      <4>5. n \in Names(tree[g]["vars"].items)
        BY <4>2, <4>4 DEF Names, ToSet
      <4>6. Holds(g, "vars") /\ Holds(f, "vars") /\ g # f
        BY <1>2, <2>4, <4>4 DEF Holders
      <4> QED
        BY <2>1, <3>5, <4>5, <4>6, Disjoint
    <3>6. ASSUME NEW g \in Holders(G, "vars"), NEW n \in Names(tree[g]["vars"].items)
          PROVE  n \in Names(s \o u) /\ SpecOf(s \o u, n) = SpecOf(tree[g]["vars"].items, n)
      <4>1. CASE g \in Holders(F, "vars")
        <5>1. n \in Names(s) /\ SpecOf(s, n) = SpecOf(tree[g]["vars"].items, n)
          BY <3>4, <3>6, <4>1 DEF SumSpecs
        <5> QED
          BY <3>3, <5>1, SpecOfConcat
      <4>2. CASE g = f
        <5>1. n \in Names(u) /\ n \notin Names(s)
          BY <3>5, <3>6, <4>2
        <5> QED
          BY <3>3, <4>2, <5>1, SpecOfConcat
      <4> QED
        BY <3>4, <3>6, <4>1, <4>2
    <3> QED
      BY <3>2, <3>6 DEF SumSpecs
  <2> QED
    BY <1>5, <1>11, <2>2, <2>3, <2>4
<1>12. \A g \in G : tree[g] # EmptyFile
  BY <1>1 DEF SumOf
<1> QED
  BY <1>6, <1>8, <1>10, <1>11, <1>12 DEF SumOf

\* Where all files have been merged in some order and every key is known, no
\* other order conflicts.
LEMMA MergeSafe ==
  ASSUME NEW all, SumOf(all, crawl), DOMAIN all \subseteq Known,
         NEW F \in SUBSET crawl, NEW c, SumOf(c, F), NEW f \in crawl \ F
  PROVE  CanMerge(c, f)
<1>1. tree[f] # EmptyFile
  BY DEF SumOf
<1>2. SUFFICES ASSUME NEW k \in DOMAIN c \cap DOMAIN tree[f]
               PROVE  c[k].kind = "list" /\ tree[f][k].kind = "list"
  BY <1>1 DEF CanMerge, Conflict
<1>3. PICK g : g \in Holders(F, k)
  BY DEF SumOf
<1>4. f \in Holders(crawl, k) /\ g \in Holders(crawl, k) /\ f # g
  BY <1>1, <1>3 DEF Holders, Holds
<1>5. k \in DOMAIN all /\ k \in Known
  BY <1>4 DEF SumOf
<1>6. SumValue(all[k], crawl, k) /\ SumValue(c[k], F, k)
  BY <1>5 DEF SumOf
<1>7. all[k].kind = "list"
  <2>1. ASSUME NEW h \in crawl, Holders(crawl, k) = {h}
        PROVE  FALSE
    BY <1>4, <2>1
  <2> QED
    BY <1>6, <2>1 DEF SumValue
<1>8. tree[f][k].kind = "list" /\ tree[g][k].kind = "list"
  BY <1>4, <1>6, <1>7 DEF SumValue
<1> QED
  BY <1>3, <1>6, <1>8 DEF SumValue

-----------------------------------------------------------------------------
\* Two configs that differ in the order of their lists only, and in none that
\* counts.
Agree(c1, c2) ==
  /\ DOMAIN c1 = DOMAIN c2
  /\ \A k \in DOMAIN c1 :
       /\ isValue(c1[k]) /\ isValue(c2[k])
       /\ c1[k].kind = c2[k].kind
       /\ ToSet(c1[k].items) = ToSet(c2[k].items)
       /\ (c1[k].kind # "list" \/ k \in Settings \ {"allowlist"}) => c1[k] = c2[k]
  /\ "vars" \in DOMAIN c1 =>
       \A n \in Names(c1["vars"].items) :
         SpecOf(c1["vars"].items, n) = SpecOf(c2["vars"].items, n)

LEMMA NullValue == isValue(Null) /\ ~ Truthy(Null)
BY ValueFields, Zenon DEF isValue, Truthy

LEMMA SettingOf ==
  ASSUME NEW c, NEW flags, NEW key
  PROVE  Setting(c, flags, key) =
           IF Truthy(Get(c, key)) THEN Get(c, key)
           ELSE IF Truthy(Get(flags, key)) THEN Get(flags, key) ELSE Null
<1>1. Truthy(Get(c, key)) => c[key] = Get(c, key)
  BY NullValue DEF Get
<1>2. Truthy(Get(flags, key)) => flags[key] = Get(flags, key)
  BY NullValue DEF Get
<1> QED
  BY <1>1, <1>2 DEF Setting

LEMMA SumsAgree ==
  ASSUME NEW F, NEW c1, NEW c2, SumOf(c1, F), SumOf(c2, F), DOMAIN c1 \subseteq Known
  PROVE  Agree(c1, c2)
<1>1. DOMAIN c1 = DOMAIN c2
  <2>1. \A k : k \in DOMAIN c1 <=> k \in DOMAIN c2
    BY DEF SumOf
  <2> QED
    BY <2>1
<1>2. ASSUME NEW k \in DOMAIN c1
      PROVE  /\ isValue(c1[k]) /\ isValue(c2[k])
             /\ SumValue(c1[k], F, k) /\ SumValue(c2[k], F, k)
             /\ \E f : f \in Holders(F, k)
  BY <1>1 DEF SumOf
<1>3. ASSUME NEW k \in DOMAIN c1
      PROVE  /\ c1[k].kind = c2[k].kind
             /\ ToSet(c1[k].items) = ToSet(c2[k].items)
             /\ (c1[k].kind # "list" \/ k \in Settings \ {"allowlist"}) => c1[k] = c2[k]
  <2>1. PICK f : f \in Holders(F, k)
    BY <1>2
  <2>2. c1[k].kind = c2[k].kind
    BY <1>2, <2>1 DEF SumValue
  <2>3. ToSet(c1[k].items) = ToSet(c2[k].items)
    BY <1>2 DEF SumValue
  <2>4. ASSUME c1[k].kind # "list" \/ k \in Settings \ {"allowlist"}
        PROVE  c1[k] = c2[k]
    <3>1. PICK g \in F : Holders(F, k) = {g} /\ c1[k] = tree[g][k]
      BY <1>2, <2>4 DEF SumValue
    <3>2. PICK h \in F : Holders(F, k) = {h} /\ c2[k] = tree[h][k]
      BY <1>2, <2>2, <2>4 DEF SumValue
    <3> QED
      BY <3>1, <3>2
  <2> QED
    BY <2>2, <2>3, <2>4
<1>4. ASSUME "vars" \in DOMAIN c1, NEW n \in Names(c1["vars"].items)
      PROVE  SpecOf(c1["vars"].items, n) = SpecOf(c2["vars"].items, n)
  <2>1. SumSpecs(c1["vars"], F) /\ SumSpecs(c2["vars"], F) /\ SumValue(c1["vars"], F, "vars")
    BY <1>1, <1>2, <1>4 DEF SumOf
  <2>2. PICK x \in ToSet(c1["vars"].items) : x.name = n
    BY <1>4 DEF Names, ToSet
  <2>3. PICK f \in Holders(F, "vars") : x \in ToSet(tree[f]["vars"].items)
    BY <2>1, <2>2 DEF SumValue
  <2>4. n \in Names(tree[f]["vars"].items)
    BY <2>2, <2>3 DEF Names, ToSet
  <2> QED
    BY <2>1, <2>3, <2>4 DEF SumSpecs
<1> QED
  BY <1>1, <1>2, <1>3, <1>4 DEF Agree

LEMMA NamesOfSet == \A s : Names(s) = {x.name : x \in ToSet(s)}
BY DEF Names, ToSet

\* What is made of a list of specs.
LEMMA SpecsAgree ==
  ASSUME NEW s1, NEW s2, ToSet(s1) = ToSet(s2),
         \A n \in Names(s1) : SpecOf(s1, n) = SpecOf(s2, n),
         NEW given
  PROVE  /\ Names(s1) = Names(s2)
         /\ Missing(s1, given) <=> Missing(s2, given)
         /\ set_vars_defaults(s1, given) = set_vars_defaults(s2, given)
<1>1. Names(s1) = Names(s2)
  BY NamesOfSet
<1>2. Missing(s1, given) <=> Missing(s2, given)
  BY <1>1 DEF Missing
<1>3. set_vars_defaults(s1, given) = set_vars_defaults(s2, given)
  BY <1>1 DEF set_vars_defaults
<1> QED
  BY <1>1, <1>2, <1>3

\* What of a value does not depend on the order of its list.
LEMMA ValuesAgree ==
  ASSUME NEW c1, NEW c2, Agree(c1, c2), NEW k
  PROVE  /\ k \in DOMAIN c1 <=> k \in DOMAIN c2
         /\ isValue(Get(c1, k)) /\ isValue(Get(c2, k))
         /\ Get(c1, k).kind = Get(c2, k).kind
         /\ ToSet(Get(c1, k).items) = ToSet(Get(c2, k).items)
         /\ Get(c1, k).items = <<>> <=> Get(c2, k).items = <<>>
         /\ Truthy(Get(c1, k)) <=> Truthy(Get(c2, k))
         /\ (Get(c1, k).kind # "list" \/ k \in Settings \ {"allowlist"}) => Get(c1, k) = Get(c2, k)
<1>1. k \in DOMAIN c1 <=> k \in DOMAIN c2
  BY DEF Agree
<1>2. CASE k \notin DOMAIN c1
  <2>1. Get(c1, k) = Null /\ Get(c2, k) = Null
    BY <1>1, <1>2 DEF Get
  <2> QED
    BY <1>1, <2>1, NullValue
<1>3. CASE k \in DOMAIN c1
  <2> DEFINE v == c1[k]
             w == c2[k]
  <2>1. Get(c1, k) = v /\ Get(c2, k) = w
    BY <1>1, <1>3 DEF Get
  <2>2. /\ isValue(v) /\ isValue(w) /\ v.kind = w.kind /\ ToSet(v.items) = ToSet(w.items)
        /\ (v.kind # "list" \/ k \in Settings \ {"allowlist"}) => v = w
    BY <1>3 DEF Agree
  <2> HIDE DEF v, w
  <2>3. v.items = <<>> <=> w.items = <<>>
    <3>1. v.items \in Seq(ToSet(v.items)) /\ w.items \in Seq(ToSet(w.items))
      BY <2>2, ValueKinds
    <3>2. (v.items = <<>> <=> ToSet(v.items) = {}) /\ (w.items = <<>> <=> ToSet(w.items) = {})
      BY <3>1, ToSetEmpty
    <3> QED
      BY <2>2, <3>2
  <2>4. Truthy(v) <=> Truthy(w)
    <3>1. v.kind = "list" => (Truthy(v) <=> v.items # <<>>) /\ (Truthy(w) <=> w.items # <<>>)
      BY <2>2, ValueKinds
    <3>2. CASE v.kind = "list"
      BY <2>3, <3>1, <3>2
    <3>3. CASE v.kind # "list"
      BY <2>2, <3>3
    <3> QED
      BY <3>2, <3>3
  <2> QED
    BY <1>1, <2>1, <2>2, <2>3, <2>4
<1> QED
  BY <1>2, <1>3

LEMMA InputVarsAgree ==
  ASSUME NEW c1, NEW c2, Agree(c1, c2)
  PROVE  /\ InputVars(c1) = InputVars(c2)
         /\ Truthy(Get(c1, "vars")) =>
              /\ Truthy(Get(c2, "vars")) /\ c1["vars"].kind = c2["vars"].kind
              /\ Missing(c1["vars"].items, merge_vars) <=> Missing(c2["vars"].items, merge_vars)
<1>1. /\ Truthy(Get(c1, "vars")) <=> Truthy(Get(c2, "vars"))
      /\ "vars" \in DOMAIN c1 <=> "vars" \in DOMAIN c2
  BY ValuesAgree
<1>2. CASE Truthy(Get(c1, "vars"))
  <2>1. "vars" \in DOMAIN c1
    BY <1>2, NullValue DEF Get
  <2>2. /\ ToSet(c1["vars"].items) = ToSet(c2["vars"].items) /\ c1["vars"].kind = c2["vars"].kind
        /\ \A n \in Names(c1["vars"].items) :
             SpecOf(c1["vars"].items, n) = SpecOf(c2["vars"].items, n)
    BY <2>1 DEF Agree
  <2>3. /\ Missing(c1["vars"].items, merge_vars) <=> Missing(c2["vars"].items, merge_vars)
        /\ set_vars_defaults(c1["vars"].items, merge_vars) =
             set_vars_defaults(c2["vars"].items, merge_vars)
    BY <2>2, SpecsAgree
  <2> QED
    BY <1>1, <1>2, <2>2, <2>3 DEF InputVars
<1>3. CASE ~ Truthy(Get(c1, "vars"))
  BY <1>1, <1>3 DEF InputVars
<1> QED
  BY <1>2, <1>3

LEMMA BlocksAgree ==
  ASSUME NEW c1, NEW c2, Agree(c1, c2), NEW given
  PROVE  /\ \A b \in Blocks : BadBlock(c1, b, given) <=> BadBlock(c2, b, given)
         /\ _resources_for_config(c1, given) = _resources_for_config(c2, given)
<1>1. DOMAIN c1 = DOMAIN c2
  BY DEF Agree
<1>2. ASSUME NEW b \in DOMAIN c1
      PROVE  /\ FromBlock(b, c1[b].items, given) = FromBlock(b, c2[b].items, given)
             /\ c1[b].kind = c2[b].kind /\ ToSet(c1[b].items) = ToSet(c2[b].items)
             /\ c1[b].items = <<>> <=> c2[b].items = <<>>
             /\ Truthy(c1[b]) <=> Truthy(c2[b])
  <2>1. Get(c1, b) = c1[b] /\ Get(c2, b) = c2[b]
    BY <1>1 DEF Get
  <2>2. /\ c1[b].kind = c2[b].kind /\ ToSet(c1[b].items) = ToSet(c2[b].items)
        /\ c1[b].items = <<>> <=> c2[b].items = <<>>
        /\ Truthy(c1[b]) <=> Truthy(c2[b])
    BY <2>1, ValuesAgree
  <2>3. FromBlock(b, c1[b].items, given) = FromBlock(b, c2[b].items, given)
    BY <2>2, BlockOfItems
  <2> QED
    BY <2>2, <2>3
<1>3. \A s : (\E i \in DOMAIN s : BadEach(s[i], given)) <=> (\E x \in ToSet(s) : BadEach(x, given))
  BY DEF ToSet
<1>4. ASSUME NEW b \in Blocks
      PROVE  BadBlock(c1, b, given) <=> BadBlock(c2, b, given)
  <2>1. CASE b \notin DOMAIN c1
    BY <1>1, <2>1 DEF BadBlock
  <2>2. CASE b \in DOMAIN c1
    <3> DEFINE each(c) == \E i \in DOMAIN c[b].items : BadEach(c[b].items[i], given)
    <3>1. each(c1) <=> each(c2)
      BY <1>2, <1>3, <2>2
    <3>2. \A c : b \in DOMAIN c =>
            (BadBlock(c, b, given) <=>
               IF b \in SpecialBlocks
               THEN \/ c[b].kind # "list"
                    \/ /\ b = "role_grants" /\ c[b].items # <<>>
                       /\ FromBlock(b, c[b].items, given) = {}
               ELSE \/ c[b].kind = "scalar" /\ Truthy(c[b])
                    \/ each(c))
      BY DEF BadBlock
    <3> HIDE DEF each
    <3> QED
      BY <1>1, <1>2, <2>2, <3>1, <3>2
  <2> QED
    BY <2>1, <2>2
<1>5. _resources_for_config(c1, given) = _resources_for_config(c2, given)
  <2>1. Blocks \cap DOMAIN c1 = Blocks \cap DOMAIN c2
    BY <1>1
  <2> QED
    BY <1>2, <2>1 DEF _resources_for_config
<1> QED
  BY <1>4, <1>5

LEMMA CollectAgrees ==
  ASSUME NEW c1, NEW c2, Agree(c1, c2)
  PROVE  CanCollect(c1) <=> CanCollect(c2)
<1> DEFINE given == InputVars(c1)
<1>1. DOMAIN c1 = DOMAIN c2
  BY DEF Agree
<1>2. InputVars(c2) = given
  BY InputVarsAgree
<1>3. \A c : CanCollect(c) <=>
        /\ ~ VarsConflict
        /\ OneSided \cap DOMAIN c \cap DOMAIN cli_config = {}
        /\ Truthy(Get(c, "vars")) =>
             c["vars"].kind = "list" /\ ~ Missing(c["vars"].items, merge_vars)
        /\ ~ \E b \in Blocks : BadBlock(c, b, InputVars(c))
        /\ _resources_for_config(c, InputVars(c)) # {}
        /\ DOMAIN c \subseteq Blocks \cup Settings \cup {"vars"}
  BY DEF CanCollect
<1>4. /\ \A b \in Blocks : BadBlock(c1, b, given) <=> BadBlock(c2, b, given)
      /\ _resources_for_config(c1, given) = _resources_for_config(c2, given)
  BY BlocksAgree
<1>5. (Truthy(Get(c1, "vars")) =>
         c1["vars"].kind = "list" /\ ~ Missing(c1["vars"].items, merge_vars)) <=>
      (Truthy(Get(c2, "vars")) =>
         c2["vars"].kind = "list" /\ ~ Missing(c2["vars"].items, merge_vars))
  <2>1. Truthy(Get(c1, "vars")) <=> Truthy(Get(c2, "vars"))
    BY ValuesAgree
  <2> QED
    BY <2>1, InputVarsAgree
<1> HIDE DEF given
<1> QED
  BY <1>1, <1>2, <1>3, <1>4, <1>5 DEF given

LEMMA ListText ==
  ASSUME NEW v, isValue(v), v.kind = "list"
  PROVE  v.text = ""
<1>1. PICK x : v = Items(x)
  BY ValueKinds
<1> QED
  BY <1>1, ValueFields

\* Of configs that agree, the same config comes, up to the order of its lists.
LEMMA ConfigsAgree ==
  ASSUME NEW c1, NEW c2, Agree(c1, c2), cli \in Commands,
         NEW n1, n1 = collect_blueprint_config(c1),
         NEW n2, n2 = collect_blueprint_config(c2)
  PROVE  /\ Valid(n1) <=> Valid(n2)
         /\ Unordered(n1) = Unordered(n2)
<1> DEFINE all == Settings \cup {"vars", "vars_spec", "resources"}
           a1 == Get(c1, "vars").items
           a2 == Get(c2, "vars").items
<1>1. /\ DOMAIN n1 = all /\ DOMAIN n2 = all
      /\ \A s \in Settings : n1[s] = Setting(c1, cli_config, s) /\ n2[s] = Setting(c2, cli_config, s)
      /\ n1.vars = InputVars(c1) /\ n2.vars = InputVars(c2)
      /\ n1.vars_spec = a1 /\ n2.vars_spec = a2
      /\ n1.resources = _resources_for_config(c1, InputVars(c1))
      /\ n2.resources = _resources_for_config(c2, InputVars(c2))
  BY ConfigFields DEF collect_blueprint_config
<1>2. n1.vars = n2.vars /\ n1.resources = n2.resources
  BY <1>1, InputVarsAgree, BlocksAgree
<1>3. /\ isValue(Get(c1, "vars")) /\ isValue(Get(c2, "vars"))
      /\ ToSet(a1) = ToSet(a2) /\ (a1 = <<>> <=> a2 = <<>>)
  BY ValuesAgree
<1>4. Names(a1) = Names(a2) /\ \A n \in Names(a1) : SpecOf(a1, n) = SpecOf(a2, n)
  <2>1. Names(a1) = Names(a2)
    BY <1>3, NamesOfSet
  <2>2. CASE "vars" \in DOMAIN c1
    <3>1. a1 = c1["vars"].items /\ a2 = c2["vars"].items
      BY <2>2, ValuesAgree DEF Get
    <3>2. \A n \in Names(c1["vars"].items) :
            SpecOf(c1["vars"].items, n) = SpecOf(c2["vars"].items, n)
      BY <2>2 DEF Agree
    <3> QED
      BY <2>1, <3>1, <3>2
  <2>3. CASE "vars" \notin DOMAIN c1
    <3>1. Get(c1, "vars") = Null /\ Get(c2, "vars") = Null
      BY <2>3, ValuesAgree DEF Get
    <3> QED
      BY <2>1, <3>1
  <2> QED
    BY <2>2, <2>3, <2>1
<1>5. ASSUME NEW s \in Settings \ {"allowlist"}
      PROVE  n1[s] = n2[s]
  <2>1. Get(c1, s) = Get(c2, s)
    BY ValuesAgree
  <2>2. Setting(c1, cli_config, s) = Setting(c2, cli_config, s)
    BY <2>1, SettingOf
  <2> QED
    BY <1>1, <2>2
<1> DEFINE l1 == n1.allowlist
           l2 == n2.allowlist
<1>6. /\ isValue(l1) /\ isValue(l2)
      /\ l1.kind = l2.kind /\ l1.text = l2.text /\ ToSet(l1.items) = ToSet(l2.items)
      /\ l1 = Null <=> l2 = Null
  <2> DEFINE g1 == Get(c1, "allowlist")
             g2 == Get(c2, "allowlist")
             fl == Get(cli_config, "allowlist")
             rest == IF Truthy(fl) THEN fl ELSE Null
  <2>1. /\ isValue(g1) /\ isValue(g2) /\ g1.kind = g2.kind
        /\ ToSet(g1.items) = ToSet(g2.items) /\ (Truthy(g1) <=> Truthy(g2))
        /\ g1.kind # "list" => g1 = g2
    BY ValuesAgree
  <2>2. /\ l1 = IF Truthy(g1) THEN g1 ELSE rest
        /\ l2 = IF Truthy(g2) THEN g2 ELSE rest
    <3>1. "allowlist" \in Settings
      BY DEF Settings
    <3> QED
      BY <1>1, <3>1, SettingOf
  <2>4. CASE Truthy(g1)
    <3>1. l1 = g1 /\ l2 = g2
      BY <2>1, <2>2, <2>4
    <3>2. g1 # Null /\ g2 # Null
      BY <2>1, <2>4, NullValue
    <3>3. g1.text = g2.text
      <4>1. CASE g1.kind = "list"
        BY <2>1, <4>1, ListText
      <4> QED
        BY <2>1, <4>1
    <3> QED
      BY <2>1, <3>1, <3>2, <3>3
  <2>5. CASE ~ Truthy(g1)
    <3>1. l1 = rest /\ l2 = rest
      BY <2>1, <2>2, <2>5
    <3>2. isValue(fl)
      <4>1. \A k \in DOMAIN cli_config : isValue(cli_config[k])
        BY ConfigAssumption DEF cli_config
      <4> QED
        BY <4>1, NullValue DEF Get
    <3>3. isValue(rest)
      BY <3>2, NullValue
    <3> QED
      BY <3>1, <3>3
  <2> QED
    BY <2>4, <2>5
<1>7. Valid(n1) <=> Valid(n2)
  <2>1. NotAllowed(n1) <=> NotAllowed(n2)
    <3>1. ASSUME NEW t
          PROVE  Contains(l1.items, t) <=> Contains(l2.items, t)
      <4>1. l1.items \in Seq(ToSet(l1.items)) /\ l2.items \in Seq(ToSet(l2.items))
        BY <1>6, ValueKinds
      <4>2. \A q : q \in Seq(ToSet(q)) => (Contains(q, t) <=> t \in ToSet(q))
        BY LenProperties DEF Contains, ToSet
      <4> QED
        BY <1>6, <4>1, <4>2
    <3> QED
      BY <1>2, <1>6, <3>1 DEF NotAllowed
  <2>2. BadVars(n1) <=> BadVars(n2)
    <3>1. \A q : (\E i \in DOMAIN q : q[i].type \notin VarTypes) <=>
                 (\E x \in ToSet(q) : x.type \notin VarTypes)
      BY DEF ToSet
    <3>2. (\E i \in DOMAIN a1 : a1[i].type \notin VarTypes) <=>
          (\E i \in DOMAIN a2 : a2[i].type \notin VarTypes)
      BY <1>3, <3>1
    <3>3. \A n : (n \notin Names(a1) \/ SpecOf(a1, n).type # n1.vars[n].type) <=>
                 (n \notin Names(a2) \/ SpecOf(a2, n).type # n2.vars[n].type)
      BY <1>2, <1>4
    <3> QED
      BY <1>1, <1>2, <1>3, <3>2, <3>3 DEF BadVars
  <2>3. /\ n1.run_mode = n2.run_mode /\ n1.scope = n2.scope
        /\ n1.database = n2.database /\ n1.schema = n2.schema
    BY <1>5 DEF Settings
  <2> QED
    BY <1>6, <2>1, <2>2, <2>3 DEF Valid, BadScope
<1>8. Unordered(n1) = Unordered(n2)
  <2>1. [l1 EXCEPT !.items = ToSet(@)] = [l2 EXCEPT !.items = ToSet(@)]
    <3>1. \A v : isValue(v) => DOMAIN v = {"kind", "items", "text"}
      BY Zenon DEF isValue, Null, Text, Items
    <3>2. \A v : DOMAIN v = {"kind", "items", "text"} =>
            [v EXCEPT !.items = ToSet(@)] =
              [k \in {"kind", "items", "text"} |-> IF k = "items" THEN ToSet(v.items) ELSE v[k]]
      OBVIOUS
    <3> QED
      BY <1>6, <3>1, <3>2
  <2> DEFINE u1 == [l1 EXCEPT !.items = ToSet(@)]
             u2 == [l2 EXCEPT !.items = ToSet(@)]
             made(n, u, a) ==
               [k \in all |-> IF k = "vars_spec" THEN ToSet(a)
                              ELSE IF k = "allowlist" THEN u ELSE n[k]]
  <2>2. "allowlist" \in all /\ "vars_spec" \in all /\ "vars_spec" # "allowlist"
    BY DEF Settings
  <2>3. Unordered(n1) = made(n1, u1, a1) /\ Unordered(n2) = made(n2, u2, a2)
    BY <1>1, <2>2 DEF Unordered
  <2>4. ASSUME NEW k \in all, k # "vars_spec", k # "allowlist"
        PROVE  n1[k] = n2[k]
    BY <1>2, <1>5, <2>4
  <2> HIDE DEF u1, u2, all
  <2>5. made(n1, u1, a1) = made(n2, u2, a2)
    BY <1>3, <2>1, <2>4 DEF u1, u2
  <2> QED
    BY <2>3, <2>5
<1> QED
  BY <1>7, <1>8

-----------------------------------------------------------------------------
\* The files in an order.

LEMMA UpTo ==
  ASSUME NEW m \in Nat, NEW P, 0 \in P, \A n \in 1 .. m : n - 1 \in P => n \in P
  PROVE  0 .. m \subseteq P
<1> DEFINE B == (0 .. m) \ P
<1> SUFFICES ASSUME B # {} PROVE FALSE
  OBVIOUS
<1>1. B \in SUBSET Nat
  OBVIOUS
<1>2. PICK k \in B : \A x \in B : k <= x
  <2> HIDE DEF B
  <2> QED
    BY <1>1, Least
<1>3. k \in 1 .. m /\ k - 1 \in 0 .. m /\ k \notin P
  OBVIOUS
<1>4. k - 1 \in P
  BY <1>2, <1>3
<1> QED
  BY <1>3, <1>4

\* f is what is merged, file by file, of the first m files of an order.
Merges(f, order, m) ==
  /\ f[0] = Empty
  /\ \A n \in 1 .. m : f[n] = merge_configs(f[n - 1], tree[order[n]])

LEMMA MergesInOrder ==
  ASSUME NEW order, Len(order) \in Nat
  PROVE  Merges(MergedInOrder(order), order, Len(order))
<1> DEFINE m == Len(order)
           P == {k \in 0 .. m : \E f : Merges(f, order, k)}
           step(g) == [n \in 0 .. m |->
                        IF n = 0 THEN Empty ELSE merge_configs(g[n - 1], tree[order[n]])]
           h == CHOOSE g : g = step(g)
<1>1. 0 \in P
  <2>1. Merges([n \in {0} |-> Empty], order, 0)
    BY DEF Merges
  <2> QED
    BY <2>1
<1>2. ASSUME NEW k \in 1 .. m, k - 1 \in P
      PROVE  k \in P
  <2>1. PICK f : Merges(f, order, k - 1)
    BY <1>2
  <2> DEFINE g == [n \in 0 .. k |->
                     IF n = k THEN merge_configs(f[k - 1], tree[order[k]]) ELSE f[n]]
  <2>2. f[0] = Empty /\ \A n \in 1 .. (k - 1) : f[n] = merge_configs(f[n - 1], tree[order[n]])
    BY <2>1 DEF Merges
  <2>3. g[k] = merge_configs(f[k - 1], tree[order[k]]) /\ \A n \in 0 .. (k - 1) : g[n] = f[n]
    OBVIOUS
  <2>4. ASSUME NEW n \in 1 .. k
        PROVE  g[n] = merge_configs(g[n - 1], tree[order[n]])
    <3>1. n - 1 \in 0 .. (k - 1)
      OBVIOUS
    <3>2. CASE n = k
      BY <2>3, <3>1, <3>2
    <3>3. CASE n # k
      <4>1. n \in 1 .. (k - 1)
        BY <3>3
      <4> HIDE DEF g
      <4> QED
        BY <2>2, <2>3, <3>1, <4>1
    <3> QED
      BY <3>2, <3>3
  <2>5. g[0] = Empty
    BY <2>2, <2>3
  <2> HIDE DEF g
  <2>6. Merges(g, order, k)
    BY <2>4, <2>5 DEF Merges
  <2> QED
    BY <2>6
<1>3. m \in P
  <2> HIDE DEF P
  <2>1. 0 .. m \subseteq P
    BY <1>1, <1>2, UpTo
  <2> QED
    BY <2>1
<1>4. PICK f : Merges(f, order, m)
  BY <1>3
<1> DEFINE g == [n \in 0 .. m |-> f[n]]
<1>5. g = step(g)
  <2>1. \A n \in 0 .. m : n # 0 => n - 1 \in 0 .. m /\ n \in 1 .. m
    OBVIOUS
  <2>2. ASSUME NEW n \in 0 .. m
        PROVE  f[n] = IF n = 0 THEN Empty ELSE merge_configs(g[n - 1], tree[order[n]])
    BY <1>4, <2>1 DEF Merges
  <2> QED
    BY <2>2
<1>6. h = step(h)
  <2> HIDE DEF g, step
  <2> QED
    BY <1>5
<1>7. MergedInOrder(order) = h
  BY DEF MergedInOrder
<1>8. Merges(h, order, m)
  <2>1. \A n \in 0 .. m :
          h[n] = IF n = 0 THEN Empty ELSE merge_configs(h[n - 1], tree[order[n]])
    <3>1. \A n \in 0 .. m :
            step(h)[n] = IF n = 0 THEN Empty ELSE merge_configs(h[n - 1], tree[order[n]])
      <4> HIDE DEF h
      <4> QED
        OBVIOUS
    <3> HIDE DEF h, step
    <3> QED
      BY <1>6, <3>1
  <2> HIDE DEF h
  <2> QED
    BY <2>1 DEF Merges
<1> QED
  BY <1>7, <1>8

\* An order has every file once.
LEMMA Orders ==
  ASSUME NEW order \in SetToSeqs(crawl)
  PROVE  /\ Len(order) \in Nat /\ DOMAIN order = 1 .. Len(order)
         /\ \A i \in 1 .. Len(order) : order[i] \in crawl
         /\ \A i, j \in 1 .. Len(order) : i # j => order[i] # order[j]
         /\ \A f \in crawl : \E i \in 1 .. Len(order) : order[i] = f
<1> DEFINE n == Cardinality(crawl)
<1>1. IsFiniteSet(crawl) /\ n \in Nat
  <2>1. crawl \in SUBSET File /\ IsFiniteSet(File)
    BY ConfigAssumption DEF crawl
  <2>2. IsFiniteSet(crawl)
    BY <2>1, FS_Subset
  <2> QED
    BY <2>2, FS_CardinalityType
<1>2. order \in [1 .. n -> crawl] /\ \A i, j \in 1 .. n : i # j => order[i] # order[j]
  BY DEF SetToSeqs
<1>3. order \in Injection(1 .. n, crawl)
  BY <1>2 DEF Injection, IsInjective
<1>4. Cardinality(1 .. n) = n
  BY <1>1, FS_Interval
<1>5. order \in Surjection(1 .. n, crawl)
  BY <1>1, <1>3, <1>4, FS_Injection
<1>6. \A f \in crawl : \E i \in 1 .. n : order[i] = f
  BY <1>5 DEF Surjection
<1>7. Len(order) = n
  <2>1. order \in Seq(crawl)
    BY <1>1, <1>2, SeqDef
  <2> QED
    BY <1>1, <1>2, <2>1, LenProperties
<1> QED
  BY <1>1, <1>2, <1>6, <1>7

\* What is merged of the first files of an order is their sum, as far as they
\* can be merged; and they can, when all files have been merged in some order.
LEMMA SumInOrder ==
  ASSUME ~ OrderMatters, tree \in [File -> Contents],
         NEW order \in SetToSeqs(crawl), NEW m, Merges(m, order, Len(order))
  PROVE  /\ (\A i \in DOMAIN order : CanMerge(m[i - 1], order[i])) =>
              SumOf(m[Len(order)], crawl)
         /\ (\E all : SumOf(all, crawl) /\ DOMAIN all \subseteq Known) =>
              \A i \in DOMAIN order : CanMerge(m[i - 1], order[i])
<1> DEFINE l == Len(order)
           first(n) == {order[i] : i \in 1 .. n}
           can(n) == \A i \in 1 .. n : CanMerge(m[i - 1], order[i])
           P == {n \in 0 .. l : can(n) => SumOf(m[n], first(n))}
<1>1. /\ l \in Nat /\ DOMAIN order = 1 .. l
      /\ \A i \in 1 .. l : order[i] \in crawl
      /\ \A i, j \in 1 .. l : i # j => order[i] # order[j]
      /\ \A f \in crawl : \E i \in 1 .. l : order[i] = f
  BY Orders
<1>2. /\ m[0] = Empty
      /\ \A n \in 1 .. l : m[n] = merge_configs(m[n - 1], tree[order[n]])
  BY DEF Merges
<1>3. ASSUME NEW n \in 1 .. l
      PROVE  /\ n - 1 \in 0 .. l
             /\ first(n - 1) \in SUBSET crawl
             /\ order[n] \in crawl \ first(n - 1)
             /\ first(n) = first(n - 1) \cup {order[n]}
             /\ can(n) => can(n - 1) /\ CanMerge(m[n - 1], order[n])
  <2>1. 1 .. n = (1 .. (n - 1)) \cup {n} /\ \A i \in 1 .. (n - 1) : i \in 1 .. l /\ i # n
    BY <1>1
  <2> QED
    BY <1>1, <2>1
<1>4. 0 \in P
  <2>1. first(0) = {} /\ 0 \in 0 .. l
    BY <1>1
  <2>2. SumOf(m[0], first(0))
    <3> HIDE DEF first
    <3> QED
      BY <1>2, <2>1, EmptySum
  <2> QED
    BY <2>1, <2>2
<1>5. ASSUME NEW n \in 1 .. l, n - 1 \in P
      PROVE  n \in P
  <2>1. SUFFICES ASSUME can(n) PROVE SumOf(m[n], first(n))
    BY <1>1
  <2>2. SumOf(m[n - 1], first(n - 1)) /\ CanMerge(m[n - 1], order[n])
    BY <1>3, <1>5, <2>1
  <2>3. m[n] = merge_configs(m[n - 1], tree[order[n]])
    BY <1>2
  <2> HIDE DEF first, can, P
  <2>4. SumOf(m[n], first(n - 1) \cup {order[n]})
    BY <1>3, <2>2, <2>3, SumStep
  <2> QED
    BY <1>3, <2>4
<1>6. \A n \in 0 .. l : n \in P
  <2> HIDE DEF P
  <2> QED
    BY <1>1, <1>4, <1>5, UpTo
<1>7. can(l) => SumOf(m[l], crawl)
  <2>1. first(l) = crawl
    BY <1>1
  <2> HIDE DEF first, can
  <2>2. can(l) => SumOf(m[l], first(l))
    BY <1>1, <1>6
  <2> QED
    BY <2>1, <2>2
<1>8. ASSUME NEW all, SumOf(all, crawl), DOMAIN all \subseteq Known
      PROVE  can(l)
  <2> DEFINE Q == {n \in 0 .. l : can(n)}
  <2>1. 0 \in Q
    BY <1>1
  <2>2. ASSUME NEW n \in 1 .. l, n - 1 \in Q
        PROVE  n \in Q
    <3>1. can(n - 1) /\ SumOf(m[n - 1], first(n - 1))
      BY <1>3, <1>6, <2>2
    <3>2. CanMerge(m[n - 1], order[n])
      <4> HIDE DEF first, can, Q
      <4> QED
        BY <1>3, <1>8, <3>1, MergeSafe
    <3>3. \A i \in 1 .. n : i = n \/ i \in 1 .. (n - 1)
      OBVIOUS
    <3> QED
      BY <3>1, <3>2, <3>3
  <2>3. l \in Q
    <3> HIDE DEF Q
    <3>1. 0 .. l \subseteq Q
      BY <1>1, <2>1, <2>2, UpTo
    <3> QED
      BY <1>1, <3>1
  <2> QED
    BY <2>3
<1> QED
  BY <1>1, <1>7, <1>8

-----------------------------------------------------------------------------
\* What a command has merged is the sum of the files it has merged, and it is
\* refused for what the files say.

Summed == ~ OrderMatters => SumOf(yaml, crawl \ unread)

Reason ==
  phase = "refused" /\ cli.path /\ ~ UsageError /\ crawl # {} =>
    \/ \E f \in unread : ~ CanMerge(yaml, f)
    \/ unread = {} /\ (~ CanCollect(yaml) \/ ~ Valid(collect_blueprint_config(yaml)))

LEMMA InitOrder == Init => Summed /\ Reason
<1> SUFFICES ASSUME Init PROVE Summed /\ Reason
  OBVIOUS
<1>1. crawl \ unread = {} /\ yaml = Empty /\ phase = "start"
  BY DEF Init
<1> QED
  BY <1>1, EmptySum DEF Summed, Reason

LEMMA SameFiles ==
  ASSUME UNCHANGED <<tree, cli>>
  PROVE  /\ crawl' = crawl
         /\ OrderMatters' <=> OrderMatters
         /\ UsageError' <=> UsageError
         /\ \A c, F : SumOf(c, F)' <=> SumOf(c, F)
         /\ \A c, f : CanMerge(c, f)' <=> CanMerge(c, f)
         /\ \A c : CanCollect(c)' <=> CanCollect(c)
         /\ \A c : collect_blueprint_config(c)' = collect_blueprint_config(c)
<1>1. crawl' = crawl /\ \A f, k : Holds(f, k)' <=> Holds(f, k)
  BY SameInput
<1>2. \A F, k : Holders(F, k)' = Holders(F, k)
  BY <1>1 DEF Holders
<1>3. /\ \A v, F, k : SumValue(v, F, k)' <=> SumValue(v, F, k)
      /\ \A v, F : SumSpecs(v, F)' <=> SumSpecs(v, F)
  BY <1>2 DEF SumValue, SumSpecs
<1>4. \A c, F : SumOf(c, F)' <=> SumOf(c, F)
  BY <1>2, <1>3 DEF SumOf
<1>5. OrderMatters' <=> OrderMatters
  <2>1. tree' = tree
    OBVIOUS
  <2> QED
    BY <1>1, <2>1 DEF OrderMatters, Holds, Names
<1> QED
  BY <1>1, <1>4, <1>5, SameInput DEF UsageError, CanMerge

LEMMA NextOrder ==
  ASSUME IInv, Summed, Reason, [Next]_vars
  PROVE  Summed' /\ Reason'
<1>1. UNCHANGED <<tree, cli>>
  BY DEF Next, vars, StartFails, Start, ApplySaved, MergeFile, MergeFails, Collect,
         CollectFails, PostInit, PostInitFails, Refuse
<1>2. /\ crawl' = crawl
      /\ OrderMatters' <=> OrderMatters
      /\ UsageError' <=> UsageError
      /\ \A c, F : SumOf(c, F)' <=> SumOf(c, F)
      /\ \A c, f : CanMerge(c, f)' <=> CanMerge(c, f)
      /\ \A c : CanCollect(c)' <=> CanCollect(c)
      /\ \A c : collect_blueprint_config(c)' = collect_blueprint_config(c)
  BY <1>1, SameFiles
<1>3. ASSUME UNCHANGED <<unread, yaml>>
      PROVE  Summed'
  BY <1>2, <1>3 DEF Summed
<1>4. CASE MergeFile
  <2>1. phase' # "refused"
    BY <1>4 DEF MergeFile
  <2>2. ASSUME ~ OrderMatters
        PROVE  SumOf(yaml', crawl \ unread')
    <3>1. PICK f \in unread :
            /\ CanMerge(yaml, f)
            /\ yaml' = merge_configs(yaml, tree[f])
            /\ unread' = unread \ {f}
      BY <1>4 DEF MergeFile
    <3>2. f \in crawl \ (crawl \ unread) /\ tree \in [File -> Contents]
          /\ crawl \ unread' = (crawl \ unread) \cup {f}
      BY <3>1 DEF IInv
    <3>3. SumOf(yaml, crawl \ unread)
      BY <2>2 DEF Summed
    <3>4. SumOf(merge_configs(yaml, tree[f]), (crawl \ unread) \cup {f})
      BY <2>2, <3>1, <3>2, <3>3, SumStep
    <3> QED
      BY <3>1, <3>2, <3>4
  <2> QED
    BY <1>2, <2>1, <2>2 DEF Summed, Reason
<1>5. CASE StartFails
  <2>1. Summed'
    BY <1>3, <1>5 DEF StartFails, Refuse
  <2> QED
    BY <1>1, <1>2, <1>5, <2>1 DEF StartFails, Reason
<1>6. CASE MergeFails
  <2>1. UNCHANGED <<unread, yaml>> /\ \E f \in unread : ~ CanMerge(yaml, f)
    BY <1>6 DEF MergeFails, Refuse
  <2> QED
    BY <1>2, <1>3, <2>1 DEF Reason
<1>7. CASE CollectFails
  <2>1. UNCHANGED <<unread, yaml>> /\ unread = {} /\ ~ CanCollect(yaml)
    BY <1>7 DEF CollectFails, Refuse, IInv, Phases
  <2> QED
    BY <1>2, <1>3, <2>1 DEF Reason
<1>8. CASE PostInitFails
  <2>1. UNCHANGED <<unread, yaml>> /\ ~ Valid(config) /\ phase = "check"
    BY <1>8 DEF PostInitFails, Refuse
  <2>2. cli.path => unread = {} /\ config = collect_blueprint_config(yaml)
    BY <2>1 DEF IInv, Collected
  <2> QED
    BY <1>1, <1>2, <1>3, <2>1, <2>2 DEF Reason, Valid
<1>9. CASE Start \/ ApplySaved \/ Collect \/ PostInit \/ UNCHANGED vars
  <2>1. UNCHANGED <<unread, yaml>>
    BY <1>9 DEF Start, ApplySaved, Collect, PostInit, Refuse, vars
  <2>2. phase' = "refused" => phase = "refused" \/ ~ cli.path
    BY <1>9 DEF Start, ApplySaved, Collect, PostInit, Refuse, vars
  <2>3. Reason'
    BY <1>1, <1>2, <2>1, <2>2 DEF Reason
  <2> QED
    BY <1>3, <2>1, <2>3
<1> QED
  BY <1>4, <1>5, <1>6, <1>7, <1>8, <1>9 DEF Next

LEMMA OrderInv ==
  ASSUME IInv, Summed, Reason
  PROVE  SameInAnyOrder
<1> SUFFICES ASSUME Decided, cli.path, ~ UsageError, crawl # {}, ~ OrderMatters,
                    NEW order \in SetToSeqs(crawl)
             PROVE  Outcome(order) =
                      IF phase = "refused" THEN <<>> ELSE <<Unordered(config)>>
  BY DEF SameInAnyOrder
<1> DEFINE m == MergedInOrder(order)
           c == m[Len(order)]
           new == collect_blueprint_config(c)
           merges == \A i \in DOMAIN order : CanMerge(m[i - 1], order[i])
<1>1. Outcome(order) =
        IF merges /\ CanCollect(c) /\ Valid(new) THEN <<Unordered(new)>> ELSE <<>>
  BY DEF Outcome
<1>2. Merges(m, order, Len(order))
  BY Orders, MergesInOrder
<1>3. tree \in [File -> Contents] /\ cli \in Commands /\ SumOf(yaml, crawl \ unread)
  BY DEF IInv, Summed
<1> HIDE DEF m, c, new, merges
<1>4. /\ merges => SumOf(c, crawl)
      /\ (\E all : SumOf(all, crawl) /\ DOMAIN all \subseteq Known) => merges
  BY <1>2, <1>3, SumInOrder DEF merges, c
<1>5. \A x : CanCollect(x) => DOMAIN x \subseteq Known
  BY DEF CanCollect, Known
<1>6. CASE phase = "accepted"
  <2>1. /\ unread = {} /\ CanCollect(yaml) /\ Valid(config)
        /\ config = collect_blueprint_config(yaml)
    BY <1>6 DEF IInv, Collected, Checked
  <2>2. SumOf(yaml, crawl) /\ DOMAIN yaml \subseteq Known
    BY <1>3, <1>5, <2>1
  <2>3. merges /\ Agree(yaml, c)
    BY <1>4, <2>2, SumsAgree
  <2>4. CanCollect(c) /\ Valid(new) /\ Unordered(new) = Unordered(config)
    BY <1>3, <2>1, <2>3, CollectAgrees, ConfigsAgree DEF new
  <2> QED
    BY <1>1, <1>6, <2>3, <2>4
<1>7. CASE phase = "refused"
  <2>1. SUFFICES ASSUME merges, CanCollect(c), Valid(new) PROVE FALSE
    BY <1>1, <1>7
  <2>2. SumOf(c, crawl) /\ DOMAIN c \subseteq Known
    BY <1>4, <1>5, <2>1
  <2>3. CASE \E f \in unread : ~ CanMerge(yaml, f)
    <3>1. PICK f \in unread : ~ CanMerge(yaml, f)
      BY <2>3
    <3>2. f \in crawl \ (crawl \ unread)
      BY <3>1 DEF IInv
    <3> QED
      BY <1>3, <2>2, <3>1, <3>2, MergeSafe
  <2>4. CASE unread = {} /\ (~ CanCollect(yaml) \/ ~ Valid(collect_blueprint_config(yaml)))
    <3>1. Agree(c, yaml)
      BY <1>3, <2>2, <2>4, SumsAgree
    <3> QED
      BY <1>3, <2>1, <2>4, <3>1, CollectAgrees, ConfigsAgree DEF new
  <2> QED
    BY <1>7, <2>3, <2>4 DEF Reason
<1> QED
  BY <1>6, <1>7 DEF Decided

LEMMA OrderInvariance == Spec => [](IInv /\ Summed /\ Reason)
<1>1. Init => IInv /\ Summed /\ Reason
  BY InitInv, InitOrder
<1>2. IInv /\ Summed /\ Reason /\ [Next]_vars => (IInv /\ Summed /\ Reason)'
  BY NextInv, NextOrder
<1> QED
  BY <1>1, <1>2, PTL DEF Spec

\* Whatever order the file system lists the files in, the command is refused, or
\* accepted with the same config: unless a key is null in one of the files, or a
\* var or a setting that is a list is given twice.
THEOREM OrderDoesNotMatter == Spec => []SameInAnyOrder
BY OrderInvariance, OrderInv, PTL
=============================================================================
