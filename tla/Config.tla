------------------------------- MODULE Config -------------------------------
(***************************************************************************)
(* How a plan or apply of the command line arrives at its BlueprintConfig: *)
(* the YAML files below a path are found in the order the file system      *)
(* lists them and merged one after another, the flags and the environment  *)
(* are put together, collect_blueprint_config joins the two and makes the  *)
(* resources, and BlueprintConfig.__post_init__ has the last word.  Every  *)
(* error of the code ends the command: phase "refused".                    *)
(*                                                                         *)
(* A YAML value is a record: its kind ("null", "list" or "scalar"), the    *)
(* items of a list and the text of a scalar.  A file is a function from    *)
(* its keys to values, EmptyFile when nothing is in it (safe_load returns  *)
(* None) and Ignored when crawl passes over it.  A var's value is a record *)
(* of its type and what iterating over it yields: the characters of a      *)
(* string as much as the members of a list.                                *)
(***************************************************************************)
EXTENDS Naturals, Sequences, SequencesExt, FiniteSets, FiniteSetsExt, Functions

CONSTANTS
  File,       \* the files below the path of --config
  EmptyFile,  \* the content of a file with nothing in it
  Ignored,    \* a file that is not YAML, or that .snowbytesignore names
  NoDefault,  \* a var's spec without a default
  NotEach,    \* an item without for_each
  Contents,   \* what a file may hold
  Commands    \* the command lines and their environments

VARIABLES
  tree,    \* the file system below the path
  cli,     \* the command line and its environment
  unread,  \* the files still to merge
  yaml,    \* yaml_config, the files merged so far
  phase,   \* "merge", "collect", "check", "accepted" or "refused"
  config   \* the arguments of BlueprintConfig

vars == <<tree, cli, unread, yaml, phase, config>>

Null == [kind |-> "null", items |-> <<>>, text |-> ""]
Items(s) == [kind |-> "list", items |-> s, text |-> ""]
Text(t) == [kind |-> "scalar", items |-> <<>>, text |-> t]

(* Python's truth of a value: "no" stands for false.                       *)
Truthy(v) == v.items # <<>> \/ v.text \notin {"", "no"}

(* What a YAML value is.                                                   *)
isValue(v) ==
  \/ v = Null
  \/ v = Text(v.text)
  \/ v = Items(v.items) /\ v.items \in Seq(ToSet(v.items))

Empty == [k \in {} |-> Null]

(* The value of a key, None when there is none.                            *)
Get(c, k) == IF k \in DOMAIN c THEN c[k] ELSE Null

(***************************************************************************)
(* Reading and merging files.                                              *)
(***************************************************************************)
crawl == {f \in File : tree[f] # Ignored}

(* Mutant: of two values, the later one is taken.                          *)
Conflict_ListsOnly(c1, c2) ==
  \E k \in DOMAIN c1 \cap DOMAIN c2 :
    /\ c1[k].kind # "null"
    /\ (c1[k].kind = "list") # (c2[k].kind = "list")

(* A key both hold is joined when both are lists; over a null the later    *)
(* value is taken; anything else raises, equal values and a null after a   *)
(* list included.                                                          *)
Conflict(c1, c2) ==
  \E k \in DOMAIN c1 \cap DOMAIN c2 :
    /\ c1[k].kind # "null"
    /\ ~(c1[k].kind = "list" /\ c2[k].kind = "list")

(* merge_configs of what is merged and file f does not raise; an empty     *)
(* file has no items().                                                    *)
CanMerge(c, f) == IF tree[f] = EmptyFile THEN FALSE ELSE ~Conflict(c, tree[f])

(* Mutant: dict.update.                                                    *)
merge_configs_Update(c1, c2) == c2 @@ c1

merge_configs(c1, c2) ==
  [k \in DOMAIN c1 \cup DOMAIN c2 |->
     IF k \in DOMAIN c1 \cap DOMAIN c2 /\ c1[k].kind = "list"
     THEN Items(c1[k].items \o c2[k].items)
     ELSE IF k \in DOMAIN c2 THEN c2[k] ELSE c1[k]]

(***************************************************************************)
(* The command line: plan or apply, whether it has --config (path) and     *)
(* --plan (saved), its other flags, its --vars, and the variables of the   *)
(* environment that start with SNOWBYTES_VAR_.                             *)
(***************************************************************************)
UsageError == IF cli.command = "plan" THEN ~cli.path ELSE cli.path = cli.saved

(* Only flags that are true are passed on.                                 *)
cli_config ==
  [k \in {k \in DOMAIN cli.flags : Truthy(cli.flags[k])} |-> cli.flags[k]]

(* SNOWBYTES_VAR_X loses ten characters, of the fourteen of the prefix.    *)
EnvName(x) == "var_" \o x

collect_vars_from_environment ==
  [n \in {EnvName(x) : x \in DOMAIN cli.env} |->
     cli.env[CHOOSE x \in DOMAIN cli.env : n = EnvName(x)]]

VarsConflict ==
  DOMAIN cli.vars \cap DOMAIN collect_vars_from_environment # {}

merge_vars ==
  [n \in DOMAIN cli.vars \cup DOMAIN collect_vars_from_environment |->
     IF n \in DOMAIN cli.vars THEN cli.vars[n] ELSE collect_vars_from_environment[n]]

(***************************************************************************)
(* Vars: a name's first spec decides.                                      *)
(***************************************************************************)
Names(spec) == {spec[i].name : i \in DOMAIN spec}

SpecOf(spec, n) == spec[Min({i \in DOMAIN spec : spec[i].name = n})]

Missing(spec, given) ==
  \E n \in Names(spec) \ DOMAIN given : SpecOf(spec, n).default = NoDefault

(* Mutant: a default goes before what is given.                            *)
set_vars_defaults_First(spec, given) ==
  [n \in DOMAIN given \cup Names(spec) |->
     IF n \in Names(spec) /\ SpecOf(spec, n).default # NoDefault
     THEN SpecOf(spec, n).default ELSE given[n]]

set_vars_defaults(spec, given) ==
  [n \in DOMAIN given \cup Names(spec) |->
     IF n \in DOMAIN given THEN given[n] ELSE SpecOf(spec, n).default]

(***************************************************************************)
(* Resources.  An item of a block has a name, the var of its for_each, and *)
(* the number of resources nested in it: the schemas of a database, the    *)
(* roles of a user, the grantees of a role grant.                          *)
(***************************************************************************)
Resource(type, item, part) == [type |-> type, name |-> item.name, part |-> part]

Nested(type, item) == {Resource(type, item, j) : j \in 1..item.nested}

TypeOfBlock == ("roles" :> "ROLE") @@ ("warehouses" :> "WAREHOUSE")

(* databases, role_grants, database_role_grants and users are read by      *)
(* functions of their own, which know nothing of for_each.                 *)
SpecialBlocks == {"databases", "role_grants", "database_role_grants", "users"}

FromItem(block, item, given) ==
  CASE block = "databases" -> {Resource("DATABASE", item, 0)} \cup Nested("SCHEMA", item)
    [] block = "role_grants" -> Nested("ROLE_GRANT", item)
    [] block = "database_role_grants" -> Nested("DATABASE_ROLE_GRANT", item)
    [] block = "users" -> {Resource("USER", item, 0)} \cup Nested("ROLE_GRANT", item)
    [] OTHER ->
         IF item.each = NotEach THEN {Resource(TypeOfBlock[block], item, 0)}
         ELSE {Resource(TypeOfBlock[block], item, i) : i \in DOMAIN given[item.each].of}

FromBlock(block, items, given) ==
  UNION {FromItem(block, items[i], given) : i \in DOMAIN items}

Blocks == SpecialBlocks \cup DOMAIN TypeOfBlock

(* A for_each needs its var, and something to iterate over.                *)
BadEach(item, given) ==
  /\ item.each # NotEach
  /\ item.each \notin DOMAIN given \/ given[item.each].type = "int"

(* A null special block is iterated over, or its length is taken; role     *)
(* grants that grant nothing are an error.                                 *)
BadBlock(c, block, given) ==
  /\ block \in DOMAIN c
  /\ IF block \in SpecialBlocks
     THEN \/ c[block].kind # "list"
          \/ /\ block = "role_grants" /\ c[block].items # <<>>
             /\ FromBlock(block, c[block].items, given) = {}
     ELSE \/ c[block].kind = "scalar" /\ Truthy(c[block])
          \/ \E i \in DOMAIN c[block].items : BadEach(c[block].items[i], given)

_resources_for_config(c, given) ==
  UNION {FromBlock(b, c[b].items, given) : b \in Blocks \cap DOMAIN c}

(***************************************************************************)
(* collect_blueprint_config.                                               *)
(***************************************************************************)
Settings == {"allowlist", "database", "dry_run", "name", "run_mode", "scope", "schema"}

(* What a file and a command line are.                                     *)
ASSUME ConfigAssumption ==
  /\ IsFiniteSet(File)
  /\ \A c \in Contents \ {EmptyFile, Ignored} : \A k \in DOMAIN c : isValue(c[k])
  /\ \A c \in Commands : /\ DOMAIN c.flags \subseteq Settings
                         /\ \A k \in DOMAIN c.flags : isValue(c.flags[k])

(* Settings that must not come from both sides.                            *)
OneSided == {"allowlist", "dry_run", "name", "run_mode"}

(* Mutant: a key of the files hides the flag, a null one too.              *)
Setting_Present(c, flags, key) == IF key \in DOMAIN c THEN c[key] ELSE Get(flags, key)

(* yaml_config_.pop(key, None) or cli_config_.pop(key, None); what is not  *)
(* true is not passed on.                                                  *)
Setting(c, flags, key) ==
  IF Truthy(Get(c, key)) THEN c[key]
  ELSE IF Truthy(Get(flags, key)) THEN flags[key] ELSE Null

InputVars(c) ==
  IF Truthy(Get(c, "vars")) THEN set_vars_defaults(c["vars"].items, merge_vars)
  ELSE merge_vars

CanCollect(c) ==
  /\ ~VarsConflict
  /\ OneSided \cap DOMAIN c \cap DOMAIN cli_config = {}
  /\ Truthy(Get(c, "vars")) =>
       c["vars"].kind = "list" /\ ~Missing(c["vars"].items, merge_vars)
  /\ ~\E b \in Blocks : BadBlock(c, b, InputVars(c))
  /\ _resources_for_config(c, InputVars(c)) # {}
  /\ DOMAIN c \subseteq Blocks \cup Settings \cup {"vars"}

BlueprintConfig(settings, given, vars_spec, resources) ==
  [k \in Settings \cup {"vars", "vars_spec", "resources"} |->
     CASE k = "vars" -> given
       [] k = "vars_spec" -> vars_spec
       [] k = "resources" -> resources
       [] OTHER -> settings[k]]

collect_blueprint_config(c) ==
  BlueprintConfig([s \in Settings |-> Setting(c, cli_config, s)],
                  InputVars(c),
                  Get(c, "vars").items,
                  _resources_for_config(c, InputVars(c)))

(***************************************************************************)
(* BlueprintConfig.__post_init__.                                          *)
(***************************************************************************)
VarTypes == {"int", "string", "list"}

BadVars(c) ==
  /\ c.vars_spec # <<>>
  /\ \/ \E i \in DOMAIN c.vars_spec : c.vars_spec[i].type \notin VarTypes
     \/ \E n \in DOMAIN c.vars :
          \/ n \notin Names(c.vars_spec)
          \/ SpecOf(c.vars_spec, n).type # c.vars[n].type

(* Mutant: what is nested in a block's item is not looked at.              *)
NotAllowed_TopLevel(c) ==
  /\ c.allowlist # Null
  /\ \E r \in c.resources : r.part = 0 /\ ~Contains(c.allowlist.items, r.type)

NotAllowed(c) ==
  /\ c.allowlist # Null
  /\ \E r \in c.resources : ~Contains(c.allowlist.items, r.type)

BadScope(c) ==
  \/ c.scope = Text("DATABASE") /\ c.schema # Null
  \/ c.scope = Text("ACCOUNT") /\ (c.database # Null \/ c.schema # Null)

Valid(c) ==
  /\ c.run_mode = Text("SYNC") => c.allowlist # Null
  /\ ~NotAllowed(c)
  /\ ~BadVars(c)
  /\ ~BadScope(c)

(***************************************************************************)
(* The command.                                                            *)
(***************************************************************************)
Init ==
  /\ tree \in [File -> Contents]
  /\ cli \in Commands
  /\ unread = crawl
  /\ yaml = Empty
  /\ phase = "start"
  /\ config = Empty

Refuse == phase' = "refused" /\ UNCHANGED <<tree, cli, unread, yaml, config>>

(* The flags do not go together, or collect_configs_from_path finds no     *)
(* file.                                                                   *)
StartFails ==
  /\ phase = "start"
  /\ UsageError \/ (cli.path /\ crawl = {})
  /\ Refuse

Start ==
  /\ phase = "start"
  /\ ~UsageError /\ cli.path /\ crawl # {}
  /\ phase' = "merge"
  /\ UNCHANGED <<tree, cli, unread, yaml, config>>

(* blueprint_apply_plan: a saved plan is applied under the flags alone.    *)
ApplySaved ==
  /\ phase = "start"
  /\ ~UsageError /\ ~cli.path
  /\ IF VarsConflict THEN Refuse
     ELSE /\ config' = BlueprintConfig([s \in Settings |-> Get(cli_config, s)],
                                       merge_vars, <<>>, {})
          /\ phase' = "check"
          /\ UNCHANGED <<tree, cli, unread, yaml>>

(* Mutant: the files are collected after the first.                        *)
MergeFile_One ==
  /\ phase = "merge"
  /\ \E f \in unread :
       /\ CanMerge(yaml, f)
       /\ yaml' = merge_configs(yaml, tree[f])
       /\ unread' = unread \ {f}
       /\ phase' = "collect"
       /\ UNCHANGED <<tree, cli, config>>

(* The next file of the walk is merged.                                    *)
MergeFile ==
  /\ phase = "merge"
  /\ \E f \in unread :
       /\ CanMerge(yaml, f)
       /\ yaml' = merge_configs(yaml, tree[f])
       /\ unread' = unread \ {f}
       /\ phase' = IF unread' = {} THEN "collect" ELSE "merge"
       /\ UNCHANGED <<tree, cli, config>>

MergeFails ==
  /\ phase = "merge"
  /\ \E f \in unread : ~CanMerge(yaml, f)
  /\ Refuse

Collect ==
  /\ phase = "collect"
  /\ CanCollect(yaml)
  /\ config' = collect_blueprint_config(yaml)
  /\ phase' = "check"
  /\ UNCHANGED <<tree, cli, unread, yaml>>

CollectFails == phase = "collect" /\ ~CanCollect(yaml) /\ Refuse

PostInit ==
  /\ phase = "check"
  /\ Valid(config)
  /\ phase' = "accepted"
  /\ UNCHANGED <<tree, cli, unread, yaml, config>>

PostInitFails == phase = "check" /\ ~Valid(config) /\ Refuse

Next ==
  \/ StartFails \/ Start \/ ApplySaved
  \/ MergeFile \/ MergeFails
  \/ Collect \/ CollectFails
  \/ PostInit \/ PostInitFails

Spec == Init /\ [][Next]_vars

(***************************************************************************)
(* Properties.                                                             *)
(***************************************************************************)
Decided == phase \in {"accepted", "refused"}

Accepted == phase = "accepted" /\ cli.path

(* A key of every file crawl finds.                                        *)
Holds(f, k) == f \in crawl /\ tree[f] # EmptyFile /\ k \in DOMAIN tree[f]

(* The type invariant: a config exists once it was collected, with its     *)
(* settings, and what is merged has only keys some file holds.             *)
TypeOK ==
  /\ tree \in [File -> Contents] /\ cli \in Commands
  /\ phase \in {"start", "merge", "collect", "check", "accepted", "refused"}
  /\ unread \subseteq crawl
  /\ phase \in {"collect", "check", "accepted"} /\ cli.path => unread = {}
  /\ \A k \in DOMAIN yaml :
       yaml[k].kind \in {"null", "list", "scalar"} /\ \E f \in crawl : Holds(f, k)
  /\ DOMAIN config \in {{}, Settings \cup {"vars", "vars_spec", "resources"}}
  /\ phase \in {"check", "accepted"} => config # Empty

(* What is merged of the files of an order, one after another.             *)
MergedInOrder(order) ==
  LET merged[n \in 0 .. Len(order)] ==
        IF n = 0 THEN Empty ELSE merge_configs(merged[n - 1], tree[order[n]])
  IN merged

(* A config up to the order of its lists.                                  *)
Unordered(c) == [c EXCEPT !.allowlist.items = ToSet(@), !.vars_spec = ToSet(@)]

(* The files of a directory are merged in the order the file system lists  *)
(* them, which differs from one machine to the next.  What comes of it     *)
(* must not: this is the config of one order, <<>> when it is refused.     *)
Outcome(order) ==
  LET merged == MergedInOrder(order)
      c == merged[Len(order)]
      new == collect_blueprint_config(c)
  IN IF \/ \E i \in DOMAIN order : ~CanMerge(merged[i - 1], order[i])
        \/ ~CanCollect(c) \/ ~Valid(new)
     THEN <<>>
     ELSE <<Unordered(new)>>

(* Where order does decide: a key that is null in one file and not in      *)
(* another, a setting that two files give as a list (a name, say: nothing  *)
(* refuses that), and a var that two files specify.                        *)
OrderMatters ==
  \E f, g \in crawl : f # g /\
    \/ \E k \in Blocks \cup Settings \cup {"vars"} :
         Holds(f, k) /\ Holds(g, k) /\ tree[f][k] = Null
    \/ \E k \in Settings \ {"allowlist"} :
         /\ Holds(f, k) /\ Holds(g, k)
         /\ tree[f][k].kind = "list" /\ tree[g][k].kind = "list"
    \/ /\ Holds(f, "vars") /\ Holds(g, "vars")
       /\ Names(tree[f]["vars"].items) \cap Names(tree[g]["vars"].items) # {}

(* Unless a key is null in one of the files, or a var or a setting that is *)
(* a list is given twice, the command is refused, or accepted with the     *)
(* same config, in whatever order crawl yields the files.                  *)
SameInAnyOrder ==
  Decided /\ cli.path /\ ~UsageError /\ crawl # {} /\ ~OrderMatters =>
    \A order \in SetToSeqs(crawl) :
      Outcome(order) =
        IF phase = "refused" THEN <<>>
        ELSE <<Unordered(config)>>

(* Nothing a file declares is lost on the way: the resources are those of  *)
(* all the files together (in sync mode the others would be dropped), each *)
(* setting of a file is in force, dry_run among them, and of a list, like  *)
(* the allowlist, at least what each file lists.                           *)
NothingLost ==
  Accepted =>
    /\ config.resources =
         UNION {UNION {FromBlock(b, tree[f][b].items, config.vars) :
                         f \in {g \in crawl : Holds(g, b)}} : b \in Blocks}
    /\ \A f \in crawl, s \in Settings :
         Holds(f, s) /\ Truthy(tree[f][s]) =>
           IF tree[f][s].kind = "list"
             THEN ToSet(tree[f][s].items) \subseteq ToSet(config[s].items)
             ELSE config[s] = tree[f][s]

(* A flag of an accepted command is in force, --dry-run and --allowlist    *)
(* among them, unless it is a scope, database or schema that a file gives  *)
(* too; so is every var of --vars.                                         *)
FlagsInForce ==
  phase = "accepted" =>
    /\ \A s \in DOMAIN cli_config :
         \/ config[s] = cli_config[s]
         \/ /\ cli.path /\ s \notin OneSided
            /\ \E f \in crawl : Holds(f, s) /\ Truthy(tree[f][s])
    /\ \A n \in DOMAIN cli.vars : config.vars[n] = cli.vars[n]

(* A run in sync mode drops what is not declared, so it is limited to      *)
(* types somebody listed, and whatever the mode, an allowlist covers every *)
(* resource made from a block, those nested in a database or a user too.   *)
SyncIsLimited ==
  Accepted /\ (config.run_mode = Text("SYNC") \/ config.allowlist # Null) =>
    LET listed == ToSet(config.allowlist.items)
        given == ToSet(Get(cli_config, "allowlist").items) \cup
                 UNION {ToSet(tree[f]["allowlist"].items) : f \in {g \in crawl : Holds(g, "allowlist")}}
    IN /\ listed # {} /\ listed \subseteq given
       /\ \A r \in config.resources : r.type \in listed

(* When any file specifies vars, an accepted config has a value of the     *)
(* declared type for each of them and no other var, and a default only     *)
(* where the command line gives no value.                                  *)
VarsAsSpecified ==
  Accepted =>
    LET specs == UNION {ToSet(tree[f]["vars"].items) : f \in {g \in crawl : Holds(g, "vars")}}
    IN specs # {} =>
         /\ DOMAIN config.vars = {s.name : s \in specs}
         /\ \A n \in DOMAIN config.vars :
              /\ \E s \in specs : s.name = n /\ s.type = config.vars[n].type
              /\ IF n \in DOMAIN merge_vars THEN config.vars[n] = merge_vars[n]
                 ELSE \E s \in specs : s.name = n /\ s.default = config.vars[n]
=============================================================================
