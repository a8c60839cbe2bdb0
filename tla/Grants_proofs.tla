---------------------------- MODULE Grants_proofs ----------------------------
(***************************************************************************)
(* Whatever the blueprints, the accounts and the names, and however others *)
(* and crashes come between its steps, a run does to the grants of an      *)
(* account only what GrantPolicy allows.                                   *)
(***************************************************************************)
EXTENDS Grants, Names_proofs

-----------------------------------------------------------------------------
\* Names in keys.

LEMMA BareName ==
  ASSUME NEW t \in Text
  PROVE  /\ ResourceName(Bare(t)) = [name |-> t, quoted |-> t \notin Identifiers]
         /\ ResourceName(Bare(t)) \in ResourceNames
BY DEF ResourceName, Bare, _name_should_be_quoted, ResourceNames

\* A listed key is looked up under the name that was listed.
LEMMA KeyIsLookedUp ==
  ASSUME NEW t \in Text
  PROVE  /\ Str(resource_name_from_snowflake_metadata(t)) = [text |-> t, quotes |-> t \notin Plain]
         /\ ResourceName(Str(resource_name_from_snowflake_metadata(t)))
              = resource_name_from_snowflake_metadata(t)
         /\ resource_name_from_snowflake_metadata(t) \in ResourceNames
<1>1. PICK n : n = resource_name_from_snowflake_metadata(t)
  OBVIOUS
<1>2. n = [name |-> t, quoted |-> t \notin Plain]
  BY <1>1, MetadataName
<1>3. n \in ResourceNames
  BY <1>2 DEF ResourceNames
<1>4. Denotes(n) = t
  BY <1>1, MetadataDenotesItself
<1>5. Str(n) = [text |-> t, quotes |-> t \notin Plain]
  BY <1>2, <1>3, <1>4, StrOfName
<1>6. ResourceName(Str(n)) = [name |-> t, quoted |-> t \notin Plain]
  <2>1. CASE t \in Plain
    <3>1. Str(n) = Bare(t) /\ t \in Identifiers
      BY <1>5, <2>1, NamesAssumption DEF Bare
    <3>2. ResourceName(Bare(t)) = [name |-> t, quoted |-> FALSE]
      BY <3>1 DEF ResourceName, Bare, _name_should_be_quoted
    <3> QED
      BY <3>1, <3>2, <2>1
  <2>2. CASE t \notin Plain
    <3>1. Str(n) = InQuotes(t)
      BY <1>5, <2>2 DEF InQuotes
    <3>2. ResourceName(InQuotes(t)) = [name |-> t, quoted |-> TRUE]
      BY DEF ResourceName, InQuotes
    <3> QED
      BY <3>1, <3>2, <2>2
  <2> QED
    BY <2>1, <2>2
<1> QED
  BY <1>1, <1>2, <1>3, <1>5, <1>6

\* The grantees a name finds are those it denotes.
LEMMA GranteeFound ==
  ASSUME NEW t \in Text, NEW n \in ResourceNames
  PROVE  Eq(resource_name_from_snowflake_metadata(t), n) <=> t = Denotes(n)
BY KeyIsLookedUp, EqIsSameObject, MetadataDenotesItself

-----------------------------------------------------------------------------
\* Grants are made of what is declared.

LEMMA MeansType ==
  ASSUME NEW d \in Declaration
  PROVE  Means(d) \subseteq GrantRow
<1> SUFFICES ASSUME NEW p \in _privs(d), NEW o \in Targets(d),
                    NEW k, k = (IF d.kind = "GRANT_ON_ALL" THEN "GRANT" ELSE d.kind)
             PROVE  [kind |-> k, priv |-> p, on |-> o, to |-> Grantee(d)] \in GrantRow
  BY DEF Means
<1>1. k \in Kinds \ {"GRANT_ON_ALL"}
  BY DEF Declaration, Kinds
<1>2. p \in STRING \ {"ALL"}
  BY DEF _privs, Declaration
<1>3. k \in RoleKinds => p = "USAGE"
  BY DEF _privs, Declaration, RoleKinds
<1>4. o \in On
  <2>1. CASE d.kind = "GRANT_ON_ALL"
    BY <2>1 DEF Targets, Declaration
  <2>2. CASE d.kind = "GRANT"
    <3>1. granted_on(d.on.type) \in ObjectTypes
      BY ObjectTypesAssumption DEF granted_on, Declaration, On
    <3> QED
      BY <2>2, <3>1 DEF Targets, Declaration, On
  <2>3. CASE d.kind \notin {"GRANT", "GRANT_ON_ALL"}
    BY <2>3 DEF Targets, Declaration
  <2> QED
    BY <2>1, <2>2, <2>3
<1>5. Grantee(d) \in [type : STRING, name : Text]
  <2>1. d.to.name \in PyString /\ d.to.type \in STRING
    BY DEF Declaration
  <2>2. Denotes(ResourceName(d.to.name)) \in Text
    BY <2>1, ResourceNameType, DenotesType
  <2> QED
    BY <2>1, <2>2 DEF Grantee
<1> QED
  BY <1>1, <1>2, <1>3, <1>4, <1>5 DEF GrantRow

LEMMA GrantableType ==
  ASSUME NEW c \in Configs
  PROVE  Grantable(c) \subseteq GrantRow
BY MeansType, GrantsAssumption DEF Grantable, Declared

LEMMA GrantedType ==
  ASSUME NEW c \in Configs, NEW d \in c.declared,
         NEW r, r \in [DOMAIN r -> BOOLEAN], DOMAIN r \subseteq Grantable(c)
  PROVE  /\ Granted(r, d) \in [DOMAIN Granted(r, d) -> BOOLEAN]
         /\ DOMAIN Granted(r, d) \subseteq Grantable(c)
BY DEF Granted, Grantable, Declared

LEMMA RevokedType ==
  ASSUME NEW c \in Configs, NEW g,
         NEW r, r \in [DOMAIN r -> BOOLEAN], DOMAIN r \subseteq Grantable(c)
  PROVE  /\ Revoked(r, g) \in [DOMAIN Revoked(r, g) -> BOOLEAN]
         /\ DOMAIN Revoked(r, g) \subseteq Grantable(c)
BY DEF Revoked

LEMMA DriftsType ==
  ASSUME NEW c \in Configs,
         NEW r, r \in [DOMAIN r -> BOOLEAN], DOMAIN r \subseteq Grantable(c),
         NEW s \in Drifts(c, r)
  PROVE  s \in [DOMAIN s -> BOOLEAN] /\ DOMAIN s \subseteq Grantable(c)
<1>1. CASE \E g \in DOMAIN r : s = Revoked(r, g)
  BY <1>1, RevokedType
<1>2. ASSUME NEW g \in Grantable(c), NEW b \in BOOLEAN, s = GrantedByOthers(r, g, b)
      PROVE  s \in [DOMAIN s -> BOOLEAN] /\ DOMAIN s \subseteq Grantable(c)
  BY <1>2 DEF GrantedByOthers
<1> QED
  BY <1>1, <1>2 DEF Drifts

-----------------------------------------------------------------------------
\* What is found in the account for a listed key.

\* The key u was listed for the grant g, which cannot be mistaken.
ListedFor(u, g) ==
  /\ Revocable(cfg, g)
  /\ u \in list_resource(g.kind, {g})
  /\ g.kind \in RoleKinds => Folded(g) = g \/ Folded(g) \notin Declared(cfg)

\* Sync mode may revoke g, and no declaration it recognizes asks for g.
Justified(g) ==
  /\ Revocable(cfg, g)
  /\ \A d \in cfg.declared : Recognized(d) => g \notin Means(d)

LEMMA RecognizedUrn ==
  ASSUME NEW d \in Declaration, Recognized(d), NEW g \in Means(d)
  PROVE  /\ d.kind = g.kind
         /\ d.priv = g.priv
         /\ d.on = g.on
         /\ d.to.type = g.to.type
         /\ Str(ResourceName(d.to.name)) = RoleKey(g)
         /\ g.kind \in RoleKinds => Str(ResourceName(d.to.name)) = Bare(g.to.name)
<1>1. PICK p \in _privs(d), o \in Targets(d) :
        g = [kind |-> IF d.kind = "GRANT_ON_ALL" THEN "GRANT" ELSE d.kind,
             priv |-> p, on |-> o, to |-> Grantee(d)]
  BY DEF Means
<1>2. d.kind = g.kind
  BY <1>1 DEF Recognized
<1>3. d.priv = g.priv
  BY <1>1 DEF Recognized, _privs
<1>4. d.on = g.on
  <2>1. CASE d.kind = "GRANT"
    <3>1. o = [d.on EXCEPT !.type = d.on.type]
      BY <1>1, <2>1 DEF Targets, granted_on, Recognized
    <3>2. [d.on EXCEPT !.type = d.on.type] = d.on
      BY DEF Declaration, On
    <3> QED
      BY <1>1, <3>1, <3>2
  <2>2. CASE d.kind # "GRANT"
    BY <1>1, <2>2 DEF Targets, Recognized
  <2> QED
    BY <2>1, <2>2
<1>5. g.to.type = d.to.type /\ g.to.name = Denotes(ResourceName(d.to.name))
  BY <1>1 DEF Grantee
<1>6. Str(ResourceName(d.to.name)) = RoleKey(g)
  BY <1>5 DEF Recognized, Canonical, RoleKey
<1>7. ASSUME g.kind \in RoleKinds
      PROVE  Str(ResourceName(d.to.name)) = Bare(g.to.name)
  BY <1>2, <1>5, <1>7 DEF Recognized, Str, Denotes
<1> QED
  BY <1>2, <1>3, <1>4, <1>5, <1>6, <1>7

\* A row found for a listed key is the one listed, the like one of a name in
\* capitals, or one of a collection of the same name.
LEMMA FoundForKey ==
  ASSUME NEW g0 \in GrantRow, NEW u, u \in list_resource(g0.kind, {g0}),
         NEW held \in SUBSET GrantRow, NEW g \in Rows(u, held)
  PROVE  /\ g \in GrantRow
         /\ g.kind \in RoleKinds => g = Folded(g0)
         /\ g.kind = "GRANT" => g = g0
         /\ g.kind = "FUTURE_GRANT" =>
              /\ g = [g0 EXCEPT !.on = g.on]
              /\ g.on.type = g0.on.type /\ g.on.name = g0.on.name
<1>1. /\ g \in GrantRow
      /\ g.kind = u.kind
      /\ SameGrantee(u, g)
  BY DEF Rows
<1>2. /\ g.kind \in Kinds /\ g.priv # "ALL" /\ g.on \in On /\ g.to.name \in Text
      /\ g = [kind |-> g.kind, priv |-> g.priv, on |-> g.on, to |-> g.to]
      /\ g.to = [type |-> g.to.type, name |-> g.to.name]
  BY <1>1 DEF GrantRow
<1>3. /\ g0.kind \in Kinds /\ g0.priv # "ALL" /\ g0.on \in On /\ g0.to.name \in Text
      /\ g0 = [kind |-> g0.kind, priv |-> g0.priv, on |-> g0.on, to |-> g0.to]
      /\ g0.to = [type |-> g0.to.type, name |-> g0.to.name]
  BY DEF GrantRow
<1>4. CASE g0.kind = "GRANT"
  <2>1. u = key(g0, g0.on, RoleKey(g0))
    BY <1>4 DEF list_resource, list_grants
  <2>2. g.kind = "GRANT" /\ g.on = g0.on /\ g.priv = g0.priv /\ g.to.type = g0.to.type
    BY <1>1, <1>3, <1>4, <2>1 DEF Rows, key, SameGrantee
  <2>3. ResourceName(u.to.name) = resource_name_from_snowflake_metadata(g0.to.name)
    BY <1>3, <2>1, KeyIsLookedUp DEF key, RoleKey
  <2>4. g.to.name = g0.to.name
    BY <1>1, <1>2, <1>3, <2>3, KeyIsLookedUp, GranteeFound, MetadataDenotesItself
       DEF SameGrantee
  <2> QED
    BY <1>1, <1>2, <1>3, <1>4, <2>2, <2>4 DEF RoleKinds
<1>5. CASE g0.kind = "FUTURE_GRANT"
  <2>1. \E o : u = key(g0, o, RoleKey(g0)) /\ o.type = g0.on.type /\ o.name = g0.on.name
    <3> DEFINE o == [g0.on EXCEPT !.in = IF g0.on.type = "SCHEMA" THEN "DATABASE" ELSE "SCHEMA"]
    <3>1. u = key(g0, o, RoleKey(g0))
      BY <1>5 DEF list_resource, list_future_grants
    <3>2. o.type = g0.on.type /\ o.name = g0.on.name
      BY <1>3 DEF On
    <3> HIDE DEF o
    <3> QED
      BY <3>1, <3>2
  <2>2. /\ g.kind = "FUTURE_GRANT" /\ g.priv = g0.priv /\ g.to.type = g0.to.type
        /\ g.on.type = g0.on.type /\ g.on.name = g0.on.name
    BY <1>1, <1>5, <2>1 DEF Rows, key, SameGrantee
  <2>3. ResourceName(u.to.name) = resource_name_from_snowflake_metadata(g0.to.name)
    BY <1>3, <2>1, KeyIsLookedUp DEF key, RoleKey
  <2>4. g.to.name = g0.to.name
    BY <1>1, <1>2, <1>3, <2>3, KeyIsLookedUp, GranteeFound, MetadataDenotesItself
       DEF SameGrantee
  <2> QED
    BY <1>1, <1>2, <1>3, <1>5, <2>2, <2>4 DEF RoleKinds
<1>6. CASE g0.kind \in RoleKinds
  <2>1. u = key(g0, g0.on, Bare(g0.to.name))
    BY <1>6 DEF list_resource, list_role_grants, list_database_role_grants, RoleKinds
  <2>2. g.kind = g0.kind /\ g.on = g0.on /\ g.to.type = g0.to.type
    BY <1>1, <1>6, <2>1 DEF Rows, key, SameGrantee, RoleKinds
  <2>3. g.priv = g0.priv
    BY <1>1, <1>6, <2>2 DEF GrantRow
  <2>4. g.to.name = Denotes(ResourceName(Bare(g0.to.name)))
    BY <1>1, <1>2, <1>3, <2>1, BareName, GranteeFound DEF SameGrantee, key
  <2>5. Folded(g0) = [kind |-> g0.kind, priv |-> g0.priv, on |-> g0.on,
                      to |-> [type |-> g0.to.type,
                              name |-> Denotes(ResourceName(Bare(g0.to.name)))]]
    BY <1>3 DEF Folded
  <2> QED
    BY <1>1, <1>2, <1>6, <2>2, <2>3, <2>4, <2>5 DEF RoleKinds
<1> QED
  BY <1>3, <1>4, <1>5, <1>6 DEF Kinds, RoleKinds, list_resource

\* The rows a fetch may return for a listed key are those of Rows, unless it is
\* for a database role with several grantees.
LEMMA FrontIsFound ==
  ASSUME Distinguishable, NEW u, NEW g0, ListedFor(u, g0),
         NEW g \in Front(u, DOMAIN rows), Rows(u, DOMAIN rows) # {}
  PROVE  g \in Rows(u, DOMAIN rows)
<1>1. CASE u.kind # "DATABASE_ROLE_GRANT"
  BY <1>1 DEF Front
<1>2. CASE u.kind = "DATABASE_ROLE_GRANT"
  <2>1. PICK h \in Rows(u, DOMAIN rows) : TRUE
    OBVIOUS
  <2>2. h \in DOMAIN rows /\ h.kind = u.kind /\ h.on = u.on
    BY <1>2 DEF Rows
  <2>3. g \in DOMAIN rows /\ g.kind = u.kind /\ g.on = u.on
    BY <1>2 DEF Front
  <2>4. g0.kind = u.kind
    BY DEF ListedFor, list_resource, list_grants, list_future_grants, list_role_grants,
           list_database_role_grants, key
  <2>5. Revocable(cfg, h)
    BY <1>2, <2>2, <2>4 DEF ListedFor, Revocable, RoleKinds
  <2>6. g = h
    BY <1>2, <2>2, <2>3, <2>5 DEF Distinguishable, RoleKinds
  <2> QED
    BY <2>1, <2>6
<1> QED
  BY <1>1, <1>2

\* What sync mode fetches and does not find in the manifest it may revoke.
LEMMA UndeclaredIsJustified ==
  ASSUME TypeOK, Distinguishable, NEW u, u \notin Manifest,
         NEW g0 \in GrantRow, ListedFor(u, g0), NEW data \in fetch_resource(u, rows)
  PROVE  Justified(data.row)
<1>1. PICK g : g = data.row
  OBVIOUS
<1>2. DOMAIN rows \in SUBSET GrantRow /\ cfg.declared \subseteq Declaration
  BY GrantableType, GrantsAssumption DEF TypeOK
<1>3. Rows(u, DOMAIN rows) # {} /\ g \in Front(u, DOMAIN rows)
  BY <1>1 DEF fetch_resource
<1>4. g \in Rows(u, DOMAIN rows)
  BY <1>3, FrontIsFound
<1>5. u \in list_resource(g0.kind, {g0})
  BY DEF ListedFor
<1>6. /\ g \in GrantRow
      /\ g.kind \in RoleKinds => g = Folded(g0)
      /\ g.kind = "GRANT" => g = g0
      /\ g.kind = "FUTURE_GRANT" =>
           /\ g = [g0 EXCEPT !.on = g.on]
           /\ g.on.type = g0.on.type /\ g.on.name = g0.on.name
  BY <1>2, <1>4, <1>5, FoundForKey
<1>7. g.kind = g0.kind
  BY <1>6 DEF GrantRow, Kinds, RoleKinds, Folded
<1>8. Revocable(cfg, g)
  BY <1>6, <1>7 DEF ListedFor, Revocable, GrantRow, Kinds, RoleKinds, Folded
<1>9. ASSUME NEW d \in cfg.declared, Recognized(d), g \in Means(d)
      PROVE  urn(d) = u
  <2>1. /\ d.kind = g.kind
        /\ d.priv = g.priv
        /\ d.on = g.on
        /\ d.to.type = g.to.type
        /\ Str(ResourceName(d.to.name)) = RoleKey(g)
        /\ g.kind \in RoleKinds => Str(ResourceName(d.to.name)) = Bare(g.to.name)
    BY <1>2, <1>9, RecognizedUrn
  <2>2. CASE g.kind = "GRANT"
    <3>1. u = key(g, g.on, RoleKey(g))
      BY <1>5, <1>6, <2>2 DEF list_resource, list_grants
    <3> QED
      BY <2>1, <3>1 DEF urn, key
  <2>3. CASE g.kind = "FUTURE_GRANT"
    <3> DEFINE o == [g0.on EXCEPT !.in = IF g0.on.type = "SCHEMA" THEN "DATABASE" ELSE "SCHEMA"]
    <3>1. u = key(g0, o, RoleKey(g0))
      BY <1>5, <1>7, <2>3 DEF list_resource, list_future_grants
    <3>2. o = g.on
      <4>1. g.on \in On /\ g0.on \in On
        BY <1>6 DEF GrantRow
      <4>2. g.on.in = IF g0.on.type = "SCHEMA" THEN "DATABASE" ELSE "SCHEMA"
        BY <1>2, <1>6, <1>9, <2>1, <2>3 DEF Recognized, Declaration
      <4> QED
        BY <1>6, <2>3, <4>1, <4>2 DEF On
    <3>3. RoleKey(g) = RoleKey(g0) /\ g.priv = g0.priv /\ g.to = g0.to
      BY <1>6, <2>3 DEF RoleKey, GrantRow
    <3> HIDE DEF o
    <3> QED
      BY <1>7, <2>1, <3>1, <3>2, <3>3 DEF urn, key
  <2>4. CASE g.kind \in RoleKinds
    <3>1. Folded(g0) \in Declared(cfg)
      BY <1>6, <1>9, <2>4 DEF Declared
    <3>2. g = g0
      BY <1>6, <1>7, <2>4, <3>1 DEF ListedFor
    <3>3. u = key(g, g.on, Bare(g.to.name))
      BY <1>5, <2>4, <3>2
         DEF list_resource, list_role_grants, list_database_role_grants, RoleKinds
    <3> QED
      BY <2>1, <2>4, <3>3 DEF urn, key
  <2> QED
    BY <1>6, <2>2, <2>3, <2>4 DEF GrantRow, Kinds, RoleKinds
<1> QED
  BY <1>1, <1>8, <1>9 DEF Justified, Manifest

-----------------------------------------------------------------------------
\* Types, and what is left over between the phases of a run.
Phases ==
  /\ pc = "idle" => kinds = {} /\ todo = {} /\ DOMAIN remote = {}
  /\ pc = "running" => todo = {}
  /\ kinds # {} => cfg.run_mode = "SYNC"
  /\ pc = "fetching" => todo \subseteq Manifest

LEMMA InitType == Init => TypeOK /\ Phases
<1> SUFFICES ASSUME Init PROVE TypeOK /\ Phases
  OBVIOUS
<1>1. rows \in [DOMAIN rows -> BOOLEAN] /\ DOMAIN rows \subseteq Grantable(cfg)
  BY GrantsAssumption DEF Init
<1> QED
  BY <1>1, GrantsAssumption DEF Init, NoRun, NoState, TypeOK, Phases

LEMMA EndRunType ==
  ASSUME TypeOK, NEW how \in {"done", "failed"}, EndRun(how),
         UNCHANGED <<rows, cfg, clean, mishaps>>
  PROVE  TypeOK' /\ Phases'
BY DEF EndRun, NoState, TypeOK, Phases

LEMMA FetchedKind ==
  ASSUME NEW u, NEW acc, NEW data \in fetch_resource(u, acc)
  PROVE  data.row.kind = u.kind
BY DEF fetch_resource, Front, Rows

LEMMA NextType ==
  ASSUME TypeOK, Phases, [Next]_vars
  PROVE  TypeOK' /\ Phases'
<1>1. CASE StartRun
  BY <1>1, GrantsAssumption DEF StartRun, TypeOK, Phases
<1>2. CASE ListKind
  <2>1. PICK k \in kinds :
          IF CanList(k)
            THEN /\ kinds' = kinds \ {k}
                 /\ todo' = list_resource(k, DOMAIN rows)
                 /\ UNCHANGED <<pc, remote, add, drop, outcome>>
            ELSE EndRun("failed")
    BY <1>2 DEF ListKind
  <2>2. CASE CanList(k)
    BY <1>2, <2>1, <2>2 DEF ListKind, TypeOK, Phases
  <2>3. CASE ~ CanList(k)
    BY <1>2, <2>1, <2>3, EndRunType DEF ListKind
  <2> QED
    BY <2>2, <2>3
<1>3. CASE FetchListed
  <2>1. PICK u \in todo :
          IF fetch_resource(u, rows) = {}
            THEN EndRun("failed")
            ELSE /\ \E data \in fetch_resource(u, rows) : Record(u, data)
                 /\ todo' = todo \ {u}
                 /\ UNCHANGED <<pc, kinds, add, drop, outcome>>
    BY <1>3 DEF FetchListed
  <2>2. CASE fetch_resource(u, rows) = {}
    BY <1>3, <2>1, <2>2, EndRunType DEF FetchListed
  <2>3. CASE fetch_resource(u, rows) # {}
    <3>1. PICK data \in fetch_resource(u, rows) : Record(u, data)
      BY <2>1, <2>3
    <3>2. data.row.kind = u.kind
      BY FetchedKind
    <3> QED
      BY <1>3, <2>1, <2>3, <3>1, <3>2 DEF FetchListed, Record, TypeOK, Phases
  <2> QED
    BY <2>2, <2>3
<1>4. CASE StartFetch
  BY <1>4 DEF StartFetch, TypeOK, Phases, Manifest
<1>5. CASE FetchDeclared
  <2>1. PICK u \in todo :
          /\ todo' = todo \ {u}
          /\ \/ UNCHANGED remote
             \/ \E data \in fetch_resource(u, rows) : Record(u, data)
    BY <1>5 DEF FetchDeclared
  <2>2. Phases'
    BY <1>5, <2>1 DEF FetchDeclared, Phases, Manifest
  <2>3. CASE UNCHANGED remote
    BY <1>5, <2>2, <2>3 DEF FetchDeclared, TypeOK
  <2>4. ASSUME NEW data \in fetch_resource(u, rows), Record(u, data)
        PROVE  TypeOK'
    <3>1. data.row.kind = u.kind
      BY FetchedKind
    <3> QED
      BY <1>5, <2>4, <3>1 DEF FetchDeclared, Record, TypeOK
  <2> QED
    BY <2>1, <2>2, <2>3, <2>4
<1>6. CASE MakePlan
  <2>1. CASE \E d \in Updates(remote) : d.kind \in CannotUpdate
    BY <1>6, <2>1, EndRunType DEF MakePlan
  <2>2. CASE ~ \E d \in Updates(remote) : d.kind \in CannotUpdate
    <3>1. Creates(remote) \subseteq cfg.declared /\ Updates(remote) \subseteq cfg.declared
      BY DEF Creates, Updates
    <3> QED
      BY <1>6, <2>2, <3>1 DEF MakePlan, TypeOK, NoState, Phases
  <2> QED
    BY <2>1, <2>2
<1>7. CASE ExecuteAddition
  <2>1. PICK c \in add :
          IF c.op = "update" \/ Refused(rows, c.of)
            THEN EndRun("failed") /\ UNCHANGED rows
            ELSE /\ rows' = Granted(rows, c.of)
                 /\ add' = add \ {c}
                 /\ UNCHANGED <<pc, kinds, todo, remote, drop, outcome>>
    BY <1>7 DEF ExecuteAddition
  <2>2. CASE c.op = "update" \/ Refused(rows, c.of)
    BY <1>7, <2>1, <2>2, EndRunType DEF ExecuteAddition
  <2>3. CASE ~ (c.op = "update" \/ Refused(rows, c.of))
    <3>1. c.of \in cfg.declared
      BY DEF TypeOK
    <3>2. rows' \in [DOMAIN rows' -> BOOLEAN] /\ DOMAIN rows' \subseteq Grantable(cfg)
      BY <2>1, <2>3, <3>1, GrantedType DEF TypeOK
    <3> QED
      BY <1>7, <2>1, <2>3, <3>2 DEF ExecuteAddition, TypeOK, Phases
  <2> QED
    BY <2>2, <2>3
<1>8. CASE ExecuteDrop
  <2>1. PICK g \in drop : rows' = Revoked(rows, g) /\ drop' = drop \ {g}
    BY <1>8 DEF ExecuteDrop
  <2>2. rows' \in [DOMAIN rows' -> BOOLEAN] /\ DOMAIN rows' \subseteq Grantable(cfg)
    BY <2>1, RevokedType DEF TypeOK
  <2> QED
    BY <1>8, <2>1, <2>2 DEF ExecuteDrop, TypeOK, Phases
<1>9. CASE Finish
  BY <1>9, EndRunType DEF Finish
<1>10. ASSUME Mishap
       PROVE  mishaps' \in 0 .. MaxMishaps /\ clean' \in BOOLEAN
  <2>1. MaxMishaps \in Nat
    BY GrantsAssumption
  <2>2. mishaps \in 0 .. MaxMishaps
    BY DEF TypeOK
  <2>3. mishaps < MaxMishaps /\ mishaps' = mishaps + 1
    BY <1>10 DEF Mishap
  <2>4. clean' \in BOOLEAN
    BY <1>10 DEF Mishap
  <2> QED
    BY <2>1, <2>2, <2>3, <2>4
<1>11. CASE Drift
  <2>1. rows' \in [DOMAIN rows' -> BOOLEAN] /\ DOMAIN rows' \subseteq Grantable(cfg)
    BY <1>11, DriftsType DEF Drift, TypeOK
  <2> QED
    BY <1>10, <1>11, <2>1 DEF Drift, run, TypeOK, Phases, Manifest
<1>12. CASE Crash
  BY <1>10, <1>12 DEF Crash, EndRun, NoState, TypeOK, Phases
<1>13. CASE SkipInvalidGrant
  <2>1. PICK c \in add : add' = add \ {c}
    BY <1>13 DEF SkipInvalidGrant
  <2> QED
    BY <1>10, <1>13, <2>1 DEF SkipInvalidGrant, TypeOK, Phases, Manifest
<1>14. CASE UNCHANGED vars
  BY <1>14 DEF vars, TypeOK, Phases, Manifest
<1> QED
  BY <1>1, <1>2, <1>3, <1>4, <1>5, <1>6, <1>7, <1>8, <1>9, <1>11, <1>12, <1>13, <1>14
     DEF Next, ToolStep

\* A plan outlives no run, nothing but what is declared is planned to be
\* granted, and an account keeps to the grants somebody makes, whatever others
\* and crashes do.
THEOREM GrantsTypeOK == Spec => []TypeOK
<1>1. Init => TypeOK /\ Phases
  BY InitType
<1>2. (TypeOK /\ Phases) /\ [Next]_vars => (TypeOK /\ Phases)'
  BY NextType
<1> QED
  BY <1>1, <1>2, PTL DEF Spec

-----------------------------------------------------------------------------
\* The invariant: what is listed, fetched and planned to be dropped can be
\* justified.
TodoListed ==
  pc = "listing" => \A u \in todo : \E g \in GrantRow : ListedFor(u, g)

RemoteJustified == \A u \in DOMAIN remote \ Manifest : Justified(remote[u].row)

DropsJustified == \A g \in drop : Justified(g)

IInv == TypeOK /\ Phases /\ TodoListed /\ RemoteJustified /\ DropsJustified

LEMMA InitInv == Init => IInv
BY InitType
   DEF Init, NoRun, NoState, IInv, TodoListed, RemoteJustified, DropsJustified

\* A run that ends leaves nothing to justify.
LEMMA EndRunInv ==
  ASSUME NEW how, EndRun(how)
  PROVE  (TodoListed /\ RemoteJustified /\ DropsJustified)'
BY DEF EndRun, NoState, TodoListed, RemoteJustified, DropsJustified

\* Nor does a step that leaves them alone, or takes some of them away.
LEMMA LessToJustify ==
  ASSUME TodoListed, RemoteJustified, DropsJustified, cfg' = cfg,
         pc' = "listing" => pc = "listing" /\ todo' \subseteq todo,
         UNCHANGED remote, drop' \subseteq drop
  PROVE  (TodoListed /\ RemoteJustified /\ DropsJustified)'
<1>1. TodoListed'
  BY DEF TodoListed, ListedFor
<1>2. RemoteJustified'
  BY DEF RemoteJustified, Justified, Manifest
<1>3. DropsJustified'
  BY DEF DropsJustified, Justified
<1> QED
  BY <1>1, <1>2, <1>3

LEMMA ListedIsRevocable ==
  ASSUME TypeOK, cfg.run_mode = "SYNC", NEW k \in cfg.allowlist,
         NEW u \in list_resource(k, DOMAIN rows)
  PROVE  \E g \in DOMAIN rows :
           g.kind = k /\ Revocable(cfg, g) /\ u \in list_resource(k, {g})
<1>1. DOMAIN rows \subseteq GrantRow
  BY GrantableType DEF TypeOK
<1>2. PICK g \in DOMAIN rows :
        /\ g.kind = k
        /\ u \in list_resource(k, {g})
        /\ k = "GRANT" => g.priv \notin UnlistedPrivs /\ g.on.type # "ROLE"
        /\ k \in {"GRANT", "FUTURE_GRANT"} => OfRole(g)
        /\ k = "ROLE_GRANT" => g.on.name \notin SystemRoles
  <2>1. CASE k = "GRANT"
    BY <2>1 DEF list_resource, list_grants
  <2>2. CASE k = "FUTURE_GRANT"
    BY <2>2 DEF list_resource, list_future_grants
  <2>3. CASE k = "ROLE_GRANT"
    BY <2>3 DEF list_resource, list_role_grants
  <2>4. CASE k = "DATABASE_ROLE_GRANT"
    BY <2>4 DEF list_resource, list_database_role_grants
  <2> QED
    BY <2>1, <2>2, <2>3, <2>4 DEF list_resource
<1>3. Revocable(cfg, g)
  BY <1>1, <1>2 DEF Revocable, OfRole, GrantRow, Kinds, RoleKinds
<1> QED
  BY <1>2, <1>3

LEMMA ListedCanBeJustified ==
  ASSUME IInv, Distinguishable, NEW k \in kinds, NEW u \in list_resource(k, DOMAIN rows)
  PROVE  \E g \in GrantRow : ListedFor(u, g)
<1>1. DOMAIN rows \subseteq GrantRow
  BY GrantableType DEF IInv, TypeOK
<1>2. TypeOK /\ k \in cfg.allowlist /\ cfg.run_mode = "SYNC"
  BY DEF IInv, TypeOK, Phases
<1>3. PICK g \in DOMAIN rows :
        g.kind = k /\ Revocable(cfg, g) /\ u \in list_resource(k, {g})
  BY <1>2, ListedIsRevocable
<1> QED
  BY <1>1, <1>3 DEF ListedFor, Distinguishable

LEMMA NextInv ==
  ASSUME IInv, Distinguishable, [Next]_vars
  PROVE  IInv'
<1>1. TypeOK' /\ Phases'
  BY NextType DEF IInv
<1> SUFFICES (TodoListed /\ RemoteJustified /\ DropsJustified)'
  BY <1>1 DEF IInv
<1>2. CASE StartRun
  <2>1. todo = {} /\ todo' = {}
    BY <1>2 DEF StartRun, IInv, Phases
  <2> QED
    BY <1>2, <2>1
       DEF StartRun, IInv, TodoListed, RemoteJustified, Justified, Manifest, DropsJustified
<1>3. CASE ListKind
  <2>1. PICK k \in kinds :
          IF CanList(k)
            THEN /\ kinds' = kinds \ {k}
                 /\ todo' = list_resource(k, DOMAIN rows)
                 /\ UNCHANGED <<pc, remote, add, drop, outcome>>
            ELSE EndRun("failed")
    BY <1>3 DEF ListKind
  <2>2. CASE CanList(k)
    <3>1. RemoteJustified' /\ DropsJustified'
      BY <1>3, <2>1, <2>2
         DEF ListKind, IInv, RemoteJustified, Justified, Manifest, DropsJustified
    <3>2. TodoListed'
      BY <1>3, <2>1, <2>2, ListedCanBeJustified DEF ListKind, TodoListed, ListedFor
    <3> QED
      BY <3>1, <3>2
  <2> QED
    BY <2>1, <2>2, EndRunInv
<1>4. CASE FetchListed
  <2>1. PICK u \in todo :
          IF fetch_resource(u, rows) = {}
            THEN EndRun("failed")
            ELSE /\ \E data \in fetch_resource(u, rows) : Record(u, data)
                 /\ todo' = todo \ {u}
                 /\ UNCHANGED <<pc, kinds, add, drop, outcome>>
    BY <1>4 DEF FetchListed
  <2>2. CASE fetch_resource(u, rows) # {}
    <3>1. PICK data \in fetch_resource(u, rows) : Record(u, data)
      BY <2>1, <2>2
    <3>2. u \notin Manifest => Justified(data.row)
      BY <1>4, UndeclaredIsJustified DEF FetchListed, TodoListed, IInv
    <3>3. DropsJustified'
      BY <1>4, <2>1, <2>2 DEF FetchListed, IInv, DropsJustified, Justified
    <3>4. TodoListed'
      BY <1>4, <2>1, <2>2 DEF FetchListed, IInv, TodoListed, ListedFor
    <3>5. RemoteJustified'
      BY <1>4, <3>1, <3>2 DEF FetchListed, IInv, Record, RemoteJustified, Justified, Manifest
    <3> QED
      BY <3>3, <3>4, <3>5
  <2> QED
    BY <2>1, <2>2, EndRunInv
<1>5. CASE StartFetch
  BY <1>5, LessToJustify DEF StartFetch, IInv
<1>6. CASE FetchDeclared
  <2>1. PICK u \in todo :
          /\ todo' = todo \ {u}
          /\ \/ UNCHANGED remote
             \/ \E data \in fetch_resource(u, rows) : Record(u, data)
    BY <1>6 DEF FetchDeclared
  <2>2. CASE UNCHANGED remote
    BY <1>6, <2>1, <2>2, LessToJustify DEF FetchDeclared, IInv
  <2>3. ASSUME NEW data \in fetch_resource(u, rows), Record(u, data)
        PROVE  (TodoListed /\ RemoteJustified /\ DropsJustified)'
    <3>1. u \in Manifest
      BY <1>6 DEF FetchDeclared, IInv, Phases
    <3>2. RemoteJustified'
      BY <1>6, <2>3, <3>1 DEF FetchDeclared, IInv, Record, RemoteJustified, Justified, Manifest
    <3> QED
      BY <1>6, <3>2 DEF FetchDeclared, IInv, TodoListed, DropsJustified, Justified
  <2> QED
    BY <2>1, <2>2, <2>3
<1>7. CASE MakePlan
  <2>1. CASE ~ \E d \in Updates(remote) : d.kind \in CannotUpdate
    <3>1. DropsJustified'
      BY <1>7, <2>1 DEF MakePlan, IInv, DropsJustified, Drops, RemoteJustified, Justified
    <3> QED
      BY <1>7, <2>1, <3>1 DEF MakePlan, TodoListed, RemoteJustified, NoState
  <2> QED
    BY <1>7, <2>1, EndRunInv DEF MakePlan
<1>8. CASE ExecuteAddition
  <2>1. CASE UNCHANGED <<pc, kinds, todo, remote, drop, outcome>>
    BY <1>8, <2>1, LessToJustify DEF ExecuteAddition, IInv
  <2> QED
    BY <1>8, <2>1, EndRunInv DEF ExecuteAddition
<1>9. CASE ExecuteDrop
  BY <1>9, LessToJustify DEF ExecuteDrop, IInv
<1>10. CASE Finish
  BY <1>10, EndRunInv DEF Finish
<1>11. CASE Drift
  BY <1>11, LessToJustify DEF Drift, run, IInv
<1>12. CASE Crash
  BY <1>12, EndRunInv DEF Crash
<1>13. CASE SkipInvalidGrant
  BY <1>13, LessToJustify DEF SkipInvalidGrant, IInv
<1>14. CASE UNCHANGED vars
  BY <1>14, LessToJustify DEF vars, IInv
<1> QED
  BY <1>2, <1>3, <1>4, <1>5, <1>6, <1>7, <1>8, <1>9, <1>10, <1>11, <1>12, <1>13, <1>14
     DEF Next, ToolStep

-----------------------------------------------------------------------------
\* The policy is about the same grants.
LEMMA PolicyOperators ==
  ASSUME NEW c, NEW r, NEW g
  PROVE  /\ Policy!Means(g) = Means(g)
         /\ Policy!Granted(r, g) = Granted(r, g)
         /\ Policy!Revoked(r, g) = Revoked(r, g)
         /\ Policy!Drifts(c, r) = Drifts(c, r)
         /\ Policy!Revocable(c, g) <=> Revocable(c, g)
         /\ Policy!Recognized(g) <=> Recognized(g)
<1>1. \A d : Policy!Means(d) = Means(d)
  BY DEF Policy!Means, Policy!_privs, Policy!Grantee, Policy!Targets, Policy!granted_on,
         Policy!Denotes, Policy!ResourceName, Policy!_name_should_be_quoted,
         Means, _privs, Grantee, Targets, granted_on, Denotes, ResourceName,
         _name_should_be_quoted
<1>2. Policy!Recognized(g) <=> Recognized(g)
  <2>1. \A s : Policy!ResourceName(s) = ResourceName(s)
    BY DEF Policy!ResourceName, Policy!_name_should_be_quoted, ResourceName,
           _name_should_be_quoted
  <2>2. \A n : Policy!Str(n) = Str(n) /\ Policy!Denotes(n) = Denotes(n)
    BY DEF Policy!Str, Policy!Denotes, Policy!InQuotes, Policy!Bare, Str, Denotes, InQuotes, Bare
  <2>3. \A s : Policy!resource_name_from_snowflake_metadata(s)
                 = resource_name_from_snowflake_metadata(s)
    BY <2>1 DEF Policy!resource_name_from_snowflake_metadata, Policy!InQuotes, Policy!Bare,
                resource_name_from_snowflake_metadata, InQuotes, Bare
  <2>4. Policy!Canonical(g.to.name) <=> Canonical(g.to.name)
    BY <2>1, <2>2, <2>3 DEF Policy!Canonical, Canonical
  <2> QED
    BY <2>1, <2>4 DEF Policy!Recognized, Policy!RoleKinds, Recognized, RoleKinds
<1>3. Policy!Granted(r, g) = Granted(r, g)
  BY <1>1 DEF Policy!Granted, Policy!WithGrantOption, Granted, WithGrantOption
<1>4. \A h : Policy!Revoked(r, h) = Revoked(r, h)
  BY DEF Policy!Revoked, Revoked
<1>5. Policy!Drifts(c, r) = Drifts(c, r)
  <2>1. Policy!Grantable(c) = Grantable(c)
    BY <1>1 DEF Policy!Grantable, Policy!Declared, Grantable, Declared
  <2>2. \A h, b : Policy!GrantedByOthers(r, h, b) = GrantedByOthers(r, h, b)
    BY DEF Policy!GrantedByOthers, Policy!RoleKinds, GrantedByOthers, RoleKinds
  <2> QED
    BY <1>4, <2>1, <2>2 DEF Policy!Drifts, Drifts
<1>6. Policy!Revocable(c, g) <=> Revocable(c, g)
  BY DEF Policy!Revocable, Policy!UnlistedPrivs, Policy!RoleKinds, Revocable, UnlistedPrivs,
         RoleKinds
<1> QED
  BY <1>1, <1>2, <1>3, <1>4, <1>5, <1>6

\* Every step is one of the policy, or leaves the grants alone.
LEMMA NextImplements ==
  ASSUME IInv, [Next]_vars
  PROVE  [Policy!Next]_<<rows, cfg, mishaps>>
<1>1. CASE ExecuteAddition
  <2>1. PICK c \in add :
          IF c.op = "update" \/ Refused(rows, c.of)
            THEN EndRun("failed") /\ UNCHANGED rows
            ELSE /\ rows' = Granted(rows, c.of)
                 /\ add' = add \ {c}
                 /\ UNCHANGED <<pc, kinds, todo, remote, drop, outcome>>
    BY <1>1 DEF ExecuteAddition
  <2>2. c.of \in cfg.declared
    BY DEF IInv, TypeOK
  <2>3. CASE rows' = Granted(rows, c.of)
    BY <1>1, <2>2, <2>3, PolicyOperators
       DEF ExecuteAddition, Policy!Next, Policy!ToolStep, Policy!Grant
  <2> QED
    BY <1>1, <2>1, <2>3 DEF ExecuteAddition
<1>2. CASE ExecuteDrop
  <2>1. PICK g \in drop : rows' = Revoked(rows, g)
    BY <1>2 DEF ExecuteDrop
  <2>2. CASE g \in DOMAIN rows
    <3>1. Policy!Revoke(g)
      BY <2>1, <2>2, PolicyOperators DEF IInv, DropsJustified, Justified, Policy!Revoke
    <3> QED
      BY <1>2, <2>2, <3>1 DEF ExecuteDrop, Policy!Next, Policy!ToolStep
  <2>3. CASE g \notin DOMAIN rows
    <3>1. DOMAIN rows \ {g} = DOMAIN rows
      BY <2>3
    <3>2. Revoked(rows, g) = rows
      BY <3>1 DEF Revoked, IInv, TypeOK
    <3> QED
      BY <1>2, <2>1, <3>2 DEF ExecuteDrop
  <2> QED
    BY <2>2, <2>3
<1>3. CASE Drift
  BY <1>3, PolicyOperators DEF Drift, Mishap, Policy!Next, Policy!Mishap
<1>4. CASE Crash \/ SkipInvalidGrant
  BY <1>4 DEF Crash, SkipInvalidGrant, Mishap, Policy!Next, Policy!Mishap
<1>5. CASE UNCHANGED <<rows, cfg, mishaps>>
  BY <1>5
<1> QED
  BY <1>1, <1>2, <1>3, <1>4, <1>5
     DEF Next, ToolStep, vars, StartRun, ListKind, FetchListed, StartFetch, FetchDeclared,
         MakePlan, Finish

\* Runs of a blueprint do to the grants of an account only what the policy has,
\* whatever is declared, whoever changes what meanwhile and whenever a run dies,
\* as long as no fetch of a role grant can take another's for it.
THEOREM GrantsImplementPolicy == Spec /\ []Distinguishable => ImplementsPolicy
<1>1. Init => IInv
  BY InitInv
<1>2. IInv /\ Distinguishable /\ [Next]_vars => IInv'
  BY NextInv
<1>3. Init => Policy!Init
  BY DEF Init, Policy!Init
<1>4. IInv /\ [Next]_vars => [Policy!Next]_<<rows, cfg, mishaps>>
  BY NextImplements
<1> QED
  BY <1>1, <1>2, <1>3, <1>4, PTL DEF Spec, ImplementsPolicy, Policy!Spec

\* Where every declaration is listed as it is declared, the tool revokes nothing
\* the blueprint declares: run quoted_user has one that is not.
THEOREM DeclaredGrantsStay == Spec /\ []Distinguishable /\ []Ordinary => DeclaredStay
<1>1. Init => IInv
  BY InitInv
<1>2. IInv /\ Distinguishable /\ [Next]_vars => IInv'
  BY NextInv
<1>3. ASSUME IInv, Ordinary, [Next]_vars, ToolStep
      PROVE  Declared(cfg) \cap DOMAIN rows \subseteq DOMAIN rows'
  <2>1. CASE ExecuteAddition
    BY <2>1 DEF ExecuteAddition, Granted
  <2>2. CASE ExecuteDrop
    <3>1. PICK g \in drop : rows' = Revoked(rows, g)
      BY <2>2 DEF ExecuteDrop
    <3>2. g \notin Declared(cfg)
      BY <1>3 DEF IInv, DropsJustified, Justified, Ordinary, Declared
    <3> QED
      BY <3>1, <3>2 DEF Revoked
  <2>3. CASE UNCHANGED rows
    BY <2>3
  <2> QED
    BY <1>3, <2>1, <2>2, <2>3
       DEF ToolStep, StartRun, ListKind, FetchListed, StartFetch, FetchDeclared, MakePlan, Finish
<1>4. IInv /\ Ordinary /\ [Next]_vars
        => [ToolStep => Declared(cfg) \cap DOMAIN rows \subseteq DOMAIN rows']_vars
  BY <1>3
<1> QED
  BY <1>1, <1>2, <1>4, PTL DEF Spec, DeclaredStay

-----------------------------------------------------------------------------
(***************************************************************************)
(* What becomes of a run that nobody disturbs.  It needs an account in     *)
(* which a fetch finds the rows it is meant to find: no database has the   *)
(* name of a schema, a database role has one grantee (its fetch takes the  *)
(* first), and the account has its own word for the types of integrations. *)
(***************************************************************************)
Collections ==
  {g.on : g \in {h \in DOMAIN rows \cup cfg.declared : h.kind = "FUTURE_GRANT"}}

Apart ==
  /\ \A o \in Collections, p \in Collections : o.type = p.type /\ o.name = p.name => o = p
  /\ \A g \in DOMAIN rows, h \in DOMAIN rows :
       /\ g.kind = "DATABASE_ROLE_GRANT" /\ h.kind = "DATABASE_ROLE_GRANT"
       /\ g.on = h.on
       => g = h
  /\ \A g \in DOMAIN rows : g.kind = "GRANT" => g.on.type \notin IntegrationTypes

\* The name of a declaration's key is looked up as the name it declares.
LEMMA KeyDenotes ==
  ASSUME NEW s \in PyString
  PROVE  /\ ResourceName(Str(ResourceName(s))) \in ResourceNames
         /\ Denotes(ResourceName(Str(ResourceName(s)))) = Denotes(ResourceName(s))
<1>1. PICK n \in ResourceNames : n = ResourceName(s)
  BY ResourceNameType
<1>2. n.name \in Text /\ Upper[n.name] \in Text /\ Upper[Upper[n.name]] = Upper[n.name]
  BY NamesAssumption DEF ResourceNames
<1>3. CASE n.quoted
  <2>1. Str(n) = InQuotes(n.name)
    BY <1>3 DEF Str
  <2>2. ResourceName(InQuotes(n.name)) = [name |-> n.name, quoted |-> TRUE]
    BY DEF ResourceName, InQuotes
  <2> QED
    BY <1>1, <1>2, <1>3, <2>1, <2>2 DEF Denotes, ResourceNames
<1>4. CASE ~ n.quoted
  <2>1. Str(n) = Bare(Upper[n.name])
    BY <1>4 DEF Str
  <2>2. PICK m \in ResourceNames : /\ m = ResourceName(Bare(Upper[n.name]))
                                   /\ m.name = Upper[n.name]
    BY <1>2, BareName
  <2>3. Denotes(m) = Upper[n.name]
    BY <1>2, <2>2 DEF Denotes
  <2> QED
    BY <1>1, <1>4, <2>1, <2>2, <2>3 DEF Denotes
<1> QED
  BY <1>3, <1>4

LEMMA SoughtGrantee ==
  ASSUME NEW d \in Declaration, NEW g \in GrantRow
  PROVE  SameGrantee(urn(d), g) <=> g.to = Grantee(d)
<1>1. d.to.name \in PyString /\ g.to.name \in Text
  BY DEF Declaration, GrantRow
<1>2. PICK n \in ResourceNames :
        n = ResourceName(urn(d).to.name) /\ Denotes(n) = Denotes(ResourceName(d.to.name))
  BY <1>1, KeyDenotes DEF urn
<1>3. Eq(resource_name_from_snowflake_metadata(g.to.name), n) <=> g.to.name = Denotes(n)
  BY <1>1, GranteeFound
<1>4. g.to = [type |-> g.to.type, name |-> g.to.name]
  BY DEF GrantRow
<1>5. urn(d).to.type = d.to.type
  BY DEF urn
<1> QED
  BY <1>2, <1>3, <1>4, <1>5 DEF SameGrantee, Grantee

\* The rows found for a declaration.
Sought(d, g) ==
  /\ g.kind = d.kind
  /\ g.to = Grantee(d)
  /\ g.on.type = d.on.type /\ g.on.name = d.on.name
  /\ d.kind # "FUTURE_GRANT" => g.on = d.on
  /\ \/ g.priv = d.priv
     \/ d.kind = "GRANT" /\ d.priv = "ALL"

LEMMA FoundForDeclared ==
  ASSUME NEW d \in Declaration, NEW held \in SUBSET GrantRow
  PROVE  Rows(urn(d), held) = {g \in held : Sought(d, g)}
<1> SUFFICES ASSUME NEW g \in held
             PROVE  g \in Rows(urn(d), held) <=> Sought(d, g)
  BY DEF Rows
<1>1. SameGrantee(urn(d), g) <=> g.to = Grantee(d)
  BY SoughtGrantee
<1>2. urn(d).kind = d.kind /\ urn(d).priv = d.priv /\ urn(d).on = d.on
  BY DEF urn
<1>3. /\ g.kind \in Kinds \ {"GRANT_ON_ALL"} /\ d.kind \in Kinds
      /\ g.kind \in RoleKinds => g.priv = "USAGE"
      /\ d.kind \in RoleKinds => d.priv = "USAGE"
  BY DEF GrantRow, Declaration
<1>4. CASE d.kind = "GRANT"
  BY <1>1, <1>2, <1>4 DEF Rows, Sought
<1>5. CASE d.kind = "FUTURE_GRANT"
  BY <1>1, <1>2, <1>5 DEF Rows, Sought
<1>6. CASE d.kind \in RoleKinds
  BY <1>1, <1>2, <1>3, <1>6 DEF Rows, Sought, RoleKinds
<1>7. CASE d.kind = "GRANT_ON_ALL"
  BY <1>1, <1>2, <1>3, <1>7 DEF Rows, Sought
<1> QED
  BY <1>3, <1>4, <1>5, <1>6, <1>7 DEF Kinds, RoleKinds

LEMMA MeansOfRecognized ==
  ASSUME NEW d \in Declaration, Recognized(d)
  PROVE  Means(d) = {[kind |-> d.kind, priv |-> d.priv, on |-> d.on, to |-> Grantee(d)]}
<1>1. Targets(d) = {d.on}
  <2>1. CASE d.kind = "GRANT"
    <3>1. [d.on EXCEPT !.type = d.on.type] = d.on
      BY DEF Declaration, On
    <3> QED
      BY <2>1, <3>1 DEF Targets, granted_on, Recognized
  <2> QED
    BY <2>1 DEF Targets, Recognized
<1>2. _privs(d) = {d.priv} /\ d.kind # "GRANT_ON_ALL"
  BY DEF _privs, Recognized
<1> QED
  BY <1>1, <1>2 DEF Means

\* What is found for a recognized declaration is what it asks for.
LEMMA FoundIfRecognized ==
  ASSUME TypeOK, Apart, NEW d \in cfg.declared, Recognized(d)
  PROVE  Rows(urn(d), DOMAIN rows) = Means(d) \cap DOMAIN rows
<1>1. DOMAIN rows \in SUBSET GrantRow /\ d \in Declaration
  BY GrantableType, GrantsAssumption DEF TypeOK
<1>2. Rows(urn(d), DOMAIN rows) = {g \in DOMAIN rows : Sought(d, g)}
  BY <1>1, FoundForDeclared
<1>3. Means(d) = {[kind |-> d.kind, priv |-> d.priv, on |-> d.on, to |-> Grantee(d)]}
  BY <1>1, MeansOfRecognized
<1>4. ASSUME NEW g \in DOMAIN rows
      PROVE  Sought(d, g)
               <=> g = [kind |-> d.kind, priv |-> d.priv, on |-> d.on, to |-> Grantee(d)]
  <2>1. g = [kind |-> g.kind, priv |-> g.priv, on |-> g.on, to |-> g.to]
    BY <1>1 DEF GrantRow
  <2>2. d.priv # "ALL"
    BY DEF Recognized
  <2>3. Sought(d, g) => g.on = d.on
    BY DEF Sought, Apart, Collections
  <2> QED
    BY <2>1, <2>2, <2>3 DEF Sought
<1> QED
  BY <1>2, <1>3, <1>4

\* A row a recognized declaration asks for is listed under the declaration's key.
LEMMA ListedAsDeclared ==
  ASSUME NEW d \in Declaration, Recognized(d), NEW g \in Means(d),
         NEW u \in list_resource(g.kind, {g})
  PROVE  u = urn(d)
<1>1. g \in GrantRow
  BY MeansType
<1>2. /\ d.kind = g.kind
      /\ d.priv = g.priv
      /\ d.on = g.on
      /\ d.to.type = g.to.type
      /\ Str(ResourceName(d.to.name)) = RoleKey(g)
      /\ g.kind \in RoleKinds => Str(ResourceName(d.to.name)) = Bare(g.to.name)
  BY RecognizedUrn
<1>3. CASE g.kind = "GRANT"
  <2>1. u = key(g, g.on, RoleKey(g))
    BY <1>3 DEF list_resource, list_grants
  <2> QED
    BY <1>2, <2>1 DEF urn, key
<1>4. CASE g.kind = "FUTURE_GRANT"
  <2> DEFINE o == [g.on EXCEPT !.in = IF g.on.type = "SCHEMA" THEN "DATABASE" ELSE "SCHEMA"]
  <2>1. u = key(g, o, RoleKey(g))
    BY <1>4 DEF list_resource, list_future_grants
  <2>2. o = g.on
    <3>1. g.on \in On
      BY <1>1 DEF GrantRow
    <3>2. g.on.in = IF g.on.type = "SCHEMA" THEN "DATABASE" ELSE "SCHEMA"
      BY <1>2, <1>4 DEF Recognized, Declaration
    <3> QED
      BY <3>1, <3>2 DEF On
  <2> HIDE DEF o
  <2> QED
    BY <1>2, <2>1, <2>2 DEF urn, key
<1>5. CASE g.kind \in RoleKinds
  <2>1. u = key(g, g.on, Bare(g.to.name))
    BY <1>5 DEF list_resource, list_role_grants, list_database_role_grants, RoleKinds
  <2> QED
    BY <1>2, <1>5, <2>1 DEF urn, key
<1> QED
  BY <1>1, <1>3, <1>4, <1>5 DEF GrantRow, Kinds, RoleKinds

LEMMA SettledHasNothingToDo ==
  ASSUME TypeOK, Apart
  PROVE  NothingToDo
<1> SUFFICES ASSUME Settled, Ordinary, ~ CannotSettle
             PROVE  /\ cfg.run_mode = "SYNC" =>
                         UNION {list_resource(k, DOMAIN rows) : k \in cfg.allowlist}
                           \subseteq Manifest
                    /\ \A d \in cfg.declared :
                         /\ fetch_resource(urn(d), rows) # {}
                         /\ \A data \in fetch_resource(urn(d), rows) :
                              data.privs = _privs(d) /\ ~ Differs(d, data)
  BY DEF NothingToDo
<1>1. DOMAIN rows \subseteq GrantRow /\ cfg.declared \subseteq Declaration
  BY GrantableType, GrantsAssumption DEF TypeOK
<1>2. ASSUME cfg.run_mode = "SYNC", NEW k \in cfg.allowlist, NEW u \in list_resource(k, DOMAIN rows)
      PROVE  u \in Manifest
  <2>1. PICK g \in DOMAIN rows :
          g.kind = k /\ Revocable(cfg, g) /\ u \in list_resource(k, {g})
    BY <1>2, ListedIsRevocable
  <2>2. PICK d \in cfg.declared : g \in Means(d)
    BY <2>1 DEF Settled, Declared
  <2>3. u = urn(d)
    BY <1>1, <2>1, <2>2, ListedAsDeclared DEF Ordinary
  <2> QED
    BY <2>3 DEF Manifest
<1>3. ASSUME NEW d \in cfg.declared
      PROVE  /\ fetch_resource(urn(d), rows) # {}
             /\ \A data \in fetch_resource(urn(d), rows) :
                  data.privs = _privs(d) /\ ~ Differs(d, data)
  <2>1. d \in Declaration /\ Recognized(d) /\ d \in Lasting
    BY <1>1 DEF Ordinary, Lasting
  <2>2. PICK g \in DOMAIN rows :
          /\ Means(d) = {g}
          /\ g = [kind |-> d.kind, priv |-> d.priv, on |-> d.on, to |-> Grantee(d)]
    BY <2>1, MeansOfRecognized DEF Settled
  <2>3. Rows(urn(d), DOMAIN rows) = {g}
    BY <2>1, <2>2, FoundIfRecognized
  <2>4. Front(urn(d), DOMAIN rows) = {g}
    BY <2>2, <2>3 DEF Front, Apart, urn
  <2>5. fetch_resource(urn(d), rows)
          = {[row |-> g, option |-> rows[g], to |-> GranteeData(urn(d), g), privs |-> {g.priv}]}
    BY <2>3, <2>4 DEF fetch_resource
  <2>6. rows[g] = d.option
    BY <2>2 DEF CannotSettle
  <2>7. GranteeData(urn(d), g) = urn(d).to
    <3>1. d.to.type = g.to.type /\ Str(ResourceName(d.to.name)) = RoleKey(g)
      BY <2>1, <2>2, RecognizedUrn
    <3> QED
      BY <3>1 DEF GranteeData, urn
  <2>8. _privs(d) = {g.priv}
    BY <2>1, <2>2 DEF _privs, Recognized
  <2> QED
    BY <2>5, <2>6, <2>7, <2>8 DEF Differs
<1> QED
  BY <1>2, <1>3

\* Once the account is as declared, the next plan is empty, whatever is declared,
\* granted and in what order answers come (Apart says of which accounts): keys,
\* names and data of what is fetched agree with the declarations.
THEOREM NothingToDoOnceSettled == Spec /\ []Apart => []NothingToDo
<1>1. TypeOK /\ Apart => NothingToDo
  BY SettledHasNothingToDo
<1> QED
  BY <1>1, GrantsTypeOK, PTL

-----------------------------------------------------------------------------
(***************************************************************************)
(* Why a run nobody disturbed has failed.  A stage's READ must be declared *)
(* in the form its WRITE is: only then does the one wait for the other.    *)
(***************************************************************************)
ReadsAlike ==
  \A d \in cfg.declared, e \in cfg.declared :
    /\ d.priv = "WRITE" /\ d.on.type = "STAGE"
    /\ \E g \in Means(d) : [g EXCEPT !.priv = "READ"] \in Means(e)
    => Waits(d, e)

\* No statement makes the grants of d what is declared.
Stuck(d) ==
  \/ \E g \in Means(d) \cap DOMAIN rows : rows[g] # d.option
  \/ d.kind \in RoleKinds /\ ~ Canonical(d.to.name) /\ Means(d) \subseteq DOMAIN rows

\* What has been listed is held, and the data fetched are of the account.
ListedHeld ==
  pc = "listing" => \A u \in todo : \E g \in DOMAIN rows :
                      Revocable(cfg, g) /\ u \in list_resource(g.kind, {g})

RemoteFound ==
  pc \in {"listing", "fetching"} =>
    \A u \in DOMAIN remote : remote[u] \in fetch_resource(u, rows)

\* Until the last grant is made, what is declared is held or to be granted.
InHand ==
  pc = "running" /\ add # {} =>
    \A d \in cfg.declared : Means(d) \subseteq DOMAIN rows \/ \E c \in add : c.of = d

UpdatesStuck ==
  pc = "running" => \A c \in add : c.op = "update" =>
    c.of.kind \in {"FUTURE_GRANT", "DATABASE_ROLE_GRANT"} /\ Stuck(c.of)

\* A run that goes on has no outcome yet.
Undecided == pc # "idle" => outcome = "none"

RefusalInv ==
  /\ TypeOK /\ Phases /\ Undecided
  /\ clean => ListedHeld /\ RemoteFound /\ InHand /\ UpdatesStuck
  /\ RefusedForAReason

-----------------------------------------------------------------------------
\* The rows found for a declaration in the account, and what they tell.

LEMMA SoughtIsMeant ==
  ASSUME TypeOK, Apart, NEW d \in cfg.declared, NEW g \in DOMAIN rows,
         Sought(d, g), g.priv \in _privs(d)
  PROVE  g \in Means(d)
<1>1. g \in GrantRow /\ d \in Declaration
  BY GrantableType, GrantsAssumption DEF TypeOK
<1>2. g = [kind |-> g.kind, priv |-> g.priv, on |-> g.on, to |-> g.to]
      /\ g.kind # "GRANT_ON_ALL"
  BY <1>1 DEF GrantRow
<1>3. g.on = d.on
  BY DEF Sought, Apart, Collections
<1>4. d.on \in Targets(d)
  <2>1. CASE d.kind = "GRANT"
    <3>1. granted_on(d.on.type) = d.on.type
      BY <1>3, <2>1 DEF Sought, Apart, granted_on
    <3>2. [d.on EXCEPT !.type = d.on.type] = d.on
      BY <1>1 DEF Declaration, On
    <3> QED
      BY <2>1, <3>1, <3>2 DEF Targets
  <2> QED
    BY <1>2, <2>1 DEF Targets, Sought
<1> QED
  BY <1>2, <1>3, <1>4 DEF Means, Sought

LEMMA FetchedData ==
  ASSUME TypeOK, Apart, NEW d \in cfg.declared, NEW data \in fetch_resource(urn(d), rows)
  PROVE  /\ data.row \in DOMAIN rows /\ Sought(d, data.row)
         /\ data.option = rows[data.row]
         /\ data.to = GranteeData(urn(d), data.row)
         /\ data.privs = {h.priv : h \in {g \in DOMAIN rows : Sought(d, g)}}
<1>1. DOMAIN rows \in SUBSET GrantRow /\ d \in Declaration
  BY GrantableType, GrantsAssumption DEF TypeOK
<1>2. Rows(urn(d), DOMAIN rows) = {g \in DOMAIN rows : Sought(d, g)}
  BY <1>1, FoundForDeclared
<1>3. /\ Rows(urn(d), DOMAIN rows) # {}
      /\ data.row \in Front(urn(d), DOMAIN rows)
      /\ data.option = rows[data.row]
      /\ data.to = GranteeData(urn(d), data.row)
      /\ data.privs = {h.priv : h \in Rows(urn(d), DOMAIN rows)}
  BY DEF fetch_resource
<1>4. data.row \in Rows(urn(d), DOMAIN rows)
  <2>1. CASE d.kind = "DATABASE_ROLE_GRANT"
    <3>1. PICK h \in Rows(urn(d), DOMAIN rows) : TRUE
      BY <1>3
    <3>2. h \in DOMAIN rows /\ h.kind = d.kind /\ h.on = d.on
      BY <1>2, <2>1, <3>1 DEF Sought
    <3>3. data.row \in DOMAIN rows /\ data.row.kind = d.kind /\ data.row.on = d.on
      BY <1>3, <2>1 DEF Front, urn
    <3>4. data.row = h
      BY <2>1, <3>2, <3>3 DEF Apart
    <3> QED
      BY <3>1, <3>4
  <2> QED
    BY <1>3, <2>1 DEF Front, urn
<1> QED
  BY <1>2, <1>3, <1>4

\* Fetched with the privileges it is declared with, a grant is held.
LEMMA FoundIsHeld ==
  ASSUME TypeOK, Apart, NEW d \in cfg.declared, NEW data \in fetch_resource(urn(d), rows),
         data.privs = _privs(d)
  PROVE  /\ Means(d) \subseteq DOMAIN rows
         /\ data.row \in Means(d)
         /\ d.kind # "GRANT_ON_ALL"
<1>1. DOMAIN rows \in SUBSET GrantRow /\ d \in Declaration
  BY GrantableType, GrantsAssumption DEF TypeOK
<1>2. /\ data.row \in DOMAIN rows /\ Sought(d, data.row)
      /\ data.privs = {h.priv : h \in {g \in DOMAIN rows : Sought(d, g)}}
  BY FetchedData
<1>3. d.kind # "GRANT_ON_ALL"
  BY <1>1, <1>2 DEF Sought, GrantRow
<1>4. Targets(d) = {data.row.on} /\ data.row.on = d.on
  <2>1. data.row.on = d.on
    BY <1>2 DEF Sought, Apart, Collections
  <2>2. CASE d.kind = "GRANT"
    <3>1. granted_on(d.on.type) = d.on.type
      BY <1>2, <2>1, <2>2 DEF Sought, Apart, granted_on
    <3>2. [d.on EXCEPT !.type = d.on.type] = d.on
      BY <1>1 DEF Declaration, On
    <3> QED
      BY <2>1, <2>2, <3>1, <3>2 DEF Targets
  <2> QED
    BY <1>3, <2>1, <2>2 DEF Targets
<1>5. ASSUME NEW p \in _privs(d)
      PROVE  [kind |-> d.kind, priv |-> p, on |-> d.on, to |-> Grantee(d)] \in DOMAIN rows
  <2>1. PICK h \in DOMAIN rows : Sought(d, h) /\ h.priv = p
    BY <1>2
  <2>2. h = [kind |-> h.kind, priv |-> h.priv, on |-> h.on, to |-> h.to]
    BY <1>1 DEF GrantRow
  <2>3. h.on = d.on
    BY <2>1 DEF Sought, Apart, Collections
  <2> QED
    BY <2>1, <2>2, <2>3 DEF Sought
<1>6. Means(d) \subseteq DOMAIN rows
  BY <1>3, <1>4, <1>5 DEF Means
<1>7. data.row.priv \in _privs(d)
  BY <1>2
<1>8. data.row \in Means(d)
  BY <1>2, <1>7, SoughtIsMeant
<1> QED
  BY <1>3, <1>6, <1>8

\* An update is planned only where no statement helps.
LEMMA UpdatesAreStuck ==
  ASSUME TypeOK, Apart, NEW d \in cfg.declared, NEW data \in fetch_resource(urn(d), rows),
         data.privs = _privs(d), Differs(d, data)
  PROVE  Stuck(d)
<1>1. /\ Means(d) \subseteq DOMAIN rows
      /\ data.row \in Means(d)
  BY FoundIsHeld
<1>2. /\ data.row \in DOMAIN rows /\ Sought(d, data.row)
      /\ data.option = rows[data.row]
      /\ data.to = GranteeData(urn(d), data.row)
  BY FetchedData
<1>3. CASE data.option # d.option
  BY <1>1, <1>2, <1>3 DEF Stuck
<1>4. CASE data.to # urn(d).to
  <2>1. d.kind \in RoleKinds
    BY <1>2, <1>4 DEF GranteeData, urn
  <2>2. RoleKey(data.row) # Str(ResourceName(d.to.name))
    BY <1>2, <1>4, <2>1 DEF GranteeData, urn, Sought, Grantee
  <2>3. ~ Canonical(d.to.name)
    BY <1>2, <2>2 DEF Canonical, RoleKey, Sought, Grantee
  <2> QED
    BY <1>1, <2>1, <2>3 DEF Stuck
<1> QED
  BY <1>3, <1>4 DEF Differs

\* A key listed for a row finds it, unless the name folds to another.
LEMMA ListedIsFound ==
  ASSUME NEW g \in GrantRow, NEW held, g \in held, NEW u \in list_resource(g.kind, {g}),
         g.kind \in RoleKinds => Denotes(ResourceName(Bare(g.to.name))) = g.to.name
  PROVE  g \in Rows(u, held)
<1>1. g.kind \in Kinds \ {"GRANT_ON_ALL"} /\ g.to.name \in Text
  BY DEF GrantRow
<1>2. CASE g.kind \in {"GRANT", "FUTURE_GRANT"}
  <2>1. /\ u.kind = g.kind /\ u.priv = g.priv
        /\ u.to = [type |-> g.to.type, name |-> RoleKey(g)]
        /\ g.kind = "GRANT" => u.on = g.on
        /\ g.kind = "FUTURE_GRANT" => u.on.type = g.on.type /\ u.on.name = g.on.name
    <3>1. CASE g.kind = "GRANT"
      BY <3>1 DEF list_resource, list_grants, key
    <3>2. CASE g.kind = "FUTURE_GRANT"
      <4> DEFINE o == [g.on EXCEPT !.in = IF g.on.type = "SCHEMA" THEN "DATABASE" ELSE "SCHEMA"]
      <4>1. u = key(g, o, RoleKey(g))
        BY <3>2 DEF list_resource, list_future_grants
      <4>2. o.type = g.on.type /\ o.name = g.on.name
        BY DEF GrantRow, On
      <4> HIDE DEF o
      <4> QED
        BY <3>2, <4>1, <4>2 DEF key
    <3> QED
      BY <1>2, <3>1, <3>2
  <2>2. SameGrantee(u, g)
    <3>1. PICK n \in ResourceNames : n = resource_name_from_snowflake_metadata(g.to.name)
      BY <1>1, KeyIsLookedUp
    <3>2. ResourceName(RoleKey(g)) = n /\ Denotes(n) = g.to.name
      BY <1>1, <3>1, KeyIsLookedUp, MetadataDenotesItself DEF RoleKey
    <3>3. Eq(n, n)
      BY <1>1, <3>1, <3>2, GranteeFound
    <3> QED
      BY <2>1, <3>1, <3>2, <3>3 DEF SameGrantee
  <2> QED
    BY <1>2, <2>1, <2>2 DEF Rows
<1>3. CASE g.kind \in RoleKinds
  <2>1. u = key(g, g.on, Bare(g.to.name))
    BY <1>3 DEF list_resource, list_role_grants, list_database_role_grants, RoleKinds
  <2>2. SameGrantee(u, g)
    BY <1>1, <1>3, <2>1, BareName, GranteeFound DEF SameGrantee, key
  <2> QED
    BY <1>3, <2>1, <2>2 DEF Rows, key, RoleKinds
<1> QED
  BY <1>1, <1>2, <1>3 DEF Kinds, RoleKinds

-----------------------------------------------------------------------------
\* What a run knows of the account stays true while nobody interferes.

LEMMA StaysClean ==
  ASSUME [Next]_vars, clean'
  PROVE  /\ StartRun \/ ListKind \/ FetchListed \/ StartFetch \/ FetchDeclared \/ MakePlan
              \/ ExecuteAddition \/ ExecuteDrop \/ Finish \/ UNCHANGED vars
         /\ clean \/ StartRun
<1>1. ~ Drift /\ ~ Crash /\ ~ SkipInvalidGrant
  BY DEF Drift, Crash, SkipInvalidGrant, Mishap
<1>2. StartRun \/ ListKind \/ FetchListed \/ StartFetch \/ FetchDeclared \/ MakePlan
        \/ ExecuteAddition \/ ExecuteDrop \/ Finish \/ UNCHANGED vars
  BY <1>1 DEF Next, ToolStep
<1>3. clean \/ StartRun
  BY <1>2 DEF ListKind, FetchListed, StartFetch, FetchDeclared, MakePlan,
              ExecuteAddition, ExecuteDrop, Finish, vars
<1> QED
  BY <1>2, <1>3

LEMMA NextListedHeld ==
  ASSUME TypeOK, Phases, [Next]_vars, clean => ListedHeld, clean'
  PROVE  ListedHeld'
<1>1. clean \/ StartRun
  BY StaysClean
<1>2. CASE StartRun
  BY <1>2 DEF StartRun, Phases, ListedHeld
<1>3. CASE ListKind
  <2>1. PICK k \in kinds :
          IF CanList(k)
            THEN /\ kinds' = kinds \ {k}
                 /\ todo' = list_resource(k, DOMAIN rows)
                 /\ UNCHANGED <<pc, remote, add, drop, outcome>>
            ELSE EndRun("failed")
    BY <1>3 DEF ListKind
  <2>2. CASE CanList(k)
    <3>1. k \in cfg.allowlist /\ cfg.run_mode = "SYNC"
      BY DEF TypeOK, Phases
    <3>2. \A u \in list_resource(k, DOMAIN rows) : \E g \in DOMAIN rows :
            Revocable(cfg, g) /\ u \in list_resource(g.kind, {g})
      BY <3>1, ListedIsRevocable
    <3> QED
      BY <1>3, <2>1, <2>2, <3>2 DEF ListKind, ListedHeld
  <2> QED
    BY <2>1, <2>2 DEF EndRun, ListedHeld
<1>4. CASE FetchListed
  <2>1. PICK u \in todo :
          \/ EndRun("failed")
          \/ todo' = todo \ {u} /\ pc' = pc
    BY <1>4 DEF FetchListed
  <2>2. UNCHANGED <<rows, cfg>>
    BY <1>4 DEF FetchListed
  <2> QED
    BY <1>1, <1>4, <2>1, <2>2 DEF EndRun, FetchListed, StartRun, ListedHeld
<1>5. CASE StartFetch \/ FetchDeclared \/ MakePlan
  BY <1>5 DEF StartFetch, FetchDeclared, MakePlan, EndRun, ListedHeld
<1>6. CASE ExecuteAddition \/ ExecuteDrop \/ Finish
  BY <1>6 DEF ExecuteAddition, ExecuteDrop, Finish, EndRun, ListedHeld
<1>7. CASE UNCHANGED vars
  BY <1>1, <1>2, <1>7 DEF vars, ListedHeld
<1> QED
  BY <1>2, <1>3, <1>4, <1>5, <1>6, <1>7, StaysClean

LEMMA RecordedIsFound ==
  ASSUME pc \in {"listing", "fetching"}, RemoteFound, UNCHANGED rows,
         NEW u, NEW data \in fetch_resource(u, rows), Record(u, data)
  PROVE  RemoteFound'
BY DEF Record, RemoteFound

LEMMA NextRemoteFound ==
  ASSUME TypeOK, Phases, [Next]_vars, clean => RemoteFound, clean'
  PROVE  RemoteFound'
<1>1. clean \/ StartRun
  BY StaysClean
<1>2. CASE StartRun
  BY <1>2 DEF StartRun, Phases, RemoteFound
<1>3. CASE ListKind
  <2>1. UNCHANGED <<rows, pc, remote>> \/ pc' = "idle"
    BY <1>3 DEF ListKind, EndRun
  <2> QED
    BY <1>1, <1>3, <2>1 DEF ListKind, StartRun, RemoteFound
<1>4. CASE FetchListed
  <2>1. pc = "listing" /\ UNCHANGED rows /\ clean
    BY <1>1, <1>4 DEF FetchListed, StartRun
  <2>2. PICK u \in todo :
          \/ EndRun("failed")
          \/ \E data \in fetch_resource(u, rows) : Record(u, data)
    BY <1>4 DEF FetchListed
  <2>3. CASE EndRun("failed")
    BY <2>3 DEF EndRun, RemoteFound
  <2> QED
    BY <2>1, <2>2, <2>3, RecordedIsFound
<1>5. CASE StartFetch
  BY <1>1, <1>5 DEF StartFetch, StartRun, RemoteFound
<1>6. CASE FetchDeclared
  <2>1. pc = "fetching" /\ UNCHANGED <<rows, pc>> /\ clean
    BY <1>1, <1>6 DEF FetchDeclared, StartRun
  <2>2. PICK u \in todo :
          \/ UNCHANGED remote
          \/ \E data \in fetch_resource(u, rows) : Record(u, data)
    BY <1>6 DEF FetchDeclared
  <2>3. CASE UNCHANGED remote
    BY <2>1, <2>3 DEF RemoteFound
  <2> QED
    BY <2>1, <2>2, <2>3, RecordedIsFound
<1>7. CASE MakePlan
  BY <1>7 DEF MakePlan, EndRun, RemoteFound
<1>8. CASE ExecuteAddition \/ ExecuteDrop \/ Finish
  BY <1>8 DEF ExecuteAddition, ExecuteDrop, Finish, EndRun, RemoteFound
<1>9. CASE UNCHANGED vars
  BY <1>1, <1>2, <1>9 DEF vars, RemoteFound
<1> QED
  BY <1>2, <1>3, <1>4, <1>5, <1>6, <1>7, <1>8, <1>9, StaysClean

\* What the plan made of fetched data says of the account.
LEMMA PlannedOrHeld ==
  ASSUME TypeOK, Apart, pc = "fetching", RemoteFound,
         NEW d \in cfg.declared, d \notin Creates(remote)
  PROVE  /\ urn(d) \in DOMAIN remote
         /\ remote[urn(d)] \in fetch_resource(urn(d), rows)
         /\ remote[urn(d)].privs = _privs(d)
         /\ Means(d) \subseteq DOMAIN rows
         /\ remote[urn(d)].row \in Means(d)
         /\ d.kind # "GRANT_ON_ALL"
<1>1. PICK data : data = remote[urn(d)]
  OBVIOUS
<1>2. urn(d) \in DOMAIN remote /\ data.privs = _privs(d)
  BY <1>1 DEF Creates
<1>3. data \in fetch_resource(urn(d), rows)
  BY <1>1, <1>2 DEF RemoteFound
<1>4. /\ Means(d) \subseteq DOMAIN rows
      /\ data.row \in Means(d)
      /\ d.kind # "GRANT_ON_ALL"
  BY <1>2, <1>3, FoundIsHeld
<1> QED
  BY <1>1, <1>2, <1>3, <1>4

LEMMA PlannedUpdates ==
  ASSUME TypeOK, Apart, pc = "fetching", RemoteFound, NEW d \in Updates(remote)
  PROVE  Stuck(d) /\ d.kind # "GRANT_ON_ALL"
<1>1. d \in cfg.declared /\ d \notin Creates(remote) /\ Differs(d, remote[urn(d)])
  BY DEF Updates
<1>2. PICK data : data = remote[urn(d)]
  OBVIOUS
<1>3. /\ data \in fetch_resource(urn(d), rows)
      /\ data.privs = _privs(d)
      /\ d.kind # "GRANT_ON_ALL"
  BY <1>1, <1>2, PlannedOrHeld
<1>4. Differs(d, data)
  BY <1>1, <1>2
<1> QED
  BY <1>1, <1>3, <1>4, UpdatesAreStuck

\* The two ends of a step of the plan.
LEMMA AdditionStep ==
  ASSUME ExecuteAddition
  PROVE  \E c \in add :
           /\ pc = "running" /\ MayComeNext(c)
           /\ UNCHANGED <<cfg, clean>>
           /\ \/ /\ c.op = "update" \/ Refused(rows, c.of)
                 /\ UNCHANGED rows
                 /\ pc' = "idle" /\ outcome' = "failed"
              \/ /\ c.op # "update" /\ ~ Refused(rows, c.of)
                 /\ rows' = Granted(rows, c.of)
                 /\ add' = add \ {c}
                 /\ UNCHANGED <<pc, drop, outcome>>
BY DEF ExecuteAddition, EndRun

LEMMA NextInHand ==
  ASSUME TypeOK, Phases, Apart, [Next]_vars, clean => RemoteFound /\ InHand, clean'
  PROVE  InHand'
<1>1. clean \/ StartRun
  BY StaysClean
<1>2. CASE StartRun \/ ListKind \/ FetchListed \/ StartFetch \/ FetchDeclared
  BY <1>2 DEF StartRun, ListKind, FetchListed, StartFetch, FetchDeclared, EndRun, InHand
<1>3. CASE MakePlan
  <2>1. pc = "fetching" /\ UNCHANGED <<rows, cfg>> /\ RemoteFound
    BY <1>1, <1>3 DEF MakePlan, StartRun
  <2>2. CASE pc' = "running"
    <3> SUFFICES ASSUME NEW d \in cfg.declared
                 PROVE  Means(d) \subseteq DOMAIN rows \/ \E c \in add' : c.of = d
      BY <2>1 DEF InHand
    <3>1. CASE d \in Creates(remote)
      <4>1. [op |-> "create", of |-> d] \in add'
        BY <1>3, <2>2, <3>1 DEF MakePlan, EndRun
      <4> QED
        BY <4>1
    <3> QED
      BY <2>1, <3>1, PlannedOrHeld
  <2> QED
    BY <2>2 DEF InHand
<1>4. CASE ExecuteAddition
  <2>1. PICK c \in add :
          /\ pc = "running"
          /\ UNCHANGED cfg
          /\ \/ pc' = "idle"
             \/ rows' = Granted(rows, c.of) /\ add' = add \ {c}
    BY <1>4, AdditionStep
  <2>2. CASE rows' = Granted(rows, c.of) /\ add' = add \ {c}
    <3>1. InHand
      BY <1>1, <2>1 DEF StartRun
    <3>2. DOMAIN rows' = DOMAIN rows \cup Means(c.of)
      BY <2>2 DEF Granted
    <3> QED
      BY <2>1, <2>2, <3>1, <3>2 DEF InHand
  <2> QED
    BY <2>1, <2>2 DEF InHand
<1>5. CASE ExecuteDrop \/ Finish
  BY <1>5 DEF ExecuteDrop, Finish, EndRun, InHand
<1>6. CASE UNCHANGED vars
  BY <1>1, <1>6 DEF vars, StartRun, InHand
<1> QED
  BY <1>2, <1>3, <1>4, <1>5, <1>6, StaysClean

\* A GRANT leaves the other kinds of grants alone.
LEMMA StaysStuck ==
  ASSUME TypeOK, NEW d \in cfg.declared, d.kind \in {"FUTURE_GRANT", "DATABASE_ROLE_GRANT"},
         Stuck(d), NEW e, rows' = Granted(rows, e)
  PROVE  Stuck(d)'
<1>1. DOMAIN rows' = DOMAIN rows \cup Means(e)
  BY DEF Granted
<1>2. ASSUME NEW g \in Means(d) \cap DOMAIN rows
      PROVE  rows'[g] = rows[g]
  <2>1. g.kind = d.kind
    BY DEF Means
  <2>2. ~ (g \in Means(e) /\ WithGrantOption(e))
    BY <2>1 DEF Means, WithGrantOption
  <2>3. rows[g] \in BOOLEAN
    BY DEF TypeOK
  <2>4. rows'[g] = (rows[g] \/ (g \in Means(e) /\ WithGrantOption(e)))
    BY DEF Granted
  <2>5. rows'[g] = (rows[g] \/ FALSE)
    BY <2>2, <2>4
  <2> QED
    BY <2>3, <2>5
<1> QED
  BY <1>1, <1>2 DEF Stuck

LEMMA NextUpdatesStuck ==
  ASSUME TypeOK, Phases, Apart, [Next]_vars, clean => RemoteFound /\ UpdatesStuck, clean'
  PROVE  UpdatesStuck'
<1>1. clean \/ StartRun
  BY StaysClean
<1>2. CASE StartRun \/ ListKind \/ FetchListed \/ StartFetch \/ FetchDeclared
  BY <1>2 DEF StartRun, ListKind, FetchListed, StartFetch, FetchDeclared, EndRun, UpdatesStuck
<1>3. CASE MakePlan
  <2>1. pc = "fetching" /\ UNCHANGED <<rows, cfg>> /\ RemoteFound
    BY <1>1, <1>3 DEF MakePlan, StartRun
  <2>2. CASE pc' = "running"
    <3> SUFFICES ASSUME NEW c \in add', c.op = "update"
                 PROVE  /\ c.of.kind \in {"FUTURE_GRANT", "DATABASE_ROLE_GRANT"}
                        /\ Stuck(c.of)'
      BY DEF UpdatesStuck
    <3>1. PICK d \in Updates(remote) : d = c.of /\ d.kind \notin CannotUpdate
      BY <1>3, <2>2 DEF MakePlan, EndRun
    <3>2. Stuck(d) /\ d.kind # "GRANT_ON_ALL"
      BY <2>1, PlannedUpdates
    <3>3. d \in Declaration
      BY GrantsAssumption DEF TypeOK, Updates
    <3>4. d.kind \in {"FUTURE_GRANT", "DATABASE_ROLE_GRANT"}
      BY <3>1, <3>2, <3>3 DEF CannotUpdate, Declaration, Kinds
    <3>5. Stuck(d)'
      BY <2>1, <3>2 DEF Stuck
    <3> QED
      BY <3>1, <3>4, <3>5
  <2> QED
    BY <2>2 DEF UpdatesStuck
<1>4. CASE ExecuteAddition
  <2>1. PICK c \in add :
          /\ pc = "running"
          /\ UNCHANGED cfg
          /\ \/ pc' = "idle"
             \/ rows' = Granted(rows, c.of) /\ add' = add \ {c}
    BY <1>4, AdditionStep
  <2>2. CASE rows' = Granted(rows, c.of) /\ add' = add \ {c}
    <3>1. UpdatesStuck
      BY <1>1, <2>1 DEF StartRun
    <3> SUFFICES ASSUME NEW b \in add \ {c}, b.op = "update"
                 PROVE  /\ b.of.kind \in {"FUTURE_GRANT", "DATABASE_ROLE_GRANT"}
                        /\ Stuck(b.of)'
      BY <2>2 DEF UpdatesStuck
    <3>2. b.of \in cfg.declared
      BY DEF TypeOK
    <3>3. b.of.kind \in {"FUTURE_GRANT", "DATABASE_ROLE_GRANT"} /\ Stuck(b.of)
      BY <2>1, <3>1 DEF UpdatesStuck
    <3> QED
      BY <2>2, <3>2, <3>3, StaysStuck
  <2> QED
    BY <2>1, <2>2 DEF UpdatesStuck
<1>5. CASE ExecuteDrop \/ Finish
  BY <1>5 DEF ExecuteDrop, Finish, EndRun, UpdatesStuck
<1>6. CASE UNCHANGED vars
  BY <1>1, <1>6 DEF vars, StartRun, UpdatesStuck, Stuck
<1> QED
  BY <1>2, <1>3, <1>4, <1>5, <1>6, StaysClean

-----------------------------------------------------------------------------
\* Each of the ways a run stops has its reason.

LEMMA RefusedInRun ==
  ASSUME TypeOK, ReadsAlike, InHand, pc = "running", NEW c \in add, MayComeNext(c),
         Refused(rows, c.of)
  PROVE  CannotSettle
<1>1. c.of \in cfg.declared
  BY DEF TypeOK
<1>2. PICK g \in Means(c.of) : [g EXCEPT !.priv = "READ"] \notin DOMAIN rows
  BY DEF Refused
<1>3. CASE [g EXCEPT !.priv = "READ"] \notin Declared(cfg)
  BY <1>1, <1>3 DEF CannotSettle
<1>4. ASSUME NEW e \in cfg.declared, [g EXCEPT !.priv = "READ"] \in Means(e)
      PROVE  FALSE
  <2>1. Waits(c.of, e)
    BY <1>1, <1>4 DEF ReadsAlike, Refused
  <2>2. PICK b \in add : b.of = e
    BY <1>2, <1>4 DEF InHand
  <2> QED
    BY <2>1, <2>2 DEF MayComeNext
<1> QED
  BY <1>3, <1>4 DEF Declared

LEMMA NotFoundInListing ==
  ASSUME TypeOK, ListedHeld, pc = "listing", NEW u \in todo, fetch_resource(u, rows) = {}
  PROVE  CannotSettle
<1>1. PICK g \in DOMAIN rows : Revocable(cfg, g) /\ u \in list_resource(g.kind, {g})
  BY DEF ListedHeld
<1>2. g \in GrantRow
  BY GrantableType DEF TypeOK
<1>3. g \notin Rows(u, DOMAIN rows)
  <2> SUFFICES ASSUME g \in Rows(u, DOMAIN rows)
               PROVE  FALSE
    OBVIOUS
  <2>1. g \in Front(u, DOMAIN rows)
    BY DEF Front, Rows
  <2>2. Rows(u, DOMAIN rows) # {}
    OBVIOUS
  <2> QED
    BY <2>1, <2>2 DEF fetch_resource
<1>4. /\ g.kind \in RoleKinds
      /\ Denotes(ResourceName(Bare(g.to.name))) # g.to.name
  BY <1>1, <1>2, <1>3, ListedIsFound
<1> QED
  BY <1>1, <1>4 DEF CannotSettle

LEMMA StuckCannotSettle ==
  ASSUME NEW d \in cfg.declared, Stuck(d)
  PROVE  CannotSettle
BY DEF Stuck, CannotSettle

LEMMA NextUndecided ==
  ASSUME Undecided, [Next]_vars
  PROVE  Undecided'
BY DEF Undecided, Next, ToolStep, StartRun, ListKind, FetchListed, StartFetch, FetchDeclared,
       MakePlan, ExecuteAddition, ExecuteDrop, Finish, Drift, Crash, SkipInvalidGrant,
       EndRun, run, vars

LEMMA NextRefused ==
  ASSUME RefusalInv, Apart, ReadsAlike, [Next]_vars
  PROVE  RefusedForAReason'
<1> SUFFICES ASSUME clean', outcome' = "failed"
             PROVE  CannotSettle'
  BY DEF RefusedForAReason
<1>1. clean \/ StartRun
  BY StaysClean
<1>2. CASE StartRun
  BY <1>2 DEF StartRun
<1>3. ASSUME UNCHANGED <<rows, cfg>>, CannotSettle
      PROVE  CannotSettle'
  BY <1>3 DEF CannotSettle
<1>4. CASE UNCHANGED <<rows, cfg, outcome>>
  BY <1>1, <1>2, <1>3, <1>4 DEF RefusalInv, RefusedForAReason
<1> USE DEF RefusalInv
<1>5. CASE ListKind
  <2>1. PICK k \in kinds : ~ CanList(k) \/ UNCHANGED <<rows, cfg, outcome>>
    BY <1>5 DEF ListKind
  <2>2. CASE ~ CanList(k)
    <3>1. k \in cfg.allowlist /\ cfg.run_mode = "SYNC" /\ k = "GRANT_ON_ALL"
      BY <2>2 DEF TypeOK, Phases, CanList
    <3> QED
      BY <1>3, <1>5, <3>1 DEF ListKind, CannotSettle
  <2> QED
    BY <1>4, <2>1, <2>2
<1>6. CASE FetchListed
  <2>1. PICK u \in todo : fetch_resource(u, rows) = {} \/ UNCHANGED outcome
    BY <1>6 DEF FetchListed
  <2>2. CASE fetch_resource(u, rows) = {}
    BY <1>1, <1>2, <1>3, <1>6, <2>2, NotFoundInListing DEF FetchListed
  <2> QED
    BY <1>4, <1>6, <2>1, <2>2 DEF FetchListed
<1>7. CASE MakePlan
  <2>1. CASE \E d \in Updates(remote) : d.kind \in CannotUpdate
    <3>1. PICK d \in Updates(remote) : TRUE
      BY <2>1
    <3>2. d \in cfg.declared /\ Stuck(d)
      BY <1>1, <1>2, <1>7, <3>1, PlannedUpdates DEF MakePlan, Updates
    <3> QED
      BY <1>3, <1>7, <3>2, StuckCannotSettle DEF MakePlan
  <2> QED
    BY <1>4, <1>7, <2>1 DEF MakePlan
<1>8. CASE ExecuteAddition
  <2>1. PICK c \in add :
          /\ pc = "running" /\ MayComeNext(c)
          /\ UNCHANGED <<cfg, clean>>
          /\ \/ /\ c.op = "update" \/ Refused(rows, c.of)
                /\ UNCHANGED rows
             \/ UNCHANGED <<pc, outcome>>
    BY <1>8, AdditionStep
  <2>2. ~ UNCHANGED <<pc, outcome>>
    BY <2>1 DEF Undecided
  <2>3. CASE c.op = "update"
    <3>1. c.of \in cfg.declared /\ Stuck(c.of)
      BY <2>1, <2>3 DEF TypeOK, UpdatesStuck
    <3> QED
      BY <1>3, <2>1, <2>2, <3>1, StuckCannotSettle
  <2>4. CASE Refused(rows, c.of)
    <3>1. InHand
      BY <2>1
    <3> QED
      BY <1>3, <2>1, <2>2, <2>4, <3>1, RefusedInRun
  <2> QED
    BY <2>1, <2>2, <2>3, <2>4
<1>9. CASE ExecuteDrop \/ Finish
  BY <1>9 DEF ExecuteDrop, Finish, EndRun, Undecided
<1>10. CASE StartFetch \/ FetchDeclared \/ UNCHANGED vars
  BY <1>4, <1>10 DEF StartFetch, FetchDeclared, vars
<1> QED
  BY <1>2, <1>5, <1>6, <1>7, <1>8, <1>9, <1>10, StaysClean

\* A run nobody disturbs comes to its end, or has one of the reasons of
\* CannotSettle: the conformity check, the order of the plan and the account
\* raise no other obstacle, whatever is declared and held, if WRITE and READ
\* on stages are declared in the same form.
THEOREM FailsForAReason == Spec /\ []Apart /\ []ReadsAlike => []RefusedForAReason
<1>1. Init => RefusalInv
  <2> SUFFICES ASSUME Init PROVE RefusalInv
    OBVIOUS
  <2>1. TypeOK /\ Phases
    BY InitType
  <2> QED
    BY <2>1 DEF Init, NoRun, NoState, RefusalInv, Undecided, ListedHeld, RemoteFound, InHand,
                UpdatesStuck, RefusedForAReason
<1>2. RefusalInv /\ Apart /\ ReadsAlike /\ [Next]_vars => RefusalInv'
  <2> SUFFICES ASSUME RefusalInv, Apart, ReadsAlike, [Next]_vars
               PROVE  RefusalInv'
    OBVIOUS
  <2>1. TypeOK' /\ Phases' /\ Undecided'
    BY NextType, NextUndecided DEF RefusalInv
  <2>2. clean' => ListedHeld' /\ RemoteFound' /\ InHand' /\ UpdatesStuck'
    BY NextListedHeld, NextRemoteFound, NextInHand, NextUpdatesStuck DEF RefusalInv
  <2>3. RefusedForAReason'
    BY NextRefused
  <2> QED
    BY <2>1, <2>2, <2>3 DEF RefusalInv
<1>3. RefusalInv => RefusedForAReason
  BY DEF RefusalInv
<1> QED
  BY <1>1, <1>2, <1>3, PTL DEF Spec

-----------------------------------------------------------------------------
(***************************************************************************)
(* What a run nobody disturbed leaves.  A grantee listed under a name that *)
(* folds to another's must not be mistaken for it; and of ALL privileges   *)
(* fetch compares the option of one row only, so that the option is not    *)
(* to be declared with ALL.                                                *)
(***************************************************************************)
Unfolded ==
  \A g \in DOMAIN rows : Revocable(cfg, g) /\ g.kind \in RoleKinds =>
    Folded(g) = g \/ Folded(g) \notin DOMAIN rows

OneOption == \A d \in cfg.declared : WithGrantOption(d) => d.priv # "ALL"

\* Every row sync mode may revoke is still to be listed, to be fetched, or fetched.
KeysCovered ==
  pc \in {"listing", "fetching"} =>
    \A g \in DOMAIN rows : Revocable(cfg, g) =>
      \/ g.kind \in kinds
      \/ \A u \in list_resource(g.kind, {g}) :
           u \in DOMAIN remote \/ (pc = "listing" /\ u \in todo)

LeftToDrop ==
  pc = "running" => \A g \in DOMAIN rows : Revocable(cfg, g) => g \in Declared(cfg) \cup drop

\* What d asks for is held, with the option where a statement can say so.
AsDeclared(d) ==
  /\ Means(d) \subseteq DOMAIN rows
  /\ WithGrantOption(d) => \A g \in Means(d) : rows[g]

LastingInHand ==
  pc = "running" => \A d \in Lasting : AsDeclared(d) \/ \E c \in add : c.of = d

\* Everything is listed before anything declared is fetched.
NoKindsLeft == pc = "fetching" => kinds = {}

SettlingInv ==
  /\ IInv /\ Undecided /\ NoKindsLeft
  /\ clean => RemoteFound /\ KeysCovered /\ LeftToDrop /\ LastingInHand
  /\ CleanRunSettles

-----------------------------------------------------------------------------
\* A row sync mode may revoke is listed.
LEMMA RevocableIsListed ==
  ASSUME NEW c, NEW g \in GrantRow, Revocable(c, g), NEW held, g \in held
  PROVE  /\ list_resource(g.kind, {g}) # {}
         /\ list_resource(g.kind, {g}) \subseteq list_resource(g.kind, held)
<1>1. g.kind \in Kinds \ {"GRANT_ON_ALL"}
  BY DEF GrantRow
<1>2. CASE g.kind = "GRANT"
  <2>1. /\ OfRole(g) /\ g.on.type # "ROLE" /\ g.priv \notin UnlistedPrivs
    BY <1>2 DEF Revocable, OfRole, RoleKinds
  <2>2. list_resource(g.kind, {g}) = {key(g, g.on, RoleKey(g))}
    BY <1>2, <2>1 DEF list_resource, list_grants
  <2>3. key(g, g.on, RoleKey(g)) \in list_resource(g.kind, held)
    BY <1>2, <2>1 DEF list_resource, list_grants
  <2> QED
    BY <2>2, <2>3
<1>3. CASE g.kind = "FUTURE_GRANT"
  <2> DEFINE o(h) == [h.on EXCEPT !.in = IF h.on.type = "SCHEMA" THEN "DATABASE" ELSE "SCHEMA"]
  <2>1. OfRole(g)
    BY <1>3 DEF Revocable, OfRole, RoleKinds
  <2>2. list_resource(g.kind, {g}) = {key(h, o(h), RoleKey(h)) : h \in {g}}
    BY <1>3, <2>1 DEF list_resource, list_future_grants
  <2>3. key(g, o(g), RoleKey(g)) \in list_resource(g.kind, held)
    BY <1>3, <2>1 DEF list_resource, list_future_grants
  <2> HIDE DEF o
  <2> QED
    BY <2>2, <2>3
<1>4. CASE g.kind \in RoleKinds
  <2>1. g.kind = "ROLE_GRANT" => g.on.name \notin SystemRoles
    BY DEF Revocable
  <2>2. list_resource(g.kind, {g}) = {key(g, g.on, Bare(g.to.name))}
    BY <1>4, <2>1 DEF list_resource, list_role_grants, list_database_role_grants, RoleKinds
  <2>3. key(g, g.on, Bare(g.to.name)) \in list_resource(g.kind, held)
    BY <1>4, <2>1 DEF list_resource, list_role_grants, list_database_role_grants, RoleKinds
  <2> QED
    BY <2>2, <2>3
<1> QED
  BY <1>1, <1>2, <1>3, <1>4 DEF Kinds, RoleKinds

\* Nothing but the row listed is fetched for its key.
LEMMA FetchedIsListed ==
  ASSUME TypeOK, Apart, Unfolded, NEW g \in DOMAIN rows, Revocable(cfg, g),
         NEW u \in list_resource(g.kind, {g}), NEW data \in fetch_resource(u, rows)
  PROVE  data.row = g
<1>1. DOMAIN rows \in SUBSET GrantRow /\ g \in GrantRow
  BY GrantableType DEF TypeOK
<1>2. PICK h : h = data.row
  OBVIOUS
<1>3. Rows(u, DOMAIN rows) # {} /\ h \in Front(u, DOMAIN rows)
  BY <1>2 DEF fetch_resource
<1>4. PICK f \in Rows(u, DOMAIN rows) : f = h
  <2>1. CASE u.kind = "DATABASE_ROLE_GRANT"
    <3>1. PICK f \in Rows(u, DOMAIN rows) : TRUE
      BY <1>3
    <3>2. f \in DOMAIN rows /\ f.kind = u.kind /\ f.on = u.on
      BY <2>1, <3>1 DEF Rows
    <3>3. h \in DOMAIN rows /\ h.kind = u.kind /\ h.on = u.on
      BY <1>3, <2>1 DEF Front
    <3> QED
      BY <2>1, <3>1, <3>2, <3>3 DEF Apart
  <2> QED
    BY <1>3, <2>1 DEF Front
<1>5. f \in DOMAIN rows /\ f.kind = u.kind
  BY DEF Rows
<1>6. /\ f \in GrantRow
      /\ f.kind \in RoleKinds => f = Folded(g)
      /\ f.kind = "GRANT" => f = g
      /\ f.kind = "FUTURE_GRANT" =>
           /\ f = [g EXCEPT !.on = f.on]
           /\ f.on.type = g.on.type /\ f.on.name = g.on.name
  BY <1>1, FoundForKey
<1>7. CASE f.kind = "FUTURE_GRANT"
  <2>1. g.kind = "FUTURE_GRANT"
    BY <1>1, <1>6, <1>7 DEF GrantRow
  <2>2. f.on = g.on
    BY <1>5, <1>6, <1>7, <2>1 DEF Apart, Collections
  <2>3. [g EXCEPT !.on = g.on] = g
    BY <1>1 DEF GrantRow
  <2> QED
    BY <1>2, <1>4, <1>6, <1>7, <2>2, <2>3
<1>8. CASE f.kind \in RoleKinds
  <2>1. g.kind = f.kind
    BY <1>1, <1>6, <1>8 DEF GrantRow, Folded
  <2>2. Folded(g) = g
    BY <1>5, <1>6, <1>8, <2>1 DEF Unfolded
  <2> QED
    BY <1>2, <1>4, <1>6, <1>8, <2>2
<1> QED
  BY <1>2, <1>4, <1>6, <1>7, <1>8 DEF GrantRow, Kinds, RoleKinds

\* The key of a declaration is listed only for what it asks for.
LEMMA UndeclaredIsNoKey ==
  ASSUME TypeOK, Apart, Unfolded, NEW g \in DOMAIN rows, Revocable(cfg, g),
         g \notin Declared(cfg),
         NEW u \in list_resource(g.kind, {g}), NEW data \in fetch_resource(u, rows)
  PROVE  u \notin Manifest
<1> SUFFICES ASSUME NEW d \in cfg.declared, u = urn(d)
             PROVE  FALSE
  BY DEF Manifest
<1>1. g \in GrantRow /\ d \in Declaration
  BY GrantableType, GrantsAssumption DEF TypeOK
<1>2. data.row = g
  BY FetchedIsListed
<1>3. Sought(d, g)
  BY <1>2, FetchedData
<1>4. u.priv = g.priv
  BY DEF list_resource, list_grants, list_future_grants, list_role_grants,
         list_database_role_grants, key
<1>5. g.priv = d.priv /\ d.priv # "ALL"
  BY <1>1, <1>3, <1>4 DEF urn, GrantRow, Sought
<1>6. g \in Means(d)
  BY <1>3, <1>5, SoughtIsMeant DEF _privs
<1> QED
  BY <1>6 DEF Declared

-----------------------------------------------------------------------------
\* The steps.

LEMMA FetchCovers ==
  ASSUME pc \in {"listing", "fetching"}, KeysCovered, UNCHANGED <<rows, cfg, pc, kinds>>,
         NEW u, NEW data, Record(u, data), todo' = todo \ {u}
  PROVE  KeysCovered'
<1>1. DOMAIN remote' = DOMAIN remote \cup {u}
  BY DEF Record
<1> QED
  BY <1>1 DEF KeysCovered

LEMMA NextKeysCovered ==
  ASSUME TypeOK, Phases, [Next]_vars, clean => KeysCovered, clean'
  PROVE  KeysCovered'
<1>1. clean \/ StartRun
  BY StaysClean
<1>2. CASE StartRun
  <2>1. \A g \in DOMAIN rows : Revocable(cfg, g) => g.kind \in kinds'
    BY <1>2 DEF StartRun, Revocable
  <2> QED
    BY <1>2, <2>1 DEF StartRun, KeysCovered
<1>3. CASE ListKind
  <2>1. PICK k \in kinds :
          IF CanList(k)
            THEN /\ kinds' = kinds \ {k}
                 /\ todo' = list_resource(k, DOMAIN rows)
                 /\ UNCHANGED <<pc, remote, add, drop, outcome>>
            ELSE EndRun("failed")
    BY <1>3 DEF ListKind
  <2>2. CASE CanList(k)
    <3>1. pc = "listing" /\ todo = {} /\ UNCHANGED <<rows, cfg>> /\ KeysCovered
      BY <1>1, <1>3 DEF ListKind, StartRun
    <3> SUFFICES ASSUME NEW g \in DOMAIN rows, Revocable(cfg, g), g.kind \notin kinds',
                        NEW u \in list_resource(g.kind, {g})
                 PROVE  u \in DOMAIN remote \/ u \in todo'
      BY <2>1, <2>2, <3>1 DEF KeysCovered
    <3>2. CASE g.kind = k
      <4>1. g \in GrantRow
        BY GrantableType DEF TypeOK
      <4>2. list_resource(g.kind, {g}) \subseteq list_resource(g.kind, DOMAIN rows)
        BY <4>1, RevocableIsListed
      <4> QED
        BY <2>1, <2>2, <3>2, <4>2
    <3> QED
      BY <2>1, <2>2, <3>1, <3>2 DEF KeysCovered
  <2> QED
    BY <2>1, <2>2 DEF EndRun, KeysCovered
<1>4. CASE FetchListed
  <2>1. pc = "listing" /\ UNCHANGED <<rows, cfg>> /\ KeysCovered
    BY <1>1, <1>4 DEF FetchListed, StartRun
  <2>2. PICK u \in todo :
          \/ EndRun("failed")
          \/ /\ \E data \in fetch_resource(u, rows) : Record(u, data)
             /\ todo' = todo \ {u}
             /\ UNCHANGED <<pc, kinds>>
    BY <1>4 DEF FetchListed
  <2>3. CASE EndRun("failed")
    BY <2>3 DEF EndRun, KeysCovered
  <2> QED
    BY <2>1, <2>2, <2>3, FetchCovers
<1>5. CASE StartFetch
  BY <1>1, <1>5 DEF StartFetch, StartRun, KeysCovered
<1>6. CASE FetchDeclared
  <2>1. pc = "fetching" /\ UNCHANGED <<rows, cfg, pc, kinds>> /\ KeysCovered
    BY <1>1, <1>6 DEF FetchDeclared, StartRun
  <2>2. PICK u \in todo :
          /\ todo' = todo \ {u}
          /\ \/ UNCHANGED remote
             \/ \E data \in fetch_resource(u, rows) : Record(u, data)
    BY <1>6 DEF FetchDeclared
  <2>3. CASE UNCHANGED remote
    BY <2>1, <2>3 DEF KeysCovered
  <2> QED
    BY <2>1, <2>2, <2>3, FetchCovers
<1>7. CASE MakePlan
  BY <1>7 DEF MakePlan, EndRun, KeysCovered
<1>8. CASE ExecuteAddition \/ ExecuteDrop \/ Finish
  BY <1>8 DEF ExecuteAddition, ExecuteDrop, Finish, EndRun, KeysCovered
<1>9. CASE UNCHANGED vars
  BY <1>1, <1>2, <1>9 DEF vars, KeysCovered
<1> QED
  BY <1>2, <1>3, <1>4, <1>5, <1>6, <1>7, <1>8, <1>9, StaysClean

\* What sync mode may revoke and nothing declares is in the plan.
LEMMA PlannedDrops ==
  ASSUME TypeOK, Apart, Unfolded, RemoteFound, KeysCovered,
         pc = "fetching", kinds = {},
         NEW g \in DOMAIN rows, Revocable(cfg, g), g \notin Declared(cfg)
  PROVE  g \in Drops(remote)
<1>1. g \in GrantRow
  BY GrantableType DEF TypeOK
<1>2. PICK u \in list_resource(g.kind, {g}) : TRUE
  BY <1>1, RevocableIsListed
<1>3. u \in DOMAIN remote
  BY DEF KeysCovered
<1>4. PICK data : data = remote[u]
  OBVIOUS
<1>5. data \in fetch_resource(u, rows)
  BY <1>3, <1>4 DEF RemoteFound
<1>6. data.row = g /\ u \notin Manifest
  BY <1>5, FetchedIsListed, UndeclaredIsNoKey
<1> QED
  BY <1>3, <1>4, <1>6 DEF Drops

LEMMA NextNoKindsLeft ==
  ASSUME NoKindsLeft, [Next]_vars
  PROVE  NoKindsLeft'
BY DEF NoKindsLeft, Next, ToolStep, StartRun, ListKind, FetchListed, StartFetch, FetchDeclared,
       MakePlan, ExecuteAddition, ExecuteDrop, Finish, Drift, Crash, SkipInvalidGrant,
       EndRun, run, vars

LEMMA NextLeftToDrop ==
  ASSUME TypeOK, Phases, Apart, Unfolded, NoKindsLeft, [Next]_vars, clean',
         clean => RemoteFound /\ KeysCovered /\ LeftToDrop
  PROVE  LeftToDrop'
<1>1. clean \/ StartRun
  BY StaysClean
<1>2. CASE StartRun \/ ListKind \/ FetchListed \/ StartFetch \/ FetchDeclared
  BY <1>2 DEF StartRun, ListKind, FetchListed, StartFetch, FetchDeclared, EndRun, LeftToDrop
<1>3. CASE MakePlan
  <2>1. /\ pc = "fetching" /\ kinds = {} /\ UNCHANGED <<rows, cfg>>
        /\ RemoteFound /\ KeysCovered
    BY <1>1, <1>3 DEF MakePlan, StartRun, NoKindsLeft
  <2>2. CASE pc' = "running"
    <3>1. drop' = Drops(remote)
      BY <1>3, <2>2 DEF MakePlan, EndRun
    <3>2. \A g \in DOMAIN rows : Revocable(cfg, g) => g \in Declared(cfg) \cup Drops(remote)
      BY <2>1, PlannedDrops
    <3> QED
      BY <2>1, <3>1, <3>2 DEF LeftToDrop
  <2> QED
    BY <2>2 DEF LeftToDrop
<1>4. CASE ExecuteAddition
  <2>1. PICK c \in add :
          /\ pc = "running"
          /\ UNCHANGED cfg
          /\ \/ pc' = "idle"
             \/ rows' = Granted(rows, c.of) /\ UNCHANGED drop
    BY <1>4, AdditionStep
  <2>2. CASE rows' = Granted(rows, c.of) /\ UNCHANGED drop
    <3>1. LeftToDrop
      BY <1>1, <2>1 DEF StartRun
    <3>2. DOMAIN rows' = DOMAIN rows \cup Means(c.of)
      BY <2>2 DEF Granted
    <3>3. Means(c.of) \subseteq Declared(cfg)
      BY DEF TypeOK, Declared
    <3> QED
      BY <2>1, <2>2, <3>1, <3>2, <3>3 DEF LeftToDrop
  <2> QED
    BY <2>1, <2>2 DEF LeftToDrop
<1>5. CASE ExecuteDrop
  <2>1. PICK g \in drop : rows' = Revoked(rows, g) /\ drop' = drop \ {g}
    BY <1>5 DEF ExecuteDrop
  <2>2. DOMAIN rows' = DOMAIN rows \ {g}
    BY <2>1 DEF Revoked
  <2> QED
    BY <1>1, <1>5, <2>1, <2>2 DEF ExecuteDrop, StartRun, LeftToDrop
<1>6. CASE Finish
  BY <1>6 DEF Finish, EndRun, LeftToDrop
<1>7. CASE UNCHANGED vars
  BY <1>1, <1>7 DEF vars, StartRun, LeftToDrop
<1> QED
  BY <1>2, <1>3, <1>4, <1>5, <1>6, <1>7, StaysClean

\* What needs no change is as declared.
LEMMA UnchangedIsDeclared ==
  ASSUME TypeOK, Apart, OneOption, pc = "fetching", RemoteFound, NEW d \in cfg.declared,
         d \notin Creates(remote), d \notin Updates(remote)
  PROVE  AsDeclared(d)
<1>1. PICK data : data = remote[urn(d)]
  OBVIOUS
<1>2. /\ data \in fetch_resource(urn(d), rows)
      /\ data.privs = _privs(d)
      /\ Means(d) \subseteq DOMAIN rows
      /\ data.row \in Means(d)
  BY <1>1, PlannedOrHeld
<1>3. data.option = rows[data.row]
  BY <1>2, FetchedData
<1>4. data.option = d.option
  BY <1>1 DEF Updates, Differs
<1>5. ASSUME WithGrantOption(d), NEW g \in Means(d)
      PROVE  rows[g]
  <2>1. _privs(d) = {d.priv} /\ d.kind = "GRANT" /\ d.option
    BY <1>5 DEF OneOption, _privs, WithGrantOption
  <2>2. g = data.row
    BY <1>2, <1>5, <2>1 DEF Means, Targets
  <2> QED
    BY <1>3, <1>4, <2>1, <2>2
<1> QED
  BY <1>2, <1>5 DEF AsDeclared

\* A GRANT makes its declaration true, and no other untrue; nor does a REVOKE
\* that can be justified.
LEMMA GrantedAsDeclared ==
  ASSUME NEW c, rows' = Granted(rows, c)
  PROVE  AsDeclared(c)' /\ \A d \in cfg.declared : AsDeclared(d) => AsDeclared(d)'
<1>1. DOMAIN rows' = DOMAIN rows \cup Means(c)
  BY DEF Granted
<1>2. ASSUME NEW g \in DOMAIN rows',
             (g \in DOMAIN rows /\ rows[g]) \/ (g \in Means(c) /\ WithGrantOption(c))
      PROVE  rows'[g]
  BY <1>1, <1>2 DEF Granted
<1>3. AsDeclared(c)'
  BY <1>1, <1>2 DEF AsDeclared
<1>4. ASSUME NEW d \in cfg.declared, AsDeclared(d)
      PROVE  AsDeclared(d)'
  BY <1>1, <1>2, <1>4 DEF AsDeclared
<1> QED
  BY <1>3, <1>4

LEMMA RevokedAsDeclared ==
  ASSUME NEW g, Justified(g), rows' = Revoked(rows, g)
  PROVE  \A d \in Lasting : AsDeclared(d) => AsDeclared(d)'
<1> SUFFICES ASSUME NEW d \in Lasting, AsDeclared(d)
             PROVE  AsDeclared(d)'
  OBVIOUS
<1>1. g \notin Means(d)
  BY DEF Justified, Revocable, Lasting
<1> QED
  BY <1>1 DEF AsDeclared, Revoked

LEMMA NextLastingInHand ==
  ASSUME IInv, Apart, OneOption, [Next]_vars, clean',
         clean => RemoteFound /\ LastingInHand
  PROVE  LastingInHand'
<1>1. clean \/ StartRun
  BY StaysClean
<1>2. CASE StartRun \/ ListKind \/ FetchListed \/ StartFetch \/ FetchDeclared
  BY <1>2 DEF StartRun, ListKind, FetchListed, StartFetch, FetchDeclared, EndRun, LastingInHand,
              IInv, Phases
<1>3. CASE MakePlan
  <2>1. pc = "fetching" /\ UNCHANGED <<rows, cfg>> /\ RemoteFound /\ TypeOK
    BY <1>1, <1>3 DEF MakePlan, StartRun, IInv
  <2>2. CASE pc' = "running"
    <3> SUFFICES ASSUME NEW d \in Lasting
                 PROVE  AsDeclared(d)' \/ \E c \in add' : c.of = d
      BY <2>1 DEF LastingInHand, Lasting
    <3>1. d \in cfg.declared
      BY DEF Lasting
    <3>2. CASE d \in Creates(remote)
      <4>1. [op |-> "create", of |-> d] \in add'
        BY <1>3, <2>2, <3>2 DEF MakePlan, EndRun
      <4> QED
        BY <4>1
    <3>3. CASE d \in Updates(remote)
      <4>1. [op |-> "update", of |-> d] \in add'
        BY <1>3, <2>2, <3>3 DEF MakePlan, EndRun
      <4> QED
        BY <4>1
    <3>4. CASE d \notin Creates(remote) /\ d \notin Updates(remote)
      <4>1. AsDeclared(d)
        BY <2>1, <3>1, <3>4, UnchangedIsDeclared
      <4> QED
        BY <2>1, <4>1 DEF AsDeclared
    <3> QED
      BY <3>2, <3>3, <3>4
  <2> QED
    BY <2>2 DEF LastingInHand
<1>4. CASE ExecuteAddition
  <2>1. PICK c \in add :
          /\ pc = "running"
          /\ UNCHANGED cfg
          /\ \/ pc' = "idle"
             \/ rows' = Granted(rows, c.of) /\ add' = add \ {c}
    BY <1>4, AdditionStep
  <2>2. CASE rows' = Granted(rows, c.of) /\ add' = add \ {c}
    <3>1. LastingInHand
      BY <1>1, <2>1 DEF StartRun
    <3>2. AsDeclared(c.of)' /\ \A d \in cfg.declared : AsDeclared(d) => AsDeclared(d)'
      BY <2>2, GrantedAsDeclared
    <3> SUFFICES ASSUME NEW d \in Lasting
                 PROVE  AsDeclared(d)' \/ \E b \in add' : b.of = d
      BY <2>1 DEF LastingInHand, Lasting
    <3>3. d \in cfg.declared
      BY DEF Lasting
    <3> QED
      BY <2>1, <2>2, <3>1, <3>2, <3>3 DEF LastingInHand
  <2> QED
    BY <2>1, <2>2 DEF LastingInHand
<1>5. CASE ExecuteDrop
  <2>1. PICK g \in drop : rows' = Revoked(rows, g)
    BY <1>5 DEF ExecuteDrop
  <2>2. \A d \in Lasting : AsDeclared(d) => AsDeclared(d)'
    BY <2>1, RevokedAsDeclared DEF IInv, DropsJustified
  <2> QED
    BY <1>1, <1>5, <2>2 DEF ExecuteDrop, StartRun, LastingInHand, Lasting
<1>6. CASE Finish
  BY <1>6 DEF Finish, EndRun, LastingInHand
<1>7. CASE UNCHANGED vars
  BY <1>1, <1>7 DEF vars, StartRun, LastingInHand, Lasting, AsDeclared
<1> QED
  BY <1>2, <1>3, <1>4, <1>5, <1>6, <1>7, StaysClean

LEMMA NextSettled ==
  ASSUME SettlingInv, [Next]_vars
  PROVE  CleanRunSettles'
<1> USE DEF SettlingInv
<1> SUFFICES ASSUME clean', outcome' = "done"
             PROVE  Settled'
  BY DEF CleanRunSettles
<1>1. clean \/ StartRun
  BY StaysClean
<1>2. CASE Finish
  <2>1. /\ pc = "running" /\ add = {} /\ drop = {} /\ UNCHANGED <<rows, cfg>>
        /\ LeftToDrop /\ LastingInHand
    BY <1>1, <1>2 DEF Finish, StartRun
  <2>2. Settled
    BY <2>1 DEF LeftToDrop, LastingInHand, AsDeclared, Settled
  <2> QED
    BY <2>1, <2>2 DEF Settled, Lasting
<1>3. CASE UNCHANGED <<rows, cfg, outcome>>
  <2>1. Settled \/ StartRun
    BY <1>1, <1>3 DEF CleanRunSettles
  <2>2. ~ StartRun
    BY DEF StartRun
  <2> QED
    BY <1>3, <2>1, <2>2 DEF Settled, Lasting
<1>4. CASE ListKind \/ FetchListed \/ StartFetch \/ FetchDeclared \/ MakePlan \/ UNCHANGED vars
  BY <1>3, <1>4 DEF ListKind, FetchListed, StartFetch, FetchDeclared, MakePlan, EndRun, vars
<1>5. CASE StartRun \/ ExecuteAddition \/ ExecuteDrop
  BY <1>5 DEF StartRun, ExecuteAddition, ExecuteDrop, EndRun, Undecided
<1> QED
  BY <1>2, <1>4, <1>5, StaysClean

\* A run nobody disturbs that comes to its end leaves the account as declared:
\* what lasts is granted, with its option, and in sync mode nothing else is
\* left of what it lists.
THEOREM RunsSettle ==
  Spec /\ []Apart /\ []Distinguishable /\ []Unfolded /\ []OneOption => []CleanRunSettles
<1>1. Init => SettlingInv
  <2> SUFFICES ASSUME Init PROVE SettlingInv
    OBVIOUS
  <2>1. IInv
    BY InitInv
  <2> QED
    BY <2>1 DEF Init, NoRun, NoState, SettlingInv, Undecided, NoKindsLeft, RemoteFound,
                KeysCovered, LeftToDrop, LastingInHand, CleanRunSettles
<1>2. SettlingInv /\ Apart /\ Distinguishable /\ Unfolded /\ OneOption /\ [Next]_vars
        => SettlingInv'
  <2> SUFFICES ASSUME SettlingInv, Apart, Distinguishable, Unfolded, OneOption, [Next]_vars
               PROVE  SettlingInv'
    OBVIOUS
  <2>1. IInv' /\ Undecided' /\ NoKindsLeft'
    BY NextInv, NextUndecided, NextNoKindsLeft DEF SettlingInv
  <2>2. clean' => RemoteFound' /\ KeysCovered' /\ LeftToDrop' /\ LastingInHand'
    BY NextRemoteFound, NextKeysCovered, NextLeftToDrop, NextLastingInHand DEF SettlingInv, IInv
  <2>3. CleanRunSettles'
    BY NextSettled
  <2> QED
    BY <2>1, <2>2, <2>3 DEF SettlingInv
<1>3. SettlingInv => CleanRunSettles
  BY DEF SettlingInv
<1> QED
  BY <1>1, <1>2, <1>3, PTL DEF Spec
=============================================================================
