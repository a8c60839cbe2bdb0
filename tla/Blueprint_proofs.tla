-------------------------- MODULE Blueprint_proofs --------------------------
(***************************************************************************)
(* Whatever others do to the account meanwhile, wherever a run dies and    *)
(* however late a plan is applied, the statements of a run do to the       *)
(* account only what the blueprint justifies.                              *)
(***************************************************************************)
EXTENDS Claims, SavedPlan, Planner_proofs

-----------------------------------------------------------------------------
\* Changes and statements a blueprint c justifies.

Owner == Role \cup {NoURN}
PlainAttr == {a \in Attr : AttrKind[a] = "plain"}

mayCreate(c, u) ==
  /\ u \in Managed(c)
  /\ c.manifest[u].implicit => \E a \in Attr : AttrKind[a] = "create"

isListed(c, u) ==
  /\ u \in URN \ SystemRole
  /\ Type[u] \in c.allowlist
  /\ c.scope = "DATABASE" => FqnDatabase(u) = c.database
  /\ c.scope = "SCHEMA" => FqnSchema(u) = c.schema

\* What sync lists and the manifest does not have, and what of it a plan may drop.
isStray(c, u) == c.run_mode = "SYNC" /\ isListed(c, u) /\ u \notin DOMAIN c.manifest

mayDrop(c, u) ==
  isStray(c, u) /\ ~ _resource_scope_is_outside_blueprint_scope(Type[u], c.scope)

Creates(c) ==
  {x \in [op : {"create"}, urn : Managed(c), after : Data, container_owner : Owner] :
     mayCreate(c, x.urn) /\ x.after = Want(c, x.urn)}

Updates(c) ==
  {x \in [op : {"update"}, urn : Managed(c), after : Data, owner : Owner,
          delta : SUBSET PlainAttr] : x.after = Want(c, x.urn)}

Transfers(c) ==
  {x \in [op : {"transfer"}, urn : Managed(c), from_owner : Owner, to_owner : Role] :
     x.to_owner = Want(c, x.urn).owner}

Drops(c) == {x \in [op : {"drop"}, urn : URN, before : Data] : isStray(c, x.urn)}

Changes(c) == Creates(c) \cup Updates(c) \cup Transfers(c) \cup Drops(c)

\* The changes _raise_for_nonconforming_plan lets pass.
Conforming(c) == {x \in Changes(c) : conforms(c, x)}

Statements(c) ==
  [sql : {"USE ROLE"}, role : Owner]
    \cup {s \in [sql : {"CREATE"}, urn : Managed(c), data : Data] :
            mayCreate(c, s.urn) /\ s.data = Want(c, s.urn)}
    \cup {s \in [sql : {"ALTER"}, urn : Managed(c), attr : PlainAttr, val : Val] :
            s.val = Want(c, s.urn).attrs[s.attr]}
    \cup {s \in [sql : {"GRANT OWNERSHIP"}, urn : URN, role : Role] :
            \E u \in Managed(c) : /\ s.urn \in {u} \cup PublicSchemas(u)
                                  /\ s.role = Want(c, u).owner}
    \cup {s \in [sql : {"DROP"}, urn : URN] : mayDrop(c, s.urn) /\ s.urn # SessionUser}

\* What every assumption says of the blueprint of a run.
LEMMA Blueprints ==
  ASSUME NEW c \in Configs
  PROVE  /\ DOMAIN c.manifest \subseteq URN
         /\ \A u \in DOMAIN c.manifest : Container[u] \in DOMAIN c.manifest \cup {NoURN}
         /\ Managed(c) \subseteq DOMAIN c.manifest
         /\ IsFiniteSet(Managed(c))
         /\ \A u \in Managed(c) :
              /\ Want(c, u) \in Data
              /\ Want(c, u).owner \in Owner /\ Want(c, u).attrs \in [Attr -> Val]
              /\ Type[u] \notin Ownerless => Want(c, u).owner \in Role
<1>1. /\ DOMAIN c.manifest \subseteq URN
      /\ \A u \in DOMAIN c.manifest : Container[u] \in DOMAIN c.manifest \cup {NoURN}
      /\ \A u \in Managed(c) : /\ Want(c, u) \in Data
                               /\ Type[u] \notin Ownerless => Want(c, u).owner # NoURN
  BY BlueprintAssumption
<1>2. Managed(c) \subseteq DOMAIN c.manifest
  BY DEF Managed
<1>3. IsFiniteSet(Managed(c))
  BY <1>1, <1>2, FS_Subset, ResourcesAssumption
<1> QED
  BY <1>1, <1>2, <1>3 DEF Data, Owner

LEMMA Kinds ==
  /\ \A d \in Data : d.owner \in Owner /\ d.attrs \in [Attr -> Val] /\ d # Absent
  /\ Role \subseteq URN /\ NoURN \notin URN /\ NoURN \notin Role
  /\ \A u \in URN : Container[u] \in URN \cup {NoURN}
<1>1. \A d \in Data : d.owner \in Owner /\ d.attrs \in [Attr -> Val]
  BY DEF Data, Owner
<1>2. 1 \in Attr
  BY ResourcesAssumption DEF Attr
<1>3. \A d \in Data : d # Absent
  <2>1. ASSUME NEW d \in Data, d = Absent
        PROVE  FALSE
    <3>1. d.attrs = <<>>
      BY <2>1 DEF Absent
    <3>2. DOMAIN d.attrs = Attr
      BY <1>1
    <3> QED
      BY <1>2, <3>1, <3>2
  <2> QED
    BY <2>1
<1> QED
  BY <1>1, <1>3, ResourcesAssumption DEF Role, ofType

\* A resource lives in a database, or in a schema of a database, or in nothing.
LEMMA Homes ==
  /\ \A u \in URN :
       /\ Type[u] \in SchemaScoped =>
            Container[u] \in ofType("SCHEMA") /\ Container[Container[u]] \in ofType("DATABASE")
       /\ Type[u] \in DatabaseScoped => Container[u] \in ofType("DATABASE")
       /\ Container[u] # NoURN =>
            /\ Container[u] \in URN
            /\ Type[Container[u]] \in {"SCHEMA", "DATABASE"}
       /\ Container[u] # NoURN /\ Container[Container[u]] # NoURN =>
            /\ Container[Container[u]] \in URN
            /\ Container[Container[Container[u]]] = NoURN
  /\ \A u \in URN : Type[u] \in {"DATABASE", "ROLE", "ROLE_GRANT"} => Container[u] = NoURN
<1>1. \A u \in URN :
        /\ Type[u] \in SchemaScoped => Container[u] \in ofType("SCHEMA")
        /\ Type[u] \in DatabaseScoped => Container[u] \in ofType("DATABASE")
        /\ Type[u] \notin SchemaScoped \cup DatabaseScoped => Container[u] = NoURN
  BY ResourcesAssumption DEF SchemaScoped, DatabaseScoped
<1>2. \A u \in ofType("SCHEMA") : u \in URN /\ Type[u] = "SCHEMA" /\ Type[u] \in DatabaseScoped
  BY DEF ofType, DatabaseScoped
<1>3. \A u \in ofType("DATABASE") : /\ u \in URN /\ Type[u] = "DATABASE"
                                    /\ Container[u] = NoURN
  BY <1>1 DEF ofType, SchemaScoped, DatabaseScoped
<1>4. \A u \in URN : Type[u] \in {"DATABASE", "ROLE", "ROLE_GRANT"} => Container[u] = NoURN
  BY <1>1 DEF SchemaScoped, DatabaseScoped
<1> QED
  BY <1>1, <1>2, <1>3, <1>4

\* The references of a manifest are between URNs.
LEMMA RefsInGraph ==
  ASSUME NEW c \in Configs, NEW roles
  PROVE  Refs(c, roles) \in Graph
<1>1. ContainerRefs(c) \subseteq URN \X URN
  BY Blueprints, Homes DEF ContainerRefs
<1>2. RoleGrants(c) \subseteq ofType("ROLE_GRANT") /\ RoleGrants(c) \subseteq URN
  BY Blueprints DEF RoleGrants, ofType
<1>3. \A g \in RoleGrants(c) : GrantedRole[g] \in URN /\ Grantee[g] \in URN
  BY <1>2, Kinds, ResourcesAssumption
<1>4. RoleGrantRefs(c) \subseteq URN \X URN
  BY <1>2, <1>3 DEF RoleGrantRefs
<1>5. _create_grandparent_refs(c) \subseteq URN \X URN
  BY Blueprints, Homes DEF _create_grandparent_refs, ofType
<1>6. _create_ownership_refs(c, roles) \subseteq URN \X URN
  <2> DEFINE owned == {u \in Managed(c) : Want(c, u).owner # NoURN}
  <2>1. owned \subseteq URN /\ \A u \in owned : Want(c, u).owner \in URN
    BY Blueprints, Kinds DEF Owner
  <2> HIDE DEF owned
  <2>2. {<<u, Want(c, u).owner>> : u \in owned} \subseteq URN \X URN
    BY <2>1
  <2>3. \A E \in SUBSET (owned \X RoleGrants(c)) : E \subseteq URN \X URN
    BY <2>1, <1>2
  <2>4. \A E \in SUBSET (RoleGrants(c) \X RoleGrants(c)) : E \subseteq URN \X URN
    BY <1>2
  <2> QED
    BY <2>2, <2>3, <2>4 DEF _create_ownership_refs, owned
<1> QED
  BY <1>1, <1>4, <1>5, <1>6 DEF Refs, Graph

-----------------------------------------------------------------------------
\* What the statements make of an account is an account.

LEMMA CreatedAccount ==
  ASSUME NEW o \in AccountStates, NEW r \in Role, NEW u \in URN, NEW d \in Data,
         Container[u] # NoURN => o[Container[u]] # Absent
  PROVE  Created(o, r, u, d) \in AccountStates
<1> DEFINE p == Created(o, r, u, d)
<1>1. [d EXCEPT !.owner = r] \in Data
  BY DEF Data
<1>2. /\ o \in [URN -> Data \cup {Absent}]
      /\ \A v \in SystemRole : v \in URN /\ o[v] # Absent
      /\ \A v \in URN : o[v] # Absent /\ Container[v] # NoURN => o[Container[v]] # Absent
  BY DEF AccountStates, SystemRole
<1>3. \A v \in URN : \/ v = u /\ p[v] \in Data
                     \/ Container[v] = u /\ p[v] \in Data
                     \/ p[v] = o[v]
  BY <1>1 DEF Created
<1>4. p \in [URN -> Data \cup {Absent}]
  <2>1. p = [v \in URN |-> p[v]]
    BY DEF Created
  <2> HIDE DEF p
  <2> QED
    BY <1>2, <1>3, <2>1
<1>5. p[u] \in Data
  BY <1>1 DEF Created
<1>6. \A v \in URN : o[v] # Absent => p[v] # Absent
  BY <1>3, Kinds
<1> HIDE DEF p
<1>7. \A v \in URN : p[v] # Absent /\ Container[v] # NoURN => p[Container[v]] # Absent
  BY <1>2, <1>3, <1>5, <1>6, Kinds, Homes
<1>8. p \in AccountStates
  BY <1>2, <1>4, <1>6, <1>7 DEF AccountStates
<1> QED
  BY <1>8 DEF p

LEMMA DroppedAccount ==
  ASSUME NEW o \in AccountStates, NEW r \in Role, NEW u \in URN \ SystemRole
  PROVE  Dropped(o, r, u) \in AccountStates
<1> DEFINE p == Dropped(o, r, u)
<1>1. /\ o \in [URN -> Data \cup {Absent}]
      /\ \A v \in SystemRole : v \in Role /\ v \in URN /\ Type[v] = "ROLE" /\ o[v] # Absent
      /\ \A v \in URN : o[v] # Absent /\ Container[v] # NoURN => o[Container[v]] # Absent
  BY ResourcesAssumption DEF AccountStates, Role, ofType
<1>2. \A d \in Data : [d EXCEPT !.owner = r] \in Data
  BY DEF Data
<1>3. \A v \in URN : p[v] \in Data \cup {Absent} /\ (p[v] # Absent => o[v] # Absent)
  BY <1>1, <1>2, Kinds DEF Dropped
<1>4. p \in [URN -> Data \cup {Absent}]
  <2>1. p = [v \in URN |-> p[v]]
    BY DEF Dropped
  <2> HIDE DEF p
  <2> QED
    BY <1>3, <2>1
<1>5. \A v \in URN : v \notin Below(u) /\ Type[v] # "ROLE_GRANT" /\ o[v] # Absent => p[v] # Absent
  BY <1>1, <1>2, Kinds DEF Dropped, ofType
<1>6. \A v \in Below(u) : p[v] = Absent
  <2>1. Below(u) \subseteq URN
    BY DEF Below
  <2> QED
    BY <2>1 DEF Dropped
<1> HIDE DEF p
<1>7. \A v \in SystemRole : v \notin Below(u)
  <2>1. \A v \in SystemRole : Container[v] = NoURN /\ v # u
    BY <1>1, Homes
  <2>2. u # NoURN
    BY Kinds
  <2> QED
    BY <2>1, <2>2 DEF Below
<1>8. \A v \in URN : p[v] # Absent /\ Container[v] # NoURN => p[Container[v]] # Absent
  <2> SUFFICES ASSUME NEW v \in URN, p[v] # Absent, Container[v] # NoURN
               PROVE  p[Container[v]] # Absent
    OBVIOUS
  <2>1. v \notin Below(u) /\ o[v] # Absent
    BY <1>3, <1>6
  <2>2. o[Container[v]] # Absent /\ Container[v] \in URN /\ Type[Container[v]] # "ROLE_GRANT"
    BY <1>1, <2>1, Homes
  <2>3. Container[v] # u
    BY <2>1 DEF Below
  <2>4. Container[Container[v]] # u
    BY <2>1 DEF Below
  <2>5. Container[Container[v]] # NoURN => Container[Container[Container[v]]] # u
    BY Homes, ResourcesAssumption
  <2>6. Container[v] \notin Below(u)
    BY <2>3, <2>4, <2>5 DEF Below
  <2> QED
    BY <1>5, <2>2, <2>6
<1>9. p \in AccountStates
  BY <1>1, <1>4, <1>5, <1>7, <1>8 DEF AccountStates
<1> QED
  BY <1>9 DEF p

\* So is an account where something that exists is given other data.
LEMMA ChangedAccount ==
  ASSUME NEW o \in AccountStates, NEW u \in URN, NEW d \in Data, o[u] # Absent
  PROVE  [o EXCEPT ![u] = d] \in AccountStates
<1> DEFINE p == [o EXCEPT ![u] = d]
<1>1. /\ o \in [URN -> Data \cup {Absent}]
      /\ \A v \in SystemRole : v \in URN /\ o[v] # Absent
      /\ \A v \in URN : o[v] # Absent /\ Container[v] # NoURN => o[Container[v]] # Absent
  BY DEF AccountStates, SystemRole
<1>2. p \in [URN -> Data \cup {Absent}]
  BY <1>1
<1>3. \A v \in URN : p[v] # Absent <=> o[v] # Absent
  BY <1>1, Kinds
<1> HIDE DEF p
<1>4. p \in AccountStates
  BY <1>1, <1>2, <1>3, Homes DEF AccountStates
<1> QED
  BY <1>4 DEF p

-----------------------------------------------------------------------------
\* What diff yields is what the blueprint justifies.

\* The remote state of a run of c.
isRemote(c, rem) ==
  /\ DOMAIN rem \subseteq URN
  /\ \A u \in DOMAIN rem : rem[u] \in Data /\ (u \in DOMAIN c.manifest \/ isStray(c, u))

LEMMA FetchedIsRemote ==
  ASSUME NEW c \in Configs, NEW o \in AccountStates
  PROVE  isRemote(c, [u \in Fetched(c, o) |-> o[u]])
<1>1. \A u \in URN : o[u] \in Data \cup {Absent}
  BY DEF AccountStates
<1>2. \A u \in list_resource(c, o) : isListed(c, u) /\ o[u] # Absent
  BY DEF list_resource, isListed
<1>3. \A u \in Fetched(c, o) : /\ u \in URN /\ o[u] # Absent
                               /\ u \in DOMAIN c.manifest \/ isStray(c, u)
  <2> SUFFICES ASSUME NEW u \in Fetched(c, o)
               PROVE  /\ u \in URN /\ o[u] # Absent
                      /\ u \in DOMAIN c.manifest \/ isStray(c, u)
    OBVIOUS
  <2>1. CASE u \in DOMAIN c.manifest /\ o[u] # Absent
    BY <2>1, Blueprints
  <2>2. CASE c.run_mode = "SYNC" /\ u \in list_resource(c, o)
    BY <2>2, <1>2 DEF isStray, isListed
  <2> QED
    BY <2>1, <2>2 DEF Fetched
<1> QED
  BY <1>1, <1>3 DEF isRemote

LEMMA AdditionsIn ==
  ASSUME NEW c \in Configs, NEW rem, isRemote(c, rem), DiffError(c, rem) = "none",
         NEW u \in Managed(c)
  PROVE  Additions(c, rem, u) \in Seq(Changes(c))
<1> DEFINE delta == Delta(rem[u], Want(c, u))
<1>1. u \in URN /\ u \in DOMAIN c.manifest /\ Want(c, u) \in Data
  BY Blueprints
<1>2. \A v \in DOMAIN c.manifest : v \notin DOMAIN rem => v \in Managed(c)
  BY DEF DiffError
<1>3. \A v \in DOMAIN rem : rem[v] \in Data /\ rem[v].owner \in Owner
  BY Kinds DEF isRemote
<1>4. _container_descriptor(c, rem, u) \in Owner
  <2>1. Container[u] # NoURN => Container[u] \in DOMAIN c.manifest
    BY <1>1, Blueprints
  <2>2. NoURN \in Owner
    BY DEF Owner
  <2>3. Container[u] = NoURN => Container[u] \notin DOMAIN rem
    BY Kinds DEF isRemote
  <2>4. Container[u] # NoURN /\ Container[u] \notin DOMAIN rem =>
          Want(c, Container[u]).owner \in Owner
    BY <1>2, <2>1, Blueprints
  <2> QED
    BY <1>3, <2>2, <2>3, <2>4 DEF _container_descriptor
<1>5. mayCreate(c, u) => Create(c, rem, u) \in Changes(c)
  BY <1>1, <1>4 DEF Create, Changes, Creates
<1>6. u \in DOMAIN rem => Update(c, rem, u) \in Changes(c)
  <2>1. PlainDelta(delta) \subseteq PlainAttr
    BY DEF PlainDelta, PlainAttr, Delta
  <2> HIDE DEF delta
  <2> QED
    BY <1>1, <1>3, <2>1 DEF Update, Changes, Updates, delta
<1>7. u \in DOMAIN rem /\ Want(c, u).owner # NoURN => Transfer(c, rem, u) \in Changes(c)
  <2>1. Want(c, u).owner # NoURN => Want(c, u).owner \in Role
    BY Blueprints DEF Owner
  <2> QED
    BY <1>3, <2>1 DEF Transfer, Changes, Transfers
<1>8. Trigger(delta) = "create" => \E a \in Attr : AttrKind[a] = "create"
  <2> DEFINE triggers == {a \in delta : AttrKind[a] \in {"create", "replace"}}
  <2>1. triggers \subseteq Attr
    BY DEF Delta
  <2>2. ASSUME triggers # {}
        PROVE  \E a \in triggers : \A b \in triggers : a <= b
    <3>1. triggers \subseteq Nat
      BY <2>1, ResourcesAssumption DEF Attr
    <3> HIDE DEF triggers
    <3> QED
      BY <2>2, <3>1, Least
  <2>3. ASSUME Trigger(delta) = "create"
        PROVE  \E a \in Attr : AttrKind[a] = "create"
    <3>1. triggers # {}
      BY <2>3 DEF Trigger
    <3> DEFINE first == CHOOSE a \in triggers : \A b \in triggers : a <= b
    <3>2. first \in triggers
      <4> HIDE DEF triggers
      <4> QED
        BY <2>2, <3>1
    <3>3. AttrKind[first] = "create"
      BY <2>3, <3>1 DEF Trigger
    <3> QED
      BY <2>1, <3>2, <3>3
  <2> QED
    BY <2>3
<1> HIDE DEF delta
<1>9. <<>> \in Seq(Changes(c)) /\ \A x \in Changes(c) : <<x>> \in Seq(Changes(c))
  BY EmptySeq
<1>10. CASE u \notin DOMAIN rem
  <2>1. ~ c.manifest[u].implicit => mayCreate(c, u)
    BY DEF mayCreate
  <2> QED
    BY <1>5, <1>9, <1>10, <2>1 DEF Additions
<1>11. CASE u \in DOMAIN rem /\ Trigger(delta) = "create"
  <2>1. mayCreate(c, u)
    BY <1>8, <1>11 DEF mayCreate
  <2> QED
    BY <1>5, <1>9, <1>11, <2>1 DEF Additions, delta
<1>12. CASE u \in DOMAIN rem /\ Trigger(delta) # "create"
  <2> DEFINE update == IF PlainDelta(delta) = {} THEN <<>> ELSE <<Update(c, rem, u)>>
             transfer == IF Want(c, u).owner \in {NoURN, rem[u].owner} THEN <<>>
                         ELSE <<Transfer(c, rem, u)>>
  <2>1. update \in Seq(Changes(c)) /\ transfer \in Seq(Changes(c))
    BY <1>6, <1>7, <1>9, <1>12
  <2>2. Additions(c, rem, u) = update \o transfer
    BY <1>12 DEF Additions, delta
  <2> QED
    BY <2>1, <2>2, ConcatProperties
<1> QED
  BY <1>10, <1>11, <1>12

LEMMA ChangesIn ==
  ASSUME NEW c \in Configs, NEW rem, isRemote(c, rem), DiffError(c, rem) = "none"
  PROVE  /\ IsFiniteSet(Managed(c)) /\ IsFiniteSet(DOMAIN rem)
         /\ \A u \in Managed(c) : Additions(c, rem, u) \in Seq(Changes(c))
         /\ \A u \in Removals(c, rem) : Drop(rem, u) \in Changes(c)
<1>1. IsFiniteSet(Managed(c)) /\ IsFiniteSet(DOMAIN rem)
  BY Blueprints, FS_Subset, ResourcesAssumption DEF isRemote
<1>2. \A u \in Managed(c) : Additions(c, rem, u) \in Seq(Changes(c))
  BY AdditionsIn
<1>3. \A u \in Removals(c, rem) : Drop(rem, u) \in Changes(c)
  BY DEF Removals, isRemote, Drop, Changes, Drops
<1> QED
  BY <1>1, <1>2, <1>3

LEMMA PlansIn ==
  ASSUME NEW c \in Configs, NEW rem, isRemote(c, rem), DiffError(c, rem) = "none",
         NEW refers, NEW p \in Plans(c, rem, refers)
  PROVE  p \in Seq(Changes(c))
BY ChangesIn, PlanIn

LEMMA AllConform ==
  ASSUME NEW c, NEW p \in Seq(Changes(c)), \A i \in DOMAIN p : conforms(c, p[i])
  PROVE  p \in Seq(Conforming(c))
<1>1. p \in [1 .. Len(p) -> Changes(c)] /\ Len(p) \in Nat /\ DOMAIN p = 1 .. Len(p)
  BY LenProperties
<1>2. p \in [1 .. Len(p) -> Conforming(c)]
  BY <1>1 DEF Conforming
<1> QED
  BY <1>1, <1>2, SeqDef

-----------------------------------------------------------------------------
\* The statements of a change are what the blueprint justifies.

LEMMA RoleOfChange ==
  ASSUME NEW c \in Configs, NEW x \in Changes(c), NEW R \in SUBSET Role, NEW r \in Owner
  PROVE  execution_role(x, R, r) \in Owner
<1>1. x.op \in {"create", "update", "transfer", "drop"}
  BY DEF Changes, Creates, Updates, Transfers, Drops
<1>2. owner_for_change(x) \in Owner
  <2>1. \A u \in Managed(c) : Want(c, u).owner \in Owner
    BY Blueprints
  <2>2. CASE x \in Creates(c)
    BY <2>1, <2>2 DEF Creates, owner_for_change
  <2>3. CASE x \in Updates(c)
    BY <2>3 DEF Updates, owner_for_change
  <2>4. CASE x \in Transfers(c)
    BY <2>4 DEF Transfers, owner_for_change
  <2>5. CASE x \in Drops(c)
    BY <2>5, Kinds DEF Drops, owner_for_change
  <2> QED
    BY <2>2, <2>3, <2>4, <2>5 DEF Changes
<1>3. NoURN \in Owner /\ R \subseteq Owner
  BY DEF Owner
<1>4. x.op = "create" => x.container_owner \in Owner
  BY DEF Changes, Creates, Updates, Transfers, Drops
<1> QED
  BY <1>2, <1>3, <1>4 DEF execution_role, resource_type_is_grant

\* The last field of a delta.
LEMMA Greatest ==
  ASSUME NEW S \in SUBSET Attr, S # {}
  PROVE  \E m \in S : \A x \in S : x <= m
<1> DEFINE T == {NAttr - a : a \in S}
<1>1. NAttr \in Nat /\ \A a \in S : a \in 1 .. NAttr
  BY ResourcesAssumption DEF Attr
<1>2. T \in SUBSET Nat /\ T # {}
  BY <1>1
<1>3. PICK k \in T : \A x \in T : k <= x
  <2> HIDE DEF T
  <2> QED
    BY <1>2, Least
<1>4. PICK m \in S : k = NAttr - m
  OBVIOUS
<1>5. ASSUME NEW x \in S
      PROVE  x <= m
  <2>1. NAttr - m <= NAttr - x
    BY <1>3, <1>4
  <2> QED
    BY <1>1, <2>1
<1> QED
  BY <1>5

LEMMA AlteredField ==
  ASSUME NEW c \in Configs, NEW x \in Updates(c), x.delta # {}
  PROVE  /\ AlterLast(x) \in Statements(c)
         /\ AlterLast(x).attr \in x.delta
<1> DEFINE a == CHOOSE a \in x.delta : \A b \in x.delta : b <= a
<1>1. /\ x.urn \in Managed(c) /\ x.delta \in SUBSET PlainAttr /\ x.after = Want(c, x.urn)
      /\ x.delta \in SUBSET Attr
  BY DEF Updates, PlainAttr
<1>2. a \in x.delta
  BY <1>1, Greatest
<1>3. a \in PlainAttr /\ a \in Attr
  BY <1>1, <1>2
<1> HIDE DEF a
<1>4. x.after.attrs[a] \in Val
  BY <1>1, <1>3, Blueprints
<1> DEFINE s == [sql |-> "ALTER", urn |-> x.urn, attr |-> a, val |-> x.after.attrs[a]]
<1>5. AlterLast(x) = s
  BY DEF AlterLast, a
<1>6. s \in [sql : {"ALTER"}, urn : Managed(c), attr : PlainAttr, val : Val]
  BY <1>1, <1>3, <1>4
<1>7. s.val = Want(c, s.urn).attrs[s.attr]
  BY <1>1
<1>8. s.attr = a
  OBVIOUS
<1> HIDE DEF s
<1>9. s \in Statements(c)
  BY <1>6, <1>7 DEF Statements
<1> QED
  BY <1>2, <1>5, <1>8, <1>9

LEMMA StatementsIn ==
  ASSUME NEW c \in Configs, NEW x \in Conforming(c), x.op = "update" => x.delta # {},
         ~ would_drop_session_user(x), NEW r \in Role
  PROVE  sql_commands_for_change(x, r) \in Seq(Statements(c))
<1>1. \A s \in Statements(c) : <<s>> \in Seq(Statements(c))
  OBVIOUS
<1>2. UseRole(r) \in Statements(c)
  BY DEF UseRole, Statements, Owner
<1>3. ASSUME NEW rest \in Seq(Statements(c))
      PROVE  <<UseRole(r)>> \o rest \in Seq(Statements(c))
  BY <1>1, <1>2, ConcatProperties
<1>4. CASE x \in Creates(c)
  <2> DEFINE create == [sql |-> "CREATE", urn |-> x.urn, data |-> x.after]
             after == IF transfer_ownership(x, r) THEN AfterCreate(x) ELSE <<>>
  <2>1. /\ x.op = "create" /\ x.urn \in Managed(c) /\ x.after = Want(c, x.urn)
        /\ x.urn \in URN /\ mayCreate(c, x.urn) /\ x.after \in Data
    BY <1>4, Blueprints DEF Creates
  <2>2. create \in Statements(c)
    BY <2>1 DEF Statements
  <2>3. ASSUME transfer_ownership(x, r)
        PROVE  AfterCreate(x) \in Seq(Statements(c))
    <3>1. x.after.owner \in Role
      BY <2>1, <2>3, Blueprints DEF transfer_ownership
    <3>2. \A v \in {x.urn} \cup PublicSchemas(x.urn) :
            GrantOwnership(v, x.after.owner) \in Statements(c)
      <4>1. PublicSchemas(x.urn) \subseteq URN
        BY DEF PublicSchemas
      <4> QED
        BY <2>1, <3>1, <4>1 DEF GrantOwnership, Statements
    <3> DEFINE n == Cardinality(PublicSchemas(x.urn))
               public == CHOOSE v \in PublicSchemas(x.urn) : TRUE
    <3>3. n \in Nat /\ (n # 0 => PublicSchemas(x.urn) # {})
      <4>1. IsFiniteSet(PublicSchemas(x.urn))
        BY FS_Subset, ResourcesAssumption DEF PublicSchemas
      <4> QED
        BY <4>1, FS_CardinalityType, FS_EmptySet
    <3>4. \A i \in 1 .. n : public \in PublicSchemas(x.urn)
      BY <3>3
    <3> HIDE DEF n, public
    <3>5. [i \in 1 .. n |-> GrantOwnership(public, x.after.owner)] \in Seq(Statements(c))
      <4>1. [i \in 1 .. n |-> GrantOwnership(public, x.after.owner)] \in [1 .. n -> Statements(c)]
        BY <3>2, <3>4
      <4> QED
        BY <3>3, <4>1, SeqDef
    <3>6. <<GrantOwnership(x.urn, x.after.owner)>> \in Seq(Statements(c))
      BY <1>1, <3>2
    <3> QED
      BY <3>5, <3>6, ConcatProperties DEF AfterCreate, n, public
  <2>4. after \in Seq(Statements(c))
    BY <2>3, EmptySeq
  <2>5. <<create>> \o after \in Seq(Statements(c))
    <3> HIDE DEF create, after
    <3> QED
      BY <1>1, <2>2, <2>4, ConcatProperties
  <2>6. sql_commands_for_change(x, r) = <<UseRole(r)>> \o (<<create>> \o after)
    BY <2>1 DEF sql_commands_for_change
  <2> HIDE DEF create, after
  <2> QED
    BY <1>3, <2>5, <2>6
<1>5. CASE x \in Updates(c)
  <2>1. x.op = "update" /\ AlterLast(x) \in Statements(c)
    BY <1>5, AlteredField DEF Updates
  <2>2. sql_commands_for_change(x, r) = <<UseRole(r)>> \o <<AlterLast(x)>>
    BY <2>1 DEF sql_commands_for_change
  <2> QED
    BY <1>1, <1>3, <2>1, <2>2
<1>6. CASE x \in Transfers(c)
  <2>1. x.op = "transfer" /\ GrantOwnership(x.urn, x.to_owner) \in Statements(c)
    BY <1>6, Blueprints DEF Transfers, GrantOwnership, Statements
  <2>2. sql_commands_for_change(x, r) = <<UseRole(r)>> \o <<GrantOwnership(x.urn, x.to_owner)>>
    BY <2>1 DEF sql_commands_for_change
  <2> QED
    BY <1>1, <1>3, <2>1, <2>2
<1>7. CASE x \in Drops(c)
  <2> DEFINE drop == [sql |-> "DROP", urn |-> x.urn]
  <2>1. x.op = "drop" /\ mayDrop(c, x.urn)
    BY <1>7 DEF Drops, Conforming, conforms, mayDrop
  <2>2. drop \in Statements(c)
    BY <1>7, <2>1 DEF Drops, Statements, would_drop_session_user
  <2>3. sql_commands_for_change(x, r) = <<UseRole(r)>> \o <<drop>>
    BY <2>1 DEF sql_commands_for_change
  <2> QED
    BY <1>1, <1>3, <2>2, <2>3
<1> QED
  BY <1>4, <1>5, <1>6, <1>7 DEF Changes, Conforming

-----------------------------------------------------------------------------
\* The inductive invariant of a run.

\* The variables are of their types.
Typed ==
  /\ cfg \in Configs
  /\ obj \in AccountStates
  /\ role \in Role
  /\ session_ctx.role \in Owner
  /\ session_ctx.available_roles \subseteq Role
  /\ pc \in Stages
  /\ error \in Errors
  /\ refs \in Graph
  /\ available \subseteq Role
  /\ clean \in BOOLEAN
  /\ mishaps \in 0 .. MaxMishaps

\* The data of the run is what its blueprint justifies, and once the plan is
\* checked nothing in it drops the user of the session.
Justified ==
  /\ isRemote(cfg, remote)
  /\ plan \in Seq(Conforming(cfg))
  /\ queue \in Seq(Statements(cfg))

Checked == pc = "compiling" => \A i \in DOMAIN plan : ~ would_drop_session_user(plan[i])

RunInv == Typed /\ Justified /\ Checked

LEMMA RunInvTypeOK == ASSUME RunInv PROVE TypeOK
<1>1. \A x \in Conforming(cfg) : x.urn \in URN
  <2>1. cfg \in Configs
    BY DEF RunInv, Typed
  <2>2. Managed(cfg) \subseteq URN
    BY <2>1, Blueprints
  <2> QED
    BY <2>2 DEF Conforming, Changes, Creates, Updates, Transfers, Drops
<1>2. \A s \in Statements(cfg) :
        s.sql \in {"USE ROLE", "CREATE", "ALTER", "GRANT OWNERSHIP", "DROP"}
  BY DEF Statements
<1>3. \A i \in DOMAIN plan : plan[i] \in Conforming(cfg)
  BY ElementOfSeq, LenProperties DEF RunInv, Justified
<1>4. \A i \in DOMAIN queue : queue[i] \in Statements(cfg)
  BY ElementOfSeq, LenProperties DEF RunInv, Justified
<1> QED
  BY <1>1, <1>2, <1>3, <1>4 DEF RunInv, Typed, Justified, isRemote, TypeOK, Owner

LEMMA InitRunInv == ASSUME Init PROVE RunInv
<1>1. cfg \in Configs /\ obj \in AccountStates /\ role \in Role /\ MaxMishaps \in Nat
  BY BlueprintAssumption DEF Init
<1>2. Typed
  BY <1>1 DEF Init, Typed, NoSession, Owner, Stages, Errors, Graph
<1>3. Justified
  BY EmptySeq DEF Init, Justified, isRemote, NoState
<1>4. Checked
  BY DEF Init, Checked
<1> QED
  BY <1>2, <1>3, <1>4 DEF RunInv

LEMMA BeginKeeps ==
  ASSUME RunInv, NEW ctx, NEW active \in Role, NEW undisturbed \in BOOLEAN,
         ctx.role \in Owner, ctx.available_roles \subseteq Role,
         Begin(ctx, active, undisturbed)
  PROVE  RunInv'
<1>1. Refs(cfg, ctx.available_roles) \in Graph
  BY RefsInGraph DEF RunInv, Typed
<1>2. Typed'
  BY <1>1 DEF RunInv, Typed, Begin, Stages, Errors
<1>3. Justified'
  BY EmptySeq DEF RunInv, Justified, Begin, isRemote, NoState
<1>4. Checked'
  BY DEF Begin, Checked
<1> QED
  BY <1>2, <1>3, <1>4 DEF RunInv

LEMMA StartRunKeeps ==
  ASSUME RunInv, StartRun \/ StartRunOnSameSession
  PROVE  RunInv'
<1>1. CASE StartRun
  <2> DEFINE ctx == [role |-> DefaultRole, available_roles |-> AvailableRoles(obj)]
  <2>1. /\ DefaultRole \in Role /\ ctx.role \in Owner /\ ctx.available_roles \subseteq Role
        /\ Begin(ctx, DefaultRole, TRUE)
    BY <1>1, BlueprintAssumption DEF StartRun, Owner, AvailableRoles, Inherited
  <2> HIDE DEF ctx
  <2> QED
    BY <2>1, BeginKeeps
<1>2. CASE StartRunOnSameSession
  BY <1>2, BeginKeeps DEF StartRunOnSameSession, RunInv, Typed
<1> QED
  BY <1>1, <1>2

LEMMA FetchKeeps == ASSUME RunInv, FetchRemoteState PROVE RunInv'
<1>1. isRemote(cfg, [u \in Fetched(cfg, obj) |-> obj[u]])
  BY FetchedIsRemote DEF RunInv, Typed
<1>2. \/ Raise("SyncNeedsAllowlist") /\ UNCHANGED remote
      \/ Raise("MissingResource") /\ UNCHANGED remote
      \/ /\ remote' = [u \in Fetched(cfg, obj) |-> obj[u]] /\ pc' = "planning"
         /\ UNCHANGED <<error, plan, queue>>
  BY DEF FetchRemoteState
<1>3. Typed'
  BY <1>2 DEF RunInv, Typed, FetchRemoteState, Raise, Stages, Errors
<1>4. Justified'
  BY <1>1, <1>2, EmptySeq DEF RunInv, Typed, Justified, FetchRemoteState, Raise
<1>5. Checked'
  BY <1>2 DEF Checked, Raise
<1> QED
  BY <1>3, <1>4, <1>5 DEF RunInv

LEMMA MakePlanKeeps == ASSUME RunInv, MakePlan PROVE RunInv'
<1>1. DiffError(cfg, remote) \in {"none", "MissingResource", "NotImplemented"}
  BY DEF DiffError
<1>2. UNCHANGED <<obj, role, session_ctx, cfg, refs, remote, available, clean, mishaps>>
  BY DEF MakePlan
<1>3. ASSUME NEW e \in Errors, Raise(e)
      PROVE  RunInv'
  BY <1>2, <1>3, EmptySeq DEF RunInv, Typed, Justified, Checked, Raise, Stages
<1>4. CASE DiffError(cfg, remote) # "none"
  BY <1>1, <1>3, <1>4 DEF MakePlan, Errors
<1>5. CASE DiffError(cfg, remote) = "none" /\ isCyclic(refs)
  BY <1>3, <1>5 DEF MakePlan, Errors
<1>6. CASE DiffError(cfg, remote) = "none" /\ ~ isCyclic(refs)
  <2>1. PICK p \in Plans(cfg, remote, refs) :
          IF \E i \in DOMAIN p : ~ conforms(cfg, p[i]) THEN Raise("NonConformingPlan")
          ELSE plan' = p /\ pc' = "planned" /\ UNCHANGED <<error, queue>>
    BY <1>6 DEF MakePlan
  <2>2. p \in Seq(Changes(cfg))
    BY <1>6, PlansIn DEF RunInv, Typed, Justified
  <2>3. CASE Raise("NonConformingPlan")
    BY <1>3, <2>3 DEF Errors
  <2>4. CASE /\ \A i \in DOMAIN p : conforms(cfg, p[i])
             /\ plan' = p /\ pc' = "planned" /\ UNCHANGED <<error, queue>>
    <3>1. p \in Seq(Conforming(cfg))
      BY <2>2, <2>4, AllConform
    <3> QED
      BY <1>2, <2>4, <3>1 DEF RunInv, Typed, Justified, Checked, Stages
  <2> QED
    BY <2>1, <2>3, <2>4
<1> QED
  BY <1>4, <1>5, <1>6

LEMMA BeginApplyKeeps == ASSUME RunInv, BeginApply PROVE RunInv'
<1>1. Typed'
  BY DEF RunInv, Typed, BeginApply, Raise, Stages, Errors
<1>2. Justified'
  BY EmptySeq DEF RunInv, Justified, BeginApply, Raise
<1>3. Checked'
  BY DEF Checked, BeginApply, Raise
<1> QED
  BY <1>1, <1>2, <1>3 DEF RunInv

-----------------------------------------------------------------------------
\* What a statement the blueprint justifies does to the account o.

Creation(c, o, p, u) ==
  /\ u \in Managed(c)
  /\ mayCreate(c, u)
  /\ o[u] = Absent \/ Type[u] = "ROLE_GRANT"
  /\ Container[u] # NoURN => o[Container[u]] # Absent
  /\ \E r \in Role : p = Created(o, r, u, Want(c, u))

Alteration(c, o, p, u) ==
  /\ u \in Managed(c)
  /\ o[u] # Absent
  /\ \E a \in PlainAttr : p = [o EXCEPT ![u].attrs[a] = Want(c, u).attrs[a]]

Handover(c, o, p, u) ==
  /\ u \in Managed(c)
  /\ Want(c, u).owner \in Role
  /\ \E v \in {u} \cup PublicSchemas(u) :
       o[v] # Absent /\ p = [o EXCEPT ![v].owner = Want(c, u).owner]

Removal(c, o, p, u) ==
  /\ mayDrop(c, u)
  /\ u # SessionUser
  /\ \E r \in Role : p = Dropped(o, r, u)

Effect(c, o, p) ==
  \/ p = o
  \/ \E u \in URN : \/ Creation(c, o, p, u)
                    \/ Alteration(c, o, p, u)
                    \/ Handover(c, o, p, u)
                    \/ Removal(c, o, p, u)

LEMMA EffectOfStatement ==
  ASSUME NEW c \in Configs, NEW o \in AccountStates, NEW r \in Role,
         NEW s \in Statements(c), NEW result \in Outcomes(o, r, s)
  PROVE  /\ result.err \in Errors \cup {"ALREADY_EXISTS"}
         /\ result.role \in Role
         /\ Effect(c, o, result.obj)
<1> DEFINE G == /\ result.err \in Errors \cup {"ALREADY_EXISTS"}
                /\ result.role \in Role
                /\ Effect(c, o, result.obj)
<1> SUFFICES G
  OBVIOUS
<1>1. ASSUME NEW e \in {"ACCESS_CONTROL", "DOES_NOT_EXIST", "OBJECT_ALREADY_EXISTS",
                        "ALREADY_EXISTS"},
             result = Fails(o, r, e)
      PROVE  G
  BY <1>1 DEF Fails, Errors, Effect
<1>2. ASSUME NEW p, NEW q \in Role, result = Ok(p, q), Effect(c, o, p)
      PROVE  G
  BY <1>2 DEF Ok, Errors
<1> HIDE DEF G
<1>3. Effect(c, o, o)
  BY DEF Effect
<1>4. CASE s.sql = "USE ROLE"
  <2>1. result = UseOutcome(o, r, s)
    BY <1>4 DEF Outcomes
  <2>2. CASE s.role \in AvailableRoles(o) /\ o[s.role] # Absent
    <3>1. s.role \in Role /\ result = Ok(o, s.role)
      BY <2>1, <2>2 DEF UseOutcome, AvailableRoles, Inherited
    <3> QED
      BY <1>2, <1>3, <3>1
  <2>3. CASE ~ (s.role \in AvailableRoles(o) /\ o[s.role] # Absent)
    BY <1>1, <2>1, <2>3 DEF UseOutcome
  <2> QED
    BY <2>2, <2>3
<1>5. CASE s.sql = "CREATE"
  <2> DEFINE u == s.urn
             p == Created(o, r, u, s.data)
  <2>1. u \in Managed(c) /\ u \in URN /\ mayCreate(c, u) /\ s.data = Want(c, u)
    BY <1>5, Blueprints DEF Statements
  <2>2. result \in CreateOutcomes(o, r, s)
    BY <1>5 DEF Outcomes
  <2>3. \/ \E e \in {"ACCESS_CONTROL", "DOES_NOT_EXIST", "OBJECT_ALREADY_EXISTS",
                     "ALREADY_EXISTS"} : result = Fails(o, r, e)
        \/ /\ Container[u] # NoURN => o[Container[u]] # Absent
           /\ o[u] = Absent \/ Type[u] = "ROLE_GRANT"
           /\ result = Ok(p, r)
    BY <2>2 DEF CreateOutcomes
  <2>4. ASSUME Container[u] # NoURN => o[Container[u]] # Absent,
               o[u] = Absent \/ Type[u] = "ROLE_GRANT"
        PROVE  Effect(c, o, p)
    <3>1. Creation(c, o, p, u)
      BY <2>1, <2>4 DEF Creation
    <3> QED
      BY <2>1, <3>1 DEF Effect
  <2> HIDE DEF u, p
  <2> QED
    BY <1>1, <1>2, <2>3, <2>4
<1>6. CASE s.sql = "ALTER"
  <2> DEFINE u == s.urn
             p == [o EXCEPT ![u].attrs[s.attr] = s.val]
  <2>1. /\ u \in Managed(c) /\ u \in URN /\ s.attr \in PlainAttr
        /\ s.val = Want(c, u).attrs[s.attr]
    BY <1>6, Blueprints DEF Statements
  <2>2. \/ \E e \in {"ACCESS_CONTROL", "DOES_NOT_EXIST"} : result = Fails(o, r, e)
        \/ o[u] # Absent /\ result = Ok(p, r)
    BY <1>6 DEF Outcomes, AlterOutcome
  <2>3. ASSUME o[u] # Absent
        PROVE  Effect(c, o, p)
    <3>1. Alteration(c, o, p, u)
      BY <2>1, <2>3 DEF Alteration
    <3> QED
      BY <2>1, <3>1 DEF Effect
  <2> HIDE DEF u, p
  <2> QED
    BY <1>1, <1>2, <2>2, <2>3
<1>7. CASE s.sql = "GRANT OWNERSHIP"
  <2> DEFINE v == s.urn
             p == [o EXCEPT ![v].owner = s.role]
  <2>1. PICK u \in Managed(c) : /\ v \in {u} \cup PublicSchemas(u)
                                /\ s.role = Want(c, u).owner /\ s.role \in Role
    BY <1>7 DEF Statements
  <2>2. \/ \E e \in {"ACCESS_CONTROL", "DOES_NOT_EXIST"} : result = Fails(o, r, e)
        \/ o[v] # Absent /\ result = Ok(p, r)
    BY <1>7 DEF Outcomes, GrantOwnershipOutcome
  <2>3. ASSUME o[v] # Absent
        PROVE  Effect(c, o, p)
    <3>1. Handover(c, o, p, u)
      BY <2>1, <2>3 DEF Handover
    <3> QED
      BY <2>1, <3>1, Blueprints DEF Effect
  <2> HIDE DEF v, p
  <2> QED
    BY <1>1, <1>2, <2>2, <2>3
<1>8. CASE s.sql = "DROP"
  <2> DEFINE u == s.urn
             p == Dropped(o, r, u)
  <2>1. u \in URN /\ mayDrop(c, u) /\ u # SessionUser
    BY <1>8 DEF Statements
  <2>2. \/ \E e \in {"ACCESS_CONTROL", "DOES_NOT_EXIST"} : result = Fails(o, r, e)
        \/ result = Ok(o, r)
        \/ result = Ok(p, r)
    BY <1>8 DEF Outcomes, DropOutcome
  <2>3. Effect(c, o, p)
    <3>1. Removal(c, o, p, u)
      BY <2>1 DEF Removal
    <3> QED
      BY <2>1, <3>1 DEF Effect
  <2> HIDE DEF u, p
  <2> QED
    BY <1>1, <1>2, <1>3, <2>2, <2>3
<1>9. s.sql \in {"USE ROLE", "CREATE", "ALTER", "GRANT OWNERSHIP", "DROP"}
  BY DEF Statements
<1> QED
  BY <1>4, <1>5, <1>6, <1>7, <1>8, <1>9

LEMMA EffectAccount ==
  ASSUME NEW c \in Configs, NEW o \in AccountStates, NEW p, Effect(c, o, p)
  PROVE  p \in AccountStates
<1>1. \A u \in URN : o[u] # Absent => o[u] \in Data
  BY DEF AccountStates
<1>2. ASSUME NEW u \in URN, Creation(c, o, p, u)
      PROVE  p \in AccountStates
  <2>1. PICK r \in Role : p = Created(o, r, u, Want(c, u))
    BY <1>2 DEF Creation
  <2>2. Want(c, u) \in Data
    BY <1>2, Blueprints DEF Creation
  <2>3. Container[u] # NoURN => o[Container[u]] # Absent
    BY <1>2 DEF Creation
  <2> QED
    BY <2>1, <2>2, <2>3, CreatedAccount
<1>3. ASSUME NEW u \in URN, Alteration(c, o, p, u)
      PROVE  p \in AccountStates
  <2>1. PICK a \in PlainAttr : p = [o EXCEPT ![u].attrs[a] = Want(c, u).attrs[a]]
    BY <1>3 DEF Alteration
  <2> DEFINE d == [o[u] EXCEPT !.attrs[a] = Want(c, u).attrs[a]]
  <2>2. o[u] # Absent /\ Want(c, u).attrs \in [Attr -> Val] /\ a \in Attr
    BY <1>3, Blueprints DEF Alteration, PlainAttr
  <2>3. d \in Data
    BY <1>1, <2>2 DEF Data
  <2>4. p = [o EXCEPT ![u] = d]
    BY <2>1
  <2> HIDE DEF d
  <2> QED
    BY <2>2, <2>3, <2>4, ChangedAccount
<1>4. ASSUME NEW u \in URN, Handover(c, o, p, u)
      PROVE  p \in AccountStates
  <2>1. PICK v \in {u} \cup PublicSchemas(u) :
          o[v] # Absent /\ p = [o EXCEPT ![v].owner = Want(c, u).owner]
    BY <1>4 DEF Handover
  <2> DEFINE d == [o[v] EXCEPT !.owner = Want(c, u).owner]
  <2>2. v \in URN /\ Want(c, u).owner \in Role
    BY <1>4 DEF PublicSchemas, Handover
  <2>3. d \in Data
    BY <1>1, <2>1, <2>2 DEF Data
  <2>4. p = [o EXCEPT ![v] = d]
    BY <2>1
  <2> HIDE DEF d
  <2> QED
    BY <2>1, <2>2, <2>3, <2>4, ChangedAccount
<1>5. ASSUME NEW u \in URN, Removal(c, o, p, u)
      PROVE  p \in AccountStates
  BY <1>5, DroppedAccount DEF Removal, mayDrop, isStray, isListed
<1> QED
  BY <1>2, <1>3, <1>4, <1>5 DEF Effect

LEMMA CompileKeeps == ASSUME RunInv, CompileChange PROVE RunInv'
<1> DEFINE change == Head(plan)
           runner == execution_role(change, available, session_ctx.role)
<1>1. /\ cfg \in Configs /\ plan \in Seq(Conforming(cfg)) /\ plan # <<>>
      /\ queue \in Seq(Statements(cfg)) /\ available \subseteq Role
      /\ session_ctx.role \in Owner
  BY DEF RunInv, Typed, Justified, CompileChange
<1>2. /\ change \in Conforming(cfg) /\ change \in Changes(cfg)
      /\ Tail(plan) \in Seq(Conforming(cfg))
  BY <1>1, HeadTailProperties DEF Conforming
<1>3. runner \in Owner
  BY <1>1, <1>2, RoleOfChange
<1>4. ~ would_drop_session_user(change)
  <2>1. 1 \in DOMAIN plan /\ change = plan[1]
    BY <1>1, HeadTailProperties
  <2> QED
    BY <2>1 DEF RunInv, Checked, CompileChange
<1> HIDE DEF change
<1>5. RolesAfter(change, available) \subseteq Role
  <2>1. change.op = "create" => change.urn \in Managed(cfg)
    BY <1>2 DEF Changes, Creates, Updates, Transfers, Drops
  <2>2. Managed(cfg) \subseteq URN
    BY <1>1, Blueprints
  <2> QED
    BY <1>1, <2>1, <2>2, ResourcesAssumption DEF RolesAfter, Role, ofType
<1> HIDE DEF runner
<1>6. \/ Raise("MissingPrivilege") /\ UNCHANGED available
      \/ Raise("KeyError") /\ UNCHANGED available
      \/ /\ runner # NoURN /\ (change.op = "update" => change.delta # {})
         /\ queue' = queue \o sql_commands_for_change(change, runner)
         /\ plan' = Tail(plan)
         /\ available' = RolesAfter(change, available)
         /\ UNCHANGED <<pc, error>>
  BY DEF CompileChange, runner, change
<1>7. UNCHANGED <<obj, role, session_ctx, cfg, refs, remote, clean, mishaps>> /\ pc = "compiling"
  BY DEF CompileChange
<1>8. ASSUME NEW e \in Errors, Raise(e), UNCHANGED available
      PROVE  RunInv'
  BY <1>7, <1>8, EmptySeq DEF RunInv, Typed, Justified, Checked, Raise, Stages
<1>9. ASSUME runner # NoURN, change.op = "update" => change.delta # {},
             queue' = queue \o sql_commands_for_change(change, runner),
             plan' = Tail(plan), available' = RolesAfter(change, available),
             UNCHANGED <<pc, error>>
      PROVE  RunInv'
  <2>1. sql_commands_for_change(change, runner) \in Seq(Statements(cfg))
    BY <1>1, <1>2, <1>3, <1>4, <1>9, StatementsIn DEF Owner
  <2>2. queue' \in Seq(Statements(cfg))
    BY <1>1, <1>9, <2>1, ConcatProperties
  <2>3. \A i \in DOMAIN Tail(plan) : i + 1 \in DOMAIN plan /\ Tail(plan)[i] = plan[i + 1]
    BY <1>1, LenProperties, HeadTailProperties
  <2>4. Checked'
    BY <1>7, <1>9, <2>3 DEF RunInv, Checked
  <2>5. Justified'
    BY <1>2, <1>7, <1>9, <2>2 DEF RunInv, Justified
  <2>6. Typed'
    BY <1>5, <1>7, <1>9 DEF RunInv, Typed
  <2> QED
    BY <2>4, <2>5, <2>6 DEF RunInv
<1> QED
  BY <1>6, <1>8, <1>9 DEF Errors

\* What executing a statement does to the account, and to the invariant.
LEMMA ExecuteKeeps ==
  ASSUME RunInv, ExecuteStatement
  PROVE  /\ RunInv'
         /\ UNCHANGED <<cfg, mishaps>>
         /\ Effect(cfg, obj, obj')
         /\ cfg.dry_run => obj' = obj
<1>1. /\ cfg \in Configs /\ obj \in AccountStates /\ role \in Role
      /\ queue \in Seq(Statements(cfg)) /\ queue # <<>> /\ pc = "executing"
  BY DEF RunInv, Typed, Justified, ExecuteStatement
<1>2. Head(queue) \in Statements(cfg) /\ Tail(queue) \in Seq(Statements(cfg))
  BY <1>1, HeadTailProperties
<1>3. PICK result \in IF cfg.dry_run THEN {Ok(obj, role)} ELSE execute(Head(queue)) :
        /\ obj' = result.obj
        /\ role' = result.role
        /\ IF result.err = "none" \/ isSkipped(Head(queue), result.err)
             THEN queue' = Tail(queue) /\ UNCHANGED <<pc, error, plan>>
             ELSE Raise(result.err)
  BY DEF ExecuteStatement
<1>4. UNCHANGED <<session_ctx, cfg, refs, remote, available, clean, mishaps>>
  BY DEF ExecuteStatement
<1>5. /\ result.err \in Errors \cup {"ALREADY_EXISTS"}
      /\ result.role \in Role
      /\ Effect(cfg, obj, result.obj)
      /\ cfg.dry_run => result.obj = obj
  <2>1. CASE result = Ok(obj, role)
    BY <1>1, <2>1 DEF Ok, Errors, Effect
  <2>2. CASE ~ cfg.dry_run /\ result \in Outcomes(obj, role, Head(queue))
    BY <1>1, <1>2, <2>2, EffectOfStatement
  <2> QED
    BY <1>3, <2>1, <2>2 DEF execute
<1>6. obj' \in AccountStates
  BY <1>1, <1>3, <1>5, EffectAccount
<1>7. CASE queue' = Tail(queue) /\ UNCHANGED <<pc, error, plan>>
  BY <1>1, <1>2, <1>3, <1>4, <1>5, <1>6, <1>7 DEF RunInv, Typed, Justified, Checked
<1>8. CASE result.err \in Errors /\ Raise(result.err)
  BY <1>1, <1>3, <1>4, <1>5, <1>6, <1>8, EmptySeq
    DEF RunInv, Typed, Justified, Checked, Raise, Stages
<1>9. RunInv'
  BY <1>3, <1>5, <1>7, <1>8 DEF isSkipped
<1> QED
  BY <1>3, <1>4, <1>5, <1>9

LEMMA SkipKeeps == ASSUME RunInv, SkipInvalidGrant PROVE RunInv'
<1>1. mishaps' \in 0 .. MaxMishaps
  <2>1. MaxMishaps \in Nat
    BY BlueprintAssumption
  <2>2. /\ mishaps \in 0 .. MaxMishaps /\ mishaps < MaxMishaps
        /\ mishaps' = mishaps + 1
    BY DEF RunInv, Typed, SkipInvalidGrant
  <2> QED
    BY <2>1, <2>2
<1>2. Tail(queue) \in Seq(Statements(cfg))
  BY HeadTailProperties DEF RunInv, Justified, SkipInvalidGrant
<1> QED
  BY <1>1, <1>2 DEF RunInv, Typed, Justified, Checked, SkipInvalidGrant

LEMMA CrashKeeps == ASSUME RunInv, Crash PROVE RunInv'
<1>1. mishaps' \in 0 .. MaxMishaps /\ DefaultRole \in Role
  BY BlueprintAssumption DEF RunInv, Typed, Crash
<1>2. Typed'
  BY <1>1 DEF RunInv, Typed, Crash, NoSession, Owner, Stages, Graph
<1> QED
  BY <1>2, EmptySeq DEF RunInv, Justified, Checked, Crash, isRemote, NoState

LEMMA DriftKeeps == ASSUME RunInv, Drift PROVE RunInv'
<1>1. mishaps' \in 0 .. MaxMishaps
  BY BlueprintAssumption DEF RunInv, Typed, Drift
<1>2. obj' \in AccountStates
  BY DEF Drift
<1> QED
  BY <1>1, <1>2 DEF RunInv, Typed, Justified, Checked, Drift

LEMMA StageKeeps == ASSUME RunInv, StartExecuting \/ FinishRun PROVE RunInv'
<1>1. CASE StartExecuting
  BY <1>1 DEF RunInv, Typed, Justified, Checked, StartExecuting, Stages
<1>2. CASE FinishRun
  BY <1>2 DEF RunInv, Typed, Justified, Checked, FinishRun, Stages
<1> QED
  BY <1>1, <1>2

LEMMA StepKeeps == ASSUME RunInv, [Next]_vars PROVE RunInv'
<1>1. CASE UNCHANGED vars
  BY <1>1 DEF vars, RunInv, Typed, Justified, Checked
<1>2. CASE Next
  BY <1>2, StartRunKeeps, FetchKeeps, MakePlanKeeps, BeginApplyKeeps, CompileKeeps,
     StageKeeps, ExecuteKeeps, SkipKeeps, CrashKeeps, DriftKeeps DEF Next, ToolStep
<1> QED
  BY <1>1, <1>2

\* Whatever the blueprint and whatever happens to the account meanwhile, the
\* variables of a run keep their types.  For the account this says that no
\* statement of a plan removes a system role or leaves something without the
\* database or schema it lives in.
THEOREM BlueprintTypeOK == Spec => []TypeOK
<1>1. Spec => []RunInv
  BY InitRunInv, StepKeeps, PTL DEF Spec
<1> QED
  BY <1>1, RunInvTypeOK, PTL

-----------------------------------------------------------------------------
\* The order of the plan.

LEMMA PlansOrdered ==
  ASSUME RunInv, NEW p \in Plans(cfg, remote, refs), DiffError(cfg, remote) = "none",
         plan' = p, refs' = refs
  PROVE  PlanOrdered'
<1>1. cfg \in Configs /\ isRemote(cfg, remote) /\ refs \in Graph
  BY DEF RunInv, Typed, Justified
<1>2. /\ IsFiniteSet(Managed(cfg)) /\ IsFiniteSet(DOMAIN remote)
      /\ \A u \in Managed(cfg) : Additions(cfg, remote, u) \in Seq(Changes(cfg))
      /\ \A u \in Removals(cfg, remote) : Drop(remote, u) \in Changes(cfg)
  BY <1>1, ChangesIn
<1>3. IsFiniteSet(Referring(refs))
  <2>1. Referring(refs) \subseteq URN
    BY <1>1 DEF Graph, Referring
  <2> QED
    BY <2>1, FS_Subset, ResourcesAssumption
<1>4. p \in Seq(Changes(cfg)) /\ Sorted(p, Earlier(Changes(cfg), Reaches(refs)))
  BY <1>2, PlanIn, PlanSorted
<1>5. DOMAIN p = 1 .. Len(p)
  BY <1>4, LenProperties
<1>6. ASSUME NEW i \in DOMAIN p, NEW j \in DOMAIN p, i < j, p[j].op # "drop"
      PROVE  /\ p[i].op # "drop"
             /\ <<p[i].urn, p[j].urn>> \notin refs
             /\ p[i].urn = p[j].urn => p[i].op = "update" /\ p[j].op = "transfer"
  <2>1. <<p[i], p[j]>> \in Earlier(Changes(cfg), Reaches(refs))
    BY <1>4, <1>5, <1>6 DEF Sorted
  <2> QED
    BY <1>3, <1>6, <2>1, RefsReach DEF Earlier
<1> QED
  BY <1>6 DEF PlanOrdered

LEMMA StepKeepsOrder == ASSUME RunInv, PlanOrdered, [Next]_vars PROVE PlanOrdered'
<1>1. CASE plan' = <<>>
  BY <1>1 DEF PlanOrdered
<1>2. CASE UNCHANGED <<plan, refs>>
  BY <1>2 DEF PlanOrdered
<1>3. CASE MakePlan
  <2>1. CASE \E e : Raise(e)
    BY <1>1, <2>1 DEF Raise
  <2>2. CASE ~ \E e : Raise(e)
    <3>1. /\ DiffError(cfg, remote) = "none" /\ refs' = refs
          /\ \E p \in Plans(cfg, remote, refs) : plan' = p
      BY <1>3, <2>2 DEF MakePlan
    <3> QED
      BY <3>1, PlansOrdered
  <2> QED
    BY <2>1, <2>2
<1>4. CASE CompileChange
  <2>1. CASE plan' = Tail(plan) /\ refs' = refs
    <3>1. /\ plan \in Seq(Conforming(cfg)) /\ plan # <<>>
      BY <1>4 DEF RunInv, Justified, CompileChange
    <3>2. /\ DOMAIN plan = 1 .. Len(plan) /\ Len(plan) \in Nat
          /\ DOMAIN plan' = 1 .. (Len(plan) - 1)
          /\ \A i \in 1 .. (Len(plan) - 1) : plan'[i] = plan[i + 1]
      BY <2>1, <3>1, HeadTailProperties, LenProperties
    <3>3. ASSUME NEW i \in DOMAIN plan', NEW j \in DOMAIN plan', i < j
          PROVE  /\ i + 1 \in DOMAIN plan /\ j + 1 \in DOMAIN plan /\ i + 1 < j + 1
                 /\ plan'[i] = plan[i + 1] /\ plan'[j] = plan[j + 1]
      BY <3>2, <3>3
    <3> QED
      BY <2>1, <3>3 DEF PlanOrdered
  <2>2. CASE Raise("MissingPrivilege") \/ Raise("KeyError")
    BY <1>1, <2>2 DEF Raise
  <2> QED
    BY <1>4, <2>1, <2>2 DEF CompileChange
<1>5. CASE StartRun \/ StartRunOnSameSession \/ Crash
  BY <1>1, <1>5 DEF StartRun, StartRunOnSameSession, Begin, Crash
<1>6. CASE FetchRemoteState \/ BeginApply \/ ExecuteStatement
  BY <1>1, <1>2, <1>6 DEF FetchRemoteState, BeginApply, ExecuteStatement, Raise
<1>7. CASE StartExecuting \/ SkipInvalidGrant \/ FinishRun \/ Drift \/ UNCHANGED vars
  BY <1>2, <1>7 DEF StartExecuting, SkipInvalidGrant, FinishRun, Drift, vars
<1> QED
  BY <1>3, <1>4, <1>5, <1>6, <1>7 DEF Next, ToolStep

\* Whatever the blueprint and the account, what is left of a plan is in an order in
\* which it can run: drops last, nothing before what it references, an alteration
\* before the transfer of the same resource.
THEOREM PlansStayOrdered == Spec => []PlanOrdered
<1>1. Init => RunInv /\ PlanOrdered
  BY InitRunInv DEF Init, PlanOrdered
<1>2. RunInv /\ PlanOrdered /\ [Next]_vars => (RunInv /\ PlanOrdered)'
  BY StepKeeps, StepKeepsOrder
<1> QED
  BY <1>1, <1>2, PTL DEF Spec

-----------------------------------------------------------------------------
\* A run implements Reconcile.

LEMMA SameWords ==
  /\ \A c : Reconciler!Managed(c) = Managed(c)
  /\ \A c, u : Reconciler!Want(c, u) = Want(c, u)
  /\ Reconciler!Attr = Attr /\ Reconciler!Absent = Absent
  /\ Reconciler!Role = Role /\ Reconciler!SystemRole = SystemRole
  /\ \A u : Reconciler!PublicSchemas(u) = PublicSchemas(u)
  /\ \A u : Reconciler!Below(u) = Below(u)
  /\ \A o, r, u, d : Reconciler!Created(o, r, u, d) = Created(o, r, u, d)
  /\ \A o, r, u : Reconciler!Dropped(o, r, u) = Dropped(o, r, u)
<1>1. \A c : Reconciler!Managed(c) = Managed(c)
  BY DEF Reconciler!Managed, Managed
<1>2. \A c, u : Reconciler!Want(c, u) = Want(c, u)
  BY DEF Reconciler!Want, Want
<1>3. Reconciler!Attr = Attr /\ Reconciler!Absent = Absent
  BY DEF Reconciler!Attr, Attr, Reconciler!Absent, Absent
<1>4. \A t : Reconciler!ofType(t) = ofType(t)
  BY DEF Reconciler!ofType, ofType
<1>5. Reconciler!Role = Role /\ Reconciler!SystemRole = SystemRole
  BY <1>4 DEF Reconciler!Role, Role, Reconciler!SystemRole, SystemRole
<1>6. \A u : Reconciler!isPublicSchema(u) = isPublicSchema(u)
  BY DEF Reconciler!isPublicSchema, isPublicSchema
<1>7. \A u : Reconciler!PublicSchemas(u) = PublicSchemas(u)
  BY <1>6 DEF Reconciler!PublicSchemas, PublicSchemas
<1>8. \A u : Reconciler!Below(u) = Below(u)
  BY DEF Reconciler!Below, Below
<1>9. \A o, r, u, d : Reconciler!Created(o, r, u, d) = Created(o, r, u, d)
  BY <1>6 DEF Reconciler!Created, Created, Reconciler!Ownerless, Ownerless
<1>10. \A o, r, u : Reconciler!Dropped(o, r, u) = Dropped(o, r, u)
  BY <1>3, <1>4, <1>8 DEF Reconciler!Dropped, Dropped
<1> QED
  BY <1>1, <1>2, <1>3, <1>5, <1>7, <1>8, <1>9, <1>10

\* Nothing of the manifest is below what the manifest does not have.
LEMMA BelowUnmanaged ==
  ASSUME NEW c \in Configs, NEW u \in URN, u \notin DOMAIN c.manifest
  PROVE  Below(u) \cap DOMAIN c.manifest = {}
<1>1. u # NoURN
  BY Kinds
<1> QED
  BY <1>1, Blueprints DEF Below

LEMMA EffectReconciles ==
  ASSUME NEW c \in Configs, c = cfg, obj \in AccountStates, Effect(c, obj, obj'),
         ~ cfg.dry_run, UNCHANGED <<cfg, mishaps>>, obj' # obj
  PROVE  Reconciler!Next
<1>1. ASSUME NEW u \in URN, Creation(c, obj, obj', u)
      PROVE  Reconciler!CreateResource(u)
  BY <1>1, SameWords DEF Creation, mayCreate, Reconciler!CreateResource
<1>2. ASSUME NEW u \in URN, Alteration(c, obj, obj', u)
      PROVE  \E a \in Attr : Reconciler!AlterField(u, a)
  <2>1. PICK a \in PlainAttr : obj' = [obj EXCEPT ![u].attrs[a] = Want(c, u).attrs[a]]
    BY <1>2 DEF Alteration
  <2>2. a \in Attr /\ AttrKind[a] = "plain"
    BY DEF PlainAttr
  <2>3. Reconciler!AlterField(u, a)
    BY <1>2, <2>1, <2>2, SameWords DEF Alteration, Reconciler!AlterField
  <2> QED
    BY <2>2, <2>3
<1>3. ASSUME NEW u \in URN, Handover(c, obj, obj', u)
      PROVE  Reconciler!TransferOwnership(u)
  <2>1. PICK v \in {u} \cup PublicSchemas(u) :
          obj[v] # Absent /\ obj' = [obj EXCEPT ![v].owner = Want(c, u).owner]
    BY <1>3 DEF Handover
  <2>2. obj[u] # Absent
    BY <2>1, Kinds DEF AccountStates, PublicSchemas
  <2> QED
    BY <1>3, <2>1, <2>2, SameWords DEF Handover, Reconciler!TransferOwnership
<1>4. ASSUME NEW u \in URN, Removal(c, obj, obj', u)
      PROVE  Reconciler!DropResource(u)
  <2>1. Below(u) \cap DOMAIN c.manifest = {}
    BY <1>4, BelowUnmanaged DEF Removal, mayDrop, isStray
  <2> QED
    BY <1>4, <2>1, SameWords DEF Removal, mayDrop, isStray, isListed, Reconciler!DropResource
<1>5. Reconciler!ToolStep
  BY <1>1, <1>2, <1>3, <1>4, SameWords DEF Effect, Reconciler!ToolStep
<1> QED
  BY <1>5 DEF Reconciler!Next

LEMMA InitReconciles == ASSUME Init PROVE Reconciler!Init
BY DEF Init, Reconciler!Init

LEMMA ExecuteReconciles ==
  ASSUME RunInv, ExecuteStatement
  PROVE  [Reconciler!Next]_<<obj, cfg, mishaps>>
<1>1. cfg \in Configs /\ obj \in AccountStates
  BY DEF RunInv, Typed
<1> QED
  BY <1>1, ExecuteKeeps, EffectReconciles

LEMMA MishapReconciles ==
  ASSUME SkipInvalidGrant \/ Crash \/ Drift
  PROVE  Reconciler!Next
BY DEF SkipInvalidGrant, Crash, Drift, Reconciler!Next, Reconciler!Mishap

LEMMA StepReconciles ==
  ASSUME RunInv, [Next]_vars
  PROVE  [Reconciler!Next]_<<obj, cfg, mishaps>>
<1>1. CASE UNCHANGED vars
  BY <1>1 DEF vars
<1>2. CASE StartRun \/ StartRunOnSameSession
  BY <1>2 DEF StartRun, StartRunOnSameSession, Begin
<1>3. CASE FetchRemoteState \/ MakePlan \/ BeginApply \/ CompileChange
  BY <1>3 DEF FetchRemoteState, MakePlan, BeginApply, CompileChange
<1>4. CASE StartExecuting \/ FinishRun
  BY <1>4 DEF StartExecuting, FinishRun
<1>5. CASE ExecuteStatement
  BY <1>5, ExecuteReconciles
<1>6. CASE SkipInvalidGrant \/ Crash \/ Drift
  BY <1>6, MishapReconciles
<1> QED
  BY <1>1, <1>2, <1>3, <1>4, <1>5, <1>6 DEF Next, ToolStep

\* A run of any blueprint does to any account only what Reconcile allows: it
\* creates what is asked for and missing, repairs fields and owners of what is
\* asked for, and drops, in sync mode, what is listed and unknown to the
\* manifest, whatever it planned from a state that others have changed since,
\* and wherever it is killed.
THEOREM BlueprintImplementsReconcile == Spec => ImplementsReconcile
<1>1. Spec => []RunInv
  BY InitRunInv, StepKeeps, PTL DEF Spec
<1> QED
  BY <1>1, InitReconciles, StepReconciles, PTL DEF Spec, ImplementsReconcile, Reconciler!Spec

-----------------------------------------------------------------------------
\* Plans that outlive their run.

SavedInv ==
  /\ RunInv
  /\ kept \in Seq(Conforming(cfg)) \cup {NoPlan}
  /\ file \in Seq(Conforming(cfg)) \cup {NoPlan}
  /\ source = "kept" => kept \in Seq(Conforming(cfg))

LEMMA ConsumedIn ==
  ASSUME NEW c \in Configs, NEW p \in Seq(Conforming(c)), NEW i
  PROVE  Consumed(p, i) \in Seq(Conforming(c))
<1>1. CASE i \notin DOMAIN p \/ p[i].op # "update" \/ p[i].delta = {}
  <2>1. Consumed(p, i) = p
    BY <1>1, LenProperties DEF Consumed
  <2> QED
    BY <2>1
<1>2. CASE i \in DOMAIN p /\ p[i].op = "update" /\ p[i].delta # {}
  <2>1. p \in [1 .. Len(p) -> Conforming(c)] /\ Len(p) \in Nat /\ DOMAIN p = 1 .. Len(p)
    BY LenProperties
  <2>2. p[i] \in Updates(c) /\ conforms(c, p[i])
    BY <1>2, <2>1 DEF Conforming, Changes, Creates, Updates, Transfers, Drops
  <2> DEFINE x == [p[i] EXCEPT !.delta = @ \ {AlterLast(p[i]).attr}]
  <2>3. x \in Conforming(c)
    <3>1. x \in Updates(c) /\ x.op = p[i].op /\ x.urn = p[i].urn
      BY <2>2 DEF Updates
    <3>2. conforms(c, x)
      BY <2>2, <3>1 DEF conforms
    <3> QED
      BY <3>1, <3>2 DEF Conforming, Changes
  <2>4. Consumed(p, i) = [p EXCEPT ![i] = x]
    BY <1>2 DEF Consumed
  <2> HIDE DEF x
  <2>5. [p EXCEPT ![i] = x] \in [1 .. Len(p) -> Conforming(c)]
    BY <2>1, <2>3
  <2> QED
    BY <2>1, <2>4, <2>5, SeqDef
<1> QED
  BY <1>1, <1>2

LEMMA EndWithPlanKeeps ==
  ASSUME SavedInv, ReturnPlan \/ WritePlan
  PROVE  SavedInv'
<1>1. /\ EndWithPlan
      /\ \/ kept' = plan /\ UNCHANGED file
         \/ file' = plan /\ UNCHANGED kept
  BY DEF ReturnPlan, WritePlan
<1>2. RunInv'
  BY <1>1, EmptySeq
    DEF SavedInv, RunInv, Typed, Justified, Checked, EndWithPlan, Stages
<1>3. source' = "own" /\ UNCHANGED cfg /\ plan \in Seq(Conforming(cfg))
  BY <1>1 DEF EndWithPlan, SavedInv, RunInv, Justified
<1> QED
  BY <1>1, <1>2, <1>3 DEF SavedInv

LEMMA GivePlanKeeps ==
  ASSUME SavedInv, NEW p \in Seq(Conforming(cfg)), NEW ctx, NEW active \in Role, NEW from,
         ctx.role \in Owner, ctx.available_roles \subseteq Role,
         GivePlan(p, ctx, active, from), from = "kept" => kept \in Seq(Conforming(cfg))
  PROVE  SavedInv'
<1>1. Typed'
  BY DEF SavedInv, RunInv, Typed, GivePlan, Stages, Errors, Graph
<1>2. Justified'
  BY EmptySeq DEF Justified, GivePlan, isRemote, NoState
<1>3. Checked'
  BY DEF Checked, GivePlan
<1> QED
  BY <1>1, <1>2, <1>3 DEF SavedInv, RunInv, GivePlan

LEMMA ApplySavedKeeps ==
  ASSUME SavedInv, ApplyKept \/ ApplyFile
  PROVE  SavedInv'
<1>1. CASE ApplyKept
  <2>1. GivePlan(kept, session_ctx, role, "kept") /\ kept # NoPlan
    BY <1>1 DEF ApplyKept, GivePlan
  <2>2. kept \in Seq(Conforming(cfg))
    BY <2>1 DEF SavedInv
  <2> QED
    BY <2>1, <2>2, GivePlanKeeps DEF SavedInv, RunInv, Typed
<1>2. CASE ApplyFile
  <2> DEFINE ctx == [role |-> DefaultRole, available_roles |-> AvailableRoles(obj)]
  <2>1. GivePlan(file, ctx, DefaultRole, "file") /\ file \in Seq(Conforming(cfg))
    BY <1>2 DEF ApplyFile, SavedInv
  <2>2. DefaultRole \in Role /\ ctx.role \in Owner /\ ctx.available_roles \subseteq Role
    BY BlueprintAssumption DEF Owner, AvailableRoles, Inherited
  <2> HIDE DEF ctx
  <2> QED
    BY <2>1, <2>2, GivePlanKeeps
<1> QED
  BY <1>1, <1>2

LEMMA FailToLoadKeeps == ASSUME SavedInv, FailToLoad PROVE SavedInv'
<1>1. RunInv'
  BY EmptySeq
    DEF SavedInv, RunInv, Typed, Justified, Checked, FailToLoad, Raise, Stages, Errors
<1> QED
  BY <1>1 DEF SavedInv, FailToLoad

LEMMA CompileSavedKeeps == ASSUME SavedInv, CompileSaved PROVE SavedInv'
<1>1. RunInv' /\ UNCHANGED cfg
  BY CompileKeeps DEF SavedInv, CompileSaved, CompileChange
<1>2. kept' = kept \/ (source = "kept" /\ \E i : kept' = Consumed(kept, i))
  BY DEF CompileSaved
<1>3. /\ kept' \in Seq(Conforming(cfg)) \cup {NoPlan}
      /\ source = "kept" => kept' \in Seq(Conforming(cfg))
  <2>1. source = "kept" => kept \in Seq(Conforming(cfg))
    BY DEF SavedInv
  <2>2. cfg \in Configs
    BY DEF SavedInv, RunInv, Typed
  <2> QED
    BY <1>2, <2>1, <2>2, ConsumedIn DEF SavedInv
<1> QED
  BY <1>1, <1>3 DEF SavedInv, CompileSaved

LEMMA InitSavedInv == ASSUME SavedInit PROVE SavedInv
BY InitRunInv DEF SavedInit, SavedInv

\* A step of SavedSpec that is a step of a run, or leaves the account alone.
LEMMA SavedStep ==
  ASSUME [SavedNext]_<<vars, saved>>
  PROVE  \/ [Next]_vars
         \/ UNCHANGED <<obj, cfg, mishaps>>
<1>1. CASE UNCHANGED <<vars, saved>>
  BY <1>1
<1>2. CASE ReturnPlan \/ WritePlan
  BY <1>2 DEF ReturnPlan, WritePlan, EndWithPlan
<1>3. CASE ApplyKept \/ ApplyFile \/ FailToLoad
  BY <1>3 DEF ApplyKept, ApplyFile, GivePlan, FailToLoad
<1>4. CASE CompileSaved
  BY <1>4 DEF CompileSaved, Next, ToolStep
<1> QED
  BY <1>1, <1>2, <1>3, <1>4 DEF SavedNext, Next, ToolStep

LEMMA SavedStepKeeps == ASSUME SavedInv, [SavedNext]_<<vars, saved>> PROVE SavedInv'
<1>1. CASE UNCHANGED <<vars, saved>>
  <2>1. RunInv'
    BY <1>1, StepKeeps DEF SavedInv
  <2> QED
    BY <1>1, <2>1 DEF SavedInv, saved, vars
<1>2. CASE (StartRun \/ StartRunOnSameSession) /\ source' = "own" /\ UNCHANGED <<kept, file>>
  <2>1. RunInv' /\ UNCHANGED cfg
    BY <1>2, StartRunKeeps DEF SavedInv, StartRun, StartRunOnSameSession, Begin
  <2> QED
    BY <1>2, <2>1 DEF SavedInv
<1>3. CASE Crash /\ kept' = NoPlan /\ source' = "own" /\ UNCHANGED file
  <2>1. RunInv' /\ UNCHANGED cfg
    BY <1>3, CrashKeeps DEF SavedInv, Crash
  <2> QED
    BY <1>3, <2>1 DEF SavedInv
<1>4. CASE /\ \/ FetchRemoteState \/ MakePlan \/ BeginApply \/ StartExecuting
              \/ ExecuteStatement \/ SkipInvalidGrant \/ FinishRun \/ Drift
           /\ UNCHANGED saved
  <2>1. RunInv'
    BY <1>4, StepKeeps DEF SavedInv, Next, ToolStep
  <2>2. UNCHANGED cfg
    BY <1>4 DEF FetchRemoteState, MakePlan, BeginApply, StartExecuting, ExecuteStatement,
                SkipInvalidGrant, FinishRun, Drift
  <2> QED
    BY <1>4, <2>1, <2>2 DEF SavedInv, saved
<1> QED
  BY <1>1, <1>2, <1>3, <1>4, EndWithPlanKeeps, ApplySavedKeeps, FailToLoadKeeps,
     CompileSavedKeeps DEF SavedNext

LEMMA SavedStepReconciles ==
  ASSUME SavedInv, [SavedNext]_<<vars, saved>>
  PROVE  [Reconciler!Next]_<<obj, cfg, mishaps>>
BY SavedStep, StepReconciles DEF SavedInv

\* The same holds of a plan that is kept and applied again, or written to a file
\* and applied when the account is another: Reconcile knows nothing of plans.
THEOREM SavedPlansImplementReconcile == SavedSpec => ImplementsReconcile
<1>1. SavedSpec => []SavedInv
  BY InitSavedInv, SavedStepKeeps, PTL DEF SavedSpec
<1>2. SavedInit => Reconciler!Init
  BY InitReconciles DEF SavedInit
<1> QED
  BY <1>1, <1>2, SavedStepReconciles, PTL DEF SavedSpec, ImplementsReconcile, Reconciler!Spec

-----------------------------------------------------------------------------
\* Where a scoped run drops.

\* What goes with a stray w, which a plan may drop, is within the reach of the scope.
LEMMA DroppedInReach ==
  ASSUME cfg \in Configs, obj \in AccountStates,
         NEW w \in URN, mayDrop(cfg, w), NEW r \in Role,
         NEW u \in URN, obj[u] # Absent, Dropped(obj, r, w)[u] = Absent
  PROVE  isReached(u)
<1> USE DEF ofType
<1>1. \/ u \in Below(w)
      \/ Type[w] \in {"ROLE", "USER"}
  <2>1. ASSUME u \notin Below(w), Type[w] \notin {"ROLE", "USER"}
        PROVE  FALSE
    <3>1. Dropped(obj, r, w)[u] = IF obj[u] # Absent /\ obj[u].owner = w
                                    THEN [obj[u] EXCEPT !.owner = r] ELSE obj[u]
      BY <2>1 DEF Dropped
    <3>2. obj[u] \in Data /\ [obj[u] EXCEPT !.owner = r] \in Data
      BY DEF AccountStates, Data
    <3> QED
      BY <3>1, <3>2, Kinds
  <2> QED
    BY <2>1
<1>2. w # NoURN /\ w \notin DOMAIN cfg.manifest
  BY Kinds DEF mayDrop, isStray
<1>3. CASE cfg.scope = "DATABASE" /\ cfg.database = NoURN
  <2>1. FqnDatabase(w) = NoURN
    BY <1>3 DEF mayDrop, isStray, isListed
  <2>2. Type[w] = "DATABASE"
    <3>1. Type[w] \in {"DATABASE"} \cup DatabaseScoped \cup SchemaScoped
      BY <1>3 DEF mayDrop, _resource_scope_is_outside_blueprint_scope
    <3>2. Type[w] \notin DatabaseScoped \cup SchemaScoped
      BY <2>1, Homes, Kinds DEF FqnDatabase, DatabaseScoped, SchemaScoped
    <3> QED
      BY <3>1, <3>2
  <2>3. u \in Below(w)
    BY <1>1, <2>2
  <2> QED
    BY <1>2, <1>3, <2>2, <2>3 DEF isReached, isBelowUndeclared
<1>4. CASE cfg.scope = "DATABASE" /\ cfg.database # NoURN
  <2>1. FqnDatabase(w) = cfg.database
    BY <1>4 DEF mayDrop, isStray, isListed
  <2>2. \/ Type[w] \in DatabaseScoped /\ Container[w] = cfg.database
        \/ /\ Type[w] \in SchemaScoped /\ Container[w] # NoURN
           /\ Container[Container[w]] = cfg.database
    BY <1>4, <2>1, Homes, Kinds DEF FqnDatabase
  <2>3. u \in Below(w)
    BY <1>1, <2>2 DEF DatabaseScoped, SchemaScoped
  <2>4. Container[w] # NoURN /\ cfg.database \in URN /\ Container[cfg.database] = NoURN
    BY <1>4, <2>2, Homes, Kinds
  <2>5. u # cfg.database
    BY <1>2, <2>3, <2>4, Kinds DEF Below
  <2> SUFFICES u \in Below(cfg.database)
    BY <1>4, <2>5 DEF isReached
  <2>6. CASE u = w
    BY <2>2, <2>4, <2>6 DEF Below
  <2>7. CASE Container[u] = w
    <3>1. Container[u] # NoURN /\ Container[Container[u]] # NoURN
      BY <1>2, <2>4, <2>7
    <3>2. Container[Container[w]] = NoURN
      BY <2>7, <3>1, Homes
    <3>3. Container[w] = cfg.database
      BY <1>4, <2>2, <3>2
    <3> QED
      BY <1>2, <2>7, <3>3 DEF Below
  <2>8. CASE Container[u] # NoURN /\ Container[Container[u]] = w
    <3>1. Container[w] = NoURN
      BY <1>2, <2>8, Homes
    <3> QED
      BY <2>4, <3>1
  <2> QED
    BY <2>3, <2>6, <2>7, <2>8 DEF Below
<1>5. CASE cfg.scope = "SCHEMA" /\ cfg.schema = "NONE"
  <2>1. FqnSchema(w) = "NONE"
    BY <1>5 DEF mayDrop, isStray, isListed
  <2>2. Type[w] = "SCHEMA"
    <3>1. Type[w] \in {"SCHEMA"} \cup SchemaScoped
      BY <1>5 DEF mayDrop, _resource_scope_is_outside_blueprint_scope
    <3>2. Type[w] \notin SchemaScoped
      BY <2>1, Homes, ResourcesAssumption DEF FqnSchema
    <3> QED
      BY <3>1, <3>2
  <2>3. u \in Below(w)
    BY <1>1, <2>2
  <2> QED
    BY <1>2, <1>5, <2>2, <2>3 DEF isReached, isBelowUndeclared
<1>6. CASE cfg.scope = "SCHEMA" /\ cfg.schema # "NONE"
  <2>1. FqnSchema(w) = cfg.schema
    BY <1>6 DEF mayDrop, isStray, isListed
  <2>2. Type[w] \in SchemaScoped /\ SchemaName[Container[w]] = cfg.schema
    BY <1>6, <2>1 DEF FqnSchema
  <2>3. u \in Below(w)
    BY <1>1, <2>2 DEF SchemaScoped
  <2>4. u = w
    BY <1>2, <2>2, <2>3, Homes DEF Below, SchemaScoped
  <2> QED
    BY <1>6, <2>2, <2>4 DEF isReached
<1> QED
  BY <1>3, <1>4, <1>5, <1>6 DEF isReached

LEMMA StepDropsInReach ==
  ASSUME RunInv, [Next]_vars, mishaps' = mishaps,
         NEW u \in URN, obj[u] # Absent, obj'[u] = Absent
  PROVE  isReached(u)
<1>1. obj' # obj
  OBVIOUS
<1>2. mishaps \in Nat /\ cfg \in Configs /\ obj \in AccountStates
  BY DEF RunInv, Typed
<1>3. ExecuteStatement
  <2>1. ~ (StartRun \/ StartRunOnSameSession \/ UNCHANGED vars)
    BY <1>1 DEF StartRun, StartRunOnSameSession, Begin, vars
  <2>2. ~ (FetchRemoteState \/ MakePlan \/ BeginApply \/ CompileChange)
    BY <1>1 DEF FetchRemoteState, MakePlan, BeginApply, CompileChange
  <2>3. ~ (StartExecuting \/ FinishRun)
    BY <1>1 DEF StartExecuting, FinishRun
  <2>4. ~ (SkipInvalidGrant \/ Crash \/ Drift)
    <3>1. SkipInvalidGrant \/ Crash \/ Drift => mishaps' = mishaps + 1
      BY DEF SkipInvalidGrant, Crash, Drift
    <3> QED
      BY <1>2, <3>1
  <2> QED
    BY <2>1, <2>2, <2>3, <2>4 DEF Next, ToolStep
<1>4. PICK w \in URN : \/ Creation(cfg, obj, obj', w)
                       \/ Alteration(cfg, obj, obj', w)
                       \/ Handover(cfg, obj, obj', w)
                       \/ Removal(cfg, obj, obj', w)
  BY <1>1, <1>3, ExecuteKeeps DEF Effect
<1>5. obj[u] \in Data
  BY <1>2 DEF AccountStates
<1>6. CASE Creation(cfg, obj, obj', w)
  <2>1. PICK r \in Role : obj' = Created(obj, r, w, Want(cfg, w))
    BY <1>6 DEF Creation
  <2>2. Want(cfg, w) \in Data
    BY <1>2, <1>6, Blueprints DEF Creation
  <2>3. obj'[u] \in Data
    BY <1>5, <2>1, <2>2 DEF Created, Data
  <2> QED
    BY <2>3, Kinds
<1>7. CASE Alteration(cfg, obj, obj', w)
  <2>1. PICK a \in PlainAttr : obj' = [obj EXCEPT ![w].attrs[a] = Want(cfg, w).attrs[a]]
    BY <1>7 DEF Alteration
  <2>2. Want(cfg, w).attrs \in [Attr -> Val] /\ a \in Attr
    BY <1>2, <1>7, Blueprints DEF Alteration, PlainAttr
  <2>3. obj'[u] = IF u = w THEN [obj[u] EXCEPT !.attrs[a] = Want(cfg, w).attrs[a]]
                  ELSE obj[u]
    BY <1>2, <2>1 DEF AccountStates
  <2>4. obj'[u] \in Data
    BY <1>5, <2>2, <2>3 DEF Data
  <2> QED
    BY <2>4, Kinds
<1>8. CASE Handover(cfg, obj, obj', w)
  <2>1. PICK v \in {w} \cup PublicSchemas(w) :
          obj' = [obj EXCEPT ![v].owner = Want(cfg, w).owner]
    BY <1>8 DEF Handover
  <2>2. obj'[u] = IF u = v THEN [obj[u] EXCEPT !.owner = Want(cfg, w).owner] ELSE obj[u]
    BY <1>2, <2>1 DEF AccountStates
  <2>3. obj'[u] \in Data
    BY <1>5, <1>8, <2>2 DEF Data, Handover
  <2> QED
    BY <2>3, Kinds
<1>9. CASE Removal(cfg, obj, obj', w)
  BY <1>2, <1>9, DroppedInReach DEF Removal
<1> QED
  BY <1>4, <1>6, <1>7, <1>8, <1>9

\* Whatever the account and whatever happens to it meanwhile, what a run drops, and
\* all that goes with it, is within the reach of its scope.
THEOREM DropsStayWithinReach == Spec => DropsWithinReach
<1>1. Spec => []RunInv
  BY InitRunInv, StepKeeps, PTL DEF Spec
<1> DEFINE inReach == mishaps' = mishaps =>
                        \A u \in URN : obj[u] # Absent /\ obj'[u] = Absent => isReached(u)
<1>2. RunInv /\ [Next]_vars => [inReach]_vars
  BY StepDropsInReach
<1> QED
  BY <1>1, <1>2, PTL DEF Spec, DropsWithinReach

\* The same holds when the plan is kept and applied again, or read from a file.
THEOREM SavedPlansDropWithinReach == SavedSpec => DropsWithinReach
<1>1. SavedSpec => []SavedInv
  BY InitSavedInv, SavedStepKeeps, PTL DEF SavedSpec
<1> DEFINE inReach == mishaps' = mishaps =>
                        \A u \in URN : obj[u] # Absent /\ obj'[u] = Absent => isReached(u)
<1>2. SavedInv /\ [SavedNext]_<<vars, saved>> => [inReach]_vars
  <2>1. CASE [Next]_vars
    BY <2>1, StepDropsInReach DEF SavedInv
  <2>2. CASE UNCHANGED obj
    BY <2>2
  <2> QED
    BY <2>1, <2>2, SavedStep
<1> QED
  BY <1>1, <1>2, PTL DEF SavedSpec, DropsWithinReach
=============================================================================
