------------------------------- MODULE Planner -------------------------------
(***************************************************************************)
(* The pure part of blueprint.py: what a manifest references, what is      *)
(* fetched, the diff of the two, the order of the plan, the conformity     *)
(* check and the SQL statements of a change.                               *)
(*                                                                         *)
(* cfg is a blueprint: a record with the manifest (URN -> item, an item    *)
(* being a resource or a pointer) and the fields of BlueprintConfig.  Its  *)
(* field role_objects tells whether role grants were given Role objects    *)
(* (Python) or names (YAML) for their grantee.                             *)
(***************************************************************************)
EXTENDS Resources, SequencesExt

Managed(cfg) == {u \in DOMAIN cfg.manifest : cfg.manifest[u].kind = "resource"}
Want(cfg, u) == cfg.manifest[u].data

\* BlueprintConfig.__post_init__.  It sees the resources that are given, not the
\* implicit ones that come with them.
accepted(cfg) ==
  /\ cfg.run_mode = "SYNC" => cfg.allowlist # {}
  /\ cfg.allowlist # {} => \A u \in Managed(cfg) :
       cfg.manifest[u].implicit \/ Type[u] \in cfg.allowlist
  /\ cfg.scope = "DATABASE" => cfg.schema = "NONE"
  /\ cfg.scope = "ACCOUNT" => cfg.database = NoURN /\ cfg.schema = "NONE"

-----------------------------------------------------------------------------
\* The references of the manifest.
ContainerRefs(cfg) ==
  {<<u, Container[u]>> : u \in {v \in DOMAIN cfg.manifest : Container[v] # NoURN}}

RoleGrants(cfg) == {g \in Managed(cfg) : Type[g] = "ROLE_GRANT"}

RoleGrantRefs(cfg) ==
  {<<g, GrantedRole[g]>> : g \in RoleGrants(cfg)}
    \cup {<<g, Grantee[g]>> : g \in RoleGrants(cfg)}

_create_grandparent_refs(cfg) ==
  {<<u, Container[Container[u]]>> :
     u \in {v \in DOMAIN cfg.manifest : Type[v] \in SchemaScoped}}

\* Mutant: a resource does not wait for the grants that make its owner usable.
_create_ownership_refs_NoGrants(cfg, available_roles) ==
  {<<u, Want(cfg, u).owner>> : u \in {v \in Managed(cfg) : Want(cfg, v).owner # NoURN}}

_create_ownership_refs(cfg, available_roles) ==
  LET owned == {u \in Managed(cfg) : Want(cfg, u).owner # NoURN}
      provides(g, u) == /\ GrantedRole[g] = Want(cfg, u).owner
                        /\ Grantee[g] # SessionUser
  IN  {<<u, Want(cfg, u).owner>> : u \in owned}
        \cup {e \in owned \X RoleGrants(cfg) :
                Want(cfg, e[1]).owner \notin available_roles /\ provides(e[2], e[1])}
        \cup {e \in RoleGrants(cfg) \X RoleGrants(cfg) :
                cfg.role_objects /\ Grantee[e[1]] = GrantedRole[e[2]]}

Refs(cfg, available_roles) ==
  ContainerRefs(cfg) \cup RoleGrantRefs(cfg) \cup _create_grandparent_refs(cfg)
    \cup _create_ownership_refs(cfg, available_roles)

-----------------------------------------------------------------------------
\* fetch_remote_state.  The database and schema of a listed name are those of
\* its FQN: a schema's FQN has a database and no schema, an account-scoped
\* one's has neither, and the schema is compared by its name alone.
FqnDatabase(u) ==
  CASE Type[u] \in DatabaseScoped -> Container[u]
    [] Type[u] \in SchemaScoped   -> Container[Container[u]]
    [] OTHER                      -> NoURN

FqnSchema(u) ==
  IF Type[u] \in SchemaScoped THEN SchemaName[Container[u]] ELSE "NONE"

\* Mutant: what is listed is not compared with the scope.
list_resource_Unscoped(cfg, obj) ==
  {u \in URN \ SystemRole : obj[u] # Absent /\ Type[u] \in cfg.allowlist}

list_resource(cfg, obj) ==
  {u \in URN \ SystemRole : /\ obj[u] # Absent
                            /\ Type[u] \in cfg.allowlist
                            /\ cfg.scope = "DATABASE" => FqnDatabase(u) = cfg.database
                            /\ cfg.scope = "SCHEMA" => FqnSchema(u) = cfg.schema}

\* Mutant: what is not found is recorded as fetched all the same.
Fetched_NotFound(cfg, obj) == DOMAIN cfg.manifest

Fetched(cfg, obj) ==
  {u \in DOMAIN cfg.manifest : obj[u] # Absent}
    \cup (IF cfg.run_mode = "SYNC" THEN list_resource(cfg, obj) ELSE {})

MissingRefs(cfg, obj, refs) ==
  {r \in refs : /\ r[2] \notin DOMAIN cfg.manifest
                /\ obj[r[2]] = Absent
                /\ ~ isPublicSchema(r[2])}

-----------------------------------------------------------------------------
\* diff
Delta(have, want) == {a \in Attr : have.attrs[a] # want.attrs[a]}

\* The loop over the delta stops at the first field that replaces or creates.
Trigger(delta) ==
  LET triggers == {a \in delta : AttrKind[a] \in {"create", "replace"}}
  IN  IF triggers = {} THEN "none"
      ELSE AttrKind[CHOOSE a \in triggers : \A b \in triggers : a <= b]

PlainDelta(delta) == {a \in delta : AttrKind[a] = "plain"}

_container_descriptor(cfg, remote, u) ==
  CASE Container[u] = NoURN         -> NoURN
    [] Container[u] \in DOMAIN remote -> remote[Container[u]].owner
    [] OTHER                        -> Want(cfg, Container[u]).owner

Create(cfg, remote, u) ==
  [op |-> "create", urn |-> u, after |-> Want(cfg, u),
   container_owner |-> _container_descriptor(cfg, remote, u)]

Update(cfg, remote, u) ==
  [op |-> "update", urn |-> u, after |-> Want(cfg, u), owner |-> remote[u].owner,
   delta |-> PlainDelta(Delta(remote[u], Want(cfg, u)))]

Transfer(cfg, remote, u) ==
  [op |-> "transfer", urn |-> u, from_owner |-> remote[u].owner,
   to_owner |-> Want(cfg, u).owner]

Drop(remote, u) == [op |-> "drop", urn |-> u, before |-> remote[u]]

\* Mutant: the owner is compared only if a field differs too.
Additions_NoTransfer(cfg, remote, u) ==
  IF u \notin DOMAIN remote
    THEN IF cfg.manifest[u].implicit THEN <<>> ELSE <<Create(cfg, remote, u)>>
  ELSE IF PlainDelta(Delta(remote[u], Want(cfg, u))) = {} THEN <<>>
  ELSE <<Update(cfg, remote, u), Transfer(cfg, remote, u)>>

\* Mutant: a transfer before an update.
Additions_TransferFirst(cfg, remote, u) ==
  IF u \notin DOMAIN remote
    THEN IF cfg.manifest[u].implicit THEN <<>> ELSE <<Create(cfg, remote, u)>>
  ELSE (IF remote[u].owner = Want(cfg, u).owner THEN <<>>
        ELSE <<Transfer(cfg, remote, u)>>)
       \o (IF PlainDelta(Delta(remote[u], Want(cfg, u))) = {} THEN <<>>
           ELSE <<Update(cfg, remote, u)>>)

\* The additive changes diff yields for u, an update before a transfer.
Additions(cfg, remote, u) ==
  LET delta == Delta(remote[u], Want(cfg, u)) IN
  IF u \notin DOMAIN remote
    THEN IF cfg.manifest[u].implicit THEN <<>> ELSE <<Create(cfg, remote, u)>>
  ELSE IF Trigger(delta) = "create"
    THEN <<Create(cfg, remote, u)>>
  ELSE (IF PlainDelta(delta) = {} THEN <<>> ELSE <<Update(cfg, remote, u)>>)
       \o (IF Want(cfg, u).owner \in {NoURN, remote[u].owner} THEN <<>>
           ELSE <<Transfer(cfg, remote, u)>>)

Removals(cfg, remote) == DOMAIN remote \ DOMAIN cfg.manifest

\* diff raises for a pointer to nothing and for a change that replaces.
DiffError(cfg, remote) ==
  IF \E u \in DOMAIN cfg.manifest \ Managed(cfg) : u \notin DOMAIN remote
    THEN "MissingResource"
  ELSE IF \E u \in Managed(cfg) \cap DOMAIN remote :
            Trigger(Delta(remote[u], Want(cfg, u))) = "replace"
    THEN "NotImplemented"
  ELSE "none"

-----------------------------------------------------------------------------
\* The sort.  topological_sort numbers every URN; what the plan sees of the
\* numbering is the order of the URNs that change, and those orders are the
\* linear extensions of reachability (with the URNs that do not change in it).
\* A set of one element stands for a LET that TLC evaluates once.
Referring(refs) == {e[1] : e \in refs}

Referenced(refs, U) == {e[2] : e \in {f \in refs : f[1] \in U}}

Needed(refs, u) ==
  LET within[n \in 1 .. Cardinality(Referring(refs))] ==
        IF n = 1 THEN Referenced(refs, {u})
        ELSE UNION {w \cup Referenced(refs, w) : w \in {within[n - 1]}}
  IN  within[Cardinality(Referring(refs))]

Reaches(refs) == UNION {{<<u, v>> : v \in Needed(refs, u)} : u \in Referring(refs)}

isCyclic(refs) == \E u \in Referring(refs) : u \in Needed(refs, u)

SortOrders(S, reaches) ==
  LET next(order) == {u \in S \ ToSet(order) :
                        \A v \in S : <<u, v>> \in reaches => v \in ToSet(order)}
      orders[n \in 0 .. Cardinality(S)] ==
        IF n = 0 THEN {<<>>}
        ELSE UNION {{Append(order, u) : u \in next(order)} : order \in orders[n - 1]}
  IN  orders[Cardinality(S)]

\* The members of s that are in T, in the order of s.
Only(s, T) ==
  LET only[n \in 0 .. Len(s)] ==
        IF n = 0 THEN <<>>
        ELSE IF s[n] \in T THEN Append(only[n - 1], s[n]) ELSE only[n - 1]
  IN  only[Len(s)]

\* The sort key of _sort_destructive_changes but for the sort order.  The
\* tests on urn.database and urn.schema compare bound methods with None and
\* never tell two changes apart.
destructive_rank(u) ==
  CASE Type[u] = "NETWORK_POLICY" -> 0
    [] Type[u] = "ROLE"           -> 2
    [] Type[u] = "ROLE_GRANT"     -> 3
    [] OTHER                      -> 1

_sort_destructive_changes(changes) ==
  LET ranked(k) == Only(Reverse(changes),
                        {c \in ToSet(changes) : destructive_rank(c.urn) = k})
  IN  ranked(0) \o ranked(1) \o ranked(2) \o ranked(3)

Changed(cfg, remote) ==
  {u \in Managed(cfg) : Additions(cfg, remote, u) # <<>>} \cup Removals(cfg, remote)

\* Mutant: the changes are in the opposite order.
PlanInOrder_Opposite(cfg, remote, order) ==
  LET removed == Only(order, Removals(cfg, remote))
      added == Only(Reverse(order), Managed(cfg))
  IN  FlattenSeq([i \in 1 .. Len(added) |-> Additions(cfg, remote, added[i])])
        \o _sort_destructive_changes([i \in 1 .. Len(removed) |-> Drop(remote, removed[i])])

\* _plan, for one sort order of the URNs that change.
PlanInOrder(cfg, remote, order) ==
  LET removed == Only(order, Removals(cfg, remote))
      added == Only(order, Managed(cfg))
  IN  FlattenSeq([i \in 1 .. Len(added) |-> Additions(cfg, remote, added[i])])
        \o _sort_destructive_changes([i \in 1 .. Len(removed) |-> Drop(remote, removed[i])])

Plans(cfg, remote, refs) ==
  UNION {{PlanInOrder(cfg, remote, order) : order \in SortOrders(changed, reaches)} :
           changed \in {Changed(cfg, remote)}, reaches \in {Reaches(refs)}}

-----------------------------------------------------------------------------
\* _raise_for_nonconforming_plan and the check on the session's user.
_resource_scope_is_outside_blueprint_scope(type, scope) ==
  CASE scope = "SCHEMA"   -> type # "SCHEMA" /\ type \notin SchemaScoped
    [] scope = "DATABASE" -> type # "DATABASE" /\ type \notin DatabaseScoped \cup SchemaScoped
    [] OTHER              -> FALSE

conforms(cfg, change) ==
  /\ cfg.run_mode = "CREATE_OR_UPDATE" => change.op # "drop"
  /\ change.op = "update" => Type[change.urn] # "GRANT"
  /\ cfg.allowlist # {} => Type[change.urn] \in cfg.allowlist
  /\ ~ _resource_scope_is_outside_blueprint_scope(Type[change.urn], cfg.scope)

would_drop_session_user(change) ==
  change.op = "drop" /\ change.urn = SessionUser

-----------------------------------------------------------------------------
\* execution_strategy_for_change: the role that runs the change, NoURN when it
\* raises MissingPrivilegeException.
resource_type_is_grant(type) == type = "ROLE_GRANT"

\* system_role_for_priv(CREATE_PRIV_FOR_RESOURCE_TYPE[type])
system_role_to_create(type) ==
  CASE type \in {"DATABASE", "WAREHOUSE"} -> SYSADMIN
    [] type \in {"ROLE", "USER"}          -> USERADMIN
    [] type = "NETWORK_POLICY"            -> SECURITYADMIN
    [] OTHER                              -> ACCOUNTADMIN

owner_for_change(change) ==
  CASE change.op = "create"   -> change.after.owner
    [] change.op = "update"   -> change.owner
    [] change.op = "drop"     -> change.before.owner
    [] change.op = "transfer" -> change.from_owner

execution_role(change, available_roles, default_role) ==
  LET type == Type[change.urn]
      ifAvailable(role, otherwise) == IF role \in available_roles THEN role ELSE otherwise
  IN  CASE resource_type_is_grant(type)  -> ifAvailable(SECURITYADMIN, default_role)
        [] type = "TAG_REFERENCE"        -> ifAvailable(ACCOUNTADMIN, default_role)
        [] type \in {"RESOURCE_MONITOR", "ACCOUNT_PARAMETER"} -> ifAvailable(ACCOUNTADMIN, NoURN)
        [] OTHER ->
             IF change.op # "create" \/ type = "SHARE" THEN owner_for_change(change)
             ELSE IF type \in AccountScoped
               THEN ifAvailable(system_role_to_create(type), NoURN)
             ELSE ifAvailable(change.container_owner, NoURN)

transfer_ownership(change, role) ==
  /\ change.op = "create"
  /\ Type[change.urn] \notin Ownerless \cup {"SHARE", "RESOURCE_MONITOR"}
  /\ role # change.after.owner

-----------------------------------------------------------------------------
\* sql_commands_for_change, for the role chosen.
UseRole(role) == [sql |-> "USE ROLE", role |-> role]
GrantOwnership(u, role) == [sql |-> "GRANT OWNERSHIP", urn |-> u, role |-> role]
PublicSchemas(u) == {v \in URN : Container[v] = u /\ isPublicSchema(v)}

\* Mutant: the public schema is forgotten.
AfterCreate_NoPublic(change) == <<GrantOwnership(change.urn, change.after.owner)>>

\* The public schema of a database changes hands with the database.
AfterCreate(change) ==
  <<GrantOwnership(change.urn, change.after.owner)>>
    \o [i \in 1 .. Cardinality(PublicSchemas(change.urn)) |->
          GrantOwnership(CHOOSE v \in PublicSchemas(change.urn) : TRUE, change.after.owner)]

\* update__default: popitem takes the last field of the delta, and only it.
AlterLast(change) ==
  LET attr == CHOOSE a \in change.delta : \A b \in change.delta : b <= a
  IN  [sql |-> "ALTER", urn |-> change.urn, attr |-> attr, val |-> change.after.attrs[attr]]

sql_commands_for_change(change, role) ==
  <<UseRole(role)>>
    \o CASE change.op = "create" ->
              <<[sql |-> "CREATE", urn |-> change.urn, data |-> change.after]>>
                \o (IF transfer_ownership(change, role) THEN AfterCreate(change) ELSE <<>>)
         [] change.op = "update"   -> <<AlterLast(change)>>
         [] change.op = "transfer" -> <<GrantOwnership(change.urn, change.to_owner)>>
         [] change.op = "drop"     -> <<[sql |-> "DROP", urn |-> change.urn]>>

\* The roles compile_plan_to_sql counts on once change has run.
RolesAfter(change, available_roles) ==
  CASE change.op = "create" /\ Type[change.urn] = "ROLE" ->
         available_roles \cup {change.urn}
    [] change.op = "create" /\ Type[change.urn] = "ROLE_GRANT"
         /\ Grantee[change.urn] \in available_roles ->
         available_roles \cup {GrantedRole[change.urn]}
    [] OTHER -> available_roles
=============================================================================
