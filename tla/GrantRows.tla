------------------------------ MODULE GrantRows ------------------------------
(***************************************************************************)
(* The grants an account holds and the declarations of resources/grant.py  *)
(* that ask for them.                                                      *)
(*                                                                         *)
(* A grant has a kind, a privilege, what it is on and a grantee; rows maps *)
(* the grants the account holds to their grant option.  "on" has a type, a *)
(* name and, for a collection such as the tables to come of a schema, the  *)
(* type of the container it is in.  A declaration has the same fields, an  *)
(* option, a grantee named by a Python string, and may be for ALL          *)
(* privileges or, as a GRANT_ON_ALL, for all of a collection.              *)
(***************************************************************************)
EXTENDS Names

CONSTANTS
  AllPrivs,           \* PRIVS_FOR_RESOURCE_TYPE, but for ALL and OWNERSHIP
  Contents,           \* what there is of a collection
  IntegrationTypes,   \* the types the account calls INTEGRATION
  SystemRoles,
  ObjectTypes         \* the types of what grants are on

ASSUME ObjectTypesAssumption == "INTEGRATION" \in ObjectTypes

Kinds == {"GRANT", "FUTURE_GRANT", "GRANT_ON_ALL", "ROLE_GRANT", "DATABASE_ROLE_GRANT"}

RoleKinds == {"ROLE_GRANT", "DATABASE_ROLE_GRANT"}

\* What grants are on, and the grants of an account: privileges by their own
\* names, and nothing of a collection as a whole.
On == [type : ObjectTypes, in : STRING, name : STRING]

GrantRow ==
  {g \in [kind : Kinds \ {"GRANT_ON_ALL"}, priv : STRING, on : On,
          to : [type : STRING, name : Text]] :
     /\ g.priv # "ALL"
     /\ g.kind \in RoleKinds => g.priv = "USAGE"}

UnlistedPrivs == {"OWNERSHIP", "CREATE CORTEX SEARCH SERVICE", "CANCEL QUERY"}

\* What create_grant and the account make of a declared type.
granted_on(type) == IF type \in IntegrationTypes THEN "INTEGRATION" ELSE type

\* _Grant.__post_init__
_privs(d) == IF d.priv = "ALL" THEN AllPrivs[d.on.type] ELSE {d.priv}

Grantee(d) == [type |-> d.to.type, name |-> Denotes(ResourceName(d.to.name))]

Targets(d) ==
  CASE d.kind = "GRANT_ON_ALL" -> Contents[d.on]
    [] d.kind = "GRANT"        -> {[d.on EXCEPT !.type = granted_on(@)]}
    [] OTHER                   -> {d.on}

\* The grants a declaration asks for.
Means(d) ==
  {[kind |-> IF d.kind = "GRANT_ON_ALL" THEN "GRANT" ELSE d.kind,
    priv |-> p, on |-> o, to |-> Grantee(d)] : p \in _privs(d), o \in Targets(d)}

Declared(cfg) == UNION {Means(d) : d \in cfg.declared}

\* Only create_grant says WITH GRANT OPTION.
WithGrantOption(d) == d.kind = "GRANT" /\ d.option

\* The account after a GRANT and a REVOKE.  A grant made again keeps its option.
Granted(rows, d) ==
  [g \in DOMAIN rows \cup Means(d) |->
     \/ g \in DOMAIN rows /\ rows[g]
     \/ g \in Means(d) /\ WithGrantOption(d)]

Revoked(rows, g) == [h \in DOMAIN rows \ {g} |-> rows[h]]

\* The grants anybody makes in an account the blueprint cfg is run on.
Grantable(cfg) == Declared(cfg) \cup cfg.others

\* Others revoke a grant, or make one, with or without its option; roles are
\* granted without.
GrantedByOthers(rows, g, option) ==
  [h \in DOMAIN rows \cup {g} |-> IF h = g THEN g.kind \notin RoleKinds /\ option ELSE rows[h]]

Drifts(cfg, rows) ==
  {Revoked(rows, g) : g \in DOMAIN rows}
    \cup {GrantedByOthers(rows, g, b) : g \in Grantable(cfg), b \in BOOLEAN}

\* WRITE on a stage presupposes READ, which is why _create_stage_privilege_refs
\* has the one wait for the other.
Refused(rows, d) ==
  /\ d.priv = "WRITE"
  /\ d.on.type = "STAGE"
  /\ \E g \in Means(d) : [g EXCEPT !.priv = "READ"] \notin DOMAIN rows

\* What sync mode may revoke: what the list functions go through.
Revocable(cfg, g) ==
  /\ cfg.run_mode = "SYNC"
  /\ g.kind \in cfg.allowlist
  /\ g.kind = "GRANT" => g.priv \notin UnlistedPrivs /\ g.on.type # "ROLE"
  /\ g.kind \notin RoleKinds => g.to.type = "ROLE" /\ g.to.name \notin SystemRoles
  /\ g.kind = "ROLE_GRANT" => g.on.name \notin SystemRoles

\* The declarations whose grants are listed under the URN they have in the
\* manifest.  The others sync mode grants and revokes by turns: ALL, grants on
\* an integration or on a collection that list_future_grants puts in the other
\* container, and those to a grantee whose name is declared unlike the listings
\* give it.  Grants on all of a collection are never listed nor fetched.
Recognized(d) ==
  /\ d.kind # "GRANT_ON_ALL"
  /\ d.priv # "ALL"
  /\ d.on.type \notin IntegrationTypes
  /\ d.kind = "FUTURE_GRANT" => (d.on.in = "DATABASE" <=> d.on.type = "SCHEMA")
  /\ Canonical(d.to.name)
  /\ d.kind \in RoleKinds => ~ ResourceName(d.to.name).quoted
=============================================================================
