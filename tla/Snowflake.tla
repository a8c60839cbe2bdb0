------------------------------ MODULE Snowflake ------------------------------
(***************************************************************************)
(* The account the tool talks to, as far as the tool's statements tell:    *)
(* what each of them does and when it is refused.  It is external to the   *)
(* repository; the rules are those sql_commands_for_change is written for  *)
(* (its docstring): USE ROLE needs a role the user has, CREATE looks at    *)
(* the active role and what it inherits, every other statement at all the  *)
(* user's roles, since USE SECONDARY ROLES ALL has run.                    *)
(*                                                                         *)
(* obj is the account: URN -> data, or Absent.                             *)
(***************************************************************************)
EXTENDS Resources

CONSTANT UserRoles      \* the roles the account has granted to the session user

AccountStates ==
  {obj \in [URN -> Data \cup {Absent}] :
     /\ \A u \in SystemRole : obj[u] # Absent
     /\ \A u \in URN : obj[u] # Absent /\ Container[u] # NoURN => obj[Container[u]] # Absent}

-----------------------------------------------------------------------------
\* Who inherits what: <<r, s>> says that r has the privileges of s.
SystemHierarchy ==
  {<<ACCOUNTADMIN, SYSADMIN>>, <<ACCOUNTADMIN, SECURITYADMIN>>,
   <<SECURITYADMIN, USERADMIN>>}

GrantedTo(obj, R) ==
  {e[2] : e \in {f \in SystemHierarchy : f[1] \in R}}
    \cup {GrantedRole[g] : g \in {h \in ofType("ROLE_GRANT") :
                                    obj[h] # Absent /\ Grantee[h] \in R}}

Inherited(obj, R) ==
  LET reach[n \in 0 .. Cardinality(Role)] ==
        IF n = 0 THEN R ELSE UNION {r \cup GrantedTo(obj, r) : r \in {reach[n - 1]}}
  IN  reach[Cardinality(Role)] \cap Role

AvailableRoles(obj) == Inherited(obj, UserRoles \cup {SessionUser})

\* Who may create a resource of the type of u: the system role that holds the
\* account privilege, or the owner of the container.
Creator(obj, u) ==
  CASE Container[u] # NoURN -> obj[Container[u]].owner
    [] Type[u] \in {"DATABASE", "WAREHOUSE"} -> SYSADMIN
    [] Type[u] \in {"ROLE", "USER"} -> USERADMIN
    [] Type[u] = "NETWORK_POLICY" -> SECURITYADMIN
    [] OTHER -> ACCOUNTADMIN

mayManage(obj, u) ==
  LET roles == AvailableRoles(obj)
  IN  obj[u].owner \in roles \/ SECURITYADMIN \in roles

-----------------------------------------------------------------------------
\* What a statement makes of the account.
Created(obj, role, u, data) ==
  LET owned == [data EXCEPT !.owner = role]
  IN  [v \in URN |->
         IF v = u THEN IF Type[u] \in Ownerless THEN data ELSE owned
         ELSE IF Container[v] = u /\ Type[u] = "DATABASE" /\ isPublicSchema(v) THEN owned
         ELSE obj[v]]

\* A dropped role's grants go with it, and what it owned is left to the role
\* that dropped it.
Dropped(obj, role, u) ==
  LET grants == {v \in ofType("ROLE_GRANT") : /\ Type[u] \in {"ROLE", "USER"}
                                              /\ u \in {GrantedRole[v], Grantee[v]}}
  IN  [v \in URN |->
         IF v \in Below(u) \cup grants THEN Absent
         ELSE IF obj[v] # Absent /\ obj[v].owner = u THEN [obj[v] EXCEPT !.owner = role]
         ELSE obj[v]]

\* The outcomes of a statement s run by the active role: an error, or the
\* account and the active role that it leaves.
Ok(obj, role) == [err |-> "none", obj |-> obj, role |-> role]
Fails(obj, role, err) == [err |-> err, obj |-> obj, role |-> role]

UseOutcome(obj, role, s) ==
  IF s.role \in AvailableRoles(obj) /\ obj[s.role] # Absent
    THEN Ok(obj, s.role) ELSE Fails(obj, role, "ACCESS_CONTROL")

\* client.py is not sure which of its two codes means that the object exists.
CreateOutcomes(obj, role, s) ==
  LET u == s.urn
      parents == {Container[u]} \ {NoURN}
      parties == IF Type[u] = "ROLE_GRANT" THEN {GrantedRole[u], Grantee[u]} ELSE {}
  IN  IF \E v \in parents \cup parties : obj[v] = Absent
        THEN {Fails(obj, role, "DOES_NOT_EXIST")}
      ELSE IF Type[u] = "ROLE_GRANT"
        THEN IF mayManage(obj, GrantedRole[u])
               THEN {Ok(Created(obj, role, u, s.data), role)}
               ELSE {Fails(obj, role, "ACCESS_CONTROL")}
      ELSE IF Creator(obj, u) \notin Inherited(obj, {role})
        THEN {Fails(obj, role, "ACCESS_CONTROL")}
      ELSE IF obj[u] # Absent
        THEN {Fails(obj, role, "OBJECT_ALREADY_EXISTS"), Fails(obj, role, "ALREADY_EXISTS")}
      ELSE {Ok(Created(obj, role, u, s.data), role)}

AlterOutcome(obj, role, s) ==
  IF obj[s.urn] = Absent THEN Fails(obj, role, "DOES_NOT_EXIST")
  ELSE IF obj[s.urn].owner \notin AvailableRoles(obj) THEN Fails(obj, role, "ACCESS_CONTROL")
  ELSE Ok([obj EXCEPT ![s.urn].attrs[s.attr] = s.val], role)

GrantOwnershipOutcome(obj, role, s) ==
  IF obj[s.urn] = Absent \/ obj[s.role] = Absent THEN Fails(obj, role, "DOES_NOT_EXIST")
  ELSE IF ~ mayManage(obj, s.urn) THEN Fails(obj, role, "ACCESS_CONTROL")
  ELSE Ok([obj EXCEPT ![s.urn].owner = s.role], role)

\* DROP ... IF EXISTS; a role grant is dropped by REVOKE, which has no such
\* clause, and IF EXISTS does not cover a container that is gone.
DropOutcome(obj, role, s) ==
  LET u == s.urn
      isGrant == Type[u] = "ROLE_GRANT"
      unresolved == \/ Container[u] # NoURN /\ obj[Container[u]] = Absent
                    \/ isGrant /\ obj[u] = Absent
      authorized == IF isGrant THEN mayManage(obj, GrantedRole[u])
                    ELSE obj[u].owner \in AvailableRoles(obj)
  IN  IF unresolved THEN Fails(obj, role, "DOES_NOT_EXIST")
      ELSE IF obj[u] = Absent THEN Ok(obj, role)
      ELSE IF authorized THEN Ok(Dropped(obj, role, u), role)
      ELSE Fails(obj, role, "ACCESS_CONTROL")

Outcomes(obj, role, s) ==
  CASE s.sql = "USE ROLE"        -> {UseOutcome(obj, role, s)}
    [] s.sql = "CREATE"          -> CreateOutcomes(obj, role, s)
    [] s.sql = "ALTER"           -> {AlterOutcome(obj, role, s)}
    [] s.sql = "GRANT OWNERSHIP" -> {GrantOwnershipOutcome(obj, role, s)}
    [] s.sql = "DROP"            -> {DropOutcome(obj, role, s)}
=============================================================================
