------------------------------ MODULE Resources ------------------------------
(***************************************************************************)
(* The vocabulary of a blueprint: resources named by URN, their types,     *)
(* containers and data.  A role is named by the URN of its ROLE resource,  *)
(* so an owner is a URN too.                                               *)
(***************************************************************************)
EXTENDS TopologicalOrder, FiniteSets

CONSTANTS
  NoURN,          \* no container, no owner, no database in the configuration
  Type,           \* URN -> resource type
  Container,      \* URN -> the database or schema it lives in, or NoURN
  SchemaName,     \* SCHEMA URN -> its name, which several databases may share
  GrantedRole,    \* ROLE_GRANT URN -> the role granted
  Grantee,        \* ROLE_GRANT URN -> the role or user it is granted to
  NAttr,          \* number of fields of a resource besides its owner
  Val,            \* values of a field
  AttrKind,       \* field -> "plain", "unmanaged", "create" or "replace"
  SessionUser,    \* the user of the session
  ACCOUNTADMIN, SYSADMIN, SECURITYADMIN, USERADMIN

Attr == 1 .. NAttr

ofType(t) == {u \in URN : Type[u] = t}
Role == ofType("ROLE")
SystemRole == {ACCOUNTADMIN, SYSADMIN, SECURITYADMIN, USERADMIN} \cap URN

\* RESOURCE_SCOPES
DatabaseScoped == {"SCHEMA", "DATABASE_ROLE"}
SchemaScoped == {"TABLE", "VIEW"}
AccountScoped == {"ACCOUNT_PARAMETER", "DATABASE", "NETWORK_POLICY",
  "RESOURCE_MONITOR", "ROLE", "ROLE_GRANT", "SHARE", "TAG_REFERENCE", "USER",
  "WAREHOUSE"}

ASSUME ResourcesAssumption ==
  /\ IsFiniteSet(URN)
  /\ NoURN \notin URN
  /\ SessionUser \in URN
  /\ Container \in [URN -> URN \cup {NoURN}]
  /\ \A u \in URN : Container[u] \in CASE Type[u] \in DatabaseScoped -> ofType("DATABASE")
                                       [] Type[u] \in SchemaScoped   -> ofType("SCHEMA")
                                       [] OTHER                      -> {NoURN}
  /\ \A s \in ofType("SCHEMA") : SchemaName[s] # "NONE"
  /\ SystemRole \subseteq Role
  /\ GrantedRole \in [ofType("ROLE_GRANT") -> Role]
  /\ Grantee \in [ofType("ROLE_GRANT") -> Role \cup {SessionUser}]
  /\ NAttr \in Nat \ {0}
  /\ AttrKind \in [Attr -> {"plain", "unmanaged", "create", "replace"}]

\* RoleGrant and the grant-like types have no owner field.
Ownerless == {"ACCOUNT_PARAMETER", "ROLE_GRANT", "TAG_REFERENCE"}

isPublicSchema(u) == Type[u] = "SCHEMA" /\ SchemaName[u] = "PUBLIC"

\* What the data provider returns for a resource, or a manifest asks for.
Data == [owner : Role \cup {NoURN}, attrs : [Attr -> Val]]
Absent == [owner |-> NoURN, attrs |-> <<>>]

\* The resources below u, u included: DROP takes them with it.
Below(u) == {v \in URN : \/ v = u
                         \/ Container[v] = u
                         \/ Container[v] # NoURN /\ Container[Container[v]] = u}
=============================================================================
