----------------------------- MODULE MCBlueprint -----------------------------
(***************************************************************************)
(* Small blueprints and the accounts they meet.                            *)
(***************************************************************************)
EXTENDS Claims

CONSTANTS none, user, accountadmin, sysadmin, securityadmin, useradmin,
          r, g, r2, g2, db, pub, sch, old, tbl, db2, sch2, tbl2

MCURN == {user, sysadmin, securityadmin, useradmin, r, g, r2, g2, db, pub, sch, old, tbl,
          db2, sch2, tbl2}

MCType == [u \in MCURN |->
  CASE u = user -> "USER" [] u \in {g, g2} -> "ROLE_GRANT" 
    [] u \in {db, db2} -> "DATABASE" [] u \in {pub, sch, old, sch2} -> "SCHEMA"
    [] u \in {tbl, tbl2} -> "TABLE" [] OTHER -> "ROLE"]

MCContainer == [u \in MCURN |->
  CASE u \in {pub, sch, old} -> db [] u = tbl -> sch
    [] u = sch2 -> db2 [] u = tbl2 -> sch2 [] OTHER -> none]

\* The two databases have a schema of the same name.
MCSchemaName == [u \in {pub, sch, old, sch2} |->
  CASE u = pub -> "PUBLIC" [] u \in {sch, sch2} -> "SCH" [] u = old -> "OLD"]

\* SYSADMIN is granted r, and r is granted r2.
MCGrantedRole == [u \in {g, g2} |-> IF u = g THEN r ELSE r2]
MCGrantee == [u \in {g, g2} |-> IF u = g THEN sysadmin ELSE r]

MCVal == {0, 1}
MCAttrKind == [a \in 1 .. 3 |-> IF a = 3 THEN "unmanaged" ELSE "plain"]
MCReplacingAttrKind == [MCAttrKind EXCEPT ![3] = "replace"]
right == [a \in 1 .. 3 |-> 1]
MCUserRoles == {sysadmin, securityadmin, useradmin}

-----------------------------------------------------------------------------
\* Blueprints.
resource(owner) == [kind |-> "resource", implicit |-> FALSE,
                    data |-> [owner |-> owner, attrs |-> right]]
implicit(owner) == [resource(owner) EXCEPT !.implicit = TRUE]
pointer == [resource(none) EXCEPT !.kind = "pointer"]

blueprint(manifest) ==
  [manifest |-> manifest, run_mode |-> "CREATE_OR_UPDATE", allowlist |-> {},
   scope |-> "NONE", database |-> none, schema |-> "NONE", dry_run |-> FALSE,
   role_objects |-> FALSE]

\* A role, its grant to SYSADMIN, and a database tree the role owns.
tree == blueprint([u \in {r, g, db, pub, sch, tbl} |->
  CASE u = r -> resource(useradmin) [] u = g -> resource(none)
    [] u = pub -> implicit(r) [] OTHER -> resource(r)])

dry_tree == [tree EXCEPT !.dry_run = TRUE]

\* A tree of two roles, as Role objects, whose leaf owns the database.
role_tree == [blueprint([u \in {r, g, r2, g2, db, pub, sch} |->
  CASE u \in {r, r2} -> resource(useradmin) [] u \in {g, g2} -> resource(none)
    [] u = pub -> implicit(r2) [] OTHER -> resource(r2)])
  EXCEPT !.role_objects = TRUE]

\* One schema is to remain; other schemas, roles and role grants go.
sync == [blueprint([u \in {db, pub, sch} |->
           IF u = sch THEN resource(sysadmin) ELSE pointer])
         EXCEPT !.run_mode = "SYNC", !.allowlist = {"SCHEMA", "ROLE", "ROLE_GRANT"}]

\* The same within a database, or a schema of it, of an account that has another.
sync_in(scope) ==
  [sync EXCEPT !.allowlist = {"SCHEMA", "TABLE"}, !.scope = scope, !.database = db,
               !.schema = IF scope = "SCHEMA" THEN "SCH" ELSE "NONE"]

\* The same for databases, none of which is named: those not in the manifest go.
sync_databases == [sync EXCEPT !.allowlist = {"DATABASE", "SCHEMA"}, !.scope = "DATABASE"]

\* Blueprints that are refused, some at every stage: sync of users, a
\* role that owns itself, an owner that is not there, and one
\* that may manage databases but not their public schemas.
sync_users == [blueprint([u \in {} |-> pointer])
               EXCEPT !.run_mode = "SYNC", !.allowlist = {"USER"}]
self_owned == blueprint([u \in {r} |-> resource(r)])
no_owner == blueprint([u \in {db, pub} |-> IF u = pub THEN implicit(r2) ELSE resource(r2)])
database_only == [blueprint([u \in {db, pub} |-> IF u = pub THEN implicit(r) ELSE resource(r)])
                  EXCEPT !.allowlist = {"DATABASE"}]
missing_schema == blueprint([u \in {db, pub, sch, tbl} |->
                    IF u = tbl THEN resource(sysadmin) ELSE pointer])

-----------------------------------------------------------------------------
\* Accounts.
given == {user, sysadmin, securityadmin, useradmin}
objects == {db, pub, sch, old, tbl, db2, sch2, tbl2}

\* The account where P is there, o owns each object and the schema has fields.
account(P, o, fields) ==
  [u \in MCURN |->
     IF u \in given THEN [owner |-> IF u = user THEN useradmin ELSE none, attrs |-> right]
     ELSE IF u \notin P THEN Absent
     ELSE [owner |-> CASE u \in {r, r2} -> useradmin [] u \in {g, g2} -> none
                       [] OTHER -> o[u],
           attrs |-> IF u = sch THEN fields ELSE right]]

wrongs == {right, [right EXCEPT ![1] = 0, ![2] = 0], [right EXCEPT ![3] = 0]}

\* The parts of U that may be there without what is below them.
parts(U) == {P \in SUBSET U : /\ g \in P => r \in P
                              /\ g2 \in P => {r, r2} \subseteq P
                              /\ db \in P <=> pub \in P
                              /\ \A u \in P \cap objects : Container[u] \in P \cup {none}}

\* Any part of U is there, each object of it owned by SYSADMIN or, if there,
\* by owner.
Accounts_of(U, owner) ==
  UNION {{account(P, [u \in objects |-> IF u \in S \/ owner \notin P THEN sysadmin ELSE owner],
                  fields) :
            S \in SUBSET (P \cap objects),
            fields \in IF sch \in P THEN wrongs ELSE {right}} : P \in parts(U)}

\* Nobody has revoked the upper grant of a chain and left the lower one.
unbroken(o) == o[g2] # Absent => o[g] # Absent

RoleTreeAccounts == Accounts_of({r, g, r2, g2, db, pub, sch}, r2)

\* What sync removes is all there.
SyncAccounts(U) == {o \in Accounts_of(U, r) : /\ \A u \in U \ {db, pub, sch} : o[u] # Absent
                                              /\ \A u \in {db, pub} : o[u].owner = sysadmin}

ScopedAccounts == {o \in Accounts_of({db, pub, sch, old, tbl, db2, sch2, tbl2}, r) :
                     \A u \in {db, sch, db2} : o[u] # Absent}

SchemaConfigs == {sync_in("SCHEMA")}
ScopedConfigs == {sync_in("DATABASE"), sync_databases} \cup SchemaConfigs

MCAccounts(c) ==
  CASE c \in {tree, dry_tree} -> Accounts_of({r, g, db, pub, sch, tbl}, r)
    [] c = role_tree -> {o \in RoleTreeAccounts : unbroken(o)}
    [] c = sync -> SyncAccounts({r, g, r2, g2, db, pub, sch, old})
    [] c \in ScopedConfigs -> ScopedAccounts

LiveAccounts(c) == IF c = sync THEN SyncAccounts({r, g, db, pub, sch, old}) ELSE MCAccounts(c)
BareAccounts(c) == {account({}, [u \in objects |-> sysadmin], right)}
RefusedAccounts(c) == {o \in Accounts_of({r, g, db, pub, sch, tbl}, r) : o[g] # Absent}

\* Somebody with SYSADMIN drops something, takes it over or sets a field back,
\* but revokes no upper grant unless its role goes.
MCDrifts(c, o) ==
  LET there(U) == {u \in U : o[u] # Absent}
      drifts == {Dropped(o, sysadmin, u) : u \in there({r, g, g2, db, sch} \cap Managed(c))}
                  \cup {[o EXCEPT ![u].owner = sysadmin] : u \in there({db, sch})}
                  \cup {[o EXCEPT ![u].attrs[1] = 0] : u \in there({sch})}
  IN  IF c = role_tree THEN {p \in drifts : p[r] # Absent => p[g] = o[g]} ELSE drifts

MCConfigs == {tree, dry_tree, role_tree, sync} \cup ScopedConfigs
LiveConfigs == {tree, sync}
=============================================================================
