-------------------------------- MODULE Grants --------------------------------
(***************************************************************************)
(* Runs of a blueprint of grants: listing and fetching them, the diff, the *)
(* order and the statements of the plan, while others grant and revoke.    *)
(* The grants of the account are those of GrantRows; what is declared is   *)
(* found again in it by URN, a key made of strings.                        *)
(*                                                                         *)
(* The roles, users and objects grants are about are there.  A set of      *)
(* changes stands for every order of them that the references leave open.  *)
(***************************************************************************)
EXTENDS GrantRows, Naturals

CONSTANTS
  Configs, Accounts(_),
  MaxMishaps      \* the changes of others, the crashes and the refusals of a behaviour

\* What Resource classes and the account make sure of.
Declaration ==
  {d \in [kind : Kinds, priv : STRING, on : On, to : [type : STRING, name : PyString],
          option : BOOLEAN] :
     /\ d.priv = "ALL" => AllPrivs[d.on.type] \subseteq STRING \ {"ALL"}
     /\ d.kind \in RoleKinds => d.priv = "USAGE"
     /\ d.kind = "GRANT_ON_ALL" => Contents[d.on] \subseteq On
     /\ d.kind = "FUTURE_GRANT" => d.on.in \in {"DATABASE", "SCHEMA"}}

ASSUME GrantsAssumption ==
  /\ MaxMishaps \in Nat
  /\ \A c \in Configs :
       /\ c.run_mode \in {"SYNC", "CREATE_OR_UPDATE"}
       /\ c.allowlist \subseteq Kinds
       /\ c.declared \subseteq Declaration
       /\ c.others \subseteq GrantRow
       /\ \A r \in Accounts(c) :
            r \in [DOMAIN r -> BOOLEAN] /\ DOMAIN r \subseteq Grantable(c)

VARIABLES
  rows,           \* the account
  cfg,            \* the blueprint: declared, run_mode, allowlist
  pc,             \* where the run is
  kinds,          \* the kinds still to be listed
  todo,           \* the URNs still to be fetched
  remote,         \* the state fetched so far
  add, drop,      \* the rest of the plan
  outcome,        \* of the last run
  clean,          \* nothing went wrong and nobody interfered since it began
  mishaps

run == <<pc, kinds, todo, remote, add, drop, outcome>>
vars == <<rows, cfg, pc, kinds, todo, remote, add, drop, outcome, clean, mishaps>>

-----------------------------------------------------------------------------
\* The keys: grant_fqn, future_grant_fqn, grant_on_all_fqn, role_grant_fqn and
\* database_role_grant_fqn of a declaration.
urn(d) ==
  [kind |-> d.kind, priv |-> d.priv, on |-> d.on,
   to |-> [type |-> d.to.type, name |-> Str(ResourceName(d.to.name))]]

Manifest == {urn(d) : d \in cfg.declared}
DeclaredAs(u) == CHOOSE d \in cfg.declared : urn(d) = u

\* And those of what the account lists.
key(g, on, name) ==
  [kind |-> g.kind, priv |-> g.priv, on |-> on, to |-> [type |-> g.to.type, name |-> name]]

RoleKey(g) == Str(resource_name_from_snowflake_metadata(g.to.name))
OfRole(g) == g.to.type = "ROLE" /\ g.to.name \notin SystemRoles

\* Mutant: ownership is listed with the privileges.
list_grants_Ownership(held) ==
  {key(g, g.on, RoleKey(g)) : g \in {h \in held : /\ h.kind = "GRANT"
                                                  /\ OfRole(h)
                                                  /\ h.on.type # "ROLE"}}

list_grants(held) ==
  {key(g, g.on, RoleKey(g)) : g \in {h \in held : /\ h.kind = "GRANT"
                                                  /\ OfRole(h)
                                                  /\ h.on.type # "ROLE"
                                                  /\ h.priv \notin UnlistedPrivs}}

\* Mutant: every collection is taken to be in a schema.
list_future_grants_Schema(held) ==
  {key(g, [g.on EXCEPT !.in = "SCHEMA"], RoleKey(g)) :
     g \in {h \in held : h.kind = "FUTURE_GRANT" /\ OfRole(h)}}

list_future_grants(held) ==
  {key(g, [g.on EXCEPT !.in = IF g.on.type = "SCHEMA" THEN "DATABASE" ELSE "SCHEMA"],
       RoleKey(g)) : g \in {h \in held : h.kind = "FUTURE_GRANT" /\ OfRole(h)}}

list_role_grants(held) ==
  {key(g, g.on, Bare(g.to.name)) :
     g \in {h \in held : h.kind = "ROLE_GRANT" /\ h.on.name \notin SystemRoles}}

list_database_role_grants(held) ==
  {key(g, g.on, Bare(g.to.name)) : g \in {h \in held : h.kind = "DATABASE_ROLE_GRANT"}}

\* There is no list_grant_on_alls.
CanList(kind) == kind # "GRANT_ON_ALL"

list_resource(kind, held) ==
  CASE kind = "GRANT"               -> list_grants(held)
    [] kind = "FUTURE_GRANT"        -> list_future_grants(held)
    [] kind = "ROLE_GRANT"          -> list_role_grants(held)
    [] kind = "DATABASE_ROLE_GRANT" -> list_database_role_grants(held)
    [] OTHER                        -> {}

-----------------------------------------------------------------------------
\* The fetch functions: the rows of the account a URN stands for, and what may
\* be returned of them.  An answer has its rows in any order.
SameGrantee(u, g) ==
  /\ g.to.type = u.to.type
  /\ Eq(resource_name_from_snowflake_metadata(g.to.name), ResourceName(u.to.name))

Rows(u, held) ==
  {g \in held :
     /\ g.kind = u.kind
     /\ SameGrantee(u, g)
     /\ CASE u.kind = "GRANT"        -> g.on = u.on /\ u.priv \in {g.priv, "ALL"}
          [] u.kind = "FUTURE_GRANT" -> /\ g.priv = u.priv
                                        /\ g.on.type = u.on.type /\ g.on.name = u.on.name
          [] OTHER                   -> g.on = u.on}

\* fetch_database_role_grant returns the first row there is, whoever it is for.
Front(u, held) ==
  IF u.kind = "DATABASE_ROLE_GRANT"
    THEN {g \in held : g.kind = u.kind /\ g.on = u.on}
    ELSE Rows(u, held)

\* The names of a role grant are read back from the row.
GranteeData(u, g) ==
  IF u.kind \in RoleKinds THEN [type |-> g.to.type, name |-> RoleKey(g)] ELSE u.to

fetch_resource(u, acc) ==
  IF Rows(u, DOMAIN acc) = {} THEN {}
  ELSE {[row |-> g, option |-> acc[g], to |-> GranteeData(u, g),
         privs |-> {h.priv : h \in Rows(u, DOMAIN acc)}] : g \in Front(u, DOMAIN acc)}

-----------------------------------------------------------------------------
\* Mutant: privileges are granted to whom holds any.
Creates_Absent(state) == {d \in cfg.declared : urn(d) \notin DOMAIN state}

\* diff.  Other privileges than declared make a create; the owner is never
\* compared, so that grants are not transferred.
Creates(state) ==
  {d \in cfg.declared : \/ urn(d) \notin DOMAIN state
                        \/ state[urn(d)].privs # _privs(d)}

Differs(d, data) == data.option # d.option \/ data.to # urn(d).to

Updates(state) == {d \in cfg.declared \ Creates(state) : Differs(d, state[urn(d)])}

Drops(state) == {state[u].row : u \in DOMAIN state \ Manifest}

\* _create_stage_privilege_refs: the grants of WRITE on a stage, or on those of
\* a container, after all grants of READ there.
Waits(d, e) ==
  /\ d.kind = e.kind
  /\ d.on.type = "STAGE"
  /\ d.on.name = e.on.name /\ d.on.type = e.on.type
  /\ d.priv = "WRITE" /\ e.priv = "READ"

\* _raise_for_nonconforming_plan and update_role_grant refuse these.
CannotUpdate == {"GRANT", "ROLE_GRANT"}

-----------------------------------------------------------------------------
NoState == [u \in {} |-> 0]

\* Mutant: the plan outlives its run.
EndRun_KeepsPlan(how) ==
  /\ pc' = "idle" /\ kinds' = {} /\ todo' = {} /\ remote' = NoState
  /\ UNCHANGED <<add, drop>> /\ outcome' = how

NoRun == pc = "idle" /\ kinds = {} /\ todo = {} /\ remote = NoState /\ add = {} /\ drop = {}
EndRun(how) ==
  /\ pc' = "idle" /\ kinds' = {} /\ todo' = {} /\ remote' = NoState
  /\ add' = {} /\ drop' = {} /\ outcome' = how

Init ==
  /\ cfg \in Configs
  /\ rows \in Accounts(cfg)
  /\ NoRun
  /\ outcome = "none"
  /\ clean = TRUE
  /\ mishaps = 0

\* fetch_remote_state: sync mode lists a kind and fetches what it listed, kind
\* by kind, and then fetches what is in the manifest.
StartRun ==
  /\ pc = "idle"
  /\ pc' = "listing"
  /\ kinds' = IF cfg.run_mode = "SYNC" THEN cfg.allowlist ELSE {}
  /\ clean' = TRUE
  /\ outcome' = "none"
  /\ UNCHANGED <<rows, cfg, todo, remote, add, drop, mishaps>>

ListKind ==
  /\ pc = "listing" /\ todo = {}
  /\ \E k \in kinds :
       IF CanList(k)
         THEN /\ kinds' = kinds \ {k}
              /\ todo' = list_resource(k, DOMAIN rows)
              /\ UNCHANGED <<pc, remote, add, drop, outcome>>
         ELSE EndRun("failed")
  /\ UNCHANGED <<rows, cfg, clean, mishaps>>

Record(u, data) ==
  remote' = [v \in DOMAIN remote \cup {u} |-> IF v = u THEN data ELSE remote[v]]

FetchListed ==
  /\ pc = "listing"
  /\ \E u \in todo :
       IF fetch_resource(u, rows) = {}
         THEN EndRun("failed")   \* MissingResourceException
         ELSE /\ \E data \in fetch_resource(u, rows) : Record(u, data)
              /\ todo' = todo \ {u}
              /\ UNCHANGED <<pc, kinds, add, drop, outcome>>
  /\ UNCHANGED <<rows, cfg, clean, mishaps>>

StartFetch ==
  /\ pc = "listing" /\ kinds = {} /\ todo = {}
  /\ pc' = "fetching"
  /\ todo' = Manifest
  /\ UNCHANGED <<rows, cfg, kinds, remote, add, drop, outcome, clean, mishaps>>

FetchDeclared ==
  /\ pc = "fetching"
  /\ \E u \in todo :
       /\ todo' = todo \ {u}
       /\ IF fetch_resource(u, rows) = {} THEN UNCHANGED remote
          ELSE \E data \in fetch_resource(u, rows) : Record(u, data)
  /\ UNCHANGED <<rows, cfg, pc, kinds, add, drop, outcome, clean, mishaps>>

\* _plan, _raise_for_nonconforming_plan and compile_plan_to_sql.
MakePlan ==
  /\ pc = "fetching" /\ todo = {}
  /\ IF \E d \in Updates(remote) : d.kind \in CannotUpdate
       THEN EndRun("failed")
       ELSE /\ pc' = "running"
            /\ add' = {[op |-> "create", of |-> d] : d \in Creates(remote)}
                        \cup {[op |-> "update", of |-> d] : d \in Updates(remote)}
            /\ drop' = Drops(remote)
            /\ remote' = NoState
            /\ UNCHANGED <<kinds, todo, outcome>>
  /\ UNCHANGED <<rows, cfg, clean, mishaps>>

\* Mutant: WRITE does not wait for READ.
MayComeNext_AnyOrder(c) == TRUE

MayComeNext(c) == \A b \in add : ~ Waits(c.of, b.of)

\* Mutant: what is granted stays in the plan.
ExecuteAddition_Again ==
  /\ pc = "running"
  /\ \E c \in add :
       /\ MayComeNext(c)
       /\ IF c.op = "update" \/ Refused(rows, c.of)
            THEN EndRun("failed") /\ UNCHANGED rows
            ELSE /\ rows' = Granted(rows, c.of)
                 /\ UNCHANGED <<pc, kinds, todo, remote, add, drop, outcome>>
  /\ UNCHANGED <<cfg, clean, mishaps>>

\* A GRANT, or the ALTER an update is rendered as, which no account accepts.
ExecuteAddition ==
  /\ pc = "running"
  /\ \E c \in add :
       /\ MayComeNext(c)
       /\ IF c.op = "update" \/ Refused(rows, c.of)
            THEN EndRun("failed") /\ UNCHANGED rows
            ELSE /\ rows' = Granted(rows, c.of)
                 /\ add' = add \ {c}
                 /\ UNCHANGED <<pc, kinds, todo, remote, drop, outcome>>
  /\ UNCHANGED <<cfg, clean, mishaps>>

\* A REVOKE; those of roles come last, and one of nothing is accepted.
ExecuteDrop ==
  /\ pc = "running" /\ add = {}
  /\ \E g \in drop :
       /\ g.kind = "ROLE_GRANT" => \A h \in drop : h.kind = "ROLE_GRANT"
       /\ rows' = Revoked(rows, g)
       /\ drop' = drop \ {g}
  /\ UNCHANGED <<cfg, pc, kinds, todo, remote, add, outcome, clean, mishaps>>

Finish ==
  /\ pc = "running" /\ add = {} /\ drop = {}
  /\ EndRun("done")
  /\ UNCHANGED <<rows, cfg, clean, mishaps>>

-----------------------------------------------------------------------------
Mishap == mishaps < MaxMishaps /\ mishaps' = mishaps + 1 /\ clean' = FALSE

\* Others grant and revoke, at any time.
Drift ==
  /\ Mishap
  /\ rows' \in Drifts(cfg, rows)
  /\ rows' # rows
  /\ UNCHANGED <<cfg, run>>

\* The process dies, or the account refuses a statement for a reason of its own.
Crash ==
  /\ Mishap
  /\ pc # "idle"
  /\ EndRun("failed")
  /\ UNCHANGED <<rows, cfg>>

\* A GRANT the account refuses as an invalid one is logged and stepped over.
SkipInvalidGrant ==
  /\ Mishap
  /\ pc = "running"
  /\ \E c \in add : c.op = "create" /\ MayComeNext(c) /\ add' = add \ {c}
  /\ UNCHANGED <<rows, cfg, pc, kinds, todo, remote, drop, outcome>>

ToolStep ==
  \/ StartRun \/ ListKind \/ FetchListed \/ StartFetch \/ FetchDeclared
  \/ MakePlan \/ ExecuteAddition \/ ExecuteDrop \/ Finish

Next == ToolStep \/ Drift \/ Crash \/ SkipInvalidGrant

Spec == Init /\ [][Next]_vars

\* Somebody runs the blueprint again and again, and a run goes on by itself.
FairSpec == Spec /\ WF_vars(ToolStep)

-----------------------------------------------------------------------------
TypeOK ==
  /\ pc \in {"idle", "listing", "fetching", "running"}
  /\ outcome \in {"none", "done", "failed"}
  /\ cfg \in Configs
  /\ rows \in [DOMAIN rows -> BOOLEAN] /\ DOMAIN rows \subseteq Grantable(cfg)
  /\ mishaps \in 0 .. MaxMishaps /\ clean \in BOOLEAN
  /\ kinds \subseteq cfg.allowlist
  /\ \A u \in DOMAIN remote : remote[u].row.kind = u.kind
  /\ add \subseteq [op : {"create", "update"}, of : cfg.declared]
  /\ pc # "running" => add = {} /\ drop = {}

\* The declarations whose grants a run leaves in the account.
Lasting == IF cfg.run_mode = "SYNC" THEN {d \in cfg.declared : Recognized(d)} ELSE cfg.declared

\* What the runs are for: what is declared is granted, with the option it is
\* declared with where a statement can say so, and in sync mode nothing else is.
Settled ==
  /\ \A d \in Lasting : /\ Means(d) \subseteq DOMAIN rows
                        /\ WithGrantOption(d) => \A g \in Means(d) : rows[g]
  /\ \A g \in DOMAIN rows : Revocable(cfg, g) => g \in Declared(cfg)

\* Why a run nobody disturbs stops short: a declared grant is held with another
\* option, which no statement changes; a grant of a role is held by a grantee
\* declared unlike the account gives the name; WRITE is declared and READ
\* neither held nor declared; grants on all of a collection cannot be listed;
\* and a listed grantee is looked up by a name that folds to another.
CannotSettle ==
  \/ \E d \in cfg.declared :
       \/ \E g \in Means(d) \cap DOMAIN rows : rows[g] # d.option
       \/ d.kind \in RoleKinds /\ ~ Canonical(d.to.name) /\ Means(d) \subseteq DOMAIN rows
       \/ /\ Refused(rows, d)
          /\ \E g \in Means(d) : [g EXCEPT !.priv = "READ"] \notin Declared(cfg)
  \/ cfg.run_mode = "SYNC" /\ "GRANT_ON_ALL" \in cfg.allowlist
  \/ \E g \in DOMAIN rows : /\ Revocable(cfg, g)
                            /\ g.kind \in RoleKinds
                            /\ Denotes(ResourceName(Bare(g.to.name))) # g.to.name

\* A run that nobody disturbs comes to its end, or has one of the reasons of
\* CannotSettle: the diff, the conformity check and the order of the plan
\* raise no other obstacle (blueprint.py:571, 636, lifecycle.py:314).
RefusedForAReason == clean /\ outcome = "failed" => CannotSettle

\* And when it has ended the account is as declared (blueprint.py:1328-1431).
CleanRunSettles == clean /\ outcome = "done" => Settled

\* Once the account is as declared, a plan is empty, whatever order its answers
\* have: keys, names and data fetched all agree with the declarations.
\* Grants on all of a collection are planned every time (data_provider.py:1313).
Ordinary == \A d \in cfg.declared : Recognized(d)

NothingToDo ==
  (Settled /\ Ordinary /\ ~ CannotSettle) =>
    /\ cfg.run_mode = "SYNC" =>
         UNION {list_resource(k, DOMAIN rows) : k \in cfg.allowlist} \subseteq Manifest
    /\ \A d \in cfg.declared :
         /\ fetch_resource(urn(d), rows) # {}
         /\ \A data \in fetch_resource(urn(d), rows) :
              data.privs = _privs(d) /\ ~ Differs(d, data)

\* Two accounts the fetch of a role grant finds the wrong row in: a database
\* role with several grantees, of which it takes the first, and a grantee listed
\* under a name that in capitals is another's with the grant declared.
Folded(g) == [g EXCEPT !.to.name = Denotes(ResourceName(Bare(@)))]

Distinguishable ==
  \A g \in DOMAIN rows : Revocable(cfg, g) /\ g.kind \in RoleKinds =>
    /\ Folded(g) = g \/ Folded(g) \notin Declared(cfg)
    /\ g.kind = "DATABASE_ROLE_GRANT" =>
         \A h \in DOMAIN rows : h.kind = g.kind /\ h.on = g.on => h = g

\* Runs do to the grants only what the policy has: no grant that is not
\* declared, no revoke in create-or-update mode, none of what sync mode does
\* not list, and none of what a recognizable declaration asks for, however
\* runs, changes by others and crashes interleave.
Policy == INSTANCE GrantPolicy
ImplementsPolicy == Policy!Spec

\* The account gets to where the blueprint says, and stays there.
Converges == Ordinary => <>[](Settled \/ CannotSettle)

\* "Snowbytes will update Snowflake to match the blueprint exactly": the tool
\* revokes nothing the blueprint declares.
DeclaredStay ==
  [][ToolStep => Declared(cfg) \cap DOMAIN rows \subseteq DOMAIN rows']_vars
=============================================================================
