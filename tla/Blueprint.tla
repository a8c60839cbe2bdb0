------------------------------ MODULE Blueprint ------------------------------
(***************************************************************************)
(* Runs of a blueprint: plan and apply, one after the other, against an    *)
(* account that others change too.  A run fetches the session context and  *)
(* the remote state, computes a plan, compiles it change by change into    *)
(* SQL and executes the statements one by one; it may raise at each stage  *)
(* and be killed at any moment, and the next run starts from what it left. *)
(***************************************************************************)
EXTENDS Planner, Snowflake

CONSTANTS
  Configs,        \* the blueprints to run
  Accounts(_),    \* the accounts a blueprint may find
  Drifts(_, _),   \* what others may make of an account
  DefaultRole,    \* the active role of a new session
  MaxMishaps,     \* bound on drifts, crashes and refused grants
  ReuseSession    \* whether a later run may be given the session of an earlier

\* A manifest has the containers of what is in it, and every class with an owner
\* has a default for it.
ASSUME BlueprintAssumption ==
  /\ \A c \in Configs :
       /\ accepted(c)
       /\ DOMAIN c.manifest \subseteq URN
       /\ \A u \in DOMAIN c.manifest : Container[u] \in DOMAIN c.manifest \cup {NoURN}
       /\ \A u \in Managed(c) : /\ Want(c, u) \in Data
                                /\ Type[u] \notin Ownerless => Want(c, u).owner # NoURN
       /\ Accounts(c) \subseteq AccountStates
  /\ DefaultRole \in Role
  /\ MaxMishaps \in Nat

VARIABLES
  obj,            \* the account
  role,           \* the session's active role
  session_ctx,    \* what fetch_session cached for the session, or NoSession
  cfg,            \* the blueprint
  pc,             \* where the run is
  error,          \* why it raised
  refs,           \* the manifest's references
  remote,         \* the fetched remote state
  plan,           \* the changes planned and not yet compiled
  available,      \* the roles compile_plan_to_sql counts on
  queue,          \* the SQL statements not yet executed
  clean,          \* a run with a session of its own that nobody has disturbed
  mishaps         \* what went wrong so far

vars == <<obj, role, session_ctx, cfg, pc, error, refs, remote, plan, available,
          queue, clean, mishaps>>

NoSession == [role |-> NoURN, available_roles |-> {}]
Stages ==
  {"idle", "fetching", "planning", "planned", "compiling", "executing", "done", "raised"}
Errors ==
  {"none", "SyncNeedsAllowlist", "MissingResource", "NotImplemented", "NotADAG",
   "NonConformingPlan", "DropsSessionUser", "MissingPrivilege", "KeyError",
   "ACCESS_CONTROL", "DOES_NOT_EXIST", "OBJECT_ALREADY_EXISTS"}
running == pc \notin {"idle", "done", "raised"}
NoState == [u \in {} |-> Absent]

-----------------------------------------------------------------------------
Init ==
  /\ cfg \in Configs
  /\ obj \in Accounts(cfg)
  /\ role = DefaultRole
  /\ session_ctx = NoSession
  /\ pc = "idle"
  /\ error = "none"
  /\ refs = {}
  /\ remote = NoState
  /\ plan = <<>>
  /\ available = {}
  /\ queue = <<>>
  /\ clean = TRUE
  /\ mishaps = 0

Raise(err) ==
  /\ pc' = "raised"
  /\ error' = err
  /\ plan' = <<>>
  /\ queue' = <<>>

\* fetch_session, cached per session object for ever, and generate_manifest.
Begin(ctx, active, undisturbed) ==
  /\ ~ running
  /\ session_ctx' = ctx
  /\ role' = active
  /\ refs' = Refs(cfg, ctx.available_roles)
  /\ pc' = "fetching"
  /\ error' = "none"
  /\ remote' = NoState
  /\ plan' = <<>>
  /\ available' = {}
  /\ clean' = undisturbed
  /\ UNCHANGED <<obj, cfg, queue, mishaps>>

StartRun ==
  Begin([role |-> DefaultRole, available_roles |-> AvailableRoles(obj)], DefaultRole,
        TRUE)

StartRunOnSameSession ==
  /\ ReuseSession
  /\ session_ctx # NoSession
  /\ Begin(session_ctx, role, FALSE)

\* fetch_remote_state
FetchRemoteState ==
  /\ pc = "fetching"
  /\ IF cfg.run_mode = "SYNC" /\ cfg.allowlist = {}
       THEN Raise("SyncNeedsAllowlist") /\ UNCHANGED remote
     ELSE IF MissingRefs(cfg, obj, refs) # {}
       THEN Raise("MissingResource") /\ UNCHANGED remote
     ELSE /\ remote' = [u \in Fetched(cfg, obj) |-> obj[u]]
          /\ pc' = "planning"
          /\ UNCHANGED <<error, plan, queue>>
  /\ UNCHANGED <<obj, role, session_ctx, cfg, refs, available, clean, mishaps>>

\* _plan and _raise_for_nonconforming_plan.
MakePlan ==
  /\ pc = "planning"
  /\ IF DiffError(cfg, remote) # "none" THEN Raise(DiffError(cfg, remote))
     ELSE IF isCyclic(refs) THEN Raise("NotADAG")
     ELSE \E p \in Plans(cfg, remote, refs) :
            IF \E i \in DOMAIN p : ~ conforms(cfg, p[i])
              THEN Raise("NonConformingPlan")
            ELSE /\ plan' = p
                 /\ pc' = "planned"
                 /\ UNCHANGED <<error, queue>>
  /\ UNCHANGED <<obj, role, session_ctx, cfg, refs, remote, available, clean, mishaps>>

\* apply, given the plan: _raise_if_plan_would_drop_session_user.
BeginApply ==
  /\ pc = "planned"
  /\ IF \E i \in DOMAIN plan : would_drop_session_user(plan[i])
       THEN Raise("DropsSessionUser")
       ELSE pc' = "compiling" /\ UNCHANGED <<error, plan, queue>>
  /\ available' = session_ctx.available_roles
  /\ UNCHANGED <<obj, role, session_ctx, cfg, refs, remote, clean, mishaps>>

\* One turn of the loop of compile_plan_to_sql; all of it precedes execution.
\* popitem raises for a delta that was consumed already, see SavedPlan.
CompileChange ==
  /\ pc = "compiling"
  /\ plan # <<>>
  /\ LET change == Head(plan)
         runner == execution_role(change, available, session_ctx.role)
     IN  IF runner = NoURN
           THEN Raise("MissingPrivilege") /\ UNCHANGED available
         ELSE IF change.op = "update" /\ change.delta = {}
           THEN Raise("KeyError") /\ UNCHANGED available
           ELSE /\ queue' = queue \o sql_commands_for_change(change, runner)
                /\ plan' = Tail(plan)
                /\ available' = RolesAfter(change, available)
                /\ UNCHANGED <<pc, error>>
  /\ UNCHANGED <<obj, role, session_ctx, cfg, refs, remote, clean, mishaps>>

StartExecuting ==
  /\ pc = "compiling"
  /\ plan = <<>>
  /\ pc' = "executing"
  /\ UNCHANGED <<obj, role, session_ctx, cfg, error, refs, remote, plan, available,
                 queue, clean, mishaps>>

\* The errors of a statement that apply logs and steps over.
isSkipped(s, err) ==
  \/ err \in {"ALREADY_EXISTS", "INVALID_GRANT"}
  \/ err = "DOES_NOT_EXIST" /\ s.sql = "DROP"

\* client.execute: USE ROLE is not sent for the role that is active already.
execute(s) ==
  IF s.sql = "USE ROLE" /\ s.role = role THEN {Ok(obj, role)}
  ELSE Outcomes(obj, role, s)

\* Mutant: a dry run executes.
ExecuteStatement_Dry ==
  /\ pc = "executing"
  /\ queue # <<>>
  /\ \E result \in execute(Head(queue)) :
       /\ obj' = result.obj
       /\ role' = result.role
       /\ IF result.err = "none" \/ isSkipped(Head(queue), result.err)
            THEN /\ queue' = Tail(queue)
                 /\ UNCHANGED <<pc, error, plan>>
            ELSE Raise(result.err)
  /\ UNCHANGED <<session_ctx, cfg, refs, remote, available, clean, mishaps>>

\* Mutant: a statement that is stepped over stays in the queue.
ExecuteStatement_NoPop ==
  /\ pc = "executing"
  /\ queue # <<>>
  /\ \E result \in (IF cfg.dry_run THEN {Ok(obj, role)}
                    ELSE execute(Head(queue))) :
       /\ obj' = result.obj
       /\ role' = result.role
       /\ IF result.err = "none"
            THEN queue' = Tail(queue) /\ UNCHANGED <<pc, error, plan>>
          ELSE IF isSkipped(Head(queue), result.err)
            THEN UNCHANGED <<pc, error, plan, queue>>
          ELSE Raise(result.err)
  /\ UNCHANGED <<session_ctx, cfg, refs, remote, available, clean, mishaps>>

\* sql = action_queue.pop(0), and execute it unless this is a dry run.
ExecuteStatement ==
  /\ pc = "executing"
  /\ queue # <<>>
  /\ \E result \in (IF cfg.dry_run THEN {Ok(obj, role)}
                    ELSE execute(Head(queue))) :
       /\ obj' = result.obj
       /\ role' = result.role
       /\ IF result.err = "none" \/ isSkipped(Head(queue), result.err)
            THEN /\ queue' = Tail(queue)
                 /\ UNCHANGED <<pc, error, plan>>
            ELSE Raise(result.err)
  /\ UNCHANGED <<session_ctx, cfg, refs, remote, available, clean, mishaps>>

\* A grant refused with INVALID_GRANT_ERR is logged and stepped over.
SkipInvalidGrant ==
  /\ pc = "executing"
  /\ queue # <<>>
  /\ Head(queue).sql = "GRANT OWNERSHIP"
  /\ ~ cfg.dry_run
  /\ mishaps < MaxMishaps
  /\ isSkipped(Head(queue), "INVALID_GRANT")
  /\ queue' = Tail(queue)
  /\ clean' = FALSE
  /\ mishaps' = mishaps + 1
  /\ UNCHANGED <<obj, role, session_ctx, cfg, pc, error, refs, remote, plan, available>>

FinishRun ==
  /\ pc = "executing"
  /\ queue = <<>>
  /\ pc' = "done"
  /\ UNCHANGED <<obj, role, session_ctx, cfg, error, refs, remote, plan, available,
                 queue, clean, mishaps>>

-----------------------------------------------------------------------------
\* The process is killed: the run's data is lost, the account stays as it is.
Crash ==
  /\ running
  /\ mishaps < MaxMishaps
  /\ pc' = "idle"
  /\ session_ctx' = NoSession
  /\ role' = DefaultRole
  /\ refs' = {}
  /\ remote' = NoState
  /\ plan' = <<>>
  /\ available' = {}
  /\ queue' = <<>>
  /\ clean' = FALSE
  /\ mishaps' = mishaps + 1
  /\ UNCHANGED <<obj, cfg, error>>

\* Somebody else changes the account.
Drift ==
  /\ mishaps < MaxMishaps
  /\ \E o \in Drifts(cfg, obj) \cap AccountStates : obj' = o /\ obj # o
  /\ clean' = FALSE
  /\ mishaps' = mishaps + 1
  /\ UNCHANGED <<role, session_ctx, cfg, pc, error, refs, remote, plan, available, queue>>

ToolStep ==
  \/ FetchRemoteState
  \/ MakePlan
  \/ BeginApply
  \/ CompileChange
  \/ StartExecuting
  \/ ExecuteStatement
  \/ FinishRun

Next ==
  \/ StartRun
  \/ StartRunOnSameSession
  \/ ToolStep
  \/ SkipInvalidGrant
  \/ Crash
  \/ Drift

Spec == Init /\ [][Next]_vars

\* The loops of the tool go on by themselves, and whoever runs the blueprint
\* (a CI job) starts it again and again.
FairSpec == Spec /\ WF_vars(ToolStep) /\ WF_vars(StartRun)

-----------------------------------------------------------------------------
TypeOK ==
  /\ cfg \in Configs
  /\ obj \in AccountStates
  /\ role \in Role
  /\ session_ctx.role \in Role \cup {NoURN}
  /\ session_ctx.available_roles \subseteq Role
  /\ pc \in Stages
  /\ error \in Errors
  /\ refs \in Graph
  /\ DOMAIN remote \subseteq URN
  /\ \A u \in DOMAIN remote : remote[u] \in Data
  /\ \A i \in DOMAIN plan : plan[i].urn \in URN
  /\ available \subseteq Role
  /\ \A i \in DOMAIN queue :
       queue[i].sql \in {"USE ROLE", "CREATE", "ALTER", "GRANT OWNERSHIP", "DROP"}
  /\ clean \in BOOLEAN
  /\ mishaps \in 0 .. MaxMishaps

\* What compile_plan_to_sql promises apply: whatever earlier runs, crashes and
\* other people left behind, a run nobody disturbs and that has a session of
\* its own is ordered so that no statement is refused and no role is missing.
CleanRunSucceeds == clean => error = "none"

\* The order of what is planned, at every moment of a run: a drop comes last, a
\* change comes after those of all it references, and a resource is altered before
\* it is transferred and changed at most once otherwise.
PlanOrdered ==
  \A i, j \in DOMAIN plan : i < j /\ plan[j].op # "drop" =>
    /\ plan[i].op # "drop"
    /\ <<plan[i].urn, plan[j].urn>> \notin refs
    /\ plan[i].urn = plan[j].urn => plan[i].op = "update" /\ plan[j].op = "transfer"

\* The fields of u, seen in account o, that the blueprint manages and that differ.
WrongFields(o, u) == PlainDelta(Delta(o[u], Want(cfg, u)))

\* u has come as far as one run brings it: it exists, belongs to the role asked
\* for, and one of the fields the plan saw wrong has been put right.
Reached(u) ==
  /\ obj[u] # Absent
  /\ obj[u].owner = Want(cfg, u).owner
  /\ LET before == IF u \in DOMAIN remote THEN WrongFields(remote, u) ELSE {}
     IN  /\ WrongFields(obj, u) \subseteq before
         /\ before # {} => WrongFields(obj, u) # before

\* After a run nobody disturbed, every resource asked for has come that far and,
\* in sync mode, nothing listed is left that the manifest does not have.
CleanRunSettles ==
  pc = "done" /\ clean /\ ~ cfg.dry_run =>
    /\ \A u \in Managed(cfg) : Reached(u)
    /\ Fetched(cfg, obj) \subseteq DOMAIN cfg.manifest

\* "TRANSFER actions occur strictly after CHANGE actions, so we use the before
\* owner as the role for the change": when a run nobody disturbs alters or drops
\* a resource that exists, the active role owns the resource at that moment.
ActsAsOwner ==
  [][ pc = "executing" /\ queue # <<>> /\ Head(queue).sql \in {"ALTER", "DROP"}
        /\ Type[Head(queue).urn] # "ROLE_GRANT"
        /\ obj[Head(queue).urn] # Absent /\ clean /\ obj' # obj /\ clean'
      => role = obj[Head(queue).urn].owner ]_vars

\* The account is what the blueprint says.
InSync ==
  /\ \A u \in Managed(cfg) : /\ obj[u] # Absent
                             /\ obj[u].owner = Want(cfg, u).owner
                             /\ WrongFields(obj, u) = {}
  /\ Fetched(cfg, obj) \subseteq DOMAIN cfg.manifest

\* Run again and again, the blueprint brings the account where it says and keeps
\* it there, though single runs crash, raise or repair only part of it.
Converges == <>[](cfg.dry_run \/ InSync)

\* A run that has begun comes to an end: it completes, raises or is killed.
RunsEnd == running ~> ~ running

Reconciler == INSTANCE Reconcile
ImplementsReconcile == Reconciler!Spec
=============================================================================
