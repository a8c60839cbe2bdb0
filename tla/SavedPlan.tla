------------------------------ MODULE SavedPlan ------------------------------
(***************************************************************************)
(* Plans that outlive the run that made them: the list Blueprint.plan      *)
(* returns to its caller, who may hand it to apply more than once, and the *)
(* JSON file of `snowbytes plan --out`, which `snowbytes apply --plan`     *)
(* reads later.  In between the account changes and the process may die.   *)
(***************************************************************************)
EXTENDS Blueprint

CONSTANT NoPlan

VARIABLES
  kept,     \* the plan the caller of Blueprint.plan holds, or NoPlan
  file,     \* the plan in the file, or NoPlan
  source    \* where the plan of the run comes from

saved == <<kept, file, source>>

SavedInit == Init /\ kept = NoPlan /\ file = NoPlan /\ source = "own"

-----------------------------------------------------------------------------
\* The run ends with the plan: Blueprint.plan returns, or the plan is written.
EndWithPlan ==
  /\ pc = "planned"
  /\ source = "own"
  /\ pc' = "done"
  /\ plan' = <<>>
  /\ clean' = FALSE
  /\ UNCHANGED <<obj, role, session_ctx, cfg, error, refs, remote, available, queue,
                 mishaps, source>>

ReturnPlan == EndWithPlan /\ kept' = plan /\ UNCHANGED file
WritePlan  == EndWithPlan /\ file' = plan /\ UNCHANGED kept

\* Mutant: a plan that is given is not checked again.
GivePlan_Unchecked(p, ctx, active, from) ==
  /\ ~ running
  /\ p # NoPlan
  /\ session_ctx' = ctx
  /\ role' = active
  /\ plan' = p
  /\ pc' = "compiling"
  /\ error' = "none"
  /\ refs' = {}
  /\ remote' = NoState
  /\ available' = ctx.available_roles
  /\ queue' = <<>>
  /\ clean' = FALSE
  /\ source' = from
  /\ UNCHANGED <<obj, cfg, kept, file, mishaps>>

\* apply(session, plan): nothing is fetched and nothing is checked but the
\* session's user, in BeginApply.
GivePlan(p, ctx, active, from) ==
  /\ ~ running
  /\ p # NoPlan
  /\ session_ctx' = ctx
  /\ role' = active
  /\ plan' = p
  /\ pc' = "planned"
  /\ error' = "none"
  /\ refs' = {}
  /\ remote' = NoState
  /\ available' = {}
  /\ queue' = <<>>
  /\ clean' = FALSE
  /\ source' = from
  /\ UNCHANGED <<obj, cfg, kept, file, mishaps>>

ApplyKept == session_ctx # NoSession /\ GivePlan(kept, session_ctx, role, "kept")

\* plan_from_dict reads the container of a create, which to_dict does not write.
cannotLoad(p) == \E i \in DOMAIN p : p[i].op = "create"

ApplyFile ==
  /\ file # NoPlan
  /\ ~ cannotLoad(file)
  /\ GivePlan(file, [role |-> DefaultRole, available_roles |-> AvailableRoles(obj)],
              DefaultRole, "file")

FailToLoad ==
  /\ ~ running
  /\ file # NoPlan
  /\ cannotLoad(file)
  /\ Raise("KeyError")
  /\ clean' = FALSE
  /\ source' = "file"
  /\ UNCHANGED <<obj, role, session_ctx, cfg, refs, remote, available, mishaps, kept, file>>

\* Compiling an update takes a field out of the delta of the caller's plan.
Consumed(p, i) ==
  IF p[i].op # "update" \/ p[i].delta = {} THEN p
  ELSE [p EXCEPT ![i].delta = @ \ {AlterLast(p[i]).attr}]

CompileSaved ==
  /\ CompileChange
  /\ kept' = IF source = "kept" /\ pc' # "raised"
               THEN Consumed(kept, Len(kept) - Len(plan) + 1)
               ELSE kept
  /\ UNCHANGED <<file, source>>

-----------------------------------------------------------------------------
SavedNext ==
  \/ (StartRun \/ StartRunOnSameSession) /\ source' = "own" /\ UNCHANGED <<kept, file>>
  \/ CompileSaved
  \/ ReturnPlan
  \/ WritePlan
  \/ ApplyKept
  \/ ApplyFile
  \/ FailToLoad
  \/ Crash /\ kept' = NoPlan /\ source' = "own" /\ UNCHANGED file
  \/ /\ \/ FetchRemoteState
        \/ MakePlan
        \/ BeginApply
        \/ StartExecuting
        \/ ExecuteStatement
        \/ SkipInvalidGrant
        \/ FinishRun
        \/ Drift
     /\ UNCHANGED saved

SavedSpec == SavedInit /\ [][SavedNext]_<<vars, saved>>
=============================================================================
