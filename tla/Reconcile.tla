------------------------------ MODULE Reconcile ------------------------------
(***************************************************************************)
(* What a blueprint may do to an account, whatever the state of its runs:  *)
(* every step makes one thing more like the manifest, or drops something   *)
(* that sync mode owns and the manifest does not have.  Others do as they  *)
(* like.                                                                   *)
(***************************************************************************)
EXTENDS Planner, Snowflake

CONSTANTS Configs, Accounts(_), Drifts(_, _), MaxMishaps

VARIABLES
  obj,      \* the account
  cfg,      \* the blueprint
  mishaps   \* how often others interfered

Init == cfg \in Configs /\ obj \in Accounts(cfg) /\ mishaps = 0

\* A resource that was asked for and is not there is created as asked for, at
\* first perhaps for another owner; a database brings its public schema.  One
\* that comes with another is created only to replace it.  A role that is
\* granted may be granted again.
CreateResource(u) ==
  /\ u \in Managed(cfg)
  /\ cfg.manifest[u].implicit => \E a \in Attr : AttrKind[a] = "create"
  /\ obj[u] = Absent \/ Type[u] = "ROLE_GRANT"
  /\ \E r \in Role : obj' = Created(obj, r, u, Want(cfg, u))

AlterField(u, a) ==
  /\ u \in Managed(cfg)
  /\ obj[u] # Absent
  /\ AttrKind[a] = "plain"
  /\ obj' = [obj EXCEPT ![u].attrs[a] = Want(cfg, u).attrs[a]]

\* The public schema of a database goes with it, asked for or not.
TransferOwnership(u) ==
  /\ u \in Managed(cfg)
  /\ obj[u] # Absent
  /\ \E v \in {u} \cup PublicSchemas(u) :
       /\ obj[v] # Absent
       /\ obj' = [obj EXCEPT ![v].owner = Want(cfg, u).owner]

DropResource(u) ==
  /\ cfg.run_mode = "SYNC"
  /\ Type[u] \in cfg.allowlist
  /\ u \notin SystemRole
  /\ u # SessionUser
  /\ Below(u) \cap DOMAIN cfg.manifest = {}
  /\ \E r \in Role : obj' = Dropped(obj, r, u)

ToolStep ==
  /\ ~ cfg.dry_run
  /\ \E u \in URN : \/ CreateResource(u)
                    \/ \E a \in Attr : AlterField(u, a)
                    \/ TransferOwnership(u)
                    \/ DropResource(u)
  /\ UNCHANGED <<cfg, mishaps>>

\* Others change an object, or only get in the way of a run.
Mishap ==
  /\ mishaps < MaxMishaps /\ mishaps' = mishaps + 1
  /\ obj' \in Drifts(cfg, obj) \cup {obj}
  /\ UNCHANGED cfg

Next == ToolStep \/ Mishap

Spec == Init /\ [][Next]_<<obj, cfg, mishaps>>
=============================================================================
