----------------------------- MODULE GrantPolicy -----------------------------
(***************************************************************************)
(* What a blueprint may do to the grants of an account, whatever becomes   *)
(* of its runs: grant what it declares, and in sync mode revoke what it    *)
(* manages and nothing recognizable declares.  Others do as they like.     *)
(***************************************************************************)
EXTENDS GrantRows, Naturals

CONSTANTS Configs, Accounts(_), MaxMishaps

VARIABLES
  rows,     \* the grants of the account
  cfg,      \* the blueprint
  mishaps   \* how often others interfered

Init == cfg \in Configs /\ rows \in Accounts(cfg) /\ mishaps = 0

Grant(d) == rows' = Granted(rows, d)

Revoke(g) ==
  /\ Revocable(cfg, g)
  /\ \A d \in cfg.declared : Recognized(d) => g \notin Means(d)
  /\ rows' = Revoked(rows, g)

ToolStep ==
  /\ \/ \E d \in cfg.declared : Grant(d)
     \/ \E g \in DOMAIN rows : Revoke(g)
  /\ UNCHANGED <<cfg, mishaps>>

\* Others change the rows, or only stop a run.
Mishap ==
  /\ mishaps < MaxMishaps /\ mishaps' = mishaps + 1
  /\ rows' \in Drifts(cfg, rows) \cup {rows}
  /\ UNCHANGED cfg

Next == ToolStep \/ Mishap

Spec == Init /\ [][Next]_<<rows, cfg, mishaps>>
=============================================================================
