----------------------------- MODULE MCSavedPlan -----------------------------
(* Plans of small blueprints, saved and applied later. *)
EXTENDS MCBlueprint, SavedPlan

\* Two fields of a schema to repair and its owner to change.
repair == blueprint([u \in {r, g, db, pub, sch} |->
  CASE u = sch -> resource(r) [] OTHER -> pointer])

dry_repair == [repair EXCEPT !.dry_run = TRUE]

\* Blueprints that are refused at some stage, and the ones above.
SavedConfigs == {repair, dry_repair, sync, sync_users, self_owned, no_owner, database_only,
                 missing_schema}
SavedAccounts(c) ==
  CASE c = sync -> SyncAccounts({r, g, db, pub, sch, old})
    [] c = sync_users -> BareAccounts(c)
    [] c \in {repair, dry_repair} -> {o \in Accounts_of({r, g, db, pub, sch}, r) : o[sch] # Absent}
    [] OTHER -> RefusedAccounts(c)
=============================================================================
