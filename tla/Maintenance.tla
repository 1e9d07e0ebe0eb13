---------------------------- MODULE Maintenance ----------------------------
(***************************************************************************)
(* The commands an operator runs against the dashboard's database, side by *)
(* side: the rebuild and the clean-up of the listings, the pruning of old  *)
(* rows and the copy of a database.  No two of the four models share a     *)
(* table, so that a behaviour of the whole is one of each; "command" says  *)
(* which of them a behaviour follows, and the others stay where they begin.*)
(***************************************************************************)
EXTENDS TestsRollup, ListingCleanup, PruneDb, UpdateDb

VARIABLE command

maintenanceVars == <<command, rollupVars, cleanVars, pruneVars, updVars>>

(* Where a command begins that this behaviour does not follow.             *)
PruneIdle == incidents = {} /\ age = [x \in PruneRows |-> "old"]
UpdateIdle ==
    /\ live = UpdRows
    /\ options = [related |-> FALSE, origins |-> FALSE, table |-> "all"]

MaintenanceInit ==
    /\ RollupInit /\ CleanInit /\ PruneInit /\ UpdInit
    /\ command \in {"rollup", "cleanup", "prune", "update"}
    /\ command = "prune" \/ PruneIdle
    /\ command = "update" \/ UpdateIdle

Rollup == command = "rollup" /\ RollupNext /\ UNCHANGED <<cleanVars, pruneVars, updVars>>
Clean == command = "cleanup" /\ CleanNext /\ UNCHANGED <<rollupVars, pruneVars, updVars>>
Prune == command = "prune" /\ PruneNext /\ UNCHANGED <<rollupVars, cleanVars, updVars>>
Update == command = "update" /\ UpdNext /\ UNCHANGED <<rollupVars, cleanVars, pruneVars>>

MaintenanceNext == (Rollup \/ Clean \/ Prune \/ Update) /\ UNCHANGED command

MaintenanceSpec == MaintenanceInit /\ [][MaintenanceNext]_maintenanceVars

(* Every variable of the four holds a value of its table or program point; *)
(* what they define of one another's data (a tree's latest checkout, the   *)
(* rows a run is to delete, the rows of an archive's file) is of its kind. *)
MaintenanceTypeOK == RollupTypeOK /\ CleanTypeOK /\ PruneTypeOK /\ UpdTypeOK
=============================================================================
