----------------------------- MODULE MCSyncTasks -----------------------------
(* Small instances of SyncTasks: a scope that is retained and needs the gate  *)
(* (usage or full), one that does neither, and two callers.                   *)
EXTENDS SyncTasks, TLC

=============================================================================
