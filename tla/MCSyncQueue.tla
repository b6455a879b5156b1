---------------------------- MODULE MCSyncQueue ----------------------------
(***************************************************************************)
(* Instances of SyncQueue for TLC.                                         *)
(***************************************************************************)
EXTENDS SyncQueue

CONSTANTS full, base, feature, task, otherTask, w1, w2

\* Key k belongs to workspace w1, except the task of the other workspace.
MCWs == [k \in Keys |-> IF k = otherTask THEN w2 ELSE w1]
=============================================================================
