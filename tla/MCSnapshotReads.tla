-------------------------- MODULE MCSnapshotReads --------------------------
(***************************************************************************)
(* Two directories, the second of which may declare the first one's id.    *)
(***************************************************************************)
EXTENDS SnapshotReads

CONSTANTS d1, d2

MCDirs == {d1, d2}
MCOrder == <<d1, d2>>
=============================================================================
