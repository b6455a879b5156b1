--------------------------- MODULE MCSnapshotStore ---------------------------
EXTENDS SnapshotStore, TLC

MCProtected == {"ready"}
MCStatuses == {"draft", "ready"}

Symmetry == Permutations(Features)

=============================================================================
