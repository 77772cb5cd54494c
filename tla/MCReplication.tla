--------------------------- MODULE MCReplication ---------------------------
(* Model values and symmetry for the runs of Replication. *)
EXTENDS Replication, TLC

NodeAndOpSymmetry == Permutations(Nodes) \cup Permutations(Ops)
=============================================================================
