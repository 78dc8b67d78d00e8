------------------------------ MODULE MCOpLog -------------------------------
(* Instances of OpLog for TLC.                                                *)
EXTENDS OpLog, TLC

CONSTANTS main, topic, p1, p2

MCInitialRepo == [part \in Refs \cup Files |-> 0]
MCFiles == {"config"}
Symmetry == Permutations(Procs)
=============================================================================
