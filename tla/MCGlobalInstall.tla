-------------------------- MODULE MCGlobalInstall ---------------------------
(* An instance of GlobalInstall for TLC.                                      *)
EXTENDS GlobalInstall, TLC

CONSTANTS p1, p2

Symmetry == Permutations(Procs)
=============================================================================
