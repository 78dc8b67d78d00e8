----------------------------- MODULE MCHistory ------------------------------
(* Instances of History for TLC.                                              *)
EXTENDS History, TLC

CONSTANTS s0, s1, s2, s3

\* The states other than the initial one are alike.
Symmetry == Permutations(States \ {InitialState})
=============================================================================
