----------------------------- MODULE MCRestore ------------------------------
(* Instances of Restore for TLC.                                              *)
EXTENDS Restore, TLC

CONSTANTS p1, p2, main, topic, c1, c2, a, b, bx, one, two

\* bx is inside b.
MCParents == (a :> {}) @@ (b :> {}) @@ (bx :> {b})

\* Going from c1 to c2 changes one file and makes the other a directory.
MCTree == (c1 :> (a :> one @@ b :> one @@ bx :> Absent))
            @@ (c2 :> (a :> two @@ b :> Absent @@ bx :> one))

Snapshot(onMain, onTopic, cfg) ==
    [refs |-> (main :> onMain @@ topic :> onTopic), config |-> cfg]

\* The branch topic was created after the first snapshot, and main moved.
MCInitialLog == <<Snapshot(c1, Absent, 0), Snapshot(c2, c1, 1)>>

\* A history in which only the branches have changed.
MCBranchesLog == <<Snapshot(c1, Absent, 0), Snapshot(c2, c1, 0)>>

Symmetry == Permutations(Procs)
=============================================================================
