----------------------------- MODULE MCSnapshot -----------------------------
(* An instance of Snapshot for TLC.                                           *)
EXTENDS Snapshot

CONSTANTS t1, t2, text

main  == <<"heads", "main">>
mainX == <<"heads", "main-x">>
topic == <<"heads", "main", "topic">>
away  == <<"remotes", "main">>

\* '-' sorts before '/'.
MCNames == <<main, mainX, topic, away>>
MCComponents == <<"heads", "main", "main-x", "remotes", "topic">>

MCInitialRefs == [name \in {main, mainX} |-> t1]
=============================================================================
