----------------------------- MODULE UndoCursor -----------------------------
(* What undo and redo promise: a cursor that moves one entry at a time over   *)
(* the operation log.                                                         *)
(*                                                                            *)
(* Undo and redo never rewrite the log: reapplying the state of an entry is   *)
(* itself appended.  New work, or a restore, ends the redo chain: the cursor  *)
(* jumps to the new end of the log, and everything appended before it, undos  *)
(* and redos included, is what the next undos walk back over.                 *)
EXTENDS Naturals, Sequences

CONSTANT States     \* repository states

VARIABLES
    log,        \* the recorded states, oldest first
    cursor,     \* the entry whose state is the logical current one; 0: none
    top         \* where the redo chain ends

vars == <<log, cursor, top>>

Init == log = <<>> /\ cursor = 0 /\ top = 0

\* A snapshot, an explicit append or a restore.
Record(state) ==
    /\ log' = Append(log, state)
    /\ cursor' = Len(log) + 1 /\ top' = Len(log) + 1

Undo ==
    /\ cursor > 1
    /\ log' = Append(log, log[cursor - 1])
    /\ cursor' = cursor - 1
    /\ UNCHANGED top

Redo ==
    /\ cursor < top
    /\ log' = Append(log, log[cursor + 1])
    /\ cursor' = cursor + 1
    /\ UNCHANGED top

Next == Undo \/ Redo \/ \E state \in States : Record(state)

Spec == Init /\ [][Next]_vars
=============================================================================
