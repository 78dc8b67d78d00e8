------------------------------ MODULE OpLogAbs ------------------------------
(* What the operation log promises, with no processes, commits or refs.       *)
(*                                                                            *)
(* The log is a sequence of entries.  An entry is only ever added at the end; *)
(* every piece of the state it records is a value the repository really held  *)
(* in that piece; an entry that a snapshot generated differs from the entry   *)
(* before it.  The only other thing that can happen is that the log as a      *)
(* whole is deleted.                                                          *)
EXTENDS Naturals, Sequences

CONSTANTS
    Parts,      \* the pieces of a repository state: captured refs and files
    Values      \* what a piece can contain, absence being one of the contents

VARIABLES
    log,        \* the entries, oldest first
    held        \* per piece, every value the repository has held in it so far

vars == <<log, held>>

\* An entry: the recorded state, and whether a snapshot generated it or a
\* caller appended it with a message of its own.
Entries == [state : [Parts -> Values], generated : BOOLEAN]

Init ==
    /\ log = <<>>
    /\ held \in [Parts -> {{v} : v \in Values}]

\* The repository moves on.
Hold ==
    /\ held' \in [Parts -> SUBSET Values]
    /\ \A part \in Parts : held[part] \subseteq held'[part]
    /\ UNCHANGED log

Record(entry) ==
    /\ \A part \in Parts : entry.state[part] \in held[part]
    /\ (entry.generated /\ log # <<>>) => entry.state # log[Len(log)].state
    /\ log' = Append(log, entry)
    /\ UNCHANGED held

Forget ==
    /\ log' = <<>>
    /\ UNCHANGED held

Next == Hold \/ Forget \/ \E entry \in Entries : Record(entry)

Spec == Init /\ [][Next]_vars
=============================================================================
