------------------------------ MODULE History -------------------------------
(* History navigation: git op restore, undo and redo over the operation log.  *)
(*                                                                            *)
(* The log is a first-parent chain, so a commit is its position in the log    *)
(* and its parent the position before it.  The Git-op trailers of a commit    *)
(* are all that undo and redo know: there is no separate cursor.  A command   *)
(* is one action here; the steps of applying a state are Restore's.           *)
(*                                                                            *)
(* A definition marked "mutant" is a plausible bug in the definition after it *)
(* and is used nowhere: PROJECT.json swaps it in to see a property fail.      *)
EXTENDS Naturals, Sequences, FiniteSets, FiniteSetsExt

CONSTANTS
    States,         \* repository states
    InitialState,
    MaxLog,         \* bound: length of the log
    MaxDrifts       \* bound: changes that no hook records

ASSUME StatesAssumption == InitialState \in States
ASSUME BoundsAssumption == MaxLog \in Nat /\ MaxDrifts \in Nat

None == 0           \* no commit; commits are positions 1 .. Len(log)

Actions == {"none", "undo", "redo", "restore"}

\* A commit: its recorded state, its first Git-op trailer (action and target),
\* and the target of the restore trailer that accompanies an undo or a redo.
Commits == [state : States, action : Actions, target : Nat, restored : Nat]

VARIABLES
    log,        \* the commits of refs/op, oldest first
    repo,       \* the repository's state
    result,     \* what the last command reported: "applied", "unchanged" (the
                \* repository already was in that state) or "nothing" to do
    drifts      \* counter of the bound

vars == <<log, repo, result, drifts>>

Init == log = <<>> /\ repo = InitialState /\ result = "none" /\ drifts = 0

Tip == Len(log)
Parent(commit) == commit - 1

Plain(state) == [state |-> state, action |-> "none", target |-> None, restored |-> None]

-----------------------------------------------------------------------------
(* New work.                                                                  *)

\* A transaction whose hook records the new state, and whatever drift there was.
Work ==
    /\ Tip < MaxLog
    /\ \E state \in States :
        /\ state # repo
        /\ repo' = state
        /\ log' = IF Tip # None /\ log[Tip].state = state THEN log ELSE Append(log, Plain(state))
    /\ result' = "none"
    /\ UNCHANGED drifts

\* append, with a message of the caller's, whether or not anything has changed.
AppendExplicit ==
    /\ Tip < MaxLog
    /\ log' = Append(log, Plain(repo))
    /\ result' = "none"
    /\ UNCHANGED <<repo, drifts>>

\* A change nothing records: an edit of the config file, a detached HEAD.
Drift ==
    /\ drifts < MaxDrifts
    /\ drifts' = drifts + 1
    /\ \E state \in States : state # repo /\ repo' = state
    /\ result' = "none"
    /\ UNCHANGED log

-----------------------------------------------------------------------------
(* Plans.  A plan is the commit acted on and the commit whose state is applied.*)

\* operation_metadata reads the first Git-op trailer of a commit.
LastTrailer(commit) ==                                                  \* mutant
    IF log[commit].restored # None THEN log[commit].restored ELSE log[commit].target
Target(commit) == log[commit].target

\* plan_undo's first component, and the log position the tip stands for.
TipItself(commit) == commit                                             \* mutant
LogicalPosition(commit) ==
    CASE log[commit].action \in {"none", "restore"} -> commit
      [] log[commit].action = "undo"                -> log[commit].restored
      [] log[commit].action = "redo"                -> Target(commit)

\* next_redo_target: walk back from the redo to the nearest undo of what was
\* redone; the commit before that undo tells which commit to redo next.
UndosOf(undone, redo) ==
    {commit \in 1 .. redo - 1 : log[commit].action = "undo" /\ Target(commit) = undone}

NextRedoTarget(redo, undone) ==
    IF UndosOf(undone, redo) = {} THEN None
    ELSE LET previous == Parent(Max(UndosOf(undone, redo)))
         IN  IF previous # None /\ log[previous].action = "undo" THEN Target(previous) ELSE None

\* plan_redo: the target, or None for NothingToRedo.
RedoTarget ==
    IF Tip = None THEN None
    ELSE CASE log[Tip].action = "undo" -> Target(Tip)
           [] log[Tip].action = "redo" -> NextRedoTarget(Tip, Target(Tip))
           [] OTHER                    -> None

\* plan_undo: the target, or None for NothingToUndo.
UndoTarget ==
    IF Tip = None THEN None
    ELSE IF Parent(LogicalPosition(Tip)) = None THEN None ELSE LogicalPosition(Tip)

\* apply_action_with_trailers: apply the state of a commit and append what was
\* done.  A repository that already is in that state is left alone, log included.
Apply(action, target, restored, trailer) ==
    IF log[restored].state = repo
    THEN result' = "unchanged" /\ UNCHANGED <<log, repo, drifts>>
    ELSE /\ Tip < MaxLog
         /\ repo' = log[restored].state
         /\ log' = Append(log, [state |-> log[restored].state, action |-> action,
                                target |-> target, restored |-> trailer])
         /\ result' = "applied"
         /\ UNCHANGED drifts

Nothing == result' = "nothing" /\ UNCHANGED <<log, repo, drifts>>

\* restore_action: its one trailer names the commit.
Restore == \E commit \in 1 .. Tip : Apply("restore", commit, commit, None)

\* undo_action.
UndoWithoutRestore ==                                                   \* mutant
    \/ UndoTarget = None /\ Nothing
    \/ UndoTarget # None /\ Apply("undo", UndoTarget, Parent(UndoTarget), None)
Undo ==
    \/ UndoTarget = None /\ Nothing
    \/ UndoTarget # None /\ Apply("undo", UndoTarget, Parent(UndoTarget), Parent(UndoTarget))

\* redo_action.
Redo ==
    \/ RedoTarget = None /\ Nothing
    \/ RedoTarget # None /\ Apply("redo", RedoTarget, RedoTarget, RedoTarget)

\* Users may stop; the bound makes them.
Rest == Tip = MaxLog /\ UNCHANGED vars

Next == Rest \/ Work \/ AppendExplicit \/ Drift \/ Restore \/ Undo \/ Redo

Spec == Init /\ [][Next]_vars

-----------------------------------------------------------------------------
(* Properties.                                                                *)

\* The types; and every trailer names a commit that was on the log before, an
\* undo and a redo carrying a restore trailer next to their own.
TypeOK ==
    /\ log \in Seq(Commits) /\ repo \in States /\ drifts \in 0 .. MaxDrifts
    /\ result \in {"none", "applied", "unchanged", "nothing"}
    /\ \A i \in 1 .. Tip :
        /\ log[i].target \in IF log[i].action = "none" THEN {None} ELSE 1 .. i - 1
        /\ log[i].restored \in IF log[i].action \in {"undo", "redo"} THEN 1 .. i - 1 ELSE {None}

\* The position the trailers encode; the commits that are not an undo or a redo,
\* and the newest of them.
Cursor == IF Tip = None THEN None ELSE LogicalPosition(Tip)
WorkOf == {i \in 1 .. Tip : log[i].action \in {"none", "restore"}}
Top == IF Tip = None THEN None ELSE Max(WorkOf)

\* The trailers implement the undo cursor: whatever mix of work, restores,
\* undos and redos came before, an undo goes back by exactly one entry and a
\* redo forward by exactly one, and only up to where the redo chain ends.
Abstract == INSTANCE UndoCursor
                WITH log <- [i \in 1 .. Tip |-> log[i].state], cursor <- Cursor, top <- Top

AbstractSpec == Abstract!Spec

\* A redo right after an undo, and an undo right after a redo, go back to the
\* state the log had before that: the plan made from the trailers of the tip
\* agrees with the commit before the tip.
UndoRedoInverse ==
    Tip # None =>
        /\ log[Tip].action = "undo" =>
             RedoTarget # None /\ log[RedoTarget].state = log[Parent(Tip)].state
        /\ log[Tip].action = "redo" =>
             UndoTarget # None /\ log[Parent(UndoTarget)].state = log[Parent(Tip)].state

\* Action::Redo's documentation, "Reapply the next logical operation after an
\* undo": a redo finds its target as long as an undone operation has not been
\* redone and no new work has ended the chain.
RedoFindsNext == Cursor < Top => RedoTarget # None

\* undo_action's documentation, "Apply the next undo transition and append its
\* operation trailer": an undo that has something to undo appends its trailer,
\* so that the next undo goes further back.
UndoMovesOn == [][Undo /\ UndoTarget # None => log' # log]_vars
=============================================================================
