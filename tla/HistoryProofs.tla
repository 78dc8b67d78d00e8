--------------------------- MODULE HistoryProofs ----------------------------
(* Theorems about History, for every set of states and every bound.           *)
(*                                                                            *)
(* The trailers are all that undo and redo know.  CursorInv says what chain   *)
(* of trailers the log can hold: an undo stands one position before the one   *)
(* its predecessor stands for, a redo one position after.                     *)
EXTENDS History, WellFoundedInduction, TLAPS

Worked(i) == log[i].action \in {"none", "restore"}

CursorInv ==
    \A i \in 1 .. Tip :
        /\ LogicalPosition(i) \in 1 .. i
        /\ log[i].state = log[LogicalPosition(i)].state
        /\ \E j \in 1 .. i : Worked(j) /\ LogicalPosition(i) <= j
        /\ log[i].action = "undo" =>
             i > 1 /\ log[i].target = LogicalPosition(i - 1) /\ log[i].restored + 1 = log[i].target
        /\ log[i].action = "redo" =>
             i > 1 /\ log[i].target = LogicalPosition(i - 1) + 1 /\ log[i].restored = log[i].target

\* What Max chooses among positions of the log.
LEMMA MaxOfPositions ==
    ASSUME NEW n \in Nat, NEW S \in SUBSET (1 .. n), S # {}
    PROVE  Max(S) \in S /\ \A y \in S : y <= Max(S)
<1> DEFINE Below == {n - x : x \in S}
<1>1. PICK some \in S : TRUE  OBVIOUS
<1>2. PICK least \in Below : \A m \in Below : least <= m
  <2>1. Below \subseteq Nat
    <3> SUFFICES ASSUME NEW x \in S PROVE n - x \in Nat  OBVIOUS
    <3>1. x \in 1 .. n  OBVIOUS
    <3> QED  BY <3>1
  <2>2. n - some \in Below  OBVIOUS
  <2>3. PICK least \in Below : \A m \in Below : ~ (<<m, least>> \in OpToRel(<, Nat))
    BY <2>1, <2>2, NatLessThanWellFounded, WFMin, Zenon
  <2>4. \A m \in Below : ~ (m < least)  BY <2>1, <2>3 DEF OpToRel
  <2> HIDE DEF Below
  <2> QED  BY <2>1, <2>4
<1>3. PICK x \in S : least = n - x  BY <1>2
<1>4. \A y \in S : n - x <= n - y  BY <1>2, <1>3
<1>5. \A y \in S : x >= y  BY <1>3, <1>4
<1>6. Max(S) \in S /\ \A y \in S : Max(S) >= y  BY <1>3, <1>5, Zenon DEF Max
<1> QED  BY <1>6

\* A commit that is appended stands at the new tip; the others are as before.
LEMMA AppendFrame ==
    ASSUME log \in Seq(Commits), NEW new \in Commits, log' = Append(log, new)
    PROVE  /\ Tip \in Nat /\ Tip' = Tip + 1 /\ log' \in Seq(Commits)
           /\ log'[Tip + 1] = new
           /\ \A i \in 1 .. Tip : log'[i] = log[i] /\ log[i] \in Commits
BY DEF Tip

\* What the trailers of an old commit say does not change.
LEMMA PositionFrame ==
    ASSUME log \in Seq(Commits), NEW new \in Commits, log' = Append(log, new)
    PROVE  \A i \in 1 .. Tip : LogicalPosition(i)' = LogicalPosition(i) /\ Worked(i)' = Worked(i)
BY AppendFrame DEF LogicalPosition, Target, Worked

\* An undo is sent one position before the one the tip stands for.
LEMMA UndoPlan ==
    ASSUME TypeOK, CursorInv, UndoTarget # None
    PROVE  /\ Tip \in Nat /\ Tip >= 1
           /\ UndoTarget = LogicalPosition(Tip) /\ UndoTarget \in 2 .. Tip
<1>1. Tip \in Nat /\ Tip >= 1  BY DEF UndoTarget, None, TypeOK, Tip
<1>2. LogicalPosition(Tip) \in 1 .. Tip  BY <1>1 DEF CursorInv
<1> QED  BY <1>1, <1>2 DEF UndoTarget, None, Parent

\* A redo is sent one position after it, and not past the newest work:
\* next_redo_target's walk arrives there, or finds nothing.
LEMMA RedoPlan ==
    ASSUME TypeOK, CursorInv, RedoTarget # None
    PROVE  /\ Tip \in Nat /\ Tip >= 1
           /\ RedoTarget = LogicalPosition(Tip) + 1
           /\ \E j \in 1 .. Tip : Worked(j) /\ RedoTarget <= j
<1>1. Tip \in Nat /\ Tip >= 1  BY DEF RedoTarget, None, TypeOK, Tip
<1>2. log[Tip] \in Commits  BY <1>1 DEF TypeOK, Tip
<1>3. CASE log[Tip].action = "undo"
  <2>1. RedoTarget = log[Tip].target  BY <1>1, <1>3 DEF RedoTarget, None, Target
  <2>2. /\ Tip > 1 /\ log[Tip].target = LogicalPosition(Tip - 1)
        /\ log[Tip].restored + 1 = log[Tip].target
    BY <1>1, <1>3 DEF CursorInv
  <2>3. LogicalPosition(Tip) = log[Tip].restored  BY <1>3 DEF LogicalPosition
  <2>4. \E j \in 1 .. Tip - 1 : Worked(j) /\ LogicalPosition(Tip - 1) <= j
    BY <1>1, <2>2 DEF CursorInv
  <2> QED  BY <1>1, <2>1, <2>2, <2>3, <2>4
<1>4. CASE log[Tip].action = "redo"
  <2> DEFINE undone == log[Tip].target
             S == UndosOf(undone, Tip)
             last == Max(S)
  <2>1. RedoTarget = NextRedoTarget(Tip, undone)  BY <1>1, <1>4 DEF RedoTarget, None, Target
  <2>2. S # {}  BY <2>1 DEF NextRedoTarget
  <2>3. S \in SUBSET (1 .. Tip)  BY <1>1 DEF UndosOf
  <2>4. last \in S  BY <1>1, <2>2, <2>3, MaxOfPositions
  <2>5. last \in 1 .. Tip - 1 /\ log[last].action = "undo" /\ log[last].target = undone
    BY <2>4 DEF UndosOf, Target
  <2>6. last > 1 /\ log[last].target = LogicalPosition(last - 1)
    BY <1>1, <2>5 DEF CursorInv
  <2>7. log[last - 1].action = "undo" /\ RedoTarget = log[last - 1].target
    BY <2>1, <2>2 DEF NextRedoTarget, Parent, Target
  <2>8. /\ last - 1 > 1 /\ log[last - 1].target = LogicalPosition(last - 2)
        /\ log[last - 1].restored + 1 = log[last - 1].target
    BY <1>1, <2>5, <2>6, <2>7 DEF CursorInv
  <2>9. LogicalPosition(last - 1) = log[last - 1].restored  BY <2>7 DEF LogicalPosition
  <2>10. LogicalPosition(Tip) = undone  BY <1>4 DEF LogicalPosition, Target
  <2>11. \E j \in 1 .. last - 2 : Worked(j) /\ LogicalPosition(last - 2) <= j
    BY <1>1, <2>5, <2>8 DEF CursorInv
  <2>12. PICK j \in 1 .. last - 2 : Worked(j) /\ LogicalPosition(last - 2) <= j  BY <2>11
  <2>13. j \in 1 .. Tip /\ last - 2 \in 1 .. Tip  BY <1>1, <2>5, <2>8, <2>12
  <2>14. RedoTarget = LogicalPosition(last - 2)  BY <2>7, <2>8
  <2>15. undone = LogicalPosition(last - 1) /\ log[last].target = undone  BY <2>5, <2>6
  <2>16. LogicalPosition(last - 2) \in 1 .. last - 2  BY <2>13 DEF CursorInv
  <2> HIDE DEF undone, S, last
  <2>17. RedoTarget = LogicalPosition(Tip) + 1
    BY <2>7, <2>8, <2>9, <2>10, <2>15
  <2> QED  BY <1>1, <2>12, <2>13, <2>14, <2>16, <2>17
<1> QED  BY <1>1, <1>3, <1>4 DEF RedoTarget

-----------------------------------------------------------------------------
(* What a step can append.                                                    *)

NewWork(new) ==
    /\ new \in Commits
    /\ new.action \in {"none", "restore"}
    /\ new.target \in IF new.action = "none" THEN {None} ELSE 1 .. Tip
    /\ new.restored = None

UndoEntry == [state |-> log[UndoTarget - 1].state, action |-> "undo",
              target |-> UndoTarget, restored |-> UndoTarget - 1]
RedoEntry == [state |-> log[RedoTarget].state, action |-> "redo",
              target |-> RedoTarget, restored |-> RedoTarget]

\* A step leaves the log alone or appends one commit, of new work, an undo or a
\* redo.
LEMMA LogStep ==
    ASSUME TypeOK, CursorInv, [Next]_vars
    PROVE  \/ log' = log
           \/ \E new \in Commits : NewWork(new) /\ log' = Append(log, new)
           \/ UndoTarget # None /\ log' = Append(log, UndoEntry)
           \/ RedoTarget # None /\ log' = Append(log, RedoEntry)
<1>1. \A state \in States : NewWork(Plain(state)) /\ Plain(state) \in Commits
  BY DEF NewWork, Plain, Commits, Actions, None
<1>2. CASE Work  BY <1>1, <1>2 DEF Work, TypeOK
<1>3. CASE AppendExplicit  BY <1>1, <1>3 DEF AppendExplicit, TypeOK
<1>4. CASE Drift  BY <1>4 DEF Drift
<1>5. CASE Restore
  <2>1. PICK commit \in 1 .. Tip : Apply("restore", commit, commit, None)  BY <1>5 DEF Restore
  <2> DEFINE new == [state |-> log[commit].state, action |-> "restore",
                     target |-> commit, restored |-> None]
  <2>2. log' = log \/ log' = Append(log, new)  BY <2>1 DEF Apply
  <2>3. log[commit] \in Commits  BY DEF TypeOK, Tip
  <2>4. new \in Commits  BY <2>3 DEF Commits, Actions, None
  <2>5. NewWork(new)  BY <2>4 DEF NewWork
  <2> QED  BY <2>2, <2>4, <2>5
<1>6. CASE Undo
  BY <1>6 DEF Undo, Nothing, Apply, UndoEntry, Parent
<1>7. CASE Redo
  BY <1>7 DEF Redo, Nothing, Apply, RedoEntry
<1>8. CASE Rest \/ UNCHANGED vars  BY <1>8 DEF Rest, vars
<1> QED  BY <1>2, <1>3, <1>4, <1>5, <1>6, <1>7, <1>8 DEF Next

\* Appending a commit that stands where it should keeps the invariant.
LEMMA CursorAppend ==
    ASSUME TypeOK, CursorInv, NEW new \in Commits, log' = Append(log, new),
           NEW n, n = Tip + 1, NEW position \in 1 .. n, LogicalPosition(n)' = position,
           new.state = log'[position].state,
           \E j \in 1 .. n : Worked(j)' /\ position <= j,
           new.action = "undo" =>
             n > 1 /\ new.target = LogicalPosition(n - 1) /\ new.restored + 1 = new.target,
           new.action = "redo" =>
             n > 1 /\ new.target = LogicalPosition(n - 1) + 1 /\ new.restored = new.target
    PROVE  CursorInv'
<1>1. /\ Tip \in Nat /\ Tip' = n /\ log'[n] = new
      /\ \A i \in 1 .. Tip : log'[i] = log[i]
  BY AppendFrame DEF TypeOK
<1>2. \A i \in 1 .. Tip : LogicalPosition(i)' = LogicalPosition(i) /\ Worked(i)' = Worked(i)
  BY PositionFrame DEF TypeOK
<1> SUFFICES ASSUME NEW i \in 1 .. n
    PROVE  /\ LogicalPosition(i)' \in 1 .. i
           /\ log'[i].state = log'[LogicalPosition(i)'].state
           /\ \E j \in 1 .. i : Worked(j)' /\ LogicalPosition(i)' <= j
           /\ log'[i].action = "undo" =>
                /\ i > 1 /\ log'[i].target = LogicalPosition(i - 1)'
                /\ log'[i].restored + 1 = log'[i].target
           /\ log'[i].action = "redo" =>
                /\ i > 1 /\ log'[i].target = LogicalPosition(i - 1)' + 1
                /\ log'[i].restored = log'[i].target
  BY <1>1 DEF CursorInv
<1>3. CASE i = n
  <2>1. n > 1 => LogicalPosition(n - 1)' = LogicalPosition(n - 1)  BY <1>1, <1>2
  <2> QED  BY <1>1, <1>3, <2>1
<1>4. CASE i # n
  <2>1. i \in 1 .. Tip  BY <1>1, <1>4
  <2>2. LogicalPosition(i)' = LogicalPosition(i) /\ log'[i] = log[i]  BY <1>1, <1>2, <2>1
  <2>3. /\ LogicalPosition(i) \in 1 .. i
        /\ log[i].state = log[LogicalPosition(i)].state
        /\ \E j \in 1 .. i : Worked(j) /\ LogicalPosition(i) <= j
    BY <2>1 DEF CursorInv
  <2>4. log'[LogicalPosition(i)] = log[LogicalPosition(i)]
    <3>1. LogicalPosition(i) \in 1 .. Tip  BY <1>1, <2>1, <2>3
    <3> QED  BY <1>1, <3>1
  <2>5. \E j \in 1 .. i : Worked(j)' /\ LogicalPosition(i)' <= j
    BY <1>1, <1>2, <2>1, <2>2, <2>3
  <2>6. i > 1 => LogicalPosition(i - 1)' = LogicalPosition(i - 1)  BY <1>1, <1>2, <2>1
  <2>7. /\ log[i].action = "undo" =>
             i > 1 /\ log[i].target = LogicalPosition(i - 1) /\ log[i].restored + 1 = log[i].target
        /\ log[i].action = "redo" =>
             i > 1 /\ log[i].target = LogicalPosition(i - 1) + 1 /\ log[i].restored = log[i].target
    BY <2>1 DEF CursorInv
  <2> QED  BY <2>2, <2>3, <2>4, <2>5, <2>6, <2>7
<1> QED  BY <1>3, <1>4

\* New work keeps the invariant: it stands for itself.
LEMMA CursorWork ==
    ASSUME TypeOK, CursorInv, NEW new, NewWork(new), log' = Append(log, new)
    PROVE  CursorInv'
<1>0. Tip \in Nat  BY DEF TypeOK, Tip
<1> PICK n \in Nat : n = Tip + 1  BY <1>0
<1>1. Tip \in Nat /\ Tip' = n /\ log'[n] = new  BY AppendFrame DEF TypeOK, NewWork
<1>2. LogicalPosition(n)' = n  BY <1>1 DEF LogicalPosition, NewWork
<1>3. n \in 1 .. n /\ Worked(n)' /\ n <= n  BY <1>1 DEF Worked, NewWork
<1>4. new \in Commits /\ new.action \notin {"undo", "redo"} /\ new.state = log'[n].state
  BY <1>1 DEF NewWork
<1> QED  BY <1>1, <1>2, <1>3, <1>4, CursorAppend

\* What an undo appends is a commit that stands one position further back.
LEMMA UndoEntryFacts ==
    ASSUME TypeOK, CursorInv, UndoTarget # None, log' = Append(log, UndoEntry),
           NEW n, n = Tip + 1
    PROVE  /\ UndoEntry \in Commits /\ UndoTarget - 1 \in 1 .. Tip - 1
           /\ LogicalPosition(n)' = UndoTarget - 1
           /\ log'[n] = UndoEntry
<1>1. Tip \in Nat /\ UndoTarget \in 2 .. Tip  BY UndoPlan
<1>2. UndoTarget - 1 \in 1 .. Tip - 1  BY <1>1
<1>3. log[UndoTarget - 1] \in Commits  BY <1>1, <1>2 DEF TypeOK, Tip
<1>4. UndoEntry \in Commits  BY <1>1, <1>2, <1>3 DEF UndoEntry, Commits, Actions
<1>5. log'[n] = UndoEntry  BY <1>4, AppendFrame DEF TypeOK
<1>6. log'[n].action = "undo" /\ log'[n].restored = UndoTarget - 1
  <2>1. UndoEntry.action = "undo" /\ UndoEntry.restored = UndoTarget - 1  BY DEF UndoEntry
  <2> QED  BY <1>5, <2>1
<1>7. LogicalPosition(n)' = UndoTarget - 1  BY <1>6 DEF LogicalPosition
<1> QED  BY <1>2, <1>4, <1>5, <1>7

\* An undo keeps the invariant.
LEMMA CursorUndo ==
    ASSUME TypeOK, CursorInv, UndoTarget # None, log' = Append(log, UndoEntry)
    PROVE  CursorInv'
<1>0. Tip \in Nat /\ UndoTarget - 1 \in Nat
  BY UndoPlan, RedoPlan DEF CursorInv
<1> PICK n \in Nat : n = Tip + 1  BY <1>0
<1> PICK position \in Nat : position = UndoTarget - 1  BY <1>0
<1>1. /\ Tip \in Nat /\ Tip >= 1
      /\ UndoTarget = LogicalPosition(Tip) /\ UndoTarget \in 2 .. Tip
  BY UndoPlan
<1>2. /\ UndoEntry \in Commits /\ position \in 1 .. Tip - 1
      /\ LogicalPosition(n)' = position /\ log'[n] = UndoEntry
  BY UndoEntryFacts
<1>3. UndoEntry.state = log'[position].state
  <2>1. position \in 1 .. Tip  BY <1>1, <1>2
  <2>2. log'[position] = log[position]  BY <1>2, <2>1, AppendFrame DEF TypeOK
  <2> QED  BY <2>2 DEF UndoEntry
<1>4. \E j \in 1 .. n : Worked(j)' /\ position <= j
  <2>1. PICK j \in 1 .. Tip : Worked(j) /\ LogicalPosition(Tip) <= j  BY <1>1 DEF CursorInv
  <2>2. Worked(j)'  BY <1>2, <2>1, PositionFrame DEF TypeOK
  <2> QED  BY <1>1, <2>1, <2>2
<1>5. /\ UndoEntry.action = "undo" /\ UndoEntry.target = LogicalPosition(n - 1)
      /\ UndoEntry.restored + 1 = UndoEntry.target
  BY <1>1 DEF UndoEntry
<1>6. n > 1 /\ position \in 1 .. n /\ n = Tip + 1  BY <1>1, <1>2
<1> QED  BY <1>2, <1>3, <1>4, <1>5, <1>6, CursorAppend

\* What a redo appends is a commit that stands one position further on.
LEMMA RedoEntryFacts ==
    ASSUME TypeOK, CursorInv, RedoTarget # None, log' = Append(log, RedoEntry),
           NEW n, n = Tip + 1
    PROVE  /\ RedoEntry \in Commits /\ RedoTarget \in 2 .. Tip
           /\ LogicalPosition(n)' = RedoTarget
           /\ log'[n] = RedoEntry
<1>1. /\ Tip \in Nat /\ Tip >= 1 /\ RedoTarget = LogicalPosition(Tip) + 1
      /\ \E j \in 1 .. Tip : RedoTarget <= j
  BY RedoPlan
<1>2. LogicalPosition(Tip) \in 1 .. Tip  BY <1>1 DEF CursorInv
<1>3. RedoTarget \in 2 .. Tip  BY <1>1, <1>2
<1>4. log[RedoTarget] \in Commits  BY <1>1, <1>3 DEF TypeOK, Tip
<1>5. RedoEntry \in Commits  BY <1>1, <1>3, <1>4 DEF RedoEntry, Commits, Actions
<1>6. log'[n] = RedoEntry  BY <1>5, AppendFrame DEF TypeOK
<1>7. log'[n].action = "redo" /\ log'[n].target = RedoTarget
  <2>1. RedoEntry.action = "redo" /\ RedoEntry.target = RedoTarget  BY DEF RedoEntry
  <2> QED  BY <1>6, <2>1
<1>8. LogicalPosition(n)' = RedoTarget  BY <1>7 DEF LogicalPosition, Target
<1> QED  BY <1>3, <1>5, <1>6, <1>8

\* A redo keeps the invariant.
LEMMA CursorRedo ==
    ASSUME TypeOK, CursorInv, RedoTarget # None, log' = Append(log, RedoEntry)
    PROVE  CursorInv'
<1>0. Tip \in Nat /\ RedoTarget \in Nat
  BY UndoPlan, RedoPlan DEF CursorInv
<1> PICK n \in Nat : n = Tip + 1  BY <1>0
<1> PICK position \in Nat : position = RedoTarget  BY <1>0
<1>1. /\ Tip \in Nat /\ Tip >= 1 /\ RedoTarget = LogicalPosition(Tip) + 1
      /\ \E j \in 1 .. Tip : Worked(j) /\ RedoTarget <= j
  BY RedoPlan
<1>2. /\ RedoEntry \in Commits /\ position \in 2 .. Tip
      /\ LogicalPosition(n)' = position /\ log'[n] = RedoEntry
  BY RedoEntryFacts
<1>3. RedoEntry.state = log'[position].state
  <2>1. position \in 1 .. Tip  BY <1>1, <1>2
  <2>2. log'[position] = log[position]  BY <1>2, <2>1, AppendFrame DEF TypeOK
  <2> QED  BY <2>2 DEF RedoEntry
<1>4. \E j \in 1 .. n : Worked(j)' /\ position <= j
  <2>1. PICK j \in 1 .. Tip : Worked(j) /\ RedoTarget <= j  BY <1>1
  <2>2. Worked(j)'  BY <1>2, <2>1, PositionFrame DEF TypeOK
  <2> QED  BY <1>1, <2>1, <2>2
<1>5. /\ RedoEntry.action = "redo" /\ RedoEntry.target = LogicalPosition(n - 1) + 1
      /\ RedoEntry.restored = RedoEntry.target
  BY <1>1 DEF RedoEntry
<1>6. n > 1 /\ position \in 1 .. n /\ n = Tip + 1  BY <1>1, <1>2
<1> QED  BY <1>2, <1>3, <1>4, <1>5, <1>6, CursorAppend

\* Every step keeps the chain of trailers what it has to be.
LEMMA CursorStep ==
    ASSUME TypeOK, CursorInv, [Next]_vars
    PROVE  CursorInv'
<1>1. CASE log' = log
  <2>1. /\ Tip' = Tip
        /\ \A i : LogicalPosition(i)' = LogicalPosition(i)
        /\ \A i : Worked(i)' = Worked(i)
    BY <1>1 DEF LogicalPosition, Target, Tip, Worked
  <2> QED  BY <1>1, <2>1 DEF CursorInv
<1>2. ASSUME NEW new \in Commits, NewWork(new), log' = Append(log, new) PROVE CursorInv'
  BY <1>2, CursorWork
<1>3. CASE UndoTarget # None /\ log' = Append(log, UndoEntry)  BY <1>3, CursorUndo
<1>4. CASE RedoTarget # None /\ log' = Append(log, RedoEntry)  BY <1>4, CursorRedo
<1> QED  BY <1>1, <1>2, <1>3, <1>4, LogStep

-----------------------------------------------------------------------------
(* Type correctness.                                                          *)

\* What TypeOK says of the trailers of a commit.
TrailersOK(commit, i) ==
    /\ commit.target \in IF commit.action = "none" THEN {None} ELSE 1 .. i - 1
    /\ commit.restored \in IF commit.action \in {"undo", "redo"} THEN 1 .. i - 1 ELSE {None}

\* Every step keeps the types, and appends no trailer that names a commit that
\* was not on the log before.
LEMMA TypeStep ==
    ASSUME TypeOK, CursorInv, [Next]_vars
    PROVE  TypeOK'
<1>1. log \in Seq(Commits) /\ Tip \in Nat  BY DEF TypeOK, Tip
<1>2. /\ repo' \in States /\ drifts' \in 0 .. MaxDrifts
      /\ result' \in {"none", "applied", "unchanged", "nothing"}
  <2>1. ASSUME NEW i \in 1 .. Tip PROVE log[i].state \in States
    <3>1. log[i] \in Commits  BY <1>1 DEF Tip
    <3> QED  BY <3>1 DEF Commits
  <2>2. CASE Work  BY <2>2 DEF Work, TypeOK
  <2>3. CASE AppendExplicit  BY <2>3 DEF AppendExplicit, TypeOK
  <2>4. CASE Drift  BY <2>4, BoundsAssumption DEF Drift, TypeOK
  <2>5. CASE Restore  BY <2>1, <2>5 DEF Restore, Apply, TypeOK
  <2>6. CASE Undo
    <3>1. UndoTarget # None => UndoTarget - 1 \in 1 .. Tip  BY <1>1, UndoPlan
    <3> QED  BY <2>1, <2>6, <3>1 DEF Undo, Nothing, Apply, Parent, TypeOK
  <2>7. CASE Redo
    <3>1. RedoTarget # None => RedoTarget \in 1 .. Tip
      BY <1>1, RedoPlan DEF CursorInv
    <3> QED  BY <2>1, <2>7, <3>1 DEF Redo, Nothing, Apply, TypeOK
  <2>8. CASE Rest \/ UNCHANGED vars  BY <2>8 DEF Rest, vars, TypeOK
  <2> QED  BY <2>2, <2>3, <2>4, <2>5, <2>6, <2>7, <2>8 DEF Next
<1>3. ASSUME NEW new \in Commits, log' = Append(log, new), TrailersOK(new, Tip + 1) PROVE TypeOK'
  <2>1. /\ Tip' = Tip + 1 /\ log' \in Seq(Commits) /\ log'[Tip + 1] = new
        /\ \A i \in 1 .. Tip : log'[i] = log[i]
    BY <1>1, <1>3, AppendFrame
  <2>2. \A i \in 1 .. Tip : TrailersOK(log[i], i)  BY DEF TypeOK, TrailersOK
  <2>3. ASSUME NEW i \in 1 .. Tip + 1 PROVE TrailersOK(log'[i], i)
    <3>1. CASE i \in 1 .. Tip  BY <2>1, <2>2, <3>1
    <3>2. CASE i = Tip + 1  BY <1>3, <2>1, <3>2
    <3> QED  BY <1>1, <3>1, <3>2
  <2> QED  BY <1>2, <2>1, <2>3 DEF TypeOK, TrailersOK
<1>4. CASE log' = log  BY <1>2, <1>4 DEF TypeOK, Tip
<1>5. ASSUME NEW new \in Commits, NewWork(new), log' = Append(log, new) PROVE TypeOK'
  <2>1. TrailersOK(new, Tip + 1)  BY <1>1, <1>5 DEF NewWork, TrailersOK
  <2> QED  BY <1>3, <1>5, <2>1
<1>6. CASE UndoTarget # None /\ log' = Append(log, UndoEntry)
  <2>1. UndoEntry \in Commits  BY <1>1, <1>6, UndoEntryFacts
  <2>2. UndoTarget \in 2 .. Tip  BY <1>6, UndoPlan
  <2>3. UndoTarget \in 1 .. (Tip + 1) - 1 /\ UndoTarget - 1 \in 1 .. (Tip + 1) - 1  BY <1>1, <2>2
  <2>4. TrailersOK(UndoEntry, Tip + 1)  BY <2>3 DEF UndoEntry, TrailersOK
  <2> QED  BY <1>3, <1>6, <2>1, <2>4
<1>7. CASE RedoTarget # None /\ log' = Append(log, RedoEntry)
  <2>1. RedoEntry \in Commits /\ RedoTarget \in 2 .. Tip  BY <1>1, <1>7, RedoEntryFacts
  <2>2. RedoTarget \in 1 .. (Tip + 1) - 1  BY <1>1, <2>1
  <2>3. TrailersOK(RedoEntry, Tip + 1)  BY <2>2 DEF RedoEntry, TrailersOK
  <2> QED  BY <1>3, <1>7, <2>1, <2>3
<1> QED  BY <1>4, <1>5, <1>6, <1>7, LogStep

\* The log is well typed, and its trailers form the chain that plan_undo and
\* plan_redo rely on: each is about the entry that the commit before it stood for.
THEOREM CursorInvariant == Spec => [](TypeOK /\ CursorInv)
<1>1. Init => TypeOK /\ CursorInv
  BY StatesAssumption, BoundsAssumption DEF Init, TypeOK, CursorInv, Tip
<1>2. (TypeOK /\ CursorInv) /\ [Next]_vars => (TypeOK /\ CursorInv)'
  BY TypeStep, CursorStep
<1> QED  BY <1>1, <1>2, PTL DEF Spec

\* Type correctness: a trailer only ever names a commit that was on the log
\* before its own, and an undo or redo always carries its restore trailer.
THEOREM TypeInvariant == Spec => []TypeOK
BY CursorInvariant, PTL

-----------------------------------------------------------------------------
(* Undo and redo are inverse to each other.                                   *)

\* After an undo a redo plans the way back, and after a redo an undo does: the
\* state that is applied is the state of the commit before the tip.
THEOREM UndoAndRedoAreInverse == Spec => []UndoRedoInverse
<1>1. ASSUME TypeOK, CursorInv PROVE UndoRedoInverse
  <2> SUFFICES ASSUME Tip # None
      PROVE  /\ log[Tip].action = "undo" =>
                  RedoTarget # None /\ log[RedoTarget].state = log[Parent(Tip)].state
             /\ log[Tip].action = "redo" =>
                  UndoTarget # None /\ log[Parent(UndoTarget)].state = log[Parent(Tip)].state
    BY DEF UndoRedoInverse
  <2>1. Tip \in Nat /\ Tip >= 1  BY <1>1 DEF TypeOK, Tip, None
  <2>2. ASSUME Tip > 1
        PROVE  /\ LogicalPosition(Tip - 1) \in 1 .. Tip - 1
               /\ log[Tip - 1].state = log[LogicalPosition(Tip - 1)].state
    BY <1>1, <2>1, <2>2 DEF CursorInv
  <2>3. CASE log[Tip].action = "undo"
    <3>1. Tip > 1 /\ log[Tip].target = LogicalPosition(Tip - 1)  BY <1>1, <2>1, <2>3 DEF CursorInv
    <3>2. RedoTarget = log[Tip].target  BY <2>1, <2>3 DEF RedoTarget, Target, None
    <3> QED  BY <2>1, <2>2, <2>3, <3>1, <3>2 DEF Parent, None
  <2>4. CASE log[Tip].action = "redo"
    <3>1. Tip > 1 /\ log[Tip].target = LogicalPosition(Tip - 1) + 1
      BY <1>1, <2>1, <2>4 DEF CursorInv
    <3>2. LogicalPosition(Tip) = log[Tip].target  BY <2>4 DEF LogicalPosition, Target
    <3>3. UndoTarget = LogicalPosition(Tip - 1) + 1
      BY <2>1, <2>2, <3>1, <3>2 DEF UndoTarget, Parent, None
    <3>4. Parent(UndoTarget) = LogicalPosition(Tip - 1) /\ UndoTarget # None
      BY <2>1, <2>2, <3>1, <3>3 DEF Parent, None
    <3> QED  BY <2>2, <2>4, <3>1, <3>4 DEF Parent
  <2> QED  BY <2>3, <2>4
<1> QED  BY <1>1, CursorInvariant, PTL

-----------------------------------------------------------------------------
(* The trailers implement the cursor.                                         *)

absLog == [i \in 1 .. Tip |-> log[i].state]

\* An appended commit appends its state.
LEMMA AbsAppend ==
    ASSUME log \in Seq(Commits), NEW new \in Commits, log' = Append(log, new)
    PROVE  absLog' = Append(absLog, new.state) /\ Len(absLog) = Tip
<1>1. /\ Tip \in Nat /\ Tip' = Tip + 1 /\ log'[Tip + 1] = new
      /\ \A i \in 1 .. Tip : log'[i] = log[i] /\ log[i] \in Commits
  BY AppendFrame
<1>2. absLog \in Seq(States) /\ Len(absLog) = Tip
  <2>1. \A i \in 1 .. Tip : log[i].state \in States  BY <1>1 DEF Commits
  <2>2. absLog \in [1 .. Tip -> States]  BY <2>1 DEF absLog
  <2> QED  BY <1>1, <2>2 DEF absLog
<1>3. Append(absLog, new.state) = [i \in 1 .. Tip + 1 |-> IF i = Tip + 1 THEN new.state ELSE absLog[i]]
  BY <1>2 DEF Commits
<1>4. absLog' = [i \in 1 .. Tip + 1 |-> log'[i].state]  BY <1>1 DEF absLog
<1>5. ASSUME NEW i \in 1 .. Tip + 1
      PROVE  log'[i].state = IF i = Tip + 1 THEN new.state ELSE absLog[i]
  <2>1. CASE i = Tip + 1  BY <1>1, <2>1
  <2>2. CASE i # Tip + 1
    <3>1. i \in 1 .. Tip  BY <1>1, <2>2
    <3> QED  BY <1>1, <2>2, <3>1 DEF absLog
  <2> QED  BY <2>1, <2>2
<1> QED  BY <1>2, <1>3, <1>4, <1>5

\* Undo and redo leave the end of the redo chain where it is.
LEMMA TopFrame ==
    ASSUME log \in Seq(Commits), Tip # None, NEW new \in Commits, log' = Append(log, new),
           new.action \in {"undo", "redo"}
    PROVE  Top' = Top
<1>1. /\ Tip \in Nat /\ Tip' = Tip + 1 /\ log'[Tip + 1] = new
      /\ \A i \in 1 .. Tip : log'[i] = log[i]
  BY AppendFrame
<1>2. log'[Tip + 1].action = new.action /\ log'[Tip + 1].action \notin {"none", "restore"}
  BY <1>1
<1>3. \A i \in 1 .. Tip : log'[i].action = log[i].action  BY <1>1
<1>4. WorkOf' = {i \in 1 .. Tip + 1 : log'[i].action \in {"none", "restore"}}  BY <1>1 DEF WorkOf
<1>5. WorkOf' = WorkOf
  <2>1. ASSUME NEW i \in WorkOf' PROVE i \in WorkOf
    <3>1. i \in 1 .. Tip + 1 /\ log'[i].action \in {"none", "restore"}  BY <1>4, <2>1
    <3>2. i # Tip + 1  BY <1>2, <3>1
    <3>3. i \in 1 .. Tip  BY <1>1, <3>1, <3>2
    <3> QED  BY <1>3, <3>1, <3>3 DEF WorkOf
  <2>2. ASSUME NEW i \in WorkOf PROVE i \in WorkOf'
    <3>1. i \in 1 .. Tip /\ log[i].action \in {"none", "restore"}  BY <2>2 DEF WorkOf
    <3>2. log'[i].action = log[i].action  BY <1>3, <3>1
    <3>3. i \in 1 .. Tip + 1  BY <1>1, <3>1
    <3> QED  BY <1>4, <3>1, <3>2, <3>3
  <2> QED  BY <2>1, <2>2
<1>6. Tip' # None  BY <1>1 DEF None
<1> QED  BY <1>5, <1>6 DEF Top

\* New work is the new end of the redo chain.
LEMMA TopWork ==
    ASSUME log \in Seq(Commits), NEW new, NewWork(new), log' = Append(log, new)
    PROVE  Top' = Tip + 1
<1>1. /\ Tip \in Nat /\ Tip' = Tip + 1 /\ log'[Tip + 1] = new
  BY AppendFrame DEF NewWork
<1> PICK n \in Nat : n = Tip + 1  BY <1>1
<1> PICK S \in SUBSET (1 .. n) : S = WorkOf'  BY <1>1 DEF WorkOf
<1>2. n \in S
  <2>1. log'[n] = new /\ new.action \in {"none", "restore"}  BY <1>1 DEF NewWork
  <2>2. log'[n].action \in {"none", "restore"}  BY <2>1
  <2>3. n \in 1 .. Tip'  BY <1>1
  <2>4. WorkOf' = {i \in 1 .. Tip' : log'[i].action \in {"none", "restore"}}  BY DEF WorkOf
  <2>5. n \in WorkOf'  BY <2>2, <2>3, <2>4
  <2> QED  BY <2>5
<1>3. Max(S) \in S /\ \A y \in S : y <= Max(S)  BY <1>2, MaxOfPositions
<1>4. Max(S) = n
  <2>1. Max(S) \in 1 .. n /\ n <= Max(S)  BY <1>2, <1>3
  <2> QED  BY <2>1
<1>5. Top' = Max(WorkOf')
  <2>1. Tip' # None  BY <1>1 DEF None
  <2> QED  BY <2>1 DEF Top
<1> QED  BY <1>4, <1>5

\* Every step moves the cursor as UndoCursor says, or leaves it alone.
LEMMA AbsStep ==
    ASSUME TypeOK, CursorInv, [Next]_vars
    PROVE  [Abstract!Next]_(Abstract!vars)
<1>1. log \in Seq(Commits) /\ Tip \in Nat  BY DEF TypeOK, Tip
<1> PICK n \in Nat : n = Tip + 1  BY <1>1
<1>2. CASE log' = log
  <2>1. Tip' = Tip /\ absLog' = absLog  BY <1>2 DEF Tip, absLog
  <2>2. WorkOf' = WorkOf  BY <1>2, <2>1 DEF WorkOf
  <2>3. Top' = Top  BY <2>1, <2>2 DEF Top
  <2>4. Cursor' = Cursor  BY <1>2, <2>1 DEF Cursor, LogicalPosition, Target
  <2> QED  BY <2>1, <2>3, <2>4 DEF Abstract!vars, absLog
<1>3. ASSUME NEW new \in Commits, NewWork(new), log' = Append(log, new) PROVE Abstract!Next
  <2>1. absLog' = Append(absLog, new.state) /\ Len(absLog) = Tip  BY <1>1, <1>3, AbsAppend
  <2>2. Top' = Tip + 1  BY <1>1, <1>3, TopWork
  <2>3. Tip' = n /\ log'[n] = new  BY <1>1, <1>3, AppendFrame
  <2>4. LogicalPosition(n)' = n  BY <1>3, <2>3 DEF LogicalPosition, NewWork
  <2>5. Cursor' = Tip + 1  BY <1>1, <2>3, <2>4 DEF Cursor, None
  <2>6. new.state \in States  BY DEF Commits
  <2>7. Abstract!Record(new.state)  BY <2>1, <2>2, <2>5 DEF Abstract!Record, absLog
  <2> QED  BY <2>6, <2>7 DEF Abstract!Next
<1>4. CASE UndoTarget # None /\ log' = Append(log, UndoEntry)
  <2>1. /\ UndoEntry \in Commits /\ UndoTarget - 1 \in 1 .. Tip - 1
        /\ LogicalPosition(n)' = UndoTarget - 1
    BY <1>4, UndoEntryFacts
  <2>2. Tip >= 1 /\ UndoTarget = LogicalPosition(Tip) /\ UndoTarget \in 2 .. Tip
    BY <1>4, UndoPlan
  <2>3. Cursor = UndoTarget /\ Cursor > 1  BY <1>1, <2>2 DEF Cursor, None
  <2>4. Tip' = n  BY <1>1, <1>4, <2>1, AppendFrame
  <2>5. Cursor' = Cursor - 1  BY <1>1, <2>1, <2>3, <2>4 DEF Cursor, None
  <2>6. UndoEntry.action = "undo" /\ UndoEntry.state = log[UndoTarget - 1].state
    BY DEF UndoEntry
  <2>7. Top' = Top  BY <1>1, <1>4, <2>1, <2>2, <2>6, TopFrame DEF None
  <2>8. absLog' = Append(absLog, UndoEntry.state)  BY <1>1, <1>4, <2>1, AbsAppend
  <2>9. UndoEntry.state = absLog[Cursor - 1]  BY <1>1, <2>1, <2>3, <2>6 DEF absLog
  <2> QED  BY <2>3, <2>5, <2>7, <2>8, <2>9 DEF Abstract!Next, Abstract!Undo, absLog
<1>5. CASE RedoTarget # None /\ log' = Append(log, RedoEntry)
  <2>1. /\ RedoEntry \in Commits /\ RedoTarget \in 2 .. Tip
        /\ LogicalPosition(n)' = RedoTarget
    BY <1>5, RedoEntryFacts
  <2>2. Tip >= 1 /\ RedoTarget = LogicalPosition(Tip) + 1  BY <1>5, RedoPlan
  <2>3. LogicalPosition(Tip) \in 1 .. Tip  BY <1>1, <2>2 DEF CursorInv
  <2>4. Cursor \in 1 .. Tip /\ RedoTarget = Cursor + 1  BY <1>1, <2>2, <2>3 DEF Cursor, None
  <2>5. Tip' = n  BY <1>1, <1>5, <2>1, AppendFrame
  <2>6. Cursor' = Cursor + 1  BY <1>1, <2>1, <2>4, <2>5 DEF Cursor, None
  <2>7. Cursor < Top
    <3>1. PICK j \in 1 .. Tip : Worked(j) /\ RedoTarget <= j  BY <1>5, RedoPlan
    <3>2. WorkOf \in SUBSET (1 .. Tip) /\ j \in WorkOf  BY <3>1 DEF WorkOf, Worked
    <3>3. Max(WorkOf) \in WorkOf /\ j <= Max(WorkOf)  BY <1>1, <3>2, MaxOfPositions
    <3>4. Top = Max(WorkOf)  BY <1>1, <2>2 DEF Top, None
    <3>5. Top \in 1 .. Tip /\ j <= Top  BY <3>2, <3>3, <3>4
    <3> QED  BY <1>1, <2>4, <3>1, <3>5
  <2>8. RedoEntry.action = "redo" /\ RedoEntry.state = log[RedoTarget].state  BY DEF RedoEntry
  <2>9. Top' = Top  BY <1>1, <1>5, <2>1, <2>2, <2>8, TopFrame DEF None
  <2>10. absLog' = Append(absLog, RedoEntry.state)  BY <1>1, <1>5, <2>1, AbsAppend
  <2>11. RedoEntry.state = absLog[Cursor + 1]  BY <1>1, <2>1, <2>4, <2>8 DEF absLog
  <2> QED  BY <2>6, <2>7, <2>9, <2>10, <2>11 DEF Abstract!Next, Abstract!Redo, absLog
<1> QED  BY <1>2, <1>3, <1>4, <1>5, LogStep

\* The trailers alone implement an undo cursor, on logs of any length: an undo
\* goes back by exactly one entry, a redo forward by exactly one and never past
\* the newest work, and the log is only ever appended to.
THEOREM ImplementsUndoCursor == Spec => AbstractSpec
<1>1. Init => Abstract!Init
  <2> SUFFICES ASSUME Init PROVE Abstract!Init  OBVIOUS
  <2>1. Tip = 0 /\ [i \in 1 .. Tip |-> log[i].state] = <<>>  BY DEF Init, Tip
  <2> QED  BY <2>1 DEF Abstract!Init, Cursor, Top, None
<1> QED  BY <1>1, AbsStep, CursorInvariant, PTL DEF Spec, AbstractSpec, Abstract!Spec
=============================================================================
