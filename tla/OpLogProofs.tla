---------------------------- MODULE OpLogProofs -----------------------------
(* Theorems about OpLog, for every set of processes, refs, files and values,  *)
(* every MAX_APPEND_ATTEMPTS and every bound on commands and failures.        *)
EXTENDS OpLog, TLAPS

USE DEF None, Expected, GiveUp, Retry

\* Everything a call's return changes keeps its type.
LEMMA FinishTypes ==
    ASSUME TypeOK, NEW p \in Procs, NEW how \in Outcomes, Finish(p, how)
    PROVE  /\ pc' \in [Procs -> PCs]
           /\ outcome' \in [Procs -> Outcomes]
           /\ parent' \in [Procs -> {None} \cup Ids]
           /\ commit' \in [Procs -> {None} \cup Ids]
           /\ snap' \in [Procs -> Captures]
           /\ attempts' \in [Procs -> 0 .. MaxAppendAttempts - 1]
           /\ owes' \in [Procs -> SUBSET Refs]
           /\ recorded' \subseteq Refs
<1>1. NoState \in Captures
  <2>1. NoState \in [{} -> Values]  BY DEF NoState
  <2> QED  BY <2>1 DEF Captures
<1> QED  BY <1>1, AttemptsAssumption DEF TypeOK, Finish, PCs, Succeeded

\* A hook that git starts, or does not start, keeps its type.
LEMMA RunHookTypes ==
    ASSUME TypeOK, NEW p \in Procs, NEW input \in Calls, RunHook(p, input)
    PROVE  /\ pc' \in [Procs -> PCs] /\ call' \in [Procs -> Calls]
           /\ UNCHANGED <<parent, snap, commit, attempts, outcome, since>>
BY DEF TypeOK, RunHook, PCs, localVars

\* Captures only grow by pieces of the repository.
LEMMA CaptureTypes ==
    ASSUME TypeOK, NEW p \in Procs, Capture(p)
    PROVE  snap' \in [Procs -> Captures]
<1>1. PICK part \in NextToCapture(p) :
        snap' = [snap EXCEPT ![p] = [q \in DOMAIN snap[p] \cup {part} |->
                                       IF q = part THEN repo[q] ELSE snap[p][q]]]
  BY DEF Capture
<1>2. part \in Parts  BY <1>1 DEF NextToCapture, Parts
<1>3. PICK S \in SUBSET Parts : snap[p] \in [S -> Values]  BY DEF TypeOK, Captures
<1> DEFINE new == [q \in DOMAIN snap[p] \cup {part} |-> IF q = part THEN repo[q] ELSE snap[p][q]]
<1>4. new \in [S \cup {part} -> Values]  BY <1>2, <1>3 DEF TypeOK
<1>5. S \cup {part} \in SUBSET Parts  BY <1>2, <1>3
<1>6. new \in Captures  BY <1>4, <1>5 DEF Captures
<1> QED  BY <1>1, <1>6 DEF TypeOK

\* A finished capture is a repository state.
LEMMA FullCapture ==
    ASSUME TypeOK, NEW p \in Procs, DOMAIN snap[p] = Parts
    PROVE  snap[p] \in [Parts -> Values]
<1>1. PICK S \in SUBSET Parts : snap[p] \in [S -> Values]  BY DEF TypeOK, Captures
<1>2. S = Parts  BY <1>1
<1> QED  BY <1>1, <1>2

\* Writing a commit keeps the types and every commit written before.
LEMMA WriteCommitTypes ==
    ASSUME TypeOK, NEW p \in Procs, DOMAIN snap[p] = Parts, WriteCommit(p)
    PROVE  /\ objects' \in Seq(Commits)
           /\ Len(objects) <= Len(objects')
           /\ \A id \in Ids : objects'[id] = objects[id]
           /\ commit' \in [Procs -> {None} \cup Ids']
           /\ commit'[p] \in Ids'
           /\ objects'[commit'[p]] = Candidate(p)
           /\ \A id \in Ids' : id \in Ids \/ objects'[id] = Candidate(p)
<1>1. Candidate(p) \in Commits
  <2>1. parent[p] \in Nat  BY DEF TypeOK, Ids
  <2> QED  BY <2>1, FullCapture DEF Candidate, Commits, Generated
<1>2. PICK id \in 1 .. Len(objects) + 1 :
        /\ commit' = [commit EXCEPT ![p] = id]
        /\ IF id = Len(objects) + 1
           THEN objects' = Append(objects, Candidate(p))
           ELSE objects[id] = Candidate(p) /\ UNCHANGED objects
  BY DEF WriteCommit
<1>3. CASE id = Len(objects) + 1
  <2>1. objects \in Seq(Commits) /\ Len(objects) \in Nat  BY DEF TypeOK
  <2>2. objects' = Append(objects, Candidate(p))  BY <1>2, <1>3
  <2>3. objects' \in Seq(Commits) /\ Len(objects') = Len(objects) + 1  BY <1>1, <2>1, <2>2
  <2>4. \A i \in 1 .. Len(objects) : objects'[i] = objects[i]  BY <1>1, <2>1, <2>2
  <2>5. objects'[Len(objects) + 1] = Candidate(p)  BY <1>1, <2>1, <2>2
  <2>6. commit'[p] = id /\ commit' \in [Procs -> {None} \cup Ids']
    BY <1>2, <1>3, <2>1, <2>3 DEF TypeOK, Ids
  <2> QED  BY <1>3, <2>1, <2>3, <2>4, <2>5, <2>6 DEF Ids
<1>4. CASE id # Len(objects) + 1
  BY <1>1, <1>2, <1>4 DEF TypeOK, Ids
<1> QED  BY <1>3, <1>4

\* Type correctness: log, tip, parents and candidates of every append only ever
\* name commits that some append has written.
THEOREM TypeInvariant == Spec => []TypeOK
<1>1. Init => TypeOK
  <2> SUFFICES ASSUME Init PROVE TypeOK  OBVIOUS
  <2>1. NoState \in Captures
    <3>1. NoState \in [{} -> Values]  BY DEF NoState
    <3> QED  BY <3>1 DEF Captures
  <2>2. held \in [Parts -> SUBSET Values]  BY InitialAssumption DEF Init
  <2> QED
    BY <2>1, <2>2, InitialAssumption, AttemptsAssumption, BoundsAssumption
    DEF Init, TypeOK, Heads, PCs, Calls, Outcomes, Ids
<1>2. TypeOK /\ [Next]_vars => TypeOK'
  <2> SUFFICES ASSUME TypeOK, [Next]_vars PROVE TypeOK'  OBVIOUS
  <2> USE DEF repoVars, logVars, localVars, historyVars, boundVars, debtVars
  <2>1. CASE UNCHANGED vars
    BY <2>1 DEF TypeOK, vars, Ids
  <2>2. CASE Rest
    BY <2>2 DEF Rest, TypeOK, vars, Ids
  <2>3. ASSUME NEW p \in Procs, Step(p) PROVE TypeOK'
    <3>1. CASE Dispatch(p)
      <4>1. CASE \E how \in {"uninstalled", "skipped"} : Finish(p, how)
        BY <3>1, <4>1, FinishTypes DEF Dispatch, TypeOK, Ids, Outcomes
      <4>2. CASE pc' = [pc EXCEPT ![p] = "head"] /\ UNCHANGED <<hook, localVars, outcome, debtVars>>
        BY <3>1, <4>2 DEF Dispatch, TypeOK, Ids, PCs
      <4> QED  BY <3>1, <4>1, <4>2 DEF Dispatch
    <3>2. CASE CheckHead(p)
      <4>1. CASE head \in {"placeholder", "detached"} /\ Finish(p, head) /\ UNCHANGED since
        <5>1. head \in Outcomes  BY <4>1 DEF Outcomes
        <5>2. /\ pc' \in [Procs -> PCs] /\ outcome' \in [Procs -> Outcomes]
              /\ parent' \in [Procs -> {None} \cup Ids] /\ commit' \in [Procs -> {None} \cup Ids]
              /\ snap' \in [Procs -> Captures] /\ attempts' \in [Procs -> 0 .. MaxAppendAttempts - 1]
              /\ owes' \in [Procs -> SUBSET Refs] /\ recorded' \subseteq Refs
          BY <4>1, <5>1, FinishTypes
        <5>3. UNCHANGED <<repoVars, logVars, call, historyVars, boundVars, since>>
          BY <3>2, <4>1 DEF CheckHead
        <5> QED  BY <5>2, <5>3 DEF TypeOK, Ids
      <4>2. CASE ~(head \in {"placeholder", "detached"} /\ Finish(p, head) /\ UNCHANGED since)
        BY <3>2, <4>2 DEF CheckHead, TypeOK, Ids, PCs
      <4> QED  BY <4>1, <4>2
    <3>3. CASE ReadTip(p)
      <4>1. NoState \in Captures
        <5>1. NoState \in [{} -> Values]  BY DEF NoState
        <5> QED  BY <5>1 DEF Captures
      <4> QED  BY <3>3, <4>1 DEF ReadTip, TypeOK, Ids, PCs
    <3>4. CASE Capture(p)
      BY <3>4, CaptureTypes DEF Capture, TypeOK, Ids
    <3>5. CASE Decide(p)
      <4>1. CASE Finish(p, "current") /\ UNCHANGED objects
        BY <3>5, <4>1, FinishTypes DEF Decide, TypeOK, Ids, Outcomes
      <4>2. CASE WriteCommit(p) /\ pc' = [pc EXCEPT ![p] = "publish"]
                 /\ UNCHANGED <<parent, snap, attempts, outcome, debtVars>>
        <5>1. DOMAIN snap[p] = Parts  BY <3>5 DEF Decide
        <5>2. Ids \subseteq Ids'  BY <4>2, <5>1, WriteCommitTypes DEF Ids, TypeOK
        <5>3. chain' \in Seq({None} \cup Ids')  BY <3>5, <5>2 DEF Decide, TypeOK
        <5>4. tip' \in {None} \cup Ids' /\ parent' \in [Procs -> {None} \cup Ids']
          BY <3>5, <4>2, <5>2 DEF Decide, TypeOK
        <5> QED
          BY <3>5, <4>2, <5>1, <5>3, <5>4, WriteCommitTypes DEF Decide, TypeOK, PCs
      <4> QED  BY <3>5, <4>1, <4>2 DEF Decide
    <3>6. CASE Publish(p)
      <4>1. CASE tip = parent[p] /\ tip' = commit[p] /\ chain' = Append(chain, commit[p])
                 /\ moves' = moves + 1 /\ Finish(p, "appended")
        <5>1. chain' \in Seq({None} \cup Ids) /\ tip' \in {None} \cup Ids /\ moves' \in Nat
          BY <4>1 DEF TypeOK
        <5>2. "appended" \in Outcomes  BY DEF Outcomes
        <5>3. /\ pc' \in [Procs -> PCs] /\ outcome' \in [Procs -> Outcomes]
              /\ parent' \in [Procs -> {None} \cup Ids] /\ commit' \in [Procs -> {None} \cup Ids]
              /\ snap' \in [Procs -> Captures] /\ attempts' \in [Procs -> 0 .. MaxAppendAttempts - 1]
              /\ owes' \in [Procs -> SUBSET Refs] /\ recorded' \subseteq Refs
          BY <4>1, <5>2, FinishTypes
        <5> QED  BY <3>6, <5>1, <5>3 DEF Publish, TypeOK, Ids
      <4>2. CASE attempts' = [attempts EXCEPT ![p] = @ + 1] /\ ~GiveUp(p)
                 /\ commit' = [commit EXCEPT ![p] = None] /\ pc' = [pc EXCEPT ![p] = "tip"]
                 /\ UNCHANGED <<tip, chain, moves, parent, snap, outcome, debtVars>>
        <5>1. attempts' \in [Procs -> 0 .. MaxAppendAttempts - 1]
          BY <4>2, AttemptsAssumption DEF TypeOK
        <5>2. pc' \in [Procs -> PCs] /\ commit' \in [Procs -> {None} \cup Ids]
          BY <4>2 DEF TypeOK, PCs
        <5>3. UNCHANGED <<repoVars, objects, call, historyVars, since, boundVars>>
          BY <3>6 DEF Publish
        <5> QED  BY <4>2, <5>1, <5>2, <5>3 DEF TypeOK, Ids
      <4>3. CASE Finish(p, "lost_race") /\ UNCHANGED <<tip, chain, moves>>
        BY <3>6, <4>3, FinishTypes DEF Publish, TypeOK, Ids, Outcomes
      <4> QED  BY <3>6, <4>1, <4>2, <4>3 DEF Publish
    <3> QED  BY <2>3, <3>1, <3>2, <3>3, <3>4, <3>5, <3>6 DEF Step
  <2>4. ASSUME NEW p \in Procs, User(p) PROVE TypeOK'
    <3>1. CASE RefTransaction(p)
      <4>1. PICK changed \in SUBSET Refs \ {{}}, target \in [Refs -> Values] :
              /\ repo' = [part \in Parts |-> IF part \in changed THEN target[part] ELSE repo[part]]
              /\ held' = [part \in Parts |->
                            IF part \in changed THEN held[part] \cup {target[part]} ELSE held[part]]
              /\ fresh' = (fresh \ changed) \cup {r \in changed : target[r] \notin held[r]}
              /\ owes' = [q \in Procs |-> IF q = p /\ hook THEN changed ELSE owes[q] \ changed]
              /\ recorded' = recorded \ changed
        BY <3>1 DEF RefTransaction
      <4>2. repo' \in [Parts -> Values] /\ held' \in [Parts -> SUBSET Values]
        BY <4>1 DEF TypeOK
      <4>3. fresh' \subseteq Refs /\ recorded' \subseteq Refs /\ owes' \in [Procs -> SUBSET Refs]
        BY <4>1 DEF TypeOK
      <4>4. "captured" \in Calls  BY DEF Calls
      <4>5. RunHook(p, "captured")  BY <3>1 DEF RefTransaction
      <4>6. commands' \in 0 .. MaxCommands /\ UNCHANGED <<failures, head, hook, logVars>>
        BY <3>1, BoundsAssumption DEF RefTransaction, Issue, TypeOK
      <4>7. /\ pc' \in [Procs -> PCs] /\ call' \in [Procs -> Calls]
            /\ UNCHANGED <<parent, snap, commit, attempts, outcome, since>>
        BY <4>4, <4>5, RunHookTypes
      <4>8. Ids' = Ids  BY <4>6 DEF Ids
      <4> QED  BY <4>2, <4>3, <4>6, <4>7, <4>8 DEF TypeOK
    <3>2. CASE OtherTransaction(p)
      <4>1. "other" \in Calls  BY DEF Calls
      <4> QED  BY <3>2, <4>1, RunHookTypes, BoundsAssumption DEF OtherTransaction, Issue, TypeOK, Ids
    <3>3. CASE MoveHead(p)
      <4>1. "other" \in Calls  BY DEF Calls
      <4>2. head' \in Heads  BY <3>3 DEF MoveHead, Heads
      <4> QED  BY <3>3, <4>1, <4>2, RunHookTypes, BoundsAssumption DEF MoveHead, Issue, TypeOK, Ids
    <3>4. CASE DeleteLog(p)
      <4>1. "deletes_log" \in Calls  BY DEF Calls
      <4>2. chain' \in Seq({None} \cup Ids) /\ moves' \in Nat  BY <3>4 DEF DeleteLog, TypeOK
      <4> QED  BY <3>4, <4>1, <4>2, RunHookTypes, BoundsAssumption DEF DeleteLog, Issue, TypeOK, Ids
    <3>5. CASE EditFile(p)
      <4>1. PICK f \in Files, v \in Values :
              repo' = [repo EXCEPT ![f] = v] /\ held' = [held EXCEPT ![f] = held[f] \cup {v}]
        BY <3>5 DEF EditFile
      <4>2. repo' \in [Parts -> Values] /\ held' \in [Parts -> SUBSET Values]
        BY <4>1 DEF TypeOK, Parts
      <4> QED  BY <3>5, <4>2, BoundsAssumption DEF EditFile, Issue, TypeOK, Ids
    <3>6. CASE Install(p) \/ Uninstall(p)
      <4>1. hook' \in BOOLEAN  BY <3>6 DEF Install, Uninstall
      <4>2. commands' \in 0 .. MaxCommands
        BY <3>6, BoundsAssumption DEF Install, Uninstall, Issue, TypeOK
      <4>3. UNCHANGED <<repo, head, logVars, pc, call, localVars, outcome, historyVars, debtVars,
                        since, failures>>
        BY <3>6 DEF Install, Uninstall, Issue
      <4> QED  BY <4>1, <4>2, <4>3 DEF TypeOK, Ids
    <3>7. CASE SnapCommand(p)
      BY <3>7, BoundsAssumption DEF SnapCommand, Issue, TypeOK, Ids, PCs, Calls
    <3>8. CASE AppendExplicit(p)
      BY <3>8, BoundsAssumption DEF AppendExplicit, Issue, TypeOK, Ids, PCs, Calls
    <3> QED  BY <2>4, <3>1, <3>2, <3>3, <3>4, <3>5, <3>6, <3>7, <3>8 DEF User
  <2>5. ASSUME NEW p \in Procs, Fail(p) PROVE TypeOK'
    BY <2>5, FinishTypes, BoundsAssumption DEF Fail, TypeOK, Ids, Outcomes
  <2> QED  BY <2>1, <2>2, <2>3, <2>4, <2>5 DEF Next
<1> QED  BY <1>1, <1>2, PTL DEF Spec

-----------------------------------------------------------------------------
(* What a process holds between its steps.                                    *)

\* An idle process owes nothing, and a process about to publish holds a commit
\* of a complete capture that differs from the parent it names.
PhaseInv ==
    \A p \in Procs :
        /\ pc[p] = "idle" => owes[p] = {}
        /\ pc[p] = "publish" =>
             /\ DOMAIN snap[p] = Parts
             /\ commit[p] \in Ids /\ objects[commit[p]] = Candidate(p)
             /\ ~NothingToRecord(p)

\* Commits are never rewritten.
LEMMA ObjectsGrow ==
    ASSUME TypeOK, [Next]_vars
    PROVE  Ids \subseteq Ids' /\ \A id \in Ids : objects'[id] = objects[id]
<1> USE DEF repoVars, logVars, localVars, historyVars, boundVars, debtVars
<1>1. CASE UNCHANGED objects
  BY <1>1 DEF Ids
<1>2. ASSUME NEW p \in Procs, Decide(p), WriteCommit(p)
      PROVE  Ids \subseteq Ids' /\ \A id \in Ids : objects'[id] = objects[id]
  <2>1. DOMAIN snap[p] = Parts  BY <1>2 DEF Decide
  <2> QED  BY <1>2, <2>1, WriteCommitTypes DEF Ids, TypeOK
<1>3. UNCHANGED objects \/ \E p \in Procs : Decide(p) /\ WriteCommit(p)
  <2>1. CASE UNCHANGED vars  BY <2>1 DEF vars
  <2>2. CASE Rest  BY <2>2 DEF Rest, vars
  <2>3. ASSUME NEW p \in Procs, Step(p) PROVE UNCHANGED objects \/ (Decide(p) /\ WriteCommit(p))
    BY <2>3 DEF Step, Dispatch, CheckHead, ReadTip, Capture, Decide, Publish
  <2>4. ASSUME NEW p \in Procs, User(p) PROVE UNCHANGED objects
    BY <2>4 DEF User, RefTransaction, OtherTransaction, MoveHead, DeleteLog, EditFile, Install,
                Uninstall, SnapCommand, AppendExplicit
  <2>5. ASSUME NEW p \in Procs, Fail(p) PROVE UNCHANGED objects
    BY <2>5 DEF Fail
  <2> QED  BY <2>1, <2>2, <2>3, <2>4, <2>5 DEF Next
<1> QED  BY <1>1, <1>2, <1>3

\* A process that is idle, or whose call has just returned, satisfies its part
\* of PhaseInv, and the other processes keep theirs.
LEMMA PhaseFrame ==
    ASSUME TypeOK, PhaseInv, NEW p \in Procs,
           Ids \subseteq Ids', \A id \in Ids : objects'[id] = objects[id],
           \A q \in Procs \ {p} :
               /\ pc'[q] = pc[q] /\ call'[q] = call[q] /\ parent'[q] = parent[q]
               /\ snap'[q] = snap[q] /\ commit'[q] = commit[q] /\ owes'[q] \subseteq owes[q],
           pc'[p] # "publish",
           pc'[p] = "idle" => owes'[p] = {}
    PROVE  PhaseInv'
<1> SUFFICES ASSUME NEW q \in Procs
             PROVE  /\ pc'[q] = "idle" => owes'[q] = {}
                    /\ pc'[q] = "publish" =>
                         /\ DOMAIN snap'[q] = Parts
                         /\ commit'[q] \in Ids' /\ objects'[commit'[q]] = Candidate(q)'
                         /\ ~NothingToRecord(q)'
  BY DEF PhaseInv
<1>1. CASE q = p
  BY <1>1
<1>2. CASE q # p
  <2>1. Candidate(q)' = Candidate(q)  BY <1>2 DEF Candidate, Generated
  <2>2. NothingToRecord(q)' <=> NothingToRecord(q)
    <3>1. parent[q] # None => parent[q] \in Ids  BY DEF TypeOK
    <3> QED  BY <1>2, <3>1 DEF NothingToRecord, Generated
  <2> QED  BY <1>2, <2>1, <2>2 DEF PhaseInv
<1> QED  BY <1>1, <1>2

\* Every step keeps what a process's program counter says of its locals.
LEMMA PhaseStep ==
    ASSUME TypeOK, PhaseInv, [Next]_vars
    PROVE  PhaseInv'
<1> USE DEF repoVars, logVars, localVars, historyVars, boundVars, debtVars
<1>0. Ids \subseteq Ids' /\ \A id \in Ids : objects'[id] = objects[id]
  BY ObjectsGrow
<1>1. CASE UNCHANGED vars
  BY <1>1 DEF PhaseInv, vars, Ids, Candidate, Generated, NothingToRecord
<1>2. CASE Rest
  BY <1>2 DEF Rest, PhaseInv, vars, Ids, Candidate, Generated, NothingToRecord
<1>3. ASSUME NEW p \in Procs, Step(p) PROVE PhaseInv'
  <2>1. CASE Dispatch(p)
    BY <1>0, <2>1, PhaseFrame DEF Dispatch, Finish, TypeOK
  <2>2. CASE CheckHead(p)
    BY <1>0, <2>2, PhaseFrame DEF CheckHead, Finish, TypeOK
  <2>3. CASE ReadTip(p)
    BY <1>0, <2>3, PhaseFrame DEF ReadTip, TypeOK
  <2>4. CASE Capture(p)
    <3>1. pc'[p] = "capture" /\ owes' = owes  BY <2>4 DEF Capture
    <3>2. \A q \in Procs \ {p} : snap'[q] = snap[q]  BY <2>4 DEF Capture, TypeOK
    <3> QED  BY <1>0, <2>4, <3>1, <3>2, PhaseFrame DEF Capture
  <2>5. CASE Decide(p)
    <3>1. CASE Finish(p, "current")
      BY <1>0, <2>5, <3>1, PhaseFrame DEF Decide, Finish, TypeOK
    <3>2. CASE ~NothingToRecord(p) /\ WriteCommit(p) /\ pc' = [pc EXCEPT ![p] = "publish"]
               /\ UNCHANGED <<parent, snap, attempts, outcome, debtVars>>
      <4> SUFFICES ASSUME NEW q \in Procs
                   PROVE  /\ pc'[q] = "idle" => owes'[q] = {}
                          /\ pc'[q] = "publish" =>
                               /\ DOMAIN snap'[q] = Parts
                               /\ commit'[q] \in Ids' /\ objects'[commit'[q]] = Candidate(q)'
                               /\ ~NothingToRecord(q)'
        BY DEF PhaseInv
      <4>1. DOMAIN snap[p] = Parts  BY <2>5 DEF Decide
      <4>2. Candidate(q)' = Candidate(q)  BY <2>5, <3>2 DEF Decide, Candidate, Generated
      <4>3. NothingToRecord(q)' <=> NothingToRecord(q)
        <5>1. parent[q] # None => parent[q] \in Ids  BY DEF TypeOK
        <5> QED  BY <1>0, <2>5, <3>2, <5>1 DEF Decide, NothingToRecord, Generated
      <4>4. CASE q = p
        BY <2>5, <3>2, <4>1, <4>2, <4>3, <4>4, WriteCommitTypes DEF TypeOK
      <4>5. CASE q # p
        <5>1. commit'[q] = commit[q] /\ pc'[q] = pc[q] /\ owes'[q] = owes[q]
          BY <3>2, <4>5 DEF WriteCommit, TypeOK
        <5> QED  BY <1>0, <3>2, <4>2, <4>3, <5>1 DEF PhaseInv
      <4> QED  BY <4>4, <4>5
    <3> QED  BY <2>5, <3>1, <3>2 DEF Decide
  <2>6. CASE Publish(p)
    BY <1>0, <2>6, PhaseFrame DEF Publish, Finish, TypeOK
  <2> QED  BY <1>3, <2>1, <2>2, <2>3, <2>4, <2>5, <2>6 DEF Step
<1>4. ASSUME NEW p \in Procs, User(p) PROVE PhaseInv'
  <2>1. CASE RefTransaction(p)
    <3>1. PICK changed \in SUBSET Refs :
            owes' = [q \in Procs |-> IF q = p /\ hook THEN changed ELSE owes[q] \ changed]
      BY <2>1 DEF RefTransaction
    <3>2. owes[p] = {}  BY <2>1 DEF RefTransaction, Issue, PhaseInv
    <3>3. RunHook(p, "captured")  BY <2>1 DEF RefTransaction
    <3>4. \A q \in Procs \ {p} :
            /\ pc'[q] = pc[q] /\ call'[q] = call[q] /\ parent'[q] = parent[q]
            /\ snap'[q] = snap[q] /\ commit'[q] = commit[q] /\ owes'[q] \subseteq owes[q]
      BY <3>1, <3>3 DEF RunHook, TypeOK
    <3>5. pc'[p] # "publish"  BY <3>3 DEF RunHook, TypeOK
    <3>6. pc'[p] = "idle" => owes'[p] = {}  BY <3>1, <3>2, <3>3 DEF RunHook, TypeOK
    <3> QED  BY <1>0, <3>4, <3>5, <3>6, PhaseFrame
  <2>2. CASE OtherTransaction(p) \/ MoveHead(p) \/ DeleteLog(p)
    BY <1>0, <2>2, PhaseFrame DEF OtherTransaction, MoveHead, DeleteLog, RunHook, Issue, TypeOK, PhaseInv
  <2>3. CASE EditFile(p) \/ Install(p) \/ Uninstall(p)
    BY <1>0, <2>3, PhaseFrame DEF EditFile, Install, Uninstall, Issue, TypeOK, PhaseInv
  <2>4. CASE SnapCommand(p) \/ AppendExplicit(p)
    BY <1>0, <2>4, PhaseFrame DEF SnapCommand, AppendExplicit, Issue, TypeOK
  <2> QED  BY <1>4, <2>1, <2>2, <2>3, <2>4 DEF User
<1>5. ASSUME NEW p \in Procs, Fail(p) PROVE PhaseInv'
  BY <1>0, <1>5, PhaseFrame DEF Fail, Finish, TypeOK
<1> QED  BY <1>1, <1>2, <1>3, <1>4, <1>5 DEF Next

\* At each step of an append, its locals are what that step relies on: a tip has
\* been read, a capture is complete, a commit holds it.
THEOREM PhaseInvariant == Spec => []PhaseInv
<1>1. Init => PhaseInv
  BY DEF Init, PhaseInv
<1> QED  BY <1>1, PhaseStep, TypeInvariant, PTL DEF Spec

-----------------------------------------------------------------------------
(* The log is the first-parent history of its tip.                            *)

ChainInv ==
    /\ LogLinked
    /\ \A i \in 1 .. Len(chain) : chain[i] \in Ids

\* What an action can do to the log.
LEMMA LogStep ==
    ASSUME TypeOK, [Next]_vars
    PROVE  \/ UNCHANGED <<tip, chain, moves>>
           \/ /\ tip' = None /\ chain' = <<>> /\ moves' = moves + 1
              /\ UNCHANGED objects
              /\ \E p \in Procs : DeleteLog(p)
           \/ /\ UNCHANGED objects
              /\ \E p \in Procs :
                   /\ pc[p] = "publish" /\ tip = parent[p]
                   /\ tip' = commit[p] /\ chain' = Append(chain, commit[p]) /\ moves' = moves + 1
                   /\ Publish(p)
<1> USE DEF repoVars, logVars, localVars, historyVars, boundVars, debtVars
<1>1. CASE UNCHANGED vars  BY <1>1 DEF vars
<1>2. CASE Rest  BY <1>2 DEF Rest, vars
<1>3. ASSUME NEW p \in Procs, Step(p), ~Publish(p) PROVE UNCHANGED <<tip, chain, moves>>
  BY <1>3 DEF Step, Dispatch, CheckHead, ReadTip, Capture, Decide
<1>4. ASSUME NEW p \in Procs, Publish(p)
      PROVE  \/ UNCHANGED <<tip, chain, moves>>
             \/ /\ UNCHANGED objects /\ pc[p] = "publish" /\ tip = parent[p]
                /\ tip' = commit[p] /\ chain' = Append(chain, commit[p]) /\ moves' = moves + 1
  BY <1>4 DEF Publish
<1>5. ASSUME NEW p \in Procs, User(p), ~DeleteLog(p) PROVE UNCHANGED <<tip, chain, moves>>
  BY <1>5 DEF User, RefTransaction, OtherTransaction, MoveHead, EditFile, Install, Uninstall,
              SnapCommand, AppendExplicit
<1>6. ASSUME NEW p \in Procs, DeleteLog(p)
      PROVE  tip' = None /\ chain' = <<>> /\ moves' = moves + 1 /\ UNCHANGED objects
  BY <1>6 DEF DeleteLog
<1>7. ASSUME NEW p \in Procs, Fail(p) PROVE UNCHANGED <<tip, chain, moves>>
  BY <1>7 DEF Fail
<1> QED  BY <1>1, <1>2, <1>3, <1>4, <1>5, <1>6, <1>7 DEF Next

\* Every step keeps the published commits chained by their parents.
LEMMA ChainStep ==
    ASSUME TypeOK, PhaseInv, ChainInv, [Next]_vars
    PROVE  ChainInv'
<1>0. Ids \subseteq Ids' /\ \A id \in Ids : objects'[id] = objects[id]
  BY ObjectsGrow
<1>1. CASE UNCHANGED <<tip, chain, moves>>
  BY <1>0, <1>1 DEF ChainInv, LogLinked
<1>2. CASE tip' = None /\ chain' = <<>>
  BY <1>2 DEF ChainInv, LogLinked
<1>3. ASSUME NEW p \in Procs, UNCHANGED objects, pc[p] = "publish", tip = parent[p],
             tip' = commit[p], chain' = Append(chain, commit[p])
      PROVE  ChainInv'
  <2> DEFINE n == Len(chain)
  <2>1. chain \in Seq({None} \cup Ids) /\ n \in Nat  BY DEF TypeOK
  <2>2. commit[p] \in Ids /\ objects[commit[p]].parent = parent[p]
    <3>1. commit[p] \in Ids /\ objects[commit[p]] = Candidate(p)  BY <1>3 DEF PhaseInv
    <3>2. Candidate(p).parent = parent[p]  BY DEF Candidate
    <3> QED  BY <3>1, <3>2
  <2>3. Len(chain') = n + 1 /\ chain'[n + 1] = commit[p] /\ chain' # <<>>
    BY <1>3, <2>1, <2>2
  <2>4. \A i \in 1 .. n : chain'[i] = chain[i]
    BY <1>3, <2>1, <2>2
  <2>5. \A i \in 1 .. n + 1 : chain'[i] \in Ids'
    BY <1>0, <2>1, <2>2, <2>3, <2>4 DEF ChainInv
  <2>6. \A i \in 1 .. n : objects[chain'[i]].parent = IF i = 1 THEN None ELSE chain'[i - 1]
    BY <2>1, <2>4 DEF ChainInv, LogLinked
  <2>7. objects[chain'[n + 1]].parent = IF n + 1 = 1 THEN None ELSE chain'[n]
    <3>1. CASE n = 0
      <4>1. chain = <<>>  BY <2>1, <3>1
      <4> QED  BY <1>3, <2>1, <2>2, <2>3, <3>1, <4>1 DEF ChainInv, LogLinked
    <3>2. CASE n # 0
      <4>1. chain # <<>> /\ tip = chain[n]  BY <2>1, <3>2 DEF ChainInv, LogLinked
      <4> QED  BY <1>3, <2>1, <2>2, <2>3, <2>4, <3>2, <4>1
    <3> QED  BY <3>1, <3>2
  <2>8. \A i \in 1 .. n + 1 : objects'[chain'[i]].parent = IF i = 1 THEN None ELSE chain'[i - 1]
    <3> SUFFICES ASSUME NEW i \in 1 .. n + 1
                 PROVE  objects'[chain'[i]].parent = IF i = 1 THEN None ELSE chain'[i - 1]
      OBVIOUS
    <3>1. CASE i \in 1 .. n  BY <1>3, <2>6, <3>1
    <3>2. CASE i = n + 1
      <4>1. i - 1 = n  BY <2>1, <3>2
      <4> QED  BY <1>3, <2>7, <3>2, <4>1
    <3> QED  BY <2>1, <3>1, <3>2
  <2> QED  BY <1>3, <2>3, <2>5, <2>8 DEF ChainInv, LogLinked
<1> QED  BY <1>1, <1>2, <1>3, LogStep

\* The commits of the present log are the first-parent history of refs/op: no
\* append loses, reorders or re-parents a published snapshot.
THEOREM LogIsLinked == Spec => []LogLinked
<1>1. Init => ChainInv
  BY DEF Init, ChainInv, LogLinked
<1>2. ChainInv => LogLinked
  BY DEF ChainInv
<1> QED  BY <1>1, <1>2, ChainStep, TypeInvariant, PhaseInvariant, PTL DEF Spec

-----------------------------------------------------------------------------
(* Giving up is a sign of contention.                                         *)

\* Every lost race of a running append is a change of refs/op since it began,
\* and so is a tip that is no longer the one it read.
ContentionInv ==
    \A p \in Procs :
        /\ since[p] <= moves
        /\ pc[p] \in {"idle", "hook", "head"} => attempts[p] = 0
        /\ pc[p] = "tip" => attempts[p] <= moves - since[p]
        /\ pc[p] \in {"capture", "publish"} =>
             /\ attempts[p] <= moves - since[p]
             /\ tip # parent[p] => attempts[p] + 1 <= moves - since[p]
        /\ pc[p] = "idle" /\ outcome[p] = "lost_race" => moves - since[p] >= MaxAppendAttempts

\* A change of refs/op, or none, keeps the invariant of every process whose
\* variables an action leaves alone.
LEMMA ContentionFrame ==
    ASSUME TypeOK, ContentionInv, [Next]_vars, NEW q \in Procs,
           pc'[q] = pc[q], parent'[q] = parent[q], attempts'[q] = attempts[q],
           outcome'[q] = outcome[q], since'[q] = since[q]
    PROVE  /\ since'[q] <= moves'
           /\ pc'[q] \in {"idle", "hook", "head"} => attempts'[q] = 0
           /\ pc'[q] = "tip" => attempts'[q] <= moves' - since'[q]
           /\ pc'[q] \in {"capture", "publish"} =>
                /\ attempts'[q] <= moves' - since'[q]
                /\ tip' # parent'[q] => attempts'[q] + 1 <= moves' - since'[q]
           /\ pc'[q] = "idle" /\ outcome'[q] = "lost_race" =>
                moves' - since'[q] >= MaxAppendAttempts
<1>1. moves \in Nat /\ since[q] \in Nat /\ attempts[q] \in Nat /\ MaxAppendAttempts \in Nat
  BY AttemptsAssumption DEF TypeOK
<1>2. (tip' = tip /\ moves' = moves) \/ moves' = moves + 1
  BY LogStep
<1> QED  BY <1>1, <1>2 DEF ContentionInv

\* Every step keeps the count of lost races below the changes of refs/op.
LEMMA ContentionStep ==
    ASSUME TypeOK, ContentionInv, [Next]_vars
    PROVE  ContentionInv'
<1> USE DEF repoVars, logVars, localVars, historyVars, boundVars, debtVars
<1>0. /\ moves \in Nat /\ MaxAppendAttempts \in Nat
      /\ \A p \in Procs : since[p] \in Nat /\ attempts[p] \in 0 .. MaxAppendAttempts - 1
  BY AttemptsAssumption DEF TypeOK
<1>1. CASE UNCHANGED <<pc, parent, attempts, outcome, since>>
  BY <1>1, ContentionFrame DEF ContentionInv
<1>2. ASSUME NEW p \in Procs, Step(p) PROVE ContentionInv'
  <2> SUFFICES ASSUME NEW q \in Procs
               PROVE  /\ since'[q] <= moves'
                      /\ pc'[q] \in {"idle", "hook", "head"} => attempts'[q] = 0
                      /\ pc'[q] = "tip" => attempts'[q] <= moves' - since'[q]
                      /\ pc'[q] \in {"capture", "publish"} =>
                           /\ attempts'[q] <= moves' - since'[q]
                           /\ tip' # parent'[q] => attempts'[q] + 1 <= moves' - since'[q]
                      /\ pc'[q] = "idle" /\ outcome'[q] = "lost_race" =>
                           moves' - since'[q] >= MaxAppendAttempts
    BY DEF ContentionInv
  <2>1. CASE q # p
    <3>1. /\ pc'[q] = pc[q] /\ parent'[q] = parent[q] /\ attempts'[q] = attempts[q]
          /\ outcome'[q] = outcome[q] /\ since'[q] = since[q]
      BY <1>2, <2>1 DEF Step, Dispatch, CheckHead, ReadTip, Capture, Decide, Publish, Finish, TypeOK
    <3> QED  BY <3>1, ContentionFrame
  <2>2. CASE q = p
    <3>1. CASE Dispatch(p)
      BY <1>0, <2>2, <3>1 DEF Dispatch, Finish, TypeOK, ContentionInv
    <3>2. CASE CheckHead(p)
      BY <1>0, <2>2, <3>2 DEF CheckHead, Finish, TypeOK, ContentionInv
    <3>3. CASE ReadTip(p)
      BY <1>0, <2>2, <3>3 DEF ReadTip, TypeOK, ContentionInv
    <3>4. CASE Capture(p)
      BY <1>0, <2>2, <3>4 DEF Capture, TypeOK, ContentionInv
    <3>5. CASE Decide(p)
      BY <1>0, <2>2, <3>5 DEF Decide, Finish, TypeOK, ContentionInv
    <3>6. CASE Publish(p)
      BY <1>0, <2>2, <3>6 DEF Publish, Finish, TypeOK, ContentionInv
    <3> QED  BY <1>2, <3>1, <3>2, <3>3, <3>4, <3>5, <3>6 DEF Step
  <2> QED  BY <2>1, <2>2
<1>3. ASSUME NEW p \in Procs, User(p) \/ Fail(p) PROVE ContentionInv'
  <2> SUFFICES ASSUME NEW q \in Procs
               PROVE  /\ since'[q] <= moves'
                      /\ pc'[q] \in {"idle", "hook", "head"} => attempts'[q] = 0
                      /\ pc'[q] = "tip" => attempts'[q] <= moves' - since'[q]
                      /\ pc'[q] \in {"capture", "publish"} =>
                           /\ attempts'[q] <= moves' - since'[q]
                           /\ tip' # parent'[q] => attempts'[q] + 1 <= moves' - since'[q]
                      /\ pc'[q] = "idle" /\ outcome'[q] = "lost_race" =>
                           moves' - since'[q] >= MaxAppendAttempts
    BY DEF ContentionInv
  <2>1. CASE q # p
    <3>1. /\ pc'[q] = pc[q] /\ parent'[q] = parent[q] /\ attempts'[q] = attempts[q]
          /\ outcome'[q] = outcome[q] /\ since'[q] = since[q]
      BY <1>3, <2>1 DEF User, RefTransaction, OtherTransaction, MoveHead, DeleteLog, EditFile,
           Install, Uninstall, SnapCommand, AppendExplicit, Fail, Finish, RunHook, TypeOK
    <3> QED  BY <3>1, ContentionFrame
  <2>2. CASE q = p
    <3>1. CASE RefTransaction(p) \/ OtherTransaction(p) \/ MoveHead(p)
      BY <1>0, <2>2, <3>1
      DEF RefTransaction, OtherTransaction, MoveHead, Issue, RunHook, TypeOK, ContentionInv
    <3>2. CASE DeleteLog(p)
      BY <1>0, <2>2, <3>2 DEF DeleteLog, Issue, RunHook, TypeOK, ContentionInv
    <3>3. CASE EditFile(p) \/ Install(p) \/ Uninstall(p)
      BY <1>0, <2>2, <3>3 DEF EditFile, Install, Uninstall, Issue, TypeOK, ContentionInv
    <3>4. CASE SnapCommand(p) \/ AppendExplicit(p)
      BY <1>0, <2>2, <3>4 DEF SnapCommand, AppendExplicit, Issue, TypeOK, ContentionInv
    <3>5. CASE Fail(p)
      BY <1>0, <2>2, <3>5 DEF Fail, Finish, TypeOK, ContentionInv
    <3> QED  BY <1>3, <3>1, <3>2, <3>3, <3>4, <3>5 DEF User
  <2> QED  BY <2>1, <2>2
<1> QED  BY <1>1, <1>2, <1>3 DEF Next, Rest, vars

\* An append that returns Error::LostRace saw refs/op change at least
\* MAX_APPEND_ATTEMPTS times, for every value of that bound: the retry loop
\* never gives up on its own account.
THEOREM LostRaceMeansContention == Spec => []LostRaceOnlyUnderContention
<1>1. Init => ContentionInv
  BY DEF Init, ContentionInv
<1>2. ContentionInv => LostRaceOnlyUnderContention
  BY DEF ContentionInv, LostRaceOnlyUnderContention
<1> QED  BY <1>1, <1>2, ContentionStep, TypeInvariant, PTL DEF Spec

-----------------------------------------------------------------------------
(* Nothing is recorded that the repository did not hold.                      *)

HeldInv ==
    /\ \A part \in Parts : repo[part] \in held[part]
    /\ \A c \in Ids : objects[c].parent \in {None} \cup Ids
    /\ \A c \in Ids, part \in Parts : objects[c].state[part] \in held[part]
    /\ \A p \in Procs : \A part \in DOMAIN snap[p] : part \in Parts /\ snap[p][part] \in held[part]

\* What an action can do to the repository.
LEMMA RepoStep ==
    ASSUME TypeOK, HeldInv, [Next]_vars
    PROVE  \A part \in Parts :
             /\ held[part] \subseteq held'[part]
             /\ repo'[part] \in held'[part]
<1> USE DEF repoVars, logVars, localVars, historyVars, boundVars, debtVars
<1>1. CASE UNCHANGED <<repo, held>>
  BY <1>1 DEF HeldInv
<1>2. ASSUME NEW p \in Procs, RefTransaction(p)
      PROVE  \A part \in Parts : held[part] \subseteq held'[part] /\ repo'[part] \in held'[part]
  BY <1>2 DEF RefTransaction, HeldInv, TypeOK
<1>3. ASSUME NEW p \in Procs, EditFile(p)
      PROVE  \A part \in Parts : held[part] \subseteq held'[part] /\ repo'[part] \in held'[part]
  BY <1>3 DEF EditFile, HeldInv, TypeOK, Parts
<1>4. ASSUME NEW p \in Procs, Step(p) \/ Fail(p) PROVE UNCHANGED <<repo, held>>
  BY <1>4 DEF Step, Dispatch, CheckHead, ReadTip, Capture, Decide, Publish, Fail
<1>5. ASSUME NEW p \in Procs, User(p), ~RefTransaction(p), ~EditFile(p) PROVE UNCHANGED <<repo, held>>
  BY <1>5 DEF User, OtherTransaction, MoveHead, DeleteLog, Install, Uninstall, SnapCommand,
              AppendExplicit
<1> QED  BY <1>1, <1>2, <1>3, <1>4, <1>5 DEF Next, Rest, vars

\* Where a capture's pieces come from.
LEMMA SnapStep ==
    ASSUME TypeOK, [Next]_vars, NEW p \in Procs
    PROVE  \/ snap'[p] = snap[p]
           \/ snap'[p] = NoState
           \/ /\ Capture(p)
              /\ \E part \in Parts :
                   snap'[p] = [q \in DOMAIN snap[p] \cup {part} |->
                                 IF q = part THEN repo[q] ELSE snap[p][q]]
<1> USE DEF repoVars, logVars, localVars, historyVars, boundVars, debtVars
<1>1. CASE UNCHANGED snap  BY <1>1
<1>2. ASSUME NEW q \in Procs, Finish(q, outcome'[q]) \/ ReadTip(q)
      PROVE  snap'[p] = snap[p] \/ snap'[p] = NoState
  BY <1>2 DEF Finish, ReadTip, TypeOK
<1>3. ASSUME NEW q \in Procs, Capture(q)
      PROVE  \/ snap'[p] = snap[p]
             \/ /\ Capture(p)
                /\ \E part \in Parts :
                     snap'[p] = [x \in DOMAIN snap[p] \cup {part} |->
                                   IF x = part THEN repo[x] ELSE snap[p][x]]
  <2>1. CASE q = p
    <3>1. PICK part \in NextToCapture(p) :
            snap' = [snap EXCEPT ![p] = [x \in DOMAIN snap[p] \cup {part} |->
                                           IF x = part THEN repo[x] ELSE snap[p][x]]]
      BY <1>3, <2>1 DEF Capture
    <3>2. part \in Parts  BY <3>1 DEF NextToCapture, Parts
    <3>3. snap'[p] = [x \in DOMAIN snap[p] \cup {part} |->
                        IF x = part THEN repo[x] ELSE snap[p][x]]
      BY <3>1 DEF TypeOK
    <3> QED  BY <1>3, <2>1, <3>2, <3>3
  <2>2. CASE q # p
    BY <1>3, <2>2 DEF Capture, TypeOK
  <2> QED  BY <2>1, <2>2
<1>4. ASSUME NEW q \in Procs, Step(q), ~Capture(q), ~ReadTip(q)
      PROVE  UNCHANGED snap \/ Finish(q, outcome'[q])
  BY <1>4 DEF Step, Dispatch, CheckHead, Decide, Publish, Finish, TypeOK
<1>5. ASSUME NEW q \in Procs, User(q) PROVE UNCHANGED snap
  BY <1>5 DEF User, RefTransaction, OtherTransaction, MoveHead, DeleteLog, EditFile, Install,
              Uninstall, SnapCommand, AppendExplicit, RunHook
<1>6. ASSUME NEW q \in Procs, Fail(q) PROVE snap'[p] = snap[p] \/ snap'[p] = NoState
  BY <1>6 DEF Fail, Finish, TypeOK
<1> QED  BY <1>1, <1>2, <1>3, <1>4, <1>5, <1>6 DEF Next, Rest, vars

\* A commit written by a step is the candidate of the process that took it.
LEMMA NewCommit ==
    ASSUME TypeOK, [Next]_vars, NEW c \in Ids', c \notin Ids
    PROVE  \E p \in Procs :
             pc[p] = "capture" /\ DOMAIN snap[p] = Parts /\ objects'[c] = Candidate(p)
             /\ Decide(p)
<1> USE DEF repoVars, logVars, localVars, historyVars, boundVars, debtVars
<1>1. objects' # objects  BY DEF Ids
<1>2. PICK p \in Procs : Decide(p) /\ WriteCommit(p)
  <2>1. ASSUME NEW p \in Procs, Step(p) PROVE UNCHANGED objects \/ (Decide(p) /\ WriteCommit(p))
    BY <2>1 DEF Step, Dispatch, CheckHead, ReadTip, Capture, Decide, Publish
  <2>2. ASSUME NEW p \in Procs, User(p) \/ Fail(p) PROVE UNCHANGED objects
    BY <2>2 DEF User, RefTransaction, OtherTransaction, MoveHead, DeleteLog, EditFile, Install,
                Uninstall, SnapCommand, AppendExplicit, Fail
  <2> QED  BY <1>1, <2>1, <2>2 DEF Next, Rest, vars
<1>3. DOMAIN snap[p] = Parts /\ pc[p] = "capture"  BY <1>2 DEF Decide
<1> QED  BY <1>2, <1>3, WriteCommitTypes

\* Every step keeps captures and commits made of values that were held.
LEMMA HeldStep ==
    ASSUME TypeOK, HeldInv, [Next]_vars
    PROVE  HeldInv'
<1>0. \A part \in Parts : held[part] \subseteq held'[part] /\ repo'[part] \in held'[part]
  BY RepoStep
<1>1. Ids \subseteq Ids' /\ \A id \in Ids : objects'[id] = objects[id]
  BY ObjectsGrow
<1>2. ASSUME NEW c \in Ids'
      PROVE  /\ objects'[c].parent \in {None} \cup Ids'
             /\ \A part \in Parts : objects'[c].state[part] \in held'[part]
  <2>1. CASE c \in Ids
    BY <1>0, <1>1, <2>1 DEF HeldInv
  <2>2. CASE c \notin Ids
    <3>1. PICK p \in Procs : DOMAIN snap[p] = Parts /\ objects'[c] = Candidate(p)
      BY <2>2, NewCommit
    <3>2. objects'[c].parent = parent[p] /\ objects'[c].state = snap[p]
      BY <3>1 DEF Candidate
    <3>3. parent[p] \in {None} \cup Ids  BY DEF TypeOK
    <3>4. \A part \in Parts : snap[p][part] \in held[part]  BY <3>1 DEF HeldInv
    <3> QED  BY <1>0, <1>1, <3>2, <3>3, <3>4
  <2> QED  BY <2>1, <2>2
<1>3. ASSUME NEW p \in Procs, NEW part \in DOMAIN snap'[p]
      PROVE  part \in Parts /\ snap'[p][part] \in held'[part]
  <2>1. CASE snap'[p] = snap[p]
    BY <1>0, <2>1 DEF HeldInv
  <2>2. CASE snap'[p] = NoState
    BY <2>2 DEF NoState
  <2>3. ASSUME NEW piece \in Parts,
               snap'[p] = [q \in DOMAIN snap[p] \cup {piece} |->
                             IF q = piece THEN repo[q] ELSE snap[p][q]]
        PROVE  part \in Parts /\ snap'[p][part] \in held'[part]
    <3>1. CASE part = piece  BY <1>0, <2>3, <3>1 DEF HeldInv
    <3>2. CASE part # piece  BY <1>0, <2>3, <3>2 DEF HeldInv
    <3> QED  BY <3>1, <3>2
  <2> QED  BY <2>1, <2>2, <2>3, SnapStep
<1> QED  BY <1>0, <1>2, <1>3 DEF HeldInv

\* Whatever an append captures or commits, piece by piece and while the
\* repository moves, consists of values the repository really had.
THEOREM HeldInvariant == Spec => []HeldInv
<1>1. Init => HeldInv
  <2> SUFFICES ASSUME Init PROVE HeldInv  OBVIOUS
  <2>1. Ids = {}  BY DEF Init, Ids
  <2> QED  BY <2>1, InitialAssumption DEF Init, HeldInv, NoState
<1> QED  BY <1>1, HeldStep, TypeInvariant, PTL DEF Spec

-----------------------------------------------------------------------------
(* What a successful hook recorded stays recorded.                            *)

Capturing(p) == pc[p] \in {"capture", "publish"}

\* A commit that records the present value of r.
Has(id, r) == id # None /\ objects[id].state[r] = repo[r]

\* For a ref whose present value is new: whatever is built on a commit that
\* has the value has it too, be it another commit, the capture of a running
\* append that read such a tip, or the tip since then; and the hook that owes the
\* ref captures that value.
FreshInv ==
    \A r \in fresh :
        /\ \A c \in Ids : Has(objects[c].parent, r) => Has(c, r)
        /\ \A p \in Procs : Capturing(p) /\ Has(parent[p], r) =>
             Has(tip, r) /\ (r \in DOMAIN snap[p] => snap[p][r] = repo[r])
        /\ \A p \in Procs : Capturing(p) /\ r \in owes[p] /\ r \in DOMAIN snap[p] =>
             snap[p][r] = repo[r]
        /\ r \in recorded => Has(tip, r)

\* A ref is fresh after a step because its value is brand new, or because it was
\* fresh and has kept its value; then no hook starts to owe it.
LEMMA FreshCases ==
    ASSUME TypeOK, PhaseInv, [Next]_vars, NEW r \in fresh'
    PROVE  \/ /\ r \in fresh /\ repo'[r] = repo[r]
              /\ \A q \in Procs : Capturing(q)' /\ r \in owes'[q] => r \in owes[q]
           \/ /\ r \in Refs /\ repo'[r] \notin held[r] /\ r \notin recorded'
              /\ \A q \in Procs : r \in owes'[q] => ~Capturing(q)'
              /\ UNCHANGED <<objects, tip, parent, snap>>
              /\ \A q \in Procs : Capturing(q)' => Capturing(q)
<1> USE DEF repoVars, logVars, localVars, historyVars, boundVars, debtVars
<1> DEFINE Kept == r \in fresh /\ repo'[r] = repo[r]
<1> DEFINE Owing == \A q \in Procs : Capturing(q)' /\ r \in owes'[q] => r \in owes[q]
<1>1. CASE UNCHANGED <<repo, fresh, owes>>  BY <1>1
<1>2. ASSUME NEW p \in Procs, Step(p) PROVE Kept /\ Owing
  <2>1. UNCHANGED <<repo, fresh>>
    BY <1>2 DEF Step, Dispatch, CheckHead, ReadTip, Capture, Decide, Publish
  <2>2. UNCHANGED owes \/ owes' = [owes EXCEPT ![p] = {}]
    BY <1>2 DEF Step, Dispatch, CheckHead, ReadTip, Capture, Decide, Publish, Finish
  <2> QED  BY <2>1, <2>2 DEF TypeOK
<1>3. ASSUME NEW p \in Procs, Fail(p) PROVE Kept /\ Owing
  <2>1. UNCHANGED <<repo, fresh>> /\ owes' = [owes EXCEPT ![p] = {}]
    BY <1>3 DEF Fail, Finish
  <2> QED  BY <2>1 DEF TypeOK
<1>4. ASSUME NEW p \in Procs, EditFile(p) PROVE Kept /\ Owing
  <2>1. PICK f \in Files, v \in Values : repo' = [repo EXCEPT ![f] = v]
    BY <1>4 DEF EditFile
  <2>2. r \in Refs /\ r \in fresh /\ UNCHANGED owes  BY <1>4 DEF EditFile, TypeOK
  <2>3. r # f  BY <2>2, PartsAssumption
  <2> QED  BY <2>1, <2>2, <2>3 DEF TypeOK
<1>5. ASSUME NEW p \in Procs, User(p), ~RefTransaction(p), ~EditFile(p), ~DeleteLog(p)
      PROVE  Kept /\ Owing
  BY <1>5 DEF User, OtherTransaction, MoveHead, Install, Uninstall, SnapCommand, AppendExplicit
<1>6. ASSUME NEW p \in Procs, DeleteLog(p) PROVE FALSE
  BY <1>6 DEF DeleteLog
<1>7. ASSUME NEW p \in Procs, RefTransaction(p)
      PROVE  \/ Kept /\ Owing
             \/ /\ r \in Refs /\ repo'[r] \notin held[r] /\ r \notin recorded'
                /\ \A q \in Procs : r \in owes'[q] => ~Capturing(q)'
                /\ UNCHANGED <<objects, tip, parent, snap>>
                /\ \A q \in Procs : Capturing(q)' => Capturing(q)
  <2>1. PICK changed \in SUBSET Refs \ {{}}, target \in [Refs -> Values] :
          /\ repo' = [part \in Parts |-> IF part \in changed THEN target[part] ELSE repo[part]]
          /\ fresh' = (fresh \ changed) \cup {x \in changed : target[x] \notin held[x]}
          /\ owes' = [q \in Procs |-> IF q = p /\ hook THEN changed ELSE owes[q] \ changed]
          /\ recorded' = recorded \ changed
    BY <1>7 DEF RefTransaction
  <2>2. pc' = [pc EXCEPT ![p] = IF hook THEN "hook" ELSE "idle"]
        /\ UNCHANGED <<objects, tip, parent, snap>>
    BY <1>7 DEF RefTransaction, RunHook
  <2>3. ~Capturing(p)' /\ owes[p] = {} /\ \A q \in Procs : Capturing(q)' => Capturing(q)
    BY <1>7, <2>2 DEF RefTransaction, Issue, Capturing, TypeOK, PhaseInv
  <2>4. r \in Refs  BY <2>1 DEF TypeOK
  <2>5. CASE r \in changed
    <3>1. repo'[r] \notin held[r] /\ r \notin recorded'
      BY <2>1, <2>4, <2>5 DEF Parts
    <3>2. \A q \in Procs : r \in owes'[q] => q = p  BY <2>1, <2>5
    <3> QED  BY <2>2, <2>3, <2>4, <3>1, <3>2
  <2>6. CASE r \notin changed
    <3>1. Kept  BY <2>1, <2>4, <2>6 DEF Parts
    <3>2. Owing  BY <2>1, <2>3, <2>6
    <3> QED  BY <3>1, <3>2
  <2> QED  BY <2>5, <2>6
<1> QED  BY <1>1, <1>2, <1>3, <1>4, <1>5, <1>6, <1>7 DEF Next, Rest, vars

\* How a process comes to be capturing.
LEMMA CapturingStep ==
    ASSUME TypeOK, [Next]_vars, NEW q \in Procs, Capturing(q)'
    PROVE  \/ /\ Capturing(q) /\ parent'[q] = parent[q]
              /\ \A r \in Parts : r \in DOMAIN snap'[q] =>
                   \/ r \in DOMAIN snap[q] /\ snap'[q][r] = snap[q][r]
                   \/ snap'[q][r] = repo[r]
           \/ parent'[q] = tip /\ snap'[q] = NoState /\ UNCHANGED tip
<1> USE DEF repoVars, logVars, localVars, historyVars, boundVars, debtVars
<1>1. CASE UNCHANGED <<pc, parent, snap>>
  BY <1>1 DEF Capturing
<1>2. ASSUME NEW p \in Procs, p # q, Step(p) \/ User(p) \/ Fail(p)
      PROVE  pc'[q] = pc[q] /\ parent'[q] = parent[q] /\ snap'[q] = snap[q]
  BY <1>2 DEF Step, Dispatch, CheckHead, ReadTip, Capture, Decide, Publish, User, RefTransaction,
       OtherTransaction, MoveHead, DeleteLog, EditFile, Install, Uninstall, SnapCommand,
       AppendExplicit, Fail, Finish, RunHook, TypeOK
<1>3. CASE ReadTip(q)
  BY <1>3 DEF ReadTip, TypeOK
<1>4. CASE Capture(q)
  <2>1. pc[q] = "capture" /\ parent' = parent  BY <1>4 DEF Capture
  <2>2. CASE snap'[q] = snap[q]  BY <2>1, <2>2 DEF Capturing
  <2>3. CASE snap'[q] = NoState  BY <2>1, <2>3 DEF Capturing, NoState
  <2>4. ASSUME NEW part \in Parts,
               snap'[q] = [x \in DOMAIN snap[q] \cup {part} |->
                             IF x = part THEN repo[x] ELSE snap[q][x]]
        PROVE  \A r \in Parts : r \in DOMAIN snap'[q] =>
                 \/ r \in DOMAIN snap[q] /\ snap'[q][r] = snap[q][r]
                 \/ snap'[q][r] = repo[r]
    BY <2>4
  <2> QED  BY <2>1, <2>2, <2>3, <2>4, SnapStep DEF Capturing
<1>5. CASE Decide(q)
  BY <1>5 DEF Decide, Finish, Capturing, TypeOK
<1>6. CASE Dispatch(q) \/ CheckHead(q) \/ Publish(q) \/ Fail(q)
  BY <1>6 DEF Dispatch, CheckHead, Publish, Fail, Finish, Capturing, TypeOK
<1>7. CASE User(q)
  BY <1>7 DEF User, RefTransaction, OtherTransaction, MoveHead, DeleteLog, EditFile, Install,
       Uninstall, SnapCommand, AppendExplicit, Issue, RunHook, Capturing, TypeOK
<1>8. CASE \E p \in Procs : p # q /\ (Step(p) \/ User(p) \/ Fail(p))
  BY <1>2, <1>8 DEF Capturing
<1> QED  BY <1>1, <1>3, <1>4, <1>5, <1>6, <1>7, <1>8 DEF Next, Rest, vars, Step

\* How a ref comes to be recorded: the hook that owes it succeeds.
LEMMA RecordedStep ==
    ASSUME TypeOK, [Next]_vars, NEW r \in recorded', r \notin recorded
    PROVE  \E p \in Procs :
             /\ r \in owes[p] /\ UNCHANGED objects
             /\ \/ /\ pc[p] = "capture" /\ DOMAIN snap[p] = Parts
                   /\ NothingToRecord(p) /\ UNCHANGED tip
                \/ pc[p] = "publish" /\ tip' = commit[p]
<1> USE DEF repoVars, logVars, localVars, historyVars, boundVars, debtVars
<1>1. CASE UNCHANGED recorded  BY <1>1
<1>2. ASSUME NEW p \in Procs, Decide(p) PROVE
             /\ r \in owes[p] /\ UNCHANGED objects
             /\ pc[p] = "capture" /\ DOMAIN snap[p] = Parts
             /\ NothingToRecord(p) /\ UNCHANGED tip
  BY <1>2 DEF Decide, Finish, Succeeded
<1>3. ASSUME NEW p \in Procs, Publish(p) PROVE
             r \in owes[p] /\ UNCHANGED objects /\ pc[p] = "publish" /\ tip' = commit[p]
  BY <1>3 DEF Publish, Finish, Succeeded
<1>4. ASSUME NEW p \in Procs, Dispatch(p) \/ CheckHead(p) \/ ReadTip(p) \/ Capture(p) \/ Fail(p)
      PROVE  UNCHANGED recorded
  BY <1>4 DEF Dispatch, CheckHead, ReadTip, Capture, Fail, Finish, Succeeded
<1>5. ASSUME NEW p \in Procs, User(p) PROVE recorded' \subseteq recorded
  BY <1>5 DEF User, RefTransaction, OtherTransaction, MoveHead, DeleteLog, EditFile, Install,
              Uninstall, SnapCommand, AppendExplicit
<1> QED  BY <1>1, <1>2, <1>3, <1>4, <1>5 DEF Next, Rest, vars, Step

\* Every step keeps the strengthening of RecordedIsCurrent.
LEMMA FreshStep ==
    ASSUME TypeOK, PhaseInv, HeldInv, FreshInv, [Next]_vars
    PROVE  FreshInv'
<1> SUFFICES ASSUME NEW r \in fresh'
             PROVE  /\ \A c \in Ids' : Has(objects[c].parent, r)' => Has(c, r)'
                    /\ \A p \in Procs : Capturing(p)' /\ Has(parent[p], r)' =>
                         Has(tip, r)' /\ (r \in DOMAIN snap'[p] => snap'[p][r] = repo'[r])
                    /\ \A p \in Procs : Capturing(p)' /\ r \in owes'[p] /\ r \in DOMAIN snap'[p] =>
                         snap'[p][r] = repo'[r]
                    /\ r \in recorded' => Has(tip, r)'
  BY DEF FreshInv
<1>0. Ids \subseteq Ids' /\ \A id \in Ids : objects'[id] = objects[id]
  BY ObjectsGrow
<1>1. CASE /\ r \in Refs /\ repo'[r] \notin held[r] /\ r \notin recorded'
           /\ \A q \in Procs : r \in owes'[q] => ~Capturing(q)'
           /\ UNCHANGED <<objects, tip, parent, snap>>
           /\ \A q \in Procs : Capturing(q)' => Capturing(q)
  <2>1. \A id \in Ids : objects'[id].state[r] # repo'[r]
    BY <1>1 DEF HeldInv, Parts
  <2>2. Ids' = Ids  BY <1>1 DEF Ids
  <2>3. \A c \in Ids' : ~Has(objects[c].parent, r)'
    BY <1>1, <2>1, <2>2 DEF HeldInv, Has
  <2>4. \A p \in Procs : ~Has(parent[p], r)'
    BY <1>1, <2>1 DEF TypeOK, Has
  <2> QED  BY <1>1, <2>3, <2>4
<1>2. CASE /\ r \in fresh /\ repo'[r] = repo[r]
           /\ \A q \in Procs : Capturing(q)' /\ r \in owes'[q] => r \in owes[q]
  <2>1. r \in Refs /\ r \in Parts  BY <1>2 DEF TypeOK, Parts
  <2>2. \A id \in {None} \cup Ids :
          (id # None /\ objects'[id].state[r] = repo'[r]) <=> Has(id, r)
    BY <1>0, <1>2 DEF Has
  <2>3. ASSUME NEW c \in Ids', Has(objects[c].parent, r)' PROVE Has(c, r)'
    <3>1. c # None  BY DEF Ids
    <3>2. CASE c \in Ids
      <4>1. objects[c].parent \in {None} \cup Ids  BY <3>2 DEF HeldInv
      <4>2. objects'[c] = objects[c]  BY <1>0, <3>2
      <4>3. Has(objects[c].parent, r)  BY <2>2, <2>3, <4>1, <4>2 DEF Has
      <4>4. Has(c, r)  BY <1>2, <3>2, <4>3 DEF FreshInv
      <4> QED  BY <2>2, <3>1, <3>2, <4>4 DEF Has
    <3>3. CASE c \notin Ids
      <4>1. PICK p \in Procs :
              pc[p] = "capture" /\ DOMAIN snap[p] = Parts /\ objects'[c] = Candidate(p)
        BY <3>3, NewCommit
      <4>2. objects'[c].parent = parent[p] /\ objects'[c].state = snap[p]
        BY <4>1 DEF Candidate
      <4>3. Has(parent[p], r)  BY <2>2, <2>3, <4>2 DEF Has, TypeOK
      <4>4. snap[p][r] = repo[r]  BY <1>2, <2>1, <4>1, <4>3 DEF FreshInv, Capturing
      <4> QED  BY <1>2, <3>1, <4>2, <4>4 DEF Has
    <3> QED  BY <3>2, <3>3
  <2>4. Has(tip, r) => Has(tip, r)'
    <3> SUFFICES ASSUME Has(tip, r) PROVE Has(tip, r)'  OBVIOUS
    <3>1. CASE tip' = tip  BY <2>2, <3>1 DEF Has, TypeOK
    <3>2. ASSUME NEW p \in Procs, DeleteLog(p) PROVE FALSE
      BY <3>2 DEF DeleteLog
    <3>3. ASSUME NEW p \in Procs, pc[p] = "publish", tip = parent[p], tip' = commit[p]
          PROVE  Has(tip, r)'
      <4>1. snap[p][r] = repo[r]
        BY <1>2, <2>1, <3>3 DEF FreshInv, Capturing, PhaseInv
      <4>2. commit[p] \in Ids /\ objects[commit[p]].state = snap[p]
        <5>1. commit[p] \in Ids /\ objects[commit[p]] = Candidate(p)  BY <3>3 DEF PhaseInv
        <5>2. Candidate(p).state = snap[p]  BY DEF Candidate
        <5> QED  BY <5>1, <5>2
      <4>3. Has(commit[p], r)  BY <4>1, <4>2 DEF Has, Ids
      <4> QED  BY <2>2, <3>3, <4>2, <4>3 DEF Has
    <3> QED  BY <3>1, <3>2, <3>3, LogStep
  <2>5. ASSUME NEW p \in Procs, Capturing(p)', Has(parent[p], r)'
        PROVE  Has(tip, r)' /\ (r \in DOMAIN snap'[p] => snap'[p][r] = repo'[r])
    <3>1. CASE /\ Capturing(p) /\ parent'[p] = parent[p]
               /\ \A x \in Parts : x \in DOMAIN snap'[p] =>
                    \/ x \in DOMAIN snap[p] /\ snap'[p][x] = snap[p][x]
                    \/ snap'[p][x] = repo[x]
      <4>1. Has(parent[p], r)  BY <2>2, <2>5, <3>1 DEF Has, TypeOK
      <4>2. Has(tip, r) /\ (r \in DOMAIN snap[p] => snap[p][r] = repo[r])
        BY <1>2, <3>1, <4>1 DEF FreshInv
      <4> QED  BY <1>2, <2>1, <2>4, <3>1, <4>2
    <3>2. CASE parent'[p] = tip /\ snap'[p] = NoState /\ UNCHANGED tip
      <4>1. r \notin DOMAIN snap'[p]  BY <3>2 DEF NoState
      <4>2. Has(tip, r)'  BY <2>5, <3>2 DEF Has
      <4> QED  BY <4>1, <4>2
    <3> QED  BY <2>5, <3>1, <3>2, CapturingStep
  <2>6. ASSUME NEW p \in Procs, Capturing(p)', r \in owes'[p], r \in DOMAIN snap'[p]
        PROVE  snap'[p][r] = repo'[r]
    <3>1. r \in owes[p]  BY <1>2, <2>6
    <3>2. CASE /\ Capturing(p)
               /\ \A x \in Parts : x \in DOMAIN snap'[p] =>
                    \/ x \in DOMAIN snap[p] /\ snap'[p][x] = snap[p][x]
                    \/ snap'[p][x] = repo[x]
      BY <1>2, <2>1, <2>6, <3>1, <3>2 DEF FreshInv
    <3>3. CASE snap'[p] = NoState  BY <2>6, <3>3 DEF NoState
    <3> QED  BY <2>6, <3>2, <3>3, CapturingStep
  <2>7. ASSUME r \in recorded' PROVE Has(tip, r)'
    <3>1. CASE r \in recorded
      <4>1. Has(tip, r)  BY <1>2, <3>1 DEF FreshInv
      <4> QED  BY <2>4, <4>1
    <3>2. CASE r \notin recorded
      <4>1. PICK p \in Procs :
              /\ r \in owes[p] /\ UNCHANGED objects
              /\ \/ /\ pc[p] = "capture" /\ DOMAIN snap[p] = Parts
                    /\ NothingToRecord(p) /\ UNCHANGED tip
                 \/ pc[p] = "publish" /\ tip' = commit[p]
        BY <2>7, <3>2, RecordedStep
      <4>2. DOMAIN snap[p] = Parts /\ Capturing(p)
        BY <4>1 DEF PhaseInv, Capturing
      <4>3. snap[p][r] = repo[r]  BY <1>2, <2>1, <4>1, <4>2 DEF FreshInv
      <4>4. CASE NothingToRecord(p) /\ UNCHANGED tip
        <5>1. Has(parent[p], r)  BY <4>3, <4>4 DEF NothingToRecord, Has
        <5>2. Has(tip, r)  BY <1>2, <4>2, <5>1 DEF FreshInv
        <5> QED  BY <2>4, <5>2
      <4>5. CASE pc[p] = "publish" /\ tip' = commit[p]
        <5>1. commit[p] \in Ids /\ objects[commit[p]].state = snap[p]
          <6>1. commit[p] \in Ids /\ objects[commit[p]] = Candidate(p)  BY <4>5 DEF PhaseInv
          <6>2. Candidate(p).state = snap[p]  BY DEF Candidate
          <6> QED  BY <6>1, <6>2
        <5>2. Has(commit[p], r)  BY <4>3, <5>1 DEF Has, Ids
        <5> QED  BY <2>2, <4>5, <5>1, <5>2 DEF Has
      <4> QED  BY <4>1, <4>4, <4>5
    <3> QED  BY <3>1, <3>2
  <2> QED  BY <2>3, <2>5, <2>6, <2>7
<1> QED  BY <1>1, <1>2, FreshCases

\* When the hook of the transaction that set a new value of a ref has
\* succeeded, the tip of the log has that value from then on, for any number
\* of overlapping hooks, appends, file edits, failures and deletions.
THEOREM RecordedRefsAreCurrent == Spec => []RecordedIsCurrent
<1>1. Init => FreshInv
  BY DEF Init, FreshInv
<1>2. FreshInv => RecordedIsCurrent
  BY DEF FreshInv, RecordedIsCurrent, Has
<1> QED  BY <1>1, <1>2, FreshStep, TypeInvariant, PhaseInvariant, HeldInvariant, PTL DEF Spec

-----------------------------------------------------------------------------
(* The log of commits implements the abstract log.                            *)

absLog == [i \in 1 .. Len(chain) |-> Entry(chain[i])]

\* Publishing a commit that was expected is an abstract Record.
LEMMA AbsRecord ==
    ASSUME TypeOK, PhaseInv, ChainInv, HeldInv, NEW p \in Procs,
           pc[p] = "publish", tip = parent[p], chain' = Append(chain, commit[p]),
           UNCHANGED <<objects, held>>
    PROVE  \E entry \in Abstract!Entries : Abstract!Record(entry)
<1> DEFINE n == Len(chain)
<1> DEFINE entry == Entry(commit[p])
<1>1. chain \in Seq({None} \cup Ids) /\ n \in Nat  BY DEF TypeOK
<1>2. commit[p] \in Ids /\ DOMAIN snap[p] = Parts /\ ~NothingToRecord(p)
  BY DEF PhaseInv
<1>3. objects[commit[p]] = [parent |-> parent[p], state |-> snap[p], generated |-> Generated(p)]
  BY DEF PhaseInv, Candidate
<1>4. entry = [state |-> snap[p], generated |-> Generated(p)]
  BY <1>3 DEF Entry
<1>5. entry \in Abstract!Entries
  <2>1. snap[p] \in [Parts -> Values]  BY <1>2, FullCapture
  <2>2. Generated(p) \in BOOLEAN  BY DEF Generated
  <2> QED  BY <1>4, <2>1, <2>2 DEF Abstract!Entries
<1>6. \A part \in Parts : entry.state[part] \in held[part]
  BY <1>2, <1>4 DEF HeldInv
<1>7. absLog' = Append(absLog, entry)
  <2>1. n + 1 \in Nat /\ Len(chain') = n + 1 /\ chain'[n + 1] = commit[p]
        /\ \A i \in 1 .. n : chain'[i] = chain[i]
    BY <1>1, <1>2
  <2>2. absLog' = [i \in 1 .. n + 1 |-> Entry(chain'[i])]
    BY <2>1 DEF absLog, Entry
  <2>3. Len(absLog) = n  BY <1>1 DEF absLog
  <2>4. Append(absLog, entry) = [i \in 1 .. n + 1 |-> IF i = n + 1 THEN entry ELSE absLog[i]]
    <3>1. absLog \in Seq(Abstract!Entries)
      <4>1. \A i \in 1 .. n : chain[i] \in Ids  BY DEF ChainInv
      <4>2. \A id \in Ids : objects[id] \in Commits  BY DEF TypeOK, Ids
      <4>3. \A id \in Ids : Entry(id) \in Abstract!Entries
        BY <4>2 DEF Commits, Entry, Abstract!Entries
      <4>4. absLog \in [1 .. n -> Abstract!Entries]  BY <4>1, <4>3 DEF absLog
      <4> QED  BY <1>1, <4>4
    <3> QED  BY <1>5, <2>3, <3>1
  <2>5. \A i \in 1 .. n + 1 : Entry(chain'[i]) = IF i = n + 1 THEN entry ELSE absLog[i]
    BY <1>1, <2>1 DEF absLog
  <2> QED  BY <2>2, <2>4, <2>5
<1>8. (entry.generated /\ absLog # <<>>) => entry.state # absLog[Len(absLog)].state
  <2> SUFFICES ASSUME entry.generated, absLog # <<>>
               PROVE  entry.state # absLog[Len(absLog)].state
    OBVIOUS
  <2>1. Len(absLog) = n /\ n # 0  BY <1>1 DEF absLog
  <2>2. chain # <<>> /\ tip = chain[n]  BY <1>1, <2>1 DEF ChainInv, LogLinked
  <2>3. tip \in Ids  BY <1>1, <2>1, <2>2 DEF ChainInv
  <2>4. absLog[n] = Entry(tip)  BY <1>1, <2>1, <2>2 DEF absLog
  <2>5. absLog[n].state = objects[parent[p]].state /\ parent[p] # None
    BY <2>3, <2>4 DEF Entry, Ids
  <2>6. entry.generated = Generated(p) /\ entry.state = snap[p]  BY <1>4
  <2> QED  BY <1>2, <2>1, <2>5, <2>6 DEF NothingToRecord
<1> QED  BY <1>5, <1>6, <1>7, <1>8 DEF Abstract!Record, absLog

\* Every step is a step of the abstract log or leaves it alone.
LEMMA AbsStep ==
    ASSUME TypeOK, TypeOK', PhaseInv, ChainInv, HeldInv, [Next]_vars
    PROVE  [Abstract!Next]_(Abstract!vars)
<1> USE DEF repoVars, logVars, localVars, historyVars, boundVars, debtVars
<1>1. CASE UNCHANGED <<tip, chain, moves>>
  <2>1. absLog' = absLog
    <3>1. Ids \subseteq Ids' /\ \A id \in Ids : objects'[id] = objects[id]
      BY ObjectsGrow
    <3>2. \A i \in 1 .. Len(chain) : Entry(chain[i])' = Entry(chain[i])
      BY <1>1, <3>1 DEF ChainInv, Entry
    <3> QED  BY <1>1, <3>2 DEF absLog
  <2>2. held' \in [Parts -> SUBSET Values]  BY DEF TypeOK
  <2>3. \A part \in Parts : held[part] \subseteq held'[part]  BY RepoStep
  <2> QED  BY <2>1, <2>2, <2>3 DEF Abstract!Next, Abstract!Hold, absLog
<1>2. ASSUME NEW p \in Procs, DeleteLog(p), chain' = <<>>
      PROVE  Abstract!Next
  <2>1. UNCHANGED held  BY <1>2 DEF DeleteLog
  <2>2. absLog' = <<>>  BY <1>2 DEF absLog
  <2> QED  BY <2>1, <2>2 DEF Abstract!Next, Abstract!Forget, absLog
<1>3. ASSUME NEW p \in Procs, pc[p] = "publish", tip = parent[p],
             chain' = Append(chain, commit[p]), UNCHANGED objects, Publish(p)
      PROVE  Abstract!Next
  <2>1. UNCHANGED held  BY <1>3 DEF Publish
  <2>2. \E entry \in Abstract!Entries : Abstract!Record(entry)  BY <1>3, <2>1, AbsRecord
  <2> QED  BY <2>2 DEF Abstract!Next
<1> QED  BY <1>1, <1>2, <1>3, LogStep

\* The processes, the commits and refs/op together implement the abstract log:
\* entries are only added at its end, each records only contents the repository
\* really had, and a generated one differs from its predecessor.
THEOREM ImplementsAbstractLog == Spec => AbstractSpec
<1>1. Init => Abstract!Init
  <2> SUFFICES ASSUME Init PROVE Abstract!Init  OBVIOUS
  <2>1. chain = <<>> /\ held \in [Parts -> {{v} : v \in Values}]
    BY InitialAssumption DEF Init
  <2>2. [i \in 1 .. Len(chain) |-> Entry(chain[i])] = <<>>
    BY <2>1
  <2> QED  BY <2>1, <2>2 DEF Abstract!Init
<1>2. Init => ChainInv
  BY DEF Init, ChainInv, LogLinked
<1>3. Spec => []ChainInv
  BY <1>2, ChainStep, TypeInvariant, PhaseInvariant, PTL DEF Spec
<1> QED
  BY <1>1, <1>3, AbsStep, TypeInvariant, PhaseInvariant, HeldInvariant, PTL
  DEF Spec, AbstractSpec, Abstract!Spec
=============================================================================
