------------------------------- MODULE OpLog --------------------------------
(* The operation log of git-op: refs/op and the processes that append to it.  *)
(*                                                                            *)
(* A process is a git command, whose committed reference transaction runs the *)
(* reference-transaction hook before the command goes on, or a git-op command *)
(* or library call that appends directly.  No lock spans an append: a process *)
(* reads the tip, captures the repository piece by piece, decides whether     *)
(* there is anything to record, writes a commit and publishes it with a       *)
(* compare-and-swap on refs/op, retrying from the top when it loses the race. *)
(* Every one of these steps is an action, so that transactions, file edits,   *)
(* the deletion of refs/op and other appends fall between any two of them.    *)
(*                                                                            *)
(* A definition marked "mutant" is a plausible bug in the definition after it *)
(* and is used nowhere: PROJECT.json swaps it in to see a property fail.      *)
EXTENDS Naturals, Sequences, FiniteSets

CONSTANTS
    Procs,              \* the processes
    Refs,               \* the captured refs
    Files,              \* the captured files: "config" and "description"
    Values,             \* contents of a ref or file, absence being one of them
    InitialRepo,        \* the repository before the first command
    InitialHeads,       \* what HEAD may be then
    MaxAppendAttempts,  \* MAX_APPEND_ATTEMPTS, 128 in the code
    Commands,           \* which of AllCommands the users issue
    MaxCommands,        \* bound: how many commands are issued
    MaxFailures         \* bound: how many processes die or fail

Parts == Refs \cup Files
Heads == {"branch", "detached", "placeholder"}
AllCommands == {"transaction", "other", "head", "delete", "edit", "explicit", "snap",
                "install", "uninstall"}

ASSUME PartsAssumption == Refs \cap Files = {} /\ Files \subseteq {"config", "description"}
ASSUME InitialAssumption ==
    InitialRepo \in [Parts -> Values] /\ InitialHeads \subseteq {"branch", "placeholder"}
ASSUME AttemptsAssumption == MaxAppendAttempts \in Nat \ {0}
ASSUME BoundsAssumption ==
    Commands \subseteq AllCommands /\ MaxCommands \in Nat /\ MaxFailures \in Nat

None == 0                               \* no commit; commits are numbered from 1
NoState == [part \in {} |-> None]       \* nothing captured yet

Commits == [parent : Nat, state : [Parts -> Values], generated : BOOLEAN]
Captures == UNION {[S -> Values] : S \in SUBSET Parts}

VARIABLES
    \* the repository
    repo,       \* the current contents of every captured piece
    head,       \* what HEAD is
    hook,       \* is git-op installed?
    \* the operation log
    objects,    \* the snapshot commits written so far, by number
    tip,        \* the target of refs/op
    \* the processes
    pc,         \* the step a process is at
    call,       \* what it is running
    parent,     \* the tip it read
    snap,       \* what it has captured so far
    commit,     \* the commit it wrote and has not published
    attempts,   \* lost races of this append
    outcome,    \* how its last call ended
    \* history: written by the actions, read by the properties only
    chain,      \* the commits published on the present log, oldest first
    held,       \* per piece, the values it has had
    owes,       \* per process, the refs its running hook has to record
    recorded,   \* refs whose value a hook that succeeded answers for
    fresh,      \* refs whose present value is new and was set under the present log
    moves,      \* changes of refs/op
    since,      \* moves when the append began
    \* counters of the bounds
    commands, failures

repoVars    == <<repo, head, hook>>
logVars     == <<objects, tip, chain, moves>>
localVars   == <<parent, snap, commit, attempts>>
historyVars == <<held, fresh>>
boundVars   == <<commands, failures>>
debtVars    == <<owes, recorded>>
vars == <<repoVars, logVars, pc, call, localVars, outcome, historyVars, debtVars,
          since, boundVars>>

PCs == {"idle", "hook", "head", "tip", "capture", "publish"}
Calls == {"none", "captured", "other", "deletes_log", "snap", "explicit"}
Outcomes == {"none", "appended", "current", "detached", "placeholder", "skipped",
             "uninstalled", "lost_race", "failed"}

Init ==
    /\ repo = InitialRepo
    /\ head \in InitialHeads
    /\ hook = TRUE
    /\ objects = <<>> /\ tip = None /\ chain = <<>> /\ moves = 0
    /\ pc = [p \in Procs |-> "idle"]
    /\ call = [p \in Procs |-> "none"]
    /\ parent = [p \in Procs |-> None]
    /\ snap = [p \in Procs |-> NoState]
    /\ commit = [p \in Procs |-> None]
    /\ attempts = [p \in Procs |-> 0]
    /\ outcome = [p \in Procs |-> "none"]
    /\ held = [part \in Parts |-> {InitialRepo[part]}]
    /\ owes = [p \in Procs |-> {}]
    /\ recorded = {} /\ fresh = {}
    /\ since = [p \in Procs |-> 0]
    /\ commands = 0 /\ failures = 0

-----------------------------------------------------------------------------
(* Commands that users issue.                                                 *)

Issue(p, command) ==
    /\ command \in Commands
    /\ pc[p] = "idle"
    /\ commands < MaxCommands
    /\ commands' = commands + 1
    /\ UNCHANGED failures

\* Git runs the hook after its transaction has committed, if one is installed.
RunHook(p, input) ==
    /\ pc' = [pc EXCEPT ![p] = IF hook THEN "hook" ELSE "idle"]
    /\ call' = [call EXCEPT ![p] = input]
    /\ UNCHANGED <<localVars, outcome, since>>

\* A git command commits a transaction on captured refs.
RefTransaction(p) ==
    /\ Issue(p, "transaction")
    /\ \E changed \in SUBSET Refs \ {{}}, target \in [Refs -> Values] :
        /\ \A r \in Refs : target[r] # repo[r] <=> r \in changed
        /\ repo' = [part \in Parts |-> IF part \in changed THEN target[part] ELSE repo[part]]
        /\ held' = [part \in Parts |->
                      IF part \in changed THEN held[part] \cup {target[part]} ELSE held[part]]
        /\ fresh' = (fresh \ changed) \cup {r \in changed : target[r] \notin held[r]}
        /\ owes' = [q \in Procs |-> IF q = p /\ hook THEN changed ELSE owes[q] \ changed]
        /\ recorded' = recorded \ changed
    /\ RunHook(p, "captured")
    /\ UNCHANGED <<head, hook, logVars>>

\* A transaction on refs that are not captured: remote-tracking refs.
OtherTransaction(p) ==
    /\ Issue(p, "other")
    /\ hook
    /\ RunHook(p, "other")
    /\ UNCHANGED <<repoVars, logVars, historyVars, debtVars>>

\* Checking out moves HEAD; a clone leaves its placeholder behind for good.
MoveHead(p) ==
    /\ Issue(p, "head")
    /\ \E to \in {"branch", "detached"} \ {head} : head' = to
    /\ RunHook(p, "other")
    /\ UNCHANGED <<repo, hook, logVars, historyVars, debtVars>>

\* git update-ref -d refs/op
DeleteLog(p) ==
    /\ Issue(p, "delete")
    /\ tip # None
    /\ tip' = None /\ chain' = <<>> /\ moves' = moves + 1
    /\ fresh' = {} /\ recorded' = {}
    /\ RunHook(p, "deletes_log")
    /\ UNCHANGED <<repoVars, objects, held, owes>>

\* git config or an editor rewrites a file: no transaction, so no hook.
EditFile(p) ==
    /\ Issue(p, "edit")
    /\ \E f \in Files, v \in Values :
        /\ v # repo[f]
        /\ repo' = [repo EXCEPT ![f] = v]
        /\ held' = [held EXCEPT ![f] = held[f] \cup {v}]
    /\ UNCHANGED <<head, hook, logVars, pc, call, localVars, outcome, fresh, debtVars, since>>

\* git op install
Install(p) ==
    /\ Issue(p, "install")
    /\ ~hook
    /\ hook' = TRUE
    /\ UNCHANGED <<repo, head, logVars, pc, call, localVars, outcome, historyVars, debtVars, since>>

\* git op uninstall
Uninstall(p) ==
    /\ Issue(p, "uninstall")
    /\ hook
    /\ hook' = FALSE
    /\ UNCHANGED <<repo, head, logVars, pc, call, localVars, outcome, historyVars, debtVars, since>>

\* git op snap
SnapCommand(p) ==
    /\ Issue(p, "snap")
    /\ pc' = [pc EXCEPT ![p] = "head"]
    /\ call' = [call EXCEPT ![p] = "snap"]
    /\ UNCHANGED <<repoVars, logVars, localVars, outcome, historyVars, debtVars, since>>

\* append and append_with_options: the message is the caller's, and neither
\* HEAD nor the previous entry is looked at.
AppendExplicit(p) ==
    /\ Issue(p, "explicit")
    /\ pc' = [pc EXCEPT ![p] = "tip"]
    /\ call' = [call EXCEPT ![p] = "explicit"]
    /\ since' = [since EXCEPT ![p] = moves]
    /\ UNCHANGED <<repoVars, logVars, localVars, outcome, historyVars, debtVars>>

-----------------------------------------------------------------------------
(* Steps of a running hook or append.                                         *)

Succeeded == {"appended", "current"}

\* The call returns and its locals are gone.
Finish(p, how) ==
    /\ pc' = [pc EXCEPT ![p] = "idle"]
    /\ outcome' = [outcome EXCEPT ![p] = how]
    /\ parent' = [parent EXCEPT ![p] = None]
    /\ snap' = [snap EXCEPT ![p] = NoState]
    /\ commit' = [commit EXCEPT ![p] = None]
    /\ attempts' = [attempts EXCEPT ![p] = 0]
    /\ owes' = [owes EXCEPT ![p] = {}]
    /\ recorded' = IF how \in Succeeded THEN recorded \cup owes[p] ELSE recorded

\* reference_transaction, for the committed phase: the others do nothing.
Dispatch(p) ==
    /\ pc[p] = "hook"
    /\ \/ /\ call[p] = "deletes_log"
          /\ hook' = FALSE
          /\ Finish(p, "uninstalled")
       \/ /\ call[p] = "other" /\ tip # None
          /\ Finish(p, "skipped")
          /\ UNCHANGED hook
       \/ /\ call[p] = "captured" \/ (call[p] = "other" /\ tip = None)
          /\ pc' = [pc EXCEPT ![p] = "head"]
          /\ UNCHANGED <<hook, localVars, outcome, debtVars>>
    /\ UNCHANGED <<repo, head, logVars, call, historyVars, since, boundVars>>

\* snap: nothing is recorded under a placeholder or detached HEAD.
CheckHead(p) ==
    /\ pc[p] = "head"
    /\ \/ /\ head \in {"placeholder", "detached"}
          /\ Finish(p, head)
          /\ UNCHANGED since
       \/ /\ head = "branch"
          /\ pc' = [pc EXCEPT ![p] = "tip"]
          /\ since' = [since EXCEPT ![p] = moves]
          /\ UNCHANGED <<localVars, outcome, debtVars>>
    /\ UNCHANGED <<repoVars, logVars, call, historyVars, boundVars>>

\* operation_target
ReadTip(p) ==
    /\ pc[p] = "tip"
    /\ parent' = [parent EXCEPT ![p] = tip]
    /\ snap' = [snap EXCEPT ![p] = NoState]
    /\ pc' = [pc EXCEPT ![p] = "capture"]
    /\ UNCHANGED <<repoVars, logVars, call, commit, attempts, outcome, historyVars, debtVars,
                   since, boundVars>>

\* capture reads the refs one after the other, in the order the ref store
\* lists them, then the config file, then the description file.
NextToCapture(p) ==
    LET missing == Parts \ DOMAIN snap[p]
    IN  IF missing \cap Refs # {} THEN missing \cap Refs
        ELSE IF "config" \in missing THEN {"config"} ELSE missing

Capture(p) ==
    /\ pc[p] = "capture"
    /\ \E part \in NextToCapture(p) :
         snap' = [snap EXCEPT ![p] = [q \in DOMAIN snap[p] \cup {part} |->
                                        IF q = part THEN repo[q] ELSE snap[p][q]]]
    /\ UNCHANGED <<repoVars, logVars, pc, call, parent, commit, attempts, outcome, historyVars,
                   debtVars, since, boundVars>>

Generated(p) == call[p] # "explicit"

\* The comparison with the parent's top-level tree entries.
AlwaysRecord(p) == Generated(p) /\ FALSE                                \* mutant
NothingToRecord(p) ==
    /\ Generated(p)
    /\ parent[p] # None
    /\ objects[parent[p]].state = snap[p]

Candidate(p) == [parent |-> parent[p], state |-> snap[p], generated |-> Generated(p)]

\* git commit-tree: a commit is named by its content, so that two racers that
\* write the same one in the same second share it.
WriteCommit(p) ==
    \E id \in 1 .. Len(objects) + 1 :
        /\ commit' = [commit EXCEPT ![p] = id]
        /\ IF id = Len(objects) + 1
           THEN objects' = Append(objects, Candidate(p))
           ELSE objects[id] = Candidate(p) /\ UNCHANGED objects

\* The middle of append_internal: return the tip, or write a commit.
Decide(p) ==
    /\ pc[p] = "capture"
    /\ DOMAIN snap[p] = Parts
    /\ \/ /\ NothingToRecord(p)
          /\ Finish(p, "current")
          /\ UNCHANGED objects
       \/ /\ ~NothingToRecord(p)
          /\ WriteCommit(p)
          /\ pc' = [pc EXCEPT ![p] = "publish"]
          /\ UNCHANGED <<parent, snap, attempts, outcome, debtVars>>
    /\ UNCHANGED <<repoVars, tip, chain, moves, call, historyVars, since, boundVars>>

\* PreviousValue: Create expects no ref, Update the parent that was read.
RefExistsAsBefore(p) == (tip = None) <=> (parent[p] = None)             \* mutant
Expected(p) == tip = parent[p]

\* A lost race starts over from the tip, with nothing kept but the count.
RetryWithOldCapture(p) ==                                               \* mutant
    /\ pc' = [pc EXCEPT ![p] = "capture"]
    /\ parent' = [parent EXCEPT ![p] = tip]
    /\ UNCHANGED snap
RetryEditAlone(p) ==                                                    \* mutant
    /\ pc' = [pc EXCEPT ![p] = "publish"]
    /\ UNCHANGED <<parent, snap>>
Retry(p) ==
    /\ pc' = [pc EXCEPT ![p] = "tip"]
    /\ UNCHANGED <<parent, snap>>

GiveUpEarly(p) == attempts[p] + 2 >= MaxAppendAttempts                  \* mutant
GiveUpLate(p) == attempts[p] >= MaxAppendAttempts                       \* mutant
GiveUp(p) == attempts[p] + 1 >= MaxAppendAttempts

\* The edit of refs/op.
Publish(p) ==
    /\ pc[p] = "publish"
    /\ \/ /\ Expected(p)
          /\ tip' = commit[p]
          /\ chain' = Append(chain, commit[p])
          /\ moves' = moves + 1
          /\ Finish(p, "appended")
       \/ /\ ~Expected(p) /\ ~GiveUp(p)
          /\ attempts' = [attempts EXCEPT ![p] = @ + 1]
          /\ commit' = [commit EXCEPT ![p] = None]
          /\ Retry(p)
          /\ UNCHANGED <<tip, chain, moves, outcome, debtVars>>
       \/ /\ ~Expected(p) /\ GiveUp(p)
          /\ Finish(p, "lost_race")
          /\ UNCHANGED <<tip, chain, moves>>
    /\ UNCHANGED <<repoVars, objects, call, historyVars, since, boundVars>>

\* The process is killed, or a backend, identity or signing error ends the call.
Fail(p) ==
    /\ pc[p] # "idle"
    /\ failures < MaxFailures
    /\ failures' = failures + 1
    /\ Finish(p, "failed")
    /\ UNCHANGED <<repoVars, logVars, call, historyVars, since, commands>>

-----------------------------------------------------------------------------
Step(p) ==
    Dispatch(p) \/ CheckHead(p) \/ ReadTip(p) \/ Capture(p) \/ Decide(p) \/ Publish(p)

User(p) ==
    \/ RefTransaction(p) \/ OtherTransaction(p) \/ MoveHead(p) \/ DeleteLog(p) \/ EditFile(p)
    \/ Install(p) \/ Uninstall(p) \/ SnapCommand(p) \/ AppendExplicit(p)

\* Users may leave the repository alone while no process is running.
Rest ==
    /\ \A p \in Procs : pc[p] = "idle"
    /\ UNCHANGED vars

Next == Rest \/ \E p \in Procs : Step(p) \/ User(p) \/ Fail(p)

Spec == Init /\ [][Next]_vars

\* A process that has begun a hook or an append is scheduled until it ends.
FairSpec == Spec /\ \A p \in Procs : WF_vars(Step(p))
-----------------------------------------------------------------------------
(* Properties.                                                                *)

Ids == 1 .. Len(objects)

\* The types of the variables, and that commits and the log only name commits
\* that have been written.
TypeOK ==
    /\ repo \in [Parts -> Values] /\ head \in Heads /\ hook \in BOOLEAN
    /\ objects \in Seq(Commits)
    /\ tip \in {None} \cup Ids /\ chain \in Seq({None} \cup Ids) /\ moves \in Nat
    /\ pc \in [Procs -> PCs] /\ call \in [Procs -> Calls]
    /\ parent \in [Procs -> {None} \cup Ids] /\ commit \in [Procs -> {None} \cup Ids]
    /\ snap \in [Procs -> Captures]
    /\ attempts \in [Procs -> 0 .. MaxAppendAttempts - 1]
    /\ outcome \in [Procs -> Outcomes]
    /\ held \in [Parts -> SUBSET Values]
    /\ owes \in [Procs -> SUBSET Refs] /\ recorded \subseteq Refs /\ fresh \subseteq Refs
    /\ since \in [Procs -> Nat]
    /\ commands \in 0 .. MaxCommands /\ failures \in 0 .. MaxFailures

\* The commits published since refs/op was last created are exactly the
\* first-parent history of its target: no appended snapshot is dropped from the
\* log or linked under another one, whatever other appends ran meanwhile.
LogLinked ==
    /\ tip = IF chain = <<>> THEN None ELSE chain[Len(chain)]
    /\ \A i \in 1 .. Len(chain) :
         objects[chain[i]].parent = IF i = 1 THEN None ELSE chain[i - 1]

\* Once the hook of the transaction that gave a ref its present value has
\* returned successfully, the tip of the log records that value, and goes on
\* doing so whatever overlapping hooks and appends publish afterwards.  It is
\* claimed of fresh values only: see EveryHookLeavesLogCurrent.
RecordedIsCurrent ==
    \A r \in recorded \cap fresh :
        tip # None /\ objects[tip].state[r] = repo[r]

\* An append gives up with Error::LostRace only when refs/op really changed
\* under it MAX_APPEND_ATTEMPTS times: it is never beaten by itself, and all
\* the other appends it lost to went through.
LostRaceOnlyUnderContention ==
    \A p \in Procs :
        pc[p] = "idle" /\ outcome[p] = "lost_race" => moves - since[p] >= MaxAppendAttempts

\* The log of commits implements the abstract log.
Entry(id) == [state |-> objects[id].state, generated |-> objects[id].generated]

Abstract == INSTANCE OpLogAbs WITH log <- [i \in 1 .. Len(chain) |-> Entry(chain[i])]

AbstractSpec == Abstract!Spec

\* Every ref a transaction changed while git-op is installed is answered for in
\* the end: by its own hook or by the hook of a transaction that changed it again.
Owed(r) == \E p \in Procs : r \in owes[p]

EventuallyRecorded == \A r \in Refs : Owed(r) ~> r \in recorded

\* The stronger reading of "Records a snapshot for every reference transaction"
\* (config.rs, ManagedHook::ReferenceTransaction): when all is quiet and every
\* hook has succeeded, the tip records the refs as they are, even those that
\* returned to a value they had before.
EveryHookLeavesLogCurrent ==
    (\A p \in Procs : pc[p] = "idle") =>
        \A r \in recorded : tip # None /\ objects[tip].state[r] = repo[r]

\* What reference_transaction's documentation says of deleting refs/op: git-op
\* is uninstalled, "so the log stays deleted".  The log comes back only by an
\* explicit append or a git op snap.
DeletedLogStaysDeleted ==
    [][\A p \in Procs :
         ~hook /\ tip = None /\ Publish(p) /\ tip' # None => call[p] \in {"snap", "explicit"}]_vars
=============================================================================
