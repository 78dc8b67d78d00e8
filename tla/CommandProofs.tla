---------------------------- MODULE CommandProofs -----------------------------
(* What a command has done when it is done, for any number of processes, any  *)
(* hooks and any template directories: theorems about GlobalInstall.          *)
(*                                                                            *)
(* Each argument follows one command while only commands of its kind run      *)
(* ("quiet"): what it has done to the hooks behind it stays done, because the *)
(* others do the same, and what it is at is either as it found it or as they  *)
(* leave it.                                                                  *)
EXTENDS GlobalInstallProofs

-----------------------------------------------------------------------------
(* Who moves, and what stays.                                                 *)

Same(q) ==
    /\ pc'[q] = pc[q] /\ at'[q] = at[q] /\ failed'[q] = failed[q] /\ outcome'[q] = outcome[q]
    /\ dir'[q] = dir[q] /\ then'[q] = then[q] /\ expected'[q] = expected[q] /\ contents'[q] = contents[q]

\* A process that runs a command takes a step, or dies.
Acts(p) == (GlobalStep(p) /\ Unobserved) \/ HookStep(p) \/ (GlobalFail(p) /\ Unobserved)

Moves(p) ==
    /\ pc[p] # "idle" /\ \A q \in Procs \ {p} : Same(q)
    /\ UNCHANGED <<op, quiet, targets, yours, global, overlapped, setting>>
    /\ outcome'[p] \in {"ok", "failed"} => quiet[p] \/ outcome'[p] = outcome[p]

LEMMA StepFrame ==
    ASSUME KeptInv, NEW p \in Procs, HookStep(p)
    PROVE  /\ Moves(p) /\ Stepped(p) /\ pc[p] \in HookSteps /\ dir' = dir /\ then' = then
           /\ UNCHANGED <<failures, setting, include, opConfig, files, left, brokenOff, misled>>
           /\ made' = IF pc[p] = "plan" THEN made \cup {dir[p]} ELSE made
<1>1. TypeOK  BY DEF KeptInv, HooksInv
<1>2. /\ Stepped(p) /\ pc[p] \in HookSteps /\ UNCHANGED <<command, yours, boundVars>>
      /\ made' = IF pc[p] = "plan" THEN made \cup {dir[p]} ELSE made
  BY <1>1, StepSteps DEF HookStep
<1>3. OthersStay(p) /\ UNCHANGED <<op, dir, then, quiet, targets, failures>>
  BY <1>2 DEF Stepped, command, boundVars
<1>4. \A q \in Procs \ {p} : Same(q)  BY <1>3 DEF OthersStay, Same
<1>5. outcome'[p] \in {"ok", "failed"} => quiet[p] \/ outcome'[p] = outcome[p]
  BY <1>2 DEF Stepped, NextOne, AfterLast, Stay
<1>6. pc[p] # "idle"  BY <1>2 DEF HookSteps
<1> QED  BY <1>2, <1>3, <1>4, <1>5, <1>6 DEF Moves, HookStep, Unobserved, SameConfig, SameWork

LEMMA FailFrame ==
    ASSUME KeptInv, NEW p \in Procs, GlobalFail(p), Unobserved
    PROVE  /\ Moves(p) /\ pc'[p] = "idle" /\ at'[p] = 1 /\ failed'[p] = FALSE
           /\ outcome'[p] \in {"killed", "none"}
           /\ failures' # 0 /\ UNCHANGED <<hooks, made, dir, then, setting, include, opConfig, misled>>
<1>1. TypeOK /\ GlobalTypeOK  BY DEF KeptInv, HooksInv
<1>2. /\ Fail(p) /\ UNCHANGED <<hooks, made, yours, setting, include, opConfig, misled>>
  BY <1>1, GlobalFailFrame DEF SameConfig
<1>3. /\ UNCHANGED <<op, dir, then, quiet, targets>>
      /\ failures' = failures + 1 /\ pc[p] # "idle"
      /\ pc' = [pc EXCEPT ![p] = "idle"] /\ failed' = [failed EXCEPT ![p] = FALSE]
      /\ at' = [at EXCEPT ![p] = 1] /\ expected' = [expected EXCEPT ![p] = <<>>]
      /\ contents' = [contents EXCEPT ![p] = <<>>]
      /\ outcome' = [outcome EXCEPT ![p] = IF quiet[p] THEN "killed" ELSE "none"]
  BY <1>2 DEF Fail, End, Hook, command
<1>4. failures \in Nat  BY <1>1, BoundsAssumption DEF TypeOK
<1>5. \A q \in Procs \ {p} : Same(q)  BY <1>1, <1>3 DEF TypeOK, Same
<1>6. pc'[p] = "idle" /\ at'[p] = 1 /\ failed'[p] = FALSE /\ outcome'[p] \in {"killed", "none"}
  BY <1>1, <1>3 DEF TypeOK
<1> QED  BY <1>2, <1>3, <1>4, <1>5, <1>6 DEF Moves, Unobserved

LEMMA GlobalStepFrame ==
    ASSUME KeptInv, NEW p \in Procs, GlobalStep(p), Unobserved
    PROVE  /\ Moves(p) /\ AtOne(p) /\ UNCHANGED <<at, failed, failures>>
           /\ pc[p] \in {"query"} \cup OnlyInstall \cup OnlyUninstall
           /\ pc'[p] \in {"config", "claimed", "include", "add", "seed", "copy", "unset", "forget", "idle",
                          First(op[p])} \cup RemovalSteps
<1>1. TypeOK /\ ControlInv  BY DEF KeptInv, HooksInv, ConfigInv
<1>2. GlobalFrame(p) /\ AtOne(p)  BY <1>1, GlobalSteps
<1>3. \A q \in Procs \ {p} : Same(q)  BY <1>2 DEF GlobalFrame, Same
<1>4. /\ pc[p] \in {"query"} \cup OnlyInstall \cup OnlyUninstall /\ setting' = setting
      /\ pc'[p] \in {"config", "claimed", "include", "add", "seed", "copy", "unset", "forget", "idle",
                     First(op[p])} \cup RemovalSteps
      /\ outcome'[p] \in {"ok", "failed"} => quiet[p] \/ outcome'[p] = outcome[p]
  BY <1>1, <1>2, GlobalStepSummary
<1>5. pc[p] # "idle"  BY <1>4 DEF OnlyInstall, OnlyUninstall, RemovalSteps
<1> QED  BY <1>2, <1>3, <1>4, <1>5 DEF Moves, GlobalFrame, Unobserved

\* Where a step leads to the hooks, and where a command ends.
LEMMA HooksFollow ==
    ASSUME NEW p \in Procs, AtOne(p)
    PROVE  /\ pc'[p] \in HookSteps => AtQuery(p) \/ AtEndCopy(p) \/ AtClaimed(p)
           /\ pc'[p] = "idle" => AtForget(p) \/ Ended(p, "stopped")
           /\ pc'[p] \in OnlyInstall => op[p] = "install"
           /\ pc'[p] \in RemovalSteps => pc[p] = "check" \/ pc[p] \in RemovalSteps
<1> USE DEF WentTo, Ended, HookSteps, OnlyInstall, RemovalSteps
<1>1. CASE AtQuery(p) \/ AtClaimed(p) \/ AtCheck(p) \/ AtUnset(p) \/ AtForget(p)
  BY <1>1 DEF AtQuery, AtClaimed, AtCheck, AtUnset, AtForget, ToHooks, First
<1>2. CASE AtInstall(p)
  BY <1>2 DEF AtInstall, AtConfig, AtInclude, AtAdd, AtSeed, AtCopyStock, AtCopyFails, AtEndCopy, ToHooks, First
<1>3. CASE AtRemoval(p)
  BY <1>3 DEF AtRemoval, AtListTemplate, AtRemoveFile, AtListHooks, AtRemoveListedHook, AtRemoveHooksDir,
     AtRemoveTemplate, Broke
<1> QED  BY <1>1, <1>2, <1>3 DEF AtOne

LEMMA ActsMoves ==
    ASSUME KeptInv, NEW p \in Procs, Acts(p)
    PROVE  Moves(p)
BY StepFrame, FailFrame, GlobalStepFrame DEF Acts

\* A command starts.
Started(p, isGlobal) ==
    /\ pc[p] = "idle" /\ op'[p] \in {"install", "uninstall"} /\ outcome'[p] = "none"
    /\ quiet'[p] = \A r \in Procs \ {p} : pc[r] = "idle" \/ (op[r] = op'[p] /\ quiet[r])
    /\ \A q \in Procs \ {p} :
         /\ pc'[q] = pc[q] /\ op'[q] = op[q] /\ dir'[q] = dir[q] /\ then'[q] = then[q]
         /\ targets'[q] = targets[q] /\ global'[q] = global[q]
         /\ quiet'[q] = (quiet[q] /\ op[q] = op'[p])
         /\ outcome'[q] = IF quiet'[q] THEN outcome[q] ELSE "none"
    /\ global'[p] = isGlobal
    /\ overlapped' = (overlapped \/ \E q \in Procs \ {p} : pc[q] # "idle" /\ op[q] # op'[p])
    /\ UNCHANGED <<hooks, made, at, expected, contents, failed, yours, failures>>
    /\ UNCHANGED <<setting, include, opConfig, files, left, brokenOff, misled>>
    /\ \/ /\ ~isGlobal /\ pc'[p] = First(op'[p]) /\ then'[p] = "idle"
          /\ \E d \in LocalDirs : dir'[p] = d /\ targets'[p] = {d}
       \/ /\ isGlobal /\ pc'[p] = "query" /\ dir'[p] = dir[p] /\ then'[p] = then[p]
          /\ targets'[p] = (Dirs \cap {TemplateDir}) \cup (IF opConfig THEN {Default} ELSE {})

\* What Start does, with the process's own step and directories.
Begun(p, step, on) ==
    /\ pc[p] = "idle" /\ op'[p] \in {"install", "uninstall"} /\ outcome'[p] = "none"
    /\ pc'[p] = step /\ targets'[p] = on
    /\ quiet'[p] = \A r \in Procs \ {p} : pc[r] = "idle" \/ (op[r] = op'[p] /\ quiet[r])
    /\ \A q \in Procs \ {p} :
         /\ pc'[q] = pc[q] /\ op'[q] = op[q] /\ targets'[q] = targets[q]
         /\ quiet'[q] = (quiet[q] /\ op[q] = op'[p])
         /\ outcome'[q] = IF quiet'[q] THEN outcome[q] ELSE "none"
    /\ UNCHANGED <<hooks, made, at, expected, contents, failed, yours, failures>>

LEMMA StartBegins ==
    ASSUME TypeOK, NEW p \in Procs, NEW what \in {"install", "uninstall"}, NEW step, NEW on,
           Start(p, what, step, on)
    PROVE  Begun(p, step, on) /\ op'[p] = what
<1>1. /\ pc[p] = "idle" /\ op' = [op EXCEPT ![p] = what] /\ pc' = [pc EXCEPT ![p] = step]
      /\ targets' = [targets EXCEPT ![p] = on]
      /\ UNCHANGED <<hooks, made, at, expected, contents, failed, yours, failures>>
  BY DEF Start, locals
<1>2. /\ quiet' = [q \in Procs |->
               IF q = p THEN \A r \in Procs \ {p} : pc[r] = "idle" \/ (op[r] = what /\ quiet[r])
               ELSE quiet[q] /\ op[q] = what]
      /\ outcome' = [q \in Procs |-> IF quiet'[q] /\ q # p THEN outcome[q] ELSE "none"]
  BY DEF Start
<1>3. /\ op'[p] = what /\ pc'[p] = step /\ targets'[p] = on
      /\ \A q \in Procs \ {p} : pc'[q] = pc[q] /\ op'[q] = op[q] /\ targets'[q] = targets[q]
  BY <1>1 DEF TypeOK
<1>4. quiet'[p] = \A r \in Procs \ {p} : pc[r] = "idle" \/ (op[r] = op'[p] /\ quiet[r])
  BY <1>2, <1>3
<1>5. \A q \in Procs \ {p} : quiet'[q] = (quiet[q] /\ op[q] = op'[p])  BY <1>2, <1>3
<1>6. outcome'[p] = "none"
      /\ \A q \in Procs \ {p} : outcome'[q] = IF quiet'[q] THEN outcome[q] ELSE "none"
  BY <1>2
<1> QED  BY <1>1, <1>3, <1>4, <1>5, <1>6 DEF Begun

LEMMA StartsFrame ==
    ASSUME KeptInv, NEW p \in Procs, NEW isGlobal \in BOOLEAN, Starts(p, isGlobal)
    PROVE  Started(p, isGlobal)
<1>0. TypeOK /\ GlobalTypeOK  BY DEF KeptInv, HooksInv
<1>1. /\ global'[p] = isGlobal /\ \A q \in Procs \ {p} : global'[q] = global[q]
      /\ overlapped' = (overlapped \/ \E q \in Procs \ {p} : pc[q] # "idle" /\ op[q] # op'[p])
      /\ UNCHANGED <<setting, include, opConfig, files, left, brokenOff, misled>>
  BY <1>0 DEF Starts, Observed, GlobalTypeOK, SameConfig, SameWork
<1> DEFINE on == (Dirs \cap {TemplateDir}) \cup (IF opConfig THEN {Default} ELSE {})
           Here(d) == /\ Begun(p, First(op'[p]), {d}) /\ dir'[p] = d /\ then'[p] = "idle"
                      /\ \A q \in Procs \ {p} : dir'[q] = dir[q] /\ then'[q] = then[q]
           There == /\ Begun(p, "query", on) /\ UNCHANGED <<dir, then>>
<1>2. CASE ~isGlobal
  <2>1. Begin(p)  BY <1>2 DEF Starts
  <2>2. PICK d \in LocalDirs : \E what \in {"install", "uninstall"} :
          /\ Start(p, what, First(what), {d})
          /\ dir' = [dir EXCEPT ![p] = d] /\ then' = [then EXCEPT ![p] = "idle"]
    BY <2>1 DEF Begin
  <2>3. PICK what \in {"install", "uninstall"} :
          /\ Start(p, what, First(what), {d})
          /\ dir' = [dir EXCEPT ![p] = d] /\ then' = [then EXCEPT ![p] = "idle"]
    BY <2>2
  <2>4. Begun(p, First(what), {d}) /\ op'[p] = what  BY <1>0, <2>3, StartBegins
  <2>5. /\ dir'[p] = d /\ then'[p] = "idle"
        /\ \A q \in Procs \ {p} : dir'[q] = dir[q] /\ then'[q] = then[q]
    BY <1>0, <2>3 DEF TypeOK
  <2>6. \E e \in LocalDirs : Here(e)  BY <2>4, <2>5
  <2> HIDE DEF on
  <2> QED  BY <1>1, <1>2, <2>6 DEF Started, Begun
<1>3. CASE isGlobal
  <2>1. UNCHANGED <<dir, then>>  BY <1>3 DEF Starts
  <2>2. PICK what \in {"install", "uninstall"} : Start(p, what, "query", on)
    BY <1>3 DEF Starts
  <2> HIDE DEF on
  <2>3. Begun(p, "query", on)  BY <1>0, <2>2, StartBegins
  <2>4. There  BY <2>1, <2>3
  <2> QED  BY <1>1, <1>3, <2>4 DEF Started, Begun, on
<1> QED  BY <1>2, <1>3

\* Users do something, and no command is followed any longer.
LEMMA UsersFrame ==
    ASSUME UserActs
    PROVE  /\ \A p \in Procs : pc[p] = "idle" /\ quiet'[p] = FALSE /\ outcome'[p] = "none"
                                /\ targets'[p] = {}
           /\ UNCHANGED <<pc, op, dir, then, at, failed, failures, global, overlapped, include, opConfig>>
           /\ UNCHANGED <<left, brokenOff, misled>> /\ made \subseteq made'
BY DEF UserActs, Edit, Unobserved, locals, SameConfig, SameWork

LEMMA Actions ==
    ASSUME KeptInv, [GlobalNext]_globalVars
    PROVE  \/ UserActs
           \/ \E p \in Procs, isGlobal \in BOOLEAN : Starts(p, isGlobal)
           \/ \E p \in Procs : Acts(p)
           \/ UNCHANGED globalVars
BY GlobalActions DEF KeptInv, HooksInv, Acts

-----------------------------------------------------------------------------
(* Where commands are, and who runs beside them.                              *)

Place(p) ==
    /\ pc[p] \notin HookSteps => at[p] = 1 /\ failed[p] = FALSE
    /\ pc[p] \in HookSteps /\ then[p] = "check" => dir[p] = Default
    /\ pc[p] \in HookSteps =>
         /\ then[p] # "idle" => global[p]
         /\ then[p] = "idle" /\ op[p] = "uninstall" => ~global[p]
    /\ pc[p] \in {"query"} \cup OnlyInstall \cup OnlyUninstall => global[p]
PlaceInv == \A p \in Procs : Place(p)

\* Who is quiet knows that all others do as it does.
QuietInv ==
    /\ \A p, q \in Procs : quiet[p] /\ pc[q] # "idle" => op[p] = op[q] /\ quiet[q]
    /\ ~overlapped => \A p \in Procs : pc[p] # "idle" => quiet[p]
    /\ \A p \in Procs : outcome[p] \in {"ok", "failed"} => quiet[p]

LEMMA ActsKeepPlace ==
    ASSUME KeptInv, PlaceInv, NEW p \in Procs, Acts(p)
    PROVE  PlaceInv'
<1>0. TypeOK /\ ControlInv /\ Place(p) /\ StepsInv  BY DEF KeptInv, HooksInv, ConfigInv, PlaceInv
<1>1. Moves(p)  BY ActsMoves
<1>2. ASSUME NEW q \in Procs \ {p} PROVE Place(q)'
  <2>1. Place(q) /\ Same(q) /\ op' = op /\ global' = global  BY <1>1 DEF PlaceInv, Moves
  <2> QED  BY <2>1 DEF Place, Same
<1>3. Place(p)'
  <2>1. CASE HookStep(p)
    <3>1. /\ Stepped(p) /\ pc[p] \in HookSteps /\ dir' = dir /\ then' = then
          /\ op' = op /\ global' = global /\ (failed'[p] \in BOOLEAN)
      BY <1>1, <2>1, StepFrame DEF Moves, Stepped, LocalsTyped
    <3>2. CASE pc'[p] \in HookSteps  BY <1>0, <3>1, <3>2 DEF Place, HookSteps, OnlyInstall, OnlyUninstall, RemovalSteps
    <3>3. CASE pc'[p] \notin HookSteps
      <4>1. at'[p] = 1 /\ failed'[p] = FALSE /\ pc'[p] \in {"idle", then[p]}
            /\ (pc'[p] = "idle" \/ then[p] # "idle")
        BY <3>1, <3>3 DEF Stepped, NextOne, AfterLast, Stay, First, HookSteps
      <4> QED  BY <1>0, <3>1, <3>3, <4>1 DEF Place, OnlyInstall, OnlyUninstall, RemovalSteps
    <3> QED  BY <3>2, <3>3
  <2>2. CASE GlobalFail(p) /\ Unobserved
    <3>1. pc'[p] = "idle" /\ at'[p] = 1 /\ failed'[p] = FALSE  BY <2>2, FailFrame
    <3> QED  BY <3>1 DEF Place, HookSteps, OnlyInstall, OnlyUninstall, RemovalSteps
  <2>3. CASE GlobalStep(p) /\ Unobserved
    <3>1. /\ AtOne(p) /\ UNCHANGED <<at, failed>> /\ op' = op /\ global' = global
          /\ pc[p] \in {"query"} \cup OnlyInstall \cup OnlyUninstall
      BY <1>1, <2>3, GlobalStepFrame DEF Moves
    <3>2. pc[p] \notin HookSteps  BY <3>1 DEF HookSteps, OnlyInstall, OnlyUninstall, RemovalSteps
    <3>3. at'[p] = 1 /\ failed'[p] = FALSE /\ global'[p] /\ op[p] \in {"install", "uninstall"}
      BY <1>0, <3>1, <3>2 DEF Place, TypeOK
    <3>4. /\ pc'[p] \in HookSteps /\ then'[p] = "check" => dir'[p] = Default
          /\ pc'[p] \in HookSteps /\ then'[p] = "idle" => op[p] = "install"
      <4>1. CASE pc'[p] \in HookSteps
        <5>1. AtQuery(p) \/ AtEndCopy(p) \/ AtClaimed(p)  BY <3>1, <4>1, HooksFollow
        <5> QED  BY <5>1 DEF AtQuery, AtEndCopy, AtClaimed, WentTo, ToHooks, HookSteps
      <4> QED  BY <4>1
    <3> QED  BY <3>1, <3>3, <3>4 DEF Place
  <2> QED  BY <2>1, <2>2, <2>3 DEF Acts
<1> QED  BY <1>2, <1>3 DEF PlaceInv

LEMMA PlaceStep ==
    ASSUME KeptInv, PlaceInv, [GlobalNext]_globalVars
    PROVE  PlaceInv'
<1>1. CASE UserActs
  <2>1. UNCHANGED <<pc, op, dir, then, at, failed, global>>  BY <1>1, UsersFrame
  <2> QED  BY <2>1 DEF PlaceInv, Place
<1>2. ASSUME NEW p \in Procs, NEW isGlobal \in BOOLEAN, Starts(p, isGlobal) PROVE PlaceInv'
  <2>1. Started(p, isGlobal)  BY <1>2, StartsFrame
  <2>2. ASSUME NEW q \in Procs \ {p} PROVE Place(q)'
    BY <2>1 DEF Started, PlaceInv, Place
  <2>3. Place(p)'
    <3>1. pc[p] \notin HookSteps /\ at'[p] = 1 /\ failed'[p] = FALSE
      BY <2>1 DEF Started, PlaceInv, Place, HookSteps
    <3>2. CASE isGlobal
      <4>1. pc'[p] = "query" /\ global'[p]  BY <2>1, <3>2 DEF Started
      <4> QED  BY <3>1, <4>1 DEF Place, HookSteps
    <3>3. CASE ~isGlobal
      <4>1. pc'[p] = First(op'[p]) /\ ~global'[p] /\ then'[p] = "idle"  BY <2>1, <3>3 DEF Started
      <4> QED  BY <3>1, <4>1 DEF Place, First, HookSteps, OnlyInstall, OnlyUninstall, RemovalSteps
    <3> QED  BY <3>2, <3>3
  <2> QED  BY <2>2, <2>3 DEF PlaceInv
<1>3. ASSUME NEW p \in Procs, Acts(p) PROVE PlaceInv'  BY <1>3, ActsKeepPlace
<1>4. CASE UNCHANGED globalVars
  <2>1. UNCHANGED <<pc, op, dir, then, at, failed, global>>
    BY <1>4 DEF globalVars, vars, command, locals
  <2> QED  BY <2>1 DEF PlaceInv, Place
<1> QED  BY <1>1, <1>2, <1>3, <1>4, Actions

LEMMA QuietStep ==
    ASSUME KeptInv, QuietInv, [GlobalNext]_globalVars
    PROVE  QuietInv'
<1>0. TypeOK  BY DEF KeptInv, HooksInv
<1>1. CASE UserActs
  BY <1>1, UsersFrame DEF QuietInv
<1>2. ASSUME NEW p \in Procs, NEW isGlobal \in BOOLEAN, Starts(p, isGlobal) PROVE QuietInv'
  <2>1. /\ quiet'[p] = \A r \in Procs \ {p} : pc[r] = "idle" \/ (op[r] = op'[p] /\ quiet[r])
        /\ \A q \in Procs \ {p} :
             /\ pc'[q] = pc[q] /\ op'[q] = op[q] /\ quiet'[q] = (quiet[q] /\ op[q] = op'[p])
             /\ outcome'[q] = IF quiet'[q] THEN outcome[q] ELSE "none"
        /\ overlapped' = (overlapped \/ \E q \in Procs \ {p} : pc[q] # "idle" /\ op[q] # op'[p])
        /\ outcome'[p] = "none"
    BY <1>2, StartsFrame DEF Started
  <2>2. ASSUME NEW a \in Procs, NEW b \in Procs, quiet'[a], pc'[b] # "idle"
        PROVE  op'[a] = op'[b] /\ quiet'[b]
    <3>1. CASE a = p  BY <2>1, <2>2, <3>1
    <3>2. CASE a # p /\ b = p
      <4>1. quiet[a] /\ op'[a] = op'[p] /\ op[a] = op'[p]  BY <2>1, <2>2, <3>2
      <4>2. \A r \in Procs : pc[r] # "idle" => op[r] = op[a] /\ quiet[r]  BY <4>1 DEF QuietInv
      <4>3. quiet'[p]  BY <2>1, <4>1, <4>2
      <4> QED  BY <3>2, <4>1, <4>3
    <3>3. CASE a # p /\ b # p
      <4>1. quiet'[a] = (quiet[a] /\ op[a] = op'[p]) /\ op'[a] = op[a]  BY <2>1, <3>3, Zenon
      <4>2. quiet'[b] = (quiet[b] /\ op[b] = op'[p]) /\ op'[b] = op[b] /\ pc'[b] = pc[b]
        BY <2>1, <3>3, Zenon
      <4>3. op[a] = op[b] /\ quiet[b]  BY <2>2, <4>1, <4>2, Zenon DEF QuietInv
      <4> QED  BY <2>2, <4>1, <4>2, <4>3
    <3> QED  BY <3>1, <3>2, <3>3
  <2>3. ASSUME ~overlapped', NEW a \in Procs, pc'[a] # "idle" PROVE quiet'[a]
    <3>1. ~overlapped /\ \A q \in Procs \ {p} : pc[q] = "idle" \/ op[q] = op'[p]  BY <2>1, <2>3
    <3>2. \A q \in Procs : pc[q] # "idle" => quiet[q]  BY <3>1 DEF QuietInv
    <3> QED  BY <2>1, <2>3, <3>1, <3>2
  <2>4. \A a \in Procs : outcome'[a] \in {"ok", "failed"} => quiet'[a]
    BY <2>1 DEF QuietInv
  <2> QED  BY <2>2, <2>3, <2>4 DEF QuietInv
<1>3. ASSUME NEW p \in Procs, Acts(p) PROVE QuietInv'
  <2>1. Moves(p)  BY <1>3, ActsMoves
  <2>2. /\ UNCHANGED <<op, quiet, overlapped>> /\ pc[p] # "idle"
        /\ \A q \in Procs \ {p} : pc'[q] = pc[q] /\ outcome'[q] = outcome[q]
        /\ outcome'[p] \in {"ok", "failed"} => quiet[p] \/ outcome'[p] = outcome[p]
    BY <2>1 DEF Moves, Same
  <2>3. \A q \in Procs : pc'[q] # "idle" => pc[q] # "idle"  BY <2>2
  <2> QED  BY <2>2, <2>3 DEF QuietInv
<1>4. CASE UNCHANGED globalVars
  <2>1. UNCHANGED <<pc, op, quiet, overlapped, outcome>>  BY <1>4 DEF globalVars, vars, command
  <2> QED  BY <2>1 DEF QuietInv
<1> QED  BY <1>1, <1>2, <1>3, <1>4, Actions

-----------------------------------------------------------------------------
(* What becomes of a hook while there are only installs.                      *)

Grows(f, g) == g = f \/ Installed(g) \/ (f.lines # <<>> /\ g = Executable(f.lines))

LEMMA InstalledFacts ==
    ASSUME NEW f
    PROVE  /\ Installed(f) <=> OwnedOnce(f.lines) /\ f.executable
           /\ OwnedOnce(f.lines) => f.lines # <<>>
<1>1. Installed(f) <=> OwnedOnce(f.lines) /\ f.executable  BY DEF Installed, OwnedOnce
<1>2. OwnedOnce(f.lines) => f.lines # <<>>  BY OwnedOnceFacts, AbsentFacts
<1> QED  BY <1>1, <1>2

LEMMA GrowthKeeps ==
    ASSUME NEW f, NEW g, Grows(f, g), NEW name
    PROVE  /\ Installed(f) => Installed(g)
           /\ OwnedOnce(f.lines) => OwnedOnce(g.lines)
           /\ f.lines # <<>> /\ Refused(name, f.lines) =>
                (g.lines # <<>> /\ Refused(name, g.lines)) \/ Installed(g)
           /\ f.lines = g.lines \/ Installed(g)
<1>1. CASE g = f  BY <1>1
<1>2. CASE Installed(g)  BY <1>2, InstalledFacts
<1>3. CASE f.lines # <<>> /\ g = Executable(f.lines)
  <2>1. g.lines = f.lines /\ g.executable = TRUE  BY <1>3, InstalledOf
  <2> QED  BY <2>1, InstalledFacts
<1> QED  BY <1>1, <1>2, <1>3 DEF Grows

LEMMA InstallsGrow ==
    ASSUME KeptInv, NEW p \in Procs, Acts(p), op[p] = "install"
    PROVE  /\ \A d \in Dirs, name \in Names : Grows(hooks[d][name], hooks'[d][name])
           /\ made \subseteq made'
<1>0. TypeOK /\ HooksInv  BY DEF KeptInv, HooksInv
<1>1. CASE hooks' = hooks /\ made \subseteq made'  BY <1>1 DEF Grows
<1>2. CASE HookStep(p)
  <2>1. made \subseteq made' /\ Step(p)  BY <1>2, StepFrame DEF HookStep
  <2>2. CASE hooks' = hooks  BY <1>1, <2>1, <2>2
  <2>3. ASSUME NEW file \in Files, Wrote(p, file), Fits(p, file)
        PROVE  \A d \in Dirs, name \in Names : Grows(hooks[d][name], hooks'[d][name])
    <3>0. hooks \in [Dirs -> [Names -> Files]] /\ dir[p] \in Dirs /\ Name(p) \in Names
          /\ File(p) = hooks[dir[p]][Name(p)]
      BY <1>0, HookAt DEF TypeOK, Files
    <3>1. /\ hooks'[dir[p]][Name(p)] = file
          /\ \A d \in Dirs, name \in Names :
               d # dir[p] \/ name # Name(p) => hooks'[d][name] = hooks[d][name]
      BY <2>3, <3>0, WriteHook DEF Wrote
    <3>2. Grows(File(p), file)  BY <2>3 DEF Fits, Grows
    <3>3. ASSUME NEW d \in Dirs, NEW name \in Names PROVE Grows(hooks[d][name], hooks'[d][name])
      <4>1. CASE d = dir[p] /\ name = Name(p)  BY <3>0, <3>1, <3>2, <4>1
      <4>2. CASE ~ (d = dir[p] /\ name = Name(p))  BY <3>1, <4>2 DEF Grows
      <4> QED  BY <4>1, <4>2
    <3> QED  BY <3>3
  <2> QED  BY <1>0, <2>1, <2>2, <2>3, StepWrites
<1>3. CASE GlobalFail(p) /\ Unobserved  BY <1>1, <1>3, FailFrame
<1>4. CASE GlobalStep(p) /\ Unobserved
  <2>1. AtOne(p)  BY <1>4, GlobalStepFrame
  <2>2. hooks' = hooks /\ made \subseteq made'
    BY <1>0, <2>1, GlobalStepSummary DEF AtRemoveListedHook
  <2> QED  BY <1>1, <2>2
<1> QED  BY <1>2, <1>3, <1>4 DEF Acts

-----------------------------------------------------------------------------
(* What an install has done, while there are only installs beside it.         *)

\* One of the hooks: in place, or refused and reported.
Attended(name, file, reported) ==
    Installed(file) \/ (reported /\ file.lines # <<>> /\ Refused(name, file.lines))

\* An install at a hook knows what it has just read, or that another has put
\* git-op's command there since.
Placing(p) ==
    /\ at[p] = 2 => Attended(All[1], hooks[dir[p]][All[1]], failed[p])
    /\ pc[p] # "plan" => dir[p] \in made
    /\ pc[p] = "link" => File(p).lines = <<>> \/ Installed(File(p))
    /\ pc[p] = "adopt" => Installed(File(p))
    /\ pc[p] = "executable" => OwnedOnce(File(p).lines)
    /\ pc[p] = "compare" => File(p).lines = expected[p] \/ Installed(File(p))
Placed(p) ==
    \A name \in Names : Attended(name, hooks[dir[p]][name], outcome[p] = "failed")
InstallInv ==
    \A p \in Procs : quiet[p] /\ op[p] = "install" =>
        /\ pc[p] \in HookSteps => Placing(p)
        /\ pc[p] = "idle" /\ outcome[p] \in {"ok", "failed"} => Placed(p)

LEMMA AttendedGrows ==
    ASSUME NEW name, NEW f, NEW g, Grows(f, g), NEW reported, NEW still, reported => still,
           Attended(name, f, reported)
    PROVE  Attended(name, g, still)
BY GrowthKeeps DEF Attended

\* The steps of others.
LEMMA OthersKeepInstall ==
    ASSUME KeptInv, InstallInv, NEW q \in Procs, quiet[q], op[q] = "install",
           \A d \in Dirs, name \in Names : Grows(hooks[d][name], hooks'[d][name]),
           made \subseteq made',
           pc'[q] = pc[q], at'[q] = at[q], failed'[q] = failed[q], dir'[q] = dir[q],
           expected'[q] = expected[q], outcome'[q] = outcome[q]
    PROVE  /\ pc'[q] \in HookSteps => Placing(q)'
           /\ pc'[q] = "idle" /\ outcome'[q] \in {"ok", "failed"} => Placed(q)'
<1>0. /\ dir[q] \in Dirs /\ Name(q) \in Names /\ File(q) = hooks[dir[q]][Name(q)]
      /\ Name(q)' = Name(q) /\ File(q)' = hooks'[dir[q]][Name(q)] /\ All[1] \in Names
  BY HookAt, AllFacts DEF KeptInv, HooksInv, Name, File
<1>1. ASSUME pc'[q] \in HookSteps PROVE Placing(q)'
  <2>1. Placing(q)  BY <1>1 DEF InstallInv
  <2>2. Grows(File(q), File(q)') /\ Grows(hooks[dir[q]][All[1]], hooks'[dir[q]][All[1]])
    BY <1>0
  <2>3. at[q] = 2 => Attended(All[1], hooks'[dir[q]][All[1]], failed[q])
    BY <2>1, <2>2, AttendedGrows DEF Placing
  <2>4. /\ Installed(File(q)) => Installed(File(q)')
        /\ OwnedOnce(File(q).lines) => OwnedOnce(File(q)'.lines)
        /\ File(q).lines = File(q)'.lines \/ Installed(File(q)')
    BY <2>2, GrowthKeeps
  <2>5. /\ pc[q] = "link" => File(q)'.lines = <<>> \/ Installed(File(q)')
        /\ pc[q] = "adopt" => Installed(File(q)')
        /\ pc[q] = "executable" => OwnedOnce(File(q)'.lines)
        /\ pc[q] = "compare" => File(q)'.lines = expected[q] \/ Installed(File(q)')
        /\ pc[q] # "plan" => dir[q] \in made'
    BY <2>1, <2>4 DEF Placing
  <2> QED  BY <2>3, <2>5 DEF Placing
<1>2. ASSUME pc'[q] = "idle", outcome'[q] \in {"ok", "failed"} PROVE Placed(q)'
  <2>1. Placed(q)  BY <1>2 DEF InstallInv
  <2>2. ASSUME NEW name \in Names
        PROVE  Attended(name, hooks'[dir[q]][name], outcome[q] = "failed")
    BY <1>0, <2>1, AttendedGrows DEF Placed
  <2> QED  BY <2>2 DEF Placed
<1> QED  BY <1>1, <1>2

\* An install that is done with a hook has put git-op's command there, or was
\* refused it.
LEMMA InstallJudged ==
    ASSUME KeptInv, NEW p \in Procs, op[p] = "install", Placing(p),
           NEW ok \in BOOLEAN, Judged(p, ok)
    PROVE  Attended(Name(p), hooks'[dir[p]][Name(p)], ~ ok)
<1> DEFINE here == File(p)
           name == Name(p)
           next == hooks'[dir[p]][name]
<1>0. /\ TypeOK /\ dir[p] \in Dirs /\ name \in Names /\ here = hooks[dir[p]][name]
      /\ hooks \in [Dirs -> [Names -> Files]] /\ here.lines \in Seq(Lines) /\ contents[p] \in Seq(Lines)
  BY HookAt DEF KeptInv, HooksInv, TypeOK, Files
<1>1. ASSUME NEW file \in Files, Wrote(p, file) PROVE next = file
  BY <1>0, <1>1, WriteHook DEF Wrote
<1>2. hooks' = hooks => next = here  BY <1>0
<1>3. pc[p] \notin {"strip", "remove"}
  <2>1. StepsInv  BY DEF KeptInv, HooksInv
  <2> QED  BY <2>1 DEF StepsInv
<1> HIDE DEF here, next, name
<1>4. CASE here.lines # <<>> /\ Refused(name, here.lines) /\ ~ ok /\ hooks' = hooks
  BY <1>2, <1>4 DEF Attended, name, next
<1>5. CASE pc[p] = "adopt" /\ here.lines = <<>>  BY <1>5, InstalledFacts DEF Placing, here
<1>6. CASE pc[p] = "link" /\ ok = CanWrite(p) /\ WroteIf(p, ok, Executable(Body))
  <2>1. Wrote(p, Executable(Body))  BY <1>6 DEF WroteIf, Placing, CanWrite
  <2>2. Executable(Body) \in Files /\ Installed(Executable(Body))
    BY BodyFacts, ExecutableFile, InstalledOf
  <2> QED  BY <1>1, <2>1, <2>2 DEF Attended, next, name
<1>7. CASE pc[p] = "executable" /\ ok = (here.lines # <<>>) /\ WroteIf(p, ok, Executable(here.lines))
  <2>1. OwnedOnce(here.lines) /\ here.lines # <<>>  BY <1>7, InstalledFacts DEF Placing, here
  <2>2. Wrote(p, Executable(here.lines))  BY <1>7, <2>1 DEF WroteIf
  <2>3. Executable(here.lines) \in Files /\ Installed(Executable(here.lines))
    BY <1>0, <2>1, ExecutableFile, InstalledOf
  <2> QED  BY <1>1, <2>2, <2>3 DEF Attended, next, name
<1>8. CASE pc[p] = "compare" /\ (here.lines = <<>> \/ here.lines # expected[p]) /\ hooks' = hooks
  <2>1. expected[p] # <<>>  BY <1>8 DEF KeptInv, HooksInv, ShapeInv
  <2>2. here.lines = expected[p] \/ Installed(here)  BY <1>8 DEF Placing, here
  <2>3. Installed(here)  BY <1>8, <2>1, <2>2
  <2> QED  BY <1>2, <1>8, <2>3 DEF Attended, next, name
<1>9. CASE pc[p] = "rename" /\ ok = CanWrite(p) /\ WroteIf(p, ok, Executable(contents[p]))
  <2>1. Wrote(p, Executable(contents[p]))  BY <1>9 DEF WroteIf, Placing, CanWrite
  <2>2. OwnedOnce(contents[p])  BY <1>9 DEF KeptInv, HooksInv, ShapeInv
  <2>3. Executable(contents[p]) \in Files /\ Installed(Executable(contents[p]))
    BY <1>0, <2>2, ExecutableFile, InstalledOf
  <2> QED  BY <1>1, <2>1, <2>3 DEF Attended, next, name
<1> QED  BY <1>3, <1>4, <1>5, <1>6, <1>7, <1>8, <1>9 DEF Judged, here, name

\* The steps of its own.
LEMMA StepKeepsInstall ==
    ASSUME KeptInv, InstallInv, NEW p \in Procs, HookStep(p), quiet[p], op[p] = "install"
    PROVE  /\ pc'[p] \in HookSteps => Placing(p)'
           /\ pc'[p] = "idle" /\ outcome'[p] \in {"ok", "failed"} => Placed(p)'
<1>0. /\ TypeOK /\ dir[p] \in Dirs /\ Name(p) \in Names /\ File(p) = hooks[dir[p]][Name(p)]
      /\ All[1] \in Names /\ All[2] \in Names /\ File(p).lines \in Seq(Lines)
      /\ \A name \in Names : name = All[1] \/ name = All[2]
  BY HookAt, AllFacts DEF KeptInv, HooksInv
<1>1. /\ Stepped(p) /\ pc[p] \in HookSteps /\ dir' = dir /\ op' = op
      /\ made' = IF pc[p] = "plan" THEN made \cup {dir[p]} ELSE made
  BY StepFrame DEF Moves
<1>2. Placing(p)  BY <1>1 DEF InstallInv
<1>3. Acts(p)  BY DEF Acts
<1>4. \A name \in Names : Grows(hooks[dir[p]][name], hooks'[dir[p]][name])
  BY <1>0, <1>3, InstallsGrow
<1>5. then[p] = "idle"  BY <1>1 DEF KeptInv, ConfigInv, ControlInv
<1>6. ASSUME NEW ok \in BOOLEAN, NextOne(p, ok), Judged(p, ok)
      PROVE  /\ pc'[p] \in HookSteps => Placing(p)'
             /\ pc'[p] = "idle" /\ outcome'[p] \in {"ok", "failed"} => Placed(p)'
  <2>1. at[p] = 1 /\ pc'[p] = "plan" /\ failed'[p] = (failed[p] \/ ~ ok)
    BY <1>6 DEF NextOne, First
  <2>2. Attended(All[1], hooks'[dir[p]][All[1]], ~ ok)
    BY <1>2, <1>6, <2>1, InstallJudged DEF Name
  <2>3. Attended(All[1], hooks'[dir[p]][All[1]], failed'[p])  BY <2>1, <2>2 DEF Attended
  <2> QED  BY <1>1, <2>1, <2>3 DEF Placing
<1>7. ASSUME NEW ok \in BOOLEAN, AfterLast(p, ok), Judged(p, ok)
      PROVE  /\ pc'[p] \in HookSteps => Placing(p)'
             /\ pc'[p] = "idle" /\ outcome'[p] \in {"ok", "failed"} => Placed(p)'
  <2>1. /\ at[p] = 2 /\ pc'[p] = "idle"
        /\ ~ ok => outcome'[p] = "failed"
        /\ failed[p] => outcome'[p] = "failed"
    BY <1>5, <1>7 DEF AfterLast
  <2>2. Attended(All[2], hooks'[dir[p]][All[2]], ~ ok)
    BY <1>2, <1>7, <2>1, InstallJudged DEF Name
  <2>3. Attended(All[2], hooks'[dir[p]][All[2]], outcome'[p] = "failed")
    BY <2>1, <2>2 DEF Attended
  <2>4. Attended(All[1], hooks[dir[p]][All[1]], failed[p])  BY <1>2, <2>1 DEF Placing
  <2>5. Attended(All[1], hooks'[dir[p]][All[1]], outcome'[p] = "failed")
    <3>1. Grows(hooks[dir[p]][All[1]], hooks'[dir[p]][All[1]])  BY <1>0, <1>4
    <3> QED  BY <2>1, <2>4, <3>1, GrowthKeeps DEF Attended
  <2>6. \A name \in Names : Attended(name, hooks'[dir[p]][name], outcome'[p] = "failed")
    BY <1>0, <2>3, <2>5
  <2> QED  BY <1>1, <2>1, <2>6 DEF Placed, HookSteps
<1>8. ASSUME NEW step \in HookSteps, Stay(p, step), Moved(p, step)
      PROVE  /\ pc'[p] \in HookSteps => Placing(p)'
             /\ pc'[p] = "idle" /\ outcome'[p] \in {"ok", "failed"} => Placed(p)'
  <2>1. pc'[p] = step /\ at'[p] = at[p] /\ failed'[p] = failed[p] /\ hooks' = hooks
    BY <1>8 DEF Stay, Moved
  <2>2. Name(p)' = Name(p) /\ File(p)' = File(p)  BY <1>1, <2>1 DEF Name, File
  <2>3. at'[p] = 2 => Attended(All[1], hooks'[dir[p]][All[1]], failed'[p])
    BY <1>2, <2>1 DEF Placing
  <2>4. dir[p] \in made'  BY <1>1, <1>2 DEF Placing
  <2>5. /\ step = "link" => File(p).lines = <<>>
        /\ step = "adopt" => Installed(File(p))
        /\ step = "executable" => OwnedOnce(File(p).lines)
        /\ step = "compare" => File(p).lines = expected'[p]
    <3>1. CASE /\ ~ Refused(Name(p), File(p).lines) /\ Read(p, Replacement(Name(p), File(p).lines))
               /\ step = IF Replacement(Name(p), File(p).lines) = File(p).lines
                         THEN "executable" ELSE "compare"
      <4>1. Shape(Name(p), File(p).lines)  BY <1>0 DEF KeptInv, HooksInv, ShapeInv
      <4>2. OwnedOnce(Replacement(Name(p), File(p).lines))  BY <1>0, <3>1, <4>1, ReplacementFacts
      <4> QED  BY <3>1, <4>2 DEF Read
    <3>2. CASE pc[p] = "link" /\ step = "adopt" /\ File(p).lines # <<>>
      BY <1>2, <3>2 DEF Placing
    <3>3. pc[p] # "strip"  BY DEF KeptInv, HooksInv, StepsInv
    <3> QED  BY <1>8, <3>1, <3>2, <3>3 DEF Moved
  <2> QED  BY <1>1, <2>1, <2>2, <2>3, <2>4, <2>5 DEF Placing, HookSteps
<1> QED  BY <1>1, <1>6, <1>7, <1>8 DEF Stepped

LEMMA InstallStep ==
    ASSUME KeptInv, PlaceInv, QuietInv, InstallInv, [GlobalNext]_globalVars
    PROVE  InstallInv'
<1>0. TypeOK  BY DEF KeptInv, HooksInv
<1>1. CASE UserActs  BY <1>1, UsersFrame DEF InstallInv
<1>2. ASSUME NEW p \in Procs, NEW isGlobal \in BOOLEAN, Starts(p, isGlobal) PROVE InstallInv'
  <2>1. Started(p, isGlobal)  BY <1>2, StartsFrame
  <2>2. /\ UNCHANGED <<hooks, made, at, failed, expected>> /\ at'[p] = 1 /\ outcome'[p] = "none"
        /\ pc'[p] = "query" \/ pc'[p] = First(op'[p])
    <3>1. at[p] = 1  BY <2>1 DEF Started, PlaceInv, Place, HookSteps
    <3> QED  BY <2>1, <3>1 DEF Started
  <2>3. ASSUME NEW q \in Procs \ {p}, quiet'[q], op'[q] = "install"
        PROVE  /\ pc'[q] \in HookSteps => Placing(q)'
               /\ pc'[q] = "idle" /\ outcome'[q] \in {"ok", "failed"} => Placed(q)'
    <3>1. /\ quiet[q] /\ op[q] = "install" /\ pc'[q] = pc[q] /\ dir'[q] = dir[q]
          /\ outcome'[q] = outcome[q]
      BY <2>1, <2>3 DEF Started
    <3>2. \A d \in Dirs, name \in Names : Grows(hooks[d][name], hooks'[d][name])
      BY <2>2 DEF Grows
    <3> QED  BY <2>2, <3>1, <3>2, OthersKeepInstall
  <2>4. ASSUME op'[p] = "install"
        PROVE  /\ pc'[p] \in HookSteps => Placing(p)'
               /\ pc'[p] = "idle" /\ outcome'[p] \in {"ok", "failed"} => Placed(p)'
    BY <2>2, <2>4 DEF Placing, First, HookSteps
  <2> QED  BY <2>3, <2>4 DEF InstallInv
<1>3. ASSUME NEW p \in Procs, Acts(p) PROVE InstallInv'
  <2>1. Moves(p)  BY <1>3, ActsMoves
  <2>2. ASSUME NEW q \in Procs \ {p}, quiet[q], op[q] = "install"
        PROVE  /\ pc'[q] \in HookSteps => Placing(q)'
               /\ pc'[q] = "idle" /\ outcome'[q] \in {"ok", "failed"} => Placed(q)'
    <3>1. op[p] = "install"  BY <2>1, <2>2 DEF Moves, QuietInv
    <3>2. Same(q)  BY <2>1 DEF Moves
    <3> QED  BY <1>3, <2>2, <3>1, <3>2, InstallsGrow, OthersKeepInstall DEF Same
  <2>3. ASSUME quiet[p], op[p] = "install"
        PROVE  /\ pc'[p] \in HookSteps => Placing(p)'
               /\ pc'[p] = "idle" /\ outcome'[p] \in {"ok", "failed"} => Placed(p)'
    <3>1. CASE HookStep(p)  BY <2>3, <3>1, StepKeepsInstall
    <3>2. CASE GlobalFail(p) /\ Unobserved
      BY <3>2, FailFrame DEF HookSteps
    <3>3. CASE GlobalStep(p) /\ Unobserved
      <4>1. /\ AtOne(p) /\ at' = at /\ pc[p] \in {"query"} \cup OnlyInstall \cup OnlyUninstall
        BY <3>3, GlobalStepFrame
      <4>2. at'[p] = 1  BY <4>1 DEF PlaceInv, Place, HookSteps, OnlyInstall, OnlyUninstall, RemovalSteps
      <4>3. pc'[p] \in HookSteps => pc'[p] = "plan"
        <5>1. CASE pc'[p] \in HookSteps
          <6>1. AtQuery(p) \/ AtEndCopy(p)
            BY <2>3, <4>1, <5>1, HooksFollow DEF AtClaimed
          <6> QED  BY <2>3, <5>1, <6>1 DEF AtQuery, AtEndCopy, WentTo, ToHooks, First, HookSteps
        <5> QED  BY <5>1
      <4>4. pc'[p] = "idle" => outcome'[p] = "stopped"
        <5>1. CASE pc'[p] = "idle"
          <6>1. Ended(p, "stopped")  BY <2>3, <4>1, <5>1, HooksFollow DEF AtForget
          <6> QED  BY <2>3, <6>1 DEF Ended
        <5> QED  BY <5>1
      <4> QED  BY <4>2, <4>3, <4>4 DEF Placing
    <3> QED  BY <1>3, <3>1, <3>2, <3>3 DEF Acts
  <2>4. quiet' = quiet /\ op' = op  BY <2>1 DEF Moves
  <2> QED  BY <2>2, <2>3, <2>4 DEF InstallInv
<1>4. CASE UNCHANGED globalVars
  <2>1. UNCHANGED <<hooks, made, pc, op, dir, at, failed, expected, quiet, outcome>>
    BY <1>4 DEF globalVars, vars, command, locals
  <2> QED  BY <2>1 DEF InstallInv, Placing, Placed, Name, File
<1> QED  BY <1>1, <1>2, <1>3, <1>4, Actions

-----------------------------------------------------------------------------
(* Where an install puts its hooks, while there are only installs beside it.  *)

Taking(p) ==
    /\ pc[p] \in {"include", "add"} => opConfig
    /\ pc[p] \in {"seed", "copy"} => include /\ opConfig
    /\ global[p] /\ pc[p] \in HookSteps => TemplateDir = dir[p]
    /\ global[p] /\ pc[p] = "idle" /\ outcome[p] \in {"ok", "failed"} => TemplateDir = dir[p]
TakesInv ==
    /\ \A p \in Procs : pc[p] \in OnlyInstall => setting = "none"
    /\ \A p \in Procs : quiet[p] /\ op[p] = "install" => Taking(p)

\* What the steps of an install may change of the configuration: where Git
\* finds a template directory, it goes on finding it.
LEMMA InstallsKeepTemplateDir ==
    ASSUME KeptInv, TakesInv, NEW p \in Procs, Acts(p), op[p] = "install"
    PROVE  /\ setting' = setting /\ (include => include') /\ (opConfig => opConfig')
           /\ TemplateDir \in Dirs => TemplateDir' = TemplateDir
<1>0. TypeOK /\ GlobalTypeOK /\ "none" \notin Dirs  BY TemplateDirs DEF KeptInv, HooksInv
<1>1. CASE UNCHANGED <<setting, include, opConfig>>  BY <1>1 DEF TemplateDir
<1>2. CASE GlobalStep(p) /\ Unobserved
  <2>1. AtOne(p)  BY <1>2, GlobalStepFrame
  <2>2. CASE AtConfig(p) \/ AtAdd(p)
    <3>1. setting = "none"  BY <2>2 DEF TakesInv, AtConfig, AtAdd, OnlyInstall
    <3>2. setting' = setting /\ (include => include') /\ (opConfig => opConfig')
      BY <2>2 DEF AtConfig, AtAdd
    <3>3. TemplateDir \in Dirs => include /\ opConfig  BY <1>0, <3>1 DEF TemplateDir
    <3> QED  BY <3>1, <3>2, <3>3 DEF TemplateDir
  <2>3. CASE ~ (AtConfig(p) \/ AtAdd(p))
    <3>1. SameConfig  BY <1>0, <2>1, <2>3, GlobalStepSummary DEF AtUnset, AtForget
    <3> QED  BY <1>1, <3>1 DEF SameConfig
  <2> QED  BY <2>2, <2>3
<1>3. CASE HookStep(p)  BY <1>1, <1>3, StepFrame
<1>4. CASE GlobalFail(p) /\ Unobserved  BY <1>1, <1>4, FailFrame
<1> QED  BY <1>2, <1>3, <1>4 DEF Acts

LEMMA ActsKeepTakes ==
    ASSUME KeptInv, PlaceInv, QuietInv, TakesInv, NEW p \in Procs, Acts(p)
    PROVE  TakesInv'
<1>0. /\ TypeOK /\ ControlInv /\ "none" \notin Dirs /\ \A q \in Procs : dir[q] \in Dirs
      /\ TemplateDir \in {Default, UserTemplate, "none"}
  BY TemplateDirs, HookAt DEF KeptInv, HooksInv, ConfigInv
<1>1. /\ Moves(p) /\ UNCHANGED <<op, quiet, global, setting>> /\ pc[p] # "idle"
      /\ \A q \in Procs \ {p} : pc'[q] = pc[q] /\ dir'[q] = dir[q] /\ outcome'[q] = outcome[q]
  BY ActsMoves DEF Moves, Same
<1>2. ASSUME NEW q \in Procs \ {p}, quiet[q], op[q] = "install" PROVE Taking(q)'
  <2>1. op[p] = "install"  BY <1>1, <1>2 DEF QuietInv
  <2>2. /\ (include => include') /\ (opConfig => opConfig')
        /\ TemplateDir = dir[q] => TemplateDir' = dir[q]
    BY <1>0, <2>1, InstallsKeepTemplateDir
  <2>3. Taking(q)  BY <1>2 DEF TakesInv
  <2> QED  BY <1>1, <2>2, <2>3 DEF Taking
<1>3. /\ pc'[p] \in OnlyInstall => setting = "none"
      /\ quiet[p] /\ op[p] = "install" => Taking(p)'
  <2>0. quiet[p] /\ op[p] = "install" => Taking(p)  BY DEF TakesInv
  <2>1. CASE HookStep(p)
    <3>1. Stepped(p) /\ pc[p] \in HookSteps /\ dir' = dir /\ TemplateDir' = TemplateDir
      BY <2>1, StepFrame DEF TemplateDir
    <3>2. then[p] \in {"idle", "claimed", "check"} /\ (op[p] = "install" => then[p] = "idle")
      BY <3>1 DEF KeptInv, ConfigInv, ControlInv
    <3>3. /\ pc'[p] \in HookSteps \cup {"idle", "claimed", "check"}
          /\ op[p] = "install" => pc'[p] \in HookSteps \cup {"idle"}
      <4>1. First(op[p]) \in HookSteps  BY DEF First, HookSteps
      <4> QED  BY <3>1, <3>2, <4>1 DEF Stepped, NextOne, AfterLast, Stay
    <3>4. pc'[p] \notin OnlyInstall  BY <3>3 DEF HookSteps, OnlyInstall
    <3> QED  BY <1>1, <2>0, <3>1, <3>3, <3>4 DEF Taking, HookSteps
  <2>2. CASE GlobalFail(p) /\ Unobserved
    <3>1. pc'[p] = "idle" /\ outcome'[p] \in {"killed", "none"}  BY <2>2, FailFrame
    <3> QED  BY <3>1 DEF Taking, HookSteps, OnlyInstall
  <2>3. CASE GlobalStep(p) /\ Unobserved
    <3>1. AtOne(p)  BY <2>3, GlobalStepFrame
    <3>2. CASE AtQuery(p)
      <4>1. TemplateDir = "none" => setting = "none"
        BY <1>0, TemplateDirs DEF TemplateDir
      <4>2. TemplateDir' = TemplateDir  BY <3>2 DEF AtQuery, SameConfig, TemplateDir
      <4> QED  BY <3>2, <4>1, <4>2 DEF AtQuery, WentTo, ToHooks, First, Taking, HookSteps, OnlyInstall
    <3>3. CASE AtConfig(p) \/ AtInclude(p) \/ AtAdd(p)
      <4>1. setting = "none"  BY <3>3 DEF TakesInv, AtConfig, AtInclude, AtAdd, OnlyInstall
      <4>2. quiet[p] /\ op[p] = "install" => Taking(p)'
        BY <2>0, <3>3 DEF AtConfig, AtInclude, AtAdd, SameConfig, WentTo, Ended, Taking, HookSteps
      <4> QED  BY <4>1, <4>2
    <3>4. CASE AtSeed(p) \/ AtCopyStock(p) \/ AtCopyFails(p)
      <4>1. /\ setting = "none" /\ UNCHANGED <<include, opConfig>>
            /\ pc[p] \in {"seed", "copy"}
        BY <3>4 DEF TakesInv, AtSeed, AtCopyStock, AtCopyFails, OnlyInstall, SameConfig
      <4>2. pc'[p] = "copy" \/ (pc'[p] = "idle" /\ outcome'[p] \in {"stopped", "none"})
        BY <3>4 DEF AtSeed, AtCopyStock, AtCopyFails, WentTo, Ended
      <4> QED  BY <2>0, <4>1, <4>2 DEF Taking, HookSteps
    <3>5. CASE AtEndCopy(p)
      <4>1. setting = "none"  BY <3>5 DEF TakesInv, AtEndCopy, OnlyInstall
      <4>2. quiet[p] /\ op[p] = "install" => TemplateDir' = Default
        BY <2>0, <3>5, <4>1 DEF AtEndCopy, SameConfig, Taking, TemplateDir
      <4>3. pc'[p] \in HookSteps /\ dir'[p] = Default
        BY <3>5 DEF AtEndCopy, ToHooks, First, HookSteps
      <4> QED  BY <4>2, <4>3 DEF Taking, HookSteps, OnlyInstall
    <3>6. CASE op[p] = "uninstall"
      <4>1. pc'[p] \notin OnlyInstall  BY <3>1, <3>6, HooksFollow
      <4> QED  BY <3>6, <4>1
    <3> QED  BY <3>1, <3>2, <3>3, <3>4, <3>5, <3>6
             DEF AtOne, AtInstall, AtClaimed, AtCheck, AtRemoval, AtListTemplate, AtRemoveFile, AtListHooks,
                 AtRemoveListedHook, AtRemoveHooksDir, AtRemoveTemplate, AtUnset, AtForget
  <2> QED  BY <2>1, <2>2, <2>3 DEF Acts
<1> QED  BY <1>1, <1>2, <1>3 DEF TakesInv

LEMMA TakesStep ==
    ASSUME KeptInv, PlaceInv, QuietInv, TakesInv, [GlobalNext]_globalVars
    PROVE  TakesInv'
<1>1. CASE UserActs
  BY <1>1, UsersFrame DEF TakesInv, OnlyInstall
<1>2. ASSUME NEW p \in Procs, NEW isGlobal \in BOOLEAN, Starts(p, isGlobal) PROVE TakesInv'
  <2>1. Started(p, isGlobal)  BY <1>2, StartsFrame
  <2>2. /\ UNCHANGED <<setting, include, opConfig>> /\ TemplateDir' = TemplateDir
        /\ outcome'[p] = "none"
    BY <2>1 DEF Started, TemplateDir
  <2>3. ASSUME NEW q \in Procs \ {p}
        PROVE  /\ pc'[q] \in OnlyInstall => setting' = "none"
               /\ quiet'[q] /\ op'[q] = "install" => Taking(q)'
    <3>1. /\ pc'[q] = pc[q] /\ op'[q] = op[q] /\ dir'[q] = dir[q] /\ global'[q] = global[q]
          /\ quiet'[q] => quiet[q] /\ outcome'[q] = outcome[q]
      BY <2>1 DEF Started
    <3> QED  BY <2>2, <3>1 DEF TakesInv, Taking
  <2>4. /\ pc'[p] \in OnlyInstall => setting' = "none"
        /\ quiet'[p] /\ op'[p] = "install" => Taking(p)'
    <3>1. pc'[p] = "query" \/ (pc'[p] \in {"plan", "strip"} /\ ~ global'[p])
      BY <2>1 DEF Started, First
    <3> QED  BY <2>2, <3>1 DEF Taking, HookSteps, OnlyInstall
  <2> QED  BY <2>3, <2>4 DEF TakesInv
<1>3. ASSUME NEW p \in Procs, Acts(p) PROVE TakesInv'  BY <1>3, ActsKeepTakes
<1>4. CASE UNCHANGED globalVars
  <2>1. UNCHANGED <<pc, op, dir, quiet, outcome, global, setting, include, opConfig>>
    BY <1>4 DEF globalVars, vars, command, config
  <2> QED  BY <2>1 DEF TakesInv, Taking, TemplateDir
<1> QED  BY <1>1, <1>2, <1>3, <1>4, Actions

-----------------------------------------------------------------------------
(* What becomes of hooks and of the claim while there are only uninstalls.    *)

CleanDir(d) == \A name \in Names : Clean(name, hooks[d][name].lines)

\* The template directory is not there, or holds something git-op leaves there.
TemplateGone == ~TemplateExists \/ Present \cap Foreign # {} \/ ~HooksGone

Shrinks ==
    /\ \A d \in Dirs, name \in Names :
         hooks'[d][name] = hooks[d][name] \/ Clean(name, hooks'[d][name].lines)
    /\ setting' = setting /\ (include' => include) /\ (opConfig' => opConfig)
    /\ yours' = yours /\ made' \subseteq made /\ (misled => misled')

\* A process that removes the directory removes files, and one that dies beside
\* a hook of the user's leaves its temporary file there.
FilesShrink(p) ==
    \/ files' = files
    \/ pc[p] \in RemovalSteps /\ \A f \in TemplateFiles : files'[f] \in {files[f], "absent"}
    \/ /\ Default \in made /\ \E name \in Names : yours[Default][name] # <<>>
       /\ files'["leftover"] = "stock" /\ \A f \in TemplateFiles \ {"leftover"} : files'[f] = files[f]

LEMMA UninstallsShrink ==
    ASSUME KeptInv, NEW p \in Procs, Acts(p), op[p] = "uninstall"
    PROVE  /\ Shrinks /\ FilesShrink(p)
           /\ opConfig' = opConfig \/ (pc[p] = "forget" /\ include' = include)
           /\ include' = include \/ (pc[p] = "unset" /\ opConfig' = opConfig)
<1>0. TypeOK /\ HooksInv /\ GlobalTypeOK /\ misled \in BOOLEAN  BY DEF KeptInv, HooksInv, GlobalTypeOK
<1>1. Moves(p)  BY ActsMoves
<1>2. CASE HookStep(p)
  <2>0. Step(p) /\ UNCHANGED <<setting, include, opConfig, files, misled>>
    BY <1>2, StepFrame DEF HookStep
  <2>1. pc[p] # "plan"  BY <1>0 DEF HooksInv, StepsInv
  <2>2. made' = made /\ yours' = yours  BY <1>1, <1>2, <2>1, StepFrame DEF Moves
  <2>3. ASSUME NEW file \in Files, Wrote(p, file), Fits(p, file),
               NEW d \in Dirs, NEW name \in Names, hooks'[d][name] # hooks[d][name]
        PROVE  Clean(name, hooks'[d][name].lines)
    <3>0. hooks \in [Dirs -> [Names -> Files]] /\ dir[p] \in Dirs /\ Name(p) \in Names
      BY <1>0, HookAt DEF TypeOK, Files
    <3>1. /\ hooks'[dir[p]][Name(p)] = file
          /\ d # dir[p] \/ name # Name(p) => hooks'[d][name] = hooks[d][name]
      BY <2>3, <3>0, WriteHook DEF Wrote
    <3>2. Clean(Name(p), file.lines)  BY <2>3 DEF Fits
    <3> QED  BY <2>3, <3>1, <3>2
  <2>4. \A d \in Dirs, name \in Names :
          hooks'[d][name] = hooks[d][name] \/ Clean(name, hooks'[d][name].lines)
    BY <1>0, <2>0, <2>3, StepWrites
  <2> QED  BY <2>0, <2>2, <2>4 DEF Shrinks, FilesShrink
<1>3. CASE GlobalFail(p) /\ Unobserved
  <2>1. Shrinks /\ UNCHANGED <<include, opConfig>>  BY <1>1, <1>3, FailFrame DEF Shrinks, Moves
  <2>2. FilesShrink(p)
    <3>1. CASE files' = files  BY <3>1 DEF FilesShrink
    <3>2. CASE files' # files
      <4>1. /\ pc[p] \in {"link", "rename"} /\ dir[p] = Default /\ Default \in made
            /\ files'["leftover"] = "stock" /\ \A f \in TemplateFiles \ {"leftover"} : files'[f] = files[f]
        BY <1>0, <1>3, <3>2, GlobalFailFrame
      <4>2. pc[p] = "rename"  BY <1>0, <4>1 DEF HooksInv, StepsInv
      <4>3. Reading(p) /\ Name(p) \in Names  BY <1>0, HooksInvParts, HookAt
      <4>4. yours[Default][Name(p)] # <<>>  BY <4>1, <4>2, <4>3 DEF Reading, Clean
      <4> QED  BY <4>1, <4>3, <4>4 DEF FilesShrink
    <3> QED  BY <3>1, <3>2
  <2> QED  BY <2>1, <2>2
<1>4. CASE GlobalStep(p) /\ Unobserved
  <2>1. AtOne(p) /\ yours' = yours  BY <1>1, <1>4, GlobalStepFrame DEF Moves
  <2>2. /\ setting' = setting
        /\ SameConfig \/ AtUnset(p) \/ AtForget(p)
        /\ hooks' = hooks \/ AtRemoveListedHook(p)
        /\ files' = files \/ AtRemoveFile(p)
        /\ made' \subseteq made /\ misled' \in {TRUE, misled}
    BY <1>0, <2>1, GlobalStepSummary DEF AtConfig, AtAdd, AtSeed, AtCopyStock
  <2>3. \A d \in Dirs, name \in Names :
          hooks'[d][name] = hooks[d][name] \/ Clean(name, hooks'[d][name].lines)
    <3>1. CASE hooks' = hooks  BY <3>1
    <3>2. CASE AtRemoveListedHook(p)
      <4>0. hooks \in [Dirs -> [Names -> Files]] /\ Default \in Dirs
        BY <1>0, TemplateDirs DEF TypeOK, Files
      <4>1. PICK name \in Names : hooks' = [hooks EXCEPT ![Default][name] = Absent]
        BY <3>2 DEF AtRemoveListedHook
      <4>2. /\ hooks'[Default][name] = Absent
            /\ \A d \in Dirs, other \in Names :
                 d # Default \/ other # name => hooks'[d][other] = hooks[d][other]
        BY <4>0, <4>1, AbsentFacts, WriteHook
      <4> QED  BY <4>2, AbsentFacts
    <3> QED  BY <2>2, <3>1, <3>2
  <2>4. /\ (include' => include) /\ (opConfig' => opConfig)
        /\ opConfig' = opConfig \/ (pc[p] = "forget" /\ include' = include)
        /\ include' = include \/ (pc[p] = "unset" /\ opConfig' = opConfig)
    BY <2>2 DEF SameConfig, AtUnset, AtForget
  <2>5. FilesShrink(p)
    <3>1. CASE AtRemoveFile(p)
      <4>1. pc[p] \in RemovalSteps  BY <3>1 DEF AtRemoveFile, RemovalSteps
      <4>2. \A f \in TemplateFiles : files'[f] \in {files[f], "absent"}  BY <1>0, <3>1, RemoveFacts
      <4> QED  BY <4>1, <4>2 DEF FilesShrink
    <3> QED  BY <2>2, <3>1 DEF FilesShrink
  <2>6. misled => misled'  BY <2>2
  <2>7. Shrinks  BY <2>1, <2>2, <2>3, <2>4, <2>6, Zenon DEF Shrinks
  <2> QED  BY <2>4, <2>5, <2>7
<1> QED  BY <1>2, <1>3, <1>4 DEF Acts

\* What is clean stays clean, and a clean template directory that holds
\* something git-op leaves there goes on doing so, because who removes it has
\* found nothing of the kind, and does not find it later.
LEMMA ShrinkingKeeps ==
    ASSUME KeptInv, KeptInv', NEW p \in Procs, Shrinks, FilesShrink(p),
           pc[p] \in RemovalSteps => Unmodified
    PROVE  /\ \A d \in Dirs : CleanDir(d) => CleanDir(d)'
           /\ CleanDir(Default) /\ TemplateGone => TemplateGone'
           /\ Unmodified /\ (\E q \in Procs : pc[q] \in RemovalSteps) => Unmodified'
<1>0. /\ Default \in Dirs /\ DOMAIN files = TemplateFiles /\ DOMAIN files' = TemplateFiles
      /\ "leftover" \in Foreign /\ Foreign \subseteq TemplateFiles
  BY TemplateDirs, FileFacts DEF KeptInv, HooksInv, GlobalTypeOK, TemplateFiles
<1>1. ASSUME NEW d \in Dirs, CleanDir(d) PROVE CleanDir(d)'
  BY <1>1 DEF CleanDir, Shrinks
<1>2. /\ Present = {f \in TemplateFiles : files[f] # "absent"}
      /\ Present' = {f \in TemplateFiles : files'[f] # "absent"}
  BY <1>0 DEF Present
<1>3. ASSUME CleanDir(Default), TemplateGone PROVE TemplateGone'
  <2>1. CASE ~TemplateExists
    <3>1. Default \notin made /\ \A f \in TemplateFiles : files[f] = "absent"
      BY <1>2, <2>1 DEF TemplateExists
    <3>2. Default \notin made' /\ \A f \in TemplateFiles : files'[f] = "absent"
      BY <3>1 DEF Shrinks, FilesShrink
    <3> QED  BY <1>2, <3>2 DEF TemplateGone, TemplateExists
  <2>2. CASE Present \cap Foreign # {}
    <3>1. PICK f \in Foreign : files[f] # "absent"  BY <1>2, <2>2
    <3>2. pc[p] \notin RemovalSteps  BY <2>2 DEF Unmodified
    <3>3. files'[f] # "absent" \/ files'["leftover"] # "absent"  BY <1>0, <3>1, <3>2 DEF FilesShrink
    <3> QED  BY <1>0, <1>2, <3>3 DEF TemplateGone
  <2>3. CASE ~HooksGone
    <3>1. PICK name \in Names : hooks[Default][name] # Absent  BY <2>3 DEF HooksGone
    <3>2. Fitting(Default, name) /\ Fitting(Default, name)'
      <4>1. HooksInv /\ HooksInv'  BY DEF KeptInv
      <4>2. HooksInv' => \A d \in Dirs, other \in Names : Fitting(d, other)'
        BY DEF HooksInv, TypeOK, ShapeInv, YoursKept, Fitting
      <4> QED  BY <1>0, <4>1, <4>2, FittingHooks
    <3>3. yours[Default][name] # <<>>  BY <1>3, <3>1, <3>2 DEF CleanDir, Clean, Fitting
    <3>4. hooks'[Default][name] # Absent
      <4>1. Yours(hooks'[Default][name].lines) # <<>>  BY <3>2, <3>3 DEF Fitting, Shrinks
      <4> QED  BY <4>1, AbsentFacts
    <3> QED  BY <3>4 DEF TemplateGone, HooksGone
  <2> QED  BY <1>3, <2>1, <2>2, <2>3 DEF TemplateGone
<1>4. ASSUME Unmodified, NEW q \in Procs, pc[q] \in RemovalSteps PROVE Unmodified'
  <2>1. \A name \in Names : yours[Default][name] = <<>>  BY <1>4 DEF KeptInv, TemplateInv
  <2>2. \A f \in TemplateFiles : files'[f] \in {files[f], "absent"}  BY <2>1 DEF FilesShrink
  <2> QED  BY <1>0, <1>2, <1>4, <2>2 DEF Unmodified
<1> QED  BY <1>1, <1>3, <1>4

-----------------------------------------------------------------------------
(* What an uninstall has done, while there are only uninstalls beside it.     *)

\* Where it has yet to clean: the directory it is at, and those it will get to.
Ahead(p, d) ==
    \/ pc[p] \in HookSteps /\ dir[p] = d
    \/ pc[p] = "query" /\ d = TemplateDir
    \/ d = Default /\ opConfig
       /\ (pc[p] \in {"query", "claimed"} \/ (pc[p] \in HookSteps /\ then[p] = "claimed"))

Cleaning(p) ==
    /\ pc[p] \in HookSteps /\ at[p] = 2 => failed[p] \/ Clean(All[1], hooks[dir[p]][All[1]].lines)
    /\ \A d \in targets[p] : CleanDir(d) \/ Ahead(p, d)
    /\ pc[p] \in {"check", "unset", "forget"} \cup RemovalSteps /\ opConfig => CleanDir(Default)
    /\ pc[p] \in RemovalSteps => Unmodified
    /\ pc[p] \in {"unset", "forget"} /\ opConfig /\ ~misled => TemplateGone
    /\ Default \in targets[p] \ {UserTemplate} /\ ~opConfig =>
          CleanDir(Default) /\ (~misled => TemplateGone)
    /\ pc[p] = "forget" => ~include
    /\ pc[p] = "idle" /\ global[p] => ~include /\ ~opConfig
Active(p) == pc[p] # "idle" \/ outcome[p] = "ok"
UninstallInv ==
    \A p \in Procs : quiet[p] /\ op[p] = "uninstall" /\ Active(p) => Cleaning(p)

\* The steps of others.
LEMMA OthersKeepUninstall ==
    ASSUME KeptInv, KeptInv', QuietInv, UninstallInv, NEW p \in Procs, Acts(p),
           NEW q \in Procs \ {p}, quiet[q], op[q] = "uninstall", Active(q)
    PROVE  Cleaning(q)'
<1>0. /\ TypeOK /\ dir[q] \in Dirs /\ targets[q] \subseteq Dirs /\ All[1] \in Names /\ Default \in Dirs
      /\ include \in BOOLEAN /\ opConfig \in BOOLEAN /\ include' \in BOOLEAN /\ opConfig' \in BOOLEAN
  BY HookAt, AllFacts, TemplateDirs DEF KeptInv, HooksInv, TypeOK, GlobalTypeOK
<1>1. Moves(p)  BY ActsMoves
<1>2. /\ pc'[q] = pc[q] /\ at'[q] = at[q] /\ failed'[q] = failed[q] /\ outcome'[q] = outcome[q]
      /\ dir'[q] = dir[q] /\ then'[q] = then[q] /\ targets' = targets /\ global' = global
  BY <1>1 DEF Moves, Same
<1>3. op[p] = "uninstall" /\ quiet[p] /\ pc[p] # "idle"  BY <1>1 DEF Moves, QuietInv
<1>4. Cleaning(p) /\ Cleaning(q)  BY <1>3 DEF UninstallInv, Active
<1>5. /\ Shrinks /\ FilesShrink(p) /\ (~misled' => ~misled)
      /\ opConfig' = opConfig \/ pc[p] = "forget"
      /\ include' = include \/ pc[p] = "unset"
  BY <1>3, UninstallsShrink DEF Shrinks
<1>6. /\ \A d \in Dirs : CleanDir(d) => CleanDir(d)'
      /\ CleanDir(Default) /\ TemplateGone => TemplateGone'
      /\ Unmodified /\ (\E r \in Procs : pc[r] \in RemovalSteps) => Unmodified'
  BY <1>4, <1>5, ShrinkingKeeps DEF Cleaning
<1>7. /\ opConfig /\ ~opConfig' => CleanDir(Default) /\ (~misled => TemplateGone)
      /\ include /\ ~include' /\ opConfig => CleanDir(Default)
  <2>1. /\ opConfig /\ ~opConfig' => pc[p] = "forget"
        /\ include /\ ~include' => pc[p] = "unset"
    BY <1>0, <1>5
  <2> QED  BY <1>4, <2>1 DEF Cleaning
<1>8. setting' = setting /\ (include' => include) /\ (opConfig' => opConfig)  BY <1>5 DEF Shrinks
<1>9. pc'[q] \in HookSteps /\ at'[q] = 2 => failed'[q] \/ Clean(All[1], hooks'[dir'[q]][All[1]].lines)
  <2>1. \/ hooks'[dir[q]][All[1]] = hooks[dir[q]][All[1]]
        \/ Clean(All[1], hooks'[dir[q]][All[1]].lines)
    BY <1>0, <1>5 DEF Shrinks
  <2> QED  BY <1>2, <1>4, <2>1 DEF Cleaning
<1>10. ASSUME NEW d \in targets[q] PROVE CleanDir(d)' \/ Ahead(q, d)'
  <2>1. CASE CleanDir(d)  BY <1>0, <1>6, <2>1
  <2>2. CASE pc[q] \in HookSteps /\ dir[q] = d  BY <1>2, <2>2 DEF Ahead
  <2>3. CASE pc[q] = "query" /\ d = TemplateDir
    <3>1. CASE TemplateDir' = TemplateDir  BY <1>2, <2>3, <3>1 DEF Ahead
    <3>2. CASE TemplateDir' # TemplateDir
      <4>1. include /\ opConfig /\ setting # "after" /\ ~ (include' /\ opConfig')
        BY <1>8, <3>2 DEF TemplateDir
      <4>2. d = Default  BY <2>3, <4>1 DEF TemplateDir
      <4>3. CleanDir(Default)  BY <1>7, <4>1
      <4> QED  BY <1>0, <1>6, <4>2, <4>3
    <3> QED  BY <3>1, <3>2
  <2>4. CASE d = Default /\ opConfig
             /\ (pc[q] \in {"query", "claimed"} \/ (pc[q] \in HookSteps /\ then[q] = "claimed"))
    <3>1. CASE opConfig'  BY <1>2, <2>4, <3>1 DEF Ahead
    <3>2. CASE ~opConfig'  BY <1>0, <1>6, <1>7, <2>4, <3>2
    <3> QED  BY <3>1, <3>2
  <2>5. CleanDir(d) \/ Ahead(q, d)  BY <1>4 DEF Cleaning
  <2> QED  BY <2>1, <2>2, <2>3, <2>4, <2>5 DEF Ahead
<1>11. /\ pc'[q] \in {"check", "unset", "forget"} \cup RemovalSteps /\ opConfig' => CleanDir(Default)'
       /\ pc'[q] \in RemovalSteps => Unmodified'
       /\ pc'[q] \in {"unset", "forget"} /\ opConfig' /\ ~misled' => TemplateGone'
  BY <1>0, <1>2, <1>4, <1>5, <1>6, <1>8 DEF Cleaning
<1>12. Default \in targets'[q] \ {UserTemplate} /\ ~opConfig' =>
         CleanDir(Default)' /\ (~misled' => TemplateGone')
  BY <1>0, <1>2, <1>4, <1>5, <1>6, <1>7 DEF Cleaning
<1>13. /\ pc'[q] = "forget" => ~include'
       /\ pc'[q] = "idle" /\ global'[q] => ~include' /\ ~opConfig'
  BY <1>2, <1>4, <1>8 DEF Cleaning
<1> QED  BY <1>2, <1>9, <1>10, <1>11, <1>12, <1>13 DEF Cleaning

\* An uninstall that is done with a hook has left nothing of git-op's in it, or
\* has failed.
LEMMA UninstallJudged ==
    ASSUME KeptInv, NEW p \in Procs, op[p] = "uninstall", NEW ok \in BOOLEAN, Judged(p, ok), ok
    PROVE  Clean(Name(p), hooks'[dir[p]][Name(p)].lines)
<1> DEFINE here == File(p)
           name == Name(p)
           next == hooks'[dir[p]][name]
<1>0. /\ TypeOK /\ dir[p] \in Dirs /\ name \in Names /\ here = hooks[dir[p]][name]
      /\ hooks \in [Dirs -> [Names -> Files]] /\ here.lines \in Seq(Lines) /\ contents[p] \in Seq(Lines)
  BY HookAt DEF KeptInv, HooksInv, TypeOK, Files
<1>1. ASSUME NEW file \in Files, Wrote(p, file) PROVE next = file
  BY <1>0, <1>1, WriteHook DEF Wrote
<1>2. hooks' = hooks => next = here  BY <1>0
<1>3. pc[p] \notin {"plan", "link", "adopt", "executable"}
  <2>1. StepsInv  BY DEF KeptInv, HooksInv
  <2> QED  BY <2>1 DEF StepsInv
<1>4. Shape(name, here.lines)  BY <1>0 DEF KeptInv, HooksInv, ShapeInv
<1> HIDE DEF here, next, name
<1>5. CASE pc[p] = "rename" /\ WroteIf(p, ok, Executable(contents[p]))
  <2>1. Wrote(p, Executable(contents[p]))  BY <1>5 DEF WroteIf
  <2>2. Clean(name, contents[p])  BY <1>5 DEF KeptInv, HooksInv, ShapeInv, name
  <2>3. Executable(contents[p]) \in Files /\ Executable(contents[p]).lines = contents[p]
    BY <1>0, ExecutableFile, InstalledOf
  <2> QED  BY <1>1, <2>1, <2>2, <2>3 DEF next, name
<1>6. CASE /\ hooks' = hooks
           /\ ~ IsText(here.lines) \/ (Owned(here.lines) = {} /\ ~ IsLegacy(name, here.lines))
  <2>1. CASE Owned(here.lines) = {} /\ ~ IsLegacy(name, here.lines)
    BY <1>2, <1>4, <1>6, <2>1 DEF Shape, Clean, next, name
  <2>2. CASE ~ IsText(here.lines)
    <3>1. here.lines = <<"binary">>  BY <1>4, <2>2 DEF Shape
    <3>2. ToSet(here.lines) = {"binary"}  BY <3>1, ShortHooks DEF Lines
    <3>3. Owned(here.lines) = {}  BY <1>0, <3>2, OwnedIn, OwnedLinesFacts
    <3>4. ~ IsLegacy(name, here.lines)
      <4>1. "legacy" \in Lines  BY DEF Lines
      <4>2. ToSet(<<"legacy">>) = {"legacy"}  BY <4>1, ShortHooks
      <4> QED  BY <3>2, <4>2 DEF IsLegacy
    <3> QED  BY <2>1, <3>3, <3>4
  <2> QED  BY <1>6, <2>1, <2>2
<1>7. CASE Wrote(p, Absent)  BY <1>1, <1>7, AbsentFacts DEF next, name
<1> QED  BY <1>3, <1>5, <1>6, <1>7 DEF Judged, here, name

\* The steps of its own, at the hooks ...
LEMMA StepKeepsUninstall ==
    ASSUME KeptInv, KeptInv', PlaceInv, UninstallInv, NEW p \in Procs, HookStep(p),
           quiet[p], op[p] = "uninstall", Active(p)'
    PROVE  Cleaning(p)'
<1>0. /\ TypeOK /\ dir[p] \in Dirs /\ targets[p] \subseteq Dirs /\ Default \in Dirs
      /\ All[1] \in Names /\ All[2] \in Names /\ \A name \in Names : name = All[1] \/ name = All[2]
  BY HookAt, AllFacts, TemplateDirs DEF KeptInv, HooksInv, TypeOK
<1>1. /\ Stepped(p) /\ pc[p] \in HookSteps /\ dir' = dir /\ then' = then
      /\ targets' = targets /\ global' = global
      /\ UNCHANGED <<setting, include, opConfig, misled>> /\ TemplateDir' = TemplateDir
  BY StepFrame DEF Moves, TemplateDir
<1>2. Acts(p)  BY DEF Acts
<1>3. Cleaning(p)  BY <1>1 DEF UninstallInv, Active, HookSteps
<1>4. Shrinks /\ FilesShrink(p)  BY <1>2, UninstallsShrink
<1>5. /\ \A d \in Dirs : CleanDir(d) => CleanDir(d)'
      /\ CleanDir(Default) /\ TemplateGone => TemplateGone'
  BY <1>3, <1>4, ShrinkingKeeps DEF Cleaning
<1>6. Default \in targets'[p] \ {UserTemplate} /\ ~opConfig' =>
        CleanDir(Default)' /\ (~misled' => TemplateGone')
  BY <1>0, <1>1, <1>3, <1>5 DEF Cleaning
<1>7. CASE pc'[p] \in HookSteps
  <2>1. at'[p] = 2 => failed'[p] \/ Clean(All[1], hooks'[dir[p]][All[1]].lines)
    <3>1. ASSUME NEW ok \in BOOLEAN, NextOne(p, ok), Judged(p, ok)
          PROVE  failed'[p] \/ Clean(All[1], hooks'[dir[p]][All[1]].lines)
      <4>1. Name(p) = All[1] /\ failed'[p] = (failed[p] \/ ~ ok)  BY <3>1 DEF NextOne, Name
      <4>2. ok => Clean(All[1], hooks'[dir[p]][All[1]].lines)  BY <3>1, <4>1, UninstallJudged
      <4> QED  BY <4>1, <4>2
    <3>2. ASSUME NEW step \in HookSteps, Stay(p, step), Moved(p, step), at'[p] = 2
          PROVE  failed'[p] \/ Clean(All[1], hooks'[dir[p]][All[1]].lines)
      <4>1. at[p] = 2 /\ failed'[p] = failed[p] /\ hooks' = hooks  BY <3>2 DEF Stay, Moved
      <4> QED  BY <1>1, <1>3, <4>1 DEF Cleaning
    <3>3. ASSUME NEW ok \in BOOLEAN, AfterLast(p, ok) PROVE at'[p] = 1
      BY <3>3 DEF AfterLast
    <3> QED  BY <1>1, <3>1, <3>2, <3>3 DEF Stepped
  <2>2. ASSUME NEW d \in targets[p] PROVE CleanDir(d)' \/ Ahead(p, d)'
    <3>1. Ahead(p, d) => Ahead(p, d)'  BY <1>1, <1>7 DEF Ahead, HookSteps
    <3> QED  BY <1>0, <1>3, <1>5, <3>1 DEF Cleaning
  <2> QED  BY <1>1, <1>6, <1>7, <2>1, <2>2 DEF Cleaning, HookSteps, RemovalSteps
<1>8. CASE pc'[p] \notin HookSteps
  <2>1. PICK ok \in BOOLEAN : AfterLast(p, ok) /\ Judged(p, ok)
    <3>1. First(op[p]) \in HookSteps  BY DEF First, HookSteps
    <3> QED  BY <1>1, <1>8, <3>1 DEF Stepped, NextOne, Stay
  <2>2. /\ at[p] = 2 /\ ok /\ ~ failed[p]
        /\ \/ then[p] # "idle" /\ pc'[p] = then[p]
           \/ then[p] = "idle" /\ pc'[p] = "idle"
    BY <2>1 DEF AfterLast, Active
  <2>3. Clean(All[2], hooks'[dir[p]][All[2]].lines)
    <3>1. Name(p) = All[2]  BY <2>2 DEF Name
    <3> QED  BY <2>1, <2>2, <3>1, UninstallJudged
  <2>4. Clean(All[1], hooks'[dir[p]][All[1]].lines)
    <3>1. Clean(All[1], hooks[dir[p]][All[1]].lines)  BY <1>1, <1>3, <2>2 DEF Cleaning
    <3>2. \/ hooks'[dir[p]][All[1]] = hooks[dir[p]][All[1]]
          \/ Clean(All[1], hooks'[dir[p]][All[1]].lines)
      BY <1>0, <1>4 DEF Shrinks
    <3> QED  BY <3>1, <3>2
  <2>5. CleanDir(dir[p])'
    <3>1. \A name \in Names : Clean(name, hooks'[dir[p]][name].lines)  BY <1>0, <2>3, <2>4
    <3> QED  BY <1>1, <3>1 DEF CleanDir
  <2>6. then[p] \in {"idle", "claimed", "check"} /\ (then[p] = "check" => dir[p] = Default)
        /\ (then[p] = "idle" => ~ global[p])
    BY <1>1 DEF KeptInv, ConfigInv, ControlInv, PlaceInv, Place
  <2>7. ASSUME NEW d \in targets[p] PROVE CleanDir(d)' \/ Ahead(p, d)'
    <3>0. CASE CleanDir(d)  BY <1>0, <1>5, <3>0
    <3>1. CASE dir[p] = d  BY <1>1, <2>5, <3>1
    <3>2. CASE d = Default /\ opConfig /\ then[p] = "claimed"
      <4>1. pc'[p] = "claimed" /\ opConfig'  BY <1>1, <2>2, <3>2
      <4> QED  BY <3>2, <4>1 DEF Ahead
    <3>3. CleanDir(d) \/ Ahead(p, d)  BY <1>3 DEF Cleaning
    <3>4. pc[p] \notin {"query", "claimed"}  BY <1>1 DEF HookSteps
    <3> QED  BY <3>0, <3>1, <3>2, <3>3, <3>4 DEF Ahead
  <2> QED  BY <1>1, <1>6, <1>8, <2>2, <2>5, <2>6, <2>7 DEF Cleaning, RemovalSteps
<1> QED  BY <1>7, <1>8

\* ... and at the claim.
LEMMA GlobalStepKeepsUninstall ==
    ASSUME KeptInv, KeptInv', PlaceInv, UninstallInv, NEW p \in Procs, GlobalStep(p), Unobserved,
           quiet[p], op[p] = "uninstall", Active(p)'
    PROVE  Cleaning(p)'
<1>0. /\ TypeOK /\ targets[p] \subseteq Dirs /\ Default \in Dirs /\ "none" \notin Dirs
      /\ include \in BOOLEAN /\ opConfig \in BOOLEAN /\ misled \in BOOLEAN
  BY TemplateDirs DEF KeptInv, HooksInv, TypeOK, GlobalTypeOK
<1>1. /\ AtOne(p) /\ at' = at /\ targets' = targets /\ global' = global
      /\ pc[p] \in {"query"} \cup OnlyInstall \cup OnlyUninstall
  BY GlobalStepFrame DEF Moves
<1>2. pc[p] \notin HookSteps /\ pc[p] # "idle"  BY <1>1 DEF HookSteps, OnlyInstall, OnlyUninstall, RemovalSteps
<1>3. Cleaning(p) /\ at'[p] = 1  BY <1>1, <1>2 DEF UninstallInv, Active, PlaceInv, Place
<1>4. Acts(p)  BY DEF Acts
<1>5. Shrinks /\ FilesShrink(p) /\ (~misled' => ~misled)  BY <1>4, UninstallsShrink DEF Shrinks
<1>6. /\ \A d \in Dirs : CleanDir(d) => CleanDir(d)'
      /\ CleanDir(Default) /\ TemplateGone => TemplateGone'
      /\ Unmodified /\ (\E q \in Procs : pc[q] \in RemovalSteps) => Unmodified'
  BY <1>3, <1>5, ShrinkingKeeps DEF Cleaning
<1>7. \A d \in targets[p] : CleanDir(d) => CleanDir(d)'  BY <1>0, <1>6
<1>8. \A d \in targets[p] : CleanDir(d) \/ Ahead(p, d)  BY <1>3 DEF Cleaning
<1>9. Default \in targets[p] \ {UserTemplate} /\ ~opConfig =>
        CleanDir(Default)' /\ (~misled' => TemplateGone')
  BY <1>0, <1>3, <1>5, <1>6 DEF Cleaning
<1>10. CASE AtQuery(p)
  <2>1. /\ pc[p] = "query" /\ UNCHANGED <<include, opConfig>> /\ TemplateDir' = TemplateDir
        /\ \/ TemplateDir = "none" /\ pc'[p] = "claimed"
           \/ pc'[p] = "strip" /\ dir'[p] = TemplateDir /\ then'[p] = "claimed"
    BY <1>10 DEF AtQuery, WentTo, ToHooks, First, SameConfig, TemplateDir
  <2>2. ASSUME NEW d \in targets[p] PROVE CleanDir(d)' \/ Ahead(p, d)'
    <3>1. d \in Dirs /\ (CleanDir(d) \/ d = TemplateDir \/ (d = Default /\ opConfig))
      BY <1>0, <1>2, <1>8, <2>1 DEF Ahead
    <3>2. CASE CleanDir(d)  BY <1>7, <3>2
    <3>3. CASE d = TemplateDir  BY <1>0, <2>1, <3>1, <3>3 DEF Ahead, HookSteps
    <3>4. CASE d = Default /\ opConfig  BY <2>1, <3>4 DEF Ahead, HookSteps
    <3> QED  BY <3>1, <3>2, <3>3, <3>4
  <2>3. pc'[p] \notin {"check", "unset", "forget", "idle"} \cup RemovalSteps
    BY <2>1 DEF RemovalSteps
  <2>4. \A d \in targets'[p] : CleanDir(d)' \/ Ahead(p, d)'  BY <1>1, <2>2
  <2> QED  BY <1>1, <1>3, <1>9, <2>1, <2>3, <2>4 DEF Cleaning
<1>11. CASE AtClaimed(p)
  <2>1. /\ pc[p] = "claimed" /\ UNCHANGED <<include, opConfig>>
        /\ \/ opConfig /\ pc'[p] = "strip" /\ dir'[p] = Default /\ then'[p] = "check"
           \/ ~opConfig /\ pc'[p] = "unset"
    BY <1>11 DEF AtClaimed, WentTo, ToHooks, First, SameConfig
  <2>2. ASSUME NEW d \in targets[p] PROVE CleanDir(d)' \/ Ahead(p, d)'
    <3>1. CleanDir(d) \/ (d = Default /\ opConfig)  BY <1>2, <1>8, <2>1 DEF Ahead
    <3>2. CASE CleanDir(d)  BY <1>7, <3>2
    <3>3. CASE d = Default /\ opConfig  BY <2>1, <3>3 DEF Ahead, HookSteps
    <3> QED  BY <3>1, <3>2, <3>3
  <2>3. /\ pc'[p] \in {"check", "unset", "forget", "idle"} => pc'[p] = "unset" /\ ~opConfig'
        /\ pc'[p] \notin RemovalSteps
    BY <2>1 DEF RemovalSteps
  <2>4. \A d \in targets'[p] : CleanDir(d)' \/ Ahead(p, d)'  BY <1>1, <2>2
  <2> QED  BY <1>1, <1>3, <1>9, <2>1, <2>3, <2>4 DEF Cleaning
<1>12. CASE pc[p] \in {"check", "unset", "forget"} \cup RemovalSteps
  <2>0. pc[p] \notin {"query", "claimed"}  BY <1>12 DEF RemovalSteps
  <2>1. \A d \in targets[p] : CleanDir(d)'  BY <1>2, <1>7, <1>8, <2>0 DEF Ahead
  <2>2. opConfig => CleanDir(Default)'  BY <1>0, <1>3, <1>6, <1>12 DEF Cleaning
  <2>3. ASSUME UNCHANGED <<include, opConfig>>, pc'[p] \in {"unset"} \cup RemovalSteps,
               pc'[p] \in RemovalSteps => Unmodified', pc'[p] = "unset" /\ ~misled' => TemplateGone'
        PROVE  Cleaning(p)'
    <3>1. pc'[p] \notin HookSteps \cup {"forget", "idle"}  BY <2>3 DEF RemovalSteps, HookSteps
    <3> QED  BY <1>1, <1>9, <2>1, <2>2, <2>3, <3>1 DEF Cleaning
  <2>4. CASE AtCheck(p)
    <3>1. UNCHANGED <<hooks, made, files, include, opConfig>> /\ pc'[p] \in {"remove template", "unset"}
          /\ (pc'[p] = "remove template" => Unmodified)
          /\ (pc'[p] = "unset" /\ ~misled' => ~ (TemplateExists /\ Unmodified /\ HooksGone))
      BY <2>4 DEF AtCheck, WentTo, SameConfig, SameFiles
    <3>2. /\ Unmodified' <=> Unmodified
          /\ TemplateGone' <=> TemplateGone
      BY <3>1 DEF Unmodified, TemplateGone, TemplateExists, HooksGone, Present
    <3>3. pc'[p] = "unset" /\ ~misled' => TemplateGone'
      BY <3>1, <3>2 DEF TemplateGone, Unmodified
    <3> QED  BY <2>3, <3>1, <3>2, <3>3 DEF RemovalSteps
  <2>5. CASE AtRemoval(p)
    <3>1. /\ UNCHANGED <<include, opConfig>> /\ pc[p] \in RemovalSteps
          /\ pc'[p] \in {"unset", "idle"} \cup RemovalSteps
          /\ pc'[p] = "idle" => outcome'[p] # "ok"
      BY <2>5 DEF AtRemoval, AtListTemplate, AtRemoveFile, AtListHooks, AtRemoveListedHook,
         AtRemoveHooksDir, AtRemoveTemplate, Broke, WentTo, Ended, SameConfig, RemovalSteps
    <3>2. pc'[p] # "idle"  BY <3>1 DEF Active
    <3>3. pc'[p] = "unset" => TemplateGone'
      <4>1. CASE pc'[p] = "unset"
        <5>1. ~TemplateExists /\ UNCHANGED <<hooks, made, files>>
          BY <2>5, <4>1 DEF AtRemoval, AtListTemplate, AtRemoveFile, AtListHooks, AtRemoveListedHook,
             AtRemoveHooksDir, AtRemoveTemplate, Broke, WentTo, Ended, SameFiles
        <5> QED  BY <5>1 DEF TemplateGone, TemplateExists, Present
      <4> QED  BY <4>1
    <3>4. Unmodified'  BY <1>3, <1>6, <3>1 DEF Cleaning
    <3> QED  BY <2>3, <3>1, <3>2, <3>3, <3>4
  <2>6. CASE AtUnset(p)
    <3>1. include' = FALSE /\ opConfig' = opConfig /\ pc[p] = "unset" /\ pc'[p] = "forget"
      BY <2>6 DEF AtUnset, WentTo
    <3>2. opConfig /\ ~misled' => TemplateGone'  BY <1>3, <1>5, <1>6, <1>12, <3>1 DEF Cleaning
    <3> QED  BY <1>1, <1>3, <1>9, <2>1, <2>2, <3>1, <3>2 DEF Cleaning, HookSteps, RemovalSteps
  <2>7. CASE AtForget(p)
    <3>1. opConfig' = FALSE /\ include' = include /\ pc[p] = "forget" /\ pc'[p] = "idle"
      BY <2>7 DEF AtForget, Ended
    <3>2. opConfig /\ ~misled' => TemplateGone'  BY <1>3, <1>5, <1>6, <1>12, <3>1 DEF Cleaning
    <3>3. Default \in targets[p] \ {UserTemplate} => CleanDir(Default)' /\ (~misled' => TemplateGone')
      BY <1>0, <1>9, <2>2, <3>2
    <3>4. ~include'  BY <1>3, <3>1 DEF Cleaning
    <3> QED  BY <1>1, <1>3, <2>1, <3>1, <3>3, <3>4 DEF Cleaning, HookSteps, RemovalSteps
  <2> QED  BY <1>1, <1>12, <2>0, <2>4, <2>5, <2>6, <2>7
           DEF AtOne, AtQuery, AtClaimed, AtInstall, AtConfig, AtInclude, AtAdd, AtSeed, AtCopyStock,
               AtCopyFails, AtEndCopy
<1> QED  BY <1>1, <1>10, <1>11, <1>12
         DEF AtOne, AtInstall, AtConfig, AtInclude, AtAdd, AtSeed, AtCopyStock, AtCopyFails, AtEndCopy,
             AtCheck, AtRemoval, AtListTemplate, AtRemoveFile, AtListHooks, AtRemoveListedHook,
             AtRemoveHooksDir, AtRemoveTemplate, AtUnset, AtForget, RemovalSteps

\* What it has done depends on the process and on the hooks and the claim.
LEMMA SameCleaning ==
    ASSUME NEW q \in Procs, Cleaning(q), UNCHANGED <<hooks, made, setting, include, opConfig, files, misled>>,
           pc'[q] = pc[q], at'[q] = at[q], failed'[q] = failed[q], dir'[q] = dir[q],
           then'[q] = then[q], targets'[q] = targets[q], global'[q] = global[q]
    PROVE  Cleaning(q)'
<1>1. /\ \A d : CleanDir(d)' <=> CleanDir(d)
      /\ TemplateGone' <=> TemplateGone
      /\ Unmodified' <=> Unmodified
      /\ TemplateDir' = TemplateDir
  BY DEF CleanDir, TemplateGone, TemplateDir, TemplateExists, HooksGone, Unmodified, Present
<1>2. \A d : Ahead(q, d) => Ahead(q, d)'  BY <1>1 DEF Ahead
<1>3. \A d \in targets'[q] : CleanDir(d)' \/ Ahead(q, d)'  BY <1>1, <1>2 DEF Cleaning
<1>4. /\ pc'[q] \in HookSteps /\ at'[q] = 2 =>
            failed'[q] \/ Clean(All[1], hooks'[dir'[q]][All[1]].lines)
      /\ pc'[q] \in {"check", "unset", "forget"} \cup RemovalSteps /\ opConfig' => CleanDir(Default)'
      /\ pc'[q] \in RemovalSteps => Unmodified'
      /\ pc'[q] \in {"unset", "forget"} /\ opConfig' /\ ~misled' => TemplateGone'
      /\ Default \in targets'[q] \ {UserTemplate} /\ ~opConfig' =>
            CleanDir(Default)' /\ (~misled' => TemplateGone')
      /\ pc'[q] = "forget" => ~include'
      /\ pc'[q] = "idle" /\ global'[q] => ~include' /\ ~opConfig'
  BY <1>1 DEF Cleaning
<1> QED  BY <1>3, <1>4 DEF Cleaning

LEMMA UninstallStep ==
    ASSUME KeptInv, PlaceInv, QuietInv, UninstallInv, [GlobalNext]_globalVars
    PROVE  UninstallInv'
<1>0. TypeOK /\ KeptInv' /\ Default \notin LocalDirs /\ LocalDirs \subseteq Dirs
  BY KeptStep, TemplateDirs, DirsAssumption DEF KeptInv, HooksInv
<1>1. CASE UserActs  BY <1>1, UsersFrame DEF UninstallInv
<1>2. ASSUME NEW p \in Procs, NEW isGlobal \in BOOLEAN, Starts(p, isGlobal) PROVE UninstallInv'
  <2>1. Started(p, isGlobal)  BY <1>2, StartsFrame
  <2>2. UNCHANGED <<hooks, made, at, failed, setting, include, opConfig, files, misled>>
        /\ TemplateDir' = TemplateDir /\ at'[p] = 1
    <3>1. at[p] = 1  BY <2>1 DEF Started, PlaceInv, Place, HookSteps
    <3> QED  BY <2>1, <3>1 DEF Started, TemplateDir
  <2>3. ASSUME NEW q \in Procs \ {p}, quiet'[q], op'[q] = "uninstall", Active(q)'
        PROVE  Cleaning(q)'
    <3>1. /\ pc'[q] = pc[q] /\ op'[q] = op[q] /\ dir'[q] = dir[q] /\ then'[q] = then[q]
          /\ targets'[q] = targets[q] /\ global'[q] = global[q]
          /\ quiet[q] /\ outcome'[q] = outcome[q]
      BY <2>1, <2>3 DEF Started
    <3>2. Active(q)  BY <2>3, <3>1 DEF Active
    <3>3. Cleaning(q)  BY <2>3, <3>1, <3>2 DEF UninstallInv
    <3> QED  BY <2>2, <3>1, <3>3, SameCleaning
  <2>4. ASSUME op'[p] = "uninstall" PROVE Cleaning(p)'
    <3>0. at'[p] # 2  BY <2>2
    <3>1. CASE ~ isGlobal
      <4>1. PICK d \in LocalDirs : dir'[p] = d /\ targets'[p] = {d}  BY <2>1, <3>1 DEF Started
      <4>2. pc'[p] = "strip"  BY <2>1, <2>4, <3>1 DEF Started, First
      <4>3. \A e \in targets'[p] : Ahead(p, e)'  BY <4>1, <4>2 DEF Ahead, HookSteps
      <4>4. Default \notin targets'[p]  BY <1>0, <4>1
      <4> QED  BY <3>0, <4>2, <4>3, <4>4 DEF Cleaning, RemovalSteps
    <3>2. CASE isGlobal
      <4>1. /\ pc'[p] = "query"
            /\ targets'[p] = (Dirs \cap {TemplateDir}) \cup (IF opConfig THEN {Default} ELSE {})
        BY <2>1, <3>2 DEF Started
      <4>2. ASSUME NEW e \in targets'[p] PROVE Ahead(p, e)'
        <5>1. e = TemplateDir \/ (e = Default /\ opConfig)  BY <4>1
        <5> QED  BY <2>2, <4>1, <5>1 DEF Ahead
      <4>3. Default \in targets'[p] \ {UserTemplate} => opConfig'
        <5>1. Default # UserTemplate /\ TemplateDir = Default => opConfig
          BY TemplatesAssumption DEF TemplateDir
        <5> QED  BY <2>2, <4>1, <5>1
      <4>4. \A e \in targets'[p] : CleanDir(e)' \/ Ahead(p, e)'  BY <4>2
      <4>5. pc'[p] \notin HookSteps  BY <4>1 DEF HookSteps
      <4> QED  BY <4>1, <4>3, <4>4, <4>5 DEF Cleaning, RemovalSteps
    <3> QED  BY <3>1, <3>2
  <2> QED  BY <2>3, <2>4 DEF UninstallInv
<1>3. ASSUME NEW p \in Procs, Acts(p) PROVE UninstallInv'
  <2>1. Moves(p)  BY <1>3, ActsMoves
  <2>2. ASSUME NEW q \in Procs \ {p}, quiet[q], op[q] = "uninstall", Active(q)' PROVE Cleaning(q)'
    <3>1. Active(q)  BY <2>1, <2>2 DEF Moves, Same, Active
    <3> QED  BY <1>0, <1>3, <2>2, <3>1, OthersKeepUninstall
  <2>3. ASSUME quiet[p], op[p] = "uninstall", Active(p)' PROVE Cleaning(p)'
    <3>1. CASE HookStep(p)
      BY <1>0, <2>3, <3>1, StepKeepsUninstall
    <3>2. CASE GlobalFail(p) /\ Unobserved  BY <2>3, <3>2, FailFrame DEF Active
    <3>3. CASE GlobalStep(p) /\ Unobserved  BY <1>0, <2>3, <3>3, GlobalStepKeepsUninstall
    <3> QED  BY <1>3, <3>1, <3>2, <3>3 DEF Acts
  <2>4. quiet' = quiet /\ op' = op  BY <2>1 DEF Moves
  <2> QED  BY <2>2, <2>3, <2>4 DEF UninstallInv
<1>4. CASE UNCHANGED globalVars
  <2>1. /\ UNCHANGED <<hooks, made, pc, op, dir, then, targets, at, failed, quiet, outcome, global>>
        /\ UNCHANGED <<setting, include, opConfig, files, misled>>
    BY <1>4 DEF globalVars, vars, command, locals, config, work
  <2>2. \A q \in Procs : Cleaning(q) => Cleaning(q)'  BY <2>1, SameCleaning
  <2> QED  BY <2>1, <2>2 DEF UninstallInv, Active
<1> QED  BY <1>1, <1>2, <1>3, <1>4, Actions

-----------------------------------------------------------------------------
(* The stock templates of a directory that Git is pointed at.                 *)

\* A process that copies finds those it has copied, as long as none removes them.
Copying(p) == pc[p] = "copy" /\ Default \in made /\ \A f \in StockFiles \ left[p] : files[f] # "absent"
SeedInv ==
    failures = 0 /\ ~brokenOff /\ include =>
        \/ Filled
        \/ \E p \in Procs : pc[p] \in {"seed", "unset"} \cup RemovalSteps
        \/ \E p \in Procs : Copying(p)

LEMMA GlobalStepKeepsSeed ==
    ASSUME KeptInv, SeedInv, NEW p \in Procs, GlobalStep(p), Unobserved
    PROVE  SeedInv'
<1>0. TypeOK /\ GlobalTypeOK /\ ControlInv /\ TemplateInv /\ StockFiles \subseteq TemplateFiles
      /\ left \in [Procs -> SUBSET Entries]
  BY FileFacts DEF KeptInv, HooksInv, ConfigInv, GlobalTypeOK, Entries, TemplateFiles
<1>1. /\ AtOne(p) /\ failures' = failures
      /\ \A q \in Procs \ {p} : pc'[q] = pc[q] /\ left'[q] = left[q]
  <2>1. GlobalFrame(p) /\ AtOne(p)  BY <1>0, GlobalSteps
  <2> QED  BY <1>0, <2>1, LeftFacts DEF GlobalFrame
<1>2. ~brokenOff' => ~brokenOff
  <2>1. brokenOff' \in {TRUE, brokenOff}  BY <1>0, <1>1, GlobalStepSummary
  <2> QED  BY <2>1
<1>3. ASSUME include' => include, Default \in made => Default \in made',
             \A f \in StockFiles : files[f] # "absent" => files'[f] # "absent",
             pc[p] \notin {"seed", "unset"} \cup RemovalSteps,
             Copying(p) => Copying(p)' \/ Filled \/ \E q \in Procs \ {p} : pc[q] \in RemovalSteps
      PROVE  SeedInv'
  <2>1. Filled => Filled'  BY <1>3 DEF Filled
  <2>2. \A q \in Procs \ {p} : Copying(q) => Copying(q)'  BY <1>1, <1>3 DEF Copying
  <2>3. \A q \in Procs : pc[q] \in {"seed", "unset"} \cup RemovalSteps =>
          pc'[q] \in {"seed", "unset"} \cup RemovalSteps
    BY <1>1, <1>3
  <2> QED  BY <1>1, <1>2, <1>3, <2>1, <2>2, <2>3 DEF SeedInv
<1>4. CASE AtAdd(p)
  <2>1. CASE pc'[p] = "seed"  BY <2>1 DEF SeedInv
  <2>2. CASE pc'[p] # "seed"
    <3>1. pc[p] = "add" /\ UNCHANGED <<include, made, files>>
      BY <1>4, <2>2 DEF AtAdd, WentTo, SameFiles
    <3> QED  BY <1>3, <3>1 DEF Copying, RemovalSteps
  <2> QED  BY <2>1, <2>2
<1>5. CASE AtSeed(p)
  <2>1. pc'[p] = "copy" /\ Default \in made' /\ left'[p] = StockFiles
    BY <1>0, <1>5 DEF AtSeed, WentTo, Listed
  <2> QED  BY <2>1 DEF SeedInv, Copying
<1>6. CASE AtCopyStock(p)
  <2>1. PICK f \in StockFiles :
          /\ f \in left[p] /\ left' = [left EXCEPT ![p] = left[p] \ {f}]
          /\ files'[f] = IF files[f] = "absent" THEN "stock" ELSE files[f]
          /\ \A g \in TemplateFiles \ {f} : files'[g] = files[g]
    BY <1>0, <1>6, CopyFacts
  <2>2. left'[p] = left[p] \ {f}  BY <1>0, <2>1
  <2>3. /\ files'[f] # "absent"
        /\ \A g \in StockFiles : files[g] # "absent" => files'[g] # "absent"
    BY <1>0, <2>1
  <2>4. /\ include' = include /\ pc[p] = "copy" /\ pc'[p] = "copy"
        /\ Default \in made => Default \in made'
    BY <1>6 DEF AtCopyStock, WentTo, SameConfig
  <2>5. Copying(p) => Copying(p)'  BY <2>2, <2>3, <2>4 DEF Copying
  <2> QED  BY <1>3, <2>3, <2>4, <2>5 DEF RemovalSteps
<1>7. CASE AtCopyFails(p)
  <2>1. /\ UNCHANGED <<include, made, files>> /\ pc[p] = "copy"
        /\ Removing # {} \/ Default \notin made
    BY <1>7 DEF AtCopyFails, SameConfig, SameFiles
  <2>2. Copying(p) => \E q \in Procs \ {p} : pc[q] \in RemovalSteps
    BY <2>1 DEF Copying, Removing, RemovalSteps
  <2> QED  BY <1>3, <2>1, <2>2 DEF RemovalSteps
<1>8. CASE AtEndCopy(p)
  <2>1. UNCHANGED <<include, made, files>> /\ pc[p] = "copy" /\ left[p] = {}
    BY <1>8 DEF AtEndCopy, SameConfig, SameFiles
  <2>2. Copying(p) => Filled  BY <2>1 DEF Copying, Filled
  <2> QED  BY <1>3, <2>1, <2>2 DEF RemovalSteps
<1>9. CASE AtRemoval(p)
  <2>1. brokenOff' = TRUE \/ pc'[p] \in {"unset"} \cup RemovalSteps
    BY <1>9 DEF AtRemoval, AtListTemplate, AtRemoveFile, AtListHooks, AtRemoveListedHook,
       AtRemoveHooksDir, AtRemoveTemplate, Broke, WentTo, RemovalSteps
  <2> QED  BY <2>1 DEF SeedInv
<1>10. CASE AtUnset(p)  BY <1>10 DEF AtUnset, SeedInv
<1>11. CASE AtQuery(p) \/ AtConfig(p) \/ AtInclude(p) \/ AtClaimed(p) \/ AtCheck(p) \/ AtForget(p)
  <2>1. /\ pc[p] \notin {"copy", "seed", "unset"} \cup RemovalSteps
        /\ UNCHANGED <<include, made, files>>
    BY <1>11 DEF AtQuery, AtConfig, AtInclude, AtClaimed, AtCheck, AtForget, SameConfig, SameFiles, RemovalSteps
  <2> QED  BY <1>3, <2>1 DEF Copying
<1> QED  BY <1>1, <1>4, <1>5, <1>6, <1>7, <1>8, <1>9, <1>10, <1>11 DEF AtOne, AtInstall

LEMMA SeedStep ==
    ASSUME KeptInv, SeedInv, [GlobalNext]_globalVars
    PROVE  SeedInv'
<1>0. GlobalTypeOK  BY DEF KeptInv
<1>1. CASE UserActs
  <2>1. /\ UNCHANGED <<pc, failures, include, left, brokenOff>> /\ made \subseteq made'
    BY <1>1, UsersFrame
  <2>2. \A f \in StockFiles : files[f] # "absent" => files'[f] # "absent"
    <3>1. files' = files \/ \E f \in DOMAIN files : files' = [files EXCEPT ![f] = "yours"]
      BY <1>0, <1>1 DEF UserActs, GlobalTypeOK, Foreign
    <3> QED  BY <1>0, <3>1 DEF GlobalTypeOK
  <2> QED  BY <2>1, <2>2 DEF SeedInv, Filled, Copying
<1>2. ASSUME NEW p \in Procs, NEW isGlobal \in BOOLEAN, Starts(p, isGlobal) PROVE SeedInv'
  <2>1. /\ UNCHANGED <<failures, include, files, made, left, brokenOff>> /\ pc[p] = "idle"
        /\ \A q \in Procs \ {p} : pc'[q] = pc[q]
    BY <1>2, StartsFrame DEF Started
  <2> QED  BY <2>1 DEF SeedInv, Filled, Copying, RemovalSteps
<1>3. ASSUME NEW p \in Procs, Acts(p) PROVE SeedInv'
  <2>1. \A q \in Procs \ {p} : pc'[q] = pc[q]  BY <1>3, ActsMoves DEF Moves, Same
  <2>2. CASE HookStep(p)
    <3>1. /\ pc[p] \in HookSteps /\ UNCHANGED <<failures, include, files, left, brokenOff>>
          /\ made \subseteq made'
      BY <2>2, StepFrame
    <3>2. pc[p] \notin {"copy", "seed", "unset"} \cup RemovalSteps  BY <3>1 DEF HookSteps, RemovalSteps
    <3> QED  BY <2>1, <3>1, <3>2 DEF SeedInv, Filled, Copying
  <2>3. CASE GlobalFail(p) /\ Unobserved  BY <2>3, FailFrame DEF SeedInv
  <2>4. CASE GlobalStep(p) /\ Unobserved  BY <2>4, GlobalStepKeepsSeed
  <2> QED  BY <1>3, <2>2, <2>3, <2>4 DEF Acts
<1>4. CASE UNCHANGED globalVars
  <2>1. UNCHANGED <<pc, failures, include, files, made, left, brokenOff>>
    BY <1>4 DEF globalVars, vars, boundVars, config, work
  <2> QED  BY <2>1 DEF SeedInv, Filled, Copying
<1> QED  BY <1>1, <1>2, <1>3, <1>4, Actions

-----------------------------------------------------------------------------
(* As long as git-op's command is in the hooks of the directory it claims,    *)
(* the claim is recorded.                                                     *)

OwnsDefault == \E name \in Names : Owned(hooks[Default][name].lines) # {}
AtDefault(p) == pc[p] \in HookSteps /\ op[p] = "install" /\ dir[p] = Default
OutliveInv ==
    ~overlapped /\ Default # UserTemplate /\ (OwnsDefault \/ \E p \in Procs : AtDefault(p)) => opConfig

LEMMA InstallsOutlive ==
    ASSUME KeptInv, OutliveInv, NEW p \in Procs, Acts(p), op[p] = "install", ~overlapped,
           Default # UserTemplate
    PROVE  OwnsDefault' \/ (\E q \in Procs : AtDefault(q)') => opConfig'
<1>0. TypeOK /\ ClaimInv /\ GlobalTypeOK /\ Default \in Dirs  BY TemplateDirs DEF KeptInv, HooksInv, ConfigInv
<1>1. Moves(p)  BY ActsMoves
<1>2. \A q \in Procs \ {p} : AtDefault(q)' => AtDefault(q)  BY <1>1 DEF Moves, Same, AtDefault
<1>3. CASE HookStep(p)
  <2>1. /\ Stepped(p) /\ pc[p] \in HookSteps /\ dir' = dir /\ op' = op /\ opConfig' = opConfig
    BY <1>3, StepFrame DEF Moves
  <2>2. AtDefault(p)' => AtDefault(p)  BY <2>1 DEF AtDefault
  <2>3. OwnsDefault' => OwnsDefault \/ AtDefault(p)
    <3>1. CASE hooks' = hooks  BY <3>1 DEF OwnsDefault
    <3>2. ASSUME NEW file \in Files, Wrote(p, file), dir[p] # Default PROVE hooks'[Default] = hooks[Default]
      <4>1. hooks \in [Dirs -> [Names -> Files]]  BY <1>0 DEF TypeOK, Files
      <4> QED  BY <1>0, <3>2, <4>1 DEF Wrote
    <3>3. hooks' = hooks \/ \E file \in Files : Wrote(p, file)
      <4>1. HooksInv  BY DEF KeptInv
      <4> QED  BY <1>3, <4>1, StepWrites DEF HookStep
    <3> QED  BY <2>1, <3>1, <3>2, <3>3 DEF OwnsDefault, AtDefault
  <2> QED  BY <1>2, <2>1, <2>2, <2>3 DEF OutliveInv
<1>4. CASE GlobalFail(p) /\ Unobserved
  <2>1. pc'[p] = "idle" /\ hooks' = hooks /\ opConfig' = opConfig  BY <1>4, FailFrame
  <2> QED  BY <1>2, <2>1 DEF OutliveInv, OwnsDefault, AtDefault, HookSteps
<1>5. CASE GlobalStep(p) /\ Unobserved
  <2>1. AtOne(p)  BY <1>5, GlobalStepFrame
  <2>2. hooks' = hooks /\ (opConfig => opConfig')
    BY <1>0, <2>1, GlobalStepSummary DEF AtRemoveListedHook, SameConfig, AtConfig, AtAdd, AtUnset, AtForget
  <2>3. AtDefault(p)' => opConfig'
    <3>1. CASE AtQuery(p)
      <4>1. TemplateDir = Default => opConfig  BY TemplatesAssumption DEF TemplateDir
      <4> QED  BY <2>2, <3>1, <4>1 DEF AtQuery, WentTo, ToHooks, AtDefault, HookSteps
    <3>2. CASE AtEndCopy(p)
      <4>1. opConfig  BY <1>0, <3>2 DEF AtEndCopy, ClaimInv
      <4> QED  BY <2>2, <4>1
    <3>3. AtDefault(p)' => AtQuery(p) \/ AtEndCopy(p)
      BY <2>1, HooksFollow DEF AtDefault, AtClaimed
    <3> QED  BY <3>1, <3>2, <3>3
  <2> QED  BY <1>2, <2>2, <2>3 DEF OutliveInv, OwnsDefault
<1> QED  BY <1>3, <1>4, <1>5 DEF Acts

LEMMA UninstallsOutlive ==
    ASSUME KeptInv, KeptInv', QuietInv, UninstallInv, OutliveInv, NEW p \in Procs, Acts(p),
           op[p] = "uninstall", ~overlapped, Default # UserTemplate
    PROVE  OwnsDefault' \/ (\E q \in Procs : AtDefault(q)') => opConfig'
<1>0. /\ TypeOK /\ ClaimInv /\ Default \in Dirs /\ op' = op
      /\ \A q \in Procs \ {p} : pc'[q] = pc[q] /\ dir'[q] = dir[q]
      /\ pc[p] # "idle"
  BY ActsMoves, TemplateDirs DEF KeptInv, HooksInv, ConfigInv, Moves, Same
<1>1. Shrinks /\ (opConfig' = opConfig \/ pc[p] = "forget")  BY UninstallsShrink
<1>2. \A q \in Procs : ~ AtDefault(q)'
  <2>1. ASSUME NEW q \in Procs, pc'[q] # "idle" PROVE op[q] = "uninstall"
    <3>1. pc[q] # "idle"  BY <1>0, <2>1
    <3> QED  BY <1>0, <3>1 DEF ClaimInv
  <2> QED  BY <1>0, <2>1 DEF AtDefault, HookSteps
<1>3. OwnsDefault' => OwnsDefault
  <2>1. ASSUME NEW name \in Names, Owned(hooks'[Default][name].lines) # {}
        PROVE  Owned(hooks[Default][name].lines) # {}
    <3>1. hooks'[Default][name] = hooks[Default][name] \/ Clean(name, hooks'[Default][name].lines)
      BY <1>0, <1>1 DEF Shrinks
    <3> QED  BY <2>1, <3>1 DEF Clean
  <2> QED  BY <2>1 DEF OwnsDefault
<1>4. OwnsDefault => opConfig' = opConfig
  <2>1. CASE pc[p] = "forget"
    <3>1. Cleaning(p)  BY <1>0, <2>1 DEF UninstallInv, Active, QuietInv
    <3>2. opConfig => CleanDir(Default)  BY <2>1, <3>1 DEF Cleaning
    <3>3. CleanDir(Default) => ~ OwnsDefault  BY DEF CleanDir, Clean, OwnsDefault
    <3> QED  BY <3>2, <3>3 DEF OutliveInv
  <2> QED  BY <1>1, <2>1
<1> QED  BY <1>2, <1>3, <1>4 DEF OutliveInv

LEMMA OutliveStep ==
    ASSUME KeptInv, QuietInv, UninstallInv, OutliveInv, [GlobalNext]_globalVars
    PROVE  OutliveInv'
<1> SUFFICES ASSUME Default # UserTemplate PROVE OutliveInv'
  BY DEF OutliveInv
<1>0. /\ TypeOK /\ KeptInv' /\ Default \in Dirs /\ Default \notin LocalDirs
      /\ \A p \in Procs : op[p] = "install" \/ op[p] = "uninstall"
  BY KeptStep, TemplateDirs DEF KeptInv, HooksInv, TypeOK
<1>1. CASE UserActs
  <2>1. UNCHANGED <<pc, opConfig, overlapped>> /\ \A p \in Procs : pc'[p] = "idle"
    BY <1>1, UsersFrame
  <2>2. CASE hooks' = hooks  BY <2>1, <2>2 DEF OutliveInv, OwnsDefault, AtDefault, HookSteps
  <2>3. ASSUME NEW d \in Dirs \cap (LocalDirs \cup {TemplateDir}), EditHook(d) PROVE OutliveInv'
    <3>1. CASE d = Default
      <4>1. TemplateDir = Default  BY <1>0, <2>3, <3>1
      <4>2. opConfig  BY <4>1, TemplatesAssumption DEF TemplateDir
      <4> QED  BY <2>1, <4>2 DEF OutliveInv
    <3>2. CASE d # Default
      <4>1. PICK name \in Names : \E file \in Written(name) : hooks' = [hooks EXCEPT ![d][name] = file]
        BY <2>3 DEF EditHook
      <4>2. hooks'[Default] = hooks[Default]  BY <1>0, <3>2, <4>1 DEF TypeOK
      <4> QED  BY <2>1, <4>2 DEF OutliveInv, OwnsDefault, AtDefault, HookSteps
    <3> QED  BY <3>1, <3>2
  <2> QED  BY <1>1, <2>2, <2>3 DEF UserActs
<1>2. ASSUME NEW p \in Procs, NEW isGlobal \in BOOLEAN, Starts(p, isGlobal) PROVE OutliveInv'
  <2>1. Started(p, isGlobal)  BY <1>2, StartsFrame
  <2>2. UNCHANGED <<hooks, opConfig>> /\ (overlapped => overlapped')
    BY <2>1 DEF Started
  <2>3. \A q \in Procs \ {p} : AtDefault(q)' => AtDefault(q)  BY <2>1 DEF Started, AtDefault
  <2>4. ~ AtDefault(p)'
    <3>1. CASE isGlobal
      <4>1. pc'[p] = "query"  BY <2>1, <3>1 DEF Started
      <4> QED  BY <4>1 DEF AtDefault, HookSteps
    <3>2. CASE ~ isGlobal
      <4>1. dir'[p] \in LocalDirs  BY <2>1, <3>2 DEF Started
      <4> QED  BY <1>0, <4>1 DEF AtDefault
    <3> QED  BY <3>1, <3>2
  <2> QED  BY <2>2, <2>3, <2>4 DEF OutliveInv, OwnsDefault
<1>3. ASSUME NEW p \in Procs, Acts(p) PROVE OutliveInv'
  <2>1. overlapped' = overlapped  BY <1>3, ActsMoves DEF Moves
  <2> QED  BY <1>0, <1>3, <2>1, InstallsOutlive, UninstallsOutlive DEF OutliveInv
<1>4. CASE UNCHANGED globalVars
  <2>1. UNCHANGED <<hooks, pc, op, dir, opConfig, overlapped>>
    BY <1>4 DEF globalVars, vars, command, config
  <2> QED  BY <2>1 DEF OutliveInv, OwnsDefault, AtDefault
<1> QED  BY <1>1, <1>2, <1>3, <1>4, Actions

-----------------------------------------------------------------------------
(* The theorems.                                                              *)

CommandInv ==
    /\ KeptInv /\ PlaceInv /\ QuietInv /\ InstallInv /\ TakesInv /\ UninstallInv
    /\ SeedInv /\ OutliveInv

LEMMA CommandInit == GlobalInit => CommandInv
<1> SUFFICES ASSUME GlobalInit PROVE CommandInv
  OBVIOUS
<1>1. /\ \A p \in Procs : pc[p] = "idle" /\ at[p] = 1 /\ failed[p] = FALSE /\ op[p] = "install"
                           /\ outcome[p] = "none" /\ quiet[p] = TRUE
      /\ include = FALSE /\ overlapped = FALSE
  BY DEF GlobalInit, Init
<1>2. \A name \in Names : hooks[Default][name] = Absent
  BY TemplatesAssumption DEF GlobalInit, Init
<1>3. ~ OwnsDefault  BY <1>2, AbsentFacts DEF OwnsDefault
<1>4. PlaceInv /\ QuietInv
  BY <1>1 DEF PlaceInv, Place, QuietInv, HookSteps, OnlyInstall, OnlyUninstall, RemovalSteps
<1>5. InstallInv /\ TakesInv /\ UninstallInv
  BY <1>1 DEF InstallInv, TakesInv, Taking, UninstallInv, HookSteps, OnlyInstall
<1>6. SeedInv /\ OutliveInv  BY <1>1, <1>3 DEF SeedInv, OutliveInv, AtDefault, HookSteps
<1> QED  BY <1>4, <1>5, <1>6, KeptInit DEF CommandInv

LEMMA CommandStep == CommandInv /\ [GlobalNext]_globalVars => CommandInv'
BY KeptStep, PlaceStep, QuietStep, InstallStep, TakesStep, UninstallStep, SeedStep, OutliveStep
   DEF CommandInv

\* Whatever installs run beside an install that runs to its end, and wherever
\* they die, it leaves git-op's command in every hook, once and executable, but
\* for those it reports it was refused: what it has just read of a hook either
\* still stands when it goes by it, or another install has done the work since.
THEOREM InstallsAttemptAll == GlobalSpec => []InstallAttemptsAll
<1>1. ASSUME CommandInv PROVE InstallAttemptsAll
  <2>1. ASSUME NEW p \in Procs, Completed(p, "install") PROVE Placed(p)
    BY <1>1, <2>1 DEF Completed, CommandInv, InstallInv, QuietInv
  <2> QED  BY <2>1 DEF InstallAttemptsAll, Placed, Attended
<1> QED  BY <1>1, CommandInit, CommandStep, PTL DEF GlobalSpec

\* An uninstall that succeeds beside other uninstalls has cleaned every
\* directory it set out for, though another may have taken back the claim that
\* led it there: that one cleaned the directory first.
THEOREM UninstallsRemoveAll == GlobalSpec => []UninstallRemovesAll
<1>1. ASSUME CommandInv PROVE UninstallRemovesAll
  <2>1. ASSUME NEW p \in Procs, Completed(p, "uninstall"), outcome[p] = "ok",
               NEW d \in targets[p], NEW name \in Names
        PROVE  Clean(name, hooks[d][name].lines)
    <3>1. pc[p] = "idle" /\ Cleaning(p)
      BY <1>1, <2>1 DEF Completed, CommandInv, UninstallInv, QuietInv, Active
    <3>2. ~ Ahead(p, d)  BY <3>1 DEF Ahead, HookSteps
    <3>3. CleanDir(d)  BY <3>1, <3>2 DEF Cleaning
    <3> QED  BY <3>3 DEF CleanDir
  <2> QED  BY <2>1 DEF UninstallRemovesAll, Clean
<1> QED  BY <1>1, CommandInit, CommandStep, PTL DEF GlobalSpec

\* A global install that runs to its end beside other installs has put its hooks
\* where Git looks for them, and Git goes on looking there: a directory once
\* found is never replaced by an install.
THEOREM InstallsTakeEffect == GlobalSpec => []InstallTakesEffect
<1>1. ASSUME CommandInv PROVE InstallTakesEffect
  <2>1. ASSUME NEW p \in Procs, Completed(p, "install"), global[p] PROVE TemplateDir = dir[p]
    BY <1>1, <2>1 DEF Completed, CommandInv, TakesInv, Taking, QuietInv
  <2> QED  BY <2>1 DEF InstallTakesEffect
<1> QED  BY <1>1, CommandInit, CommandStep, PTL DEF GlobalSpec

\* A global uninstall that succeeds beside other uninstalls leaves no claim, and
\* of the directory claimed nothing but what its user, or a process that was
\* killed, left there: as long as none was misled by another that was removing
\* the directory.
THEOREM UninstallsLeaveNothing == GlobalSpec => []UninstallLeavesNothing
<1>1. ASSUME CommandInv PROVE UninstallLeavesNothing
  <2>1. ASSUME NEW p \in Procs, Completed(p, "uninstall"), global[p], outcome[p] = "ok"
        PROVE  ~include /\ ~opConfig /\ (Default \in targets[p] \ {UserTemplate} /\ ~misled => TemplateGone)
    <3>1. pc[p] = "idle" /\ Cleaning(p)
      BY <1>1, <2>1 DEF Completed, CommandInv, UninstallInv, QuietInv, Active
    <3> QED  BY <2>1, <3>1 DEF Cleaning
  <2> QED  BY <2>1 DEF UninstallLeavesNothing, TemplateGone
<1> QED  BY <1>1, CommandInit, CommandStep, PTL DEF GlobalSpec

\* As long as no command died and no removal failed half-way, Git is never left
\* with a template directory that lacks a stock template: the include is there
\* only once the templates are, or while some command is on its way to copy them
\* or to take the directory and the include back, whichever of them overlap.
THEOREM ClaimsAreSeeded == GlobalSpec => []ClaimSeeded
<1>1. ASSUME CommandInv PROVE ClaimSeeded
  BY <1>1 DEF CommandInv, SeedInv, ClaimSeeded, Copying, RemovalSteps, Idle
<1> QED  BY <1>1, CommandInit, CommandStep, PTL DEF GlobalSpec

\* Until an install and an uninstall overlap, hooks of git-op's in the directory
\* it claims can be found by the claim, wherever commands die: it is recorded
\* before the first is written, and forgotten after the last has gone.  (Unless
\* that directory is the user's own, where git-op installs without a claim.)
THEOREM ClaimsOutliveHooks == GlobalSpec => []ClaimOutlivesHooks
<1>1. ASSUME CommandInv PROVE ClaimOutlivesHooks
  BY <1>1 DEF CommandInv, OutliveInv, OwnsDefault, ClaimOutlivesHooks
<1> QED  BY <1>1, CommandInit, CommandStep, PTL DEF GlobalSpec
=============================================================================
