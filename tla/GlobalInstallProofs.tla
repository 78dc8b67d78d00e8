------------------------- MODULE GlobalInstallProofs -------------------------
(* Theorems about GlobalInstall, for any number of processes and any hooks:   *)
(* in which order the claim on the template directory is made and taken back, *)
(* whenever commands die; the types; and that no line of a hook and no file   *)
(* that is a user's is lost.                                                  *)
EXTENDS GlobalInstall, HooksProofs

OnlyInstall == {"config", "include", "add", "seed", "copy"}
RemovalSteps == {"remove template", "remove entries", "empty hooks"}
OnlyUninstall == {"claimed", "check", "unset", "forget"} \cup RemovalSteps

\* Which steps the two commands take.
ControlInv ==
    /\ pc \in [Procs -> PCs] /\ op \in [Procs -> {"install", "uninstall"}] /\ DOMAIN then = Procs
    /\ \A p \in Procs :
        /\ pc[p] \in OnlyInstall => op[p] = "install"
        /\ pc[p] \in OnlyUninstall => op[p] = "uninstall"
        /\ pc[p] \in HookSteps =>
             then[p] = "idle" \/ (then[p] \in {"claimed", "check"} /\ op[p] = "uninstall")

\* The include is there only while what it names is, as long as no install and
\* uninstall have overlapped.
ClaimInv ==
    /\ include \in BOOLEAN
    /\ ~overlapped =>
        /\ include => opConfig
        /\ \A p \in Procs :
            /\ pc[p] \in {"include", "add", "seed", "copy"} => opConfig
            /\ pc[p] = "forget" => ~include
        /\ \A p, q \in Procs : pc[p] # "idle" /\ pc[q] # "idle" => op[p] = op[q]

ConfigInv == ControlInv /\ ClaimInv

-----------------------------------------------------------------------------
(* Control.                                                                   *)

LEMMA AfterSteps ==
    ASSUME NEW p \in Procs
    PROVE  /\ op[p] = "install" => /\ After(p, "config") = "include" /\ After(p, "include") = "seed"
                                   /\ After(p, "seed") = "hooks" /\ After(p, "hooks") = "idle"
           /\ op[p] = "uninstall" => /\ After(p, "hooks") = "check" /\ After(p, "check") = "unset"
                                     /\ After(p, "unset") = "forget" /\ After(p, "forget") = "idle"
<1> DEFINE Place(step) == CHOOSE i \in 1 .. 4 : Steps(p)[i] = step
<1>1. \A step : After(p, step) = IF Place(step) = 4 THEN "idle" ELSE Steps(p)[Place(step) + 1]
  BY DEF After
<1>2. ASSUME op[p] = "install"
      PROVE  /\ Place("config") = 1 /\ Place("include") = 2 /\ Place("seed") = 3
             /\ Place("hooks") = 4
  <2>1. Steps(p) = <<"config", "include", "seed", "hooks">>  BY <1>2 DEF Steps, InstallSteps
  <2> QED  BY <2>1
<1>3. ASSUME op[p] = "uninstall"
      PROVE  /\ Place("hooks") = 1 /\ Place("check") = 2 /\ Place("unset") = 3
             /\ Place("forget") = 4
  <2>1. Steps(p) = <<"hooks", "check", "unset", "forget">>  BY <1>3 DEF Steps, UninstallSteps
  <2> QED  BY <2>1
<1> HIDE DEF Place
<1>4. ASSUME op[p] = "install"
      PROVE  /\ After(p, "config") = "include" /\ After(p, "include") = "seed"
             /\ After(p, "seed") = "hooks" /\ After(p, "hooks") = "idle"
  BY <1>1, <1>2, <1>4 DEF Steps, InstallSteps
<1>5. ASSUME op[p] = "uninstall"
      PROVE  /\ After(p, "hooks") = "check" /\ After(p, "check") = "unset"
             /\ After(p, "unset") = "forget" /\ After(p, "forget") = "idle"
  BY <1>1, <1>3, <1>5 DEF Steps, UninstallSteps
<1> QED  BY <1>4, <1>5

\* Wherever a hook is done with, the next one follows, or what is after them.
LEMMA DoneLeads ==
    ASSUME NEW p \in Procs, NEW ok, Done(p, ok)
    PROVE  \E step \in HookSteps \cup {"idle", then[p]} : pc' = [pc EXCEPT ![p] = step]
<1>1. CASE NextHook(p, ok)  BY <1>1 DEF NextHook, First, HookSteps
<1>2. CASE \E how : AfterHooks(p, how)  BY <1>2 DEF AfterHooks, End
<1> QED  BY <1>1, <1>2 DEF Done

LEMMA HookStepLeads ==
    ASSUME NEW p \in Procs, Step(p)
    PROVE  /\ pc[p] \in HookSteps /\ UNCHANGED <<op, then>>
           /\ \E step \in HookSteps \cup {"idle", then[p]} : pc' = [pc EXCEPT ![p] = step]
<1>1. pc[p] \in HookSteps /\ UNCHANGED <<op, then>>
  BY DEF Step, Plan, WriteNewHook, AdoptHook, MakeExecutable, Compare, RenameHook, Strip, RemoveHook,
     At, command, HookSteps
<1>2. ASSUME Adopt(p)
      PROVE  \E step \in HookSteps \cup {"idle", then[p]} : pc' = [pc EXCEPT ![p] = step]
  BY <1>2, DoneLeads DEF Adopt, Goto, HookSteps
<1>3. (\E ok : Done(p, ok)) \/ Adopt(p) \/ (\E step \in HookSteps : Goto(p, step))
  <2>1. CASE Plan(p)  BY <2>1 DEF Plan, HookSteps
  <2>2. CASE WriteNewHook(p)  BY <2>2 DEF WriteNewHook, HookSteps
  <2>3. CASE AdoptHook(p)  BY <2>3 DEF AdoptHook
  <2>4. CASE MakeExecutable(p)  BY <2>4 DEF MakeExecutable
  <2>5. CASE Compare(p)  BY <2>5 DEF Compare, HookSteps
  <2>6. CASE RenameHook(p)  BY <2>6 DEF RenameHook
  <2>7. CASE Strip(p)  BY <2>7 DEF Strip, HookSteps
  <2>8. CASE RemoveHook(p)  BY <2>8 DEF RemoveHook
  <2> QED  BY <2>1, <2>2, <2>3, <2>4, <2>5, <2>6, <2>7, <2>8 DEF Step
<1> QED  BY <1>1, <1>2, <1>3, DoneLeads DEF Goto

\* What a step of a --global command leads to.
Leads(p, steps) ==
    /\ op' = op
    /\ \E step \in steps : pc' = [pc EXCEPT ![p] = step]
    /\ \/ then' = then
       \/ \E step \in {"idle", "claimed", "check"} :
             /\ then' = [then EXCEPT ![p] = step]
             /\ step # "idle" => op[p] = "uninstall"
    /\ pc'[p] \in HookSteps =>
         then'[p] = "idle" \/ (then'[p] \in {"claimed", "check"} /\ op[p] = "uninstall")

LEMMA GoLeads ==
    ASSUME ControlInv, NEW p \in Procs, NEW step, Go(p, step), op' = op,
           step \notin HookSteps
    PROVE  IF step = "hooks" THEN Leads(p, HookSteps) ELSE Leads(p, {step})
<1>1. CASE step = "hooks"
  <2>1. After(p, "hooks") = "idle" \/ (After(p, "hooks") = "check" /\ op[p] = "uninstall")
    BY AfterSteps DEF ControlInv
  <2>2. pc' = [pc EXCEPT ![p] = First(op[p])] /\ then' = [then EXCEPT ![p] = After(p, "hooks")]
    BY <1>1 DEF Go
  <2>3. First(op[p]) \in HookSteps  BY DEF First, HookSteps
  <2> QED  BY <1>1, <2>1, <2>2, <2>3 DEF Leads, ControlInv
<1>2. CASE step # "hooks"
  <2>1. pc' = [pc EXCEPT ![p] = step] /\ then' = then  BY <1>2 DEF Go, End
  <2> QED  BY <1>2, <2>1 DEF Leads, ControlInv
<1> QED  BY <1>1, <1>2

\* A process that stays where it is, or ends.
LEMMA StayLeads ==
    ASSUME ControlInv, NEW p \in Procs, UNCHANGED <<pc, op, then>>
    PROVE  Leads(p, {pc[p]})
<1>1. pc' = [pc EXCEPT ![p] = pc[p]]  BY DEF ControlInv
<1> QED  BY <1>1 DEF Leads, ControlInv

LEMMA EndLeads ==
    ASSUME ControlInv, NEW p \in Procs, NEW how, End(p, how), UNCHANGED <<op, then>>
    PROVE  Leads(p, {"idle"})
BY DEF End, Leads, ControlInv, HookSteps

LEMMA GlobalStepLeads ==
    ASSUME ControlInv, NEW p \in Procs, GlobalStep(p)
    PROVE  /\ pc[p] = "query" =>
                \/ op[p] = "install" /\ Leads(p, {"config"} \cup HookSteps)
                \/ op[p] = "uninstall" /\ Leads(p, {"claimed"} \cup HookSteps)
           /\ pc[p] = "config" => Leads(p, {"include"})
           /\ pc[p] = "include" => Leads(p, {"seed", "add"})
           /\ pc[p] = "add" => Leads(p, {"seed", "idle"})
           /\ pc[p] = "seed" => Leads(p, {"copy"})
           /\ pc[p] = "copy" => Leads(p, HookSteps \cup {"copy", "idle"})
           /\ pc[p] = "claimed" => Leads(p, HookSteps \cup {"unset"})
           /\ pc[p] = "check" => Leads(p, RemovalSteps \cup {"unset"})
           /\ pc[p] \in RemovalSteps => Leads(p, RemovalSteps \cup {"unset", "idle"})
           /\ pc[p] = "unset" => Leads(p, {"forget"})
           /\ pc[p] = "forget" => Leads(p, {"idle"})
           /\ pc[p] \in {"query"} \cup OnlyInstall \cup OnlyUninstall
<1> USE DEF RemovalSteps
<1>0. op' = op /\ op[p] \in {"install", "uninstall"}
  BY DEF GlobalStep, Query, WriteOpConfig, CheckInclude, AddInclude, Seed, CopyStock, CopyFails,
     EndCopy, Claimed, CheckTemplate, ListTemplate, RemoveFile, ListHooks, RemoveListedHook,
     RemoveHooksDir, RemoveTemplate, UnsetInclude, RemoveOpConfig, GlobalAt, ControlInv
<1>a. \A a, b : a \subseteq b /\ Leads(p, a) => Leads(p, b)  BY DEF Leads
<1>b. \A step : step \notin HookSteps \cup {"hooks"} /\ Go(p, step) => Leads(p, {step})
  BY <1>0, GoLeads
<1>c. Go(p, "hooks") => Leads(p, HookSteps)  BY <1>0, GoLeads DEF HookSteps
<1>1. CASE Query(p)
  <2>1. pc[p] = "query"  BY <1>1 DEF Query, GlobalAt
  <2>2. CASE GlobalTemplate = "none" /\ op[p] = "install"
    <3>1. Go(p, "config")  BY <1>1, <2>2 DEF Query, InstallSteps
    <3>2. Leads(p, {"config"})  BY <1>b, <3>1 DEF HookSteps
    <3>3. Leads(p, {"config"} \cup HookSteps)  BY <1>a, <3>2
    <3> QED  BY <2>1, <2>2, <3>3
  <2>3. CASE GlobalTemplate = "none" /\ op[p] = "uninstall"
    <3>1. Go(p, "claimed")  BY <1>1, <2>3 DEF Query
    <3>2. Leads(p, {"claimed"})  BY <1>b, <3>1 DEF HookSteps
    <3>3. Leads(p, {"claimed"} \cup HookSteps)  BY <1>a, <3>2
    <3> QED  BY <2>1, <2>3, <3>3
  <2>4. CASE GlobalTemplate # "none"
    <3>1. /\ then' = [then EXCEPT ![p] = IF op[p] = "install" THEN "idle" ELSE "claimed"]
          /\ pc' = [pc EXCEPT ![p] = First(op[p])]
      BY <1>1, <2>4 DEF Query
    <3>2. First(op[p]) \in HookSteps  BY DEF First, HookSteps
    <3>3. Leads(p, HookSteps)  BY <1>0, <3>1, <3>2 DEF Leads, ControlInv
    <3>4. Leads(p, {"config"} \cup HookSteps) /\ Leads(p, {"claimed"} \cup HookSteps)
      BY <1>a, <3>3
    <3> QED  BY <1>0, <2>1, <3>4
  <2> QED  BY <1>0, <2>2, <2>3, <2>4
<1>2. CASE WriteOpConfig(p)
  <2>1. pc[p] = "config" /\ Go(p, "include")
    BY <1>2, AfterSteps DEF WriteOpConfig, GlobalAt, ControlInv, OnlyInstall
  <2> QED  BY <1>b, <1>c, <2>1 DEF HookSteps, OnlyInstall
<1>3. CASE CheckInclude(p)
  <2>1. pc[p] = "include" /\ (Go(p, "seed") \/ Go(p, "add"))
    BY <1>3, AfterSteps DEF CheckInclude, GlobalAt, ControlInv, OnlyInstall
  <2>2. Leads(p, {"seed"}) \/ Leads(p, {"add"})  BY <1>b, <2>1 DEF HookSteps
  <2>3. Leads(p, {"seed", "add"})  BY <1>a, <2>2
  <2> QED  BY <2>1, <2>3 DEF OnlyInstall
<1>4. CASE AddInclude(p)
  <2>1. pc[p] = "add"  BY <1>4 DEF AddInclude, GlobalAt
  <2>2. Leads(p, {"seed"}) \/ Leads(p, {"idle"})
    <3>1. CASE includes + (IF include THEN 1 ELSE 0) > 1
      <4>1. End(p, "stopped") /\ UNCHANGED <<dir, then>>  BY <1>4, <3>1 DEF AddInclude
      <4> QED  BY <1>0, <4>1 DEF End, Leads, ControlInv, HookSteps
    <3>2. CASE ~(includes + (IF include THEN 1 ELSE 0) > 1)
      <4>1. Go(p, "seed")
        BY <1>4, <2>1, <3>2, AfterSteps DEF AddInclude, ControlInv, OnlyInstall
      <4> QED  BY <1>b, <4>1 DEF HookSteps
    <3> QED  BY <3>1, <3>2
  <2>3. Leads(p, {"seed", "idle"})
    <3>1. {"seed"} \subseteq {"seed", "idle"} /\ {"idle"} \subseteq {"seed", "idle"}  OBVIOUS
    <3> QED  BY <1>a, <2>2, <3>1, Zenon
  <2> QED  BY <2>1, <2>3 DEF OnlyInstall
<1>5. CASE Seed(p)
  <2>1. pc[p] = "seed" /\ Go(p, "copy")  BY <1>5 DEF Seed, GlobalAt
  <2> QED  BY <1>b, <2>1 DEF HookSteps, OnlyInstall
<1>6. CASE Claimed(p)
  <2>1. pc[p] = "claimed" /\ (Go(p, "hooks") \/ Go(p, "unset"))
    BY <1>6 DEF Claimed, GlobalAt, UninstallSteps
  <2>2. Leads(p, HookSteps) \/ Leads(p, {"unset"})  BY <1>b, <1>c, <2>1 DEF HookSteps
  <2>3. Leads(p, HookSteps \cup {"unset"})  BY <1>a, <2>2
  <2> QED  BY <2>1, <2>3 DEF OnlyUninstall
<1>7. CASE CheckTemplate(p)
  <2>1. pc[p] = "check" /\ (Go(p, "remove template") \/ Go(p, "unset"))
    BY <1>7, AfterSteps DEF CheckTemplate, GlobalAt, ControlInv, OnlyUninstall
  <2>2. Leads(p, {"remove template"}) \/ Leads(p, {"unset"})  BY <1>b, <2>1 DEF HookSteps
  <2>3. Leads(p, RemovalSteps \cup {"unset"})
    <3>1. /\ {"remove template"} \subseteq RemovalSteps \cup {"unset"}
          /\ {"unset"} \subseteq RemovalSteps \cup {"unset"}
      OBVIOUS
    <3> QED  BY <1>a, <2>2, <3>1, Zenon
  <2> QED  BY <2>1, <2>3 DEF OnlyUninstall
<1>9. CASE UnsetInclude(p)
  <2>1. pc[p] = "unset" /\ Go(p, "forget")
    BY <1>9, AfterSteps DEF UnsetInclude, GlobalAt, ControlInv, OnlyUninstall
  <2> QED  BY <1>b, <1>c, <2>1 DEF HookSteps, OnlyUninstall
<1>10. CASE RemoveOpConfig(p)
  <2>1. pc[p] = "forget" /\ Go(p, "idle")
    BY <1>10, AfterSteps DEF RemoveOpConfig, GlobalAt, ControlInv, OnlyUninstall
  <2> QED  BY <1>b, <1>c, <2>1 DEF HookSteps, OnlyUninstall
<1>11. CASE CopyStock(p) \/ CopyFails(p) \/ EndCopy(p)
  <2>1. pc[p] = "copy"  BY <1>11 DEF CopyStock, CopyFails, EndCopy, GlobalAt
  <2>2. Leads(p, HookSteps) \/ Leads(p, {"copy"}) \/ Leads(p, {"idle"})
    <3>1. CASE CopyStock(p)
      <4>1. UNCHANGED <<pc, op, then>>  BY <3>1 DEF CopyStock, GlobalAt
      <4> QED  BY <2>1, <4>1, StayLeads
    <3>2. CASE CopyFails(p)
      <4>1. End(p, "stopped") /\ UNCHANGED <<op, then>>  BY <3>2 DEF CopyFails, GiveUp, GlobalAt
      <4> QED  BY <4>1, EndLeads
    <3>3. CASE EndCopy(p)
      <4>1. Go(p, "hooks")  BY <2>1, <3>3, AfterSteps DEF EndCopy, ControlInv, OnlyInstall
      <4> QED  BY <1>c, <4>1
    <3> QED  BY <1>11, <3>1, <3>2, <3>3
  <2>3. Leads(p, HookSteps \cup {"copy", "idle"})  BY <1>a, <2>2
  <2> QED  BY <2>1, <2>3 DEF OnlyInstall
<1>12. CASE \/ ListTemplate(p) \/ RemoveFile(p) \/ ListHooks(p) \/ RemoveListedHook(p)
            \/ RemoveHooksDir(p) \/ RemoveTemplate(p)
  <2>1. pc[p] \in RemovalSteps
    BY <1>12 DEF ListTemplate, RemoveFile, ListHooks, RemoveListedHook, RemoveHooksDir, RemoveTemplate,
       GlobalAt
  <2>2. After(p, "check") = "unset"
    BY <2>1, AfterSteps DEF ControlInv, OnlyUninstall
  <2>3. \E step \in RemovalSteps \cup {"unset", "idle"} : Leads(p, {step})
    <3>1. CASE ListTemplate(p) \/ ListHooks(p)
      <4>1. Go(p, "remove entries") \/ Go(p, "unset") \/ Go(p, "empty hooks")
        BY <2>2, <3>1 DEF ListTemplate, ListHooks
      <4>2. Leads(p, {"remove entries"}) \/ Leads(p, {"unset"}) \/ Leads(p, {"empty hooks"})
        BY <1>b, <4>1 DEF HookSteps
      <4> QED  BY <4>2
    <3>2. CASE RemoveFile(p) \/ RemoveListedHook(p)
      <4>1. UNCHANGED <<pc, op, then>>  BY <3>2 DEF RemoveFile, RemoveListedHook, GlobalAt
      <4> QED  BY <2>1, <4>1, StayLeads
    <3>3. CASE RemoveHooksDir(p) \/ RemoveTemplate(p)
      <4>1. Go(p, "remove entries") \/ Go(p, "unset") \/ BreakOff(p)
        BY <2>2, <3>3 DEF RemoveHooksDir, RemoveTemplate
      <4>2. CASE Go(p, "remove entries") \/ Go(p, "unset")
        <5>1. Leads(p, {"remove entries"}) \/ Leads(p, {"unset"})  BY <1>b, <4>2 DEF HookSteps
        <5> QED  BY <5>1
      <4>3. CASE BreakOff(p)
        <5>1. End(p, "stopped") /\ UNCHANGED <<op, then>>  BY <1>0, <4>3 DEF BreakOff, GiveUp
        <5> QED  BY <5>1, EndLeads
      <4> QED  BY <4>1, <4>2, <4>3
    <3> QED  BY <1>12, <3>1, <3>2, <3>3
  <2>4. Leads(p, RemovalSteps \cup {"unset", "idle"})  BY <1>a, <2>3
  <2> QED  BY <2>1, <2>4 DEF OnlyUninstall
<1> QED  BY <1>1, <1>2, <1>3, <1>4, <1>5, <1>6, <1>7, <1>9, <1>10, <1>11, <1>12 DEF GlobalStep

\* The control state of a command after any step of it.
LEMMA LeadsKeepsControl ==
    ASSUME ControlInv, NEW p \in Procs, NEW steps, Leads(p, steps),
           steps \subseteq {"idle", "query"} \cup HookSteps \cup OnlyInstall \cup OnlyUninstall,
           op[p] = "install" => steps \cap OnlyUninstall = {},
           op[p] = "uninstall" => steps \cap OnlyInstall = {}
    PROVE  ControlInv'
<1>1. PICK step \in steps : pc' = [pc EXCEPT ![p] = step]  BY DEF Leads
<1>2. op' = op /\ DOMAIN then' = Procs /\ \A q \in Procs \ {p} : then'[q] = then[q]
  BY DEF Leads, ControlInv
<1>3. pc' \in [Procs -> PCs] /\ pc'[p] = step /\ \A q \in Procs \ {p} : pc'[q] = pc[q]
  BY <1>1 DEF ControlInv, PCs, HookSteps, OnlyInstall, OnlyUninstall, RemovalSteps
<1>4. /\ step \in OnlyInstall => op[p] = "install"
      /\ step \in OnlyUninstall => op[p] = "uninstall"
  BY <1>1 DEF ControlInv
<1>5. pc'[p] \in HookSteps =>
        then'[p] = "idle" \/ (then'[p] \in {"claimed", "check"} /\ op[p] = "uninstall")
  BY DEF Leads
<1> QED  BY <1>2, <1>3, <1>4, <1>5 DEF ControlInv

\* A command starts, --global or not.
LEMMA BeginLeads ==
    ASSUME ControlInv, NEW p \in Procs, Begin(p) \/ BeginGlobal(p)
    PROVE  /\ ControlInv'
           /\ pc[p] = "idle" /\ op'[p] \in {"install", "uninstall"}
           /\ pc'[p] \in HookSteps \cup {"query"}
           /\ \A q \in Procs \ {p} : pc'[q] = pc[q] /\ op'[q] = op[q]
<1>1. PICK what \in {"install", "uninstall"}, step \in HookSteps \cup {"query"} :
        /\ pc[p] = "idle"
        /\ op' = [op EXCEPT ![p] = what] /\ pc' = [pc EXCEPT ![p] = step]
        /\ step \in HookSteps => then' = [then EXCEPT ![p] = "idle"]
        /\ step = "query" => then' = then
  <2>1. CASE Begin(p)
    <3>1. PICK d \in LocalDirs, what \in {"install", "uninstall"} :
            Start(p, what, First(what), {d}) /\ then' = [then EXCEPT ![p] = "idle"]
      BY <2>1 DEF Begin
    <3>2. PICK step : step = First(what)  OBVIOUS
    <3>3. step \in HookSteps /\ step # "query"  BY <3>2 DEF First, HookSteps
    <3>4. /\ pc[p] = "idle"
          /\ op' = [op EXCEPT ![p] = what] /\ pc' = [pc EXCEPT ![p] = step]
      BY <3>1, <3>2 DEF Start
    <3>5. then' = [then EXCEPT ![p] = "idle"]  BY <3>1
    <3>6. /\ what \in {"install", "uninstall"} /\ step \in HookSteps \cup {"query"}
          /\ (step \in HookSteps => then' = [then EXCEPT ![p] = "idle"])
          /\ (step = "query" => then' = then)
      BY <3>3, <3>5
    <3> HIDE DEF HookSteps
    <3> QED  BY <3>4, <3>6, Zenon
  <2>2. CASE BeginGlobal(p)
    <3>1. PICK what \in {"install", "uninstall"} : \E on : Start(p, what, "query", on)
      BY <2>2 DEF BeginGlobal
    <3>2. then' = then /\ "query" \notin HookSteps  BY <2>2 DEF BeginGlobal, HookSteps
    <3> QED  BY <3>1, <3>2 DEF Start
  <2> QED  BY <2>1, <2>2
<1>2. pc' \in [Procs -> PCs] /\ op' \in [Procs -> {"install", "uninstall"}] /\ DOMAIN then' = Procs
  BY <1>1 DEF ControlInv, PCs, HookSteps
<1>3. /\ pc'[p] = step /\ op'[p] = what
      /\ step \in HookSteps => then'[p] = "idle"
      /\ \A q \in Procs \ {p} : pc'[q] = pc[q] /\ op'[q] = op[q] /\ then'[q] = then[q]
  BY <1>1 DEF ControlInv, HookSteps
<1>4. step \notin OnlyInstall \cup OnlyUninstall
  BY DEF HookSteps, OnlyInstall, OnlyUninstall, RemovalSteps
<1>5. ControlInv'  BY <1>2, <1>3, <1>4 DEF ControlInv
<1> QED  BY <1>1, <1>2, <1>3, <1>5

LEMMA StepKeepsControl ==
    ASSUME ControlInv, NEW p \in Procs, GlobalStep(p) \/ Step(p) \/ Fail(p)
    PROVE  ControlInv' /\ op' = op /\ \A q \in Procs \ {p} : pc'[q] = pc[q]
<1>1. CASE GlobalStep(p)
  <2> DEFINE Allowed(steps) ==
        /\ steps \subseteq {"idle", "query"} \cup HookSteps \cup OnlyInstall \cup OnlyUninstall
        /\ op[p] = "install" => steps \cap OnlyUninstall = {}
        /\ op[p] = "uninstall" => steps \cap OnlyInstall = {}
  <2>1. PICK steps : Leads(p, steps) /\ Allowed(steps)
    <3> USE DEF HookSteps, OnlyInstall, OnlyUninstall, RemovalSteps
    <3>1. CASE pc[p] = "query"
      <4>1. op[p] = "install" => Allowed({"config"} \cup HookSteps)  OBVIOUS
      <4>2. op[p] = "uninstall" => Allowed({"claimed"} \cup HookSteps)  OBVIOUS
      <4> HIDE DEF Allowed, HookSteps
      <4> QED  BY <1>1, <3>1, <4>1, <4>2, GlobalStepLeads, Zenon
    <3>2. CASE pc[p] \in OnlyInstall
      <4>1. op[p] = "install"  BY <3>2 DEF ControlInv
      <4>2. /\ Allowed({"include"}) /\ Allowed({"seed", "add"})
            /\ Allowed({"seed", "idle"}) /\ Allowed({"copy"}) /\ Allowed(HookSteps \cup {"copy", "idle"})
        BY <4>1
      <4>3. \/ Leads(p, {"include"}) \/ Leads(p, {"seed", "add"}) \/ Leads(p, {"seed", "idle"})
            \/ Leads(p, {"copy"}) \/ Leads(p, HookSteps \cup {"copy", "idle"})
        BY <1>1, <3>2, GlobalStepLeads
      <4> HIDE DEF Allowed, HookSteps
      <4> QED  BY <4>2, <4>3, Zenon
    <3>3. CASE pc[p] \in OnlyUninstall
      <4>1. op[p] = "uninstall"  BY <3>3 DEF ControlInv
      <4>2. /\ Allowed(HookSteps \cup {"unset"}) /\ Allowed(RemovalSteps \cup {"unset"})
            /\ Allowed(RemovalSteps \cup {"unset", "idle"}) /\ Allowed({"forget"}) /\ Allowed({"idle"})
        BY <4>1
      <4>3. \/ Leads(p, HookSteps \cup {"unset"}) \/ Leads(p, RemovalSteps \cup {"unset"})
            \/ Leads(p, RemovalSteps \cup {"unset", "idle"}) \/ Leads(p, {"forget"}) \/ Leads(p, {"idle"})
        BY <1>1, <3>3, GlobalStepLeads
      <4> HIDE DEF Allowed, HookSteps, RemovalSteps
      <4> QED  BY <4>2, <4>3, Zenon
    <3> QED  BY <1>1, <3>1, <3>2, <3>3, GlobalStepLeads
  <2>2. ControlInv'  BY <2>1, LeadsKeepsControl
  <2> QED  BY <2>1, <2>2 DEF Leads, ControlInv
<1>2. CASE Step(p)
  <2>1. PICK step \in HookSteps \cup {"idle", then[p]} : pc' = [pc EXCEPT ![p] = step]
    BY <1>2, HookStepLeads
  <2>2. pc[p] \in HookSteps /\ UNCHANGED <<op, then>>  BY <1>2, HookStepLeads
  <2>3. then[p] = "idle" \/ (then[p] \in {"claimed", "check"} /\ op[p] = "uninstall")
    BY <2>2 DEF ControlInv
  <2> QED  BY <2>1, <2>2, <2>3 DEF ControlInv, PCs, HookSteps, OnlyInstall, OnlyUninstall, RemovalSteps
<1>3. CASE Fail(p)
  <2>1. pc' = [pc EXCEPT ![p] = "idle"] /\ UNCHANGED <<op, then>>  BY <1>3 DEF Fail, End, command
  <2> QED  BY <2>1 DEF ControlInv, PCs, HookSteps, OnlyInstall, OnlyUninstall, RemovalSteps
<1> QED  BY <1>1, <1>2, <1>3

-----------------------------------------------------------------------------
(* The claim.                                                                 *)

SameOp == \A p, q \in Procs : pc[p] # "idle" /\ pc[q] # "idle" => op[p] = op[q]
Claimable(p) ==
    /\ pc[p] \in {"include", "add", "seed", "copy"} => opConfig
    /\ pc[p] = "forget" => ~include

\* A step of one process, as far as the claim goes: what the others rely on
\* stays, and the process itself gets to where it may.
LEMMA ClaimFrame ==
    ASSUME ControlInv, ControlInv', ClaimInv, NEW p \in Procs,
           pc[p] # "idle", op' = op, overlapped' = overlapped, include' \in BOOLEAN,
           \A q \in Procs \ {p} : pc'[q] = pc[q],
           ~overlapped =>
             /\ op[p] = "uninstall" => include' \in {FALSE, include}
             /\ op[p] = "install" => opConfig' \in {TRUE, opConfig},
           ~overlapped => Claimable(p)',
           ~overlapped => (include' => opConfig')
    PROVE  ClaimInv'
<1> SUFFICES ASSUME ~overlapped
             PROVE  (\A q \in Procs : Claimable(q)') /\ SameOp'
  BY DEF ClaimInv, Claimable, SameOp
<1>1. SameOp'  BY DEF ClaimInv, SameOp
<1>2. ASSUME NEW q \in Procs \ {p} PROVE Claimable(q)'
  <2>1. Claimable(q) /\ pc'[q] = pc[q]  BY DEF ClaimInv, Claimable
  <2>2. pc[q] # "idle" => op[q] = op[p]  BY DEF ClaimInv
  <2>3. CASE pc[q] \in {"include", "add", "seed", "copy"}
    <3>1. op[p] = "install" /\ opConfig
      BY <2>1, <2>2, <2>3 DEF ControlInv, Claimable, OnlyInstall
    <3> QED  BY <2>1, <2>3, <3>1 DEF Claimable
  <2>4. CASE pc[q] = "forget"
    <3>1. op[p] = "uninstall" /\ ~include
      BY <2>1, <2>2, <2>4 DEF ControlInv, Claimable, OnlyUninstall, RemovalSteps
    <3> QED  BY <2>1, <2>4, <3>1 DEF Claimable
  <2> QED  BY <2>1, <2>3, <2>4 DEF Claimable
<1> QED  BY <1>1, <1>2

\* Where a step of a --global command leads, but for the hooks.
LEMMA GlobalStepGoes ==
    ASSUME ControlInv, NEW p \in Procs, GlobalStep(p)
    PROVE  /\ pc[p] = "query" => pc'[p] \in {"config", "claimed"} \cup HookSteps
           /\ pc[p] = "config" => pc'[p] = "include" /\ op[p] = "install"
           /\ pc[p] = "include" => pc'[p] \in {"seed", "add"}
           /\ pc[p] = "add" => pc'[p] \in {"seed", "idle"} /\ op[p] = "install"
           /\ pc[p] = "seed" => pc'[p] = "copy"
           /\ pc[p] = "copy" => pc'[p] \in HookSteps \cup {"copy", "idle"}
           /\ pc[p] = "claimed" => pc'[p] \in HookSteps \cup {"unset"}
           /\ pc[p] = "check" => pc'[p] \in RemovalSteps \cup {"unset"}
           /\ pc[p] \in RemovalSteps => pc'[p] \in RemovalSteps \cup {"unset", "idle"}
           /\ pc[p] = "unset" => pc'[p] = "forget" /\ op[p] = "uninstall"
           /\ pc[p] = "forget" => pc'[p] = "idle" /\ op[p] = "uninstall"
           /\ pc[p] \in {"query"} \cup OnlyInstall \cup OnlyUninstall
<1>1. \A steps : Leads(p, steps) => pc'[p] \in steps
  BY DEF Leads, ControlInv
<1>2. /\ pc[p] \in OnlyInstall => op[p] = "install"
      /\ pc[p] \in OnlyUninstall => op[p] = "uninstall"
  BY DEF ControlInv
<1>3. pc[p] = "query" => pc'[p] \in {"config", "claimed"} \cup HookSteps
  BY <1>1, GlobalStepLeads
<1>4. CASE pc[p] \in OnlyInstall  BY <1>1, <1>2, <1>4, GlobalStepLeads DEF OnlyInstall, OnlyUninstall, RemovalSteps
<1>5. CASE pc[p] \in OnlyUninstall  BY <1>1, <1>2, <1>5, GlobalStepLeads DEF OnlyInstall, OnlyUninstall, RemovalSteps
<1>6. CASE pc[p] = "query"  BY <1>3, <1>6 DEF RemovalSteps
<1> QED  BY <1>4, <1>5, <1>6, GlobalStepLeads

LEMMA GlobalStepKeepsClaim ==
    ASSUME ControlInv, ClaimInv, NEW p \in Procs, GlobalStep(p), Unobserved
    PROVE  ClaimInv'
<1>0. /\ ControlInv' /\ op' = op /\ \A q \in Procs \ {p} : pc'[q] = pc[q]
      /\ overlapped' = overlapped /\ pc[p] # "idle" /\ include \in BOOLEAN
  BY StepKeepsControl, GlobalStepGoes DEF Unobserved, OnlyInstall, OnlyUninstall, RemovalSteps, ClaimInv
<1>1. Claimable(p) \/ overlapped  BY DEF ClaimInv, Claimable
<1>2. ~overlapped => (include => opConfig)  BY DEF ClaimInv
<1>3. CASE pc[p] \in {"query", "include", "seed", "copy", "claimed", "check"} \cup RemovalSteps
  <2>1. UNCHANGED <<include, opConfig>>
    BY <1>3 DEF GlobalStep, Query, WriteOpConfig, CheckInclude, AddInclude, Seed, CopyStock, CopyFails,
       EndCopy, Claimed, CheckTemplate, ListTemplate, RemoveFile, ListHooks, RemoveListedHook,
       RemoveHooksDir, RemoveTemplate, UnsetInclude, RemoveOpConfig, GlobalAt, config, RemovalSteps
  <2>2. CASE pc[p] \notin {"include", "seed", "copy"}
    <3>1. pc'[p] \notin {"include", "add", "seed", "copy", "forget"}
      BY <1>3, <2>2, GlobalStepGoes DEF HookSteps, RemovalSteps
    <3>2. Claimable(p)'  BY <3>1 DEF Claimable
    <3> QED  BY <1>0, <1>2, <2>1, <3>2, ClaimFrame
  <2>3. CASE pc[p] \in {"include", "seed", "copy"}
    <3>1. pc'[p] # "forget"  BY <2>3, GlobalStepGoes DEF HookSteps
    <3>2. ~overlapped => Claimable(p)'  BY <1>1, <2>1, <2>3, <3>1 DEF Claimable
    <3> QED  BY <1>0, <1>2, <2>1, <3>2, ClaimFrame
  <2> QED  BY <2>2, <2>3
<1>4. CASE WriteOpConfig(p)
  <2>1. pc[p] = "config" /\ opConfig' = TRUE /\ include' = include
    BY <1>4 DEF WriteOpConfig, GlobalAt
  <2>2. op[p] = "install" /\ pc'[p] = "include"
    BY <2>1, GlobalStepGoes
  <2> QED  BY <1>0, <2>1, <2>2, ClaimFrame DEF Claimable
<1>5. CASE AddInclude(p)
  <2>1. pc[p] = "add" /\ opConfig' = opConfig /\ include' \in {TRUE, include}
    BY <1>5 DEF AddInclude, GlobalAt
  <2>2. op[p] = "install" /\ pc'[p] \in {"seed", "idle"}
    BY <2>1, GlobalStepGoes
  <2>3. opConfig \/ overlapped  BY <1>1, <2>1 DEF Claimable
  <2>4. include' \in BOOLEAN  BY <1>0, <2>1
  <2> QED  BY <1>0, <2>1, <2>2, <2>3, <2>4, ClaimFrame DEF Claimable
<1>6. CASE UnsetInclude(p)
  <2>1. pc[p] = "unset" /\ opConfig' = opConfig /\ include' = FALSE
    BY <1>6 DEF UnsetInclude, GlobalAt
  <2>2. op[p] = "uninstall" /\ pc'[p] = "forget"
    BY <2>1, GlobalStepGoes
  <2> QED  BY <1>0, <2>1, <2>2, ClaimFrame DEF Claimable
<1>7. CASE RemoveOpConfig(p)
  <2>1. pc[p] = "forget" /\ include' = include
    BY <1>7 DEF RemoveOpConfig, GlobalAt
  <2>2. op[p] = "uninstall" /\ pc'[p] = "idle"
    BY <2>1, GlobalStepGoes
  <2>3. ~overlapped => ~include  BY <1>1, <2>1 DEF Claimable
  <2>4. Claimable(p)'  BY <2>2 DEF Claimable
  <2>5. /\ ~overlapped => include' \in {FALSE, include} /\ ~include'
        /\ op[p] # "install" /\ include' \in BOOLEAN
    BY <1>0, <2>1, <2>2, <2>3
  <2> QED  BY <1>0, <2>3, <2>4, <2>5, ClaimFrame
<1> QED
  BY <1>3, <1>4, <1>5, <1>6, <1>7 DEF GlobalStep, Query, CheckInclude, Seed, CopyStock, CopyFails,
     EndCopy, Claimed, CheckTemplate, ListTemplate, RemoveFile, ListHooks, RemoveListedHook,
     RemoveHooksDir, RemoveTemplate, GlobalAt, RemovalSteps

LEMMA ConfigStep == ConfigInv /\ [GlobalNext]_globalVars => ConfigInv'
<1> SUFFICES ASSUME ControlInv, ClaimInv, [GlobalNext]_globalVars PROVE ControlInv' /\ ClaimInv'
  BY DEF ConfigInv
<1>1. ASSUME UNCHANGED <<pc, op, then, include, opConfig, overlapped>> PROVE ControlInv' /\ ClaimInv'
  BY <1>1 DEF ControlInv, ClaimInv
<1>2. CASE (SetTemplateDir \/ EditIncludes \/ EditTemplate \/ EditUsedHook) /\ Unobserved
  <2>1. Edit /\ UNCHANGED <<include, opConfig>>
    BY <1>2 DEF SetTemplateDir, EditIncludes, EditTemplate, EditUsedHook, EditHook, config
  <2> QED  BY <1>1, <1>2, <2>1 DEF Edit, Unobserved
<1>3. CASE (Rest /\ Unobserved /\ UNCHANGED <<config, files, work>>) \/ UNCHANGED globalVars
  BY <1>1, <1>3 DEF Rest, Unobserved, config, globalVars, vars, command
<1>4. ASSUME NEW p \in Procs, NEW isGlobal, Begin(p) \/ BeginGlobal(p), Observed(p, isGlobal),
             UNCHANGED config
      PROVE  ControlInv' /\ ClaimInv'
  <2>1. /\ ControlInv'
        /\ pc[p] = "idle" /\ pc'[p] \in HookSteps \cup {"query"}
        /\ \A q \in Procs \ {p} : pc'[q] = pc[q] /\ op'[q] = op[q]
    BY <1>4, BeginLeads
  <2>2. /\ include' = include /\ opConfig' = opConfig
        /\ overlapped' = (overlapped \/ \E q \in Procs \ {p} : pc[q] # "idle" /\ op[q] # op'[p])
    BY <1>4 DEF Observed, config
  <2>3. ASSUME ~overlapped', NEW q \in Procs PROVE Claimable(q)'
    <3>1. CASE q = p  BY <2>1, <3>1 DEF Claimable, HookSteps
    <3>2. CASE q # p  BY <2>1, <2>2, <2>3, <3>2 DEF Claimable, ClaimInv
    <3> QED  BY <3>1, <3>2
  <2>4. ~overlapped' => SameOp'
    <3> SUFFICES ASSUME ~overlapped', NEW q \in Procs, NEW r \in Procs, pc'[q] # "idle", pc'[r] # "idle"
                 PROVE  op'[q] = op'[r]
      BY DEF SameOp
    <3>1. \A s \in Procs \ {p} : pc[s] # "idle" => op[s] = op'[p]  BY <2>2, Zenon
    <3>2. ~overlapped  BY <2>2
    <3> QED  BY <2>1, <3>1, <3>2 DEF ClaimInv
  <2>5. ClaimInv'  BY <2>2, <2>3, <2>4 DEF ClaimInv, Claimable, SameOp
  <2> QED  BY <2>1, <2>5
<1>5. ASSUME NEW p \in Procs, Step(p) \/ Fail(p), Unobserved, UNCHANGED config
      PROVE  ControlInv' /\ ClaimInv'
  <2>1. ControlInv' /\ op' = op /\ \A q \in Procs \ {p} : pc'[q] = pc[q]  BY <1>5, StepKeepsControl
  <2>2. pc[p] # "idle" /\ pc'[p] \notin {"include", "add", "seed", "copy", "forget"}
    <3>1. CASE Fail(p)  BY <3>1 DEF Fail, End, ControlInv
    <3>2. CASE Step(p)
      <4>1. then[p] \in {"idle", "claimed", "check"}  BY <3>2, HookStepLeads DEF ControlInv
      <4> QED  BY <3>2, <4>1, HookStepLeads DEF ControlInv, HookSteps
    <3> QED  BY <1>5, <3>1, <3>2
  <2>3. UNCHANGED <<include, opConfig, overlapped>>  BY <1>5 DEF config, Unobserved
  <2>4. Claimable(p)'  BY <2>2 DEF Claimable
  <2>5. ClaimInv'  BY <2>1, <2>2, <2>3, <2>4, ClaimFrame DEF ClaimInv
  <2> QED  BY <2>1, <2>5
<1>6. ASSUME NEW p \in Procs, GlobalStep(p), Unobserved PROVE ControlInv' /\ ClaimInv'
  BY <1>6, StepKeepsControl, GlobalStepKeepsClaim
<1>7. ASSUME NEW p \in Procs, BeginGlobal(p) PROVE UNCHANGED config  BY <1>7 DEF BeginGlobal
<1> QED  BY <1>2, <1>3, <1>4, <1>5, <1>6, <1>7 DEF GlobalNext, GlobalFail

LEMMA ConfigInit == GlobalInit => ConfigInv
<1> SUFFICES ASSUME GlobalInit PROVE ControlInv /\ ClaimInv
  BY DEF ConfigInv
<1>1. ControlInv
  BY DEF GlobalInit, Init, ControlInv, PCs, OnlyInstall, OnlyUninstall, RemovalSteps, HookSteps
<1>2. pc = [p \in Procs |-> "idle"] /\ include = FALSE  BY DEF GlobalInit, Init
<1>3. ClaimInv  BY <1>2 DEF ClaimInv
<1> QED  BY <1>1, <1>3

\* However many commands run, and wherever they die, the user's configuration
\* includes no file that is not there.
THEOREM IncludesNeverDangle == GlobalSpec => []NoDanglingInclude
<1>1. ConfigInv => NoDanglingInclude  BY DEF ConfigInv, ClaimInv, NoDanglingInclude
<1> QED  BY <1>1, ConfigInit, ConfigStep, PTL DEF GlobalSpec

-----------------------------------------------------------------------------
(* The steps of a --global command, one by one.                               *)

\* A process goes on, ends, or goes to the hooks of a directory.
WentTo(p, step) ==
    pc'[p] = step /\ dir'[p] = dir[p] /\ then'[p] = then[p] /\ outcome'[p] = outcome[p]
Ended(p, how) ==
    /\ pc'[p] = "idle" /\ dir'[p] = dir[p] /\ then'[p] = then[p]
    /\ outcome'[p] = IF quiet[p] THEN how ELSE "none"
ToHooks(p, d, next) ==
    pc'[p] = First(op[p]) /\ dir'[p] = d /\ then'[p] = next /\ outcome'[p] = outcome[p]

\* What a step of a --global command leaves alone.
GlobalFrame(p) ==
    /\ UNCHANGED <<op, quiet, targets, at, expected, contents, failed, yours, commands, edits, failures>>
    /\ pc' \in [Procs -> PCs] /\ dir' \in [Procs -> Dirs] /\ then' \in [Procs -> PCs]
    /\ outcome' \in [Procs -> {"none", "ok", "failed", "stopped", "killed"}]
    /\ \A q \in Procs \ {p} :
        pc'[q] = pc[q] /\ dir'[q] = dir[q] /\ then'[q] = then[q] /\ outcome'[q] = outcome[q]

\* What most steps leave alone.
SameConfig == UNCHANGED <<setting, include, includes, opConfig>>
SameFiles == UNCHANGED <<hooks, made, files>>
SameWork == UNCHANGED <<left, brokenOff, misled>>
Listed(p, entries) == left' = [left EXCEPT ![p] = entries] /\ UNCHANGED <<brokenOff, misled>>

AtQuery(p) ==
    /\ pc[p] = "query" /\ SameConfig /\ SameFiles /\ SameWork
    /\ \/ TemplateDir = "none" /\ op[p] = "install" /\ WentTo(p, "config")
       \/ TemplateDir = "none" /\ op[p] = "uninstall" /\ WentTo(p, "claimed")
       \/ TemplateDir # "none" /\ op[p] = "install" /\ ToHooks(p, TemplateDir, "idle")
       \/ TemplateDir # "none" /\ op[p] = "uninstall" /\ ToHooks(p, TemplateDir, "claimed")
AtConfig(p) ==
    /\ pc[p] = "config" /\ op[p] = "install"
    /\ opConfig' = TRUE /\ UNCHANGED <<setting, include, includes>> /\ SameFiles /\ SameWork
    /\ WentTo(p, "include")
AtInclude(p) ==
    /\ pc[p] = "include" /\ op[p] = "install" /\ SameConfig /\ SameFiles /\ SameWork
    /\ (include /\ WentTo(p, "seed")) \/ (~include /\ WentTo(p, "add"))
AtAdd(p) ==
    /\ pc[p] = "add" /\ op[p] = "install" /\ UNCHANGED <<setting, opConfig>> /\ SameFiles /\ SameWork
    /\ \/ UNCHANGED <<include, includes>> /\ Ended(p, "stopped")
       \/ include' = TRUE /\ includes' = 0 /\ WentTo(p, "seed")
AtSeed(p) ==
    /\ pc[p] = "seed" /\ op[p] = "install" /\ SameConfig /\ UNCHANGED <<hooks, files>>
    /\ made' = made \cup {Default} /\ Listed(p, StockFiles)
    /\ WentTo(p, "copy")
AtCopyStock(p) ==
    /\ pc[p] = "copy" /\ op[p] = "install" /\ SameConfig /\ hooks' = hooks
    /\ \E f \in left[p] : files' = [files EXCEPT ![f] = CopyAbsent(f)] /\ Listed(p, left[p] \ {f})
    /\ made' \in {made, made \cup {Default}}
    /\ WentTo(p, "copy")
AtCopyFails(p) ==
    /\ pc[p] = "copy" /\ op[p] = "install" /\ SameConfig /\ SameFiles
    /\ left[p] # {} /\ (Removing # {} \/ Default \notin made) /\ Listed(p, {})
    /\ Ended(p, "stopped")
AtEndCopy(p) ==
    /\ pc[p] = "copy" /\ op[p] = "install" /\ SameConfig /\ SameFiles /\ SameWork
    /\ left[p] = {}
    /\ ToHooks(p, Default, "idle")
AtClaimed(p) ==
    /\ pc[p] = "claimed" /\ op[p] = "uninstall" /\ SameConfig /\ SameFiles /\ SameWork
    /\ (opConfig /\ ToHooks(p, Default, "check")) \/ (~opConfig /\ WentTo(p, "unset"))
AtCheck(p) ==
    /\ pc[p] = "check" /\ op[p] = "uninstall" /\ SameConfig /\ SameFiles /\ UNCHANGED <<left, brokenOff>>
    /\ \/ misled' = misled /\ TemplateExists /\ Unmodified /\ HooksGone /\ WentTo(p, "remove template")
       \/ misled' = misled /\ ~ (TemplateExists /\ Unmodified /\ HooksGone) /\ WentTo(p, "unset")
       \/ misled' = TRUE /\ Removing # {} /\ WentTo(p, "unset")
AtListTemplate(p) ==
    /\ pc[p] = "remove template" /\ op[p] = "uninstall" /\ SameConfig /\ SameFiles
    /\ Listed(p, Present \cup (IF Default \in made THEN {"hooks"} ELSE {}))
    /\ (TemplateExists /\ WentTo(p, "remove entries")) \/ (~TemplateExists /\ WentTo(p, "unset"))
AtRemoveFile(p) ==
    /\ pc[p] = "remove entries" /\ op[p] = "uninstall" /\ SameConfig /\ UNCHANGED <<hooks, made>>
    /\ \E f \in DOMAIN files : files' = [files EXCEPT ![f] = "absent"] /\ Listed(p, left[p] \ {f})
    /\ WentTo(p, "remove entries")
AtListHooks(p) ==
    /\ pc[p] = "remove entries" /\ op[p] = "uninstall" /\ SameConfig /\ SameFiles
    /\ Listed(p, (left[p] \ {"hooks"}) \cup {name \in Names : hooks[Default][name] # Absent})
    /\ WentTo(p, "empty hooks")
AtRemoveListedHook(p) ==
    /\ pc[p] = "empty hooks" /\ op[p] = "uninstall" /\ SameConfig /\ UNCHANGED <<made, files>>
    /\ \E name \in Names :
        hooks' = [hooks EXCEPT ![Default][name] = Absent] /\ Listed(p, left[p] \ {name})
    /\ WentTo(p, "empty hooks")
Broke(p) ==
    /\ left' = [left EXCEPT ![p] = {}] /\ brokenOff' = TRUE /\ misled' = misled
    /\ made' = made /\ Ended(p, "stopped")
AtRemoveHooksDir(p) ==
    /\ pc[p] = "empty hooks" /\ op[p] = "uninstall" /\ SameConfig /\ UNCHANGED <<hooks, files>>
    /\ \/ HooksGone /\ made' = made \ {Default} /\ SameWork /\ WentTo(p, "remove entries")
       \/ Broke(p)
AtRemoveTemplate(p) ==
    /\ pc[p] = "remove entries" /\ op[p] = "uninstall" /\ SameConfig /\ UNCHANGED <<hooks, files>>
    /\ left[p] = {}
    /\ \/ ~TemplateExists /\ made' = made /\ SameWork /\ WentTo(p, "unset")
       \/ Broke(p)
AtUnset(p) ==
    /\ pc[p] = "unset" /\ op[p] = "uninstall" /\ SameFiles /\ SameWork
    /\ include' = FALSE /\ UNCHANGED <<setting, includes, opConfig>>
    /\ WentTo(p, "forget")
AtForget(p) ==
    /\ pc[p] = "forget" /\ op[p] = "uninstall" /\ SameFiles /\ SameWork
    /\ opConfig' = FALSE /\ UNCHANGED <<setting, include, includes>>
    /\ Ended(p, "ok")

AtInstall(p) ==
    \/ AtConfig(p) \/ AtInclude(p) \/ AtAdd(p) \/ AtSeed(p)
    \/ AtCopyStock(p) \/ AtCopyFails(p) \/ AtEndCopy(p)
AtRemoval(p) ==
    \/ AtListTemplate(p) \/ AtRemoveFile(p) \/ AtListHooks(p) \/ AtRemoveListedHook(p)
    \/ AtRemoveHooksDir(p) \/ AtRemoveTemplate(p)
AtOne(p) ==
    \/ AtQuery(p) \/ AtInstall(p) \/ AtClaimed(p) \/ AtCheck(p) \/ AtRemoval(p)
    \/ AtUnset(p) \/ AtForget(p)

LEMMA TemplateDirs ==
    ASSUME TypeOK
    PROVE  /\ {Default, UserTemplate} \subseteq Dirs
           /\ Default \notin LocalDirs /\ "none" \notin Dirs
           /\ TemplateDir \in {Default, UserTemplate, "none"}
BY TemplatesAssumption DEF TemplateDir

\* Where the operator Go goes.
LEMMA GoFrame ==
    ASSUME TypeOK, NEW p \in Procs, NEW step \in PCs \cup {"hooks"}, Go(p, step),
           UNCHANGED <<op, quiet, targets, locals, failed, yours, boundVars>>,
           After(p, "hooks") \in {"idle", "check"}
    PROVE  /\ GlobalFrame(p)
           /\ step = "idle" => Ended(p, "ok")
           /\ step = "hooks" => ToHooks(p, Default, After(p, "hooks"))
           /\ step \notin {"idle", "hooks"} => WentTo(p, step)
<1>1. /\ UNCHANGED <<op, quiet, targets, at, expected, contents, failed, yours, commands, edits, failures>>
      /\ Default \in Dirs
      /\ pc \in [Procs -> PCs] /\ dir \in [Procs -> Dirs] /\ then \in [Procs -> PCs]
      /\ outcome \in [Procs -> {"none", "ok", "failed", "stopped", "killed"}]
      /\ "hooks" \notin PCs /\ {"idle", "check", "plan", "strip"} \subseteq PCs
  BY TemplateDirs DEF TypeOK, locals, boundVars, PCs
<1> DEFINE next == After(p, "hooks")
<1> HIDE DEF next, PCs
<1>2. CASE step = "idle"
  <2>1. pc' = [pc EXCEPT ![p] = "idle"] /\ UNCHANGED <<dir, then>>
        /\ outcome' = [outcome EXCEPT ![p] = IF quiet[p] THEN "ok" ELSE "none"]
    BY <1>2 DEF Go, End
  <2> QED  BY <1>1, <1>2, <2>1 DEF GlobalFrame, Ended
<1>3. CASE step = "hooks"
  <2>1. /\ pc' = [pc EXCEPT ![p] = First(op[p])] /\ UNCHANGED outcome
        /\ dir' = [dir EXCEPT ![p] = Default] /\ then' = [then EXCEPT ![p] = next]
    BY <1>3 DEF Go, next
  <2>2. First(op[p]) \in PCs /\ next \in PCs  BY <1>1 DEF First, next
  <2> QED  BY <1>1, <1>3, <2>1, <2>2 DEF GlobalFrame, ToHooks, next
<1>4. CASE step \in PCs \ {"idle", "hooks"}
  <2>1. pc' = [pc EXCEPT ![p] = step] /\ UNCHANGED <<outcome, dir, then>>
    BY <1>4 DEF Go
  <2> QED  BY <1>1, <1>4, <2>1 DEF GlobalFrame, WentTo
<1> QED  BY <1>2, <1>3, <1>4

LEMMA GlobalSteps ==
    ASSUME TypeOK, ControlInv, NEW p \in Procs, GlobalStep(p)
    PROVE  GlobalFrame(p) /\ AtOne(p)
<1> DEFINE Frozen == UNCHANGED <<op, quiet, targets, locals, failed, yours, boundVars>>
<1>0. /\ op[p] \in {"install", "uninstall"} /\ ControlInv
      /\ op[p] = "install" => After(p, "hooks") = "idle"
      /\ op[p] = "uninstall" => After(p, "hooks") = "check"
      /\ {"config", "claimed", "include", "seed", "add", "unset", "remove template", "forget", "idle"}
            \subseteq PCs /\ {"copy", "remove entries", "empty hooks"} \subseteq PCs
  BY AfterSteps DEF ControlInv, PCs
<1>b. ASSUME Frozen, NEW step \in PCs \cup {"hooks"}, Go(p, step)
      PROVE  /\ GlobalFrame(p)
             /\ step = "idle" => Ended(p, "ok")
             /\ step = "hooks" => ToHooks(p, Default, IF op[p] = "install" THEN "idle" ELSE "check")
             /\ step \notin {"idle", "hooks"} => WentTo(p, step)
  <2>1. /\ GlobalFrame(p)
        /\ step = "idle" => Ended(p, "ok")
        /\ step = "hooks" => ToHooks(p, Default, After(p, "hooks"))
        /\ step \notin {"idle", "hooks"} => WentTo(p, step)
    BY <1>0, <1>b, GoFrame
  <2> QED  BY <1>0, <2>1
<1> HIDE DEF Frozen
<1>c. ASSUME Frozen
      PROVE  /\ Go(p, "idle") => GlobalFrame(p) /\ Ended(p, "ok")
             /\ Go(p, "hooks") =>
                  GlobalFrame(p) /\ ToHooks(p, Default, IF op[p] = "install" THEN "idle" ELSE "check")
             /\ Go(p, "config") => GlobalFrame(p) /\ WentTo(p, "config")
             /\ Go(p, "claimed") => GlobalFrame(p) /\ WentTo(p, "claimed")
             /\ Go(p, "include") => GlobalFrame(p) /\ WentTo(p, "include")
             /\ Go(p, "seed") => GlobalFrame(p) /\ WentTo(p, "seed")
             /\ Go(p, "copy") => GlobalFrame(p) /\ WentTo(p, "copy")
             /\ Go(p, "remove entries") => GlobalFrame(p) /\ WentTo(p, "remove entries")
             /\ Go(p, "empty hooks") => GlobalFrame(p) /\ WentTo(p, "empty hooks")
             /\ Go(p, "add") => GlobalFrame(p) /\ WentTo(p, "add")
             /\ Go(p, "unset") => GlobalFrame(p) /\ WentTo(p, "unset")
             /\ Go(p, "remove template") => GlobalFrame(p) /\ WentTo(p, "remove template")
             /\ Go(p, "forget") => GlobalFrame(p) /\ WentTo(p, "forget")
  <2>1. ASSUME NEW step \in {"config", "claimed", "include", "seed", "add", "unset", "remove template",
                             "forget", "copy", "remove entries", "empty hooks"}, Go(p, step)
        PROVE  GlobalFrame(p) /\ WentTo(p, step)
    <3>1. step \in PCs \cup {"hooks"} /\ step \notin {"idle", "hooks"}  BY <1>0
    <3> QED  BY <1>b, <1>c, <2>1, <3>1, Zenon
  <2>2. Go(p, "idle") => GlobalFrame(p) /\ Ended(p, "ok")
    <3>1. "idle" \in PCs \cup {"hooks"}  BY <1>0
    <3> QED  BY <1>b, <1>c, <3>1, Zenon
  <2>3. Go(p, "hooks") =>
          GlobalFrame(p) /\ ToHooks(p, Default, IF op[p] = "install" THEN "idle" ELSE "check")
    <3>1. "hooks" \in PCs \cup {"hooks"}  OBVIOUS
    <3> QED  BY <1>b, <1>c, <3>1, Zenon
  <2>4. \A step \in {"config", "claimed", "include", "seed", "add", "unset", "remove template", "forget",
                     "copy", "remove entries", "empty hooks"} :
          Go(p, step) => GlobalFrame(p) /\ WentTo(p, step)
    BY <2>1
  <2> QED  BY <2>2, <2>3, <2>4, Zenon
<1>d. ASSUME Frozen, UNCHANGED <<pc, dir, then, outcome>>
      PROVE  GlobalFrame(p) /\ \A step : pc[p] = step => WentTo(p, step)
  <2> HIDE DEF PCs
  <2> QED  BY <1>d DEF GlobalFrame, WentTo, Frozen, TypeOK, locals, boundVars
<1>e. ASSUME Frozen, End(p, "stopped"), UNCHANGED <<dir, then>>
      PROVE  GlobalFrame(p) /\ Ended(p, "stopped")
  <2>1. pc' = [pc EXCEPT ![p] = "idle"]
        /\ outcome' = [outcome EXCEPT ![p] = IF quiet[p] THEN "stopped" ELSE "none"]
    BY <1>e DEF End
  <2> HIDE DEF PCs
  <2> QED  BY <1>0, <1>e, <2>1 DEF GlobalFrame, Ended, Frozen, TypeOK, locals, boundVars
<1>1. CASE Query(p)
  <2>1. /\ pc[p] = "query" /\ Frozen
        /\ SameConfig /\ SameFiles /\ SameWork
    BY <1>1 DEF Query, GlobalAt, Frozen, config, work,
       SameConfig, SameFiles, SameWork
  <2>2. CASE TemplateDir = "none"
    <3>1. Go(p, IF op[p] = "install" THEN "config" ELSE "claimed")
      BY <1>1, <2>2 DEF Query, GlobalTemplate, InstallSteps
    <3>2. GlobalFrame(p) /\ WentTo(p, IF op[p] = "install" THEN "config" ELSE "claimed")
      <4>1. CASE op[p] = "install"  BY <1>0, <1>c, <2>1, <3>1, <4>1
      <4>2. CASE op[p] = "uninstall"  BY <1>0, <1>c, <2>1, <3>1, <4>2
      <4> QED  BY <1>0, <4>1, <4>2
    <3>3. AtQuery(p)  BY <1>0, <2>1, <2>2, <3>2 DEF AtQuery
    <3> QED  BY <3>2, <3>3 DEF AtOne, AtInstall
  <2>3. CASE TemplateDir # "none"
    <3> DEFINE d == TemplateDir
               next == IF op[p] = "install" THEN "idle" ELSE "claimed"
    <3>1. /\ dir' = [dir EXCEPT ![p] = d] /\ then' = [then EXCEPT ![p] = next]
          /\ pc' = [pc EXCEPT ![p] = First(op[p])] /\ outcome' = outcome
      BY <1>1, <2>3 DEF Query, GlobalTemplate
    <3>2. d \in Dirs /\ next \in PCs /\ First(op[p]) \in PCs
      BY <1>0, <2>3, TemplateDirs DEF First, PCs
    <3> HIDE DEF d, next, PCs
    <3>3. GlobalFrame(p) /\ ToHooks(p, d, next)
      BY <2>1, <3>1, <3>2 DEF GlobalFrame, ToHooks, Frozen, TypeOK, locals, boundVars
    <3>4. AtQuery(p)  BY <1>0, <2>1, <2>3, <3>3 DEF AtQuery, d, next
    <3> QED  BY <3>3, <3>4 DEF AtOne, AtInstall
  <2> QED  BY <2>2, <2>3
<1>2. CASE WriteOpConfig(p)
  <2>1. pc[p] = "config" /\ Frozen  BY <1>2 DEF WriteOpConfig, GlobalAt, Frozen
  <2>2. op[p] = "install"  BY <1>0, <2>1 DEF ControlInv, OnlyInstall
  <2>3. Go(p, "include")  BY <1>2, <2>2, AfterSteps DEF WriteOpConfig
  <2>4. AtConfig(p)  BY <1>0, <1>2, <1>c, <2>1, <2>2, <2>3 DEF WriteOpConfig, AtConfig,
       SameFiles, SameWork, work
  <2> QED  BY <1>c, <2>1, <2>3, <2>4 DEF AtOne, AtInstall
<1>3. CASE CheckInclude(p)
  <2>1. pc[p] = "include" /\ Frozen
        /\ SameConfig /\ SameFiles /\ SameWork
    BY <1>3 DEF CheckInclude, GlobalAt, Frozen, config, work,
       SameConfig, SameFiles, SameWork
  <2>2. op[p] = "install"  BY <1>0, <2>1 DEF ControlInv, OnlyInstall
  <2>3. Go(p, IF include THEN "seed" ELSE "add")  BY <1>3, <2>2, AfterSteps DEF CheckInclude
  <2>4. (include /\ WentTo(p, "seed")) \/ (~include /\ WentTo(p, "add"))
    <3>1. CASE include  BY <1>0, <1>c, <2>1, <2>3, <3>1
    <3>2. CASE ~include  BY <1>0, <1>c, <2>1, <2>3, <3>2
    <3> QED  BY <3>1, <3>2
  <2>5. GlobalFrame(p)
    <3>1. CASE include  BY <1>0, <1>c, <2>1, <2>3, <3>1
    <3>2. CASE ~include  BY <1>0, <1>c, <2>1, <2>3, <3>2
    <3> QED  BY <3>1, <3>2
  <2>6. AtInclude(p)  BY <2>1, <2>2, <2>4 DEF AtInclude
  <2> QED  BY <2>5, <2>6 DEF AtOne, AtInstall
<1>4. CASE AddInclude(p)
  <2>1. pc[p] = "add" /\ Frozen /\ UNCHANGED <<setting, opConfig>> /\ SameFiles /\ SameWork
    BY <1>4 DEF AddInclude, GlobalAt, Frozen, work, SameFiles, SameWork
  <2>2. op[p] = "install"  BY <1>0, <2>1 DEF ControlInv, OnlyInstall
  <2>3. CASE End(p, "stopped") /\ UNCHANGED <<dir, then, include, includes>>
    <3>2. GlobalFrame(p) /\ Ended(p, "stopped")  BY <1>e, <2>1, <2>3
    <3>3. AtAdd(p)  BY <2>1, <2>2, <2>3, <3>2 DEF AtAdd
    <3> QED  BY <3>2, <3>3 DEF AtOne, AtInstall
  <2>4. CASE include' = TRUE /\ includes' = 0 /\ Go(p, After(p, "include"))
    <3>1. Go(p, "seed")  BY <2>2, <2>4, AfterSteps
    <3>2. GlobalFrame(p) /\ WentTo(p, "seed")  BY <1>0, <1>c, <2>1, <3>1
    <3>3. AtAdd(p)  BY <2>1, <2>2, <2>4, <3>2 DEF AtAdd
    <3> QED  BY <3>2, <3>3 DEF AtOne, AtInstall
  <2> QED  BY <1>4, <2>3, <2>4 DEF AddInclude
<1>5. CASE Seed(p)
  <2>1. pc[p] = "seed" /\ Frozen  BY <1>5 DEF Seed, GlobalAt, Frozen
  <2>2. op[p] = "install"  BY <1>0, <2>1 DEF ControlInv, OnlyInstall
  <2>3. Go(p, "copy")  BY <1>5 DEF Seed
  <2>4. GlobalFrame(p) /\ WentTo(p, "copy")  BY <1>c, <2>1, <2>3
  <2>5. AtSeed(p)  BY <1>5, <2>1, <2>2, <2>4 DEF Seed, AtSeed, Seeded, SameConfig, Listed, config
  <2> QED  BY <2>4, <2>5 DEF AtOne, AtInstall
<1>6. CASE Claimed(p)
  <2>1. pc[p] = "claimed" /\ Frozen
        /\ SameConfig /\ SameFiles /\ SameWork
    BY <1>6 DEF Claimed, GlobalAt, Frozen, config, work,
       SameConfig, SameFiles, SameWork
  <2>2. op[p] = "uninstall"  BY <1>0, <2>1 DEF ControlInv, OnlyUninstall
  <2>3. Go(p, IF opConfig THEN "hooks" ELSE "unset")  BY <1>6 DEF Claimed, UninstallSteps
  <2>4. CASE opConfig
    <3>1. GlobalFrame(p) /\ ToHooks(p, Default, "check")  BY <1>c, <2>1, <2>2, <2>3, <2>4
    <3>2. AtClaimed(p)  BY <2>1, <2>2, <2>4, <3>1 DEF AtClaimed
    <3> QED  BY <3>1, <3>2 DEF AtOne, AtInstall
  <2>5. CASE ~opConfig
    <3>1. GlobalFrame(p) /\ WentTo(p, "unset")  BY <1>0, <1>c, <2>1, <2>3, <2>5
    <3>2. AtClaimed(p)  BY <2>1, <2>2, <2>5, <3>1 DEF AtClaimed
    <3> QED  BY <3>1, <3>2 DEF AtOne, AtInstall
  <2> QED  BY <2>4, <2>5
<1>7. CASE CheckTemplate(p)
  <2> DEFINE remove == TemplateExists /\ Unmodified /\ HooksGone
  <2>1. pc[p] = "check" /\ Frozen /\ SameConfig /\ SameFiles /\ UNCHANGED <<left, brokenOff>>
    BY <1>7 DEF CheckTemplate, GlobalAt, Frozen, config, SameConfig, SameFiles
  <2>2. op[p] = "uninstall"  BY <1>0, <2>1 DEF ControlInv, OnlyUninstall
  <2>3. \/ Go(p, IF remove THEN "remove template" ELSE "unset") /\ misled' = misled
        \/ Removing # {} /\ Go(p, "unset") /\ misled' = TRUE
    BY <1>7, <2>2, AfterSteps DEF CheckTemplate
  <2> HIDE DEF remove
  <2>4. CASE remove /\ Go(p, "remove template") /\ misled' = misled
    <3>1. GlobalFrame(p) /\ WentTo(p, "remove template")  BY <1>c, <2>1, <2>4
    <3>2. AtCheck(p)  BY <2>1, <2>2, <2>4, <3>1 DEF AtCheck, remove
    <3> QED  BY <3>1, <3>2 DEF AtOne, AtInstall
  <2>5. CASE /\ Go(p, "unset")
             /\ (misled' = misled /\ ~remove) \/ (misled' = TRUE /\ Removing # {})
    <3>1. GlobalFrame(p) /\ WentTo(p, "unset")  BY <1>c, <2>1, <2>3, <2>5
    <3>2. AtCheck(p)  BY <2>1, <2>2, <2>5, <3>1 DEF AtCheck, remove
    <3> QED  BY <3>1, <3>2 DEF AtOne, AtInstall
  <2> QED  BY <2>3, <2>4, <2>5
<1>9. CASE UnsetInclude(p)
  <2>1. pc[p] = "unset" /\ Frozen  BY <1>9 DEF UnsetInclude, GlobalAt, Frozen
  <2>2. op[p] = "uninstall"  BY <1>0, <2>1 DEF ControlInv, OnlyUninstall
  <2>3. Go(p, "forget")  BY <1>9, <2>2, AfterSteps DEF UnsetInclude
  <2>4. AtUnset(p)  BY <1>0, <1>9, <1>c, <2>1, <2>2, <2>3 DEF UnsetInclude, AtUnset,
       SameFiles, SameWork, work
  <2> QED  BY <1>c, <2>1, <2>3, <2>4 DEF AtOne, AtInstall
<1>10. CASE RemoveOpConfig(p)
  <2>1. pc[p] = "forget" /\ Frozen  BY <1>10 DEF RemoveOpConfig, GlobalAt, Frozen
  <2>2. op[p] = "uninstall"  BY <1>0, <2>1 DEF ControlInv, OnlyUninstall
  <2>3. Go(p, "idle")  BY <1>10, <2>2, AfterSteps DEF RemoveOpConfig
  <2>4. AtForget(p)  BY <1>0, <1>10, <1>c, <2>1, <2>2, <2>3 DEF RemoveOpConfig, AtForget,
       SameFiles, SameWork, work
  <2> QED  BY <1>c, <2>1, <2>3, <2>4 DEF AtOne, AtInstall
<1>11. CASE CopyStock(p) \/ CopyFails(p) \/ EndCopy(p)
  <2>1. pc[p] = "copy" /\ Frozen /\ SameConfig
    BY <1>11 DEF CopyStock, CopyFails, EndCopy, GlobalAt, Frozen, config, SameConfig
  <2>2. op[p] = "install"  BY <1>0, <2>1 DEF ControlInv, OnlyInstall
  <2>3. CASE CopyStock(p)
    <3>1. UNCHANGED <<pc, dir, then, outcome>>  BY <2>3 DEF CopyStock
    <3>2. GlobalFrame(p) /\ WentTo(p, "copy")  BY <1>d, <2>1, <3>1
    <3>3. AtCopyStock(p)  BY <2>1, <2>2, <2>3, <3>2 DEF CopyStock, AtCopyStock, Listed
    <3> QED  BY <3>2, <3>3 DEF AtOne, AtInstall
  <2>4. CASE CopyFails(p)
    <3>1. End(p, "stopped") /\ UNCHANGED <<dir, then>>  BY <2>4 DEF CopyFails, GiveUp
    <3>2. GlobalFrame(p) /\ Ended(p, "stopped")  BY <1>e, <2>1, <3>1
    <3>3. AtCopyFails(p)
      BY <2>1, <2>2, <2>4, <3>2 DEF CopyFails, GiveUp, AtCopyFails, Listed, SameFiles
    <3> QED  BY <3>2, <3>3 DEF AtOne, AtInstall
  <2>5. CASE EndCopy(p)
    <3>1. Go(p, "hooks")  BY <2>2, <2>5, AfterSteps DEF EndCopy
    <3>2. GlobalFrame(p) /\ ToHooks(p, Default, "idle")  BY <1>c, <2>1, <2>2, <3>1
    <3>3. AtEndCopy(p)
      BY <2>1, <2>2, <2>5, <3>2 DEF EndCopy, Copied, AtEndCopy, SameFiles, SameWork, work
    <3> QED  BY <3>2, <3>3 DEF AtOne, AtInstall
  <2> QED  BY <1>11, <2>3, <2>4, <2>5
<1>12. CASE ListTemplate(p) \/ RemoveFile(p) \/ ListHooks(p)
  <2>1. pc[p] \in RemovalSteps /\ Frozen /\ SameConfig
    BY <1>12 DEF ListTemplate, RemoveFile, ListHooks, GlobalAt, Frozen, config, SameConfig, RemovalSteps
  <2>2. op[p] = "uninstall"  BY <1>0, <2>1 DEF ControlInv, OnlyUninstall
  <2>3. CASE ListTemplate(p)
    <3>1. Go(p, IF TemplateExists THEN "remove entries" ELSE "unset")
      BY <2>2, <2>3, AfterSteps DEF ListTemplate
    <3>2. /\ GlobalFrame(p)
          /\ (TemplateExists /\ WentTo(p, "remove entries")) \/ (~TemplateExists /\ WentTo(p, "unset"))
      <4>1. CASE TemplateExists  BY <1>c, <2>1, <3>1, <4>1
      <4>2. CASE ~TemplateExists  BY <1>c, <2>1, <3>1, <4>2
      <4> QED  BY <4>1, <4>2
    <3>3. AtListTemplate(p)
      BY <2>1, <2>2, <2>3, <3>2 DEF ListTemplate, GlobalAt, AtListTemplate, Listed, SameFiles
    <3> QED  BY <3>2, <3>3 DEF AtOne, AtRemoval
  <2>4. CASE RemoveFile(p)
    <3>1. UNCHANGED <<pc, dir, then, outcome>> /\ pc[p] = "remove entries"
      BY <2>4 DEF RemoveFile, GlobalAt
    <3>2. GlobalFrame(p) /\ WentTo(p, "remove entries")  BY <1>d, <2>1, <3>1
    <3>3. AtRemoveFile(p)  BY <2>1, <2>2, <2>4, <3>1, <3>2 DEF RemoveFile, AtRemoveFile, Listed
    <3> QED  BY <3>2, <3>3 DEF AtOne, AtRemoval
  <2>5. CASE ListHooks(p)
    <3>1. Go(p, "empty hooks")  BY <2>5 DEF ListHooks
    <3>2. GlobalFrame(p) /\ WentTo(p, "empty hooks")  BY <1>c, <2>1, <3>1
    <3>3. AtListHooks(p)
      BY <2>1, <2>2, <2>5, <3>2 DEF ListHooks, GlobalAt, AtListHooks, Listed, SameFiles
    <3> QED  BY <3>2, <3>3 DEF AtOne, AtRemoval
  <2> QED  BY <1>12, <2>3, <2>4, <2>5
<1>13. CASE RemoveListedHook(p) \/ RemoveHooksDir(p) \/ RemoveTemplate(p)
  <2>1. pc[p] \in RemovalSteps /\ Frozen /\ SameConfig
    BY <1>13 DEF RemoveListedHook, RemoveHooksDir, RemoveTemplate, GlobalAt, Frozen, config, SameConfig,
       RemovalSteps
  <2>2. op[p] = "uninstall"  BY <1>0, <2>1 DEF ControlInv, OnlyUninstall
  <2>3. CASE RemoveListedHook(p)
    <3>1. UNCHANGED <<pc, dir, then, outcome>> /\ pc[p] = "empty hooks"
      BY <2>3 DEF RemoveListedHook, GlobalAt
    <3>2. GlobalFrame(p) /\ WentTo(p, "empty hooks")  BY <1>d, <2>1, <3>1
    <3>3. AtRemoveListedHook(p)
      BY <2>1, <2>2, <2>3, <3>1, <3>2 DEF RemoveListedHook, AtRemoveListedHook, Listed
    <3> QED  BY <3>2, <3>3 DEF AtOne, AtRemoval
  <2>4. ASSUME BreakOff(p), misled' = misled PROVE GlobalFrame(p) /\ Broke(p)
    <3>1. End(p, "stopped") /\ UNCHANGED <<dir, then>>  BY <2>4 DEF BreakOff, GiveUp
    <3>2. GlobalFrame(p) /\ Ended(p, "stopped")  BY <1>e, <2>1, <3>1
    <3> QED  BY <2>4, <3>2 DEF BreakOff, GiveUp, Broke
  <2>5. CASE RemoveHooksDir(p)
    <3>1. pc[p] = "empty hooks" /\ UNCHANGED <<hooks, files>> /\ misled' = misled
      BY <2>5 DEF RemoveHooksDir, GlobalAt
    <3>2. CASE BreakOff(p)
      <4>1. GlobalFrame(p) /\ Broke(p)  BY <2>4, <3>1, <3>2
      <4>2. AtRemoveHooksDir(p)  BY <2>1, <2>2, <3>1, <4>1 DEF AtRemoveHooksDir
      <4> QED  BY <4>1, <4>2 DEF AtOne, AtRemoval
    <3>3. CASE ~BreakOff(p)
      <4>1. HooksGone /\ made' = made \ {Default} /\ Go(p, "remove entries") /\ UNCHANGED <<left, brokenOff>>
        BY <2>5, <3>3 DEF RemoveHooksDir
      <4>2. GlobalFrame(p) /\ WentTo(p, "remove entries")  BY <1>c, <2>1, <4>1
      <4>3. AtRemoveHooksDir(p)  BY <2>1, <2>2, <3>1, <4>1, <4>2 DEF AtRemoveHooksDir, SameWork
      <4> QED  BY <4>2, <4>3 DEF AtOne, AtRemoval
    <3> QED  BY <3>2, <3>3
  <2>6. CASE RemoveTemplate(p)
    <3>1. pc[p] = "remove entries" /\ UNCHANGED <<hooks, files>> /\ misled' = misled /\ left[p] = {}
      BY <2>6 DEF RemoveTemplate, GlobalAt
    <3>2. CASE BreakOff(p)
      <4>1. GlobalFrame(p) /\ Broke(p)  BY <2>4, <3>1, <3>2
      <4>2. AtRemoveTemplate(p)  BY <2>1, <2>2, <3>1, <4>1 DEF AtRemoveTemplate
      <4> QED  BY <4>1, <4>2 DEF AtOne, AtRemoval
    <3>3. CASE ~BreakOff(p)
      <4>1. ~TemplateExists /\ Go(p, "unset") /\ UNCHANGED <<made, left, brokenOff>>
        BY <2>2, <2>6, <3>3, AfterSteps DEF RemoveTemplate
      <4>2. GlobalFrame(p) /\ WentTo(p, "unset")  BY <1>c, <2>1, <4>1
      <4>3. AtRemoveTemplate(p)  BY <2>1, <2>2, <3>1, <4>1, <4>2 DEF AtRemoveTemplate, SameWork
      <4> QED  BY <4>2, <4>3 DEF AtOne, AtRemoval
    <3> QED  BY <3>2, <3>3
  <2> QED  BY <1>13, <2>3, <2>5, <2>6
<1> QED  BY <1>1, <1>2, <1>3, <1>4, <1>5, <1>6, <1>7, <1>9, <1>10, <1>11, <1>12, <1>13 DEF GlobalStep

\* In short: where the process gets to, and what becomes of the rest.
LEMMA GlobalStepSummary ==
    ASSUME NEW p \in Procs, AtOne(p), TypeOK
    PROVE  /\ pc[p] \in {"query"} \cup OnlyInstall \cup OnlyUninstall
           /\ pc'[p] \in {"config", "claimed", "include", "add", "seed", "copy", "unset", "forget", "idle",
                          First(op[p])} \cup RemovalSteps
           /\ then'[p] \in {"idle", "claimed", "check", then[p]}
           /\ setting' = setting
           /\ SameConfig \/ AtConfig(p) \/ AtAdd(p) \/ AtUnset(p) \/ AtForget(p)
           /\ hooks' = hooks \/ AtRemoveListedHook(p)
           /\ files' = files \/ AtCopyStock(p) \/ AtRemoveFile(p)
           /\ \/ made' = made
              \/ made' = made \cup {Default} /\ (AtSeed(p) \/ AtCopyStock(p))
              \/ made' = made \ {Default} /\ HooksGone /\ hooks' = hooks /\ op[p] = "uninstall"
           /\ left' = left \/ \E entries : left' = [left EXCEPT ![p] = entries]
           /\ brokenOff' \in {TRUE, brokenOff} /\ misled' \in {TRUE, misled}
           /\ outcome'[p] \in {"ok", "failed"} => quiet[p] \/ outcome'[p] = outcome[p]
<1> USE DEF SameConfig, SameFiles, SameWork, Listed, WentTo, ToHooks, Ended, OnlyInstall, OnlyUninstall,
    RemovalSteps
<1>1. CASE AtQuery(p) \/ AtConfig(p) \/ AtInclude(p) \/ AtAdd(p)
  BY <1>1 DEF AtQuery, AtConfig, AtInclude, AtAdd
<1>2. CASE AtSeed(p) \/ AtCopyStock(p) \/ AtCopyFails(p) \/ AtEndCopy(p)
  BY <1>2 DEF AtSeed, AtCopyStock, AtCopyFails, AtEndCopy
<1>3. CASE AtClaimed(p) \/ AtCheck(p) \/ AtUnset(p) \/ AtForget(p)
  BY <1>3 DEF AtClaimed, AtCheck, AtUnset, AtForget
<1>4. CASE AtListTemplate(p) \/ AtRemoveFile(p) \/ AtListHooks(p)
  BY <1>4 DEF AtListTemplate, AtRemoveFile, AtListHooks
<1>5. CASE AtRemoveListedHook(p) \/ AtRemoveHooksDir(p) \/ AtRemoveTemplate(p)
  BY <1>5 DEF AtRemoveListedHook, AtRemoveHooksDir, AtRemoveTemplate, Broke
<1> QED  BY <1>1, <1>2, <1>3, <1>4, <1>5 DEF AtOne, AtInstall, AtRemoval

-----------------------------------------------------------------------------
(* What users put in the hooks and files, and the types.                      *)

\* A process copies stock files only, and removes a template directory only when
\* it holds nothing of its user's.
TemplateInv ==
    /\ \A f \in UserFiles : files[f] # "stock"
    /\ files["leftover"] # "yours"
    /\ \A p \in Procs : pc[p] = "copy" => left[p] \subseteq StockFiles
    /\ \A p \in Procs : pc[p] \in RemovalSteps =>
         /\ \A name \in Names : yours[Default][name] = <<>>
         /\ \A f \in UserFiles : files[f] # "yours"

LEMMA GlobalStepKeepsHooks ==
    ASSUME HooksInv, ControlInv, TemplateInv, NEW p \in Procs, GlobalStep(p)
    PROVE  HooksInv'
<1>0. TypeOK /\ StepsInv /\ GlobalFrame(p) /\ AtOne(p) /\ Default \in Dirs
  BY GlobalSteps, TemplateDirs DEF HooksInv
<1>1. /\ pc'[p] \in {"config", "claimed", "include", "add", "seed", "copy", "unset", "forget", "idle",
                     First(op[p])} \cup RemovalSteps
      /\ then'[p] \in {"idle", "claimed", "check", then[p]}
      /\ hooks' = hooks \/ AtRemoveListedHook(p)
      /\ \/ made' = made
         \/ made' = made \cup {Default}
         \/ made' = made \ {Default} /\ HooksGone /\ hooks' = hooks
  BY <1>0, GlobalStepSummary
<1>2. /\ hooks' \in [Dirs -> [Names -> Files]] /\ made' \subseteq Dirs
      /\ \A d \in Dirs, name \in Names : Fitting(d, name)'
  <2>1. /\ hooks \in [Dirs -> [Names -> Files]] /\ made \subseteq Dirs /\ yours' = yours
        /\ \A d \in Dirs, name \in Names : Fitting(d, name)
    BY <1>0, FittingHooks DEF TypeOK, Files, GlobalFrame
  <2>2. CASE hooks' = hooks /\ made \subseteq made' /\ made' \subseteq made \cup {Default}
    BY <1>0, <2>1, <2>2 DEF Fitting
  <2>3. CASE made' = made \ {Default} /\ HooksGone /\ hooks' = hooks
    <3>1. \A d \in Dirs, name \in Names : hooks[d][name] # Absent => d \in made'
      BY <2>1, <2>3 DEF Fitting, HooksGone
    <3> QED  BY <2>1, <2>3, <3>1 DEF Fitting
  <2>4. CASE AtRemoveListedHook(p)
    <3>1. PICK name \in Names : hooks' = [hooks EXCEPT ![Default][name] = Absent]
      BY <2>4 DEF AtRemoveListedHook
    <3>2. yours[Default][name] = <<>> /\ made' = made
      BY <2>4 DEF AtRemoveListedHook, TemplateInv, RemovalSteps
    <3>3. /\ hooks' \in [Dirs -> [Names -> Files]]
          /\ hooks'[Default][name] = Absent
          /\ \A d \in Dirs, other \in Names :
                d # Default \/ other # name => hooks'[d][other] = hooks[d][other]
      BY <1>0, <2>1, <3>1, AbsentFacts, WriteHook
    <3>4. ASSUME NEW d \in Dirs, NEW other \in Names PROVE Fitting(d, other)'
      <4>1. CASE d = Default /\ other = name  BY <2>1, <3>2, <3>3, <4>1, AbsentFacts DEF Fitting
      <4>2. CASE d # Default \/ other # name
        <5>1. hooks'[d][other] = hooks[d][other]  BY <3>3, <4>2
        <5> QED  BY <2>1, <3>2, <5>1 DEF Fitting
      <4> QED  BY <4>1, <4>2
    <3> QED  BY <2>1, <3>2, <3>3, <3>4
  <2>5. \/ hooks' = hooks /\ made \subseteq made' /\ made' \subseteq made \cup {Default}
        \/ made' = made \ {Default} /\ HooksGone /\ hooks' = hooks
        \/ AtRemoveListedHook(p)
    BY <1>1
  <2> QED  BY <2>2, <2>3, <2>4, <2>5
<1>3. /\ UNCHANGED <<op, quiet, targets, at, expected, contents, failed, yours, commands, edits, failures>>
      /\ pc' \in [Procs -> PCs] /\ dir' \in [Procs -> Dirs] /\ then' \in [Procs -> PCs]
      /\ outcome' \in [Procs -> {"none", "ok", "failed", "stopped", "killed"}]
      /\ \A q \in Procs \ {p} : pc'[q] = pc[q] /\ dir'[q] = dir[q] /\ then'[q] = then[q]
  BY <1>0 DEF GlobalFrame
<1>4. TypeOK'
  <2>1. hooks' \in [Dirs -> [Names -> [lines : Seq(Lines), executable : BOOLEAN]]]  BY <1>2 DEF Files
  <2>2. \A d \in Dirs \ made', name \in Names : hooks'[d][name] = Absent  BY <1>2 DEF Fitting
  <2> QED  BY <1>0, <1>2, <1>3, <2>1, <2>2 DEF TypeOK
<1>5. StepsInv'
  <2>1. \A q \in Procs \ {p} : pc'[q] = pc[q] /\ then'[q] = then[q] /\ op'[q] = op[q]  BY <1>3
  <2>2. then[p] \in {"idle", "claimed", "check"} /\ op[p] \in {"install", "uninstall"} /\ op'[p] = op[p]
    BY <1>0, <1>3 DEF StepsInv, TypeOK
  <2> QED  BY <1>0, <1>1, <2>1, <2>2 DEF StepsInv, First, RemovalSteps
<1>6. \A q \in Procs : Reading(q)'
  <2>1. pc'[p] \notin {"compare", "rename", "remove"}  BY <1>1 DEF First, RemovalSteps
  <2>2. \A q \in Procs : \/ pc'[q] \notin {"compare", "rename", "remove"}
                         \/ /\ pc'[q] = pc[q] /\ at'[q] = at[q] /\ dir'[q] = dir[q] /\ op'[q] = op[q]
                            /\ expected'[q] = expected[q] /\ contents'[q] = contents[q]
    BY <1>3, <2>1
  <2>3. \A q \in Procs : Reading(q)  BY HooksInvParts
  <2> QED  BY <1>3, <2>2, <2>3, ElsewhereReading
<1> QED  BY <1>2, <1>4, <1>5, <1>6, HooksInvFrom

TemplateFiles == StockFiles \cup Foreign
FileStates == {"absent", "stock", "yours"}
Entries == TemplateFiles \cup Names \cup {"hooks"}
ConfigTypeOK ==
    /\ setting \in {"none", "before", "after"}
    /\ include \in BOOLEAN /\ includes \in 0 .. MaxIncludes /\ opConfig \in BOOLEAN

LEMMA FileFacts ==
    /\ "leftover" \in Foreign /\ UserFiles \subseteq Foreign /\ Foreign \subseteq TemplateFiles
    /\ StockFiles \subseteq TemplateFiles /\ StockFiles \cap Foreign = {}
BY TemplatesAssumption DEF TemplateFiles, Foreign

\* One file changes, in either command.
LEMMA ChangeFile ==
    ASSUME GlobalTypeOK, NEW f \in TemplateFiles, NEW state \in FileStates,
           files' = [files EXCEPT ![f] = state]
    PROVE  /\ files' \in [TemplateFiles -> FileStates] /\ files'[f] = state
           /\ \A g \in TemplateFiles \ {f} : files'[g] = files[g]
BY DEF GlobalTypeOK, TemplateFiles, FileStates

\* What copying and removing do to the files.
LEMMA CopyFacts ==
    ASSUME GlobalTypeOK, TemplateInv, NEW p \in Procs, AtCopyStock(p)
    PROVE  \E f \in StockFiles :
             /\ f \in left[p] /\ left' = [left EXCEPT ![p] = left[p] \ {f}]
             /\ files' \in [TemplateFiles -> FileStates]
             /\ files'[f] = IF files[f] = "absent" THEN "stock" ELSE files[f]
             /\ \A g \in TemplateFiles \ {f} : files'[g] = files[g]
<1>1. PICK f \in left[p] : files' = [files EXCEPT ![f] = CopyAbsent(f)] /\ Listed(p, left[p] \ {f})
  BY DEF AtCopyStock
<1>2. f \in StockFiles /\ f \in TemplateFiles
  BY <1>1, FileFacts DEF AtCopyStock, TemplateInv
<1>3. CopyAbsent(f) = (IF files[f] = "absent" THEN "stock" ELSE files[f]) /\ CopyAbsent(f) \in FileStates
  BY <1>2 DEF CopyAbsent, GlobalTypeOK, FileStates, TemplateFiles
<1>4. /\ files' \in [TemplateFiles -> FileStates] /\ files'[f] = CopyAbsent(f)
      /\ \A g \in TemplateFiles \ {f} : files'[g] = files[g]
  BY <1>1, <1>2, <1>3, ChangeFile
<1> QED  BY <1>1, <1>2, <1>3, <1>4 DEF Listed

LEMMA RemoveFacts ==
    ASSUME GlobalTypeOK, NEW p \in Procs, AtRemoveFile(p)
    PROVE  \E f \in TemplateFiles :
             /\ files' \in [TemplateFiles -> FileStates] /\ files'[f] = "absent"
             /\ \A g \in TemplateFiles \ {f} : files'[g] = files[g]
<1>1. PICK f \in DOMAIN files : files' = [files EXCEPT ![f] = "absent"]  BY DEF AtRemoveFile
<1>2. f \in TemplateFiles /\ "absent" \in FileStates  BY DEF GlobalTypeOK, TemplateFiles, FileStates
<1> QED  BY <1>1, <1>2, ChangeFile

\* What a step leaves a process to copy or to remove.
LEMMA LeftFacts ==
    ASSUME TypeOK, GlobalTypeOK, NEW p \in Procs, GlobalFrame(p), AtOne(p)
    PROVE  /\ left' \in [Procs -> SUBSET Entries]
           /\ \A q \in Procs \ {p} : left'[q] = left[q]
           /\ left'[p] # {} => pc'[p] \in {"copy", "remove entries", "empty hooks"}
           /\ pc'[p] = "copy" => left'[p] = StockFiles \/ (pc[p] = "copy" /\ left'[p] \subseteq left[p])
<1>0. /\ left \in [Procs -> SUBSET Entries] /\ StockFiles \subseteq Entries /\ Names \subseteq Entries
      /\ left[p] # {} => pc[p] \in {"copy", "remove entries", "empty hooks"}
      /\ Present \cup (IF Default \in made THEN {"hooks"} ELSE {}) \subseteq Entries
  BY DEF GlobalTypeOK, Entries, TemplateFiles, Present
<1> DEFINE Becomes(entries) == left' = [left EXCEPT ![p] = entries]
<1> USE DEF WentTo, ToHooks, Ended, First
<1>a. ASSUME NEW entries \in SUBSET Entries, Becomes(entries)
      PROVE  /\ left' \in [Procs -> SUBSET Entries] /\ left'[p] = entries
             /\ \A q \in Procs \ {p} : left'[q] = left[q]
  BY <1>0, <1>a
<1> HIDE DEF Becomes
<1>b. ASSUME left' = left PROVE Becomes(left[p])  BY <1>0, <1>b DEF Becomes
<1> DEFINE Right(entries) ==
      /\ entries \in SUBSET Entries /\ Becomes(entries)
      /\ entries # {} => pc'[p] \in {"copy", "remove entries", "empty hooks"}
      /\ pc'[p] = "copy" => entries = StockFiles \/ (pc[p] = "copy" /\ entries \subseteq left[p])
<1>c. ASSUME left' = left, pc'[p] # "copy",
             left[p] # {} => pc'[p] \in {"remove entries", "empty hooks"}
      PROVE  \E entries : Right(entries)
  <2>1. Right(left[p])  BY <1>0, <1>b, <1>c
  <2> QED  BY <2>1
<1>d. ASSUME NEW entries \in SUBSET Entries, Listed(p, entries),
             entries # {} => pc'[p] \in {"copy", "remove entries", "empty hooks"},
             pc'[p] = "copy" => entries = StockFiles \/ (pc[p] = "copy" /\ entries \subseteq left[p])
      PROVE  \E e : Right(e)
  <2>1. Right(entries)  BY <1>d DEF Listed, Becomes
  <2> QED  BY <2>1
<1>e. ASSUME Broke(p) PROVE \E entries : Right(entries)
  <2>1. Right({})  BY <1>e DEF Broke, Becomes
  <2> QED  BY <2>1
<1> SUFFICES \E entries : Right(entries)
  BY <1>a
<1> HIDE DEF Right
<1>1. CASE AtQuery(p) \/ AtConfig(p) \/ AtInclude(p) \/ AtAdd(p)
  <2>1. left' = left /\ pc'[p] # "copy" /\ left[p] = {}
    BY <1>0, <1>1 DEF AtQuery, AtConfig, AtInclude, AtAdd, SameWork
  <2> QED  BY <1>c, <2>1
<1>2. CASE AtClaimed(p) \/ AtCheck(p) \/ AtUnset(p) \/ AtForget(p)
  <2>1. left' = left /\ pc'[p] # "copy" /\ left[p] = {}
    BY <1>0, <1>2 DEF AtClaimed, AtCheck, AtUnset, AtForget, SameWork
  <2> QED  BY <1>c, <2>1
<1>3. CASE AtSeed(p)  BY <1>0, <1>3, <1>d DEF AtSeed
<1>4. CASE AtCopyStock(p)
  <2>1. PICK f \in left[p] : Listed(p, left[p] \ {f})  BY <1>4 DEF AtCopyStock
  <2>2. left[p] \ {f} \in SUBSET Entries /\ left[p] \ {f} \subseteq left[p]  BY <1>0
  <2>3. pc'[p] = "copy" /\ pc[p] = "copy"  BY <1>4 DEF AtCopyStock
  <2> QED  BY <1>d, <2>1, <2>2, <2>3
<1>5. CASE AtCopyFails(p)
  <2>1. Listed(p, {}) /\ pc'[p] # "copy"  BY <1>5 DEF AtCopyFails
  <2> QED  BY <1>d, <2>1
<1>6. CASE AtEndCopy(p)
  <2>1. left' = left /\ pc'[p] # "copy" /\ left[p] = {}  BY <1>6 DEF AtEndCopy, SameWork
  <2> QED  BY <1>c, <2>1
<1>7. CASE AtListTemplate(p)
  <2> DEFINE entries == Present \cup (IF Default \in made THEN {"hooks"} ELSE {})
  <2>1. Listed(p, entries) /\ entries \in SUBSET Entries /\ pc'[p] # "copy"
    BY <1>0, <1>7 DEF AtListTemplate
  <2>2. entries # {} => pc'[p] = "remove entries"
    BY <1>7 DEF AtListTemplate, TemplateExists
  <2> HIDE DEF entries
  <2> QED  BY <1>d, <2>1, <2>2
<1>8. CASE AtRemoveFile(p) \/ AtListHooks(p) \/ AtRemoveListedHook(p)
  <2>1. PICK entries : Listed(p, entries) /\ entries \subseteq left[p] \cup Names
    <3>1. CASE AtRemoveFile(p)
      <4>1. PICK f : Listed(p, left[p] \ {f})  BY <3>1 DEF AtRemoveFile
      <4> QED  BY <4>1
    <3>2. CASE AtListHooks(p)
      <4>1. Listed(p, (left[p] \ {"hooks"}) \cup {name \in Names : hooks[Default][name] # Absent})
        BY <3>2 DEF AtListHooks
      <4> QED  BY <4>1
    <3>3. CASE AtRemoveListedHook(p)
      <4>1. PICK name \in Names : Listed(p, left[p] \ {name})  BY <3>3 DEF AtRemoveListedHook
      <4> QED  BY <4>1
    <3> QED  BY <1>8, <3>1, <3>2, <3>3
  <2>2. pc'[p] \in {"remove entries", "empty hooks"}
    BY <1>8 DEF AtRemoveFile, AtListHooks, AtRemoveListedHook
  <2>3. entries \in SUBSET Entries  BY <1>0, <2>1
  <2> QED  BY <1>d, <2>1, <2>2, <2>3
<1>9. CASE AtRemoveHooksDir(p) \/ AtRemoveTemplate(p)
  <2>1. CASE Broke(p)  BY <1>e, <2>1
  <2>2. CASE ~Broke(p)
    <3>1. left' = left /\ pc'[p] # "copy" /\ (left[p] # {} => pc'[p] = "remove entries")
      BY <1>9, <2>2 DEF AtRemoveHooksDir, AtRemoveTemplate, SameWork
    <3> QED  BY <1>c, <3>1
  <2> QED  BY <2>1, <2>2
<1> QED
  BY <1>1, <1>2, <1>3, <1>4, <1>5, <1>6, <1>7, <1>8, <1>9 DEF AtOne, AtInstall, AtRemoval

LEMMA GlobalStepKeepsTemplate ==
    ASSUME HooksInv, ControlInv, GlobalTypeOK, TemplateInv, NEW p \in Procs, GlobalStep(p), Unobserved
    PROVE  GlobalTypeOK' /\ TemplateInv'
<1>0. /\ TypeOK /\ GlobalFrame(p) /\ AtOne(p)
      /\ global' \in [Procs -> BOOLEAN] /\ overlapped' \in BOOLEAN
      /\ files \in [TemplateFiles -> FileStates] /\ ConfigTypeOK
      /\ 0 \in 0 .. MaxIncludes
      /\ brokenOff \in BOOLEAN /\ misled \in BOOLEAN
      /\ yours' = yours /\ \A q \in Procs \ {p} : pc'[q] = pc[q]
  <2>1. TypeOK /\ GlobalFrame(p) /\ AtOne(p)  BY GlobalSteps DEF HooksInv
  <2>2. /\ global' \in [Procs -> BOOLEAN] /\ overlapped' \in BOOLEAN
        /\ files \in [TemplateFiles -> FileStates] /\ ConfigTypeOK
        /\ brokenOff \in BOOLEAN /\ misled \in BOOLEAN
    BY DEF GlobalTypeOK, Unobserved, ConfigTypeOK, FileStates, TemplateFiles
  <2>3. 0 \in 0 .. MaxIncludes  BY TemplatesAssumption
  <2> QED  BY <2>1, <2>2, <2>3 DEF GlobalFrame
<1>1. ConfigTypeOK'
  <2>1. setting' = setting /\ (SameConfig \/ AtConfig(p) \/ AtAdd(p) \/ AtUnset(p) \/ AtForget(p))
    BY <1>0, GlobalStepSummary
  <2> QED  BY <1>0, <2>1 DEF SameConfig, AtConfig, AtAdd, AtUnset, AtForget, ConfigTypeOK
<1>2. brokenOff' \in BOOLEAN /\ misled' \in BOOLEAN
  <2>1. brokenOff' \in {TRUE, brokenOff} /\ misled' \in {TRUE, misled}  BY <1>0, GlobalStepSummary
  <2> QED  BY <1>0, <2>1
<1>3. /\ files' \in [TemplateFiles -> FileStates]
      /\ \A f \in Foreign : files'[f] = files[f] \/ files'[f] = "absent"
  <2>1. CASE files' = files  BY <1>0, <2>1
  <2>2. CASE AtCopyStock(p)
    <3>1. PICK f \in StockFiles : /\ files' \in [TemplateFiles -> FileStates]
                                  /\ \A g \in TemplateFiles \ {f} : files'[g] = files[g]
      BY <2>2, CopyFacts
    <3>2. f \notin Foreign  BY FileFacts
    <3> QED  BY <3>1, <3>2, FileFacts
  <2>3. CASE AtRemoveFile(p)  BY <2>3, RemoveFacts, FileFacts
  <2> QED  BY <1>0, <2>1, <2>2, <2>3, GlobalStepSummary
<1>4. /\ left' \in [Procs -> SUBSET Entries]
      /\ \A q \in Procs \ {p} : left'[q] = left[q]
      /\ left'[p] # {} => pc'[p] \in {"copy", "remove entries", "empty hooks"}
      /\ pc'[p] = "copy" => left'[p] = StockFiles \/ (pc[p] = "copy" /\ left'[p] \subseteq left[p])
  BY <1>0, LeftFacts
<1>5. GlobalTypeOK'
  <2>1. \A q \in Procs : left'[q] # {} => pc'[q] \in {"copy", "remove entries", "empty hooks"}
    BY <1>0, <1>4 DEF GlobalTypeOK
  <2> QED
    BY <1>0, <1>1, <1>2, <1>3, <1>4, <2>1 DEF GlobalTypeOK, ConfigTypeOK, FileStates, TemplateFiles, Entries
<1>6. TemplateInv'
  <2>1. ASSUME NEW q \in Procs, pc'[q] \in RemovalSteps
        PROVE  /\ \A name \in Names : yours[Default][name] = <<>>
               /\ \A f \in UserFiles : files'[f] # "yours"
    <3>1. CASE pc[q] \in RemovalSteps  BY <1>3, <3>1, FileFacts DEF TemplateInv
    <3>2. CASE pc[q] \notin RemovalSteps
      <4>1. q = p  BY <1>0, <2>1, <3>2
      <4>2. AtCheck(p) /\ pc'[p] = "remove template"
        <5> USE DEF WentTo, ToHooks, Ended, First, RemovalSteps
        <5>1. CASE AtQuery(p) \/ AtInstall(p)
          BY <2>1, <4>1, <5>1 DEF AtQuery, AtInstall, AtConfig, AtInclude, AtAdd, AtSeed, AtCopyStock,
             AtCopyFails, AtEndCopy
        <5>2. CASE AtClaimed(p) \/ AtUnset(p) \/ AtForget(p)
          BY <2>1, <4>1, <5>2 DEF AtClaimed, AtUnset, AtForget
        <5>3. CASE AtRemoval(p)
          BY <3>2, <4>1, <5>3 DEF AtRemoval, AtListTemplate, AtRemoveFile, AtListHooks, AtRemoveListedHook,
             AtRemoveHooksDir, AtRemoveTemplate
        <5>4. CASE AtCheck(p)  BY <2>1, <4>1, <5>4 DEF AtCheck
        <5> QED  BY <1>0, <5>1, <5>2, <5>3, <5>4 DEF AtOne
      <4>3. Unmodified /\ HooksGone /\ files' = files  BY <4>2 DEF AtCheck, WentTo, SameFiles
      <4>4. \A name \in Names : hooks[Default][name] = Absent  BY <4>3 DEF HooksGone
      <4>5. \A f \in UserFiles : files[f] # "yours"
        BY <1>0, <4>3, FileFacts DEF Unmodified, Present
      <4>6. \A name \in Names : Yours(hooks[Default][name].lines) = yours[Default][name]
        BY TemplateDirs DEF HooksInv, YoursKept
      <4> QED  BY <4>3, <4>4, <4>5, <4>6, AbsentFacts
    <3> QED  BY <3>1, <3>2
  <2>2. ASSUME NEW q \in Procs, pc'[q] = "copy" PROVE left'[q] \subseteq StockFiles
    BY <1>0, <1>4, <2>2 DEF TemplateInv
  <2>3. /\ \A f \in UserFiles : files'[f] # "stock"
        /\ files'["leftover"] # "yours"
    BY <1>3, FileFacts DEF TemplateInv
  <2> QED  BY <1>0, <2>1, <2>2, <2>3 DEF TemplateInv
<1> QED  BY <1>5, <1>6

\* The actions, sorted by what they have in common.
UserActs ==
    /\ Edit /\ Unobserved /\ SameWork /\ made \subseteq made' /\ made' \subseteq Dirs
    /\ \/ /\ UNCHANGED <<hooks, made, yours, include, opConfig, files>>
          /\ setting' \in {"none", "before", "after"} /\ includes' \in 0 .. MaxIncludes
       \/ /\ UNCHANGED <<hooks, yours, setting, include, includes, opConfig>> /\ Default \in made'
          /\ \E f \in StockFiles \cup UserFiles : files' = [files EXCEPT ![f] = "yours"]
       \/ /\ SameConfig /\ files' = files
          /\ \E d \in Dirs \cap (LocalDirs \cup {TemplateDir}) : EditHook(d)

Starts(p, isGlobal) ==
    /\ Observed(p, isGlobal) /\ SameConfig /\ files' = files /\ SameWork
    /\ \/ isGlobal = FALSE /\ Begin(p)
       \/ /\ isGlobal = TRUE /\ UNCHANGED <<dir, then>>
          /\ \E what \in {"install", "uninstall"} :
                Start(p, what, "query",
                      (Dirs \cap {TemplateDir}) \cup (IF opConfig THEN {Default} ELSE {}))

\* A step of the hooks, of either kind of command.
HookStep(p) == Step(p) /\ Unobserved /\ SameConfig /\ files' = files /\ SameWork

LEMMA GlobalActions ==
    ASSUME TypeOK, GlobalTypeOK, [GlobalNext]_globalVars
    PROVE  \/ UserActs
           \/ \E p \in Procs, isGlobal \in BOOLEAN : Starts(p, isGlobal)
           \/ \E p \in Procs : GlobalStep(p) /\ Unobserved
           \/ \E p \in Procs : HookStep(p)
           \/ \E p \in Procs : GlobalFail(p) /\ Unobserved
           \/ UNCHANGED globalVars
<1> USE DEF SameConfig, SameWork
<1>0. made \subseteq Dirs /\ Default \in Dirs  BY TemplateDirs DEF TypeOK
<1>1. CASE SetTemplateDir /\ Unobserved
  BY <1>0, <1>1 DEF SetTemplateDir, UserActs, GlobalTypeOK, work
<1>2. CASE EditIncludes /\ Unobserved
  BY <1>0, <1>2 DEF EditIncludes, UserActs, GlobalTypeOK, work
<1>3. CASE EditTemplate /\ Unobserved
  <2>1. /\ Edit /\ UNCHANGED <<hooks, yours, setting, include, includes, opConfig>> /\ SameWork
        /\ made' = made \cup {Default}
        /\ \E f \in StockFiles \cup UserFiles : files' = [files EXCEPT ![f] = "yours"]
    BY <1>3 DEF EditTemplate, config, work
  <2>2. made \subseteq made' /\ made' \subseteq Dirs /\ Default \in made'  BY <1>0, <2>1
  <2> QED  BY <1>3, <2>1, <2>2 DEF UserActs
<1>4. CASE EditUsedHook /\ Unobserved
  <2>1. /\ SameConfig /\ files' = files /\ SameWork
        /\ \E d \in Dirs \cap (LocalDirs \cup {TemplateDir}) : EditHook(d)
    BY <1>4 DEF EditUsedHook, config, work
  <2>2. Edit /\ made \subseteq made' /\ made' \subseteq Dirs  BY <1>0, <2>1 DEF EditHook
  <2> QED  BY <1>4, <2>1, <2>2 DEF UserActs
<1>5. ASSUME NEW p \in Procs, BeginGlobal(p), Observed(p, TRUE) PROVE Starts(p, TRUE)
  BY <1>5 DEF BeginGlobal, Starts, config, work
<1>6. ASSUME NEW p \in Procs, Begin(p), Observed(p, FALSE), UNCHANGED <<config, files, work>>
      PROVE  Starts(p, FALSE)
  BY <1>6 DEF Starts, config, work
<1>7. CASE Rest /\ Unobserved /\ UNCHANGED <<config, files, work>>
  BY <1>7 DEF Rest, Unobserved, globalVars, work
<1>8. ASSUME NEW p \in Procs, Step(p), Unobserved, UNCHANGED <<config, files, work>>
      PROVE  HookStep(p)
  BY <1>8 DEF HookStep, config, work
<1> QED  BY <1>1, <1>2, <1>3, <1>4, <1>5, <1>6, <1>7, <1>8 DEF GlobalNext

LEMMA UsersKeepTemplate ==
    ASSUME HooksInv, GlobalTypeOK, TemplateInv, UserActs
    PROVE  HooksInv' /\ GlobalTypeOK' /\ TemplateInv'
<1>0. /\ TypeOK /\ Edit /\ Unobserved /\ SameWork /\ made \subseteq made' /\ made' \subseteq Dirs
      /\ pc' = pc /\ \A p \in Procs : pc[p] = "idle"
      /\ files \in [TemplateFiles -> FileStates]
  BY DEF HooksInv, UserActs, Edit, GlobalTypeOK, FileStates, TemplateFiles
<1>1. HooksInv'
  <2>1. CASE UNCHANGED <<hooks, yours>>
    <3>1. /\ hooks' \in [Dirs -> [Names -> Files]] /\ yours' \in [Dirs -> [Names -> Seq(Lines)]]
      BY <1>0, <2>1 DEF TypeOK, Files
    <3>2. \A d \in Dirs, name \in Names : Fitting(d, name)'
      BY <1>0, <2>1, FittingHooks DEF Fitting
    <3> QED  BY <1>0, <3>1, <3>2, EditKeepsHooks
  <2>2. CASE \E d \in Dirs : EditHook(d)  BY <2>2, EditHookKeepsHooks
  <2> QED  BY <2>1, <2>2 DEF UserActs
<1>2. /\ setting' \in {"none", "before", "after"} /\ include' = include
      /\ includes' \in 0 .. MaxIncludes /\ opConfig' = opConfig
  BY <1>0 DEF UserActs, GlobalTypeOK, SameConfig
<1>3. /\ files' \in [TemplateFiles -> FileStates]
      /\ \A f \in TemplateFiles : files'[f] = files[f] \/ (files'[f] = "yours" /\ f # "leftover")
  <2>1. CASE files' = files  BY <1>0, <2>1
  <2>2. CASE \E f \in StockFiles \cup UserFiles : files' = [files EXCEPT ![f] = "yours"]
    <3>1. PICK f \in StockFiles \cup UserFiles : files' = [files EXCEPT ![f] = "yours"]  BY <2>2
    <3>2. f \in TemplateFiles /\ f # "leftover" /\ "yours" \in FileStates
      BY FileFacts, TemplatesAssumption DEF FileStates
    <3>3. files'[f] = "yours" /\ \A g \in TemplateFiles \ {f} : files'[g] = files[g]
      BY <3>1, <3>2, ChangeFile
    <3> QED  BY <3>1, <3>2, <3>3, ChangeFile
  <2> QED  BY <2>1, <2>2 DEF UserActs
<1>4. GlobalTypeOK'
  BY <1>0, <1>2, <1>3 DEF GlobalTypeOK, Unobserved, FileStates, TemplateFiles, SameWork
<1>5. TemplateInv'
  <2>1. \A f \in UserFiles : files'[f] # "stock"  BY <1>3, FileFacts DEF TemplateInv
  <2>2. files'["leftover"] # "yours"  BY <1>3, FileFacts DEF TemplateInv
  <2> QED  BY <1>0, <2>1, <2>2 DEF TemplateInv, RemovalSteps
<1> QED  BY <1>1, <1>4, <1>5

LEMMA StartsKeepTemplate ==
    ASSUME HooksInv, GlobalTypeOK, TemplateInv, NEW p \in Procs, NEW isGlobal \in BOOLEAN,
           Starts(p, isGlobal)
    PROVE  HooksInv' /\ GlobalTypeOK' /\ TemplateInv'
<1>0. TypeOK /\ Default \in Dirs  BY TemplateDirs DEF HooksInv
<1>1. HooksInv'
  <2>1. CASE Begin(p)  BY <2>1, BeginKeepsHooks
  <2>2. ASSUME NEW what \in {"install", "uninstall"}, NEW on \in SUBSET Dirs,
               Start(p, what, "query", on), UNCHANGED <<dir, then>>
        PROVE  HooksInv'
    <3>1. "query" \in {First(what), "query"}  OBVIOUS
    <3> QED  BY <2>2, <3>1, StartKeepsHooks
  <2>3. (Dirs \cap {TemplateDir}) \cup (IF opConfig THEN {Default} ELSE {}) \in SUBSET Dirs
    BY <1>0
  <2> QED  BY <2>1, <2>2, <2>3 DEF Starts
<1>2. \E what \in {"install", "uninstall"} : \E step \in {First(what), "query"} :
        \E on : Start(p, what, step, on)
  BY DEF Starts, Begin
<1>3. /\ yours' = yours /\ SameConfig /\ files' = files /\ SameWork
      /\ pc[p] = "idle" /\ pc'[p] \notin RemovalSteps \cup {"copy"}
      /\ \A q \in Procs \ {p} : pc'[q] = pc[q]
  BY <1>0, <1>2 DEF Start, Starts, First, TypeOK, RemovalSteps
<1>4. global' \in [Procs -> BOOLEAN] /\ overlapped' \in BOOLEAN
  <2>1. global' = [global EXCEPT ![p] = isGlobal]
        /\ overlapped' = (overlapped \/ \E q \in Procs \ {p} : pc[q] # "idle" /\ op[q] # op'[p])
    BY DEF Starts, Observed
  <2>2. global' \in [Procs -> BOOLEAN]  BY <2>1 DEF GlobalTypeOK
  <2>3. overlapped' \in BOOLEAN  BY <2>1
  <2> QED  BY <2>2, <2>3
<1>5. \A q \in Procs : left[q] # {} => pc'[q] \in {"copy", "remove entries", "empty hooks"}
  BY <1>3 DEF GlobalTypeOK
<1>6. GlobalTypeOK'  BY <1>3, <1>4, <1>5 DEF GlobalTypeOK, SameConfig, SameWork
<1>7. TemplateInv'  BY <1>3 DEF TemplateInv, SameWork
<1> QED  BY <1>1, <1>6, <1>7

\* A process that is killed leaves its temporary file, at most.
LEMMA GlobalFailFrame ==
    ASSUME TypeOK, GlobalTypeOK, NEW p \in Procs, GlobalFail(p)
    PROVE  /\ Fail(p) /\ SameConfig /\ UNCHANGED <<hooks, made, yours, brokenOff, misled>>
           /\ pc' = [pc EXCEPT ![p] = "idle"] /\ left' = [left EXCEPT ![p] = {}]
           /\ \/ files' = files
              \/ /\ pc[p] \in {"link", "rename"} /\ dir[p] = Default /\ Default \in made
                 /\ files' \in [TemplateFiles -> FileStates] /\ files'["leftover"] = "stock"
                 /\ \A f \in TemplateFiles \ {"leftover"} : files'[f] = files[f]
<1>1. /\ Fail(p) /\ SameConfig /\ UNCHANGED <<hooks, made, yours, brokenOff, misled>>
      /\ pc' = [pc EXCEPT ![p] = "idle"] /\ left' = [left EXCEPT ![p] = {}]
  BY DEF GlobalFail, Fail, End, SameConfig, config
<1>2. CASE files' = files  BY <1>1, <1>2
<1>3. CASE /\ pc[p] \in {"link", "rename"} /\ dir[p] = Default /\ CanWrite(p)
           /\ files' = [files EXCEPT !["leftover"] = "stock"]
  <2>1. "leftover" \in TemplateFiles /\ "stock" \in FileStates  BY FileFacts DEF FileStates
  <2>2. /\ files' \in [TemplateFiles -> FileStates] /\ files'["leftover"] = "stock"
        /\ \A f \in TemplateFiles \ {"leftover"} : files'[f] = files[f]
    BY <1>3, <2>1, ChangeFile
  <2> QED  BY <1>1, <1>3, <2>2 DEF CanWrite
<1> QED  BY <1>2, <1>3 DEF GlobalFail

KeptInv == HooksInv /\ ConfigInv /\ GlobalTypeOK /\ TemplateInv

LEMMA KeptInit == GlobalInit => KeptInv
<1> SUFFICES ASSUME GlobalInit PROVE KeptInv
  OBVIOUS
<1>1. HooksInv /\ ConfigInv  BY InitHooks, ConfigInit DEF GlobalInit
<1>2. /\ files = [f \in TemplateFiles |-> "absent"] /\ left = [p \in Procs |-> {}]
      /\ pc = [p \in Procs |-> "idle"]
  BY DEF GlobalInit, Init, TemplateFiles
<1>3. GlobalTypeOK
  BY <1>2 DEF GlobalInit, GlobalTypeOK, TemplateFiles
<1>4. TemplateInv  BY <1>2, FileFacts DEF TemplateInv, RemovalSteps
<1> QED  BY <1>1, <1>3, <1>4 DEF KeptInv

LEMMA KeptStep == KeptInv /\ [GlobalNext]_globalVars => KeptInv'
<1> SUFFICES ASSUME HooksInv, ConfigInv, GlobalTypeOK, TemplateInv, [GlobalNext]_globalVars PROVE KeptInv'
  BY DEF KeptInv
<1>0. ConfigInv' /\ ControlInv /\ TypeOK  BY ConfigStep DEF ConfigInv, HooksInv
<1>1. CASE UserActs  BY <1>0, <1>1, UsersKeepTemplate DEF KeptInv
<1>2. CASE \E p \in Procs, isGlobal \in BOOLEAN : Starts(p, isGlobal)
  BY <1>0, <1>2, StartsKeepTemplate DEF KeptInv
<1>3. CASE \E p \in Procs : GlobalStep(p) /\ Unobserved
  BY <1>0, <1>3, GlobalStepKeepsHooks, GlobalStepKeepsTemplate DEF KeptInv
<1>4. ASSUME NEW p \in Procs, HookStep(p)
      PROVE  KeptInv'
  <2>0. Step(p) /\ Unobserved /\ SameConfig /\ files' = files /\ SameWork  BY <1>4 DEF HookStep
  <2>1. HooksInv'  BY <2>0, StepKeepsHooks
  <2>2. yours' = yours /\ OthersStay(p) /\ pc[p] \in HookSteps
    BY <1>0, <2>0, StepSteps DEF Stepped
  <2>3. pc'[p] \notin RemovalSteps \cup {"copy"}
    BY <2>0, StepGoes DEF Stay, HookSteps, First, RemovalSteps
  <2>4. \A q \in Procs : left[q] # {} => pc'[q] \in {"copy", "remove entries", "empty hooks"}
    BY <2>2 DEF GlobalTypeOK, OthersStay, HookSteps
  <2>5. GlobalTypeOK'  BY <2>0, <2>4 DEF GlobalTypeOK, SameConfig, SameWork, Unobserved
  <2>6. TemplateInv'  BY <2>0, <2>2, <2>3 DEF TemplateInv, SameWork, OthersStay
  <2> QED  BY <1>0, <2>1, <2>5, <2>6 DEF KeptInv
<1>5. ASSUME NEW p \in Procs, GlobalFail(p), Unobserved
      PROVE  KeptInv'
  <2>0. /\ Fail(p) /\ SameConfig /\ UNCHANGED <<hooks, made, yours, brokenOff, misled>>
        /\ pc' = [pc EXCEPT ![p] = "idle"] /\ left' = [left EXCEPT ![p] = {}]
    BY <1>0, <1>5, GlobalFailFrame
  <2>1. HooksInv'  BY <2>0, FailKeepsHooks
  <2>2. /\ files' \in [TemplateFiles -> FileStates]
        /\ \A f \in TemplateFiles : files'[f] = files[f] \/ (f = "leftover" /\ files'[f] = "stock")
    <3>1. files \in [TemplateFiles -> FileStates]  BY DEF GlobalTypeOK, TemplateFiles, FileStates
    <3> QED  BY <1>0, <1>5, <3>1, GlobalFailFrame
  <2>3. /\ pc'[p] = "idle" /\ left'[p] = {}
        /\ \A q \in Procs \ {p} : pc'[q] = pc[q] /\ left'[q] = left[q]
        /\ left' \in [Procs -> SUBSET Entries]
    BY <1>0, <2>0 DEF TypeOK, GlobalTypeOK, Entries, TemplateFiles
  <2>4. GlobalTypeOK'
    <3>1. \A q \in Procs : left'[q] # {} => pc'[q] \in {"copy", "remove entries", "empty hooks"}
      BY <2>3 DEF GlobalTypeOK
    <3> QED  BY <1>5, <2>0, <2>2, <2>3, <3>1
             DEF GlobalTypeOK, SameConfig, Unobserved, TemplateFiles, FileStates, Entries
  <2>5. TemplateInv'
    <3>1. "leftover" \notin UserFiles  BY TemplatesAssumption
    <3>2. \A f \in UserFiles : files'[f] = files[f]  BY <2>2, <3>1, FileFacts
    <3>3. files'["leftover"] # "yours"  BY <2>2, FileFacts DEF TemplateInv
    <3> QED  BY <2>0, <2>3, <3>2, <3>3 DEF TemplateInv, RemovalSteps
  <2> QED  BY <1>0, <2>1, <2>4, <2>5 DEF KeptInv
<1>6. CASE UNCHANGED globalVars
  <2>1. /\ UNCHANGED <<hooks, made, pc, op, dir, then, at, expected, contents, failed, outcome, yours>>
        /\ UNCHANGED <<quiet, targets, commands, edits, failures>>
        /\ UNCHANGED <<setting, include, includes, opConfig, files, left, brokenOff, misled>>
        /\ UNCHANGED <<global, overlapped>>
    BY <1>6 DEF globalVars, vars, config, work, command, locals, boundVars
  <2>2. HooksInv'
    <3>1. TypeOK'  BY <1>0, <2>1 DEF TypeOK
    <3>2. StepsInv' /\ \A q \in Procs : Reading(q)'
      <4>1. StepsInv /\ \A q \in Procs : Reading(q)  BY HooksInvParts
      <4> QED  BY <2>1, <4>1, ElsewhereReading DEF StepsInv
    <3>3. \A d \in Dirs, name \in Names : Fitting(d, name)'  BY <2>1, FittingHooks DEF Fitting
    <3> QED  BY <3>1, <3>2, <3>3, HooksInvFrom
  <2>3. GlobalTypeOK'  BY <2>1 DEF GlobalTypeOK
  <2>4. TemplateInv'  BY <2>1 DEF TemplateInv
  <2> QED  BY <1>0, <2>2, <2>3, <2>4 DEF KeptInv
<1> QED  BY <1>0, <1>1, <1>2, <1>3, <1>4, <1>5, <1>6, GlobalActions

\* The types, whatever commands run and wherever they die; a directory that
\* does not exist holds no hooks, and what is about to be written holds
\* git-op's command at most once.
THEOREM HookTypes == GlobalSpec => []TypeOK
<1>1. KeptInv => TypeOK  BY DEF KeptInv, HooksInv
<1> QED  BY <1>1, KeptInit, KeptStep, PTL DEF GlobalSpec

\* Those of the claim; and only a process that copies or removes a template
\* directory has entries of it left to do.
THEOREM GlobalTypes == GlobalSpec => []GlobalTypeOK
<1>1. KeptInv => GlobalTypeOK  BY DEF KeptInv
<1> QED  BY <1>1, KeptInit, KeptStep, PTL DEF GlobalSpec

\* No user loses a line of a hook that runs none of git-op's commands, whatever
\* installs and uninstalls overlap and wherever they die: between reading a hook
\* and writing over it, a process holds exactly the user's lines of it, and it
\* removes none that has any.
THEOREM UserLinesAreKept == GlobalSpec => []YoursKept
<1>1. KeptInv => YoursKept  BY DEF KeptInv, HooksInv
<1> QED  BY <1>1, KeptInit, KeptStep, PTL DEF GlobalSpec

\* Nor a file of the template directory, but for the stock files that an
\* uninstall removes with it: a step of copying changes none that is there.
THEOREM TemplateFilesAreKept == GlobalSpec => UserFilesKept
<1> DEFINE Kept1 == \A f \in DOMAIN files : files[f] = "yours" /\ files'[f] # "yours" =>
                       f \in StockFiles /\ Removing # {}
<1>1. ASSUME KeptInv, [GlobalNext]_globalVars PROVE [Kept1]_globalVars
  <2>0. TypeOK /\ ControlInv /\ GlobalTypeOK /\ TemplateInv
        /\ files \in [TemplateFiles -> FileStates] /\ DOMAIN files = TemplateFiles
    BY <1>1 DEF KeptInv, HooksInv, ConfigInv, GlobalTypeOK, FileStates, TemplateFiles
  <2>1. CASE files' = files  BY <2>1
  <2>2. CASE UserActs
    <3>1. CASE files' # files
      <4>1. PICK f \in StockFiles \cup UserFiles : files' = [files EXCEPT ![f] = "yours"]
        BY <2>2, <3>1 DEF UserActs
      <4>2. f \in TemplateFiles /\ "yours" \in FileStates  BY FileFacts DEF FileStates
      <4> QED  BY <2>0, <4>1, <4>2, ChangeFile
    <3> QED  BY <2>1, <3>1
  <2>3. ASSUME NEW p \in Procs, GlobalStep(p) PROVE Kept1
    <3>1. AtOne(p)  BY <2>0, <2>3, GlobalSteps
    <3>2. CASE AtCopyStock(p)
      <4>1. PICK f \in StockFiles :
              /\ files'[f] = IF files[f] = "absent" THEN "stock" ELSE files[f]
              /\ \A g \in TemplateFiles \ {f} : files'[g] = files[g]
        BY <2>0, <3>2, CopyFacts
      <4> QED  BY <2>0, <4>1
    <3>3. CASE AtRemoveFile(p)
      <4>1. p \in Removing /\ \A f \in UserFiles : files[f] # "yours"
        BY <2>0, <3>3 DEF AtRemoveFile, TemplateInv, RemovalSteps, Removing
      <4>2. \A f \in TemplateFiles : files[f] = "yours" => f \in StockFiles
        BY <2>0, <4>1 DEF TemplateInv, TemplateFiles, Foreign
      <4> QED  BY <2>0, <4>1, <4>2
    <3> QED  BY <2>0, <2>1, <3>1, <3>2, <3>3, GlobalStepSummary
  <2>4. ASSUME NEW p \in Procs, GlobalFail(p) PROVE Kept1
    <3>1. files["leftover"] # "yours"  BY <2>0 DEF TemplateInv
    <3> QED  BY <2>0, <2>4, <3>1, GlobalFailFrame
  <2>5. CASE (\E p \in Procs, isGlobal \in BOOLEAN : Starts(p, isGlobal)) \/ \E p \in Procs : HookStep(p)
    BY <2>1, <2>5 DEF Starts, HookStep
  <2> QED
    BY <1>1, <2>0, <2>2, <2>3, <2>4, <2>5, GlobalActions
<1> QED  BY <1>1, KeptInit, KeptStep, PTL DEF GlobalSpec, UserFilesKept
=============================================================================
