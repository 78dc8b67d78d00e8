--------------------------- MODULE GlobalInstall ----------------------------
(* git op install --global and git op uninstall --global (config.rs), beside  *)
(* the local commands of Hooks.                                               *)
(*                                                                            *)
(* A global install puts the hooks in the template directory that Git copies  *)
(* into new repositories.  If the user has configured none, it claims the     *)
(* default one: it writes a config file of its own that names the directory,  *)
(* includes it in the user's global configuration, and copies Git's stock     *)
(* templates.  A global uninstall takes each of these back.  A step changes   *)
(* one file, or one directory, and a command can die between any two.         *)
(*                                                                            *)
(* A definition marked "mutant" is a plausible bug in the definition after it *)
(* and is used nowhere: PROJECT.json swaps it in to see a property fail.      *)
EXTENDS Hooks

CONSTANTS
    Default,        \* the hooks directory of the template directory git-op claims
    UserTemplate,   \* that of the one a user configures, which may be the same
    StockFiles,     \* the files of Git's own template directory
    UserFiles,      \* further files a user adds
    MaxIncludes     \* bound: files the user's configuration includes

ASSUME TemplatesAssumption ==
    /\ {Default, UserTemplate} \subseteq Dirs /\ Default \notin LocalDirs
    /\ StockFiles \cap UserFiles = {}
    /\ (StockFiles \cup UserFiles) \cap (Names \cup {"hooks", "leftover"}) = {}
    /\ "none" \notin Dirs
    /\ MaxIncludes \in Nat

VARIABLES
    setting,    \* the user's init.templateDir, "before" or "after" the include
    include,    \* does the global configuration include git-op's file?
    includes,   \* how many files of the user's own it includes
    opConfig,   \* does git-op's file exist, naming the default directory?
    files,      \* the files of the default directory, the hooks apart
    left,       \* the entries a process has listed and not copied or removed yet
    brokenOff,  \* history: did removing the directory fail half-way?
    misled,     \* history: did an uninstall ever look while another was removing?
    global,     \* is a process's last command a --global one?
    overlapped  \* history: have an install and an uninstall ever overlapped?

\* A process that is killed can leave a temporary file behind, the "leftover".
Foreign == UserFiles \cup {"leftover"}
Present == {f \in DOMAIN files : files[f] # "absent"}

work == <<left, brokenOff, misled>>
config == <<setting, include, includes, opConfig>>
globalVars == <<vars, config, files, work, global, overlapped>>

GlobalInit ==
    /\ Init
    /\ setting \in {"none", "after"}
    /\ include = FALSE /\ opConfig = FALSE
    /\ includes \in 0 .. MaxIncludes
    /\ files = [f \in StockFiles \cup Foreign |-> "absent"]
    /\ left = [p \in Procs |-> {}]
    /\ brokenOff = FALSE /\ misled = FALSE
    /\ global = [p \in Procs |-> FALSE]
    /\ overlapped = FALSE

-----------------------------------------------------------------------------
(* Git, and its user.                                                         *)

\* The last init.templateDir wins.  An include of a missing file is none.
TemplateDir ==
    IF include /\ opConfig /\ setting # "after" THEN Default
    ELSE IF setting # "none" THEN UserTemplate ELSE "none"

\* Git puts a new setting where the file has room for it.
SetTemplateDir ==
    /\ Edit
    /\ setting' \in {"none", "before", "after"} \ {setting}
    /\ UNCHANGED <<hooks, made, yours, include, includes, opConfig, files, work>>

\* A user includes a file, or no longer does.
EditIncludes ==
    /\ Edit
    /\ includes' \in {includes - 1, includes + 1} \cap (0 .. MaxIncludes)
    /\ UNCHANGED <<hooks, made, yours, setting, include, opConfig, files, work>>

\* A user adds a file to the default directory, or adapts a stock one.
EditTemplate ==
    /\ Edit
    /\ \E f \in StockFiles \cup UserFiles : files' = [files EXCEPT ![f] = "yours"]
    /\ made' = made \cup {Default}
    /\ UNCHANGED <<hooks, yours, config, work>>

\* Hooks are edited where a repository or Git finds them.
EditUsedHook ==
    /\ \E d \in Dirs \cap (LocalDirs \cup {TemplateDir}) : EditHook(d)
    /\ UNCHANGED <<config, files, work>>

-----------------------------------------------------------------------------
(* The two commands.                                                          *)

\* The steps each takes in turn, once it knows that there is a claim to make or
\* to take back; "hooks" is install_hooks or uninstall_hooks.
InstallSteps == <<"config", "include", "seed", "hooks">>
ReleasedFirst == <<"unset", "forget", "hooks", "check">>                \* mutant
ForgottenFirst == <<"hooks", "check", "forget", "unset">>               \* mutant
UninstallSteps == <<"hooks", "check", "unset", "forget">>
Steps(p) == IF op[p] = "install" THEN InstallSteps ELSE UninstallSteps

\* The step after a step, "idle" after the last.
After(p, step) ==
    LET i == CHOOSE i \in 1 .. 4 : Steps(p)[i] = step
    IN  IF i = 4 THEN "idle" ELSE Steps(p)[i + 1]

\* Go to a step.  The hooks are those of the default directory.
Go(p, step) ==
    /\ IF step = "idle" THEN End(p, "ok")
       ELSE /\ pc' = [pc EXCEPT ![p] = IF step = "hooks" THEN First(op[p]) ELSE step]
            /\ UNCHANGED outcome
    /\ IF step = "hooks"
       THEN dir' = [dir EXCEPT ![p] = Default] /\ then' = [then EXCEPT ![p] = After(p, "hooks")]
       ELSE UNCHANGED <<dir, then>>

GlobalAt(p, step) ==
    /\ pc[p] = step
    /\ UNCHANGED <<op, quiet, targets, locals, failed, yours, boundVars>>

BeginGlobal(p) ==
    /\ \E what \in {"install", "uninstall"} :
        Start(p, what, "query",
              (Dirs \cap {TemplateDir}) \cup (IF opConfig THEN {Default} ELSE {}))
    /\ UNCHANGED <<dir, then, config, files, work>>

\* git_config_global_template, the first step of both.
FromOpConfig == IF opConfig THEN Default                                \* mutant
                ELSE IF setting # "none" THEN UserTemplate ELSE "none"
GlobalTemplate == TemplateDir

Query(p) ==
    /\ GlobalAt(p, "query")
    /\ IF GlobalTemplate = "none"
       THEN Go(p, IF op[p] = "install" THEN InstallSteps[1] ELSE "claimed")
       ELSE /\ dir' = [dir EXCEPT ![p] = GlobalTemplate]
            /\ then' = [then EXCEPT ![p] = IF op[p] = "install" THEN "idle" ELSE "claimed"]
            /\ pc' = [pc EXCEPT ![p] = First(op[p])]
            /\ UNCHANGED outcome
    /\ UNCHANGED <<hooks, made, config, files, work>>

\* write_op_config
WriteOpConfig(p) ==
    /\ GlobalAt(p, "config")
    /\ opConfig' = TRUE
    /\ Go(p, After(p, "config"))
    /\ UNCHANGED <<hooks, made, setting, include, includes, files, work>>

\* ensure_include looks first ...
CheckInclude(p) ==
    /\ GlobalAt(p, "include")
    /\ Go(p, IF include THEN After(p, "include") ELSE "add")
    /\ UNCHANGED <<hooks, made, config, files, work>>

\* ... and then has git config set include.path: a first value is added, a single
\* one replaced, whoever put it there, and several are refused.
AddInclude(p) ==
    /\ GlobalAt(p, "add")
    /\ IF includes + (IF include THEN 1 ELSE 0) > 1
       THEN End(p, "stopped") /\ UNCHANGED <<dir, then, include, includes>>
       ELSE include' = TRUE /\ includes' = 0 /\ Go(p, After(p, "include"))
    /\ UNCHANGED <<hooks, made, setting, opConfig, files, work>>

\* copy_absent, of one file.
CopyOver(f) == "stock"                                                  \* mutant
CopyAbsent(f) == IF files[f] = "absent" THEN "stock" ELSE files[f]

\* seed_stock_templates makes the directory with its hooks directory ...
OnlyNewDirectory == IF Default \in made THEN {} ELSE StockFiles         \* mutant
Seeded == StockFiles

Seed(p) ==
    /\ GlobalAt(p, "seed")
    /\ made' = made \cup {Default}
    /\ left' = [left EXCEPT ![p] = Seeded]
    /\ Go(p, "copy")
    /\ UNCHANGED <<hooks, config, files, brokenOff, misled>>

\* ... and copies one file after another, making the directory a file lies in if
\* there is none ...
CopyStock(p) ==
    /\ GlobalAt(p, "copy")
    /\ \E f \in left[p] :
        /\ files' = [files EXCEPT ![f] = CopyAbsent(f)]
        /\ left' = [left EXCEPT ![p] = @ \ {f}]
    /\ made' \in {made, made \cup {Default}}
    /\ UNCHANGED <<hooks, pc, dir, then, outcome, config, brokenOff, misled>>

\* ... which fails when an uninstall takes that directory away meanwhile.
Removing == {q \in Procs : pc[q] \in {"remove entries", "empty hooks"}}
GiveUp(p) ==
    /\ End(p, "stopped")
    /\ left' = [left EXCEPT ![p] = {}]
    /\ UNCHANGED <<dir, then>>

CopyFails(p) ==
    /\ GlobalAt(p, "copy")
    /\ left[p] # {} /\ (Removing # {} \/ Default \notin made)
    /\ GiveUp(p)
    /\ UNCHANGED <<hooks, made, config, files, brokenOff, misled>>

AllButOne(p) == Cardinality(left[p]) < 2                                \* mutant
Copied(p) == left[p] = {}

EndCopy(p) ==
    /\ GlobalAt(p, "copy")
    /\ Copied(p)
    /\ Go(p, After(p, "seed"))
    /\ UNCHANGED <<hooks, made, config, files, work>>

\* claimed_template
Claimed(p) ==
    /\ GlobalAt(p, "claimed")
    /\ Go(p, IF opConfig THEN UninstallSteps[1] ELSE "unset")
    /\ UNCHANGED <<hooks, made, config, files, work>>

\* template_is_unmodified goes by the names of the files.
HoldsNothing == Present = {}                                            \* mutant
Unmodified == Present \cap Foreign = {}
FirstHookGone == hooks[Default][All[1]] = Absent                        \* mutant
HooksGone == \A name \in Names : hooks[Default][name] = Absent
TemplateExists == Default \in made \/ Present # {}

\* remove_unmodified_template looks first; a directory it has listed, and that
\* another uninstall has removed before it looks inside, it takes for a change ...
CheckTemplate(p) ==
    /\ GlobalAt(p, "check")
    /\ \/ /\ Go(p, IF TemplateExists /\ Unmodified /\ HooksGone
                    THEN "remove template" ELSE After(p, "check"))
          /\ UNCHANGED misled
       \/ /\ Removing # {}
          /\ Go(p, After(p, "check"))
          /\ misled' = TRUE
    /\ UNCHANGED <<hooks, made, config, files, left, brokenOff>>

\* ... and then lists the directory and removes what it has listed, entry by
\* entry (remove_dir_all).  What appears meanwhile may go as well.
ListTemplate(p) ==
    /\ GlobalAt(p, "remove template")
    /\ left' = [left EXCEPT ![p] = Present \cup (IF Default \in made THEN {"hooks"} ELSE {})]
    /\ Go(p, IF TemplateExists THEN "remove entries" ELSE After(p, "check"))
    /\ UNCHANGED <<hooks, made, config, files, brokenOff, misled>>

RemoveFile(p) ==
    /\ GlobalAt(p, "remove entries")
    /\ \E f \in DOMAIN files \cap (left[p] \cup Present) :
        /\ files' = [files EXCEPT ![f] = "absent"]
        /\ left' = [left EXCEPT ![p] = @ \ {f}]
    /\ UNCHANGED <<hooks, made, pc, dir, then, outcome, config, brokenOff, misled>>

\* The hooks directory is an entry that is listed and emptied in turn.
ListHooks(p) ==
    /\ GlobalAt(p, "remove entries")
    /\ "hooks" \in left[p] \/ Default \in made
    /\ left' = [left EXCEPT ![p] = (@ \ {"hooks"})
                   \cup {name \in Names : hooks[Default][name] # Absent}]
    /\ Go(p, "empty hooks")
    /\ UNCHANGED <<hooks, made, config, files, brokenOff, misled>>

RemoveListedHook(p) ==
    /\ GlobalAt(p, "empty hooks")
    /\ \E name \in Names :
        /\ name \in left[p] \/ hooks[Default][name] # Absent
        /\ hooks' = [hooks EXCEPT ![Default][name] = Absent]
        /\ left' = [left EXCEPT ![p] = @ \ {name}]
    /\ UNCHANGED <<made, pc, dir, then, outcome, config, files, brokenOff, misled>>

\* A directory goes if it is empty by then.  Otherwise the uninstall fails, with
\* what it has removed, and before it takes the claim back.
BreakOff(p) ==
    /\ GiveUp(p)
    /\ brokenOff' = TRUE
    /\ UNCHANGED made

RemoveHooksDir(p) ==
    /\ GlobalAt(p, "empty hooks")
    /\ left[p] \cap Names = {}
    /\ IF HooksGone
       THEN made' = made \ {Default} /\ Go(p, "remove entries") /\ UNCHANGED <<left, brokenOff>>
       ELSE BreakOff(p)
    /\ UNCHANGED <<hooks, config, files, misled>>

RemoveTemplate(p) ==
    /\ GlobalAt(p, "remove entries")
    /\ left[p] = {}
    /\ IF ~TemplateExists
       THEN Go(p, After(p, "check")) /\ UNCHANGED <<made, left, brokenOff>>
       ELSE BreakOff(p)
    /\ UNCHANGED <<hooks, config, files, misled>>

\* remove_global_claim
UnsetInclude(p) ==
    /\ GlobalAt(p, "unset")
    /\ include' = FALSE
    /\ Go(p, After(p, "unset"))
    /\ UNCHANGED <<hooks, made, setting, includes, opConfig, files, work>>

RemoveOpConfig(p) ==
    /\ GlobalAt(p, "forget")
    /\ opConfig' = FALSE
    /\ Go(p, After(p, "forget"))
    /\ UNCHANGED <<hooks, made, setting, include, includes, files, work>>

\* A process that is killed while it writes a hook leaves its temporary file.
GlobalFail(p) ==
    /\ Fail(p)
    /\ left' = [left EXCEPT ![p] = {}]
    /\ \/ UNCHANGED files
       \/ /\ pc[p] \in {"link", "rename"} /\ dir[p] = Default /\ CanWrite(p)
          /\ files' = [files EXCEPT !["leftover"] = "stock"]
    /\ UNCHANGED <<config, brokenOff, misled>>

GlobalStep(p) ==
    \/ Query(p) \/ WriteOpConfig(p) \/ CheckInclude(p) \/ AddInclude(p)
    \/ Seed(p) \/ CopyStock(p) \/ CopyFails(p) \/ EndCopy(p)
    \/ Claimed(p) \/ CheckTemplate(p) \/ ListTemplate(p) \/ RemoveFile(p) \/ ListHooks(p)
    \/ RemoveListedHook(p) \/ RemoveHooksDir(p) \/ RemoveTemplate(p)
    \/ UnsetInclude(p) \/ RemoveOpConfig(p)

Observed(p, isGlobal) ==
    /\ global' = [global EXCEPT ![p] = isGlobal]
    /\ overlapped' = (overlapped \/ \E q \in Procs \ {p} : pc[q] # "idle" /\ op[q] # op'[p])
Unobserved == UNCHANGED <<global, overlapped>>

GlobalNext ==
    \/ SetTemplateDir /\ Unobserved
    \/ EditIncludes /\ Unobserved
    \/ EditTemplate /\ Unobserved
    \/ EditUsedHook /\ Unobserved
    \/ \E p \in Procs : BeginGlobal(p) /\ Observed(p, TRUE)
    \/ \E p \in Procs : GlobalStep(p) /\ Unobserved
    \/ \E p \in Procs : Begin(p) /\ Observed(p, FALSE) /\ UNCHANGED <<config, files, work>>
    \/ \E p \in Procs : Step(p) /\ Unobserved /\ UNCHANGED <<config, files, work>>
    \/ \E p \in Procs : GlobalFail(p) /\ Unobserved
    \/ Rest /\ Unobserved /\ UNCHANGED <<config, files, work>>

GlobalSpec == GlobalInit /\ [][GlobalNext]_globalVars

-----------------------------------------------------------------------------
(* Properties.                                                                *)

\* The types; only a process that copies or removes has something left to do.
GlobalTypeOK ==
    /\ setting \in {"none", "before", "after"}
    /\ include \in BOOLEAN /\ includes \in 0 .. MaxIncludes /\ opConfig \in BOOLEAN
    /\ files \in [StockFiles \cup Foreign -> {"absent", "stock", "yours"}]
    /\ left \in [Procs -> SUBSET (StockFiles \cup Foreign \cup Names \cup {"hooks"})]
    /\ \A p \in Procs : left[p] # {} => pc[p] \in {"copy", "remove entries", "empty hooks"}
    /\ brokenOff \in BOOLEAN /\ misled \in BOOLEAN
    /\ global \in [Procs -> BOOLEAN] /\ overlapped \in BOOLEAN

\* "The include entry is unset first so Git never observes a dangling include":
\* whenever commands die, and unless an install and an uninstall overlapped.
NoDanglingInclude == ~overlapped /\ include => opConfig

\* Wherever a command dies, the hooks it leaves in the default directory can be
\* found: git-op's own file still names the directory, and a repeated uninstall
\* goes there.  (Unless an install and an uninstall overlapped, or the user has
\* configured that directory, so that its hooks are found without a claim.)
ClaimOutlivesHooks ==
    ~overlapped /\ Default # UserTemplate /\ (\E name \in Names : Owned(hooks[Default][name].lines) # {}) => opConfig

\* A global install that ran to its end, with nothing but other installs
\* meanwhile and since, put its hooks where git init finds them: whatever
\* commands died before it, wherever they did.
InstallTakesEffect ==
    \A p \in Procs : Completed(p, "install") /\ global[p] => TemplateDir = dir[p]

\* A global uninstall that succeeds, with nothing but other uninstalls meanwhile
\* and since, leaves nothing: no include, no file of git-op's, and of a directory
\* git-op had claimed only one that holds a user's file or hook, or the temporary
\* file of a process that was killed.  (Until an uninstall looks while another is
\* removing the directory, takes what it sees for a change and leaves it there.)
UninstallLeavesNothing ==
    \A p \in Procs : Completed(p, "uninstall") /\ global[p] /\ outcome[p] = "ok" =>
        /\ ~include /\ ~opConfig
        /\ Default \in targets[p] \ {UserTemplate} /\ ~misled =>
              \/ ~TemplateExists
              \/ Present \cap Foreign # {}
              \/ ~HooksGone

\* Once the commands are done, a claimed directory that git init copies from has
\* every stock template, whatever installs and uninstalls overlapped: "A template
\* directory carrying only git-op's hook would otherwise make git init produce
\* repositories missing the stock description".  Not so when an install died
\* before it copied them: the next finds the directory configured; nor when
\* removing the directory failed half-way, which ClaimAlwaysSeeded is about.
Idle == \A p \in Procs : pc[p] = "idle"
Filled == \A f \in StockFiles : files[f] # "absent"

ClaimSeeded == failures = 0 /\ ~brokenOff /\ include /\ Idle => Filled

\* The promise as it is made, with no exception for removals that fail: while no
\* command dies, the directory git init copies from never carries git-op's hook
\* and lacks a stock template.
ClaimAlwaysSeeded ==
    failures = 0 /\ Idle /\ TemplateDir = Default /\ ~HooksGone => Filled

\* What a user made of the default directory's files stays ("reinstalls never
\* clobber customizations", "anything else means the directory holds content
\* git-op did not put there"), but for the stock files, which go when an
\* uninstall removes the directory.
UserFilesKept ==
    [][\A f \in DOMAIN files : files[f] = "yours" /\ files'[f] # "yours" =>
          f \in StockFiles /\ Removing # {}]_globalVars
=============================================================================
