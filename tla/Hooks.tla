------------------------------- MODULE Hooks --------------------------------
(* The life of the hooks git-op owns in a hooks directory: git op install and *)
(* git op uninstall (config.rs).  GlobalInstall adds the --global commands,   *)
(* which bring the hooks of Git's template directories about.                 *)
(*                                                                            *)
(* A hook file is shared with its user, who may have written it, added        *)
(* commands to git-op's or have git-op's command in an older spelling.        *)
(* Nothing is locked: git-op reads a hook, decides, reads it again, and then  *)
(* renames a replacement over it or removes it, while other installs and      *)
(* uninstalls do the same.                                                    *)
(*                                                                            *)
(* A definition marked "mutant" is a plausible bug in the definition after it *)
(* and is used nowhere: PROJECT.json swaps it in to see a property fail.      *)
EXTENDS Naturals, Sequences, FiniteSetsExt, SequencesExt, Filter

CONSTANTS
    Procs,          \* git-op processes
    Dirs,           \* hooks directories
    LocalDirs,      \* those of repositories (core.hooksPath may name a template's)
    UserLines,      \* lines that run a user's commands
    MixedLines,     \* lines that run a user's command and git-op's
    MaxCommands,    \* bound: installs and uninstalls
    MaxEdits,       \* bound: edits by users
    MaxFailures     \* bound: processes that die or fail

ASSUME DirsAssumption == LocalDirs \subseteq Dirs
ASSUME LinesAssumption ==
    /\ UserLines \cap MixedLines = {}
    /\ (UserLines \cup MixedLines) \cap {"#!", "current", "older", "legacy", "binary"} = {}
ASSUME BoundsAssumption ==
    /\ MaxCommands \in Nat /\ MaxEdits \in Nat /\ MaxFailures \in Nat

\* ManagedHook::ALL
All == <<"reference-transaction", "pre-push">>
Names == {All[i] : i \in 1 .. Len(All)}

\* A hook is its lines and its executable bit.  The line "legacy" stands for a
\* whole body that an earlier version wrote, "binary" for bytes that are no text.
Lines == UserLines \cup MixedLines \cup {"#!", "current", "older", "legacy", "binary"}
Absent == [lines |-> <<>>, executable |-> FALSE]
Executable(lines) == [lines |-> lines, executable |-> TRUE]
Body == <<"#!", "current">>
IsText(lines) == "binary" \notin ToSet(lines)
IsLegacy(name, lines) == name = "reference-transaction" /\ lines = <<"legacy">>

\* A line is git-op's as soon as one of the commands on it is.
OwnedLines == {"current", "older"} \cup MixedLines
OwnsLine(line) == line \in OwnedLines
Yours(lines) == Kept(lines, UserLines \cup {"binary"})

VARIABLES
    hooks,      \* directory -> name -> the file, Absent if there is none
    made,       \* the directories that exist
    pc,         \* the step a process is at
    op,         \* "install" or "uninstall"
    dir,        \* the directory it is at
    then,       \* the step after the last hook of the directory
    at,         \* the position in All of the hook it is at
    expected,   \* the lines it has read
    contents,   \* the lines it will write
    failed,     \* has a hook failed?
    yours,      \* history: the lines users last put in each hook
    quiet,      \* history: only installs, or only uninstalls, since it began,
                \* and since those that were running then began
    outcome,    \* history: how its last command ended, while it is quiet
    targets,    \* history: the directories it was to work on when it began
    commands, edits, failures       \* counters of the bounds

locals    == <<at, expected, contents>>
command   == <<op, dir, then, quiet, targets>>
boundVars == <<commands, edits, failures>>
vars      == <<hooks, made, pc, command, locals, failed, outcome, yours, boundVars>>

\* The steps of the hooks; the others are GlobalInstall's.
PCs == {"idle", "plan", "link", "adopt", "executable", "compare", "rename", "strip", "remove"}
           \cup {"query", "config", "include", "add", "seed"}
           \cup {"copy", "claimed", "check", "remove template", "remove entries", "empty hooks"}
           \cup {"unset", "forget"}

Init ==
    /\ hooks = [d \in Dirs |-> [name \in Names |-> Absent]]
    /\ made = LocalDirs
    /\ pc = [p \in Procs |-> "idle"] /\ then = pc
    /\ op = [p \in Procs |-> "install"]
    /\ \E d \in LocalDirs : dir = [p \in Procs |-> d]
    /\ targets = [p \in Procs |-> {}]
    /\ at = [p \in Procs |-> 1]
    /\ expected = [p \in Procs |-> <<>>] /\ contents = expected
    /\ failed = [p \in Procs |-> FALSE]
    /\ outcome = [p \in Procs |-> "none"]
    /\ yours = [d \in Dirs |-> [name \in Names |-> <<>>]]
    /\ quiet = [p \in Procs |-> TRUE]
    /\ commands = 0 /\ edits = 0 /\ failures = 0

-----------------------------------------------------------------------------
(* Users and older versions.                                                  *)

\* What a user, or an older git-op, may leave in a hook: git-op's command alone,
\* a user's alone, both, on one line too, and without the executable bit; and no
\* text at all.
Written(name) ==
    {Absent, Executable(<<"#!", "older">>), Executable(<<"binary">>)}
        \cup {Executable(lines) : lines \in {l \in {<<"legacy">>} : IsLegacy(name, l)}}
        \cup {Executable(<<"#!", line>>) : line \in UserLines}
        \cup {Executable(<<"#!", line, "older", "current">>) : line \in UserLines}
        \cup {[lines |-> <<"#!", line, "current">>, executable |-> FALSE] : line \in UserLines}
        \cup {Executable(<<"#!", line>>) : line \in MixedLines}
        \cup UNION {{Executable(<<"#!", mixed, line, "current">>) : line \in UserLines} : mixed \in MixedLines}

\* A user does something while git-op is not at work, and then nothing is quiet
\* any more.
Edit ==
    /\ edits < MaxEdits
    /\ edits' = edits + 1
    /\ \A p \in Procs : pc[p] = "idle"
    /\ quiet' = [p \in Procs |-> FALSE]
    /\ outcome' = [p \in Procs |-> "none"] /\ targets' = [p \in Procs |-> {}]
    /\ UNCHANGED <<pc, op, dir, then, locals, failed, commands, failures>>

EditHook(d) ==
    /\ Edit
    /\ \E name \in Names : \E file \in Written(name) :
        /\ hooks' = [hooks EXCEPT ![d][name] = file]
        /\ yours' = [yours EXCEPT ![d][name] = Yours(file.lines)]
    /\ made' = made \cup {d}

-----------------------------------------------------------------------------
(* install_hooks and uninstall_hooks.                                         *)

Name(p) == All[at[p]]
File(p) == hooks[dir[p]][Name(p)]

First(what) == IF what = "install" THEN "plan" ELSE "strip"

\* A command starts, at a step and with the directories it is to work on.
Start(p, what, step, on) ==
    /\ pc[p] = "idle"
    /\ commands < MaxCommands
    /\ commands' = commands + 1
    /\ op' = [op EXCEPT ![p] = what]
    /\ pc' = [pc EXCEPT ![p] = step]
    /\ targets' = [targets EXCEPT ![p] = on]
    /\ quiet' = [q \in Procs |->
                   IF q = p THEN \A r \in Procs \ {p} : pc[r] = "idle" \/ (op[r] = what /\ quiet[r])
                   ELSE quiet[q] /\ op[q] = what]
    /\ outcome' = [q \in Procs |-> IF quiet'[q] /\ q # p THEN outcome[q] ELSE "none"]
    /\ UNCHANGED <<hooks, made, locals, failed, yours, edits, failures>>

\* install_local and uninstall_local
Begin(p) ==
    \E d \in LocalDirs, what \in {"install", "uninstall"} :
        /\ Start(p, what, First(what), {d})
        /\ dir' = [dir EXCEPT ![p] = d]
        /\ then' = [then EXCEPT ![p] = "idle"]

At(p, step) == pc[p] = step /\ UNCHANGED <<command, yours, boundVars>>
Goto(p, step) == pc' = [pc EXCEPT ![p] = step] /\ UNCHANGED <<at, failed, outcome>>

Hook(p, i) ==
    /\ at' = [at EXCEPT ![p] = i]
    /\ expected' = [expected EXCEPT ![p] = <<>>]
    /\ contents' = [contents EXCEPT ![p] = <<>>]

\* The command ends, or goes on with what it does after the hooks.
End(p, how) ==
    /\ pc' = [pc EXCEPT ![p] = "idle"]
    /\ outcome' = [outcome EXCEPT ![p] = IF quiet[p] THEN how ELSE "none"]
AfterHooks(p, ok) ==
    /\ failed' = [failed EXCEPT ![p] = FALSE]
    /\ IF ok /\ then[p] # "idle"
       THEN pc' = [pc EXCEPT ![p] = then[p]] /\ UNCHANGED outcome
       ELSE End(p, IF ok THEN "ok" ELSE "failed")
    /\ Hook(p, 1)

\* The hooks are independent: the next one is attempted whatever became of this.
NextHook(p, ok) ==
    /\ failed' = [failed EXCEPT ![p] = @ \/ ~ok]
    /\ pc' = [pc EXCEPT ![p] = First(op[p])]
    /\ Hook(p, at[p] + 1)
    /\ UNCHANGED outcome
StopAtFailure(p, ok) ==                                                 \* mutant
    IF at[p] < Len(All) /\ ok THEN NextHook(p, ok) ELSE AfterHooks(p, ok)
Done(p, ok) ==
    IF at[p] < Len(All) THEN NextHook(p, ok) ELSE AfterHooks(p, ok /\ ~failed[p])

-----------------------------------------------------------------------------
(* install_managed_hook.                                                      *)

\* rewrite_owned_lines: the first owned line becomes the current one, further
\* ones go, the others stay.
Owned(lines) == {i \in 1 .. Len(lines) : OwnsLine(lines[i])}
Others(lines) == Kept(lines, {line \in Lines : ~OwnsLine(line)})
FirstRewritten(lines) ==                                                \* mutant
    LET first == Min(Owned(lines))
    IN  SubSeq(lines, 1, first - 1) \o <<"current">> \o SubSeq(lines, first + 1, Len(lines))
Rewritten(lines) ==
    LET first == Min(Owned(lines))
    IN  SubSeq(lines, 1, first - 1) \o <<"current">>
            \o Others(SubSeq(lines, first + 1, Len(lines)))

\* HookPlan::of, for a hook that is there.
StockBody(name, lines) == Body                                         \* mutant
Replacement(name, lines) == IF IsLegacy(name, lines) THEN Body ELSE Rewritten(lines)
Refused(name, lines) == ~IsText(lines) \/ (~IsLegacy(name, lines) /\ Owned(lines) = {})

Adopt(p) ==
    IF Refused(Name(p), File(p).lines) THEN Done(p, FALSE)
    ELSE /\ Goto(p, IF Replacement(Name(p), File(p).lines) = File(p).lines
                    THEN "executable" ELSE "compare")
         /\ expected' = [expected EXCEPT ![p] = File(p).lines]
         /\ contents' = [contents EXCEPT ![p] = Replacement(Name(p), File(p).lines)]

\* The directory is made, and the hook is read (HookPlan::of).
Plan(p) ==
    /\ At(p, "plan")
    /\ made' = made \cup {dir[p]}
    /\ IF File(p).lines = <<>> THEN Goto(p, "link") /\ UNCHANGED <<expected, contents>> ELSE Adopt(p)
    /\ UNCHANGED hooks

\* write_new_hook: an executable temporary file, linked if the name is free.
\* An uninstall can have removed the directory, and then it fails.
OnlyIfFree(p) == TRUE                                                   \* mutant
CanWrite(p) == dir[p] \in made
WriteNewHook(p) ==
    /\ At(p, "link")
    /\ \/ /\ File(p).lines = <<>> /\ CanWrite(p)
          /\ hooks' = [hooks EXCEPT ![dir[p]][Name(p)] = Executable(Body)]
          /\ Done(p, TRUE)
       \/ /\ File(p).lines = <<>> /\ ~CanWrite(p)
          /\ Done(p, FALSE) /\ UNCHANGED hooks
       \/ /\ File(p).lines # <<>>
          /\ Goto(p, "adopt") /\ UNCHANGED <<hooks, expected, contents>>
    /\ UNCHANGED made

\* The name was taken: plan again.  If the hook has gone before its existence
\* is tested the install fails, and if it goes between that and the plan it
\* succeeds, with no hook (apply_hook_plan of HookPlan::Create).
AdoptHook(p) ==
    /\ At(p, "adopt")
    /\ IF File(p).lines = <<>> THEN \E ok \in BOOLEAN : Done(p, ok) ELSE Adopt(p)
    /\ UNCHANGED <<hooks, made>>

\* make_executable, which fails if the hook has gone.
MakeExecutable(p) ==
    /\ At(p, "executable")
    /\ hooks' = IF File(p).lines = <<>> THEN hooks
                ELSE [hooks EXCEPT ![dir[p]][Name(p)] = Executable(File(p).lines)]
    /\ Done(p, File(p).lines # <<>>)
    /\ UNCHANGED made

\* replace_hook: the hook is read again and compared, then written over.
Compare(p) ==
    /\ At(p, "compare")
    /\ IF File(p).lines # <<>> /\ File(p).lines = expected[p]
       THEN Goto(p, "rename") /\ UNCHANGED <<expected, contents>>
       ELSE Done(p, FALSE)
    /\ UNCHANGED <<hooks, made>>

\* write_tmp_hook
RenameHook(p) ==
    /\ At(p, "rename")
    /\ hooks' = IF CanWrite(p)
                THEN [hooks EXCEPT ![dir[p]][Name(p)] = Executable(contents[p])]
                ELSE hooks
    /\ Done(p, CanWrite(p))
    /\ UNCHANGED made

-----------------------------------------------------------------------------
(* uninstall_managed_hook.                                                    *)

OnlyShebang(lines) == \A i \in 1 .. Len(lines) : lines[i] = "#!"

\* The first read, and what it makes of the hook.
OnlyCurrent(lines) == Kept(lines, Lines \ {"current"})                 \* mutant
Stripped(lines) == Others(lines)

Strip(p) ==
    /\ At(p, "strip")
    /\ LET lines == File(p).lines
       IN  IF ~IsText(lines) \/ (Stripped(lines) = lines /\ ~IsLegacy(Name(p), lines))
           THEN Done(p, TRUE)
           ELSE /\ Goto(p, IF IsLegacy(Name(p), lines) \/ OnlyShebang(Stripped(lines))
                           THEN "remove" ELSE "compare")
                /\ expected' = [expected EXCEPT ![p] = lines]
                /\ contents' = [contents EXCEPT ![p] = Stripped(lines)]
    /\ UNCHANGED <<hooks, made>>

\* fs::remove_file, of whatever is there by now.
RemoveHook(p) ==
    /\ At(p, "remove")
    /\ hooks' = [hooks EXCEPT ![dir[p]][Name(p)] = Absent]
    /\ Done(p, File(p).lines # <<>>)
    /\ UNCHANGED made

\* The process is killed, or an error that nothing here brings about ends it.
\* At most a temporary file stays behind.
Fail(p) ==
    /\ pc[p] # "idle"
    /\ failures < MaxFailures
    /\ failures' = failures + 1
    /\ End(p, "killed") /\ Hook(p, 1)
    /\ failed' = [failed EXCEPT ![p] = FALSE]
    /\ UNCHANGED <<hooks, made, command, yours, commands, edits>>

Step(p) ==
    \/ Plan(p) \/ WriteNewHook(p) \/ AdoptHook(p) \/ MakeExecutable(p) \/ Compare(p) \/ RenameHook(p)
    \/ Strip(p) \/ RemoveHook(p)

Rest ==
    /\ \A p \in Procs : pc[p] = "idle"
    /\ UNCHANGED vars

Next ==
    \/ \E d \in LocalDirs : EditHook(d)
    \/ \E p \in Procs : Begin(p) \/ Step(p) \/ Fail(p)
    \/ Rest

Spec == Init /\ [][Next]_vars

-----------------------------------------------------------------------------
(* Properties.                                                                *)

\* The types; a directory that does not exist holds no hooks, and what git-op is
\* about to write never holds its command twice.
TypeOK ==
    /\ hooks \in [Dirs -> [Names -> [lines : Seq(Lines), executable : BOOLEAN]]]
    /\ made \subseteq Dirs
    /\ \A d \in Dirs \ made, name \in Names : hooks[d][name] = Absent
    /\ pc \in [Procs -> PCs] /\ then \in [Procs -> PCs]
    /\ op \in [Procs -> {"install", "uninstall"}]
    /\ dir \in [Procs -> Dirs] /\ targets \in [Procs -> SUBSET Dirs]
    /\ at \in [Procs -> 1 .. Len(All)]
    /\ expected \in [Procs -> Seq(Lines)] /\ contents \in [Procs -> Seq(Lines)]
    /\ \A p \in Procs : Cardinality(Owned(contents[p])) <= 1
    /\ failed \in [Procs -> BOOLEAN] /\ quiet \in [Procs -> BOOLEAN]
    /\ outcome \in [Procs -> {"none", "ok", "failed", "stopped", "killed"}]
    /\ yours \in [Dirs -> [Names -> Seq(Lines)]]
    /\ commands \in 0 .. MaxCommands /\ edits \in 0 .. MaxEdits /\ failures \in 0 .. MaxFailures

\* Installing and uninstalling never lose, reorder or duplicate a line of a
\* user's, one that runs no command of git-op's (they "keep every other line,
\* terminator included, byte by byte"), whatever installs and uninstalls overlap
\* and whenever one dies.  It says nothing of a line that runs a command of the
\* user's and git-op's: that goes as a whole, although an upgrade is promised to
\* preserve "other commands".
YoursKept == \A d \in Dirs, name \in Names : Yours(hooks[d][name].lines) = yours[d][name]

\* An install that ran to its end, with nothing but other installs meanwhile
\* and since, has git-op's command in every hook, once, in the current spelling,
\* and the hook executable; but for the hooks it found and was refused, of which
\* it then reports one.  "One conflict never withholds the other."
Installed(hook) ==
    /\ {hook.lines[i] : i \in Owned(hook.lines)} = {"current"}
    /\ Cardinality(Owned(hook.lines)) = 1
    /\ hook.executable

Completed(p, what) ==
    pc[p] = "idle" /\ op[p] = what /\ outcome[p] \in {"ok", "failed"}

InstallAttemptsAll ==
    \A p \in Procs : Completed(p, "install") =>
        \A name \in Names :
            \/ Installed(hooks[dir[p]][name])
            \/ /\ outcome[p] = "failed"
               /\ hooks[dir[p]][name].lines # <<>> /\ Refused(name, hooks[dir[p]][name].lines)

\* An uninstall that succeeds, with nothing but other uninstalls meanwhile and
\* since, leaves no command of git-op's and no hook that does nothing in the
\* directories it was to clean when it began.
UninstallRemovesAll ==
    \A p \in Procs : Completed(p, "uninstall") /\ outcome[p] = "ok" =>
        \A d \in targets[p], name \in Names :
            LET lines == hooks[d][name].lines
            IN  /\ Owned(lines) = {} /\ ~IsLegacy(name, lines)
                /\ lines # <<>> => Yours(lines) # <<>>
=============================================================================
