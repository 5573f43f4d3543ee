----------------------------- MODULE Toolchain -----------------------------
(***************************************************************************)
(* toolchain.rs: the runtime directory that every rustowl process of a     *)
(* user shares.  A process installs it (rustowl toolchain install, or any  *)
(* process that does not find it), removes it, or looks up cargo, rustowlc *)
(* and the sysroot in it before it starts an analysis.                     *)
(*                                                                         *)
(* The runtime directory holds the sysroot, with Parts files of each of    *)
(* Components, and rustowlc.  A file is Absent, Whole, or the process      *)
(* whose unfinished copy it is.  A rename replaces a file at once; where   *)
(* the temporary directory is on another file system the rename fails and  *)
(* the file is copied, which truncates it first.                           *)
(***************************************************************************)
EXTENDS Naturals, FiniteSets

CONSTANTS
  Procs,        \* rustowl processes, one after the other under one name
  Components,   \* rustc, rust-std, cargo
  Cargo,        \* the component whose first file is bin/cargo
  Parts,        \* files of a component
  Rustowlc,     \* the executable of the RustOwl tarball
  MaxStarts     \* bound: commands started

Absent == "absent"
Whole == "whole"
SysrootFiles == Components \X (1 .. Parts)
Files == SysrootFiles \cup {Rustowlc}

ASSUME ToolchainAssumption ==
  /\ Cargo \in Components
  /\ Parts \in Nat \ {0}
  /\ MaxStarts \in Nat
  /\ Rustowlc \notin SysrootFiles
  /\ Absent \notin Procs /\ Whole \notin Procs

VARIABLES
  dir,      \* the sysroot directory exists
  file,     \* file[f]: what is at the place of f
  cmd,      \* cmd[p]: the command p runs
  pc,       \* pc[p]: where p is in it
  place,    \* place[p]: which lookup of setup_cargo_command p is at
  chose,    \* chose[p]: where p found the executables
  task,     \* task[p][c]: the task that installs component c
  left,     \* left[p]: what remove_dir_all has listed and not yet removed
  starts,   \* commands started
  \* Auxiliary.
  trouble,  \* something failed, was killed or was removed
  disturbed \* processes in whose time something of theirs failed, or another process tore or removed a file

vars == <<dir, file, cmd, pc, place, chose, task, left, starts, trouble, disturbed>>

Commands == {"install", "uninstall", "analyze"}
Resting == {"idle", "done", "failed", "killed"}
Installing == {"mkdir", "tasks", "owl", "unpack"}
Looking == {"probe", "pick"}
PCs == Resting \cup Installing \cup Looking \cup {"remove", "run"}
NoTask == [at |-> "none", n |-> 1]
TaskAt == {"none", "fetch", "move", "copy", "ok", "error"}
NoChoice == [e \in {"cargo", "rustowlc"} |-> "none"]

TypeOK ==
  /\ dir \in BOOLEAN
  /\ file \in [Files -> {Absent, Whole} \cup Procs]
  /\ cmd \in [Procs -> Commands \cup {"none"}]
  /\ pc \in [Procs -> PCs]
  /\ place \in [Procs -> 1 .. 5]
  /\ chose \in [Procs -> [{"cargo", "rustowlc"} -> {"none", "runtime", "fallback"}]]
  /\ task \in [Procs -> [Components -> [at : TaskAt, n : 1 .. Parts]]]
  /\ left \in [Procs -> SUBSET SysrootFiles]
  /\ starts \in 0 .. MaxStarts
  /\ trouble \in BOOLEAN
  /\ disturbed \in SUBSET Procs

\* A machine without RustOwl's toolchain.
Init ==
  /\ dir = FALSE
  /\ file = [f \in Files |-> Absent]
  /\ cmd = [p \in Procs |-> "none"]
  /\ pc = [p \in Procs |-> "idle"]
  /\ place = [p \in Procs |-> 1]
  /\ chose = [p \in Procs |-> NoChoice]
  /\ task = [p \in Procs |-> [c \in Components |-> NoTask]]
  /\ left = [p \in Procs |-> {}]
  /\ starts = 0
  /\ trouble = FALSE
  /\ disturbed = {}

Others(p) == Procs \ {p}
Go(p, to) == pc' = [pc EXCEPT ![p] = to]
\* p tears or removes a file.
Disturb(p) == disturbed' = disturbed \cup Others(p)
\* Something of p's own fails.
Fail(p) ==
  /\ trouble' = TRUE
  /\ disturbed' = disturbed \cup {p}

-----------------------------------------------------------------------------
(* Commands. *)

FirstPC(c) == CASE c = "install" -> "mkdir" [] c = "uninstall" -> "remove" [] c = "analyze" -> "probe"

\* handle_command and the language server; uninstall_toolchain lists the sysroot, when it is a directory.
Start(p, c) ==
  /\ pc[p] \in Resting
  /\ starts < MaxStarts
  /\ starts' = starts + 1
  /\ cmd' = [cmd EXCEPT ![p] = c]
  /\ Go(p, IF c = "uninstall" /\ ~dir THEN "done" ELSE FirstPC(c))
  /\ place' = [place EXCEPT ![p] = 1]
  /\ chose' = [chose EXCEPT ![p] = NoChoice]
  /\ task' = [task EXCEPT ![p] = [d \in Components |-> NoTask]]
  /\ left' = [left EXCEPT ![p] = IF c = "uninstall" THEN {f \in SysrootFiles : file[f] # Absent} ELSE {}]
  /\ trouble' = (trouble \/ c = "uninstall")
  /\ disturbed' = disturbed \ {p}
  /\ UNCHANGED <<dir, file>>

\* What is left of a process when it has ended.
Forget(p) ==
  /\ place' = [place EXCEPT ![p] = 1]
  /\ chose' = [chose EXCEPT ![p] = NoChoice]
  /\ task' = [task EXCEPT ![p] = [c \in Components |-> NoTask]]
  /\ left' = [left EXCEPT ![p] = {}]

\* A crash, or the user, ends p anywhere.
Kill(p) ==
  /\ pc[p] \notin Resting
  /\ Go(p, "killed")
  /\ Forget(p)
  /\ Fail(p)
  /\ UNCHANGED <<dir, file, cmd, starts>>

-----------------------------------------------------------------------------
(* setup_toolchain: setup_rust_toolchain, then setup_rustowl_toolchain. *)

\* One task per component is spawned.
NewTasks == [c \in Components |-> [at |-> "fetch", n |-> 1]]

\* The sysroot directory is made first.
MakeDir(p) ==
  /\ pc[p] = "mkdir"
  /\ dir' = TRUE
  /\ Go(p, "tasks")
  /\ task' = [task EXCEPT ![p] = NewTasks]
  /\ UNCHANGED <<file, cmd, place, chose, left, starts, trouble, disturbed>>

\* exit(1).
MakeDirFails(p) ==
  /\ pc[p] = "mkdir"
  /\ Go(p, "failed")
  /\ Fail(p)
  /\ UNCHANGED <<dir, file, cmd, place, chose, task, left, starts>>

TaskIs(p, c, at) == pc[p] = "tasks" /\ task[p][c].at = at
TaskGoes(p, c, at) == task' = [task EXCEPT ![p][c].at = at]

TaskErr(p, c) ==
  /\ TaskGoes(p, c, "error")
  /\ Fail(p)
  /\ UNCHANGED <<dir, cmd, pc, place, chose, left, starts>>

\* The tarball is downloaded, unpacked in a temporary directory, and its list of components read.
Fetch(p, c) ==
  /\ TaskIs(p, c, "fetch")
  /\ TaskGoes(p, c, "move")
  /\ UNCHANGED <<dir, file, cmd, pc, place, chose, left, starts, trouble, disturbed>>

\* Any of it may return Err(()), which is only logged.
FetchFails(p, c) ==
  /\ TaskIs(p, c, "fetch")
  /\ TaskErr(p, c)
  /\ UNCHANGED file

\* A copy is complete unless another process has truncated, replaced or removed the file since.
Copied(p, c) == [file EXCEPT ![<<c, task[p][c].n>>] = IF @ = p THEN Whole ELSE @]

\* So may making the parent, the copy, or the removal of what has been copied.
PlaceFails(p, c) ==
  /\ \/ TaskIs(p, c, "move") /\ UNCHANGED file
     \/ TaskIs(p, c, "copy") /\ file' \in {file, Copied(p, c)}
  /\ TaskErr(p, c)

\* What a task does after one file.
NextFile(t) == IF t.n = Parts THEN [t EXCEPT !.at = "ok"] ELSE [at |-> "move", n |-> t.n + 1]

\* Mutant: a file that is there already is not installed again.
Rename_IfMissing(p, c) ==
  /\ TaskIs(p, c, "move")
  /\ dir' = TRUE
  /\ file' = [file EXCEPT ![<<c, task[p][c].n>>] = IF @ = Absent THEN Whole ELSE @]
  /\ task' = [task EXCEPT ![p][c] = NextFile(@)]
  /\ UNCHANGED <<cmd, pc, place, chose, left, starts, trouble, disturbed>>

\* create_dir_all of the parent, then rename.
Rename(p, c) ==
  /\ TaskIs(p, c, "move")
  /\ dir' = TRUE
  /\ file' = [file EXCEPT ![<<c, task[p][c].n>>] = Whole]
  /\ task' = [task EXCEPT ![p][c] = NextFile(@)]
  /\ UNCHANGED <<cmd, pc, place, chose, left, starts, trouble, disturbed>>

\* The rename failed; fs::copy has opened, and so truncated, the file.
CopyBegin(p, c) ==
  /\ TaskIs(p, c, "move")
  /\ dir' = TRUE
  /\ file' = [file EXCEPT ![<<c, task[p][c].n>>] = p]
  /\ TaskGoes(p, c, "copy")
  /\ Disturb(p)
  /\ UNCHANGED <<cmd, pc, place, chose, left, starts, trouble>>

CopyEnd(p, c) ==
  /\ TaskIs(p, c, "copy")
  /\ file' = Copied(p, c)
  /\ task' = [task EXCEPT ![p][c] = NextFile(@)]
  /\ UNCHANGED <<dir, cmd, pc, place, chose, left, starts, trouble, disturbed>>

TaskOver(t) == t.at \in {"ok", "error"}

\* Mutant: a copy that is under way is not waited for.
JoinTasks_NotCopies(p) ==
  /\ pc[p] = "tasks"
  /\ \A c \in Components : task[p][c].at \notin {"fetch", "move"}
  /\ Go(p, "owl")
  /\ UNCHANGED <<dir, file, cmd, place, chose, task, left, starts, trouble, disturbed>>

\* install_components joins its tasks, and returns Ok whatever they returned.
JoinTasks(p) ==
  /\ pc[p] = "tasks"
  /\ \A c \in Components : TaskOver(task[p][c])
  /\ Go(p, "owl")
  /\ UNCHANGED <<dir, file, cmd, place, chose, task, left, starts, trouble, disturbed>>

\* setup_toolchain has returned to its caller.
Installed(p) == IF cmd[p] = "install" THEN "done" ELSE "pick"

\* --skip-rustowl-toolchain.
SkipOwl(p) ==
  /\ pc[p] = "owl"
  /\ cmd[p] = "install"
  /\ Go(p, "done")
  /\ UNCHANGED <<dir, file, cmd, place, chose, task, left, starts, trouble, disturbed>>

\* The RustOwl tarball is unpacked over the runtime directory itself.
UnpackBegin(p) ==
  /\ pc[p] = "owl"
  /\ file' = [file EXCEPT ![Rustowlc] = p]
  /\ Go(p, "unpack")
  /\ Disturb(p)
  /\ UNCHANGED <<dir, cmd, place, chose, task, left, starts, trouble>>

UnpackEnd(p) ==
  /\ pc[p] = "unpack"
  /\ file' = [file EXCEPT ![Rustowlc] = IF @ = p THEN Whole ELSE @]
  /\ Go(p, Installed(p))
  /\ UNCHANGED <<dir, cmd, place, chose, task, left, starts, trouble, disturbed>>

\* A failed download or extraction is a warning.
OwlFails(p) ==
  /\ pc[p] \in {"owl", "unpack"}
  /\ Go(p, Installed(p))
  /\ Fail(p)
  /\ UNCHANGED <<dir, file, cmd, place, chose, task, left, starts>>

-----------------------------------------------------------------------------
(* setup_cargo_command: cargo in the runtime directory, then in sysroot/bin; rustowlc likewise; *)
(* the sysroot.  Each of the five starts with get_runtime_dir.                                  *)

\* get_runtime_dir: the directory is there, or it is installed now.
Probe(p) ==
  /\ pc[p] = "probe"
  /\ Go(p, IF dir THEN "pick" ELSE "mkdir")
  /\ UNCHANGED <<dir, file, cmd, place, chose, task, left, starts, trouble, disturbed>>

\* is_file; a torn file is a file.
There(f) == file[f] # Absent
LookupAt(p, n, next, e, where) ==
  /\ place[p] = n
  /\ place' = [place EXCEPT ![p] = next]
  /\ chose' = [chose EXCEPT ![p][e] = where]
  /\ Go(p, "probe")

\* get_executable_path: no tarball puts cargo into the runtime directory, or rustowlc into sysroot/bin.
Pick(p) ==
  /\ pc[p] = "pick"
  /\ \/ LookupAt(p, 1, 2, "cargo", "none")
     \/ LookupAt(p, 2, 3, "cargo", IF There(<<Cargo, 1>>) THEN "runtime" ELSE "fallback")
     \/ There(Rustowlc) /\ LookupAt(p, 3, 5, "rustowlc", "runtime")
     \/ ~There(Rustowlc) /\ LookupAt(p, 3, 4, "rustowlc", "none")
     \/ LookupAt(p, 4, 5, "rustowlc", "fallback")
     \/ /\ place[p] = 5
        /\ Go(p, "run")
        /\ UNCHANGED <<place, chose>>
  /\ UNCHANGED <<dir, file, cmd, task, left, starts, trouble, disturbed>>

\* cargo, or the process, ends.
Finish(p) ==
  /\ pc[p] = "run"
  /\ Go(p, "done")
  /\ Forget(p)
  /\ UNCHANGED <<dir, file, cmd, starts, trouble, disturbed>>

-----------------------------------------------------------------------------
(* uninstall_toolchain: remove_dir_all of the sysroot. *)

Remove(p, f) ==
  /\ pc[p] = "remove"
  /\ f \in left[p]
  /\ left' = [left EXCEPT ![p] = @ \ {f}]
  /\ file' = [file EXCEPT ![f] = Absent]
  /\ Disturb(p)
  /\ UNCHANGED <<dir, cmd, pc, place, chose, task, starts, trouble>>

\* The directory itself goes when it is empty; otherwise, or when it is gone, unwrap panics.
RemoveDir(p) ==
  /\ pc[p] = "remove"
  /\ left[p] = {}
  /\ LET empty == dir /\ \A f \in SysrootFiles : file[f] = Absent
     IN /\ dir' = (dir /\ ~empty)
        /\ Go(p, IF empty THEN "done" ELSE "failed")
  /\ Disturb(p)
  /\ UNCHANGED <<file, cmd, place, chose, task, left, starts, trouble>>

-----------------------------------------------------------------------------
Install(p) ==
  \/ MakeDir(p) \/ MakeDirFails(p) \/ JoinTasks(p)
  \/ SkipOwl(p) \/ UnpackBegin(p) \/ UnpackEnd(p) \/ OwlFails(p)
  \/ \E c \in Components :
       \/ Fetch(p, c) \/ FetchFails(p, c)
       \/ Rename(p, c) \/ CopyBegin(p, c) \/ CopyEnd(p, c) \/ PlaceFails(p, c)
Step(p) ==
  \/ Install(p)
  \/ Probe(p) \/ Pick(p) \/ Finish(p)
  \/ RemoveDir(p) \/ \E f \in SysrootFiles : Remove(p, f)
Next == \E p \in Procs : Step(p) \/ Kill(p) \/ \E c \in Commands : Start(p, c)

Spec == Init /\ [][Next]_vars

-----------------------------------------------------------------------------
SysrootWhole == \A f \in SysrootFiles : file[f] = Whole

\* p has installed the Rust toolchain in this run of its command.
HasInstalled(p) ==
  /\ \A c \in Components : TaskOver(task[p][c])
  /\ pc[p] \in {"owl", "unpack", "done"} \cup Looking \cup {"run"}

\* Recovery: an install that meets no failure of its own, and in whose time no other process
\* tears or removes anything, leaves the sysroot whole, whatever crashes, failed or torn
\* installations left behind; an analysis that installed it so runs its cargo
\* (install_components, setup_toolchain, get_executable_path).
ReinstallRepairs ==
  \A p \in Procs : HasInstalled(p) /\ p \notin disturbed =>
    SysrootWhole /\ (pc[p] = "run" => chose[p]["cargo"] = "runtime")

\* The exit code of an installation tells whether it installed everything.  It does not: the errors
\* of the tasks are only logged (install_components, handle_command).
ExitCodeTells ==
  \A p \in Procs : cmd[p] = "install" /\ pc[p] = "done" => \A c \in Components : task[p][c].at = "ok"

\* Processes that install at the same time do not spoil each other's work: without a failure, a
\* kill or a removal, the sysroot is whole as soon as it exists and nobody installs any more.
ConcurrentInstallsAgree ==
  ~trouble /\ dir /\ (\A p \in Procs : pc[p] \notin Installing) => SysrootWhole
=============================================================================
