----------------------------- MODULE Bootstrap -----------------------------
(***************************************************************************)
(* bootstrap.ts: what the VS Code extension does before it starts the      *)
(* server.  It looks for a rustowl command, on the PATH and then in its    *)
(* own storage, asks the user whether to install or update, downloads the  *)
(* binary, runs `rustowl toolchain install` and resolves with the command. *)
(* Every window runs this over the same storage, and over the runtime      *)
(* directory of Toolchain, whose processes it starts: the process of a     *)
(* window bears the window's name.                                         *)
(***************************************************************************)
EXTENDS Toolchain

CONSTANT Windows

ASSUME BootstrapAssumption ==
  /\ Windows \subseteq Procs
  /\ {"old", "current"} \cap (Windows \cup {Absent}) = {}

VARIABLES
  path,    \* version of the rustowl on the PATH (bound: never the current one, which needs no installation)
  stored,  \* the binary in the storage: its version, or the window whose unfinished download it is
  exec,    \* it is executable
  win,     \* win[w]: where window w is
  using    \* using[w]: rustowlCommand

bootVars == <<path, stored, exec, win, using>>
allVars == <<vars, bootVars>>

Asleep == {"closed", "stopped"}
WinPCs == Asleep \cup {"check", "ask", "download", "write", "chmod", "setup", "install", "report", "up"}

BootTypeOK ==
  /\ path \in {Absent, "old"}
  /\ stored \in {Absent, "old", "current"} \cup Windows
  /\ exec \in BOOLEAN
  /\ win \in [Windows -> WinPCs]
  /\ using \in [Windows -> {"none", "path", "stored"}]

BootInit ==
  /\ Init
  /\ path \in {Absent, "old"}
  /\ stored \in {Absent, "old"}
  /\ exec = (stored # Absent)
  /\ win = [w \in Windows |-> "closed"]
  /\ using = [w \in Windows |-> "none"]

Move(w, to) == win' = [win EXCEPT ![w] = to]

\* `rustowl --version --quiet` says something.
StoredRuns == stored \in {"old", "current"} /\ exec
GetRustowlCommand ==
  CASE path # Absent -> "path"
    [] path = Absent /\ StoredRuns -> "stored"
    [] OTHER -> "none"
\* The version a command reports; a binary that is just being written reports none.
IsCurrent(c) == (c = "path" /\ path = "current") \/ (c = "stored" /\ StoredRuns /\ stored = "current")

\* The extension is activated: the first getRustowlCommand.
Activate(w) ==
  /\ win[w] = "closed"
  /\ using' = [using EXCEPT ![w] = GetRustowlCommand]
  /\ Move(w, IF GetRustowlCommand = "none" THEN "ask" ELSE "check")
  /\ UNCHANGED <<vars, path, stored, exec>>

\* needUpdated, with a second run of the command.
Check(w) ==
  /\ win[w] = "check"
  /\ Move(w, IF IsCurrent(using[w]) THEN "up" ELSE "ask")
  /\ UNCHANGED <<vars, path, stored, exec, using>>

\* The user's choice; mkdir of the storage may fail, which ends the activation too.
Answer(w) ==
  /\ win[w] = "ask"
  /\ \E to \in {"download", "stopped"} : Move(w, to)
  /\ UNCHANGED <<vars, path, stored, exec, using>>

\* fs.writeFile truncates the file; its mode stays, that of a new file is not executable.
WriteBegin(w) ==
  /\ win[w] = "download"
  /\ stored' = w
  /\ exec' = (exec /\ stored # Absent)
  /\ Move(w, "write")
  /\ UNCHANGED <<vars, path, using>>

WriteEnd(w) ==
  /\ win[w] = "write"
  /\ stored' = IF stored = w THEN "current" ELSE stored
  /\ Move(w, "chmod")
  /\ UNCHANGED <<vars, path, exec, using>>

Chmod(w) ==
  /\ win[w] = "chmod"
  /\ exec' = TRUE
  /\ Move(w, "setup")
  /\ UNCHANGED <<vars, path, stored, using>>

\* An error of downloadRustowl is shown, and the setup goes on.
DownloadFails(w) ==
  /\ win[w] \in {"download", "write", "chmod"}
  /\ Move(w, "setup")
  /\ UNCHANGED <<vars, path, stored, exec, using>>

\* getRustowlCommand again, and its toolchain install; a process that cannot be started rejects.
Setup(w) ==
  /\ win[w] = "setup"
  /\ using' = [using EXCEPT ![w] = GetRustowlCommand]
  /\ \/ /\ GetRustowlCommand # "none"
        /\ Start(w, "install")
        /\ Move(w, "install")
     \/ /\ Move(w, "stopped")
        /\ UNCHANGED vars
  /\ UNCHANGED <<path, stored, exec>>

\* Mutant: the command is resolved as soon as it has been spawned.
Exited_Spawned(w) ==
  /\ win[w] = "install"
  /\ Move(w, IF pc[w] \in {"failed", "killed"} THEN "report" ELSE "up")
  /\ UNCHANGED <<vars, path, stored, exec, using>>

\* Mutant: nothing is resolved or rejected when the installer was killed (its code is null).
Exited_Code(w) ==
  /\ win[w] = "install"
  /\ pc[w] \in {"done", "failed"}
  /\ Move(w, IF pc[w] = "done" THEN "up" ELSE "report")
  /\ UNCHANGED <<vars, path, stored, exec, using>>

\* The exit listener: code 0 resolves, any other code and a signal are logged and shown.
Exited(w) ==
  /\ win[w] = "install"
  /\ pc[w] \in Resting
  /\ Move(w, IF pc[w] = "done" THEN "up" ELSE "report")
  /\ UNCHANGED <<vars, path, stored, exec, using>>

\* The user closes the message; then the promise is rejected.
Dismiss(w) ==
  /\ win[w] = "report"
  /\ Move(w, "stopped")
  /\ UNCHANGED <<vars, path, stored, exec, using>>

\* The server of an activated window sets up its toolchain.
Serve(w) ==
  /\ win[w] = "up"
  /\ Start(w, "analyze")
  /\ UNCHANGED bootVars

\* A window is closed, or crashes, wherever it is, and takes its process along.
Close(w) ==
  /\ win[w] # "closed"
  /\ Move(w, "closed")
  /\ using' = [using EXCEPT ![w] = "none"]
  /\ Kill(w) \/ (pc[w] \in Resting /\ UNCHANGED vars)
  /\ UNCHANGED <<path, stored, exec>>

WindowStep(w) ==
  \/ WriteBegin(w) \/ WriteEnd(w) \/ Chmod(w) \/ DownloadFails(w) \/ Setup(w) \/ Exited(w)
BootNext ==
  \/ \E w \in Windows : WindowStep(w) \/ Activate(w) \/ Check(w) \/ Answer(w) \/ Dismiss(w) \/ Serve(w) \/ Close(w)
  \/ \E p \in Procs : (Step(p) \/ Kill(p)) /\ UNCHANGED bootVars
  \/ \E p \in Procs \ Windows, c \in Commands : Start(p, c) /\ UNCHANGED bootVars

\* A download may stall for ever, the extension's and an installer's: none has a timeout.
Stalls(p) == pc[p] = "owl" \/ \E c \in Components : TaskIs(p, c, "fetch")
Downloading(w) == win[w] = "download" \/ (win[w] = "install" /\ Stalls(w))

\* Windows and processes go on with everything else; users need not answer, start or close
\* anything, and neither cargo nor the server has to end.
Local(p) ==
  \/ MakeDir(p) \/ MakeDirFails(p) \/ JoinTasks(p) \/ UnpackEnd(p) \/ (pc[p] = "unpack" /\ OwlFails(p))
  \/ \E c \in Components : Rename(p, c) \/ CopyBegin(p, c) \/ CopyEnd(p, c) \/ PlaceFails(p, c)
  \/ Probe(p) \/ Pick(p) \/ RemoveDir(p) \/ \E f \in SysrootFiles : Remove(p, f)

BootSpec ==
  /\ BootInit /\ [][BootNext]_allVars
  /\ \A w \in Windows : WF_allVars(win[w] # "download" /\ WindowStep(w))
  /\ \A p \in Procs : WF_allVars(Local(p) /\ UNCHANGED bootVars)

-----------------------------------------------------------------------------
\* An activation that installs resolves only over a whole sysroot, unless the installer met a
\* failure (which its exit code does not show) or another process tore or removed files meanwhile
\* (bootstrapRustowl over setup_toolchain).
ActivatedOverWhole ==
  \A w \in Windows : win[w] = "up" /\ cmd[w] = "install" /\ w \notin disturbed => SysrootWhole

\* A window whose user agreed hangs in the installation only in a download of its own: if none
\* stalls it comes up, tells what failed or gives up, whatever becomes of the downloads, of the
\* installer, or of other windows whose downloads do stall (bootstrapRustowl, setup_toolchain).
ActivationSettles ==
  \A w \in Windows :
    []<>~Downloading(w) => (win[w] = "download" ~> win[w] \in {"up", "report"} \cup Asleep)
=============================================================================
