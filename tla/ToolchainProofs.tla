-------------------------- MODULE ToolchainProofs --------------------------
(***************************************************************************)
(* Proofs about Toolchain, and about Bootstrap over it, for any number of  *)
(* windows, processes, components, files of a component and commands.      *)
(*                                                                         *)
(* What makes an installation repair: while nothing disturbs its process,  *)
(* every file a task has passed is whole, and the one it is copying is its *)
(* own (Repairs).  What makes installations agree: while there is no       *)
(* trouble, an absent file is ahead of some task, and a torn one is being  *)
(* copied (Agrees).                                                        *)
(***************************************************************************)
EXTENDS Bootstrap, TLAPS

-----------------------------------------------------------------------------
Tasks == [at : TaskAt, n : 1 .. Parts]
Choices == [{"cargo", "rustowlc"} -> {"none", "runtime", "fallback"}]

LEMMA FirstTasks ==
  /\ NoTask \in Tasks /\ NewTasks \in [Components -> Tasks]
  /\ NoChoice \in Choices
<1>1. 1 \in 1 .. Parts
  BY ToolchainAssumption
<1>2. NoTask \in Tasks /\ NewTasks \in [Components -> Tasks]
  BY <1>1 DEF NoTask, NewTasks, Tasks, TaskAt
<1>3. NoChoice \in Choices
  BY DEF NoChoice, Choices
<1> QED
  BY <1>2, <1>3

\* A task goes on with a file of its component, or is over.
LEMMA NextFileType ==
  ASSUME NEW t \in Tasks
  PROVE  NextFile(t) \in Tasks
  BY ToolchainAssumption DEF NextFile, Tasks, TaskAt

\* What changing one task of one process, or one choice, makes of them all.
LEMMA OneTask ==
  ASSUME task \in [Procs -> [Components -> Tasks]], NEW p \in Procs, NEW c \in Components,
         NEW t \in Tasks
  PROVE  [task EXCEPT ![p][c] = t] \in [Procs -> [Components -> Tasks]]
<1>1. [task[p] EXCEPT ![c] = t] \in [Components -> Tasks]
  OBVIOUS
<1> QED
  BY <1>1

LEMMA TaskGoesType ==
  ASSUME TypeOK, NEW p \in Procs, NEW c \in Components, NEW at \in TaskAt, TaskGoes(p, c, at)
  PROVE  /\ task' = [task EXCEPT ![p][c] = [at |-> at, n |-> task[p][c].n]]
         /\ task' \in [Procs -> [Components -> Tasks]]
<1>1. task \in [Procs -> [Components -> Tasks]]
  BY DEF TypeOK, Tasks
<1>2. task[p][c] \in Tasks
  BY <1>1
<1>3. [task[p][c] EXCEPT !.at = at] = [at |-> at, n |-> task[p][c].n]
  BY <1>2 DEF Tasks
<1>4. [at |-> at, n |-> task[p][c].n] \in Tasks
  BY <1>2 DEF Tasks
<1>5. task' = [task EXCEPT ![p][c] = [at |-> at, n |-> task[p][c].n]]
  BY <1>3 DEF TaskGoes
<1> QED
  BY <1>1, <1>4, <1>5, OneTask

LEMMA OneChoice ==
  ASSUME chose \in [Procs -> Choices], NEW p \in Procs,
         NEW e \in {"cargo", "rustowlc"}, NEW x \in {"none", "runtime", "fallback"}
  PROVE  [chose EXCEPT ![p][e] = x] \in [Procs -> Choices]
<1>1. [chose[p] EXCEPT ![e] = x] \in Choices
  BY DEF Choices
<1> QED
  BY <1>1

\* Type correctness of the installation and lookup of the toolchain, for any processes and components.
THEOREM TypeCorrect == Spec => []TypeOK
<1>1. Init => TypeOK
  <2> SUFFICES ASSUME Init
               PROVE  TypeOK
    OBVIOUS
  <2>1. task \in [Procs -> [Components -> Tasks]] /\ chose \in [Procs -> Choices]
    BY FirstTasks DEF Init
  <2>2. pc \in [Procs -> PCs] /\ starts \in 0 .. MaxStarts
    BY ToolchainAssumption DEF Init, PCs, Resting
  <2>3. file \in [Files -> {Absent, Whole} \cup Procs]
    BY DEF Init
  <2>4. place \in [Procs -> 1 .. 5] /\ left \in [Procs -> SUBSET SysrootFiles]
    BY DEF Init
  <2> QED
    BY <2>1, <2>2, <2>3, <2>4 DEF Init, TypeOK, Tasks, Choices
<1>2. TypeOK /\ [Next]_vars => TypeOK'
  <2> SUFFICES ASSUME TypeOK, [Next]_vars
               PROVE  TypeOK'
    OBVIOUS
  <2>0. task \in [Procs -> [Components -> Tasks]] /\ chose \in [Procs -> Choices]
    BY DEF TypeOK, Tasks, Choices
  <2> USE DEF TypeOK, Go, Fail, Disturb, Others
  <2>1. CASE UNCHANGED vars
    BY <2>1 DEF vars
  <2>2. ASSUME NEW p \in Procs, NEW c \in Commands, Start(p, c)
        PROVE  TypeOK'
    <3>1. pc' \in [Procs -> PCs]
      BY <2>2 DEF Start, FirstPC, Commands, PCs, Resting, Installing, Looking
    <3>2. task' \in [Procs -> [Components -> Tasks]] /\ chose' \in [Procs -> Choices]
      BY <2>0, <2>2, FirstTasks DEF Start
    <3>3. starts' \in 0 .. MaxStarts
      BY <2>2, ToolchainAssumption DEF Start
    <3>4. trouble' \in BOOLEAN
      BY <2>2 DEF Start
    <3> QED
      BY <2>2, <3>1, <3>2, <3>3, <3>4 DEF Start, Tasks, Choices
  <2>3. ASSUME NEW p \in Procs, Kill(p)
        PROVE  TypeOK'
    <3>1. task' \in [Procs -> [Components -> Tasks]] /\ chose' \in [Procs -> Choices]
      BY <2>0, <2>3, FirstTasks DEF Kill, Forget
    <3> QED
      BY <2>3, <3>1 DEF Kill, Forget, PCs, Resting, Tasks, Choices
  <2>4. ASSUME NEW p \in Procs, MakeDir(p)
        PROVE  TypeOK'
    <3>1. task' \in [Procs -> [Components -> Tasks]]
      BY <2>0, <2>4, FirstTasks DEF MakeDir
    <3> QED
      BY <2>4, <3>1 DEF MakeDir, PCs, Installing, Tasks
  <2>5. ASSUME NEW p \in Procs, MakeDirFails(p)
        PROVE  TypeOK'
    BY <2>5 DEF MakeDirFails, PCs, Resting
  <2>6. ASSUME NEW p \in Procs, JoinTasks(p) \/ SkipOwl(p)
        PROVE  TypeOK'
    BY <2>6 DEF JoinTasks, SkipOwl, PCs, Installing, Resting
  <2>7. ASSUME NEW p \in Procs, UnpackBegin(p)
        PROVE  TypeOK'
    BY <2>7 DEF UnpackBegin, PCs, Installing
  <2>8. ASSUME NEW p \in Procs, UnpackEnd(p)
        PROVE  TypeOK'
    BY <2>8 DEF UnpackEnd, Installed, PCs, Resting, Looking
  <2>9. ASSUME NEW p \in Procs, OwlFails(p)
        PROVE  TypeOK'
    BY <2>9 DEF OwlFails, Installed, PCs, Resting, Looking
  <2>10. ASSUME NEW p \in Procs, NEW c \in Components, Fetch(p, c)
         PROVE  TypeOK'
    BY <2>10, TaskGoesType DEF Fetch, TaskAt, Tasks
  <2>11. ASSUME NEW p \in Procs, NEW c \in Components, FetchFails(p, c)
         PROVE  TypeOK'
    BY <2>11, TaskGoesType DEF FetchFails, TaskErr, TaskAt, Tasks
  <2>12. ASSUME NEW p \in Procs, NEW c \in Components, PlaceFails(p, c)
         PROVE  TypeOK'
    <3>1. file' \in [Files -> {Absent, Whole} \cup Procs]
      BY <2>12 DEF PlaceFails, Copied
    <3> QED
      BY <2>12, <3>1, TaskGoesType DEF PlaceFails, TaskErr, TaskAt, Tasks
  <2>13. ASSUME NEW p \in Procs, NEW c \in Components, Rename(p, c) \/ CopyEnd(p, c)
         PROVE  TypeOK'
    <3>1. file' \in [Files -> {Absent, Whole} \cup Procs]
      BY <2>13 DEF Rename, CopyEnd, Copied
    <3>2. NextFile(task[p][c]) \in Tasks
      BY <2>0, NextFileType
    <3>3. task' = [task EXCEPT ![p][c] = NextFile(task[p][c])]
      BY <2>13 DEF Rename, CopyEnd
    <3>4. task' \in [Procs -> [Components -> Tasks]]
      BY <2>0, <3>2, <3>3, OneTask
    <3> QED
      BY <2>13, <3>1, <3>4 DEF Rename, CopyEnd, Tasks
  <2>14. ASSUME NEW p \in Procs, NEW c \in Components, CopyBegin(p, c)
         PROVE  TypeOK'
    BY <2>14, TaskGoesType DEF CopyBegin, TaskAt, Tasks
  <2>15. ASSUME NEW p \in Procs, Probe(p)
         PROVE  TypeOK'
    BY <2>15 DEF Probe, PCs, Installing, Looking
  <2>16. ASSUME NEW p \in Procs, Pick(p)
         PROVE  TypeOK'
    <3>1. ASSUME NEW e \in {"cargo", "rustowlc"}, NEW x \in {"none", "runtime", "fallback"},
                 chose' = [chose EXCEPT ![p][e] = x], place' \in [Procs -> 1 .. 5], Go(p, "probe")
          PROVE  TypeOK'
      <4>1. chose' \in [Procs -> Choices]
        BY <2>0, <3>1, OneChoice
      <4> QED
        BY <2>16, <3>1, <4>1 DEF Pick, PCs, Looking, Choices
    <3>2. CASE Go(p, "run") /\ UNCHANGED <<place, chose>>
      BY <2>16, <3>2 DEF Pick, PCs
    <3>3. CASE LookupAt(p, 1, 2, "cargo", "none")
      BY <3>1, <3>3 DEF LookupAt
    <3>4. CASE LookupAt(p, 2, 3, "cargo", IF There(<<Cargo, 1>>) THEN "runtime" ELSE "fallback")
      <4>1. CASE There(<<Cargo, 1>>)
        BY <3>1, <3>4, <4>1 DEF LookupAt
      <4>2. CASE ~There(<<Cargo, 1>>)
        BY <3>1, <3>4, <4>2 DEF LookupAt
      <4> QED
        BY <4>1, <4>2
    <3>5. CASE LookupAt(p, 3, 5, "rustowlc", "runtime")
      BY <3>1, <3>5 DEF LookupAt
    <3>6. CASE LookupAt(p, 3, 4, "rustowlc", "none")
      BY <3>1, <3>6 DEF LookupAt
    <3>7. CASE LookupAt(p, 4, 5, "rustowlc", "fallback")
      BY <3>1, <3>7 DEF LookupAt
    <3> QED
      BY <2>16, <3>2, <3>3, <3>4, <3>5, <3>6, <3>7 DEF Pick
  <2>17. ASSUME NEW p \in Procs, Finish(p)
         PROVE  TypeOK'
    <3>1. task' \in [Procs -> [Components -> Tasks]] /\ chose' \in [Procs -> Choices]
      BY <2>0, <2>17, FirstTasks DEF Finish, Forget
    <3> QED
      BY <2>17, <3>1 DEF Finish, Forget, PCs, Resting, Tasks, Choices
  <2>18. ASSUME NEW p \in Procs, NEW f \in SysrootFiles, Remove(p, f)
         PROVE  TypeOK'
    BY <2>18 DEF Remove, Files
  <2>19. ASSUME NEW p \in Procs, RemoveDir(p)
         PROVE  TypeOK'
    BY <2>19 DEF RemoveDir, PCs, Resting
  <2> QED
    BY <2>1, <2>2, <2>3, <2>4, <2>5, <2>6, <2>7, <2>8, <2>9, <2>10, <2>11, <2>12, <2>13, <2>14,
       <2>15, <2>16, <2>17, <2>18, <2>19 DEF Next, Step, Install
<1> QED
  BY <1>1, <1>2, PTL DEF Spec

-----------------------------------------------------------------------------
(* Recovery. *)

\* The files a task has put in their places.
Passed(t) ==
  CASE t.at \in {"move", "copy"} -> 1 .. t.n - 1
    [] t.at = "ok" -> 1 .. Parts
    [] OTHER -> {}

\* What holds of a process as long as nothing disturbs it: its tasks have not failed, what they have
\* passed is whole, and what they copy nobody else has truncated.
TasksRepair(p) ==
  \A c \in Components :
    /\ task[p][c].at # "error"
    /\ task[p][c].at = "fetch" => task[p][c].n = 1
    /\ \A n \in Passed(task[p][c]) : file[<<c, n>>] = Whole
    /\ task[p][c].at = "copy" => file[<<c, task[p][c].n>>] \in {p, Whole}

\* The directory it has seen or made is still there, and it installs before it looks for cargo.
LooksUp(p) ==
  /\ pc[p] \in {"tasks", "owl", "unpack", "pick"} => dir
  /\ pc[p] = "probe" /\ place[p] # 1 => dir
  /\ pc[p] \in Installing => place[p] = 1
  /\ pc[p] = "run" => place[p] = 5
  /\ pc[p] = "remove" => \A c \in Components : task[p][c].at = "none"

\* An executable looked for after the installation was found in it.
FindsCargo(p) ==
  (\A c \in Components : task[p][c].at = "ok") /\ place[p] >= 3 => chose[p]["cargo"] = "runtime"

Undisturbed(p) == TasksRepair(p) /\ LooksUp(p) /\ FindsCargo(p)
Repairs == \A p \in Procs : p \notin disturbed => Undisturbed(p)

LEMMA Typed ==
  ASSUME TypeOK
  PROVE  /\ task \in [Procs -> [Components -> Tasks]] /\ pc \in [Procs -> PCs]
         /\ place \in [Procs -> 1 .. 5] /\ chose \in [Procs -> Choices]
         /\ file \in [Files -> {Absent, Whole} \cup Procs] /\ disturbed \in SUBSET Procs
         /\ dir \in BOOLEAN
  BY DEF TypeOK, Tasks, Choices

LEMMA PassedAreFiles ==
  ASSUME NEW t \in Tasks
  PROVE  /\ Passed(t) \subseteq 1 .. Parts
         /\ t.n \in 1 .. Parts /\ t.at \in TaskAt
  BY ToolchainAssumption DEF Passed, Tasks, TaskAt

\* A file that NextFile has passed.
LEMMA PassedNext ==
  ASSUME NEW t \in Tasks, t.at \in {"move", "copy"}
  PROVE  /\ Passed(t) = 1 .. t.n - 1
         /\ Passed(NextFile(t)) = 1 .. t.n
         /\ NextFile(t).at \in {"move", "ok"}
<1>1. Passed(t) = 1 .. t.n - 1
  BY DEF Passed
<1>2. CASE t.n = Parts
  <2>1. NextFile(t).at = "ok"
    BY <1>2 DEF NextFile, Tasks
  <2> QED
    BY <1>1, <1>2, <2>1 DEF Passed
<1>3. CASE t.n # Parts
  <2>1. NextFile(t) = [at |-> "move", n |-> t.n + 1]
    BY <1>3 DEF NextFile
  <2>2. Passed(NextFile(t)) = 1 .. (t.n + 1) - 1
    BY <2>1 DEF Passed
  <2>3. (t.n + 1) - 1 = t.n
    BY ToolchainAssumption DEF Tasks
  <2> QED
    BY <1>1, <2>1, <2>2, <2>3
<1> QED
  BY <1>2, <1>3

\* A process keeps what it has while its tasks stay, and files stay or become whole.
LEMMA TasksStay ==
  ASSUME TypeOK, NEW q \in Procs, TasksRepair(q), task'[q] = task[q],
         \A f \in SysrootFiles : file'[f] \in {file[f], Whole}
  PROVE  TasksRepair(q)'
<1> SUFFICES ASSUME NEW c \in Components
             PROVE  /\ task'[q][c].at # "error"
                    /\ task'[q][c].at = "fetch" => task'[q][c].n = 1
                    /\ \A n \in Passed(task'[q][c]) : file'[<<c, n>>] = Whole
                    /\ task'[q][c].at = "copy" => file'[<<c, task'[q][c].n>>] \in {q, Whole}
  BY DEF TasksRepair
<1>1. task[q][c] \in Tasks
  BY Typed
<1>2. \A n \in 1 .. Parts : <<c, n>> \in SysrootFiles
  BY DEF SysrootFiles
<1>3. \A n \in Passed(task[q][c]) : file'[<<c, n>>] = Whole
  BY <1>1, <1>2, PassedAreFiles DEF TasksRepair
<1>4. task[q][c].at = "copy" => file'[<<c, task[q][c].n>>] \in {q, Whole}
  BY <1>1, <1>2, PassedAreFiles DEF TasksRepair
<1> QED
  BY <1>3, <1>4 DEF TasksRepair

\* Nothing is asked of a process without tasks.
LEMMA NoTasks ==
  ASSUME NEW q \in Procs, \A c \in Components : task'[q][c].at = "none"
  PROVE  TasksRepair(q)' /\ FindsCargo(q)'
<1>1. \A c \in Components : Passed(task'[q][c]) = {}
  BY DEF Passed
<1> QED
  BY <1>1, ToolchainAssumption DEF TasksRepair, FindsCargo

\* Steps of other processes that leave the directory, and no file worse.
LEMMA OthersStep ==
  ASSUME TypeOK, NEW q \in Procs, Undisturbed(q), task'[q] = task[q], pc'[q] = pc[q],
         place'[q] = place[q], chose'[q] = chose[q], dir => dir',
         \A f \in SysrootFiles : file'[f] \in {file[f], Whole}
  PROVE  Undisturbed(q)'
<1>1. TasksRepair(q)'
  BY TasksStay DEF Undisturbed
<1>2. LooksUp(q)' /\ FindsCargo(q)'
  BY DEF Undisturbed, LooksUp, FindsCargo
<1> QED
  BY <1>1, <1>2 DEF Undisturbed

\* A step of p changes nothing of q's own.
LEMMA OwnOnly ==
  ASSUME TypeOK, NEW p \in Procs, NEW q \in Procs \ {p},
         Step(p) \/ Kill(p) \/ \E c \in Commands : Start(p, c)
  PROVE  task'[q] = task[q] /\ pc'[q] = pc[q] /\ place'[q] = place[q] /\ chose'[q] = chose[q]
<1> USE DEF TypeOK, Go, TaskGoes, TaskErr, Forget
<1>1. CASE Kill(p) \/ \E c \in Commands : Start(p, c)
  BY <1>1 DEF Kill, Start
<1>2. CASE MakeDir(p) \/ MakeDirFails(p) \/ JoinTasks(p) \/ SkipOwl(p)
  BY <1>2 DEF MakeDir, MakeDirFails, JoinTasks, SkipOwl
<1>3. CASE UnpackBegin(p) \/ UnpackEnd(p) \/ OwlFails(p)
  BY <1>3 DEF UnpackBegin, UnpackEnd, OwlFails
<1>4. ASSUME NEW c \in Components, Fetch(p, c) \/ FetchFails(p, c) \/ CopyBegin(p, c) \/ PlaceFails(p, c)
      PROVE  task'[q] = task[q] /\ pc'[q] = pc[q] /\ place'[q] = place[q] /\ chose'[q] = chose[q]
  BY <1>4 DEF Fetch, FetchFails, CopyBegin, PlaceFails
<1>5. ASSUME NEW c \in Components, Rename(p, c) \/ CopyEnd(p, c)
      PROVE  task'[q] = task[q] /\ pc'[q] = pc[q] /\ place'[q] = place[q] /\ chose'[q] = chose[q]
  BY <1>5 DEF Rename, CopyEnd
<1>6. CASE Probe(p) \/ Finish(p) \/ RemoveDir(p)
  BY <1>6 DEF Probe, Finish, RemoveDir
<1>7. CASE Pick(p)
  BY <1>7 DEF Pick, LookupAt
<1>8. ASSUME NEW f \in SysrootFiles, Remove(p, f)
      PROVE  task'[q] = task[q] /\ pc'[q] = pc[q] /\ place'[q] = place[q] /\ chose'[q] = chose[q]
  BY <1>8 DEF Remove
<1> QED
  BY <1>1, <1>2, <1>3, <1>4, <1>5, <1>6, <1>7, <1>8 DEF Step, Install

\* A step of p makes the directory go, or a file worse, only if it disturbs everyone else.
LEMMA WorseDisturbs ==
  ASSUME TypeOK, NEW p \in Procs, NEW q \in Procs \ {p}, q \notin disturbed',
         Step(p) \/ Kill(p) \/ \E c \in Commands : Start(p, c)
  PROVE  /\ q \notin disturbed
         /\ dir => dir'
         /\ \A f \in SysrootFiles : file'[f] \in {file[f], Whole}
<1> USE DEF TypeOK, Go, TaskErr, Disturb, Others, Fail, Files
<1>1. CASE Kill(p) \/ \E c \in Commands : Start(p, c)
  BY <1>1 DEF Kill, Start
<1>2. CASE MakeDir(p) \/ MakeDirFails(p) \/ JoinTasks(p) \/ SkipOwl(p)
  BY <1>2 DEF MakeDir, MakeDirFails, JoinTasks, SkipOwl
<1>3. CASE UnpackBegin(p) \/ OwlFails(p)
  BY <1>3 DEF UnpackBegin, OwlFails
<1>4. CASE UnpackEnd(p)
  BY <1>4, ToolchainAssumption DEF UnpackEnd
<1>5. ASSUME NEW c \in Components, Fetch(p, c) \/ FetchFails(p, c) \/ CopyBegin(p, c)
      PROVE  /\ q \notin disturbed
             /\ dir => dir'
             /\ \A f \in SysrootFiles : file'[f] \in {file[f], Whole}
  BY <1>5 DEF Fetch, FetchFails, CopyBegin
<1>6. ASSUME NEW c \in Components, PlaceFails(p, c) \/ Rename(p, c) \/ CopyEnd(p, c)
      PROVE  /\ q \notin disturbed
             /\ dir => dir'
             /\ \A f \in SysrootFiles : file'[f] \in {file[f], Whole}
  BY <1>6 DEF PlaceFails, Rename, CopyEnd, Copied
<1>7. CASE Probe(p) \/ Finish(p) \/ RemoveDir(p) \/ Pick(p)
  BY <1>7 DEF Probe, Finish, RemoveDir, Pick
<1>8. ASSUME NEW f \in SysrootFiles, Remove(p, f)
      PROVE  /\ q \notin disturbed
             /\ dir => dir'
             /\ \A g \in SysrootFiles : file'[g] \in {file[g], Whole}
  BY <1>8 DEF Remove
<1> QED
  BY <1>1, <1>2, <1>3, <1>4, <1>5, <1>6, <1>7, <1>8 DEF Step, Install

\* A task that puts a file in its place and goes on: by a rename or at the end of a copy.
LEMMA TaskPasses ==
  ASSUME TypeOK, NEW p \in Procs, NEW c \in Components, TasksRepair(p),
         task[p][c].at \in {"move", "copy"},
         task' = [task EXCEPT ![p][c] = NextFile(task[p][c])],
         file'[<<c, task[p][c].n>>] = Whole,
         \A f \in SysrootFiles \ {<<c, task[p][c].n>>} : file'[f] = file[f]
  PROVE  TasksRepair(p)'
<1> SUFFICES ASSUME NEW d \in Components
             PROVE  /\ task'[p][d].at # "error"
                    /\ task'[p][d].at = "fetch" => task'[p][d].n = 1
                    /\ \A n \in Passed(task'[p][d]) : file'[<<d, n>>] = Whole
                    /\ task'[p][d].at = "copy" => file'[<<d, task'[p][d].n>>] \in {p, Whole}
  BY DEF TasksRepair
<1>1. task[p][c] \in Tasks /\ task[p][d] \in Tasks
  BY Typed
<1>2. \A e \in Components, n \in 1 .. Parts : <<e, n>> \in SysrootFiles
  BY DEF SysrootFiles
<1>3. CASE d = c
  <2>1. task'[p][d] = NextFile(task[p][c])
    BY <1>3, Typed
  <2>2. Passed(task'[p][d]) = 1 .. task[p][c].n /\ task'[p][d].at \in {"move", "ok"}
    BY <1>1, <2>1, PassedNext
  <2>3. \A n \in 1 .. task[p][c].n - 1 : n \in 1 .. Parts /\ file[<<c, n>>] = Whole
    BY <1>1, PassedNext, PassedAreFiles DEF TasksRepair
  <2>4. \A n \in 1 .. task[p][c].n - 1 : file'[<<c, n>>] = Whole
    <3> TAKE n \in 1 .. task[p][c].n - 1
    <3>1. n # task[p][c].n
      BY <1>1 DEF Tasks
    <3>2. <<c, n>> \in SysrootFiles \ {<<c, task[p][c].n>>}
      BY <1>2, <2>3, <3>1
    <3> QED
      BY <2>3, <3>2
  <2>5. \A n \in 1 .. task[p][c].n : file'[<<c, n>>] = Whole
    BY <1>1, <2>4 DEF Tasks
  <2> QED
    BY <1>3, <2>2, <2>5
<1>4. CASE d # c
  <2>1. task'[p][d] = task[p][d]
    BY <1>4, Typed
  <2>2. \A n \in 1 .. Parts : file'[<<d, n>>] = file[<<d, n>>]
    BY <1>2, <1>4
  <2> QED
    BY <1>1, <2>1, <2>2, PassedAreFiles DEF TasksRepair
<1> QED
  BY <1>3, <1>4

\* A task that goes to another point of its work without having passed a file.
LEMMA TaskGoesOn ==
  ASSUME TypeOK, NEW p \in Procs, NEW c \in Components, TasksRepair(p),
         NEW at \in {"move", "copy"}, TaskGoes(p, c, at),
         task[p][c].at \in {"fetch", "move"},
         at = "copy" => task[p][c].at = "move" /\ file'[<<c, task[p][c].n>>] = p,
         \A f \in SysrootFiles \ {<<c, task[p][c].n>>} : file'[f] = file[f]
  PROVE  TasksRepair(p)'
<1> SUFFICES ASSUME NEW d \in Components
             PROVE  /\ task'[p][d].at # "error"
                    /\ task'[p][d].at = "fetch" => task'[p][d].n = 1
                    /\ \A n \in Passed(task'[p][d]) : file'[<<d, n>>] = Whole
                    /\ task'[p][d].at = "copy" => file'[<<d, task'[p][d].n>>] \in {p, Whole}
  BY DEF TasksRepair
<1>1. task[p][c] \in Tasks /\ task[p][d] \in Tasks
  BY Typed
<1>2. \A e \in Components, n \in 1 .. Parts : <<e, n>> \in SysrootFiles
  BY DEF SysrootFiles
<1>3. task' = [task EXCEPT ![p][c] = [at |-> at, n |-> task[p][c].n]]
  BY TaskGoesType DEF TaskAt
<1>4. CASE d = c
  <2>1. task'[p][d] = [at |-> at, n |-> task[p][c].n]
    BY <1>3, <1>4, Typed
  <2>2. Passed(task'[p][d]) = 1 .. task[p][c].n - 1
    BY <2>1 DEF Passed
  <2>3. \A n \in 1 .. task[p][c].n - 1 : n \in 1 .. Parts /\ file[<<c, n>>] = Whole
    <3>1. CASE task[p][c].at = "move"
      BY <1>1, <3>1, PassedNext, PassedAreFiles DEF TasksRepair
    <3>2. CASE task[p][c].at = "fetch"
      <4>1. task[p][c].n = 1
        BY <3>2 DEF TasksRepair
      <4> QED
        BY <4>1
    <3> QED
      BY <3>1, <3>2
  <2>4. \A n \in 1 .. task[p][c].n - 1 : file'[<<c, n>>] = Whole
    <3> TAKE n \in 1 .. task[p][c].n - 1
    <3>1. n # task[p][c].n
      BY <1>1 DEF Tasks
    <3>2. <<c, n>> \in SysrootFiles \ {<<c, task[p][c].n>>}
      BY <1>2, <2>3, <3>1
    <3> QED
      BY <2>3, <3>2
  <2> QED
    BY <1>4, <2>1, <2>2, <2>4
<1>5. CASE d # c
  <2>1. task'[p][d] = task[p][d]
    BY <1>3, <1>5, Typed
  <2>2. \A n \in 1 .. Parts : file'[<<d, n>>] = file[<<d, n>>]
    BY <1>2, <1>5
  <2> QED
    BY <1>1, <2>1, <2>2, PassedAreFiles DEF TasksRepair
<1> QED
  BY <1>4, <1>5

\* A process's own steps keep what makes it repair, or disturb it.
LEMMA OwnStep ==
  ASSUME TypeOK, NEW p \in Procs, p \notin disturbed', p \notin disturbed, Undisturbed(p), Step(p)
  PROVE  Undisturbed(p)'
<1> USE DEF Go, Disturb, Others, Fail
<1>0. TasksRepair(p) /\ LooksUp(p) /\ FindsCargo(p)
  BY DEF Undisturbed
<1>1. CASE MakeDir(p)
  <2>1. task'[p] = NewTasks /\ pc'[p] = "tasks" /\ dir' /\ place'[p] = 1
    BY <1>0, <1>1, Typed DEF MakeDir, LooksUp, Installing
  <2>2. \A c \in Components : task'[p][c] = [at |-> "fetch", n |-> 1]
    BY <2>1 DEF NewTasks
  <2>3. \A c \in Components : Passed(task'[p][c]) = {}
    BY <2>2 DEF Passed
  <2>4. TasksRepair(p)'
    BY <2>2, <2>3 DEF TasksRepair
  <2> QED
    BY <2>1, <2>4 DEF Undisturbed, LooksUp, FindsCargo, Installing
<1>2. CASE MakeDirFails(p) \/ OwlFails(p)
  BY <1>2 DEF MakeDirFails, OwlFails
<1>3. CASE JoinTasks(p) \/ SkipOwl(p)
  <2>1. TasksRepair(p)'
    BY <1>0, <1>3, TasksStay DEF JoinTasks, SkipOwl
  <2> QED
    BY <1>0, <1>3, <2>1, Typed DEF JoinTasks, SkipOwl, Undisturbed, LooksUp, FindsCargo, Installing
<1>4. CASE UnpackBegin(p) \/ UnpackEnd(p)
  <2>1. \A f \in SysrootFiles : file'[f] \in {file[f], Whole}
    BY <1>4, Typed, ToolchainAssumption DEF UnpackBegin, UnpackEnd, Files
  <2>2. TasksRepair(p)'
    BY <1>0, <1>4, <2>1, TasksStay DEF UnpackBegin, UnpackEnd
  <2>3. LooksUp(p)'
    BY <1>0, <1>4, Typed DEF UnpackBegin, UnpackEnd, Installed, LooksUp, Installing
  <2>4. FindsCargo(p)'
    BY <1>0, <1>4 DEF UnpackBegin, UnpackEnd, FindsCargo
  <2> QED
    BY <2>2, <2>3, <2>4 DEF Undisturbed
<1>5. ASSUME NEW c \in Components, Fetch(p, c)
      PROVE  Undisturbed(p)'
  <2>1. TasksRepair(p)'
    BY <1>0, <1>5, TaskGoesOn DEF Fetch, TaskIs
  <2> QED
    BY <1>0, <1>5, <2>1, Typed DEF Fetch, TaskIs, Undisturbed, LooksUp, FindsCargo, Installing
<1>6. ASSUME NEW c \in Components, FetchFails(p, c) \/ PlaceFails(p, c)
      PROVE  Undisturbed(p)'
  BY <1>6 DEF FetchFails, PlaceFails, TaskErr
<1>7. ASSUME NEW c \in Components, Rename(p, c) \/ CopyEnd(p, c)
      PROVE  Undisturbed(p)'
  <2>1. /\ task[p][c].at \in {"move", "copy"}
        /\ task' = [task EXCEPT ![p][c] = NextFile(task[p][c])]
    BY <1>7 DEF Rename, CopyEnd, TaskIs
  <2>2. <<c, task[p][c].n>> \in Files
    BY Typed, PassedAreFiles DEF Files, SysrootFiles
  <2>3. file'[<<c, task[p][c].n>>] = Whole
    <3>1. CASE Rename(p, c)
      BY <2>2, <3>1, Typed DEF Rename
    <3>2. CASE CopyEnd(p, c)
      <4>1. file[<<c, task[p][c].n>>] \in {p, Whole}
        BY <1>0, <3>2 DEF CopyEnd, TaskIs, TasksRepair
      <4> QED
        BY <2>2, <3>2, <4>1, Typed DEF CopyEnd, Copied
    <3> QED
      BY <1>7, <3>1, <3>2
  <2>4. \A f \in SysrootFiles \ {<<c, task[p][c].n>>} : file'[f] = file[f]
    BY <1>7, Typed DEF Rename, CopyEnd, Copied, Files
  <2>5. TasksRepair(p)'
    BY <1>0, <2>1, <2>3, <2>4, TaskPasses
  <2>6. pc'[p] = "tasks" /\ dir' /\ place'[p] = 1
    BY <1>0, <1>7 DEF Rename, CopyEnd, TaskIs, LooksUp, Installing
  <2> QED
    BY <2>5, <2>6 DEF Undisturbed, LooksUp, FindsCargo, Installing
<1>8. ASSUME NEW c \in Components, CopyBegin(p, c)
      PROVE  Undisturbed(p)'
  <2>1. <<c, task[p][c].n>> \in Files
    BY Typed, PassedAreFiles DEF Files, SysrootFiles
  <2>2. /\ file'[<<c, task[p][c].n>>] = p
        /\ \A f \in SysrootFiles \ {<<c, task[p][c].n>>} : file'[f] = file[f]
    BY <1>8, <2>1, Typed DEF CopyBegin, Files
  <2>3. TasksRepair(p)'
    BY <1>0, <1>8, <2>2, TaskGoesOn DEF CopyBegin, TaskIs
  <2>4. pc'[p] = "tasks" /\ dir' /\ place'[p] = 1
    BY <1>0, <1>8 DEF CopyBegin, TaskIs, LooksUp, Installing
  <2> QED
    BY <2>3, <2>4 DEF Undisturbed, LooksUp, FindsCargo, Installing
<1>9. CASE Probe(p)
  <2>1. TasksRepair(p)'
    BY <1>0, <1>9, TasksStay DEF Probe
  <2> QED
    BY <1>0, <1>9, <2>1, Typed DEF Probe, Undisturbed, LooksUp, FindsCargo, Installing
<1>10. CASE Pick(p)
  <2>1. TasksRepair(p)' /\ dir' /\ dir
    BY <1>0, <1>10, TasksStay DEF Pick, LooksUp
  <2>2. CASE LookupAt(p, 1, 2, "cargo", "none")
    BY <1>0, <1>10, <2>1, <2>2, Typed DEF Pick, LookupAt, Undisturbed, LooksUp, FindsCargo, Installing
  <2>3. CASE LookupAt(p, 2, 3, "cargo", IF There(<<Cargo, 1>>) THEN "runtime" ELSE "fallback")
    <3>1. (\A c \in Components : task[p][c].at = "ok") => There(<<Cargo, 1>>)
      <4> SUFFICES ASSUME \A c \in Components : task[p][c].at = "ok"
                   PROVE  There(<<Cargo, 1>>)
        OBVIOUS
      <4>1. 1 \in Passed(task[p][Cargo])
        BY ToolchainAssumption DEF Passed
      <4>2. file[<<Cargo, 1>>] = Whole
        BY <1>0, <4>1, ToolchainAssumption DEF TasksRepair
      <4> QED
        BY <4>2 DEF There, Whole, Absent
    <3>2. (\A c \in Components : task[p][c].at = "ok") => chose'[p]["cargo"] = "runtime"
      BY <2>3, <3>1, Typed DEF LookupAt, Choices
    <3>3. FindsCargo(p)'
      BY <1>10, <3>2 DEF FindsCargo, Pick
    <3> QED
      BY <1>10, <2>1, <2>3, <3>3, Typed DEF Pick, LookupAt, Undisturbed, LooksUp, Installing
  <2>4. CASE \/ LookupAt(p, 3, 5, "rustowlc", "runtime")
             \/ LookupAt(p, 3, 4, "rustowlc", "none")
             \/ LookupAt(p, 4, 5, "rustowlc", "fallback")
    <3>1. chose'[p]["cargo"] = chose[p]["cargo"] /\ place[p] >= 3 /\ pc'[p] = "probe"
      BY <2>4, Typed DEF LookupAt, Choices
    <3> QED
      BY <1>0, <1>10, <2>1, <3>1 DEF Pick, Undisturbed, LooksUp, FindsCargo, Installing
  <2>5. CASE place[p] = 5 /\ Go(p, "run") /\ UNCHANGED <<place, chose>>
    BY <1>0, <1>10, <2>1, <2>5, Typed DEF Pick, Undisturbed, LooksUp, FindsCargo, Installing
  <2> QED
    BY <1>10, <2>2, <2>3, <2>4, <2>5 DEF Pick
<1>11. CASE Finish(p)
  <2>1. \A c \in Components : task'[p][c].at = "none"
    BY <1>11, Typed DEF Finish, Forget, NoTask
  <2> QED
    BY <1>11, <2>1, NoTasks, Typed DEF Finish, Undisturbed, LooksUp, Installing
<1>12. CASE RemoveDir(p) \/ \E f \in SysrootFiles : Remove(p, f)
  <2>1. \A c \in Components : task'[p][c].at = "none"
    BY <1>0, <1>12 DEF RemoveDir, Remove, LooksUp
  <2>2. pc'[p] \in {"remove", "done", "failed"}
    BY <1>12, Typed DEF RemoveDir, Remove
  <2> QED
    BY <2>1, <2>2, NoTasks DEF Undisturbed, LooksUp, Installing
<1> QED
  BY <1>1, <1>2, <1>3, <1>4, <1>5, <1>6, <1>7, <1>8, <1>9, <1>10, <1>11, <1>12 DEF Step, Install

\* A command starts without tasks.
LEMMA StartStep ==
  ASSUME TypeOK, NEW p \in Procs, NEW c \in Commands, Start(p, c)
  PROVE  Undisturbed(p)'
<1>1. \A d \in Components : task'[p][d].at = "none"
  BY Typed DEF Start, NoTask
<1>2. place'[p] = 1 /\ pc'[p] \in {"mkdir", "remove", "probe", "done"}
  BY Typed DEF Start, Go, FirstPC, Commands
<1> QED
  BY <1>1, <1>2, NoTasks DEF Undisturbed, LooksUp, Installing

\* A step of a process never ends what disturbs it.
LEMMA StepDisturbs ==
  ASSUME NEW p \in Procs, Step(p)
  PROVE  disturbed \subseteq disturbed' /\ (trouble => trouble')
<1> USE DEF Disturb, Fail, TaskErr
<1>1. CASE MakeDir(p) \/ MakeDirFails(p) \/ JoinTasks(p) \/ SkipOwl(p)
  BY <1>1 DEF MakeDir, MakeDirFails, JoinTasks, SkipOwl
<1>2. CASE UnpackBegin(p) \/ UnpackEnd(p) \/ OwlFails(p)
  BY <1>2 DEF UnpackBegin, UnpackEnd, OwlFails
<1>3. ASSUME NEW c \in Components,
             \/ Fetch(p, c) \/ FetchFails(p, c) \/ Rename(p, c)
             \/ CopyBegin(p, c) \/ CopyEnd(p, c) \/ PlaceFails(p, c)
      PROVE  disturbed \subseteq disturbed' /\ (trouble => trouble')
  BY <1>3 DEF Fetch, FetchFails, Rename, CopyBegin, CopyEnd, PlaceFails
<1>4. CASE Probe(p) \/ Pick(p) \/ Finish(p) \/ RemoveDir(p)
  BY <1>4 DEF Probe, Pick, Finish, RemoveDir
<1>5. ASSUME NEW f \in SysrootFiles, Remove(p, f)
      PROVE  disturbed \subseteq disturbed' /\ (trouble => trouble')
  BY <1>5 DEF Remove
<1> QED
  BY <1>1, <1>2, <1>3, <1>4, <1>5 DEF Step, Install

LEMMA RepairsHolds == Spec => []Repairs
<1>1. Init => Repairs
  <2> SUFFICES ASSUME Init, NEW p \in Procs
               PROVE  Undisturbed(p)
    BY DEF Repairs
  <2>1. \A c \in Components : task[p][c].at = "none"
    BY DEF Init, NoTask
  <2>2. \A c \in Components : Passed(task[p][c]) = {}
    BY <2>1 DEF Passed
  <2>3. pc[p] = "idle" /\ place[p] = 1
    BY DEF Init
  <2> QED
    BY <2>1, <2>2, <2>3, ToolchainAssumption DEF Undisturbed, TasksRepair, LooksUp, FindsCargo, Installing
<1>2. TypeOK /\ Repairs /\ [Next]_vars => Repairs'
  <2> SUFFICES ASSUME TypeOK, Repairs, [Next]_vars, NEW q \in Procs, q \notin disturbed'
               PROVE  Undisturbed(q)'
    BY DEF Repairs
  <2>1. CASE UNCHANGED vars
    <3>1. Undisturbed(q)
      BY <2>1 DEF Repairs, vars
    <3> QED
      BY <2>1, <3>1, OthersStep DEF vars
  <2>2. ASSUME NEW p \in Procs, p # q, Step(p) \/ Kill(p) \/ \E c \in Commands : Start(p, c)
        PROVE  Undisturbed(q)'
    <3>1. /\ q \notin disturbed /\ (dir => dir')
          /\ \A f \in SysrootFiles : file'[f] \in {file[f], Whole}
      BY <2>2, WorseDisturbs
    <3>2. task'[q] = task[q] /\ pc'[q] = pc[q] /\ place'[q] = place[q] /\ chose'[q] = chose[q]
      BY <2>2, OwnOnly
    <3>3. Undisturbed(q)
      BY <3>1 DEF Repairs
    <3> QED
      BY <3>1, <3>2, <3>3, OthersStep
  <2>3. CASE Step(q)
    <3>1. q \notin disturbed
      BY <2>3, StepDisturbs
    <3>2. Undisturbed(q)
      BY <3>1 DEF Repairs
    <3> QED
      BY <2>3, <3>1, <3>2, OwnStep
  <2>4. CASE Kill(q)
    BY <2>4 DEF Kill, Fail
  <2>5. CASE \E c \in Commands : Start(q, c)
    BY <2>5, StartStep
  <2> QED
    BY <2>1, <2>2, <2>3, <2>4, <2>5 DEF Next
<1> QED
  BY <1>1, <1>2, TypeCorrect, PTL DEF Spec

\* Recovery: whatever crashes and failed or torn installations left behind, an installation that
\* nothing disturbs leaves the sysroot whole, and an analysis that made it runs its cargo.
THEOREM InstallRepairs == Spec => []ReinstallRepairs
<1>1. TypeOK /\ Repairs => ReinstallRepairs
  <2> SUFFICES ASSUME TypeOK, Repairs, NEW p \in Procs, HasInstalled(p), p \notin disturbed
               PROVE  SysrootWhole /\ (pc[p] = "run" => chose[p]["cargo"] = "runtime")
    BY DEF ReinstallRepairs
  <2>1. TasksRepair(p) /\ LooksUp(p) /\ FindsCargo(p)
    BY DEF Repairs, Undisturbed
  <2>2. \A c \in Components : task[p][c].at = "ok"
    BY <2>1 DEF HasInstalled, TaskOver, TasksRepair
  <2>3. SysrootWhole
    <3> SUFFICES ASSUME NEW c \in Components, NEW n \in 1 .. Parts
                 PROVE  file[<<c, n>>] = Whole
      BY DEF SysrootWhole, SysrootFiles
    <3>1. Passed(task[p][c]) = 1 .. Parts
      BY <2>2 DEF Passed
    <3> QED
      BY <2>1, <3>1 DEF TasksRepair
  <2>4. pc[p] = "run" => chose[p]["cargo"] = "runtime"
    BY <2>1, <2>2 DEF LooksUp, FindsCargo
  <2> QED
    BY <2>3, <2>4
<1> QED
  BY <1>1, TypeCorrect, RepairsHolds, PTL

-----------------------------------------------------------------------------
(* Installations at the same time. *)

Working(p) == pc[p] = "tasks"
\* A task has file n still to install.
Ahead(t, n) == t.at \in {"fetch", "move", "copy"} /\ t.n <= n

OnlyInstalls == \A p \in Procs : pc[p] # "remove" /\ (Working(p) => dir)
CopiesThere ==
  \A p \in Procs, c \in Components : Working(p) =>
    /\ task[p][c].at = "fetch" => task[p][c].n = 1
    /\ task[p][c].at = "copy" => file[<<c, task[p][c].n>>] # Absent
TornIsCopied ==
  \A p \in Procs, c \in Components, n \in 1 .. Parts : file[<<c, n>>] = p =>
    Working(p) /\ task[p][c].at = "copy" /\ task[p][c].n = n
AbsentIsAhead ==
  dir => \A c \in Components, n \in 1 .. Parts : file[<<c, n>>] = Absent =>
    \E p \in Procs : Working(p) /\ Ahead(task[p][c], n)

Agree == OnlyInstalls /\ CopiesThere /\ TornIsCopied /\ AbsentIsAhead
Agrees == ~trouble => Agree

\* Steps that leave the sysroot and everything that works on it.
LEMMA QuietAgrees ==
  ASSUME Agree, dir' = dir, \A f \in SysrootFiles : file'[f] = file[f],
         \A p \in Procs : /\ Working(p)' <=> Working(p)
                          /\ Working(p) => task'[p] = task[p]
                          /\ pc'[p] # "remove",
         TypeOK
  PROVE  Agree'
<1>1. \A c \in Components, n \in 1 .. Parts : file'[<<c, n>>] = file[<<c, n>>]
  BY DEF SysrootFiles
<1>2. OnlyInstalls'
  BY DEF Agree, OnlyInstalls
<1>3. CopiesThere'
  <2> SUFFICES ASSUME NEW p \in Procs, NEW c \in Components, Working(p)
               PROVE  /\ task[p][c].at = "fetch" => task[p][c].n = 1
                      /\ task[p][c].at = "copy" => file'[<<c, task[p][c].n>>] # Absent
    BY DEF CopiesThere
  <2>1. task[p][c].n \in 1 .. Parts
    BY Typed DEF Tasks
  <2> QED
    BY <1>1, <2>1 DEF Agree, CopiesThere
<1>4. TornIsCopied'
  BY <1>1 DEF Agree, TornIsCopied
<1>5. AbsentIsAhead'
  BY <1>1 DEF Agree, AbsentIsAhead
<1> QED
  BY <1>2, <1>3, <1>4, <1>5 DEF Agree

\* The steps of p's task for c: to t, after it has put v in the place of its file (or nothing).
LEMMA TaskAgrees ==
  ASSUME TypeOK, Agree, NEW p \in Procs, NEW c \in Components, NEW t \in Tasks, Working(p),
         task[p][c].at \in {"fetch", "move", "copy"},
         task' = [task EXCEPT ![p][c] = t], pc' = pc, dir' = TRUE,
         \A f \in SysrootFiles \ {<<c, task[p][c].n>>} : file'[f] = file[f],
         \A q \in Procs \ {p} : file'[<<c, task[p][c].n>>] = q => file[<<c, task[p][c].n>>] = q,
         file'[<<c, task[p][c].n>>] = p => t.at = "copy" /\ t.n = task[p][c].n,
         file'[<<c, task[p][c].n>>] = Absent => file[<<c, task[p][c].n>>] = Absent,
         t.at = "fetch" => t.n = 1,
         t.at = "copy" => t.n = task[p][c].n /\ file'[<<c, task[p][c].n>>] # Absent,
         \A n \in 1 .. Parts : file'[<<c, n>>] = Absent /\ task[p][c].n <= n => Ahead(t, n)
  PROVE  Agree'
<1>1. \A d \in Components, n \in 1 .. Parts : <<d, n>> \in SysrootFiles
  BY DEF SysrootFiles
<1>2. /\ task'[p][c] = t
      /\ \A q \in Procs, d \in Components : q # p \/ d # c => task'[q][d] = task[q][d]
  BY Typed
<1>3. task[p][c].n \in 1 .. Parts /\ \A q \in Procs, d \in Components : task[q][d].n \in 1 .. Parts
  BY Typed DEF Tasks
<1>4. \A d \in Components, n \in 1 .. Parts :
        d # c \/ n # task[p][c].n => file'[<<d, n>>] = file[<<d, n>>]
  BY <1>1
<1>5. OnlyInstalls'
  BY DEF Agree, OnlyInstalls, Working
<1>6. CopiesThere'
  <2> SUFFICES ASSUME NEW q \in Procs, NEW d \in Components, Working(q)'
               PROVE  /\ task'[q][d].at = "fetch" => task'[q][d].n = 1
                      /\ task'[q][d].at = "copy" => file'[<<d, task'[q][d].n>>] # Absent
    BY DEF CopiesThere
  <2>1. CASE q = p /\ d = c
    BY <1>2, <2>1
  <2>2. CASE q # p \/ d # c
    <3>1. /\ task[q][d].at = "fetch" => task[q][d].n = 1
          /\ task[q][d].at = "copy" => file[<<d, task[q][d].n>>] # Absent
      BY DEF Agree, CopiesThere, Working
    <3>2. task[q][d].at = "copy" => file'[<<d, task[q][d].n>>] # Absent
      BY <1>3, <1>4, <3>1
    <3> QED
      BY <1>2, <2>2, <3>1, <3>2
  <2> QED
    BY <2>1, <2>2
<1>7. TornIsCopied'
  <2> SUFFICES ASSUME NEW q \in Procs, NEW d \in Components, NEW n \in 1 .. Parts,
                      file'[<<d, n>>] = q
               PROVE  Working(q)' /\ task'[q][d].at = "copy" /\ task'[q][d].n = n
    BY DEF TornIsCopied
  <2>1. CASE q = p /\ d = c /\ n = task[p][c].n
    BY <1>2, <2>1 DEF Working
  <2>2. CASE ~(q = p /\ d = c /\ n = task[p][c].n)
    <3>1. file[<<d, n>>] = q
      BY <1>4, <2>2
    <3>2. Working(q) /\ task[q][d].at = "copy" /\ task[q][d].n = n
      BY <3>1 DEF Agree, TornIsCopied
    <3>3. q # p \/ d # c
      BY <2>2, <3>2
    <3> QED
      BY <1>2, <3>2, <3>3 DEF Working
  <2> QED
    BY <2>1, <2>2
<1>8. AbsentIsAhead'
  <2> SUFFICES ASSUME NEW d \in Components, NEW n \in 1 .. Parts, file'[<<d, n>>] = Absent
               PROVE  \E q \in Procs : Working(q)' /\ Ahead(task'[q][d], n)
    BY DEF AbsentIsAhead
  <2>1. file[<<d, n>>] = Absent /\ dir
    BY <1>4 DEF Agree, OnlyInstalls
  <2>2. PICK q \in Procs : Working(q) /\ Ahead(task[q][d], n)
    BY <2>1 DEF Agree, AbsentIsAhead
  <2>3. CASE q = p /\ d = c
    <3>1. Ahead(t, n)
      BY <2>2, <2>3 DEF Ahead
    <3> QED
      BY <1>2, <2>2, <2>3, <3>1 DEF Working
  <2>4. CASE q # p \/ d # c
    BY <1>2, <2>2, <2>4 DEF Working
  <2> QED
    BY <2>3, <2>4
<1> QED
  BY <1>5, <1>6, <1>7, <1>8 DEF Agree

\* A task at a point of its work before a file is there has that file, and the later ones, ahead.
LEMMA AheadNext ==
  ASSUME NEW t \in Tasks, t.at \in {"move", "copy"}, NEW n \in 1 .. Parts, t.n <= n, n # t.n
  PROVE  Ahead(NextFile(t), n)
<1>1. t.n \in 1 .. Parts /\ t.n # Parts
  BY ToolchainAssumption DEF Tasks
<1>2. NextFile(t) = [at |-> "move", n |-> t.n + 1]
  BY <1>1 DEF NextFile
<1> QED
  BY <1>1, <1>2, ToolchainAssumption DEF Ahead

LEMMA AgreesHolds == Spec => []Agrees
<1>1. Init => Agrees
  <2> SUFFICES ASSUME Init
               PROVE  Agree
    BY DEF Agrees
  <2>1. \A c \in Components, n \in 1 .. Parts : file[<<c, n>>] = Absent
    BY DEF Init, Files, SysrootFiles
  <2>2. \A p \in Procs : pc[p] = "idle" /\ p # Absent
    BY ToolchainAssumption DEF Init
  <2> QED
    BY <2>1, <2>2 DEF Init, Agree, OnlyInstalls, CopiesThere, TornIsCopied, AbsentIsAhead, Working
<1>2. TypeOK /\ Agrees /\ [Next]_vars => Agrees'
  <2> SUFFICES ASSUME TypeOK, Agrees, [Next]_vars, ~trouble'
               PROVE  Agree'
    BY DEF Agrees
  <2>0. ASSUME ~trouble
        PROVE  Agree
    BY <2>0 DEF Agrees
  <2> USE DEF Go, Disturb, Fail, TaskErr
  <2>1. CASE UNCHANGED vars
    BY <2>0, <2>1, QuietAgrees DEF vars, Agree, OnlyInstalls, Working
  <2>2. ASSUME NEW p \in Procs, Kill(p) \/ MakeDirFails(p) \/ OwlFails(p)
        PROVE  Agree'
    BY <2>2 DEF Kill, MakeDirFails, OwlFails
  <2>3. ASSUME NEW p \in Procs, NEW c \in Components, FetchFails(p, c) \/ PlaceFails(p, c)
        PROVE  Agree'
    BY <2>3 DEF FetchFails, PlaceFails
  <2>4. ASSUME NEW p \in Procs, NEW c \in Commands, Start(p, c)
        PROVE  Agree'
    <3>1. c # "uninstall" /\ ~trouble
      BY <2>4 DEF Start
    <3>2. Agree
      BY <2>0, <3>1
    <3>3. \A q \in Procs : /\ Working(q)' <=> Working(q)
                           /\ Working(q) => task'[q] = task[q]
                           /\ pc'[q] # "remove"
      BY <2>4, <3>1, <3>2, Typed DEF Start, FirstPC, Commands, Resting, Working, Agree, OnlyInstalls
    <3> QED
      BY <2>4, <3>2, <3>3, QuietAgrees DEF Start
  <2>5. ASSUME NEW p \in Procs, SkipOwl(p) \/ Probe(p) \/ Pick(p) \/ Finish(p)
        PROVE  Agree'
    <3>1. Agree
      BY <2>0, <2>5 DEF SkipOwl, Probe, Pick, Finish
    <3>2. UNCHANGED <<dir, file>>
      BY <2>5 DEF SkipOwl, Probe, Pick, Finish
    <3>3. \A q \in Procs : /\ Working(q)' <=> Working(q)
                           /\ Working(q) => task'[q] = task[q]
                           /\ pc'[q] # "remove"
      BY <2>5, <3>1, Typed
         DEF SkipOwl, Probe, Pick, LookupAt, Finish, Forget, Working, Agree, OnlyInstalls
    <3> QED
      BY <3>1, <3>2, <3>3, QuietAgrees
  <2>6. ASSUME NEW p \in Procs, UnpackBegin(p) \/ UnpackEnd(p)
        PROVE  Agree'
    <3>1. Agree
      BY <2>0, <2>6 DEF UnpackBegin, UnpackEnd
    <3>2. dir' = dir /\ \A f \in SysrootFiles : file'[f] = file[f]
      BY <2>6, Typed, ToolchainAssumption DEF UnpackBegin, UnpackEnd, Files
    <3>3. \A q \in Procs : /\ Working(q)' <=> Working(q)
                           /\ Working(q) => task'[q] = task[q]
                           /\ pc'[q] # "remove"
      BY <2>6, <3>1, Typed DEF UnpackBegin, UnpackEnd, Installed, Working, Agree, OnlyInstalls
    <3> QED
      BY <3>1, <3>2, <3>3, QuietAgrees
  <2>7. ASSUME NEW p \in Procs, MakeDir(p)
        PROVE  Agree'
    <3>1. Agree
      BY <2>0, <2>7 DEF MakeDir
    <3>2. task'[p] = NewTasks /\ \A q \in Procs \ {p} : task'[q] = task[q] /\ pc'[q] = pc[q]
      BY <2>7, Typed DEF MakeDir
    <3>3. dir' /\ file' = file /\ pc[p] = "mkdir" /\ pc'[p] = "tasks"
      BY <2>7, Typed DEF MakeDir
    <3>4. \A c \in Components : task'[p][c] = [at |-> "fetch", n |-> 1]
      BY <3>2 DEF NewTasks
    <3>5. OnlyInstalls'
      BY <3>1, <3>2, <3>3 DEF Agree, OnlyInstalls, Working
    <3>6. CopiesThere'
      BY <3>1, <3>2, <3>3, <3>4 DEF Agree, CopiesThere, Working
    <3>7. TornIsCopied'
      BY <3>1, <3>2, <3>3 DEF Agree, TornIsCopied, Working
    <3>8. \A c \in Components, n \in 1 .. Parts : Working(p)' /\ Ahead(task'[p][c], n)
      BY <3>3, <3>4, ToolchainAssumption DEF Working, Ahead
    <3> QED
      BY <3>5, <3>6, <3>7, <3>8 DEF Agree, AbsentIsAhead
  <2>8. ASSUME NEW p \in Procs, JoinTasks(p)
        PROVE  Agree'
    <3>1. Agree
      BY <2>0, <2>8 DEF JoinTasks
    <3>2. /\ pc'[p] = "owl" /\ \A q \in Procs \ {p} : pc'[q] = pc[q]
          /\ UNCHANGED <<dir, file, task>>
      BY <2>8, Typed DEF JoinTasks
    <3>3. \A c \in Components : task[p][c].at \in {"ok", "error"}
      BY <2>8 DEF JoinTasks, TaskOver
    <3>4. \A c \in Components, n \in 1 .. Parts : ~Ahead(task[p][c], n)
      BY <3>3 DEF Ahead
    <3>5. OnlyInstalls'
      BY <3>1, <3>2 DEF Agree, OnlyInstalls, Working
    <3>6. CopiesThere'
      BY <3>1, <3>2 DEF Agree, CopiesThere, Working
    <3>7. TornIsCopied'
      BY <3>1, <3>2, <3>3 DEF Agree, TornIsCopied, Working
    <3>8. AbsentIsAhead'
      BY <3>1, <3>2, <3>4 DEF Agree, AbsentIsAhead, Working
    <3> QED
      BY <3>5, <3>6, <3>7, <3>8 DEF Agree
  <2>9. ASSUME NEW p \in Procs, NEW c \in Components, Fetch(p, c)
        PROVE  Agree'
    <3>1. Agree /\ dir
      BY <2>0, <2>9 DEF Fetch, TaskIs, Agree, OnlyInstalls, Working
    <3>2. /\ task' = [task EXCEPT ![p][c] = [at |-> "move", n |-> task[p][c].n]]
          /\ [at |-> "move", n |-> task[p][c].n] \in Tasks
          /\ task[p][c].at = "fetch" /\ pc[p] = "tasks"
      <4>1. [at |-> "move", n |-> task[p][c].n] \in Tasks
        BY Typed DEF Tasks, TaskAt
      <4> QED
        BY <2>9, <4>1, TaskGoesType DEF Fetch, TaskIs, TaskAt
    <3>3. file[<<c, task[p][c].n>>] # p
      BY <3>1, <3>2, Typed DEF Agree, TornIsCopied, Tasks
    <3>4. file' = file /\ pc' = pc /\ dir' = TRUE
      BY <2>9, <3>1, Typed DEF Fetch
    <3>5. \A n \in 1 .. Parts : task[p][c].n <= n => Ahead([at |-> "move", n |-> task[p][c].n], n)
      BY DEF Ahead
    <3> QED
      BY <3>1, <3>2, <3>3, <3>4, <3>5, TaskAgrees DEF Working
  <2>10. ASSUME NEW p \in Procs, NEW c \in Components, CopyBegin(p, c)
         PROVE  Agree'
    <3>1. Agree /\ dir
      BY <2>0, <2>10 DEF CopyBegin, TaskIs, Agree, OnlyInstalls, Working
    <3>2. /\ task' = [task EXCEPT ![p][c] = [at |-> "copy", n |-> task[p][c].n]]
          /\ [at |-> "copy", n |-> task[p][c].n] \in Tasks
          /\ task[p][c].at = "move" /\ pc[p] = "tasks"
      <4>1. [at |-> "copy", n |-> task[p][c].n] \in Tasks
        BY Typed DEF Tasks, TaskAt
      <4> QED
        BY <2>10, <4>1, TaskGoesType DEF CopyBegin, TaskIs, TaskAt
    <3>3. <<c, task[p][c].n>> \in Files
      BY Typed, PassedAreFiles DEF Files, SysrootFiles
    <3>4. /\ file'[<<c, task[p][c].n>>] = p /\ p # Absent /\ pc' = pc /\ dir' = TRUE
          /\ \A f \in SysrootFiles \ {<<c, task[p][c].n>>} : file'[f] = file[f]
      BY <2>10, <3>3, Typed, ToolchainAssumption DEF CopyBegin, Files
    <3> DEFINE t == [at |-> "copy", n |-> task[p][c].n]
    <3>5. \A n \in 1 .. Parts : task[p][c].n <= n => Ahead(t, n)
      BY DEF Ahead
    <3>6. t.at = "copy" /\ t.n = task[p][c].n
      OBVIOUS
    <3>7. task' = [task EXCEPT ![p][c] = t] /\ t \in Tasks /\ task[p][c].at = "move" /\ Working(p)
      BY <3>2 DEF Working
    <3> HIDE DEF t
    <3> QED
      BY <3>1, <3>4, <3>5, <3>6, <3>7, TaskAgrees
  <2>11. ASSUME NEW p \in Procs, NEW c \in Components, Rename(p, c) \/ CopyEnd(p, c)
         PROVE  Agree'
    <3>1. Agree /\ dir
      BY <2>0, <2>11 DEF Rename, CopyEnd, TaskIs, Agree, OnlyInstalls, Working
    <3>2. /\ task' = [task EXCEPT ![p][c] = NextFile(task[p][c])]
          /\ task[p][c].at \in {"move", "copy"} /\ pc[p] = "tasks" /\ task[p][c] \in Tasks
      BY <2>11, Typed DEF Rename, CopyEnd, TaskIs
    <3>3. NextFile(task[p][c]) \in Tasks /\ NextFile(task[p][c]).at \in {"move", "ok"}
      BY <3>2, NextFileType, PassedNext
    <3>4. <<c, task[p][c].n>> \in Files
      BY Typed, PassedAreFiles DEF Files, SysrootFiles
    <3>5. /\ file'[<<c, task[p][c].n>>] \notin {p, Absent}
          /\ file'[<<c, task[p][c].n>>] \in {Whole, file[<<c, task[p][c].n>>]}
      <4>1. CASE Rename(p, c)
        BY <3>4, <4>1, Typed, ToolchainAssumption DEF Rename, Whole, Absent
      <4>2. CASE CopyEnd(p, c)
        <5>1. file[<<c, task[p][c].n>>] # Absent
          BY <3>1, <3>2, <4>2 DEF CopyEnd, TaskIs, Agree, CopiesThere, Working
        <5> QED
          BY <3>4, <4>2, <5>1, Typed, ToolchainAssumption DEF CopyEnd, Copied, Whole, Absent
      <4> QED
        BY <2>11, <4>1, <4>2
    <3>6. /\ pc' = pc /\ dir' = TRUE
          /\ \A f \in SysrootFiles \ {<<c, task[p][c].n>>} : file'[f] = file[f]
      BY <2>11, <3>1, Typed DEF Rename, CopyEnd, Copied, Files
    <3>7. \A n \in 1 .. Parts : file'[<<c, n>>] = Absent /\ task[p][c].n <= n =>
            Ahead(NextFile(task[p][c]), n)
      BY <3>2, <3>5, AheadNext
    <3>8. \A q \in Procs : q # Whole
      BY ToolchainAssumption
    <3> DEFINE t == NextFile(task[p][c])
    <3>9. /\ task' = [task EXCEPT ![p][c] = t] /\ t \in Tasks /\ t.at \notin {"fetch", "copy"}
          /\ task[p][c].at \in {"move", "copy"} /\ Working(p)
          /\ \A n \in 1 .. Parts : file'[<<c, n>>] = Absent /\ task[p][c].n <= n => Ahead(t, n)
      BY <3>2, <3>3, <3>7 DEF Working
    <3> HIDE DEF t
    <3> QED
      BY <3>1, <3>5, <3>6, <3>8, <3>9, TaskAgrees
  <2>12. ASSUME NEW p \in Procs, RemoveDir(p) \/ \E f \in SysrootFiles : Remove(p, f)
         PROVE  Agree'
    BY <2>0, <2>12 DEF RemoveDir, Remove, Agree, OnlyInstalls
  <2> QED
    BY <2>1, <2>2, <2>3, <2>4, <2>5, <2>6, <2>7, <2>8, <2>9, <2>10, <2>11, <2>12
       DEF Next, Step, Install
<1> QED
  BY <1>1, <1>2, TypeCorrect, PTL DEF Spec

\* Installations at the same time do not spoil each other: without a failure, a kill or a removal,
\* the sysroot is whole as soon as it exists and nobody installs any more.
THEOREM InstallsAgree == Spec => []ConcurrentInstallsAgree
<1>1. TypeOK /\ Agrees => ConcurrentInstallsAgree
  <2> SUFFICES ASSUME TypeOK, Agrees, ~trouble, dir, \A p \in Procs : pc[p] \notin Installing,
                      NEW c \in Components, NEW n \in 1 .. Parts
               PROVE  file[<<c, n>>] = Whole
    BY DEF ConcurrentInstallsAgree, SysrootWhole, SysrootFiles
  <2>1. Agree /\ \A p \in Procs : ~Working(p)
    BY DEF Agrees, Working, Installing
  <2>2. file[<<c, n>>] # Absent
    BY <2>1 DEF Agree, AbsentIsAhead
  <2>3. file[<<c, n>>] \notin Procs
    BY <2>1 DEF Agree, TornIsCopied
  <2>4. <<c, n>> \in Files
    BY DEF Files, SysrootFiles
  <2> QED
    BY <2>2, <2>3, <2>4, Typed
<1> QED
  BY <1>1, TypeCorrect, AgreesHolds, PTL

-----------------------------------------------------------------------------
(* Bootstrap. *)

\* An installation that nothing has disturbed is under way or done; when it has joined its tasks they are over.
Installs(p) ==
  cmd[p] = "install" /\ p \notin disturbed =>
    /\ pc[p] \in Installing \cup {"done"}
    /\ pc[p] \in {"owl", "unpack", "done"} => \A c \in Components : TaskOver(task[p][c])
InstallsRun == \A p \in Procs : Installs(p)

\* The installer of a window that does not wait for it is done.
InstallerDone(w) ==
  cmd[w] = "install" /\ w \notin disturbed /\ win[w] # "install" => pc[w] = "done"
InstallersDone == win \in [Windows -> WinPCs] /\ \A w \in Windows : InstallerDone(w)

\* A process keeps its command while it runs.
LEMMA CommandStays ==
  ASSUME NEW p \in Procs, Step(p)
  PROVE  cmd' = cmd
<1> USE DEF TaskErr
<1>1. CASE MakeDir(p) \/ MakeDirFails(p) \/ JoinTasks(p) \/ SkipOwl(p)
  BY <1>1 DEF MakeDir, MakeDirFails, JoinTasks, SkipOwl
<1>2. CASE UnpackBegin(p) \/ UnpackEnd(p) \/ OwlFails(p)
  BY <1>2 DEF UnpackBegin, UnpackEnd, OwlFails
<1>3. ASSUME NEW c \in Components,
             \/ Fetch(p, c) \/ FetchFails(p, c) \/ Rename(p, c)
             \/ CopyBegin(p, c) \/ CopyEnd(p, c) \/ PlaceFails(p, c)
      PROVE  cmd' = cmd
  BY <1>3 DEF Fetch, FetchFails, Rename, CopyBegin, CopyEnd, PlaceFails
<1>4. CASE Probe(p) \/ Pick(p) \/ Finish(p) \/ RemoveDir(p)
  BY <1>4 DEF Probe, Pick, Finish, RemoveDir
<1>5. ASSUME NEW f \in SysrootFiles, Remove(p, f)
      PROVE  cmd' = cmd
  BY <1>5 DEF Remove
<1> QED
  BY <1>1, <1>2, <1>3, <1>4, <1>5 DEF Step, Install

\* The command of a process is its own.
LEMMA OwnCommand ==
  ASSUME TypeOK, NEW p \in Procs, NEW q \in Procs \ {p},
         Step(p) \/ Kill(p) \/ \E c \in Commands : Start(p, c)
  PROVE  cmd'[q] = cmd[q]
<1>1. CASE Step(p)
  BY <1>1, CommandStays
<1>2. CASE Kill(p) \/ \E c \in Commands : Start(p, c)
  BY <1>2 DEF Kill, Start, TypeOK
<1> QED
  BY <1>1, <1>2

LEMMA InstallsHolds == Spec => []InstallsRun
<1>1. Init => InstallsRun
  BY DEF Init, InstallsRun, Installs
<1>2. TypeOK /\ InstallsRun /\ [Next]_vars => InstallsRun'
  <2> SUFFICES ASSUME TypeOK, InstallsRun, [Next]_vars, NEW q \in Procs
               PROVE  Installs(q)'
    BY DEF InstallsRun
  <2>0. Installs(q)
    BY DEF InstallsRun
  <2>1. CASE UNCHANGED vars
    BY <2>0, <2>1 DEF vars, Installs
  <2>2. ASSUME NEW p \in Procs, p # q, Step(p) \/ Kill(p) \/ \E c \in Commands : Start(p, c)
        PROVE  Installs(q)'
    <3>1. task'[q] = task[q] /\ pc'[q] = pc[q] /\ cmd'[q] = cmd[q]
      BY <2>2, OwnOnly, OwnCommand
    <3>2. q \notin disturbed' => q \notin disturbed
      BY <2>2, WorseDisturbs
    <3> QED
      BY <2>0, <3>1, <3>2 DEF Installs
  <2>3. CASE Step(q)
    <3> SUFFICES ASSUME cmd'[q] = "install", q \notin disturbed'
                 PROVE  Installs(q)'
      BY DEF Installs
    <3>1. cmd[q] = "install" /\ q \notin disturbed
      BY <2>3, CommandStays, StepDisturbs
    <3>2. /\ pc[q] \in Installing \cup {"done"}
          /\ pc[q] \in {"owl", "unpack", "done"} => \A c \in Components : TaskOver(task[q][c])
      BY <2>0, <3>1 DEF Installs
    <3> USE DEF Go, Fail, TaskErr
    <3>3. CASE MakeDir(q)
      BY <3>2, <3>3, Typed DEF MakeDir, Installs, Installing
    <3>4. CASE MakeDirFails(q) \/ OwlFails(q)
      BY <3>4 DEF MakeDirFails, OwlFails
    <3>5. CASE JoinTasks(q)
      BY <3>5, Typed DEF JoinTasks, Installs, Installing
    <3>6. CASE SkipOwl(q) \/ UnpackBegin(q) \/ UnpackEnd(q)
      BY <3>1, <3>2, <3>6, Typed DEF SkipOwl, UnpackBegin, UnpackEnd, Installed, Installs, Installing
    <3>7. ASSUME NEW c \in Components,
                 \/ Fetch(q, c) \/ FetchFails(q, c) \/ Rename(q, c)
                 \/ CopyBegin(q, c) \/ CopyEnd(q, c) \/ PlaceFails(q, c)
          PROVE  Installs(q)'
      <4>1. pc'[q] = "tasks"
        BY <3>7 DEF Fetch, FetchFails, Rename, CopyBegin, CopyEnd, PlaceFails, TaskIs
      <4> QED
        BY <4>1 DEF Installs, Installing
    <3>8. CASE Probe(q) \/ Pick(q) \/ Finish(q) \/ RemoveDir(q) \/ \E f \in SysrootFiles : Remove(q, f)
      BY <3>2, <3>8 DEF Probe, Pick, Finish, RemoveDir, Remove, Installing
    <3> QED
      BY <2>3, <3>3, <3>4, <3>5, <3>6, <3>7, <3>8 DEF Step, Install
  <2>4. CASE Kill(q)
    BY <2>4 DEF Kill, Fail, Installs
  <2>5. ASSUME NEW c \in Commands, Start(q, c)
        PROVE  Installs(q)'
    <3>1. cmd'[q] = c /\ (c = "install" => pc'[q] = "mkdir")
      BY <2>5, Typed DEF Start, Go, FirstPC, TypeOK
    <3> QED
      BY <3>1 DEF Installs, Installing
  <2> QED
    BY <2>1, <2>2, <2>3, <2>4, <2>5 DEF Next
<1> QED
  BY <1>1, <1>2, TypeCorrect, PTL DEF Spec

\* What a window does to the processes is what they might do by themselves.
LEMMA BootSteps ==
  ASSUME [BootNext]_allVars
  PROVE  [Next]_vars
<1>1. CASE UNCHANGED allVars
  BY <1>1 DEF allVars
<1>2. ASSUME NEW w \in Windows,
             WindowStep(w) \/ Activate(w) \/ Check(w) \/ Answer(w) \/ Dismiss(w) \/ Serve(w) \/ Close(w)
      PROVE  [Next]_vars
  <2>0. w \in Procs
    BY BootstrapAssumption
  <2>1. CASE WriteBegin(w) \/ WriteEnd(w) \/ Chmod(w) \/ DownloadFails(w) \/ Exited(w)
    BY <2>1 DEF WriteBegin, WriteEnd, Chmod, DownloadFails, Exited
  <2>2. CASE Activate(w) \/ Check(w) \/ Answer(w) \/ Dismiss(w)
    BY <2>2 DEF Activate, Check, Answer, Dismiss
  <2>3. CASE Setup(w) \/ Serve(w)
    BY <2>0, <2>3 DEF Setup, Serve, Next, Commands
  <2>4. CASE Close(w)
    BY <2>0, <2>4 DEF Close, Next
  <2> QED
    BY <1>2, <2>1, <2>2, <2>3, <2>4 DEF WindowStep
<1>3. CASE \E p \in Procs : (Step(p) \/ Kill(p)) /\ UNCHANGED bootVars
  BY <1>3 DEF Next
<1>4. CASE \E p \in Procs \ Windows, c \in Commands : Start(p, c) /\ UNCHANGED bootVars
  BY <1>4 DEF Next
<1> QED
  BY <1>1, <1>2, <1>3, <1>4 DEF BootNext

LEMMA BootImplies == BootSpec => Spec
<1>1. BootInit => Init
  BY DEF BootInit
<1>2. [BootNext]_allVars => [Next]_vars
  BY BootSteps
<1> QED
  BY <1>1, <1>2, PTL DEF BootSpec, Spec

\* A window that a step is not about stays where it is.
LEMMA OtherWindow ==
  ASSUME win \in [Windows -> WinPCs], NEW w \in Windows, NEW v \in Windows \ {w},
         WindowStep(w) \/ Activate(w) \/ Check(w) \/ Answer(w) \/ Dismiss(w) \/ Serve(w) \/ Close(w)
  PROVE  win'[v] = win[v]
<1> USE DEF Move
<1>1. CASE WriteBegin(w) \/ WriteEnd(w) \/ Chmod(w) \/ DownloadFails(w) \/ Setup(w) \/ Exited(w)
  BY <1>1 DEF WriteBegin, WriteEnd, Chmod, DownloadFails, Setup, Exited
<1>2. CASE Activate(w) \/ Check(w) \/ Answer(w) \/ Dismiss(w) \/ Close(w)
  BY <1>2 DEF Activate, Check, Answer, Dismiss, Close
<1>3. CASE Serve(w)
  BY <1>3 DEF Serve, bootVars
<1> QED
  BY <1>1, <1>2, <1>3 DEF WindowStep

\* Windows stay in the states they have.
LEMMA WindowsStay ==
  ASSUME win \in [Windows -> WinPCs], [BootNext]_allVars
  PROVE  win' \in [Windows -> WinPCs]
<1> USE DEF Move, WinPCs, Asleep
<1>1. CASE UNCHANGED bootVars
  BY <1>1 DEF bootVars
<1>2. ASSUME NEW w \in Windows, WindowStep(w)
      PROVE  win' \in [Windows -> WinPCs]
  BY <1>2 DEF WindowStep, WriteBegin, WriteEnd, Chmod, DownloadFails, Setup, Exited
<1>3. ASSUME NEW w \in Windows, Activate(w) \/ Check(w) \/ Answer(w) \/ Dismiss(w) \/ Close(w)
      PROVE  win' \in [Windows -> WinPCs]
  BY <1>3 DEF Activate, Check, Answer, Dismiss, Close
<1> QED
  BY <1>1, <1>2, <1>3 DEF BootNext, Serve, allVars

\* A process whose installation is undisturbed and which rests is done.
LEMMA RestingIsDone ==
  ASSUME InstallsRun, NEW p \in Procs, cmd[p] = "install", p \notin disturbed, pc[p] \in Resting
  PROVE  pc[p] = "done"
  BY DEF InstallsRun, Installs, Resting, Installing

\* A process that is done has nothing left to do.
LEMMA DoneRests ==
  ASSUME NEW p \in Procs, pc[p] = "done", Step(p)
  PROVE  FALSE
<1>1. ~Install(p)
  BY DEF Install, MakeDir, MakeDirFails, JoinTasks, SkipOwl, UnpackBegin, UnpackEnd, OwlFails, Fetch,
         FetchFails, Rename, CopyBegin, CopyEnd, PlaceFails, TaskIs
<1>2. ~(Probe(p) \/ Pick(p) \/ Finish(p) \/ RemoveDir(p) \/ \E f \in SysrootFiles : Remove(p, f))
  BY DEF Probe, Pick, Finish, RemoveDir, Remove
<1> QED
  BY <1>1, <1>2 DEF Step

LEMMA InstallersDoneHolds == BootSpec => []InstallersDone
<1>1. BootInit => InstallersDone
  BY BootstrapAssumption DEF BootInit, Init, InstallersDone, InstallerDone, WinPCs, Asleep
<1>2. TypeOK /\ InstallsRun /\ InstallersDone /\ [BootNext]_allVars => InstallersDone'
  <2> SUFFICES ASSUME TypeOK, InstallsRun, InstallersDone, [BootNext]_allVars, NEW v \in Windows
               PROVE  InstallerDone(v)'
    BY WindowsStay DEF InstallersDone
  <2>0. /\ InstallerDone(v) /\ v \in Procs
        /\ win \in [Windows -> WinPCs] /\ pc \in [Procs -> PCs] /\ cmd \in [Procs -> Commands \cup {"none"}]
    BY BootstrapAssumption DEF InstallersDone, TypeOK
  <2>1. CASE UNCHANGED allVars
    BY <2>0, <2>1 DEF allVars, vars, bootVars, InstallerDone
  <2>2. ASSUME NEW p \in Procs, p # v, win'[v] = win[v],
               UNCHANGED vars \/ Step(p) \/ Kill(p) \/ \E c \in Commands : Start(p, c)
        PROVE  InstallerDone(v)'
    <3>1. CASE UNCHANGED vars
      BY <2>0, <2>2, <3>1 DEF vars, InstallerDone
    <3>2. CASE Step(p) \/ Kill(p) \/ \E c \in Commands : Start(p, c)
      <4>1. pc'[v] = pc[v] /\ cmd'[v] = cmd[v]
        BY <2>0, <2>2, <3>2, OwnOnly, OwnCommand
      <4>2. v \notin disturbed' => v \notin disturbed
        BY <2>0, <2>2, <3>2, WorseDisturbs
      <4> QED
        BY <2>0, <2>2, <4>1, <4>2 DEF InstallerDone
    <3> QED
      BY <2>2, <3>1, <3>2
  <2>3. ASSUME NEW p \in Procs, (Step(p) \/ Kill(p)) /\ UNCHANGED bootVars
        PROVE  InstallerDone(v)'
    <3>1. CASE p # v
      BY <2>2, <2>3, <3>1 DEF bootVars
    <3>2. CASE p = v /\ Kill(v)
      BY <2>0, <3>2 DEF Kill, Fail, InstallerDone
    <3>3. CASE p = v /\ Step(v)
      <4> SUFFICES ASSUME cmd'[v] = "install", v \notin disturbed', win'[v] # "install"
                   PROVE  pc'[v] = "done"
        BY DEF InstallerDone
      <4>1. cmd[v] = "install" /\ v \notin disturbed /\ win[v] # "install"
        BY <2>0, <2>3, <3>3, CommandStays, StepDisturbs DEF bootVars
      <4>2. pc[v] = "done"
        BY <2>0, <4>1 DEF InstallerDone
      <4> QED
        BY <3>3, <4>2, DoneRests
    <3> QED
      BY <2>3, <3>1, <3>2, <3>3
  <2>4. ASSUME NEW p \in Procs \ Windows, NEW c \in Commands, Start(p, c), UNCHANGED bootVars
        PROVE  InstallerDone(v)'
    BY <2>2, <2>4 DEF bootVars
  <2>5. ASSUME NEW w \in Windows, w # v,
               WindowStep(w) \/ Activate(w) \/ Check(w) \/ Answer(w) \/ Dismiss(w) \/ Serve(w) \/ Close(w)
        PROVE  InstallerDone(v)'
    <3>1. win'[v] = win[v] /\ w \in Procs
      BY <2>0, <2>5, OtherWindow, BootstrapAssumption
    <3>2. UNCHANGED vars \/ Kill(w) \/ \E c \in Commands : Start(w, c)
      <4>1. CASE WriteBegin(w) \/ WriteEnd(w) \/ Chmod(w) \/ DownloadFails(w) \/ Exited(w)
        BY <4>1 DEF WriteBegin, WriteEnd, Chmod, DownloadFails, Exited
      <4>2. CASE Activate(w) \/ Check(w) \/ Answer(w) \/ Dismiss(w) \/ Close(w)
        BY <4>2 DEF Activate, Check, Answer, Dismiss, Close
      <4>3. CASE Setup(w) \/ Serve(w)
        BY <4>3 DEF Setup, Serve, Commands
      <4> QED
        BY <2>5, <4>1, <4>2, <4>3 DEF WindowStep
    <3> QED
      BY <2>2, <2>5, <3>1, <3>2
  <2>6. CASE WriteBegin(v) \/ WriteEnd(v) \/ Chmod(v) \/ DownloadFails(v)
    BY <2>0, <2>6 DEF WriteBegin, WriteEnd, Chmod, DownloadFails, vars, InstallerDone
  <2>7. CASE Activate(v) \/ Check(v) \/ Answer(v) \/ Dismiss(v)
    BY <2>0, <2>7 DEF Activate, Check, Answer, Dismiss, vars, InstallerDone
  <2>8. CASE Setup(v)
    <3>1. CASE Move(v, "install")
      BY <2>0, <3>1 DEF Move, InstallerDone
    <3>2. CASE UNCHANGED vars
      BY <2>0, <2>8, <3>2 DEF Setup, vars, InstallerDone
    <3> QED
      BY <2>8, <3>1, <3>2 DEF Setup
  <2>9. CASE Exited(v)
    <3>1. UNCHANGED vars /\ pc[v] \in Resting
      BY <2>9 DEF Exited
    <3> QED
      BY <2>0, <3>1, RestingIsDone DEF vars, InstallerDone
  <2>10. CASE Serve(v)
    BY <2>0, <2>10 DEF Serve, Start, InstallerDone
  <2>11. CASE Close(v)
    <3>1. CASE Kill(v)
      BY <2>0, <3>1 DEF Kill, Fail, InstallerDone
    <3>2. CASE pc[v] \in Resting /\ UNCHANGED vars
      BY <2>0, <3>2, RestingIsDone DEF vars, InstallerDone
    <3> QED
      BY <2>11, <3>1, <3>2 DEF Close
  <2> QED
    BY <2>1, <2>3, <2>4, <2>5, <2>6, <2>7, <2>8, <2>9, <2>10, <2>11 DEF BootNext, WindowStep
<1>3. BootSpec => [](TypeOK /\ InstallsRun)
  BY BootImplies, TypeCorrect, InstallsHolds, PTL
<1> QED
  BY <1>1, <1>2, <1>3, PTL DEF BootSpec

\* An activation that installs comes up only over a whole sysroot, unless its installer met a failure
\* or was disturbed by another process, for any windows and processes.
THEOREM ActivatesOverWhole == BootSpec => []ActivatedOverWhole
<1>1. InstallsRun /\ InstallersDone /\ ReinstallRepairs => ActivatedOverWhole
  <2> SUFFICES ASSUME InstallsRun, InstallersDone, ReinstallRepairs, NEW w \in Windows,
                      win[w] = "up", cmd[w] = "install", w \notin disturbed
               PROVE  SysrootWhole
    BY DEF ActivatedOverWhole
  <2>1. w \in Procs /\ pc[w] = "done"
    BY BootstrapAssumption DEF InstallersDone, InstallerDone
  <2>2. \A c \in Components : TaskOver(task[w][c])
    BY <2>1 DEF InstallsRun, Installs
  <2> QED
    BY <2>1, <2>2 DEF ReinstallRepairs, HasInstalled
<1> QED
  BY <1>1, BootImplies, InstallsHolds, InstallersDoneHolds, InstallRepairs, PTL

=============================================================================
