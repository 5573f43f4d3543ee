---------------------------- MODULE BackendProofs ----------------------------
(***************************************************************************)
(* Proofs about module Backend, for every number of requests, targets,     *)
(* functions and handlers in flight.                                       *)
(*                                                                         *)
(* TInv is inductive and implies TypeOK: to keep the types one needs that a*)
(* run about to start a task has one to start, that a task in its event    *)
(* loop has read the sources, and that the handler reaping the JoinSet     *)
(* holds its lock.  IInv adds the invariants about who watches what.  Then *)
(* Fresh: a run starts each target once; OverlapInv: whose tasks a run may *)
(* find beside its own; OwnInv: which token stands under a task's key.     *)
(***************************************************************************)
EXTENDS Backend, FiniteSetTheorems, TLAPS

HandlerAction(r) == AddTarget(r) \/ HandlerStep(r)
TaskAction(t) == TaskStep(t) \/ Answer(t)

SnapOK == \A r \in Requests : Marked(r) => snap[r] # << >>
ReaperHolds == \A r \in Requests : pc[r] = "reap" => Holds(Handler(r))
LoopBuilt == \A t \in Tasks : tpc[t] = "loop" => built[t] # 0
TInv == TypeOK /\ SnapOK /\ LoopBuilt /\ ReaperHolds
RunOnce == \A r \in Requests : pc[r] \notin {"configure", "join", "joining", "done"} => waiter[r] = "none"
IInv == TInv /\ RunOnce /\ AnalysisWatched /\ TasksWatched /\ ShutdownCovers

-----------------------------------------------------------------------------
(* Small facts.                                                            *)

\* The key given to a new token is a positive number.
LEMMA NextKeyType ==
  ASSUME DOMAIN tokens \subseteq Nat \ {0}
  PROVE  NextKey \in Nat \ {0}
<1>1. CASE LastKey = {}
  BY <1>1 DEF NextKey
<1>2. CASE LastKey # {}
  <2>1. (CHOOSE k \in LastKey : TRUE) \in LastKey
    BY <1>2
  <2>2. (CHOOSE k \in LastKey : TRUE) \in Nat
    BY <2>1 DEF LastKey
  <2> QED
    BY <1>2, <2>2 DEF NextKey
<1> QED
  BY <1>1, <1>2

\* Queueing keeps the head of the queue, and passing the lock on keeps a queue.
LEMMA QueueFacts ==
  ASSUME NEW S, NEW q \in Seq(S), NEW a \in S
  PROVE  /\ Append(q, a) \in Seq(S)
         /\ q # << >> => Append(q, a) # << >> /\ Head(Append(q, a)) = Head(q)
         /\ q # << >> => Tail(q) \in Seq(S) /\ Append(Tail(q), a) \in Seq(S)
  OBVIOUS

\* The steps of analysis tasks touch neither handlers, waiting tasks, the
\* status nor the lock, and nothing joins or leaves the JoinSet in them.
LEMMA TaskFrame ==
  ASSUME TypeOK, NEW t \in Tasks, TaskAction(t)
  PROVE  /\ UNCHANGED <<status, lock, handlerVars, waiter, aborted>>
         /\ JoinSet' = JoinSet
<1>1. UNCHANGED <<status, lock, handlerVars, waiter, aborted>>
  BY DEF TaskAction, TaskStep, Answer, TaskBegin, TaskBegun, OtherVars, TaskStart, TaskPrepare, TaskCancelled, TaskCleanup, TaskFinish,
         TaskDrop, TaskPanic, TaskAnalyzed, TaskEnded, ClientAnswers, sharedVars
<1>2. \/ tpc' = tpc
      \/ /\ tpc[t] \in Live
         /\ \E l \in Live \cup {"finished"} : tpc' = [tpc EXCEPT ![t] = l]
  BY DEF TaskAction, TaskStep, Answer, TaskBegin, TaskBegun, OtherVars, TaskStart, TaskPrepare, TaskCancelled, TaskCleanup, TaskFinish,
         TaskDrop, TaskPanic, TaskAnalyzed, TaskEnded, ClientAnswers, Step, Live
<1>3. JoinSet' = JoinSet
  BY <1>2 DEF JoinSet, TypeOK, TaskTypeOK
<1> QED
  BY <1>1, <1>3

-----------------------------------------------------------------------------
(* Type correctness.                                                       *)

LEMMA SharedTypeStep ==
  ASSUME TInv, [Next]_vars
  PROVE  SharedTypeOK'
<1> USE DEF TInv, TypeOK, SharedTypeOK
<1>0. \A r \in Requests : Handler(r) \in Users /\ Waiter(r) \in Users
  BY DEF Users
<1>1. ASSUME NEW r \in Requests, NEW k \in Kinds, Arrive(r, k) PROVE SharedTypeOK'
  <2>1. overlapped' \subseteq SUBSET Requests
    BY <1>1 DEF Arrive, InFlight
  <2> QED
    BY <1>1, <2>1 DEF Arrive
<1>2. ASSUME NEW r \in Requests, HandlerAction(r) PROVE SharedTypeOK'
  <2>1. CASE AddTarget(r)
    BY <2>1 DEF AddTarget, HandlerTypeOK
  <2>2. CASE Reset(r)
    BY <2>2 DEF Reset, NoFiles
  <2>3. CASE Drain(r)
    BY <1>0, <2>3, QueueFacts DEF Drain, NoTokens
  <2>4. CASE AbortAll(r)
    BY <2>4 DEF AbortAll, sharedVars
  <2>5. CASE Reap(r)
    BY <2>5, <1>0, QueueFacts DEF Reap, ReaperHolds, Holds, sharedVars
  <2>6. CASE Mark(r)
    BY <2>6 DEF Mark, Statuses
  <2>7. CASE RegisterToken(r)
    <3>1. NextKey \in Nat \ {0}
      BY NextKeyType
    <3>2. <<r, Head(snap[r])>> \in Tasks
      BY <2>7 DEF RegisterToken, SnapOK, Marked, HandlerTypeOK, Tasks
    <3> QED
      BY <1>0, <2>7, <3>1, <3>2, QueueFacts DEF RegisterToken
  <2>8. CASE Spawn(r)
    BY <1>0, <2>8, QueueFacts DEF Spawn, sharedVars, Holds
  <2>9. CASE Configure(r)
    BY <2>9 DEF Configure
  <2>10. CASE CheckQueue(r) \/ CheckJoin(r) \/ CheckAnswer(r)
    <3>1. UNCHANGED sharedVars
      BY <2>10 DEF CheckQueue, CheckJoin, CheckAnswer
    <3>2. \/ lock' = Append(lock, Handler(r))
          \/ lock # << >> /\ lock' = Append(Tail(lock), Handler(r))
          \/ lock # << >> /\ lock' = Tail(lock)
      BY <2>10 DEF CheckQueue, CheckJoin, CheckAnswer, JoinOne, Holds
    <3>3. lock' \in Seq(Users)
      BY <1>0, <3>2, QueueFacts
    <3> QED
      BY <3>1, <3>3 DEF sharedVars
  <2>11. CASE CursorFlag(r) \/ CursorStatus(r) \/ CursorDecos(r)
    BY <2>11 DEF CursorFlag, CursorStatus, CursorDecos, sharedVars
  <2> QED
    BY <1>2, <2>1, <2>2, <2>3, <2>4, <2>5, <2>6, <2>7, <2>8, <2>9, <2>10, <2>11 DEF HandlerAction, HandlerStep
<1>3. ASSUME NEW r \in Requests, WaiterStep(r) PROVE SharedTypeOK'
  <2>1. CASE WaiterPublish(r)
    BY <2>1 DEF WaiterPublish, Published, Statuses
  <2>2. CASE WaiterQueue(r) \/ WaiterJoin(r) \/ WaiterEmpty(r)
    <3>1. UNCHANGED sharedVars
      BY <2>2 DEF WaiterQueue, WaiterJoin, WaiterEmpty
    <3>2. \/ lock' = Append(lock, Waiter(r))
          \/ lock # << >> /\ lock' = Append(Tail(lock), Waiter(r))
          \/ lock # << >> /\ lock' = Tail(lock)
      BY <2>2 DEF WaiterQueue, WaiterJoin, WaiterEmpty, JoinOne, Holds
    <3>3. lock' \in Seq(Users)
      BY <1>0, <3>2, QueueFacts
    <3> QED
      BY <3>1, <3>3 DEF sharedVars
  <2> QED
    BY <1>3, <2>1, <2>2 DEF WaiterStep
<1>4. ASSUME NEW t \in Tasks, TaskAnalyzed(t) PROVE SharedTypeOK'
  <2> DEFINE file == t[2]
  <2>1. PICK f \in Fns \ emitted[t] :
          analyzed' = [g \in DOMAIN analyzed \cup {file} |->
                         IF g # file THEN analyzed[g]
                         ELSE IF file \in DOMAIN analyzed
                              THEN Merge(analyzed[file], [fn |-> f, ver |-> built[t]])
                              ELSE <<[fn |-> f, ver |-> built[t]]>>]
    BY <1>4 DEF TaskAnalyzed
  <2>2. [fn |-> f, ver |-> built[t]] \in Items
    BY <1>4 DEF TaskAnalyzed, Items, TaskTypeOK, LoopBuilt
  <2> QED
    BY <1>4, <2>1, <2>2 DEF TaskAnalyzed, Merge, Tasks
<1>5. ASSUME NEW t \in Tasks, TaskAction(t), ~ TaskAnalyzed(t) PROVE SharedTypeOK'
  <2>1. CASE TaskCleanup(t)
    BY <2>1 DEF TaskCleanup, Restrict
  <2>2. CASE ~ TaskCleanup(t)
    BY <1>5, <2>2 DEF TaskAction, TaskStep, Answer, TaskStart, TaskBegin, TaskBegun, TaskPrepare,
                      TaskCancelled, TaskFinish, TaskDrop, TaskPanic, TaskEnded, ClientAnswers,
                      OtherVars, sharedVars
  <2> QED
    BY <2>1, <2>2
<1>6. CASE Save
  BY <1>6, BackendAssumption DEF Save
<1>7. CASE UNCHANGED vars
  BY <1>7 DEF vars, sharedVars
<1> QED
  BY <1>1, <1>2, <1>3, <1>4, <1>5, <1>6, <1>7 DEF Next, HandlerAction, TaskAction

\* An answer keeps the type of the answers.
LEMMA ReportType ==
  ASSUME reply \in [Requests -> Replies], NEW r \in Requests,
         NEW s \in Statuses \cup {"none", "success", "failure"}, Report(r, s)
  PROVE  reply' \in [Requests -> Replies]
<1>1. reply[r].is_analyzed \in BOOLEAN
  BY DEF Replies
<1>2. [is_analyzed |-> reply[r].is_analyzed, status |-> s] \in Replies
  BY <1>1 DEF Replies
<1> QED
  BY <1>2 DEF Report

LEMMA HandlerTypeStep ==
  ASSUME TInv, [Next]_vars
  PROVE  HandlerTypeOK'
<1> USE DEF TInv, TypeOK, HandlerTypeOK, Goto, Locations
<1>0. ASSUME NEW r \in Requests, EndOfRun(r) \/ (Goto(r, "token") /\ UNCHANGED waiter)
      PROVE  /\ waiter' \in [Requests -> {"none", "start", "queued", "publish", "done"}]
             /\ pc' \in [Requests -> Locations]
  BY <1>0 DEF EndOfRun
<1>1. ASSUME NEW r \in Requests, NEW k \in Kinds, Arrive(r, k) PROVE HandlerTypeOK'
  <2>1. k \in RequestKinds
    BY BackendAssumption
  <2>2. PICK ts \in TargetsOf(k) : todo' = [todo EXCEPT ![r] = ts] /\ Goto(r, FirstStep(k, ts))
    BY <1>1 DEF Arrive
  <2>4. ts \in SUBSET Targets
    BY DEF TargetsOf
  <2>3. \A us : FirstStep(k, us) \in Locations
    BY <2>1 DEF FirstStep, RequestKinds
  <2> QED
    BY <1>1, <2>1, <2>2, <2>3, <2>4 DEF Arrive
<1>2. ASSUME NEW r \in Requests, HandlerAction(r) PROVE HandlerTypeOK'
  <2>1. CASE AddTarget(r)
    <3>1. UNCHANGED <<kind, after, snap, waiter>>
      BY <2>1 DEF AddTarget
    <3>2. PICK t \in todo[r], ok \in BOOLEAN :
            /\ todo' = [todo EXCEPT ![r] = @ \ {t}]
            /\ IF todo[r] # {t} THEN UNCHANGED pc
               ELSE Goto(r, IF ok \/ kind[r] = "initialize" THEN "drain" ELSE "done")
            /\ UNCHANGED reply \/ Report(r, "failure")
      BY <2>1 DEF AddTarget
    <3>3. todo' \in [Requests -> SUBSET Targets]
      BY <3>2
    <3>4. pc' \in [Requests -> Locations]
      BY <3>2
    <3>5. reply' \in [Requests -> Replies]
      BY <3>2, ReportType
    <3> QED
      BY <3>1, <3>3, <3>4, <3>5
  <2>2. CASE Reset(r) \/ Drain(r) \/ AbortAll(r) \/ RegisterToken(r)
    BY <2>2 DEF Reset, Drain, AbortAll, RegisterToken
  <2>3. CASE Reap(r)
    <3>1. UNCHANGED <<kind, todo, snap, reply, waiter>>
      BY <2>3 DEF Reap
    <3>2. after' \in [Requests -> {"sleep", "mark", "done"}] /\ pc' \in [Requests -> Locations]
      BY <2>3 DEF Reap
    <3> QED
      BY <3>1, <3>2
  <2>4. CASE Mark(r)
    <3>1. EndOfRun(r) \/ (Goto(r, "token") /\ UNCHANGED waiter)
      BY <2>4 DEF Mark
    <3> QED
      BY <1>0, <2>4, <3>1 DEF Mark, SharedTypeOK
  <2>5. CASE Spawn(r)
    <3>1. EndOfRun(r) \/ (Goto(r, "token") /\ UNCHANGED waiter)
      BY <2>5 DEF Spawn
    <3>2. snap[r] \in Seq(Targets) /\ snap[r] # << >>
      BY <2>5 DEF Spawn, SnapOK, Marked
    <3>3. snap' = [snap EXCEPT ![r] = Tail(snap[r])] /\ Tail(snap[r]) \in Seq(Targets)
      BY <2>5, <3>2 DEF Spawn
    <3> QED
      BY <1>0, <2>5, <3>1, <3>3 DEF Spawn
  <2>6. CASE Configure(r) \/ CheckQueue(r) \/ CheckJoin(r)
    BY <2>6 DEF Configure, CheckQueue, CheckJoin, handlerVars
  <2>7. CASE CheckAnswer(r)
    BY <2>7, ReportType DEF CheckAnswer
  <2>8. CASE CursorStatus(r)
    BY <2>8, ReportType DEF CursorStatus, SharedTypeOK
  <2>10. CASE CursorFlag(r)
    <3>1. [is_analyzed |-> analyzed # NoFiles, status |-> "none"] \in Replies
      BY DEF Replies
    <3> QED
      BY <2>10, <3>1 DEF CursorFlag
  <2>9. CASE CursorDecos(r)
    <3>1. PICK f \in todo[r], found \in BOOLEAN : Report(r, DecosStatus(r, f, found))
      BY <2>9 DEF CursorDecos
    <3>2. DecosStatus(r, f, found) \in Statuses \cup {"none", "success", "failure"}
      BY DEF DecosStatus, Statuses, Replies
    <3> QED
      BY <2>9, <3>1, <3>2, ReportType DEF CursorDecos
  <2> QED
    BY <1>2, <2>1, <2>2, <2>3, <2>4, <2>5, <2>6, <2>7, <2>8, <2>9, <2>10 DEF HandlerAction, HandlerStep
<1>3. ASSUME NEW r \in Requests, WaiterStep(r) PROVE HandlerTypeOK'
  BY <1>3 DEF WaiterStep, WaiterQueue, WaiterJoin, WaiterEmpty, WaiterPublish, handlerVars
<1>4. ASSUME NEW t \in Tasks, TaskAction(t) PROVE HandlerTypeOK'
  BY <1>4, TaskFrame DEF handlerVars
<1>5. CASE Save \/ UNCHANGED vars
  BY <1>5 DEF Save, vars, handlerVars
<1> QED
  BY <1>1, <1>2, <1>3, <1>4, <1>5 DEF Next, HandlerAction, TaskAction

LEMMA TaskTypeStep ==
  ASSUME TInv, [Next]_vars
  PROVE  TaskTypeOK' /\ LoopBuilt'
<1> USE DEF TInv, TypeOK, TaskTypeOK, LoopBuilt, Live
<1>1. ASSUME NEW r \in Requests, NEW k \in Kinds, Arrive(r, k) PROVE TaskTypeOK' /\ LoopBuilt'
  BY <1>1 DEF Arrive, taskVars
<1>2. ASSUME NEW r \in Requests, HandlerAction(r) PROVE TaskTypeOK' /\ LoopBuilt'
  <2>1. CASE Drain(r)
    BY <2>1 DEF Drain, Cancelled, SharedTypeOK, Range
  <2>2. CASE AbortAll(r)
    BY <2>2 DEF AbortAll, Victims, JoinSet
  <2>3. CASE Reap(r)
    BY <2>3 DEF Reap
  <2>4. CASE RegisterToken(r)
    <3>1. NextKey \in Nat
      BY NextKeyType DEF SharedTypeOK
    <3> QED
      BY <2>4, <3>1 DEF RegisterToken
  <2>5. CASE Spawn(r)
    BY <2>5 DEF Spawn
  <2>6. CASE CheckJoin(r)
    BY <2>6 DEF CheckJoin, JoinOne
  <2>7. CASE UNCHANGED taskVars
    BY <2>7 DEF taskVars
  <2> QED
    BY <1>2, <2>1, <2>2, <2>3, <2>4, <2>5, <2>6, <2>7
    DEF HandlerAction, HandlerStep, AddTarget, Reset, Mark, Configure, CheckQueue, CheckAnswer, CursorFlag,
        CursorStatus, CursorDecos
<1>3. ASSUME NEW r \in Requests, WaiterStep(r) PROVE TaskTypeOK' /\ LoopBuilt'
  BY <1>3 DEF WaiterStep, WaiterQueue, WaiterJoin, WaiterEmpty, WaiterPublish, JoinOne, taskVars
<1>4. ASSUME NEW t \in Tasks, TaskStep(t) PROVE TaskTypeOK' /\ LoopBuilt'
  <2> USE DEF OtherVars
  <2>1. CASE TaskStart(t) \/ TaskCancelled(t) \/ TaskCleanup(t)
    BY <2>1 DEF TaskStart, TaskCancelled, TaskCleanup, Step
  <2>2. CASE TaskBegin(t) \/ TaskBegun(t)
    BY <2>2 DEF TaskBegin, TaskBegun, Step
  <2>3. CASE TaskFinish(t) \/ TaskDrop(t)
    BY <2>3 DEF TaskFinish, TaskDrop, DropProgress, Step
  <2> QED
    BY <1>4, <2>1, <2>2, <2>3 DEF TaskStep
<1>5. ASSUME NEW t \in Tasks, Answer(t), ~ TaskAnalyzed(t) PROVE TaskTypeOK' /\ LoopBuilt'
  <2>1. CASE TaskPrepare(t)
    <3>1. disk \in 0 .. MaxVersion /\ disk # 0
      BY BackendAssumption DEF SharedTypeOK
    <3> QED
      BY <2>1, <3>1 DEF TaskPrepare, Step
  <2>2. CASE TaskPanic(t) \/ TaskEnded(t) \/ ClientAnswers(t)
    BY <2>2 DEF TaskPanic, TaskEnded, ClientAnswers, DropProgress, OtherVars, Step
  <2> QED
    BY <1>5, <2>1, <2>2 DEF Answer
<1>7. ASSUME NEW t \in Tasks, TaskAnalyzed(t) PROVE TaskTypeOK' /\ LoopBuilt'
  <2>1. PICK f \in Fns : emitted' = [emitted EXCEPT ![t] = @ \cup {f}]
    BY <1>7 DEF TaskAnalyzed
  <2>2. UNCHANGED <<tpc, aborted, cancelled, key, progress, built>>
    BY <1>7 DEF TaskAnalyzed
  <2> QED
    BY <2>1, <2>2
<1>6. CASE Save \/ UNCHANGED vars
  BY <1>6 DEF Save, vars, taskVars
<1> QED
  BY <1>1, <1>2, <1>3, <1>4, <1>5, <1>6, <1>7 DEF Next, HandlerAction

\* A run about to start a task has one to start.
LEMMA SnapStep ==
  ASSUME TInv, [Next]_vars
  PROVE  SnapOK'
<1> USE DEF TInv, TypeOK, HandlerTypeOK, SnapOK, Marked, Goto
<1>1. ASSUME NEW r \in Requests, NEW k \in Kinds, Arrive(r, k) PROVE SnapOK'
  <2>1. PICK ts \in TargetsOf(k) : Goto(r, FirstStep(k, ts))
    BY <1>1 DEF Arrive
  <2>2. FirstStep(k, ts) \notin {"token", "spawn"}
    BY BackendAssumption DEF FirstStep, RequestKinds
  <2> QED
    BY <1>1, <2>1, <2>2 DEF Arrive
<1>2. ASSUME NEW r \in Requests, HandlerAction(r) PROVE SnapOK'
  <2>1. CASE AddTarget(r)
    BY <2>1 DEF AddTarget
  <2>2. CASE Reap(r)
    BY <2>2 DEF Reap
  <2>3. CASE Mark(r)
    BY <2>3 DEF Mark, EndOfRun
  <2>4. CASE RegisterToken(r)
    BY <2>4 DEF RegisterToken
  <2>5. CASE Spawn(r)
    <3>1. snap[r] \in Seq(Targets) /\ snap[r] # << >>
      BY <2>5 DEF Spawn
    <3>2. Len(snap[r]) # 1 => Tail(snap[r]) # << >>
      <4>1. Len(Tail(snap[r])) = Len(snap[r]) - 1
        BY <3>1
      <4>2. Len(snap[r]) \in Nat \ {0}
        BY <3>1
      <4>3. Len(snap[r]) # 1 => Len(Tail(snap[r])) # 0
        BY <4>1, <4>2
      <4> QED
        BY <4>3
    <3>3. snap' = [snap EXCEPT ![r] = Tail(snap[r])]
      BY <2>5 DEF Spawn
    <3>4. CASE Len(snap[r]) = 1
      BY <2>5, <3>3, <3>4 DEF Spawn, EndOfRun
    <3>5. CASE Len(snap[r]) # 1
      BY <2>5, <3>2, <3>3, <3>5 DEF Spawn
    <3> QED
      BY <3>4, <3>5
  <2>6. CASE \/ Reset(r) \/ Drain(r) \/ AbortAll(r) \/ Configure(r) \/ CheckQueue(r)
             \/ CheckAnswer(r) \/ CursorFlag(r) \/ CursorStatus(r) \/ CursorDecos(r)
    BY <2>6 DEF Reset, Drain, AbortAll, Configure, CheckQueue, CheckAnswer,
                CursorFlag, CursorStatus, CursorDecos
  <2>7. CASE CheckJoin(r)
    BY <2>7 DEF CheckJoin, handlerVars
  <2> QED
    BY <1>2, <2>1, <2>2, <2>3, <2>4, <2>5, <2>6, <2>7 DEF HandlerAction, HandlerStep
<1>3. ASSUME NEW r \in Requests, WaiterStep(r) PROVE SnapOK'
  BY <1>3 DEF WaiterStep, WaiterQueue, WaiterJoin, WaiterEmpty, WaiterPublish, handlerVars
<1>4. ASSUME NEW t \in Tasks, TaskAction(t) PROVE SnapOK'
  BY <1>4, TaskFrame DEF handlerVars
<1>5. CASE Save \/ UNCHANGED vars
  BY <1>5 DEF Save, vars, handlerVars
<1> QED
  BY <1>1, <1>2, <1>3, <1>4, <1>5 DEF Next, HandlerAction, TaskAction

\* The lock is passed on only by its holder, so a reaping handler keeps it.
LEMMA ReaperStep ==
  ASSUME TInv, [Next]_vars
  PROVE  ReaperHolds'
<1> USE DEF TInv, TypeOK, HandlerTypeOK, SharedTypeOK, ReaperHolds, Goto, Holds
<1>0. /\ \A q, r \in Requests : Handler(q) = Handler(r) => q = r
      /\ \A q, r \in Requests : Handler(q) # Waiter(r)
      /\ \A r \in Requests : Handler(r) \in Users /\ Waiter(r) \in Users
  BY DEF Handler, Waiter, Users
<1>1. ASSUME NEW r \in Requests, NEW k \in Kinds, Arrive(r, k) PROVE ReaperHolds'
  <2>1. PICK ts \in TargetsOf(k) : Goto(r, FirstStep(k, ts))
    BY <1>1 DEF Arrive
  <2>2. FirstStep(k, ts) # "reap"
    BY BackendAssumption DEF FirstStep, RequestKinds
  <2> QED
    BY <1>1, <2>1, <2>2 DEF Arrive
\* A step that leaves the lock, or queues for it, and sends nobody reaping.
<1>2. ASSUME \A q \in Requests : pc'[q] = "reap" => pc[q] = "reap",
             UNCHANGED lock \/ \E a \in Users : lock' = Append(lock, a)
      PROVE  ReaperHolds'
  <2> SUFFICES ASSUME NEW q \in Requests, pc'[q] = "reap"
               PROVE  lock' # << >> /\ Head(lock') = Handler(q)
    OBVIOUS
  <2>1. lock # << >> /\ Head(lock) = Handler(q)
    BY <1>2
  <2>2. CASE UNCHANGED lock
    BY <2>1, <2>2
  <2>3. ASSUME NEW a \in Users, lock' = Append(lock, a)
        PROVE  lock' # << >> /\ Head(lock') = Handler(q)
    BY <2>1, <2>3, QueueFacts
  <2> QED
    BY <1>2, <2>2, <2>3
\* A step of the holder, which is not reaping afterwards.
<1>3. ASSUME NEW a \in Users, Holds(a),
             \A q \in Requests : pc'[q] = "reap" => pc[q] = "reap" /\ Handler(q) # a
      PROVE  ReaperHolds'
  BY <1>3
<1>4. ASSUME NEW r \in Requests, HandlerAction(r) PROVE ReaperHolds'
  <2>1. CASE AddTarget(r)
    BY <2>1, <1>2 DEF AddTarget
  <2>2. CASE Reset(r) \/ Drain(r) \/ RegisterToken(r) \/ Configure(r) \/ CheckQueue(r)
             \/ CursorFlag(r) \/ CursorStatus(r) \/ CursorDecos(r)
    BY <1>0, <2>2, <1>2 DEF Reset, Drain, RegisterToken, Configure, CheckQueue,
                CursorFlag, CursorStatus, CursorDecos
  <2>3. CASE AbortAll(r)
    BY <2>3 DEF AbortAll
  <2>4. CASE Mark(r)
    BY <2>4, <1>2 DEF Mark, EndOfRun
  <2>5. CASE Reap(r)
    <3>1. Holds(Handler(r))
      BY <2>5 DEF Reap
    <3>2. pc' = [pc EXCEPT ![r] = IF after[r] = "sleep" THEN "drain" ELSE after[r]]
      BY <2>5 DEF Reap
    <3>3. pc'[r] # "reap"
      BY <3>2
    <3> QED
      BY <1>0, <1>3, <3>1, <3>2, <3>3
  <2>6. CASE Spawn(r)
    <3>1. Holds(Handler(r))
      BY <2>6 DEF Spawn
    <3>2. \E l \in Locations \ {"reap"} : pc' = [pc EXCEPT ![r] = l]
      BY <2>6 DEF Spawn, EndOfRun, Locations
    <3> QED
      BY <1>0, <1>3, <3>1, <3>2
  <2>7. CASE CheckJoin(r)
    BY <2>7, <1>0, <1>3 DEF CheckJoin, JoinOne, handlerVars
  <2>8. CASE CheckAnswer(r)
    BY <2>8, <1>0, <1>3 DEF CheckAnswer
  <2> QED
    BY <1>4, <2>1, <2>2, <2>3, <2>4, <2>5, <2>6, <2>7, <2>8 DEF HandlerAction, HandlerStep
<1>5. ASSUME NEW r \in Requests, WaiterStep(r) PROVE ReaperHolds'
  <2>1. CASE WaiterQueue(r) \/ WaiterPublish(r)
    BY <1>0, <2>1, <1>2 DEF WaiterQueue, WaiterPublish, handlerVars
  <2>2. CASE WaiterJoin(r) \/ WaiterEmpty(r)
    BY <1>0, <2>2, <1>3 DEF WaiterJoin, WaiterEmpty, JoinOne, handlerVars
  <2> QED
    BY <1>5, <2>1, <2>2 DEF WaiterStep
<1>6. ASSUME NEW t \in Tasks, TaskAction(t) PROVE ReaperHolds'
  BY <1>6, TaskFrame DEF handlerVars
<1>7. CASE Save \/ UNCHANGED vars
  BY <1>7 DEF Save, vars, handlerVars
<1> QED
  BY <1>1, <1>4, <1>5, <1>6, <1>7 DEF Next, HandlerAction, TaskAction

LEMMA TInvInit == Init => TInv
<1> SUFFICES ASSUME Init PROVE TInv
  OBVIOUS
<1>1. SharedTypeOK
  <2>1. << >> \in Seq(Targets) /\ << >> \in Seq(Users)
    OBVIOUS
  <2>2. 1 \in 1 .. MaxVersion
    BY BackendAssumption
  <2> QED
    BY <2>1, <2>2 DEF Init, SharedTypeOK, Statuses, NoFiles, NoTokens
<1>2. HandlerTypeOK
  <2>1. NoReply \in Replies
    BY DEF NoReply, Replies
  <2> QED
    BY <2>1 DEF Init, HandlerTypeOK, Locations
<1>3. TaskTypeOK
  BY BackendAssumption DEF Init, TaskTypeOK
<1>4. SnapOK /\ LoopBuilt /\ ReaperHolds
  BY DEF Init, SnapOK, Marked, LoopBuilt, ReaperHolds
<1> QED
  BY <1>1, <1>2, <1>3, <1>4 DEF TInv, TypeOK

LEMMA TInvStep == TInv /\ [Next]_vars => TInv'
  BY SharedTypeStep, HandlerTypeStep, TaskTypeStep, SnapStep, ReaperStep DEF TInv, TypeOK

\* Type correctness of the language server's state.
THEOREM TypeCorrect == Spec => []TypeOK
<1>1. TInv => TypeOK
  BY DEF TInv
<1> QED
  BY <1>1, TInvInit, TInvStep, PTL DEF Spec

-----------------------------------------------------------------------------
(* Who watches what.                                                       *)

\* How a step may change the set of runs that owe a status, and the status.
\* The refinement of StatusBoard and AnalysisWatched both follow from it.
BoardStep(r) ==
  \/ status' = "Analyzing" /\ r \notin Pending /\ Pending' = Pending \cup {r}
  \/ /\ r \in Pending /\ Pending' = Pending \ {r}
     /\ status' \in IF status = "Error" THEN {"Error"} ELSE {"Finished", "Error"}

LEMMA BoardSteps ==
  ASSUME TInv, RunOnce, [Next]_vars
  PROVE  UNCHANGED <<status, Pending>> \/ \E r \in Requests : BoardStep(r)
<1> USE DEF TInv, TypeOK, HandlerTypeOK, Pending, Marked, Goto
<1> DEFINE Quiet1 == UNCHANGED <<status, Pending>>
<1>1. ASSUME NEW r \in Requests, NEW k \in Kinds, Arrive(r, k) PROVE Quiet1
  <2>1. PICK ts \in TargetsOf(k) : Goto(r, FirstStep(k, ts))
    BY <1>1 DEF Arrive
  <2>2. FirstStep(k, ts) \notin {"token", "spawn"}
    BY BackendAssumption DEF FirstStep, RequestKinds
  <2>3. UNCHANGED <<status, waiter>>
    BY <1>1 DEF Arrive, sharedVars
  <2> QED
    BY <1>1, <2>1, <2>2, <2>3 DEF Arrive
<1>2. ASSUME NEW r \in Requests, Mark(r) PROVE BoardStep(r)
  <2>1. r \notin Pending
    BY <1>2 DEF Mark, RunOnce
  <2>2. Pending' = Pending \cup {r}
    BY <1>2, <2>1 DEF Mark, EndOfRun
  <2> QED
    BY <1>2, <2>1, <2>2 DEF Mark, BoardStep
<1>3. ASSUME NEW r \in Requests, HandlerAction(r), ~Mark(r) PROVE Quiet1
  <2>1. CASE AddTarget(r)
    BY <2>1 DEF AddTarget
  <2>2. CASE Reap(r)
    BY <2>2 DEF Reap, sharedVars
  <2>3. CASE RegisterToken(r)
    BY <2>3 DEF RegisterToken
  <2>4. CASE Spawn(r)
    <3>1. UNCHANGED status
      BY <2>4 DEF Spawn, sharedVars
    <3>2. UNCHANGED Pending
      BY <2>4 DEF Spawn, EndOfRun
    <3> QED
      BY <3>1, <3>2
  <2>5. CASE \/ Reset(r) \/ Drain(r) \/ AbortAll(r) \/ Configure(r) \/ CheckQueue(r)
             \/ CheckAnswer(r) \/ CursorFlag(r) \/ CursorStatus(r) \/ CursorDecos(r)
    BY <2>5 DEF Reset, Drain, AbortAll, Configure, CheckQueue, CheckAnswer,
                CursorFlag, CursorStatus, CursorDecos, sharedVars
  <2>6. CASE CheckJoin(r)
    BY <2>6 DEF CheckJoin, handlerVars, sharedVars
  <2> QED
    BY <1>3, <2>1, <2>2, <2>3, <2>4, <2>5, <2>6 DEF HandlerAction, HandlerStep
<1>4. ASSUME NEW r \in Requests, WaiterStep(r) PROVE Quiet1 \/ BoardStep(r)
  <2>1. CASE WaiterQueue(r) \/ WaiterJoin(r) \/ WaiterEmpty(r)
    BY <2>1 DEF WaiterQueue, WaiterJoin, WaiterEmpty, handlerVars, sharedVars
  <2>2. CASE WaiterPublish(r)
    <3>1. r \in Pending /\ Pending' = Pending \ {r}
      BY <2>2 DEF WaiterPublish, handlerVars, RunOnce
    <3>2. status' \in IF status = "Error" THEN {"Error"} ELSE {"Finished", "Error"}
      BY <2>2 DEF WaiterPublish, Published
    <3> QED
      BY <3>1, <3>2 DEF BoardStep
  <2> QED
    BY <1>4, <2>1, <2>2 DEF WaiterStep
<1>5. ASSUME NEW t \in Tasks, TaskAction(t) PROVE Quiet1
  BY <1>5, TaskFrame DEF handlerVars
<1>6. CASE Save \/ UNCHANGED vars
  BY <1>6 DEF Save, vars, handlerVars, sharedVars
<1> QED
  BY <1>1, <1>2, <1>3, <1>4, <1>5, <1>6 DEF Next, HandlerAction, TaskAction

\* A request starts one run, and a waiting task exists only after it.
LEMMA RunOnceStep ==
  ASSUME TInv, RunOnce, [Next]_vars
  PROVE  RunOnce'
<1> USE DEF TInv, TypeOK, HandlerTypeOK, RunOnce, Goto
<1>1. ASSUME NEW r \in Requests, NEW k \in Kinds, Arrive(r, k) PROVE RunOnce'
  BY <1>1 DEF Arrive
<1>2. ASSUME NEW r \in Requests, HandlerAction(r) PROVE RunOnce'
  <2>1. CASE AddTarget(r)
    BY <2>1 DEF AddTarget
  <2>2. CASE Reap(r)
    BY <2>2 DEF Reap
  <2>3. CASE Mark(r)
    BY <2>3 DEF Mark, EndOfRun
  <2>4. CASE Spawn(r)
    BY <2>4 DEF Spawn, EndOfRun
  <2>5. CASE \/ Reset(r) \/ Drain(r) \/ AbortAll(r) \/ RegisterToken(r) \/ Configure(r) \/ CheckQueue(r)
             \/ CheckAnswer(r) \/ CursorFlag(r) \/ CursorStatus(r) \/ CursorDecos(r)
    BY <2>5 DEF Reset, Drain, AbortAll, RegisterToken, Configure, CheckQueue, CheckAnswer,
                CursorFlag, CursorStatus, CursorDecos
  <2>6. CASE CheckJoin(r)
    BY <2>6 DEF CheckJoin, handlerVars
  <2> QED
    BY <1>2, <2>1, <2>2, <2>3, <2>4, <2>5, <2>6 DEF HandlerAction, HandlerStep
<1>3. ASSUME NEW r \in Requests, WaiterStep(r) PROVE RunOnce'
  BY <1>3 DEF WaiterStep, WaiterQueue, WaiterJoin, WaiterEmpty, WaiterPublish, handlerVars
<1>4. ASSUME NEW t \in Tasks, TaskAction(t) PROVE RunOnce'
  BY <1>4, TaskFrame DEF handlerVars
<1>5. CASE Save \/ UNCHANGED vars
  BY <1>5 DEF Save, vars, handlerVars
<1> QED
  BY <1>1, <1>2, <1>3, <1>4, <1>5 DEF Next, HandlerAction, TaskAction

\* A step that adds no task to the JoinSet and keeps every owner keeps
\* TasksWatched.
LEMMA TasksWatchedStep ==
  ASSUME TInv, TasksWatched, [Next]_vars
  PROVE  TasksWatched'
<1> DEFINE Owns(r) == Marked(r) \/ pc[r] = "reap" \/ waiter[r] \in {"start", "queued"}
<1> USE DEF TInv, TypeOK, HandlerTypeOK, TaskTypeOK, TasksWatched, Marked, Goto
<1>1. ASSUME JoinSet' \subseteq JoinSet, \A r \in Requests : Owns(r) => Owns(r)'
      PROVE  TasksWatched'
  BY <1>1
<1>2. ASSUME NEW r \in Requests, NEW k \in Kinds, Arrive(r, k) PROVE TasksWatched'
  BY <1>2, <1>1 DEF Arrive, JoinSet, taskVars
<1>3. ASSUME NEW r \in Requests, HandlerAction(r) PROVE TasksWatched'
  <2>1. CASE Reap(r)
    <3>1. JoinSet' = {}
      BY <2>1 DEF Reap, AllFinished, JoinSet, Live
    <3> QED
      BY <3>1
  <2>2. CASE Mark(r)
    BY <2>2, <1>1 DEF Mark, EndOfRun, JoinSet, taskVars
  <2>3. CASE Spawn(r)
    <3>1. Owns(r)'
      BY <2>3 DEF Spawn, EndOfRun
    <3> QED
      BY <3>1
  <2>4. CASE CheckJoin(r)
    BY <2>4, <1>1 DEF CheckJoin, JoinOne, JoinSet, handlerVars, Live
  <2>5. CASE AddTarget(r) \/ CheckAnswer(r)
    BY <2>5, <1>1 DEF AddTarget, CheckAnswer, JoinSet, taskVars
  <2>6. CASE AbortAll(r) \/ CheckQueue(r)
    BY <2>6, <1>1 DEF AbortAll, CheckQueue, JoinSet, taskVars
  <2>7. CASE Reset(r) \/ Configure(r)
    BY <2>7, <1>1 DEF Reset, Configure, JoinSet, taskVars
  <2>8. CASE Drain(r)
    BY <2>8, <1>1 DEF Drain, JoinSet
  <2>9. CASE RegisterToken(r)
    <3>1. UNCHANGED <<tpc, waiter>> /\ Goto(r, "spawn") /\ pc[r] = "token"
      BY <2>9 DEF RegisterToken
    <3> QED
      BY <3>1, <1>1 DEF JoinSet
  <2>10. CASE CursorFlag(r) \/ CursorStatus(r) \/ CursorDecos(r)
    <3>1. CASE CursorFlag(r)
      <4>1. UNCHANGED <<tpc, waiter>> /\ pc[r] = "flag" /\ \E l \in {"status"} : Goto(r, l)
        BY <3>1 DEF CursorFlag, taskVars
      <4> QED
        BY <4>1, <1>1 DEF JoinSet
    <3>2. CASE CursorStatus(r)
      <4>1. UNCHANGED <<tpc, waiter>> /\ pc[r] = "status" /\ \E l \in {"decos", "done"} : Goto(r, l)
        BY <3>2 DEF CursorStatus, taskVars
      <4> QED
        BY <4>1, <1>1 DEF JoinSet
    <3>3. CASE CursorDecos(r)
      <4>1. UNCHANGED <<tpc, waiter>> /\ pc[r] = "decos" /\ \E l \in {"done"} : Goto(r, l)
        BY <3>3 DEF CursorDecos, taskVars
      <4> QED
        BY <4>1, <1>1 DEF JoinSet
    <3> QED
      BY <2>10, <3>1, <3>2, <3>3
  <2> QED
    BY <1>3, <2>1, <2>2, <2>3, <2>4, <2>5, <2>6, <2>7, <2>8, <2>9, <2>10 DEF HandlerAction, HandlerStep
<1>4. ASSUME NEW r \in Requests, WaiterStep(r) PROVE TasksWatched'
  <2>1. CASE WaiterEmpty(r)
    BY <2>1 DEF WaiterEmpty, AllJoined, JoinSet, taskVars
  <2>2. CASE WaiterQueue(r) \/ WaiterPublish(r)
    BY <2>2, <1>1 DEF WaiterQueue, WaiterPublish, JoinSet, taskVars, handlerVars
  <2>3. CASE WaiterJoin(r)
    BY <2>3, <1>1 DEF WaiterJoin, JoinOne, JoinSet, handlerVars, Live
  <2> QED
    BY <1>4, <2>1, <2>2, <2>3 DEF WaiterStep
<1>5. ASSUME NEW t \in Tasks, TaskAction(t) PROVE TasksWatched'
  BY <1>5, TaskFrame DEF handlerVars
<1>6. CASE Save \/ UNCHANGED vars
  BY <1>6 DEF Save, vars, handlerVars, taskVars, JoinSet
<1> QED
  BY <1>2, <1>3, <1>4, <1>5, <1>6 DEF Next, HandlerAction, TaskAction

\* Nobody adds a task while a handler reaps: adding needs the lock it holds.
LEMMA ShutdownCoversStep ==
  ASSUME TInv, ShutdownCovers, [Next]_vars
  PROVE  ShutdownCovers'
<1> USE DEF TInv, TypeOK, HandlerTypeOK, TaskTypeOK, ShutdownCovers, Goto
<1>1. ASSUME JoinSet' \subseteq JoinSet, aborted \subseteq aborted',
             \A r \in Requests : pc'[r] = "reap" => pc[r] = "reap"
      PROVE  ShutdownCovers'
  BY <1>1
<1>2. ASSUME NEW r \in Requests, NEW k \in Kinds, Arrive(r, k) PROVE ShutdownCovers'
  <2>1. PICK ts \in TargetsOf(k) : Goto(r, FirstStep(k, ts))
    BY <1>2 DEF Arrive
  <2>2. FirstStep(k, ts) # "reap"
    BY BackendAssumption DEF FirstStep, RequestKinds
  <2> QED
    BY <1>1, <1>2, <2>1, <2>2 DEF Arrive, JoinSet, taskVars
<1>3. ASSUME NEW r \in Requests, HandlerAction(r) PROVE ShutdownCovers'
  <2>1. CASE Reap(r)
    <3>1. JoinSet' = {}
      BY <2>1 DEF Reap, AllFinished, JoinSet, Live
    <3> QED
      BY <3>1
  <2>2. CASE AbortAll(r)
    BY <2>2 DEF AbortAll, Victims, JoinSet
  <2>3. CASE Mark(r)
    BY <2>3, <1>1 DEF Mark, EndOfRun, JoinSet, taskVars
  <2>4. CASE Spawn(r)
    <3>1. \A q \in Requests : pc[q] # "reap"
      BY <2>4 DEF Spawn, ReaperHolds, Holds, Handler
    <3>2. pc'[r] # "reap" /\ \A q \in Requests \ {r} : pc'[q] = pc[q]
      BY <2>4 DEF Spawn, EndOfRun
    <3> QED
      BY <3>1, <3>2
  <2>5. CASE CheckJoin(r)
    BY <2>5, <1>1 DEF CheckJoin, JoinOne, JoinSet, handlerVars, Live
  <2>6. CASE AddTarget(r) \/ CheckAnswer(r)
    BY <2>6, <1>1 DEF AddTarget, CheckAnswer, JoinSet, taskVars
  <2>7. CASE CheckQueue(r) \/ Reset(r) \/ Configure(r)
    BY <2>7, <1>1 DEF CheckQueue, Reset, Configure, JoinSet, taskVars
  <2>8. CASE Drain(r)
    BY <2>8, <1>1 DEF Drain, JoinSet
  <2>9. CASE RegisterToken(r)
    <3>1. UNCHANGED <<tpc, aborted>> /\ Goto(r, "spawn")
      BY <2>9 DEF RegisterToken
    <3> QED
      BY <3>1, <1>1 DEF JoinSet
  <2>10. CASE CursorFlag(r) \/ CursorStatus(r) \/ CursorDecos(r)
    <3>1. CASE CursorFlag(r)
      <4>1. UNCHANGED <<tpc, aborted>> /\ pc[r] = "flag" /\ \E l \in {"status"} : Goto(r, l)
        BY <3>1 DEF CursorFlag, taskVars
      <4> QED
        BY <4>1, <1>1 DEF JoinSet
    <3>2. CASE CursorStatus(r)
      <4>1. UNCHANGED <<tpc, aborted>> /\ pc[r] = "status" /\ \E l \in {"decos", "done"} : Goto(r, l)
        BY <3>2 DEF CursorStatus, taskVars
      <4> QED
        BY <4>1, <1>1 DEF JoinSet
    <3>3. CASE CursorDecos(r)
      <4>1. UNCHANGED <<tpc, aborted>> /\ pc[r] = "decos" /\ \E l \in {"done"} : Goto(r, l)
        BY <3>3 DEF CursorDecos, taskVars
      <4> QED
        BY <4>1, <1>1 DEF JoinSet
    <3> QED
      BY <2>10, <3>1, <3>2, <3>3
  <2> QED
    BY <1>3, <2>1, <2>2, <2>3, <2>4, <2>5, <2>6, <2>7, <2>8, <2>9, <2>10 DEF HandlerAction, HandlerStep
<1>4. ASSUME NEW r \in Requests, WaiterStep(r) PROVE ShutdownCovers'
  <2>1. CASE WaiterQueue(r) \/ WaiterEmpty(r) \/ WaiterPublish(r)
    BY <2>1, <1>1 DEF WaiterQueue, WaiterEmpty, WaiterPublish, JoinSet, taskVars, handlerVars
  <2>2. CASE WaiterJoin(r)
    BY <2>2, <1>1 DEF WaiterJoin, JoinOne, JoinSet, handlerVars, Live
  <2> QED
    BY <1>4, <2>1, <2>2 DEF WaiterStep
<1>5. ASSUME NEW t \in Tasks, TaskAction(t) PROVE ShutdownCovers'
  BY <1>5, TaskFrame DEF handlerVars
<1>6. CASE Save \/ UNCHANGED vars
  BY <1>6 DEF Save, vars, handlerVars, taskVars, JoinSet
<1> QED
  BY <1>2, <1>3, <1>4, <1>5, <1>6 DEF Next, HandlerAction, TaskAction

LEMMA IInvInit == Init => IInv
<1> SUFFICES ASSUME Init PROVE IInv
  OBVIOUS
<1>1. TInv
  BY TInvInit
<1>2. RunOnce
  BY DEF Init, RunOnce
<1>3. AnalysisWatched
  BY DEF Init, AnalysisWatched
<1>4. JoinSet = {}
  BY DEF Init, JoinSet, Live
<1>5. TasksWatched /\ ShutdownCovers
  BY <1>4 DEF TasksWatched, ShutdownCovers
<1> QED
  BY <1>1, <1>2, <1>3, <1>5 DEF IInv

LEMMA IInvStep == IInv /\ [Next]_vars => IInv'
<1> SUFFICES ASSUME IInv, [Next]_vars PROVE IInv'
  OBVIOUS
<1>1. TInv' /\ RunOnce' /\ TasksWatched' /\ ShutdownCovers'
  BY TInvStep, RunOnceStep, TasksWatchedStep, ShutdownCoversStep DEF IInv
<1>2. AnalysisWatched'
  <2>1. UNCHANGED <<status, Pending>> \/ \E r \in Requests : BoardStep(r)
    BY BoardSteps DEF IInv
  <2>2. ASSUME NEW r \in Requests, BoardStep(r) PROVE AnalysisWatched'
    BY <2>2 DEF BoardStep, AnalysisWatched, IInv, TInv, TypeOK, SharedTypeOK, Statuses
  <2> QED
    BY <2>1, <2>2 DEF AnalysisWatched, IInv
<1> QED
  BY <1>1, <1>2 DEF IInv

\* The status never stays at Analyzing for want of somebody to change it.
THEOREM StatusIsWatched == Spec => []AnalysisWatched
<1>1. IInv => AnalysisWatched
  BY DEF IInv
<1> QED
  BY <1>1, IInvInit, IInvStep, PTL DEF Spec

\* No analysis task is ever left in the JoinSet with nobody to join it.
THEOREM TasksAreWatched == Spec => []TasksWatched
<1>1. IInv => TasksWatched
  BY DEF IInv
<1> QED
  BY <1>1, IInvInit, IInvStep, PTL DEF Spec

\* shutdown_subprocesses only ever waits for tasks it aborted.
THEOREM ShutdownCoversAll == Spec => []ShutdownCovers
<1>1. IInv => ShutdownCovers
  BY DEF IInv
<1> QED
  BY <1>1, IInvInit, IInvStep, PTL DEF Spec

\* The language server implements the status board its client relies on.
THEOREM ImplementsStatusBoard == Spec => StatusBoardSpec
<1>1. Init => Board!Init
  BY DEF Init, Board!Init, Pending, Marked
<1>2. IInv /\ [Next]_vars => [Board!Next]_(Board!vars)
  <2> SUFFICES ASSUME IInv, [Next]_vars PROVE [Board!Next]_(Board!vars)
    OBVIOUS
  <2>1. UNCHANGED <<status, Pending>> \/ \E r \in Requests : BoardStep(r)
    BY BoardSteps DEF IInv
  <2>2. ASSUME NEW r \in Requests, BoardStep(r) PROVE Board!Begin(r) \/ Board!Publish(r)
    BY <2>2 DEF BoardStep, Board!Begin, Board!Publish
  <2> QED
    BY <2>1, <2>2 DEF Board!Next, Board!vars
<1> QED
  BY <1>1, <1>2, IInvInit, IInvStep, PTL DEF Spec, StatusBoardSpec, Board!Spec

-----------------------------------------------------------------------------
(* A run starts each of its targets once.                                  *)

Distinct(s) == \A a, b \in DOMAIN s : s[a] = s[b] => a = b
Early == {"unused", "add", "reset", "drain", "abort", "reap", "mark", "flag", "status", "decos"}
\* The tasks that their run has not spawned yet.
NotYet(t) == pc[t[1]] \in Early \/ (Marked(t[1]) /\ t[2] \in Range(snap[t[1]]))
Fresh ==
  /\ Distinct(analyzers)
  /\ \A r \in Requests : Marked(r) => Distinct(snap[r])
  /\ \A t \in Tasks : NotYet(t) => tpc[t] = "none"

\* What is left after the first of distinct targets holds it no more.
LEMMA TailOfDistinct ==
  ASSUME NEW s \in Seq(Targets), s # << >>, Distinct(s)
  PROVE  /\ Head(s) \in Range(s) /\ Distinct(Tail(s))
         /\ Range(Tail(s)) \subseteq Range(s) \ {Head(s)}
<1>1. \A a \in DOMAIN Tail(s) : a \in Nat /\ a + 1 \in DOMAIN s /\ a + 1 # 1 /\ Tail(s)[a] = s[a + 1]
  OBVIOUS
<1>2. 1 \in DOMAIN s /\ Head(s) = s[1]
  OBVIOUS
<1>3. Range(Tail(s)) \subseteq Range(s) \ {Head(s)}
  BY <1>1, <1>2 DEF Range, Distinct
<1>4. Distinct(Tail(s))
  BY <1>1 DEF Distinct
<1> QED
  BY <1>2, <1>3, <1>4 DEF Range

\* A step that spawns no task and begins no run.
LEMMA FreshFrame ==
  ASSUME Fresh, Distinct(analyzers)', snap' = snap,
         \A r \in Requests : (Marked(r)' => Marked(r)) /\ (pc'[r] \in Early => pc[r] \in Early),
         \A t \in Tasks : tpc[t] = "none" => tpc'[t] = "none"
  PROVE  Fresh'
<1>1. ASSUME NEW t \in Tasks, NotYet(t)' PROVE tpc'[t] = "none"
  <2>1. t[1] \in Requests
    BY DEF Tasks
  <2> QED
    BY <1>1, <2>1 DEF Fresh, NotYet
<1> QED
  BY <1>1 DEF Fresh

LEMMA FreshStep ==
  ASSUME TInv, Fresh, [Next]_vars
  PROVE  Fresh'
<1>0. TypeOK /\ SnapOK /\ Distinct(analyzers)
  BY DEF TInv, Fresh
<1> USE DEF TypeOK, HandlerTypeOK, TaskTypeOK, Goto
<1>1. ASSUME NEW r \in Requests, NEW k \in Kinds, Arrive(r, k) PROVE Fresh'
  <2>1. PICK ts \in TargetsOf(k) : pc' = [pc EXCEPT ![r] = FirstStep(k, ts)]
    BY <1>1 DEF Arrive
  <2>2. FirstStep(k, ts) \notin {"token", "spawn"}
    BY BackendAssumption DEF FirstStep, RequestKinds
  <2>3. UNCHANGED <<analyzers, snap, tpc>> /\ pc[r] = "unused"
    BY <1>1 DEF Arrive, taskVars
  <2> QED
    BY <1>0, <2>1, <2>2, <2>3, FreshFrame DEF Marked, Early, Distinct
<1>2. ASSUME NEW r \in Requests, HandlerAction(r) PROVE Fresh'
  <2>1. CASE AddTarget(r)
    <3>1. Distinct(analyzers)'
      <4>1. CASE analyzers' = analyzers
        BY <1>0, <4>1 DEF Distinct
      <4>2. ASSUME NEW t \in Targets, t \notin Range(analyzers), analyzers' = Append(analyzers, t)
            PROVE  Distinct(analyzers)'
        <5>1. analyzers \in Seq(Targets)
          BY <1>0 DEF SharedTypeOK
        <5>2. \A a \in DOMAIN analyzers : analyzers[a] # t
          BY <4>2 DEF Range
        <5> QED
          BY <1>0, <4>2, <5>1, <5>2 DEF Distinct
      <4> QED
        BY <1>0, <2>1, <4>1, <4>2 DEF AddTarget
    <3>2. UNCHANGED <<snap, tpc>> /\ pc[r] = "add" /\ pc'[r] \in {"add", "drain", "done"}
          /\ \A q \in Requests \ {r} : pc'[q] = pc[q]
      BY <1>0, <2>1 DEF AddTarget, taskVars
    <3> QED
      BY <1>0, <3>1, <3>2, FreshFrame DEF Marked, Early
  <2>2. CASE \/ Reset(r) \/ Drain(r) \/ AbortAll(r) \/ Configure(r) \/ CheckQueue(r)
             \/ CheckAnswer(r) \/ CursorFlag(r) \/ CursorStatus(r) \/ CursorDecos(r)
    <3>1. UNCHANGED <<analyzers, snap, tpc>>
      BY <2>2 DEF Reset, Drain, AbortAll, Configure, CheckQueue, CheckAnswer, CursorFlag, CursorStatus,
                  CursorDecos, sharedVars, taskVars
    <3>2. /\ pc'[r] \notin {"token", "spawn"} /\ (pc'[r] \in Early => pc[r] \in Early)
          /\ \A q \in Requests \ {r} : pc'[q] = pc[q]
      BY <1>0, <2>2 DEF Reset, Drain, AbortAll, Configure, CheckQueue, CheckAnswer, CursorFlag, CursorStatus,
                        CursorDecos, Early
    <3> QED
      BY <1>0, <3>1, <3>2, FreshFrame DEF Marked, Distinct
  <2>3. CASE Reap(r) \/ CheckJoin(r)
    <3>1. UNCHANGED <<analyzers, snap>> /\ \A t \in Tasks : tpc[t] = "none" => tpc'[t] = "none"
      BY <1>0, <2>3 DEF Reap, CheckJoin, JoinOne, sharedVars, handlerVars
    <3>2. /\ pc'[r] \notin {"token", "spawn"} /\ (pc'[r] \in Early => pc[r] \in Early)
          /\ \A q \in Requests \ {r} : pc'[q] = pc[q]
      BY <1>0, <2>3 DEF Reap, CheckJoin, handlerVars, Early
    <3> QED
      BY <1>0, <3>1, <3>2, FreshFrame DEF Marked, Distinct
  <2>4. CASE Mark(r)
    <3>1. /\ UNCHANGED <<analyzers, tpc>> /\ snap' = [snap EXCEPT ![r] = analyzers]
          /\ pc[r] = "mark" /\ pc'[r] \notin Early
          /\ \A q \in Requests \ {r} : pc'[q] = pc[q]
      BY <1>0, <2>4 DEF Mark, EndOfRun, taskVars, Early
    <3>2. ASSUME NEW q \in Requests, Marked(q)' PROVE Distinct(snap[q])'
      <4>1. CASE q = r
        <5>1. snap'[q] = analyzers
          BY <1>0, <3>1, <4>1
        <5> QED
          BY <1>0, <5>1 DEF Distinct
      <4>2. CASE q # r
        <5>1. snap'[q] = snap[q] /\ Marked(q)
          BY <1>0, <3>1, <3>2, <4>2 DEF Marked
        <5> QED
          BY <5>1 DEF Fresh, Distinct
      <4> QED
        BY <4>1, <4>2
    <3>3. ASSUME NEW t \in Tasks, NotYet(t)' PROVE tpc'[t] = "none"
      <4>1. t[1] \in Requests
        BY DEF Tasks
      <4>2. NotYet(t)
        BY <1>0, <3>1, <3>3, <4>1 DEF NotYet, Marked, Early
      <4> QED
        BY <3>1, <4>2 DEF Fresh
    <3>4. Distinct(analyzers)'
      BY <1>0, <3>1 DEF Distinct
    <3> QED
      BY <3>2, <3>3, <3>4 DEF Fresh
  <2>5. CASE RegisterToken(r)
    <3>1. UNCHANGED <<analyzers, snap, tpc>> /\ pc[r] = "token" /\ pc'[r] = "spawn"
          /\ \A q \in Requests \ {r} : pc'[q] = pc[q]
      BY <1>0, <2>5 DEF RegisterToken
    <3> QED
      BY <1>0, <3>1, FreshFrame DEF Marked, Early, Distinct
  <2>6. CASE Spawn(r)
    <3>1. /\ snap[r] \in Seq(Targets) /\ snap[r] # << >> /\ Distinct(snap[r]) /\ Marked(r)
      BY <1>0, <2>6 DEF Spawn, Marked, SnapOK, Fresh
    <3>2. /\ analyzers' = analyzers /\ snap' = [snap EXCEPT ![r] = Tail(snap[r])]
          /\ tpc' = [tpc EXCEPT ![<<r, Head(snap[r])>>] = "spawned"]
          /\ pc'[r] \notin Early /\ \A q \in Requests \ {r} : pc'[q] = pc[q]
      BY <1>0, <2>6 DEF Spawn, EndOfRun, sharedVars, Early
    <3>3. /\ Distinct(Tail(snap[r]))
          /\ Range(Tail(snap[r])) \subseteq Range(snap[r]) \ {Head(snap[r])}
      BY <3>1, TailOfDistinct
    <3>4. ASSUME NEW q \in Requests, Marked(q)' PROVE Distinct(snap[q])'
      <4>1. CASE q = r
        <5>1. snap'[q] = Tail(snap[r])
          BY <1>0, <3>2, <4>1
        <5> QED
          BY <3>3, <5>1 DEF Distinct
      <4>2. CASE q # r
        <5>1. snap'[q] = snap[q] /\ Marked(q)
          BY <1>0, <3>2, <3>4, <4>2 DEF Marked
        <5> QED
          BY <5>1 DEF Fresh, Distinct
      <4> QED
        BY <4>1, <4>2
    <3>5. ASSUME NEW t \in Tasks, NotYet(t)' PROVE tpc'[t] = "none"
      <4>1. t[1] \in Requests
        BY DEF Tasks
      <4>2. CASE t[1] = r
        <5>1. t[2] \in Range(Tail(snap[r]))
          BY <1>0, <3>2, <3>5, <4>2 DEF NotYet
        <5>2. NotYet(t) /\ t # <<r, Head(snap[r])>>
          BY <3>1, <3>3, <4>2, <5>1 DEF NotYet
        <5> QED
          BY <1>0, <3>2, <5>2 DEF Fresh
      <4>3. CASE t[1] # r
        <5>1. NotYet(t)
          BY <1>0, <3>2, <3>5, <4>1, <4>3 DEF NotYet, Marked
        <5> QED
          BY <1>0, <3>2, <4>3, <5>1 DEF Fresh
      <4> QED
        BY <4>2, <4>3
    <3>6. Distinct(analyzers)'
      BY <1>0, <3>2 DEF Distinct
    <3> QED
      BY <3>4, <3>5, <3>6 DEF Fresh
  <2> QED
    BY <1>2, <2>1, <2>2, <2>3, <2>4, <2>5, <2>6 DEF HandlerAction, HandlerStep
<1>3. ASSUME NEW r \in Requests, WaiterStep(r) PROVE Fresh'
  <2>1. UNCHANGED <<analyzers, pc, snap>>
    BY <1>3 DEF WaiterStep, WaiterQueue, WaiterJoin, WaiterEmpty, WaiterPublish, handlerVars, sharedVars
  <2>2. \A t \in Tasks : tpc[t] = "none" => tpc'[t] = "none"
    BY <1>0, <1>3 DEF WaiterStep, WaiterQueue, WaiterJoin, WaiterEmpty, WaiterPublish, JoinOne, taskVars
  <2> QED
    BY <1>0, <2>1, <2>2, FreshFrame DEF Marked, Distinct
<1>4. ASSUME NEW t \in Tasks, TaskAction(t) PROVE Fresh'
  <2>1. UNCHANGED <<analyzers, pc, snap>>
    <3>1. analyzers' = analyzers
      BY <1>4 DEF TaskAction, TaskStep, Answer, TaskStart, TaskBegin, TaskBegun, TaskPrepare, TaskCancelled,
                  TaskCleanup, TaskFinish, TaskDrop, TaskPanic, TaskAnalyzed, TaskEnded, ClientAnswers,
                  OtherVars, sharedVars
    <3> QED
      BY <1>0, <1>4, <3>1, TaskFrame DEF handlerVars
  <2>2. \A s \in Tasks : tpc[s] = "none" => tpc'[s] = "none"
    BY <1>0, <1>4 DEF TaskAction, TaskStep, Answer, TaskStart, TaskBegin, TaskBegun, TaskPrepare, TaskCancelled,
                      TaskCleanup, TaskFinish, TaskDrop, TaskPanic, TaskAnalyzed, TaskEnded, ClientAnswers,
                      Step, Live
  <2> QED
    BY <1>0, <2>1, <2>2, FreshFrame DEF Marked, Distinct
<1>5. CASE Save \/ UNCHANGED vars
  <2>1. UNCHANGED <<analyzers, pc, snap, tpc>>
    BY <1>5 DEF Save, vars, handlerVars, sharedVars, taskVars
  <2> QED
    BY <1>0, <2>1, FreshFrame DEF Marked, Distinct
<1> QED
  BY <1>1, <1>2, <1>3, <1>4, <1>5 DEF Next, HandlerAction, TaskAction

LEMMA FreshInit == Init => Fresh
  BY DEF Init, Fresh, Distinct, Marked

-----------------------------------------------------------------------------
(* Progress, answers of check and of cursor.                               *)

\* Where a task stands with its progress; only one that is aborted leaves the sending of its begin or
\* end unfinished.
ProgressAt ==
  \A t \in Tasks :
    /\ progress[t] = "begun" => tpc[t] = "beginning" \/ t \in aborted
    /\ progress[t] = "taken" => tpc[t] = "ending" \/ t \in aborted
    /\ progress[t] = "held" => tpc[t] \in {"preparing", "loop", "cleanup"}
    /\ tpc[t] \in {"none", "spawned", "creating"} => progress[t] = "none"
    /\ tpc[t] = "beginning" => progress[t] \in {"none", "begun"}

LEMMA ProgressStep ==
  ASSUME TInv, Fresh, ProgressAt, [Next]_vars
  PROVE  ProgressAt'
<1>0. TypeOK /\ SnapOK
  BY DEF TInv
<1> USE DEF TypeOK, TaskTypeOK, ProgressAt
<1>1. ASSUME NEW r \in Requests, NEW k \in Kinds, Arrive(r, k) PROVE ProgressAt'
  BY <1>1 DEF Arrive, taskVars
<1>2. ASSUME NEW r \in Requests, HandlerAction(r) PROVE ProgressAt'
  <2>1. CASE Reap(r) \/ CheckJoin(r)
    <3>1. UNCHANGED <<aborted, progress>>
      BY <2>1 DEF Reap, CheckJoin
    <3>2. \A t \in Tasks : tpc'[t] = tpc[t] \/ (tpc[t] = "finished" /\ tpc'[t] = "reaped")
      BY <1>0, <2>1 DEF Reap, CheckJoin, JoinOne
    <3> QED
      BY <3>1, <3>2
  <2>2. CASE Spawn(r)
    <3> DEFINE new == <<r, Head(snap[r])>>
    <3>1. snap[r] \in Seq(Targets) /\ snap[r] # << >> /\ Marked(r)
      BY <1>0, <2>2 DEF Spawn, Marked, SnapOK, HandlerTypeOK
    <3>2. new \in Tasks /\ new[1] = r /\ new[2] \in Range(snap[r])
      BY <3>1 DEF Tasks, Range
    <3>3. tpc[new] = "none"
      BY <3>1, <3>2 DEF Fresh, NotYet
    <3> HIDE DEF new
    <3>4. tpc' = [tpc EXCEPT ![new] = "spawned"] /\ UNCHANGED <<aborted, progress>>
      BY <2>2 DEF Spawn, new
    <3> QED
      BY <1>0, <3>2, <3>3, <3>4
  <2>3. CASE AbortAll(r)
    BY <2>3 DEF AbortAll
  <2>4. CASE UNCHANGED <<tpc, aborted, progress>>
    BY <2>4
  <2> QED
    BY <1>2, <2>1, <2>2, <2>3, <2>4
    DEF HandlerAction, HandlerStep, AddTarget, Reset, Drain, Mark, RegisterToken, Configure, CheckQueue,
        CheckAnswer, CursorFlag, CursorStatus, CursorDecos, taskVars
<1>3. ASSUME NEW r \in Requests, WaiterStep(r) PROVE ProgressAt'
  <2>1. UNCHANGED <<aborted, progress>>
    BY <1>3 DEF WaiterStep, WaiterQueue, WaiterJoin, WaiterEmpty, WaiterPublish, taskVars
  <2>2. \A t \in Tasks : tpc'[t] = tpc[t] \/ (tpc[t] = "finished" /\ tpc'[t] = "reaped")
    BY <1>0, <1>3 DEF WaiterStep, WaiterQueue, WaiterJoin, WaiterEmpty, WaiterPublish, JoinOne, taskVars
  <2> QED
    BY <2>1, <2>2
<1>4. ASSUME NEW t \in Tasks, TaskAction(t) PROVE ProgressAt'
  <2> USE DEF OtherVars, Step
  <2>1. CASE TaskStart(t) \/ TaskPrepare(t) \/ TaskCancelled(t) \/ TaskEnded(t) \/ ClientAnswers(t)
    BY <1>0, <2>1 DEF TaskStart, TaskPrepare, TaskCancelled, TaskEnded, ClientAnswers
  <2>2. CASE TaskBegin(t) \/ TaskBegun(t)
    BY <1>0, <2>2 DEF TaskBegin, TaskBegun
  <2>3. CASE TaskPanic(t) \/ TaskDrop(t)
    BY <1>0, <2>3 DEF TaskPanic, TaskDrop, DropProgress
  <2>4. CASE TaskCleanup(t) \/ TaskFinish(t)
    BY <1>0, <2>4 DEF TaskCleanup, TaskFinish
  <2>5. CASE TaskAnalyzed(t)
    BY <2>5 DEF TaskAnalyzed
  <2> QED
    BY <1>4, <2>1, <2>2, <2>3, <2>4, <2>5 DEF TaskAction, TaskStep, Answer
<1>5. CASE Save \/ UNCHANGED vars
  BY <1>5 DEF Save, vars, taskVars
<1> QED
  BY <1>1, <1>2, <1>3, <1>4, <1>5 DEF Next, HandlerAction, TaskAction

\* Whoever holds a ProgressToken when its task ends, panics or is aborted has the end reported: a
\* progress is left open only by a task that was aborted while it was sending the begin or the end.
THEOREM ProgressIsClosed == Spec => []ProgressClosed
<1>1. Init => ProgressAt
  BY DEF Init, ProgressAt
<1>2. TInv /\ Fresh /\ ProgressAt /\ [Next]_vars => ProgressAt'
  BY ProgressStep
<1>3. TInv /\ Fresh /\ [Next]_vars => Fresh'
  BY FreshStep
<1>4. ProgressAt => ProgressClosed
  BY DEF ProgressAt, ProgressClosed
<1> QED
  BY <1>1, <1>2, <1>3, <1>4, FreshInit, TInvInit, TInvStep, PTL DEF Spec

\* A check is alone with its Backend; before its run and after its answer nothing is in the JoinSet.
CheckLocations == {"add", "drain", "abort", "reap", "mark", "token", "spawn", "join", "joining", "done"}
Alone(r) ==
  /\ \A q \in Requests \ {r} : pc[q] = "unused"
  /\ pc[r] \in CheckLocations
  /\ after[r] = "mark"
  /\ pc[r] \in {"add", "done"} => JoinSet = {}
CheckAlone == \A r \in Requests : kind[r] = "check" => Alone(r)

LEMMA CheckAloneStep ==
  ASSUME IInv, CheckAlone, [Next]_vars
  PROVE  CheckAlone'
<1> SUFFICES ASSUME NEW r \in Requests, kind'[r] = "check"
             PROVE  Alone(r)'
  BY DEF CheckAlone
<1>0. /\ TypeOK /\ RunOnce /\ TasksWatched
      /\ kind[r] = "check" => Alone(r)
  BY DEF IInv, TInv, CheckAlone
<1> USE DEF TypeOK, HandlerTypeOK, Goto
<1>1. ASSUME NEW q \in Requests, NEW k \in Kinds, Arrive(q, k) PROVE Alone(r)'
  <2>1. CASE kind[r] = "check" /\ r # q
    <3>1. Alone(r)
      BY <1>0, <2>1
    <3>2. pc[r] # "unused" /\ \A p \in Requests : kind[p] = "initialize" => pc[p] = "unused"
      BY <2>1, <3>1 DEF Alone, CheckLocations
    <3> QED
      BY <1>1, <3>2 DEF Arrive, MayArrive
  <2>2. CASE r = q
    <3>1. k = "check"
      BY <1>0, <1>1, <2>2 DEF Arrive
    <3>2. \A p \in Requests : pc[p] = "unused"
      BY <1>1, <3>1 DEF Arrive, MayArrive
    <3>3. JoinSet = {}
      BY <1>0, <3>2 DEF TasksWatched, RunOnce, Marked
    <3>4. JoinSet' = JoinSet
      BY <1>1 DEF Arrive, taskVars, JoinSet
    <3>5. PICK ts \in TargetsOf("check") : pc' = [pc EXCEPT ![r] = FirstStep("check", ts)]
      BY <1>1, <2>2, <3>1 DEF Arrive
    <3>6. ts # {}
      BY <3>5 DEF TargetsOf
    <3>7. pc'[r] = "add" /\ \A p \in Requests \ {r} : pc'[p] = "unused"
      BY <1>0, <3>2, <3>5, <3>6 DEF FirstStep
    <3>8. after'[r] = "mark"
      BY <1>0, <1>1, <2>2, <3>1 DEF Arrive
    <3> QED
      BY <3>3, <3>4, <3>7, <3>8 DEF Alone, CheckLocations
  <2>3. CASE kind[r] # "check" /\ r # q
    BY <1>0, <1>1, <2>3 DEF Arrive
  <2> QED
    BY <2>1, <2>2, <2>3
<1>2. ASSUME NEW q \in Requests, HandlerAction(q) PROVE Alone(r)'
  <2>1. kind' = kind
    BY <1>2 DEF HandlerAction, HandlerStep, AddTarget, Reset, Drain, AbortAll, Reap, Mark, RegisterToken, Spawn, Configure,
                CheckQueue, CheckJoin, CheckAnswer, CursorFlag, CursorStatus, CursorDecos, handlerVars
  <2>2. Alone(r) /\ kind[r] = "check"
    BY <1>0, <2>1
  <2>3. q = r
    BY <1>2, <2>2 DEF Alone, HandlerAction, HandlerStep, AddTarget, Reset, Drain, AbortAll, Reap, Mark, RegisterToken,
                      Spawn, Configure, CheckQueue, CheckJoin, CheckAnswer, CursorFlag, CursorStatus,
                      CursorDecos
  <2> USE DEF Alone, CheckLocations
  <2>4. CASE AddTarget(r)
    <3>1. JoinSet' = JoinSet /\ JoinSet = {}
      BY <2>2, <2>4 DEF AddTarget, taskVars, JoinSet
    <3> QED
      BY <1>0, <2>2, <2>4, <3>1 DEF AddTarget
  <2>5. CASE Drain(r) \/ AbortAll(r) \/ RegisterToken(r) \/ CheckQueue(r)
    BY <1>0, <2>2, <2>5 DEF Drain, AbortAll, RegisterToken, CheckQueue
  <2>6. CASE Reap(r)
    BY <1>0, <2>2, <2>6 DEF Reap
  <2>7. CASE Mark(r) \/ Spawn(r)
    BY <1>0, <2>2, <2>7 DEF Mark, Spawn, EndOfRun
  <2>8. CASE CheckJoin(r)
    BY <2>2, <2>8 DEF CheckJoin, handlerVars
  <2>9. CASE CheckAnswer(r)
    <3>1. JoinSet' = {}
      BY <2>9 DEF CheckAnswer, AllJoined, taskVars, JoinSet
    <3> QED
      BY <1>0, <2>2, <2>9, <3>1 DEF CheckAnswer
  <2>10. CASE Reset(r) \/ Configure(r) \/ CursorFlag(r) \/ CursorStatus(r) \/ CursorDecos(r)
    BY <2>2, <2>10 DEF Reset, Configure, CursorFlag, CursorStatus, CursorDecos
  <2> QED
    BY <1>2, <2>3, <2>4, <2>5, <2>6, <2>7, <2>8, <2>9, <2>10 DEF HandlerAction, HandlerStep
<1>3. ASSUME NEW q \in Requests, WaiterStep(q) PROVE Alone(r)'
  <2>1. UNCHANGED handlerVars
    BY <1>3 DEF WaiterStep, WaiterQueue, WaiterJoin, WaiterEmpty, WaiterPublish
  <2>2. JoinSet' \subseteq JoinSet
    BY <1>0, <1>3 DEF WaiterStep, WaiterQueue, WaiterJoin, WaiterEmpty, WaiterPublish, JoinOne, taskVars,
                      JoinSet, TaskTypeOK, Live
  <2> QED
    BY <1>0, <2>1, <2>2 DEF handlerVars, Alone
<1>4. ASSUME NEW t \in Tasks, TaskAction(t) PROVE Alone(r)'
  BY <1>0, <1>4, TaskFrame DEF handlerVars, Alone
<1>5. CASE Save \/ UNCHANGED vars
  <2>1. UNCHANGED <<handlerVars, taskVars>>
    BY <1>5 DEF Save, vars
  <2> QED
    BY <1>0, <2>1 DEF handlerVars, taskVars, Alone, JoinSet
<1> QED
  BY <1>1, <1>2, <1>3, <1>4, <1>5 DEF Next, HandlerAction, TaskAction

\* check answers only when every task it started has ended, whoever joined it.
THEOREM ChecksAnswerAtEnd == Spec => []CheckAnswersAtEnd
<1>1. Init => CheckAlone
  BY DEF Init, CheckAlone
<1>2. IInv /\ CheckAlone /\ [Next]_vars => CheckAlone'
  BY CheckAloneStep
<1>3. IInv /\ CheckAlone => CheckAnswersAtEnd
  <2> SUFFICES ASSUME IInv, CheckAlone, NEW r \in Requests, kind[r] = "check", pc[r] = "done",
                      NEW t \in Tasks
               PROVE  tpc[t] \in {"none", "reaped"}
    BY DEF CheckAnswersAtEnd
  <2>1. JoinSet = {}
    BY DEF CheckAlone, Alone
  <2> QED
    BY <2>1 DEF JoinSet, IInv, TInv, TypeOK, TaskTypeOK
<1> QED
  BY <1>1, <1>2, <1>3, IInvInit, IInvStep, PTL DEF Spec

\* A cursor request is about one file.
Asking(r) == pc[r] \in {"flag", "status", "decos"}
CursorOne == \A r \in Requests : Asking(r) => \A f, g \in todo[r] : f = g

LEMMA CursorOneStep ==
  ASSUME TypeOK, CursorOne, [Next]_vars
  PROVE  CursorOne'
<1> USE DEF TypeOK, HandlerTypeOK, CursorOne, Asking, Goto
<1>1. ASSUME NEW r \in Requests, NEW k \in Kinds, Arrive(r, k) PROVE CursorOne'
  <2>1. PICK ts \in TargetsOf(k) : /\ todo' = [todo EXCEPT ![r] = ts]
                                  /\ pc' = [pc EXCEPT ![r] = FirstStep(k, ts)]
    BY <1>1 DEF Arrive
  <2>2. FirstStep(k, ts) \in {"flag", "status", "decos"} => \A f, g \in ts : f = g
    BY BackendAssumption DEF FirstStep, RequestKinds, TargetsOf
  <2> QED
    BY <2>1, <2>2
<1>2. ASSUME NEW r \in Requests, HandlerAction(r) PROVE CursorOne'
  <2>1. CASE AddTarget(r)
    BY <2>1 DEF AddTarget
  <2>2. CASE Reap(r)
    BY <2>2 DEF Reap
  <2>3. CASE Mark(r) \/ Spawn(r)
    <3>1. todo' = todo /\ pc'[r] \in {"token", "configure", "join", "done"}
          /\ \A q \in Requests \ {r} : pc'[q] = pc[q]
      BY <2>3 DEF Mark, Spawn, EndOfRun
    <3> QED
      BY <3>1
  <2>4. CASE \/ Reset(r) \/ Drain(r) \/ AbortAll(r) \/ RegisterToken(r) \/ Configure(r) \/ CheckQueue(r)
             \/ CheckAnswer(r) \/ CursorFlag(r) \/ CursorStatus(r) \/ CursorDecos(r)
    BY <2>4 DEF Reset, Drain, AbortAll, RegisterToken, Configure, CheckQueue, CheckAnswer,
                CursorFlag, CursorStatus, CursorDecos
  <2>5. CASE CheckJoin(r)
    BY <2>5 DEF CheckJoin, handlerVars
  <2> QED
    BY <1>2, <2>1, <2>2, <2>3, <2>4, <2>5 DEF HandlerAction, HandlerStep
<1>3. ASSUME NEW r \in Requests, WaiterStep(r) PROVE CursorOne'
  BY <1>3 DEF WaiterStep, WaiterQueue, WaiterJoin, WaiterEmpty, WaiterPublish, handlerVars
<1>4. ASSUME NEW t \in Tasks, TaskAction(t) PROVE CursorOne'
  BY <1>4, TaskFrame DEF handlerVars
<1>5. CASE Save \/ UNCHANGED vars
  BY <1>5 DEF Save, vars, handlerVars
<1> QED
  BY <1>1, <1>2, <1>3, <1>4, <1>5 DEF Next, HandlerAction, TaskAction

\* A handler leaves "decos" only by its own CursorDecos.
LEMMA DecosLeft ==
  ASSUME TypeOK, [Next]_vars, NEW r \in Requests, pc[r] = "decos", pc'[r] = "done"
  PROVE  CursorDecos(r)
<1> USE DEF TypeOK, HandlerTypeOK, Goto
<1>1. ASSUME NEW q \in Requests, NEW k \in Kinds, Arrive(q, k) PROVE FALSE
  BY <1>1 DEF Arrive
<1>2. ASSUME NEW q \in Requests, HandlerAction(q) PROVE CursorDecos(r)
  <2>1. CASE q = r
    BY <1>2, <2>1 DEF HandlerAction, HandlerStep, AddTarget, Reset, Drain, AbortAll, Reap, Mark, RegisterToken, Spawn,
                      Configure, CheckQueue, CheckJoin, CheckAnswer, CursorFlag, CursorStatus
  <2>2. CASE q # r
    BY <1>2, <2>2 DEF HandlerAction, HandlerStep, AddTarget, Reset, Drain, AbortAll, Reap, Mark, EndOfRun, RegisterToken,
                      Spawn, Configure, CheckQueue, CheckJoin, CheckAnswer, CursorFlag, CursorStatus,
                      CursorDecos, handlerVars
  <2> QED
    BY <2>1, <2>2
<1>3. ASSUME NEW q \in Requests, WaiterStep(q) PROVE FALSE
  BY <1>3 DEF WaiterStep, WaiterQueue, WaiterJoin, WaiterEmpty, WaiterPublish, handlerVars
<1>4. ASSUME NEW t \in Tasks, TaskAction(t) PROVE FALSE
  BY <1>4, TaskFrame DEF handlerVars
<1>5. CASE Save \/ UNCHANGED vars
  BY <1>5 DEF Save, vars, handlerVars
<1> QED
  BY <1>1, <1>2, <1>3, <1>4, <1>5 DEF Next, HandlerAction, TaskAction

\* cursor says Finished only over items of the file, however the analysis moved between its reads.
THEOREM CursorIsHonest == Spec => CursorHonest
<1>1. Init => CursorOne
  BY DEF Init, CursorOne, Asking
<1>2. TypeOK /\ CursorOne /\ [Next]_vars => CursorOne'
  BY CursorOneStep
<1> DEFINE Honest == \A r \in Requests :
                       pc[r] = "decos" /\ pc'[r] = "done" /\ reply'[r].status = "Finished" =>
                         \A f \in todo[r] : HasItems(f)
<1>3. TypeOK /\ CursorOne /\ [Next]_vars => [Honest]_vars
  <2> SUFFICES ASSUME TypeOK, CursorOne, [Next]_vars, NEW r \in Requests,
                      pc[r] = "decos", pc'[r] = "done", reply'[r].status = "Finished",
                      NEW f \in todo[r]
               PROVE  HasItems(f)
    OBVIOUS
  <2>1. CursorDecos(r)
    BY DecosLeft
  <2>2. PICK g \in todo[r], found \in BOOLEAN :
          (found => HasItems(g)) /\ Report(r, DecosStatus(r, g, found))
    BY <2>1 DEF CursorDecos
  <2>3. DecosStatus(r, g, found) = "Finished"
    BY <2>2 DEF Report, TypeOK, HandlerTypeOK
  <2>4. HasItems(g)
    BY <2>2, <2>3 DEF DecosStatus
  <2>5. f = g
    BY DEF CursorOne, Asking
  <2> QED
    BY <2>4, <2>5
<1> QED
  BY <1>1, <1>2, <1>3, TypeCorrect, PTL DEF Spec, CursorHonest

-----------------------------------------------------------------------------
(* Handlers that were in flight together.                                  *)

Starting(r) == pc[r] \in {"mark", "token", "spawn"}
\* Handlers in flight now were so together; whatever a run finds in the JoinSet between its stop and its
\* last spawn is its own or of a handler it overlapped with, and so is what is left together.
OverlapInv ==
  /\ \A q, r \in InFlight : q # r => {q, r} \in overlapped
  /\ \A r \in Requests : Starting(r) => \A t \in JoinSet : t[1] = r \/ {t[1], r} \in overlapped
  /\ \A s, t \in JoinSet : s[1] = t[1] \/ {s[1], t[1]} \in overlapped

\* A step that brings no handler into flight or past its stop, and adds no task.
LEMMA OverlapFrame ==
  ASSUME OverlapInv, overlapped' = overlapped, JoinSet' \subseteq JoinSet,
         \A r \in Requests : r \in InFlight' => r \in InFlight,
         \A r \in Requests : Starting(r)' => Starting(r)
  PROVE  OverlapInv'
<1>1. InFlight' \subseteq InFlight
  BY DEF InFlight
<1> QED
  BY <1>1 DEF OverlapInv

LEMMA OverlapStep ==
  ASSUME TypeOK, OverlapInv, [Next]_vars
  PROVE  OverlapInv'
<1>0. TaskTypeOK
  BY DEF TypeOK
<1> USE DEF TypeOK, HandlerTypeOK, Goto
<1>1. ASSUME NEW r \in Requests, NEW k \in Kinds, Arrive(r, k) PROVE OverlapInv'
  <2>1. PICK ts \in TargetsOf(k) : pc' = [pc EXCEPT ![r] = FirstStep(k, ts)]
    BY <1>1 DEF Arrive
  <2>2. FirstStep(k, ts) \notin {"mark", "token", "spawn"}
    BY BackendAssumption DEF FirstStep, RequestKinds
  <2>3. JoinSet' = JoinSet /\ overlapped' = overlapped \cup {{q, r} : q \in InFlight}
    BY <1>1 DEF Arrive, taskVars, JoinSet
  <2>4. InFlight' \subseteq InFlight \cup {r}
    BY <2>1 DEF InFlight
  <2>5. \A q \in InFlight : {q, r} \in overlapped' /\ {r, q} = {q, r}
    BY <2>3
  <2>6. \A q, p \in InFlight' : q # p => {q, p} \in overlapped'
    BY <2>3, <2>4, <2>5 DEF OverlapInv
  <2>7. \A q \in Requests : Starting(q)' => Starting(q)
    BY <2>1, <2>2 DEF Starting
  <2> QED
    BY <2>3, <2>6, <2>7 DEF OverlapInv
<1>2. ASSUME NEW r \in Requests, HandlerAction(r) PROVE OverlapInv'
  <2>0. /\ overlapped' = overlapped /\ r \in InFlight
        /\ \A q \in Requests \ {r} : pc'[q] = pc[q]
    <3>1. overlapped' = overlapped
      BY <1>2 DEF HandlerAction, HandlerStep, AddTarget, Reset, Drain, AbortAll, Reap, Mark, RegisterToken,
                  Spawn, Configure, CheckQueue, CheckJoin, CheckAnswer, CursorFlag, CursorStatus,
                  CursorDecos, sharedVars
    <3>2. r \in InFlight
      BY <1>2 DEF HandlerAction, HandlerStep, AddTarget, Reset, Drain, AbortAll, Reap, Mark, RegisterToken,
                  Spawn, Configure, CheckQueue, CheckJoin, CheckAnswer, CursorFlag, CursorStatus,
                  CursorDecos, InFlight
    <3>3. \A q \in Requests \ {r} : pc'[q] = pc[q]
      BY <1>2 DEF HandlerAction, HandlerStep, AddTarget, Reset, Drain, AbortAll, Reap, Mark, EndOfRun,
                  RegisterToken, Spawn, Configure, CheckQueue, CheckJoin, CheckAnswer, CursorFlag,
                  CursorStatus, CursorDecos, handlerVars
    <3> QED
      BY <3>1, <3>2, <3>3
  <2>1. \A q \in Requests : q \in InFlight' => q \in InFlight
    BY <2>0 DEF InFlight
  <2>2. CASE Reap(r)
    <3>1. JoinSet' = {}
      BY <1>0, <2>2 DEF Reap, AllFinished, JoinSet, Live, TaskTypeOK
    <3>2. InFlight' \subseteq InFlight
      BY <2>1 DEF InFlight
    <3> QED
      BY <2>0, <3>1, <3>2 DEF OverlapInv
  <2>3. CASE Spawn(r)
    <3> DEFINE new == <<r, Head(snap[r])>>
    <3>1. JoinSet' \subseteq JoinSet \cup {new}
      BY <1>0, <2>3 DEF Spawn, JoinSet, TaskTypeOK
    <3>2. InFlight' \subseteq InFlight
      BY <2>1 DEF InFlight
    <3>3. \A q \in Requests : Starting(q)' => Starting(q)
      BY <2>0, <2>3 DEF Spawn, Starting
    <3>4. ASSUME NEW q \in Requests, Starting(q)', NEW t \in JoinSet'
          PROVE  t[1] = q \/ {t[1], q} \in overlapped'
      <4>1. CASE t \in JoinSet
        BY <2>0, <3>3, <3>4, <4>1 DEF OverlapInv
      <4>2. CASE t = new
        <5>1. q \in InFlight /\ t[1] = r
          BY <3>3, <3>4, <4>2 DEF Starting, InFlight
        <5> QED
          BY <2>0, <5>1 DEF OverlapInv
      <4> QED
        BY <3>1, <4>1, <4>2
    <3>5. \A t \in JoinSet : t[1] = r \/ {t[1], r} \in overlapped
      BY <2>3 DEF Spawn, Starting, OverlapInv
    <3>6. ASSUME NEW s \in JoinSet', NEW t \in JoinSet'
          PROVE  s[1] = t[1] \/ {s[1], t[1]} \in overlapped'
      <4>1. \A u \in JoinSet' : u \in JoinSet \/ u[1] = r
        BY <3>1
      <4>2. {s[1], t[1]} = {t[1], s[1]}
        OBVIOUS
      <4> QED
        BY <2>0, <3>5, <4>1, <4>2 DEF OverlapInv
    <3>7. \A q, p \in InFlight' : q # p => {q, p} \in overlapped'
      BY <2>0, <3>2 DEF OverlapInv
    <3> QED
      BY <3>4, <3>6, <3>7 DEF OverlapInv
  <2>4. CASE CheckJoin(r)
    <3>1. JoinSet' \subseteq JoinSet /\ pc' = pc
      BY <1>0, <2>4 DEF CheckJoin, JoinOne, JoinSet, Live, TaskTypeOK, handlerVars
    <3> QED
      BY <2>0, <2>1, <3>1, OverlapFrame DEF Starting
  <2>5. CASE ~ (Reap(r) \/ Spawn(r) \/ CheckJoin(r))
    <3>1. JoinSet' = JoinSet
      BY <1>2, <2>5 DEF HandlerAction, HandlerStep, AddTarget, Reset, Drain, AbortAll, Mark, RegisterToken,
                        Configure, CheckQueue, CheckAnswer, CursorFlag, CursorStatus, CursorDecos,
                        taskVars, JoinSet
    <3>2. Starting(r)' => Starting(r)
      <4>1. CASE AddTarget(r)
        BY <4>1 DEF AddTarget, Starting
      <4>2. CASE Mark(r)
        BY <4>2 DEF Mark, Starting
      <4>3. CASE CursorStatus(r)
        BY <4>3 DEF CursorStatus, Starting
      <4>4. CASE ~ (AddTarget(r) \/ Mark(r) \/ CursorStatus(r))
        BY <1>2, <2>5, <4>4 DEF HandlerAction, HandlerStep, Reset, Drain, AbortAll, RegisterToken,
                                Configure, CheckQueue, CheckAnswer, CursorFlag, CursorDecos, Starting
      <4> QED
        BY <4>1, <4>2, <4>3, <4>4
    <3>3. \A q \in Requests : Starting(q)' => Starting(q)
      BY <2>0, <3>2 DEF Starting
    <3> QED
      BY <2>0, <2>1, <3>1, <3>3, OverlapFrame
  <2> QED
    BY <2>2, <2>3, <2>4, <2>5
<1>3. ASSUME NEW r \in Requests, WaiterStep(r) PROVE OverlapInv'
  <2>1. UNCHANGED <<overlapped, pc>>
    BY <1>3 DEF WaiterStep, WaiterQueue, WaiterJoin, WaiterEmpty, WaiterPublish, handlerVars, sharedVars
  <2>2. JoinSet' \subseteq JoinSet
    BY <1>0, <1>3 DEF WaiterStep, WaiterQueue, WaiterJoin, WaiterEmpty, WaiterPublish, JoinOne, taskVars,
                      JoinSet, TaskTypeOK, Live
  <2> QED
    BY <2>1, <2>2, OverlapFrame DEF InFlight, Starting
<1>4. ASSUME NEW t \in Tasks, TaskAction(t) PROVE OverlapInv'
  <2>1. overlapped' = overlapped
    BY <1>4 DEF TaskAction, TaskStep, Answer, TaskStart, TaskBegin, TaskBegun, TaskPrepare, TaskCancelled,
                TaskCleanup, TaskFinish, TaskDrop, TaskPanic, TaskAnalyzed, TaskEnded, ClientAnswers,
                OtherVars, sharedVars
  <2>2. pc' = pc /\ JoinSet' = JoinSet
    BY <1>4, TaskFrame DEF handlerVars
  <2> QED
    BY <2>1, <2>2, OverlapFrame DEF InFlight, Starting
<1>5. CASE Save \/ UNCHANGED vars
  <2>1. UNCHANGED <<overlapped, pc>> /\ JoinSet' = JoinSet
    BY <1>5 DEF Save, vars, handlerVars, sharedVars, taskVars, JoinSet
  <2> QED
    BY <2>1, OverlapFrame DEF InFlight, Starting
<1> QED
  BY <1>1, <1>2, <1>3, <1>4, <1>5 DEF Next, HandlerAction, TaskAction

LEMMA OverlapInit == Init => OverlapInv
<1> SUFFICES ASSUME Init PROVE OverlapInv
  OBVIOUS
<1>1. JoinSet = {} /\ InFlight = {}
  BY DEF Init, JoinSet, InFlight, Live
<1> QED
  BY <1>1 DEF OverlapInv

\* Two live tasks analyze one target only if the handlers that started them were in flight together, for
\* any messages and targets, and however many handlers are in flight.
THEOREM OneAnalysisAtATime == Spec => []OneAnalysisPerTarget
<1>1. TypeOK /\ OverlapInv /\ [Next]_vars => OverlapInv'
  BY OverlapStep
<1>2. OverlapInv => OneAnalysisPerTarget
  <2> SUFFICES ASSUME OverlapInv, NEW s \in Tasks, NEW t \in Tasks, tpc[s] \in Live, tpc[t] \in Live,
                      s[2] = t[2]
               PROVE  s = t \/ {s[1], t[1]} \in overlapped
    BY DEF OneAnalysisPerTarget
  <2>1. s[1] = t[1] \/ {s[1], t[1]} \in overlapped
    BY DEF OverlapInv, JoinSet
  <2>2. s[1] = t[1] => s = t
    BY DEF Tasks
  <2> QED
    BY <2>1, <2>2
<1> QED
  BY <1>1, <1>2, OverlapInit, TypeCorrect, PTL DEF Spec

-----------------------------------------------------------------------------
(* Tokens and their tasks.                                                 *)

Below == {ss \in Nat \X Nat : ss[1] < ss[2]}

\* The order of the numbers is well-founded: so is the inclusion of the intervals below them.
LEMMA BelowWellFounded == IsWellFoundedOn(Below, Nat)
<1> DEFINE U(k) == 0 .. k - 1
<1>1. ASSUME NEW k \in Nat PROVE U(k) \in FiniteSubsetsOf(Nat)
  <2>1. U(k) \in SUBSET Nat
    OBVIOUS
  <2>2. IsFiniteSet(U(k))
    BY FS_Interval
  <2> QED
    BY <2>1, <2>2 DEF FiniteSubsetsOf
<1>2. ASSUME NEW a \in Nat, NEW b \in Nat, <<a, b>> \in Below
      PROVE  <<U(a), U(b)>> \in StrictSubsetOrdering(Nat)
  <2>1. a < b
    BY <1>2 DEF Below
  <2>2. U(a) \subseteq U(b) /\ U(a) \in SUBSET Nat /\ U(b) \in SUBSET Nat
    BY <2>1
  <2>3. a \in U(b) /\ a \notin U(a)
    BY <2>1
  <2> QED
    BY <2>2, <2>3 DEF StrictSubsetOrdering
<1> HIDE DEF U
<1>3. SUFFICES ASSUME NEW f \in [Nat -> Nat], \A n \in Nat : <<f[n + 1], f[n]>> \in Below
               PROVE  FALSE
  BY DEF IsWellFoundedOn
<1> DEFINE g == [n \in Nat |-> U(f[n])]
<1>4. g \in [Nat -> FiniteSubsetsOf(Nat)]
  BY <1>1
<1>5. ASSUME NEW n \in Nat PROVE <<g[n + 1], g[n]>> \in StrictSubsetOrdering(Nat)
  <2>1. /\ f[n] \in Nat /\ f[n + 1] \in Nat /\ <<f[n + 1], f[n]>> \in Below
        /\ g[n] = U(f[n]) /\ g[n + 1] = U(f[n + 1])
    BY <1>3
  <2> HIDE DEF g
  <2> QED
    BY <1>2, <2>1
<1> QED
  BY <1>4, <1>5, FS_StrictSubsetOrderingWellFounded DEF IsWellFoundedOn

\* A set of numbers has a least one.
LEMMA Least ==
  ASSUME NEW T \in SUBSET Nat, T # {}
  PROVE  \E x \in T : \A y \in T : x <= y
<1>1. PICK x \in T : \A y \in T : ~ (<<y, x>> \in Below)
  BY BelowWellFounded, WFMin
<1>2. \A y \in T : ~ (y < x)
  BY <1>1 DEF Below
<1> QED
  BY <1>2

\* A bounded set of numbers has a greatest one: the least of its bounds.
LEMMA Greatest ==
  ASSUME NEW T \in SUBSET Nat, T # {}, NEW n \in Nat, \A k \in T : k <= n
  PROVE  \E x \in T : \A y \in T : y <= x
<1> DEFINE Bounds == {u \in Nat : \A k \in T : k <= u}
<1>1. Bounds \in SUBSET Nat /\ Bounds # {}
  OBVIOUS
<1>2. PICK u \in Bounds : \A v \in Bounds : u <= v
  BY <1>1, Least
<1>3. SUFFICES ASSUME u \notin T PROVE FALSE
  OBVIOUS
<1>4. PICK k \in T : TRUE
  OBVIOUS
<1>5. \A y \in T : y <= u - 1
  BY <1>2, <1>3
<1>6. u - 1 \in Nat
  BY <1>2, <1>4, <1>5
<1> QED
  BY <1>2, <1>5, <1>6

KeysBounded == \E n \in Nat : \A k \in DOMAIN tokens : k <= n

\* The key of a new token is above all keys in use.
LEMMA NextKeyIsNew ==
  ASSUME DOMAIN tokens \subseteq Nat \ {0}, KeysBounded
  PROVE  \A k \in DOMAIN tokens : k < NextKey
<1>1. CASE DOMAIN tokens = {}
  BY <1>1
<1>2. CASE DOMAIN tokens # {}
  <2>1. PICK n \in Nat : \A k \in DOMAIN tokens : k <= n
    BY DEF KeysBounded
  <2>2. PICK x \in DOMAIN tokens : \A y \in DOMAIN tokens : y <= x
    BY <1>2, <2>1, Greatest
  <2>3. x \in LastKey
    BY <2>2 DEF LastKey
  <2>4. (CHOOSE k \in LastKey : TRUE) \in LastKey
    BY <2>3
  <2>5. NextKey = (CHOOSE k \in LastKey : TRUE) + 1
    BY <2>3 DEF NextKey
  <2> QED
    BY <2>4, <2>5 DEF LastKey
<1> QED
  BY <1>1, <1>2

\* The tasks that a token was made for and that may still poll it, one about to be spawned among them.
Keyed == {"spawned", "creating", "beginning", "preparing", "loop", "cleanup"}
Awaited(t) == pc[t[1]] = "spawn" /\ t[2] = Head(snap[t[1]])
Poller(t) == tpc[t] \in Keyed \/ Awaited(t)
Owns(t) == key[t] \in DOMAIN tokens /\ tokens[key[t]] = t

\* A key is used by two tasks only of runs that overlapped, or of one run.
SharedByOverlap ==
  \A t \in Tasks : Poller(t) /\ key[t] \in DOMAIN tokens =>
    tokens[key[t]][1] = t[1] \/ {t[1], tokens[key[t]][1]} \in overlapped
\* Of a run that overlapped with none: its tokens are dropped all together, and not while it starts.
OwnAlone ==
  \A t \in Tasks : Poller(t) /\ ~ Crowded(t[1]) =>
    /\ key[t] \in DOMAIN tokens => Owns(t)
    /\ Marked(t[1]) => Owns(t)
OwnInv == KeysBounded /\ SharedByOverlap /\ OwnAlone

\* A step that makes no token, adds no task that polls one, and does not begin a run.
LEMMA FewerPollers ==
  ASSUME OwnInv, UNCHANGED <<tokens, key>>, overlapped \subseteq overlapped',
         \A t \in Tasks : Poller(t)' => Poller(t),
         \A r \in Requests : Marked(r)' => Marked(r)
  PROVE  OwnInv'
<1>1. \A t \in Tasks : t[1] \in Requests
  BY DEF Tasks
<1>2. \A r \in Requests : Crowded(r) => Crowded(r)'
  BY DEF Crowded
<1> QED
  BY <1>1, <1>2 DEF OwnInv, KeysBounded, SharedByOverlap, OwnAlone, Owns

\* A task that its run still awaits is not there yet.
LEMMA AwaitedIsNew ==
  ASSUME TInv, Fresh, NEW t \in Tasks, Awaited(t)
  PROVE  tpc[t] = "none"
<1>1. t[1] \in Requests /\ Marked(t[1])
  BY DEF Awaited, Marked, Tasks
<1>2. snap[t[1]] \in Seq(Targets) /\ snap[t[1]] # << >>
  BY <1>1 DEF TInv, SnapOK, TypeOK, HandlerTypeOK
<1>3. t[2] \in Range(snap[t[1]])
  BY <1>2 DEF Awaited, Range
<1> QED
  BY <1>1, <1>3 DEF Fresh, NotYet

LEMMA OwnInvStep ==
  ASSUME TInv, Fresh, OverlapInv, OwnInv, [Next]_vars
  PROVE  OwnInv'
<1>0. TypeOK /\ SnapOK
  BY DEF TInv
<1> USE DEF TypeOK, HandlerTypeOK, TaskTypeOK, Goto
<1>1. ASSUME NEW r \in Requests, NEW k \in Kinds, Arrive(r, k) PROVE OwnInv'
  <2>1. PICK ts \in TargetsOf(k) : pc' = [pc EXCEPT ![r] = FirstStep(k, ts)]
    BY <1>1 DEF Arrive
  <2>2. FirstStep(k, ts) \notin {"token", "spawn"}
    BY BackendAssumption DEF FirstStep, RequestKinds
  <2>3. UNCHANGED <<tokens, key, tpc, snap>> /\ overlapped \subseteq overlapped'
    BY <1>1 DEF Arrive, taskVars
  <2> QED
    BY <1>0, <2>1, <2>2, <2>3, FewerPollers DEF Poller, Awaited, Marked, Tasks
<1>2. ASSUME NEW r \in Requests, HandlerAction(r) PROVE OwnInv'
  <2>0. overlapped' = overlapped
    BY <1>2 DEF HandlerAction, HandlerStep, AddTarget, Reset, Drain, AbortAll, Reap, Mark, RegisterToken,
                Spawn, Configure, CheckQueue, CheckJoin, CheckAnswer, CursorFlag, CursorStatus,
                CursorDecos, sharedVars
  <2>1. CASE \/ AddTarget(r) \/ Reset(r) \/ AbortAll(r) \/ Configure(r) \/ CheckQueue(r)
             \/ CheckAnswer(r) \/ CursorFlag(r) \/ CursorStatus(r) \/ CursorDecos(r)
    <3>1. UNCHANGED <<tokens, key, tpc, snap>>
      BY <2>1 DEF AddTarget, Reset, AbortAll, Configure, CheckQueue, CheckAnswer, CursorFlag, CursorStatus,
                  CursorDecos, sharedVars, taskVars
    <3>2. \A q \in Requests \ {r} : pc'[q] = pc[q]
      BY <1>0, <2>1 DEF AddTarget, Reset, AbortAll, Configure, CheckQueue, CheckAnswer, CursorFlag,
                        CursorStatus, CursorDecos
    <3>3. pc'[r] \notin {"token", "spawn"}
      <4>1. CASE AddTarget(r)
        BY <1>0, <4>1 DEF AddTarget
      <4>2. CASE ~ AddTarget(r)
        BY <1>0, <2>1, <4>2 DEF Reset, AbortAll, Configure, CheckQueue, CheckAnswer, CursorFlag,
                                CursorStatus, CursorDecos
      <4> QED
        BY <4>1, <4>2
    <3> QED
      BY <2>0, <3>1, <3>2, <3>3, FewerPollers DEF Poller, Awaited, Marked, Tasks
  <2>2. CASE Reap(r) \/ CheckJoin(r)
    <3>1. UNCHANGED <<tokens, key, snap>>
      BY <2>2 DEF Reap, CheckJoin, sharedVars, handlerVars
    <3>2. \A t \in Tasks : tpc'[t] \in Keyed => tpc[t] \in Keyed
      BY <1>0, <2>2 DEF Reap, CheckJoin, JoinOne, Keyed
    <3>3. pc'[r] \notin {"token", "spawn"} /\ \A q \in Requests \ {r} : pc'[q] = pc[q]
      BY <1>0, <2>2 DEF Reap, CheckJoin, handlerVars
    <3> QED
      BY <2>0, <3>1, <3>2, <3>3, FewerPollers DEF Poller, Awaited, Marked, Tasks
  <2>3. CASE Drain(r)
    <3>1. DOMAIN tokens' = {}
      BY <2>3 DEF Drain, NoTokens
    <3>2. pc[r] = "drain" /\ pc'[r] = "abort" /\ \A q \in Requests \ {r} : pc'[q] = pc[q]
      BY <1>0, <2>3 DEF Drain
    <3>3. ASSUME NEW q \in Requests, Marked(q)' PROVE Crowded(q)'
      <4>1. q # r /\ q \in InFlight /\ r \in InFlight
        BY <3>2, <3>3 DEF Marked, InFlight
      <4>2. {r, q} \in overlapped
        BY <4>1 DEF OverlapInv
      <4> QED
        BY <2>0, <4>2 DEF Crowded
    <3>4. \A t \in Tasks : t[1] \in Requests
      BY DEF Tasks
    <3> QED
      BY <3>1, <3>3, <3>4 DEF OwnInv, KeysBounded, SharedByOverlap, OwnAlone
  <2>4. CASE Mark(r)
    <3>1. UNCHANGED <<tokens, key, tpc>> /\ \A q \in Requests \ {r} : snap'[q] = snap[q]
      BY <1>0, <2>4 DEF Mark, taskVars
    <3>2. pc[r] = "mark" /\ pc'[r] # "spawn" /\ \A q \in Requests \ {r} : pc'[q] = pc[q]
      BY <1>0, <2>4 DEF Mark, EndOfRun
    <3>3. \A t \in Tasks : t[1] \in Requests
      BY DEF Tasks
    <3>4. \A t \in Tasks : Poller(t)' => Poller(t) /\ t[1] # r
      <4>1. ASSUME NEW t \in Tasks, Poller(t)', t[1] = r PROVE FALSE
        <5>1. tpc[t] = "none"
          BY <3>2, <4>1 DEF Fresh, NotYet, Early
        <5> QED
          BY <3>1, <3>2, <4>1, <5>1 DEF Poller, Awaited, Keyed
      <4>2. ASSUME NEW t \in Tasks, Poller(t)', t[1] # r PROVE Poller(t)
        BY <3>1, <3>2, <3>3, <4>2 DEF Poller, Awaited
      <4> QED
        BY <4>1, <4>2
    <3>5. \A t \in Tasks : t[1] # r /\ Marked(t[1])' => Marked(t[1])
      BY <3>2, <3>3 DEF Marked
    <3> QED
      BY <2>0, <3>1, <3>4, <3>5 DEF OwnInv, KeysBounded, SharedByOverlap, OwnAlone, Owns, Crowded
  <2>5. CASE RegisterToken(r)
    <3>1. snap[r] \in Seq(Targets) /\ snap[r] # << >> /\ Marked(r) /\ Starting(r)
      BY <1>0, <2>5 DEF RegisterToken, Marked, SnapOK, Starting
    <3>2. PICK new \in Tasks : new = <<r, Head(snap[r])>>
      <4>1. <<r, Head(snap[r])>> \in Tasks
        BY <3>1 DEF Tasks
      <4> QED
        BY <4>1
    <3>0. new[1] = r
      BY <3>2
    <3>3. NextKey \in Nat \ {0} /\ \A k \in DOMAIN tokens : k \in Nat /\ k < NextKey
      BY <1>0, NextKeyIsNew, NextKeyType DEF OwnInv, SharedTypeOK
    <3>4. /\ tokens' = [k \in DOMAIN tokens \cup {NextKey} |-> IF k = NextKey THEN new ELSE tokens[k]]
          /\ key' = [key EXCEPT ![new] = NextKey] /\ UNCHANGED <<tpc, snap>>
      BY <2>5, <3>2 DEF RegisterToken
    <3>5. pc[r] = "token" /\ pc'[r] = "spawn" /\ \A q \in Requests \ {r} : pc'[q] = pc[q]
      BY <1>0, <2>5 DEF RegisterToken
    <3>6. ASSUME NEW t \in Tasks, t # new, Awaited(t)' PROVE Awaited(t) /\ t[1] # r
      <4>1. t[1] \in Requests /\ t = <<t[1], t[2]>>
        BY DEF Tasks
      <4>2. pc'[t[1]] = "spawn" /\ t[2] = Head(snap[t[1]])
        BY <3>4, <3>6 DEF Awaited
      <4>3. t[1] # r
        BY <3>2, <3>6, <4>1, <4>2
      <4> QED
        BY <3>5, <4>1, <4>2, <4>3 DEF Awaited
    <3>7. KeysBounded'
      BY <3>3, <3>4 DEF KeysBounded
    <3>8. \A t \in Tasks : t[1] \in Requests /\ (t # new => key'[t] = key[t])
      BY <1>0, <3>2, <3>4 DEF Tasks
    <3>9. Owns(new)'
      BY <1>0, <3>2, <3>4 DEF Owns
    <3>10. ASSUME NEW t \in Tasks, t # new, Poller(t)'
           PROVE  Poller(t) /\ (t[1] = r \/ {t[1], r} \in overlapped)
      <4>1. CASE tpc[t] \in Keyed
        <5>1. t \in JoinSet
          BY <4>1 DEF JoinSet, Keyed, Live
        <5> QED
          BY <3>1, <4>1, <5>1 DEF OverlapInv, Poller
      <4>2. CASE Awaited(t)'
        <5>1. Awaited(t) /\ t[1] # r /\ t[1] \in InFlight /\ r \in InFlight
          BY <3>5, <3>6, <3>8, <3>10, <4>2 DEF Awaited, InFlight
        <5> QED
          BY <5>1 DEF OverlapInv, Poller
      <4> QED
        BY <3>4, <3>10, <4>1, <4>2 DEF Poller
    <3>11. SharedByOverlap'
      <4>1. SUFFICES ASSUME NEW t \in Tasks, Poller(t)', key'[t] \in DOMAIN tokens'
                     PROVE  tokens'[key'[t]][1] = t[1] \/ {t[1], tokens'[key'[t]][1]} \in overlapped'
        BY DEF SharedByOverlap
      <4>2. CASE t = new
        BY <3>9, <4>2 DEF Owns
      <4>3. CASE t # new /\ key[t] = NextKey
        BY <2>0, <3>0, <3>4, <3>8, <3>10, <4>1, <4>3
      <4>4. CASE t # new /\ key[t] # NextKey
        <5>1. Poller(t) /\ key'[t] = key[t] /\ key[t] \in DOMAIN tokens /\ tokens'[key[t]] = tokens[key[t]]
          <6>1. Poller(t)
            BY <3>10, <4>1, <4>4
          <6>2. key'[t] = key[t]
            BY <3>8, <4>4
          <6>3. key[t] \in DOMAIN tokens
            BY <3>4, <4>1, <4>4, <6>2
          <6>4. tokens'[key[t]] = tokens[key[t]]
            BY <3>4, <4>4, <6>3
          <6> QED
            BY <6>1, <6>2, <6>3, <6>4
        <5> QED
          BY <2>0, <5>1 DEF OwnInv, SharedByOverlap
      <4> QED
        BY <4>2, <4>3, <4>4
    <3>12. OwnAlone'
      <4>1. SUFFICES ASSUME NEW t \in Tasks, Poller(t)', ~ Crowded(t[1]), key'[t] \in DOMAIN tokens' \/ Marked(t[1])'
                     PROVE  Owns(t)'
        BY <2>0 DEF OwnAlone, Crowded
      <4>2. CASE t = new
        BY <3>9, <4>2
      <4>3. CASE t # new
        <5>1. Poller(t) /\ (Marked(t[1])' <=> Marked(t[1]))
          <6>1. Poller(t) /\ t[1] \in Requests
            BY <3>8, <3>10, <4>1, <4>3
          <6>2. Marked(t[1])' <=> Marked(t[1])
            BY <3>5, <6>1 DEF Marked
          <6> QED
            BY <6>1, <6>2
        <5>2. key[t] = NextKey => Marked(t[1])
          <6>1. t[1] = r \/ Crowded(t[1])
            <7>1. {t[1], r} = {r, t[1]}
              OBVIOUS
            <7> QED
              BY <3>10, <4>1, <4>3, <7>1 DEF Crowded
          <6> QED
            BY <3>1, <4>1, <6>1
        <5>3. Owns(t)
          BY <3>4, <3>8, <4>1, <4>3, <5>1, <5>2 DEF OwnInv, OwnAlone
        <5>4. key[t] # NextKey
          BY <3>3, <5>3 DEF Owns
        <5> QED
          BY <3>4, <3>8, <4>3, <5>3, <5>4 DEF Owns
      <4> QED
        BY <4>2, <4>3
    <3> QED
      BY <3>7, <3>11, <3>12 DEF OwnInv
  <2>6. CASE Spawn(r)
    <3>1. UNCHANGED <<tokens, key>> /\ Marked(r)
      BY <2>6 DEF Spawn, sharedVars, Marked
    <3>2. pc'[r] # "spawn" /\ \A q \in Requests \ {r} : pc'[q] = pc[q] /\ snap'[q] = snap[q]
      BY <1>0, <2>6 DEF Spawn, EndOfRun
    <3>3. \A t \in Tasks : Poller(t)' => Poller(t)
      BY <1>0, <2>6, <3>2 DEF Spawn, Poller, Awaited, Keyed, Tasks
    <3>4. \A q \in Requests : Marked(q)' => Marked(q)
      BY <3>1, <3>2 DEF Marked
    <3> QED
      BY <2>0, <3>1, <3>3, <3>4, FewerPollers
  <2> QED
    BY <1>2, <2>1, <2>2, <2>3, <2>4, <2>5, <2>6 DEF HandlerAction, HandlerStep
<1>3. ASSUME NEW r \in Requests, WaiterStep(r) PROVE OwnInv'
  <2>1. UNCHANGED <<tokens, key, overlapped, pc, snap>>
    BY <1>3 DEF WaiterStep, WaiterQueue, WaiterJoin, WaiterEmpty, WaiterPublish, handlerVars, sharedVars, taskVars
  <2>2. \A t \in Tasks : tpc'[t] \in Keyed => tpc[t] \in Keyed
    BY <1>0, <1>3 DEF WaiterStep, WaiterQueue, WaiterJoin, WaiterEmpty, WaiterPublish, JoinOne, taskVars, Keyed
  <2> QED
    BY <2>1, <2>2, FewerPollers DEF Poller, Awaited, Marked
<1>4. ASSUME NEW t \in Tasks, TaskAction(t) PROVE OwnInv'
  <2>1. UNCHANGED <<pc, snap>>
    BY <1>0, <1>4, TaskFrame DEF handlerVars
  <2>0. UNCHANGED <<overlapped, key>>
    BY <1>4 DEF TaskAction, TaskStep, Answer, TaskStart, TaskBegin, TaskBegun, TaskPrepare, TaskCancelled,
                TaskCleanup, TaskFinish, TaskDrop, TaskPanic, TaskAnalyzed, TaskEnded, ClientAnswers,
                OtherVars, sharedVars
  <2>2. CASE TaskCleanup(t)
    <3>1. /\ tpc[t] = "cleanup" /\ tpc'[t] \notin Keyed
          /\ \A s \in Tasks \ {t} : tpc'[s] = tpc[s]
          /\ DOMAIN tokens' = DOMAIN tokens \ {key[t]}
          /\ \A k \in DOMAIN tokens' : tokens'[k] = tokens[k]
      BY <1>0, <2>2 DEF TaskCleanup, Step, Restrict, Keyed
    <3>2. Poller(t) /\ ~ Poller(t)'
      <4>1. ~ Awaited(t)
        BY <3>1, AwaitedIsNew
      <4> QED
        BY <2>1, <3>1, <4>1 DEF Poller, Awaited, Keyed
    <3>3. ASSUME NEW s \in Tasks, Poller(s)' PROVE s # t /\ Poller(s)
      BY <2>1, <3>1, <3>2, <3>3 DEF Poller, Awaited
    <3>4. KeysBounded'
      BY <3>1 DEF OwnInv, KeysBounded
    <3>5. SharedByOverlap'
      BY <2>0, <3>1, <3>3 DEF OwnInv, SharedByOverlap
    <3>6. ASSUME NEW s \in Tasks, Poller(s)', ~ Crowded(s[1])
          PROVE  /\ key[s] \in DOMAIN tokens' => Owns(s)'
                 /\ Marked(s[1]) => Owns(s)'
      <4>1. CASE key[s] # key[t]
        BY <2>0, <3>1, <3>3, <3>6, <4>1 DEF OwnInv, OwnAlone, Owns
      <4>2. CASE key[s] = key[t] /\ Marked(s[1])
        <5>1. Owns(s) /\ s # t
          BY <3>3, <3>6, <4>2 DEF OwnInv, OwnAlone
        <5>2. s[1] = t[1] \/ {t[1], s[1]} \in overlapped
          BY <3>2, <4>2, <5>1 DEF OwnInv, SharedByOverlap, Owns
        <5>3. t[1] \in Requests
          BY DEF Tasks
        <5>4. ~ Crowded(t[1])
          BY <3>6, <5>2, <5>3 DEF Crowded
        <5>5. Owns(t)
          BY <3>2, <4>2, <5>1, <5>4 DEF OwnInv, OwnAlone, Owns
        <5> QED
          BY <4>2, <5>1, <5>5 DEF Owns
      <4> QED
        BY <3>1, <4>1, <4>2
    <3>7. OwnAlone'
      BY <2>0, <2>1, <3>6 DEF OwnAlone, Crowded, Marked
    <3> QED
      BY <3>4, <3>5, <3>7 DEF OwnInv
  <2>3. CASE ~ TaskCleanup(t)
    <3>1. tokens' = tokens
      BY <1>4, <2>3 DEF TaskAction, TaskStep, Answer, TaskStart, TaskBegin, TaskBegun, TaskPrepare,
                        TaskCancelled, TaskFinish, TaskDrop, TaskPanic, TaskAnalyzed, TaskEnded,
                        ClientAnswers, OtherVars, sharedVars
    <3>2. \A s \in Tasks : tpc'[s] \in Keyed => tpc[s] \in Keyed
      BY <1>0, <1>4, <2>3 DEF TaskAction, TaskStep, Answer, TaskStart, TaskBegin, TaskBegun, TaskPrepare,
                        TaskCancelled, TaskFinish, TaskDrop, TaskPanic, TaskAnalyzed, TaskEnded,
                        ClientAnswers, Step, Keyed, Live
    <3> QED
      BY <2>0, <2>1, <3>1, <3>2, FewerPollers DEF Poller, Awaited, Marked
  <2> QED
    BY <2>2, <2>3
<1>5. CASE Save \/ UNCHANGED vars
  <2>1. UNCHANGED <<tokens, key, overlapped, pc, snap, tpc>>
    BY <1>5 DEF Save, vars, handlerVars, sharedVars, taskVars
  <2> QED
    BY <2>1, FewerPollers DEF Poller, Awaited, Marked
<1> QED
  BY <1>1, <1>2, <1>3, <1>4, <1>5 DEF Next, HandlerAction, TaskAction

\* The steps at which a task leaves its cleanup.
LEMMA CleanupLeft ==
  ASSUME TypeOK, [Next]_vars, NEW t \in Tasks, tpc[t] = "cleanup", tpc'[t] # "cleanup"
  PROVE  TaskCleanup(t) \/ tokens' = tokens
<1> USE DEF TypeOK, TaskTypeOK
<1>1. ASSUME NEW r \in Requests, NEW k \in Kinds, Arrive(r, k) PROVE tokens' = tokens
  BY <1>1 DEF Arrive, sharedVars
<1>2. ASSUME NEW r \in Requests, HandlerAction(r) PROVE tokens' = tokens
  BY <1>2 DEF HandlerAction, HandlerStep, AddTarget, Reset, Drain, AbortAll, Reap, Mark, RegisterToken, Spawn, Configure,
              CheckQueue, CheckJoin, CheckAnswer, CursorFlag, CursorStatus, CursorDecos, sharedVars, taskVars
<1>3. ASSUME NEW r \in Requests, WaiterStep(r) PROVE tokens' = tokens
  BY <1>3 DEF WaiterStep, WaiterQueue, WaiterJoin, WaiterEmpty, WaiterPublish, sharedVars
<1>4. ASSUME NEW s \in Tasks, TaskAction(s) PROVE TaskCleanup(t) \/ tokens' = tokens
  <2>1. CASE TaskCleanup(s)
    <3>1. s = t
      BY <2>1 DEF TaskCleanup, Step
    <3> QED
      BY <2>1, <3>1
  <2>2. CASE ~ TaskCleanup(s)
    BY <1>4, <2>2 DEF TaskAction, TaskStep, Answer, TaskBegin, TaskBegun, OtherVars, TaskStart, TaskPrepare, TaskCancelled, TaskFinish,
                      TaskDrop, TaskPanic, TaskAnalyzed, TaskEnded, ClientAnswers, sharedVars
  <2> QED
    BY <2>1, <2>2
<1>5. CASE Save \/ UNCHANGED vars
  BY <1>5 DEF Save, vars, sharedVars
<1> QED
  BY <1>1, <1>2, <1>3, <1>4, <1>5 DEF Next, HandlerAction, TaskAction

\* A task that ends removes its own token from the list; another's only if the handlers of the two
\* overlapped, or, for two of one run, its handler with another one: for any messages and targets, and
\* however many handlers are in flight.
THEOREM RemovesItsOwn == Spec => RemovesOwnToken
<1>1. Init => OwnInv
  <2> SUFFICES ASSUME Init PROVE OwnInv
    OBVIOUS
  <2> QED
    BY DEF Init, NoTokens, OwnInv, KeysBounded, SharedByOverlap, OwnAlone, Poller, Awaited, Keyed, Tasks
<1>2. TInv /\ Fresh /\ OverlapInv /\ OwnInv /\ [Next]_vars => OwnInv'
  BY OwnInvStep
<1> DEFINE Excused(t, u) ==
             u = t \/ {t[1], u[1]} \in overlapped \/ (t[1] = u[1] /\ Crowded(t[1]))
           Keeps == \A t \in Tasks : tpc[t] = "cleanup" /\ tpc'[t] # "cleanup" =>
                      \A k \in DOMAIN tokens \ DOMAIN tokens' : Excused(t, tokens[k])
<1>3. TInv /\ OwnInv /\ [Next]_vars => [Keeps]_vars
  <2> SUFFICES ASSUME TInv, OwnInv, [Next]_vars, NEW t \in Tasks, tpc[t] = "cleanup", tpc'[t] # "cleanup",
                      NEW k \in DOMAIN tokens \ DOMAIN tokens'
               PROVE  Excused(t, tokens[k])
    OBVIOUS
  <2>1. TaskCleanup(t)
    BY CleanupLeft DEF TInv
  <2>2. DOMAIN tokens' = DOMAIN tokens \ {key[t]}
    BY <2>1 DEF TaskCleanup, Restrict
  <2>3. k = key[t] /\ Poller(t)
    BY <2>2 DEF Poller, Keyed
  <2>4. tokens[k][1] = t[1] \/ {t[1], tokens[k][1]} \in overlapped
    BY <2>3 DEF OwnInv, SharedByOverlap
  <2>5. ~ Crowded(t[1]) => tokens[k] = t
    BY <2>3 DEF OwnInv, OwnAlone, Owns
  <2> QED
    BY <2>4, <2>5
<1>4. TInv => TypeOK
  BY DEF TInv
<1> QED
  BY <1>1, <1>2, <1>3, <1>4, FreshInit, FreshStep, OverlapInit, OverlapStep, TInvInit, TInvStep, PTL
  DEF Spec, RemovesOwnToken

=============================================================================
