------------------------------ MODULE Backend ------------------------------
(***************************************************************************)
(* The RustOwl language server (src/src/lsp/backend.rs): request handlers, *)
(* the JoinSet of analysis tasks they start and stop, the task every       *)
(* analysis leaves behind to publish the status, and the state they share. *)
(*                                                                         *)
(* A step is the code between two awaits that can really wait.  The locks  *)
(* of `status`, `analyzed`, `analyzers`, `process_tokens` and              *)
(* `work_done_progress` are never held across such an await, so a critical *)
(* section of theirs is one step.  The lock of `processes` is: its holder  *)
(* waits in `join_next` or `shutdown`.  tokio's RwLock serves its waiters  *)
(* in order, so that lock is a queue whose head is the holder.             *)
(***************************************************************************)
EXTENDS Naturals, Sequences, FiniteSets, Functions

CONSTANTS
  NumRequests,  \* bound: messages the client sends, in this order
  Targets,      \* the workspaces (or lone files) a client may name
  Fns,          \* the functions of a target, by fn_id
  Kinds,        \* the kinds of message the client sends
  MaxInFlight,  \* handlers tower-lsp polls at a time (external; its default is 4)
  MaxVersion    \* bound: versions of the sources written to disk

RequestKinds == {"initialize", "open", "analyze", "change", "shutdown", "check", "cursor"}

ASSUME BackendAssumption ==
  /\ NumRequests \in Nat
  /\ MaxInFlight \in Nat \ {0}
  /\ MaxVersion \in Nat \ {0}
  /\ Kinds \subseteq RequestKinds

Requests == 1 .. NumRequests
Tasks == Requests \X Targets         \* the task a request's run starts for a target
Handler(r) == <<"handler", r>>       \* the two kinds of user of the `processes` lock
Waiter(r) == <<"waiter", r>>

VARIABLES
  analyzers,   \* Seq(Targets): Backend.analyzers
  status,      \* Backend.status
  analyzed,    \* Backend.analyzed; the empty function stands for None
  tokens,      \* Backend.process_tokens: key -> task that polls the token
  wdp,         \* Backend.work_done_progress
  lock,        \* queue of Backend.processes' lock
  disk,        \* version of the sources on disk
  overlapped,  \* auxiliary: the pairs of requests that were in flight at one time
  pc, kind, todo, after, snap, reply,   \* per handler
  waiter,                               \* per run: the task spawned at the end of it
  tpc, aborted, cancelled, key, progress, built, emitted   \* per analysis task

sharedVars  == <<analyzers, status, analyzed, tokens, wdp, disk, overlapped>>
handlerVars == <<pc, kind, todo, after, snap, reply>>
taskVars    == <<tpc, aborted, cancelled, key, progress, built, emitted>>
vars == <<sharedVars, lock, handlerVars, waiter, taskVars>>

Live == {"spawned", "creating", "beginning", "preparing", "loop", "cleanup", "ending"}
JoinSet == {t \in Tasks : tpc[t] \in Live \cup {"finished"}}
Items == [fn : Fns, ver : 1 .. MaxVersion]
NoFiles == [f \in {} |-> << >>]
NoTokens == [k \in {} |-> k]
NoReply == [is_analyzed |-> FALSE, status |-> "none"]

Holds(a) == lock # << >> /\ Head(lock) = a
Goto(r, l) == pc' = [pc EXCEPT ![r] = l]
Report(r, s) == reply' = [reply EXCEPT ![r] = [is_analyzed |-> @.is_analyzed, status |-> s]]

Init ==
  /\ analyzers = << >> /\ status = "Finished" /\ analyzed = NoFiles
  /\ tokens = NoTokens /\ wdp = FALSE /\ lock = << >> /\ disk = 1 /\ overlapped = {}
  /\ pc = [r \in Requests |-> "unused"] /\ kind = [r \in Requests |-> "none"]
  /\ todo = [r \in Requests |-> {}] /\ after = [r \in Requests |-> "done"]
  /\ snap = [r \in Requests |-> << >>] /\ reply = [r \in Requests |-> NoReply]
  /\ waiter = [r \in Requests |-> "none"]
  /\ tpc = [t \in Tasks |-> "none"] /\ aborted = {} /\ cancelled = {}
  /\ key = [t \in Tasks |-> 0] /\ progress = [t \in Tasks |-> "none"]
  /\ built = [t \in Tasks |-> 0] /\ emitted = [t \in Tasks |-> {}]

-----------------------------------------------------------------------------
(* The client, and what tower-lsp lets through: `initialize` first and     *)
(* alone, nothing after `shutdown`.  `check` is the command line's use of  *)
(* a Backend of its own.  A workspace-folder change runs the body of       *)
(* `open` once per folder.                                                 *)

Used(k) == \E q \in Requests : kind[q] = k
InFlight == {q \in Requests : pc[q] \notin {"unused", "done"}}
MayArrive(k) ==
  IF k \in {"initialize", "check"} THEN \A q \in Requests : pc[q] = "unused"
  ELSE /\ \E q \in Requests : kind[q] = "initialize" /\ pc[q] = "done"
       /\ ~Used("shutdown")
       /\ Cardinality(InFlight) < MaxInFlight

FirstStep(k, ts) ==
  CASE k \in {"initialize", "open", "check"} -> IF ts = {} THEN "drain" ELSE "add"
    [] k \in {"analyze", "shutdown"} -> "drain"
    [] k = "change" -> "reset"
    [] k = "cursor" -> "flag"

TargetsOf(k) ==
  IF k = "initialize" THEN SUBSET Targets
  ELSE IF k \in {"open", "check", "cursor"} THEN {{t} : t \in Targets} ELSE {{}}

Arrive(r, k) ==
  /\ pc[r] = "unused" /\ MayArrive(k)
  /\ \A q \in Requests : q < r => pc[q] # "unused"
  /\ kind' = [kind EXCEPT ![r] = k]
  /\ \E ts \in TargetsOf(k) :
       /\ todo' = [todo EXCEPT ![r] = ts]
       /\ Goto(r, FirstStep(k, ts))
  /\ after' = [after EXCEPT ![r] = IF k = "check" THEN "mark"
                                  ELSE IF k \in {"change", "shutdown"} THEN "done" ELSE "sleep"]
  /\ overlapped' = overlapped \cup {{q, r} : q \in InFlight}
  /\ UNCHANGED <<analyzers, status, analyzed, tokens, wdp, disk, lock, snap, reply, waiter, taskVars>>

(* The user saves: the sources on disk change (rustc reads them there).  An *)
(* editor notifies the change of a buffer before it is saved.              *)
Save ==
  /\ disk < MaxVersion /\ disk' = disk + 1
  /\ disk <= Cardinality({q \in Requests : kind[q] = "change"})
  /\ UNCHANGED <<analyzers, status, analyzed, tokens, wdp, overlapped, lock, handlerVars, waiter, taskVars>>

-----------------------------------------------------------------------------
(* Handlers.                                                               *)

(* add_analyze_target: `cargo metadata` may fail; a known target is not    *)
(* added again but counts as added.                                        *)
AddTarget(r) ==
  /\ pc[r] = "add"
  /\ \E t \in todo[r], ok \in BOOLEAN :
       /\ analyzers' = IF ok /\ t \notin Range(analyzers) THEN Append(analyzers, t) ELSE analyzers
       /\ todo' = [todo EXCEPT ![r] = @ \ {t}]
       /\ IF todo[r] # {t} THEN UNCHANGED pc
          ELSE Goto(r, IF ok \/ kind[r] = "initialize" THEN "drain" ELSE "done")
       /\ IF ok \/ kind[r] # "check" THEN UNCHANGED reply ELSE Report(r, "failure")
  /\ UNCHANGED <<status, analyzed, tokens, wdp, disk, overlapped, lock, kind, after, snap, waiter, taskVars>>

(* did_change forgets the analyzed program, then stops the analysis.       *)
Reset(r) ==
  /\ pc[r] = "reset"
  /\ analyzed' = NoFiles
  /\ Goto(r, "drain")
  /\ UNCHANGED <<analyzers, status, tokens, wdp, disk, overlapped, lock, kind, todo, after, snap,
                 reply, waiter, taskVars>>

(* shutdown_subprocesses: cancel every registered token and ask for the    *)
(* lock; once granted abort all tasks of the JoinSet; leave when all have  *)
(* finished.  The 100ms sleep of analyze_with_options is the time a        *)
(* handler may spend before its second "drain".                            *)
Cancelled_DropTokens == cancelled     \* mutant: the tokens are removed, not cancelled
Cancelled == cancelled \cup Range(tokens)
Drain(r) ==
  /\ pc[r] = "drain"
  /\ cancelled' = Cancelled
  /\ tokens' = NoTokens
  /\ lock' = Append(lock, Handler(r))
  /\ Goto(r, "abort")
  /\ UNCHANGED <<analyzers, status, analyzed, wdp, disk, overlapped, kind, todo, after, snap, reply,
                 waiter, tpc, aborted, key, progress, built, emitted>>

Victims_Cancelled == JoinSet \cap cancelled     \* mutant: only tasks found by their token
Victims == JoinSet
AbortAll(r) ==
  /\ pc[r] = "abort" /\ Holds(Handler(r))
  /\ aborted' = aborted \cup Victims
  /\ Goto(r, "reap")
  /\ UNCHANGED <<sharedVars, lock, kind, todo, after, snap, reply, waiter,
                 tpc, cancelled, key, progress, built, emitted>>

AllFinished_AbortOnly == TRUE     \* mutant: abort_all() in place of shutdown()
AllFinished == \A t \in JoinSet : tpc[t] = "finished"
Reap(r) ==
  /\ pc[r] = "reap" /\ AllFinished
  /\ tpc' = [t \in Tasks |-> IF tpc[t] = "finished" THEN "reaped" ELSE tpc[t]]
  /\ lock' = Tail(lock)
  /\ Goto(r, IF after[r] = "sleep" THEN "drain" ELSE after[r])
  /\ after' = [after EXCEPT ![r] = IF @ = "sleep" THEN "mark" ELSE @]
  /\ UNCHANGED <<sharedVars, kind, todo, snap, reply, waiter,
                 aborted, cancelled, key, progress, built, emitted>>

(* The end of analyze_with_options: spawn the waiting task and return.     *)
EndOfRun_NotIfIdle(r) ==     \* mutant: no waiting task when nothing was started
  /\ waiter' = IF analyzers = << >> THEN waiter ELSE [waiter EXCEPT ![r] = "start"]
  /\ Goto(r, CASE kind[r] = "initialize" -> "configure"
               [] kind[r] = "check" -> "join"
               [] OTHER -> "done")
EndOfRun(r) ==
  /\ waiter' = [waiter EXCEPT ![r] = "start"]
  /\ Goto(r, CASE kind[r] = "initialize" -> "configure"
               [] kind[r] = "check" -> "join"
               [] OTHER -> "done")

Mark(r) ==
  /\ pc[r] = "mark"
  /\ status' = "Analyzing"
  /\ snap' = [snap EXCEPT ![r] = analyzers]
  /\ IF analyzers = << >> THEN EndOfRun(r) ELSE Goto(r, "token") /\ UNCHANGED waiter
  /\ UNCHANGED <<analyzers, analyzed, tokens, wdp, disk, overlapped, lock, kind, todo, after, reply,
                 taskVars>>

LastKey == {k \in DOMAIN tokens : \A j \in DOMAIN tokens : j <= k}
NextKey == IF LastKey = {} THEN 1 ELSE (CHOOSE k \in LastKey : TRUE) + 1

RegisterToken(r) ==
  /\ pc[r] = "token"
  /\ LET t == <<r, Head(snap[r])>> IN
       /\ tokens' = [k \in DOMAIN tokens \cup {NextKey} |-> IF k = NextKey THEN t ELSE tokens[k]]
       /\ key' = [key EXCEPT ![t] = NextKey]
  /\ lock' = Append(lock, Handler(r))
  /\ Goto(r, "spawn")
  /\ UNCHANGED <<analyzers, status, analyzed, wdp, disk, overlapped, kind, todo, after, snap, reply,
                 waiter, tpc, aborted, cancelled, progress, built, emitted>>

Spawn(r) ==
  /\ pc[r] = "spawn" /\ Holds(Handler(r))
  /\ tpc' = [tpc EXCEPT ![<<r, Head(snap[r])>>] = "spawned"]
  /\ lock' = Tail(lock)
  /\ snap' = [snap EXCEPT ![r] = Tail(@)]
  /\ IF Len(snap[r]) = 1 THEN EndOfRun(r) ELSE Goto(r, "token") /\ UNCHANGED waiter
  /\ UNCHANGED <<sharedVars, kind, todo, after, reply,
                 aborted, cancelled, key, progress, built, emitted>>

(* initialize turns progress reports on only after it started the run.     *)
Configure(r) ==
  /\ pc[r] = "configure"
  /\ wdp' \in {wdp, TRUE}
  /\ Goto(r, "done")
  /\ UNCHANGED <<analyzers, status, analyzed, tokens, disk, overlapped, lock, kind, todo, after, snap,
                 reply, waiter, taskVars>>

(* One turn of `while processes.write().await.join_next().await.is_some()`:*)
(* the lock is held until some task has finished, then asked for again.    *)
JoinOne(a) ==
  /\ Holds(a)
  /\ \E t \in JoinSet : tpc[t] = "finished" /\ tpc' = [tpc EXCEPT ![t] = "reaped"]
  /\ lock' = Append(Tail(lock), a)

CheckQueue(r) ==
  /\ pc[r] = "join"
  /\ lock' = Append(lock, Handler(r))
  /\ Goto(r, "joining")
  /\ UNCHANGED <<sharedVars, kind, todo, after, snap, reply, waiter, taskVars>>

CheckJoin(r) ==
  /\ pc[r] = "joining" /\ JoinOne(Handler(r))
  /\ UNCHANGED <<sharedVars, handlerVars, waiter, aborted, cancelled, key, progress, built, emitted>>

AllJoined_Try == \A t \in JoinSet : tpc[t] # "finished"     \* mutant: try_join_next
AllJoined == JoinSet = {}
CheckAnswer(r) ==
  /\ pc[r] = "joining" /\ Holds(Handler(r)) /\ AllJoined
  /\ lock' = Tail(lock)
  /\ Report(r, IF analyzed = NoFiles THEN "failure" ELSE "success")
  /\ Goto(r, "done")
  /\ UNCHANGED <<sharedVars, kind, todo, after, snap, waiter, taskVars>>

(* cursor reads `analyzed`, `status` and, in decos, `analyzed` again, each *)
(* under a lock of its own.                                                *)
CursorFlag(r) ==
  /\ pc[r] = "flag"
  /\ reply' = [reply EXCEPT ![r] = [is_analyzed |-> analyzed # NoFiles, status |-> "none"]]
  /\ Goto(r, "status")
  /\ UNCHANGED <<sharedVars, lock, kind, todo, after, snap, waiter, taskVars>>

CursorStatus(r) ==
  /\ pc[r] = "status"
  /\ Report(r, status)
  /\ \E l \in {"decos", "done"} : Goto(r, l)     \* "done": the file cannot be read
  /\ UNCHANGED <<sharedVars, lock, kind, todo, after, snap, waiter, taskVars>>

HasItems(f) == f \in DOMAIN analyzed /\ analyzed[f] # << >>
DecosStatus_Kept(r, f, found) == reply[r].status     \* mutant: the error of decos is ignored
DecosStatus(r, f, found) ==
  IF found \/ reply[r].status # "Finished" THEN reply[r].status
  ELSE IF HasItems(f) THEN "Finished" ELSE "Error"

CursorDecos(r) ==
  /\ pc[r] = "decos"
  /\ \E f \in todo[r], found \in BOOLEAN :
       /\ found => HasItems(f)
       /\ Report(r, DecosStatus(r, f, found))
  /\ Goto(r, "done")
  /\ UNCHANGED <<sharedVars, lock, kind, todo, after, snap, waiter, taskVars>>

-----------------------------------------------------------------------------
(* The task spawned at the end of a run: joins, then publishes a status.   *)

WaiterQueue(r) ==
  /\ waiter[r] = "start"
  /\ lock' = Append(lock, Waiter(r))
  /\ waiter' = [waiter EXCEPT ![r] = "queued"]
  /\ UNCHANGED <<sharedVars, handlerVars, taskVars>>

WaiterJoin(r) ==
  /\ waiter[r] = "queued" /\ JoinOne(Waiter(r))
  /\ UNCHANGED <<sharedVars, handlerVars, waiter, aborted, cancelled, key, progress, built, emitted>>

WaiterEmpty(r) ==
  /\ waiter[r] = "queued" /\ Holds(Waiter(r)) /\ AllJoined
  /\ lock' = Tail(lock)
  /\ waiter' = [waiter EXCEPT ![r] = "publish"]
  /\ UNCHANGED <<sharedVars, handlerVars, taskVars>>

Published_NoneKeeps == IF analyzed = NoFiles THEN status ELSE "Finished"     \* mutant
Published == IF status = "Error" \/ analyzed = NoFiles THEN "Error" ELSE "Finished"
WaiterPublish(r) ==
  /\ waiter[r] = "publish"
  /\ status' = Published
  /\ waiter' = [waiter EXCEPT ![r] = "done"]
  /\ UNCHANGED <<analyzers, analyzed, tokens, wdp, disk, overlapped, lock, handlerVars, taskVars>>

-----------------------------------------------------------------------------
(* Analysis tasks.  An aborted task is dropped at its next await, or, if a *)
(* worker thread is just polling it, takes a few more steps first.         *)

Step(t, from, to) == tpc[t] = from /\ tpc' = [tpc EXCEPT ![t] = to]
OtherVars == UNCHANGED <<sharedVars, lock, handlerVars, waiter, aborted, cancelled, key, built, emitted>>

(* A ProgressToken exists from the return of `begin` ("held") until `finish`*)
(* takes its content ("taken"); only in between does dropping it report the *)
(* end.  Before, the Begin may be on its way ("begun").                     *)
DropProgress_NoDrop(t) == UNCHANGED progress     \* mutant: no Drop for ProgressToken
DropProgress(t) ==
  progress' = IF progress[t] = "held" THEN [progress EXCEPT ![t] = "ended"] ELSE progress

TaskStart(t) ==
  /\ Step(t, "spawned", IF wdp THEN "creating" ELSE "preparing")
  /\ UNCHANGED progress /\ OtherVars

(* ProgressToken::begin: the client answers workDoneProgress/create, Begin *)
(* is put on the channel to the client, and the send returns.              *)
ClientAnswers(t) ==
  /\ Step(t, "creating", "beginning")
  /\ UNCHANGED progress /\ OtherVars

TaskBegin(t) ==
  /\ tpc[t] = "beginning" /\ progress[t] = "none"
  /\ progress' = [progress EXCEPT ![t] = "begun"]
  /\ UNCHANGED tpc /\ OtherVars

TaskBegun(t) ==
  /\ progress[t] = "begun" /\ Step(t, "beginning", "preparing")
  /\ progress' = [progress EXCEPT ![t] = "held"]
  /\ OtherVars

(* Analyzer::analyze: clean, then start cargo, which reads the sources.    *)
TaskPrepare(t) ==
  /\ Step(t, "preparing", "loop")
  /\ built' = [built EXCEPT ![t] = disk]
  /\ UNCHANGED <<sharedVars, lock, handlerVars, waiter, aborted, cancelled, key, progress, emitted>>

(* A child that cannot be started: `spawn().unwrap()` panics in the task.  *)
TaskPanic(t) ==
  /\ Step(t, "preparing", "finished")
  /\ DropProgress(t) /\ OtherVars

(* Crate::merge of the one function an Analyzed event carries: extend, then*)
(* dedup_by, which keeps the older of two adjacent items of one fn_id.     *)
Merge(items, x) ==
  IF items # << >> /\ items[Len(items)].fn = x.fn THEN items ELSE Append(items, x)

(* select!: an event, or the end of the events, or a cancelled token, in   *)
(* any order.  (CrateChecked only reports a percentage.)                   *)
TaskAnalyzed(t) ==
  /\ tpc[t] = "loop"
  /\ \E f \in Fns \ emitted[t] :
       LET x == [fn |-> f, ver |-> built[t]]
           file == t[2]
       IN /\ emitted' = [emitted EXCEPT ![t] = @ \cup {f}]
          /\ analyzed' = [g \in DOMAIN analyzed \cup {file} |->
                            IF g # file THEN analyzed[g]
                            ELSE IF file \in DOMAIN analyzed THEN Merge(analyzed[file], x) ELSE <<x>>]
  /\ UNCHANGED <<analyzers, status, tokens, wdp, disk, overlapped, lock, handlerVars, waiter,
                 tpc, aborted, cancelled, key, progress, built>>

TaskCancelled(t) ==
  /\ t \in cancelled /\ Step(t, "loop", "cleanup")
  /\ UNCHANGED progress /\ OtherVars

TaskEnded(t) ==
  /\ Step(t, "loop", "cleanup")
  /\ UNCHANGED progress /\ OtherVars

(* Whatever token is registered under the task's key is removed; `finish`  *)
(* takes the content of the ProgressToken before it sends the end.         *)
TaskCleanup(t) ==
  /\ Step(t, "cleanup", IF progress[t] = "held" THEN "ending" ELSE "finished")
  /\ progress' = IF progress[t] = "held" THEN [progress EXCEPT ![t] = "taken"] ELSE progress
  /\ tokens' = Restrict(tokens, DOMAIN tokens \ {key[t]})
  /\ UNCHANGED <<analyzers, status, analyzed, wdp, disk, overlapped, lock, handlerVars, waiter,
                 aborted, cancelled, key, built, emitted>>

TaskFinish(t) ==
  /\ Step(t, "ending", "finished")
  /\ progress' = [progress EXCEPT ![t] = "ended"]
  /\ OtherVars

(* An aborted task is dropped, and its ProgressToken with it.              *)
TaskDrop(t) ==
  /\ t \in aborted /\ tpc[t] \in Live
  /\ tpc' = [tpc EXCEPT ![t] = "finished"]
  /\ DropProgress(t) /\ OtherVars

-----------------------------------------------------------------------------
(* The steps of a handler that need no answer from cargo.                  *)
HandlerStep(r) ==
  \/ Reset(r) \/ Drain(r) \/ AbortAll(r) \/ Reap(r)
  \/ Mark(r) \/ RegisterToken(r) \/ Spawn(r) \/ Configure(r)
  \/ CheckQueue(r) \/ CheckJoin(r) \/ CheckAnswer(r)
  \/ CursorFlag(r) \/ CursorStatus(r) \/ CursorDecos(r)

WaiterStep(r) == WaiterQueue(r) \/ WaiterJoin(r) \/ WaiterEmpty(r) \/ WaiterPublish(r)

(* The steps of a task that need no answer from the client or from cargo.  *)
TaskStep(t) ==
  \/ TaskStart(t) \/ TaskBegin(t) \/ TaskBegun(t)
  \/ TaskCancelled(t) \/ TaskCleanup(t) \/ TaskFinish(t) \/ TaskDrop(t)

(* Answers from outside: cargo's and the client's.  None has to come.      *)
Answer(t) == ClientAnswers(t) \/ TaskPrepare(t) \/ TaskPanic(t) \/ TaskAnalyzed(t) \/ TaskEnded(t)

Next ==
  \/ \E r \in Requests :
       (\E k \in Kinds : Arrive(r, k)) \/ AddTarget(r) \/ HandlerStep(r) \/ WaiterStep(r)
  \/ \E t \in Tasks : TaskStep(t) \/ Answer(t)
  \/ Save

Spec == Init /\ [][Next]_vars

(* tokio polls what is ready, and the client reads what it is sent.        *)
ServerFairness ==
  /\ \A r \in Requests : WF_vars(HandlerStep(r)) /\ WF_vars(WaiterStep(r))
  /\ \A t \in Tasks : WF_vars(TaskStep(t))
FairSpec == Spec /\ ServerFairness

-----------------------------------------------------------------------------
(* Properties.                                                             *)

Locations == {"unused", "add", "reset", "drain", "abort", "reap", "mark", "token", "spawn",
              "configure", "join", "joining", "flag", "status", "decos", "done"}
Statuses == {"Analyzing", "Finished", "Error"}
Replies == [is_analyzed : BOOLEAN, status : Statuses \cup {"none", "success", "failure"}]
Users == {Handler(r) : r \in Requests} \cup {Waiter(r) : r \in Requests}

SharedTypeOK ==
  /\ analyzers \in Seq(Targets) /\ status \in Statuses
  /\ DOMAIN analyzed \subseteq Targets /\ \A f \in DOMAIN analyzed : analyzed[f] \in Seq(Items)
  /\ DOMAIN tokens \subseteq Nat \ {0} /\ \A k \in DOMAIN tokens : tokens[k] \in Tasks
  /\ wdp \in BOOLEAN /\ disk \in 1 .. MaxVersion /\ lock \in Seq(Users)
  /\ overlapped \subseteq SUBSET Requests
HandlerTypeOK ==
  /\ pc \in [Requests -> Locations] /\ kind \in [Requests -> RequestKinds \cup {"none"}]
  /\ todo \in [Requests -> SUBSET Targets] /\ after \in [Requests -> {"sleep", "mark", "done"}]
  /\ snap \in [Requests -> Seq(Targets)]
  /\ reply \in [Requests -> Replies]
  /\ waiter \in [Requests -> {"none", "start", "queued", "publish", "done"}]
TaskTypeOK ==
  /\ tpc \in [Tasks -> Live \cup {"none", "finished", "reaped"}]
  /\ aborted \subseteq Tasks /\ cancelled \subseteq Tasks /\ key \in [Tasks -> Nat]
  /\ progress \in [Tasks -> {"none", "begun", "held", "taken", "ended"}]
  /\ built \in [Tasks -> 0 .. MaxVersion] /\ emitted \in [Tasks -> SUBSET Fns]

\* Type correctness of the server's state; keys of process_tokens start at 1.
TypeOK == SharedTypeOK /\ HandlerTypeOK /\ TaskTypeOK

\* The runs between their mark and the end of their waiting task: the ones
\* that owe the client a status other than Analyzing.
Marked(r) == pc[r] \in {"token", "spawn"}
Pending == {r \in Requests : Marked(r) \/ waiter[r] \in {"start", "queued", "publish"}}

\* The status says Analyzing only while some run still owes a status: no
\* interleaving of handlers, stops and waiting tasks leaves it there for ever
\* (backend.rs 77, 152-166).
AnalysisWatched == status = "Analyzing" => Pending # {}

\* A task in the JoinSet is always owned: a handler is about to start its
\* waiting task, a waiting task will join it, or a handler is stopping it.
TasksWatched ==
  JoinSet # {} => \E r \in Requests : Marked(r) \/ pc[r] = "reap" \/ waiter[r] \in {"start", "queued"}

\* While shutdown_subprocesses waits, every task it waits for was aborted: no
\* other handler slips a new task into the JoinSet it drains (280-288, 101).
ShutdownCovers == \A r \in Requests : pc[r] = "reap" => JoinSet \subseteq aborted

\* Handlers that are in flight at one time may pass the stops of one another;
\* what holds of the others holds for any number of handlers in flight.
Crowded(r) == \E q \in Requests : {q, r} \in overlapped

\* A target is analyzed by two live tasks at a time (two cargo processes
\* cleaning and checking one target directory) only if the handlers that
\* started them were in flight together: whatever a run finds in the JoinSet
\* from an earlier handler is gone before the run starts its own (75, 101).
OneAnalysisPerTarget ==
  \A s, t \in Tasks : tpc[s] \in Live /\ tpc[t] \in Live /\ s[2] = t[2] =>
    s = t \/ {s[1], t[1]} \in overlapped

\* A progress is left open by a task that is gone only if the task was aborted
\* while it was sending the begin or the end: whoever holds a ProgressToken
\* when it ends, panics or is aborted has its end reported (progress.rs 36-46,
\* 66-99).
ProgressClosed ==
  \A t \in Tasks : tpc[t] \in {"finished", "reaped"} =>
    /\ progress[t] # "held"
    /\ progress[t] \in {"begun", "taken"} => t \in aborted

\* `check` answers success or failure of an analysis only when every task it
\* started has ended, whoever joined it (267).
CheckAnswersAtEnd ==
  \A r \in Requests : kind[r] = "check" /\ pc[r] = "done" =>
    \A t \in Tasks : tpc[t] \in {"none", "reaped"}

\* cursor says Finished, having looked for decorations, only if the program it
\* looked at holds items of the file, however the analysis moved between
\* its three reads (174-180, 223-233).
CursorHonest ==
  [][\A r \in Requests : pc[r] = "decos" /\ pc'[r] = "done" /\ reply'[r].status = "Finished" =>
       \A f \in todo[r] : HasItems(f)]_vars

\* "remove cancellation token from list" (143): a task that ends removes the
\* token it polls.  It removes another task's only if handlers overlapped: that
\* task's and its own, or, for a task of its own run, another one and theirs.
RemovesOwnToken ==
  [][\A t \in Tasks : tpc[t] = "cleanup" /\ tpc'[t] # "cleanup" =>
       \A k \in DOMAIN tokens \ DOMAIN tokens' :
         LET u == tokens[k] IN
           u = t \/ {t[1], u[1]} \in overlapped \/ (t[1] = u[1] /\ Crowded(t[1]))]_vars

\* A task that waits for an answer from the client or from cargo, and would
\* not notice or was not told that it is to stop; nothing else can end it.
Outwaits(t) == tpc[t] \in {"creating", "preparing"} \/ (tpc[t] = "loop" /\ t \notin cancelled)
Hung == JoinSet # {} /\ \A t \in JoinSet : Outwaits(t)

\* A message stays unanswered only while cargo or the client owe an answer:
\* `cargo metadata` of the message itself, or every task that is left.  A
\* running build is no such excuse, a stop cancels it, unless the message
\* started it, or handlers overlapped and its token was lost to the stop.
RequestsComplete ==
  \A r \in Requests : <>[](pc[r] \notin {"unused", "done"}) =>
    <>[](pc[r] = "add" \/
         (Hung /\ \A t \in JoinSet : tpc[t] = "loop" => t[1] = r \/ Crowded(t[1])))

\* The status stays at Analyzing only if all the tasks that are left hang: it
\* is left again once builds end, however runs, stops and waiting tasks overlap.
StatusSettles == <>[](status = "Analyzing") => <>[]Hung

\* README: "When you save Rust source code, it is analyzed, and the ownership
\* and lifetimes of variables are visualized".  Once the saved sources were
\* analyzed to the end and the status is Finished, nothing older is shown.
Quiet == InFlight = {} /\ JoinSet = {} /\ Pending = {}
FreshAfterSave ==
  Quiet /\ status = "Finished" =>
    \A t \in Tasks : built[t] = disk /\ emitted[t] # {} /\ t \notin aborted =>
      \A f \in DOMAIN analyzed : \A i \in 1 .. Len(analyzed[f]) : analyzed[f][i].ver = disk

\* What the client may assume of the status (module StatusBoard).
Board == INSTANCE StatusBoard WITH Runs <- Requests, pending <- Pending
StatusBoardSpec == Board!Spec
=============================================================================
