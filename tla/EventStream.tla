---------------------------- MODULE EventStream ----------------------------
(***************************************************************************)
(* How the events of one analysis reach the task that merges them          *)
(* (src/src/lsp/analyze.rs): a reader task parses the lines the child      *)
(* prints and sends events over a bounded channel; the analysis task polls *)
(* AnalyzeEventIter, a select of the channel and of a Notify that says the *)
(* output closed.  Module Backend takes all of this for its TaskAnalyzed   *)
(* and TaskEnded.                                                          *)
(*                                                                         *)
(* The reader and the analysis task run on different worker threads, so a  *)
(* step of the iterator is one branch of its select polled, not the select.*)
(***************************************************************************)
EXTENDS Naturals, Sequences

CONSTANTS
  Capacity,   \* of the channel (1024)
  MaxLines    \* bound: lines the child prints

ASSUME StreamAssumption == Capacity \in Nat \ {0} /\ MaxLines \in Nat

VARIABLES
  printed,    \* lines the child printed
  child,      \* "running", "killed" (SIGKILL sent), "exited" (its output is closed)
  pos,        \* lines the reader has read
  reader,     \* "read", "send", "notified", "gone" (its Sender is dropped)
  hand,       \* the event the reader is sending, if any
  channel,
  permit,     \* of the Notify
  iter,       \* "poll", "between" its two branches, "parked", "ended" (None), "dropped"
  cancelled,  \* the CancellationToken of the task
  delivered,  \* events the task got
  read,       \* auxiliary: events the reader parsed
  failed      \* auxiliary: the reader met an output it could not read

childVars == <<printed, child>>
readerVars == <<pos, reader, hand, read, failed>>
iterVars == <<iter, delivered>>
vars == <<childVars, readerVars, channel, permit, iterVars, cancelled>>

Init ==
  /\ printed = 0 /\ child = "running"
  /\ pos = 0 /\ reader = "read" /\ hand = << >> /\ read = << >> /\ failed = FALSE
  /\ channel = << >> /\ permit = FALSE
  /\ iter = "poll" /\ delivered = << >> /\ cancelled = FALSE

-----------------------------------------------------------------------------
(* The child: cargo or rustowlc.                                           *)

PrintLine ==
  /\ child = "running" /\ printed < MaxLines
  /\ printed' = printed + 1
  /\ UNCHANGED <<child, readerVars, channel, permit, iterVars, cancelled>>

Exit ==
  /\ child # "exited" /\ child' = "exited"
  /\ UNCHANGED <<printed, readerVars, channel, permit, iterVars, cancelled>>

-----------------------------------------------------------------------------
(* The reader task.                                                        *)

(* A line is an artifact message or a Workspace, or is ignored.            *)
ReadLine ==
  /\ reader = "read" /\ pos < printed
  /\ pos' = pos + 1
  /\ \/ /\ hand' = <<pos + 1>> /\ read' = Append(read, pos + 1) /\ reader' = "send"
     \/ UNCHANGED <<hand, read, reader>>
  /\ UNCHANGED <<failed, childVars, channel, permit, iterVars, cancelled>>

Room == Len(channel) < Capacity
MaySend_Try == TRUE     \* mutant: try_send, its error ignored
MaySend == Room
Send ==
  /\ reader = "send" /\ iter # "dropped" /\ MaySend
  /\ channel' = IF Room THEN channel \o hand ELSE channel
  /\ reader' = "read" /\ hand' = << >>
  /\ UNCHANGED <<childVars, pos, read, failed, permit, iterVars, cancelled>>

(* Nobody receives any more: the error is ignored.                         *)
SendError ==
  /\ reader = "send" /\ iter = "dropped"
  /\ reader' = "read" /\ hand' = << >>
  /\ UNCHANGED <<childVars, pos, read, failed, channel, permit, iterVars, cancelled>>

AtEnd_Idle == pos = printed     \* mutant: no line yet is taken for the end
AtEnd == child = "exited" /\ pos = printed
Notify ==
  /\ reader = "read"
  /\ permit' = TRUE
  /\ reader' = "notified"
  /\ UNCHANGED <<childVars, pos, hand, read, channel, iterVars, cancelled>>
NotifyEnd == AtEnd /\ Notify /\ UNCHANGED failed

(* `while let Ok(Some(line))` ends at an error too: a line that is not      *)
(* UTF-8, or a failed read, whatever the child prints after it.            *)
ReadFails == Notify /\ failed' = TRUE

DropSender ==
  /\ reader = "notified" /\ reader' = "gone"
  /\ UNCHANGED <<childVars, pos, hand, read, failed, channel, permit, iterVars, cancelled>>

-----------------------------------------------------------------------------
(* The analysis task: `select! { biased; recv, notified }` within a select *)
(* with the cancellation token.                                            *)

PollRecv ==
  /\ iter = "poll"
  /\ \/ /\ channel # << >>
        /\ delivered' = Append(delivered, Head(channel))
        /\ channel' = Tail(channel)
        /\ UNCHANGED iter
     \/ /\ channel = << >>
        /\ iter' = IF reader = "gone" THEN "ended" ELSE "between"
        /\ UNCHANGED <<channel, delivered>>
  /\ UNCHANGED <<childVars, readerVars, permit, cancelled>>

PollNotified ==
  /\ iter = "between"
  /\ iter' = IF permit THEN "ended" ELSE "parked"
  /\ permit' = FALSE
  /\ UNCHANGED <<childVars, readerVars, channel, delivered, cancelled>>

Woken_RecvOnly == channel # << >>     \* mutant: only an event wakes the task
Woken == channel # << >> \/ reader = "gone" \/ permit
Wake ==
  /\ iter = "parked" /\ Woken
  /\ iter' = "poll"
  /\ UNCHANGED <<childVars, readerVars, channel, permit, delivered, cancelled>>

Polling == {"poll", "between", "parked"}

Cancel ==
  /\ iter \in Polling /\ ~cancelled /\ cancelled' = TRUE
  /\ UNCHANGED <<childVars, readerVars, channel, permit, iterVars>>

StopOnCancel ==
  /\ cancelled /\ iter \in Polling
  /\ iter' = "ended"
  /\ UNCHANGED <<childVars, readerVars, channel, permit, delivered, cancelled>>

(* The task ends, or is aborted while it waits: the iterator is dropped,   *)
(* and with it the receiver and the child (kill_on_drop).                  *)
Kill_Not == child     \* mutant: without kill_on_drop
Kill == IF child = "running" THEN "killed" ELSE child
DropIter ==
  /\ iter \in {"parked", "ended"}
  /\ iter' = "dropped"
  /\ channel' = << >>
  /\ child' = Kill
  /\ UNCHANGED <<printed, readerVars, permit, delivered, cancelled>>

-----------------------------------------------------------------------------
ReaderStep == ReadLine \/ Send \/ SendError \/ NotifyEnd \/ DropSender
IterStep == PollRecv \/ PollNotified \/ Wake \/ StopOnCancel

Next == PrintLine \/ Exit \/ ReaderStep \/ ReadFails \/ IterStep \/ Cancel \/ DropIter

Spec == Init /\ [][Next]_vars

(* tokio polls what is ready, a killed child dies, an ended task is done.  *)
(* Nothing is assumed of a child that was not killed, nor of ReadFails.    *)
FairSpec ==
  /\ Spec
  /\ WF_vars(ReaderStep) /\ WF_vars(IterStep)
  /\ WF_vars(child = "killed" /\ Exit)
  /\ WF_vars(iter = "ended" /\ DropIter)

-----------------------------------------------------------------------------
(* Properties.                                                             *)

Events == 1 .. MaxLines

\* Type correctness; the channel never exceeds its capacity.
TypeOK ==
  /\ printed \in 0 .. MaxLines /\ child \in {"running", "killed", "exited"}
  /\ pos \in 0 .. printed /\ reader \in {"read", "send", "notified", "gone"}
  /\ IF reader = "send" THEN \E e \in Events : hand = <<e>> ELSE hand = << >>
  /\ read \in Seq(Events) /\ failed \in BOOLEAN
  /\ channel \in Seq(Events) /\ Len(channel) <= Capacity /\ permit \in BOOLEAN
  /\ iter \in Polling \cup {"ended", "dropped"} /\ delivered \in Seq(Events)
  /\ cancelled \in BOOLEAN

\* Until the iterator is dropped, every event parsed has been delivered, is in
\* the channel or in the reader's hand, in order and once, however full the
\* channel was (179, 183).
NoneSkipped == iter # "dropped" => delivered \o channel \o hand = read

\* An analysis that was not stopped ends only when its output is closed, or
\* could not be read any further, and after the reader said so.
EndsAtClose ==
  iter = "ended" /\ ~cancelled =>
    /\ child = "exited" \/ failed
    /\ reader \in {"notified", "gone"}

\* docs/usage.md: "RustOwl works for the analyzed portion": an analysis that
\* was not stopped hands out every event before it ends.
AllDelivered == iter = "ended" /\ ~cancelled => delivered = read

\* Once the output is closed, or could not be read, the analysis task's loop
\* ends, by the Notify or by the closed channel (190, 265-266).
IterEnds == child = "exited" \/ failed ~> iter \in {"ended", "dropped"}

\* A dropped iterator leaves no reader behind, even one that was blocked on a
\* full channel over a child that hangs (142, 179).
ReaderStops == iter = "dropped" ~> reader = "gone"
=============================================================================
