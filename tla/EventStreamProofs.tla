------------------------- MODULE EventStreamProofs -------------------------
(***************************************************************************)
(* What EventStream keeps for a channel of any capacity and an output of   *)
(* any length.                                                             *)
(***************************************************************************)
EXTENDS EventStream, TLAPS

-----------------------------------------------------------------------------
(* A receive moves an event, a send moves the one in hand.                 *)

LEMMA Received ==
  ASSUME NEW S, NEW d \in Seq(S), NEW c \in Seq(S), c # << >>
  PROVE  /\ Append(d, Head(c)) \o Tail(c) = d \o c
         /\ Append(d, Head(c)) \in Seq(S) /\ Tail(c) \in Seq(S)
         /\ Len(c) \in Nat /\ Len(Tail(c)) = Len(c) - 1
<1>1. Head(c) \in S /\ Tail(c) \in Seq(S) /\ Len(c) \in Nat /\ Len(Tail(c)) = Len(c) - 1
  OBVIOUS
<1>2. Append(d, Head(c)) \in Seq(S)
  BY <1>1
<1>3. Append(d, Head(c)) \o Tail(c) = d \o c
  OBVIOUS
<1> QED
  BY <1>1, <1>2, <1>3

LEMMA Sent ==
  ASSUME NEW S, NEW d \in Seq(S), NEW c \in Seq(S), NEW h \in Seq(S)
  PROVE  (d \o (c \o h)) \o << >> = (d \o c) \o h
  OBVIOUS

LEMMA Parsed ==
  ASSUME NEW S, NEW d \in Seq(S), NEW c \in Seq(S), NEW e \in S
  PROVE  (d \o c) \o <<e>> = Append((d \o c) \o << >>, e)
  OBVIOUS

-----------------------------------------------------------------------------
(* Type correctness.                                                       *)

LEMMA TypeInit == Init => TypeOK
<1> SUFFICES ASSUME Init PROVE TypeOK
  OBVIOUS
<1>1. << >> \in Seq(Events) /\ Len(<< >>) <= Capacity
  BY StreamAssumption
<1>2. 0 \in 0 .. MaxLines /\ 0 \in 0 .. 0
  BY StreamAssumption
<1> QED
  BY <1>1, <1>2 DEF Init, TypeOK, Polling

LEMMA TypeStep ==
  ASSUME TypeOK, [Next]_vars
  PROVE  TypeOK'
<1> USE StreamAssumption DEF TypeOK, Polling
<1>1. CASE PrintLine
  BY <1>1 DEF PrintLine, readerVars, iterVars
<1>2. CASE Exit
  BY <1>2 DEF Exit, readerVars, iterVars
<1>3. CASE ReadLine
  <2>1. pos + 1 \in Events /\ pos' \in 0 .. printed
    BY <1>3 DEF ReadLine, Events
  <2>2. CASE hand' = <<pos + 1>> /\ read' = Append(read, pos + 1) /\ reader' = "send"
    <3>1. read' \in Seq(Events) /\ \E e \in Events : hand' = <<e>>
      BY <2>1, <2>2
    <3> QED
      BY <1>3, <2>1, <2>2, <3>1 DEF ReadLine, childVars, iterVars, Events
  <2>3. CASE UNCHANGED <<hand, read, reader>>
    BY <1>3, <2>1, <2>3 DEF ReadLine, childVars, iterVars, Events
  <2> QED
    BY <1>3, <2>2, <2>3 DEF ReadLine
<1>4. CASE Send
  <2>1. PICK e \in Events : hand = <<e>>
    BY <1>4 DEF Send
  <2>2. channel \o hand \in Seq(Events) /\ Len(channel \o hand) = Len(channel) + 1
    BY <2>1
  <2>3. channel' \in Seq(Events) /\ Len(channel') <= Capacity
    BY <1>4, <2>2 DEF Send, MaySend, Room
  <2> QED
    BY <1>4, <2>3 DEF Send, childVars, iterVars
<1>5. CASE SendError
  BY <1>5 DEF SendError, childVars, iterVars
<1>6. CASE NotifyEnd
  BY <1>6 DEF NotifyEnd, Notify, childVars, iterVars
<1>15. CASE ReadFails
  BY <1>15 DEF ReadFails, Notify, childVars, iterVars
<1>7. CASE DropSender
  BY <1>7 DEF DropSender, childVars, iterVars
<1>8. CASE PollRecv
  <2>1. CASE channel # << >>
    <3>1. delivered' = Append(delivered, Head(channel)) /\ channel' = Tail(channel)
      BY <1>8, <2>1 DEF PollRecv
    <3>2. delivered' \in Seq(Events) /\ channel' \in Seq(Events)
          /\ Len(channel) \in Nat /\ Len(channel') = Len(channel) - 1
      BY <2>1, <3>1, Received
    <3>3. Len(channel') <= Capacity
      BY <3>2
    <3> QED
      BY <1>8, <2>1, <3>2, <3>3 DEF PollRecv, childVars, readerVars
  <2>2. CASE channel = << >>
    BY <1>8, <2>2 DEF PollRecv, childVars, readerVars
  <2> QED
    BY <2>1, <2>2
<1>9. CASE PollNotified
  BY <1>9 DEF PollNotified, childVars, readerVars
<1>10. CASE Wake
  BY <1>10 DEF Wake, childVars, readerVars
<1>11. CASE Cancel
  BY <1>11 DEF Cancel, childVars, readerVars, iterVars
<1>12. CASE StopOnCancel
  BY <1>12 DEF StopOnCancel, childVars, readerVars
<1>13. CASE DropIter
  BY <1>13 DEF DropIter, Kill, readerVars
<1>14. CASE UNCHANGED vars
  BY <1>14 DEF vars, childVars, readerVars, iterVars
<1> QED
  BY <1>1, <1>2, <1>3, <1>4, <1>5, <1>6, <1>7, <1>8, <1>9, <1>10, <1>11, <1>12, <1>13, <1>14, <1>15
  DEF Next, ReaderStep, IterStep

\* Type correctness; the channel never exceeds its capacity.
THEOREM TypeCorrect == Spec => []TypeOK
  BY TypeInit, TypeStep, PTL DEF Spec

-----------------------------------------------------------------------------
\* Every event parsed is delivered, queued or in hand, in order and once.
THEOREM KeepsEvents == Spec => []NoneSkipped
<1>1. Init => NoneSkipped
  BY DEF Init, NoneSkipped
<1>2. TypeOK /\ NoneSkipped /\ [Next]_vars => NoneSkipped'
  <2> SUFFICES ASSUME TypeOK, NoneSkipped, [Next]_vars, iter' # "dropped"
               PROVE  (delivered' \o channel') \o hand' = read'
    BY DEF NoneSkipped
  <2>1. iter # "dropped" /\ (delivered \o channel) \o hand = read
    BY DEF NoneSkipped, Next, PrintLine, Exit, ReaderStep, ReadLine, Send, SendError, NotifyEnd, Notify, ReadFails, DropSender,
           IterStep, PollRecv, PollNotified, Wake, StopOnCancel, Cancel, DropIter, Polling,
           iterVars, vars
  <2>2. channel \in Seq(Events) /\ delivered \in Seq(Events) /\ (reader = "send" => hand \in Seq(Events))
    <3>1. \A e \in Events : <<e>> \in Seq(Events)
      OBVIOUS
    <3> QED
      BY <3>1 DEF TypeOK
  <2>3. CASE ReadLine
    <3>1. hand = << >> /\ UNCHANGED <<delivered, channel>>
      BY <2>3 DEF ReadLine, iterVars, TypeOK
    <3>2. CASE UNCHANGED <<hand, read>>
      BY <2>1, <3>1, <3>2
    <3>3. CASE hand' = <<pos + 1>> /\ read' = Append(read, pos + 1)
      <4>1. pos + 1 \in Events
        BY <2>3, StreamAssumption DEF ReadLine, Events, TypeOK
      <4> QED
        BY <2>1, <2>2, <3>1, <3>3, <4>1, Parsed
    <3> QED
      BY <2>3, <3>2, <3>3 DEF ReadLine
  <2>4. CASE Send
    <3>1. channel' = channel \o hand /\ hand' = << >> /\ UNCHANGED <<delivered, read>>
      BY <2>4 DEF Send, MaySend, iterVars
    <3>2. reader = "send"
      BY <2>4 DEF Send
    <3>3. (delivered \o (channel \o hand)) \o << >> = (delivered \o channel) \o hand
      BY <2>2, <3>2, Sent
    <3> QED
      BY <2>1, <3>1, <3>3
  <2>5. CASE PollRecv
    <3>1. CASE channel # << >>
      <4>1. delivered' = Append(delivered, Head(channel)) /\ channel' = Tail(channel)
            /\ UNCHANGED <<hand, read>>
        BY <2>5, <3>1 DEF PollRecv, readerVars
      <4> QED
        BY <2>1, <2>2, <3>1, <4>1, Received
    <3>2. CASE channel = << >>
      BY <2>1, <2>5, <3>2 DEF PollRecv, readerVars
    <3> QED
      BY <3>1, <3>2
  <2>6. CASE UNCHANGED <<delivered, channel, hand, read>>
    BY <2>1, <2>6
  <2> QED
    BY <2>1, <2>3, <2>4, <2>5, <2>6
    DEF Next, PrintLine, Exit, ReaderStep, SendError, NotifyEnd, Notify, ReadFails, DropSender,
        IterStep, PollNotified, Wake, StopOnCancel, Cancel, DropIter, readerVars, iterVars, vars
<1> QED
  BY <1>1, <1>2, TypeInit, TypeStep, PTL DEF Spec

-----------------------------------------------------------------------------
(* The end.                                                                *)

\* A permit, or a closed channel, is there only once the reader met the end.
EndKnown ==
  /\ permit \/ reader \in {"notified", "gone"} =>
       (child = "exited" \/ failed) /\ reader \in {"notified", "gone"}
  /\ EndsAtClose

\* An analysis that was not stopped ends only when its output is closed, or could not be read.
THEOREM EndsOnlyAtClose == Spec => []EndsAtClose
<1>1. Init => EndKnown
  BY DEF Init, EndKnown, EndsAtClose
<1>2. EndKnown /\ [Next]_vars => EndKnown'
  BY DEF EndKnown, EndsAtClose, Next, PrintLine, Exit, ReaderStep, ReadLine, Send, SendError, NotifyEnd, Notify, ReadFails, AtEnd,
         DropSender, IterStep, PollRecv, PollNotified, Wake, StopOnCancel, Cancel, DropIter, Kill,
         childVars, readerVars, iterVars, vars
<1>3. EndKnown => EndsAtClose
  BY DEF EndKnown
<1> QED
  BY <1>1, <1>2, <1>3, PTL DEF Spec
=============================================================================
