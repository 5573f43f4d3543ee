---------------------------- MODULE HoverProofs ----------------------------
(***************************************************************************)
(* Proofs about Hover, for any open files, moves and commands.             *)
(***************************************************************************)
EXTENDS Hover, TLAPS

-----------------------------------------------------------------------------
\* VS Code's timer knows the editor of its event; only Neovim loses timers.
Timers ==
  /\ editor = "vscode" /\ timer.armed => timer.b \in Buffers
  /\ stray # {} => editor = "neovim"

\* What VS Code does while every answer beats the next move: one thing at a time.
OneAtATime ==
  /\ timer.armed => flight = {} /\ drawn = {}
  /\ flight # {} => drawn = {}
  /\ \A r, s \in flight : r = s
  /\ \A d \in drawn : d.owned
Owned ==
  /\ editor # "vscode" => \A d \in drawn : d.owned
  /\ editor = "vscode" /\ ~crossed => OneAtATime

\* A request that will be drawn in the buffer it is about.
Straight ==
  editor # "neovim" =>
    /\ \A r \in flight : r.into = r.of
    /\ \A d \in drawn : d.into = d.of

\* What is asked is a request.
LEMMA AsksType ==
  ASSUME TypeOK, NEW b \in Buffers \cup {NoBuffer}, editor = "vscode" => b \in Buffers
  PROVE  Asks(b) \in Request
<1>1. \A i \in Buffers, o \in Buffers : About(i, o) \in Request
  BY DEF TypeOK, About, Request
<1>2. buf \in Buffers /\ (IF b = NoBuffer THEN buf ELSE b) \in Buffers
  BY DEF TypeOK
<1>3. CASE editor = "vscode"
  BY <1>1, <1>3 DEF Asks, VSCodeAsks
<1>4. CASE editor = "neovim"
  BY <1>1, <1>2, <1>4 DEF Asks, NeovimAsks
<1>5. CASE editor = "emacs"
  BY <1>1, <1>2, <1>5 DEF Asks, EmacsAsks
<1> QED
  BY <1>3, <1>4, <1>5 DEF TypeOK, Editors

\* Only Neovim may ask about another buffer than it will draw in.
LEMMA AsksStraight ==
  ASSUME TypeOK, editor # "neovim", NEW b
  PROVE  Asks(b).into = Asks(b).of
  BY DEF TypeOK, Editors, Asks, VSCodeAsks, EmacsAsks, About

LEMMA DrawnType ==
  ASSUME NEW r \in Request
  PROVE  /\ Drawn(r) \in Drawing /\ Drawn(r).owned
         /\ Drawn(r).into = r.into /\ Drawn(r).of = r.of
  BY DEF Drawn, Request, Drawing

LEMMA DisownedType ==
  ASSUME TypeOK
  PROVE  /\ Disowned \in SUBSET Drawing
         /\ \A e \in Disowned : \E d \in drawn : e.into = d.into /\ e.of = d.of
<1> SUFFICES ASSUME NEW d \in drawn
             PROVE  LET e == [d EXCEPT !.owned = FALSE]
                    IN  e \in Drawing /\ e.into = d.into /\ e.of = d.of
  BY DEF Disowned
<1>1. d \in Drawing
  BY DEF TypeOK
<1> QED
  BY <1>1 DEF Drawing

\* What an answer leaves on the screen.
LEMMA DrawType ==
  ASSUME TypeOK, NEW r \in flight, Draw(r)
  PROVE  drawn' \in SUBSET Drawing /\ on' \in SUBSET Buffers
<1>1. Drawn(r) \in Drawing /\ Disowned \in SUBSET Drawing
  BY DrawnType, DisownedType DEF TypeOK
<1> QED
  BY <1>1 DEF Draw, VSCodeDraws, NeovimDraws, EmacsDraws, TypeOK

LEMMA TypesHold == Spec => [](TypeOK /\ Timers)
<1>1. Init => TypeOK /\ Timers
  <2> SUFFICES ASSUME Init
               PROVE  TypeOK /\ Timers
    OBVIOUS
  <2>1. 0 \in Places /\ toggles \in 0 .. MaxToggles
    BY HoverAssumption DEF Init, Places
  <2>2. timer \in [armed : BOOLEAN, b : Buffers \cup {NoBuffer}] /\ ~timer.armed
    BY DEF Init, NoTimer
  <2>3. at \in [Buffers -> Places] /\ on \in SUBSET Buffers
    BY <2>1 DEF Init
  <2> QED
    BY <2>1, <2>2, <2>3 DEF Init, TypeOK, Timers
<1>2. TypeOK /\ Timers /\ [Next]_vars => (TypeOK /\ Timers)'
  <2> SUFFICES ASSUME TypeOK, Timers, [Next]_vars
               PROVE  (TypeOK /\ Timers)'
    OBVIOUS
  <2>1. CASE UNCHANGED vars
    BY <2>1 DEF vars, TypeOK, Timers
  <2>2. ASSUME NEW b \in Buffers, CursorMoves(b)
        PROVE  (TypeOK /\ Timers)'
    <3>1. now' \in Places /\ at' \in [Buffers -> Places]
      BY <2>2, HoverAssumption DEF CursorMoves, TypeOK, Places
    <3>2. CASE UNCHANGED <<drawn, timer>>
      BY <2>2, <3>1, <3>2 DEF CursorMoves, TypeOK, Timers, Places, Drawing, Request
    <3>3. CASE Listen(b)
      <4>1. drawn' \in SUBSET Drawing
        BY <3>3 DEF Listen, VSCodeListens, NeovimListens, EmacsListens, VSCodeKeeps, NeovimKeeps,
                    EmacsKeeps, TypeOK
      <4>2. /\ timer' \in [armed : BOOLEAN, b : Buffers \cup {NoBuffer}]
            /\ editor = "vscode" => timer'.b \in Buffers
        <5>1. \A x \in Buffers \cup {NoBuffer} :
                /\ Armed(x) \in [armed : BOOLEAN, b : Buffers \cup {NoBuffer}]
                /\ Armed(x).b = x
          BY DEF Armed
        <5>2. CASE editor = "vscode" /\ VSCodeListens(b)
          BY <5>1, <5>2 DEF VSCodeListens
        <5>3. CASE editor = "neovim" /\ NeovimListens(b)
          BY <5>1, <5>3 DEF NeovimListens
        <5>4. CASE editor = "emacs" /\ EmacsListens
          BY <5>1, <5>4 DEF EmacsListens
        <5> QED
          BY <3>3, <5>2, <5>3, <5>4 DEF Listen
      <4> QED
        BY <2>2, <3>1, <4>1, <4>2 DEF CursorMoves, TypeOK, Timers
    <3> QED
      BY <2>2, <3>2, <3>3 DEF CursorMoves
  <2>3. CASE TimerFires
    <3>1. timer.b \in Buffers \cup {NoBuffer} /\ (editor = "vscode" => timer.b \in Buffers)
      BY <2>3 DEF TimerFires, TypeOK, Timers
    <3>2. Asks(timer.b) \in Request
      BY <3>1, AsksType
    <3> QED
      BY <2>3, <3>2 DEF TimerFires, TypeOK, Timers, NoTimer
  <2>4. CASE StrayFires
    <3>1. PICK b \in stray : /\ stray' = stray \ {b}
                             /\ flight' = flight \cup {Asks(b)}
                             /\ UNCHANGED <<editor, buf, now, at, on, timer, drawn, toggles, crossed>>
      BY <2>4 DEF StrayFires
    <3>2. Asks(b) \in Request
      BY <3>1, AsksType DEF TypeOK, Timers
    <3> QED
      BY <3>1, <3>2 DEF TypeOK, Timers
  <2>5. CASE HoverCommand
    <3>1. Asks(buf) \in Request
      BY AsksType DEF TypeOK
    <3> QED
      BY <2>5, <3>1, HoverAssumption DEF HoverCommand, TypeOK, Timers
  <2>6. ASSUME NEW r \in flight, Answer(r)
        PROVE  (TypeOK /\ Timers)'
    <3>1. drawn' \in SUBSET Drawing /\ on' \in SUBSET Buffers
      BY <2>6, DrawType DEF Answer
    <3> QED
      BY <2>6, <3>1 DEF Answer, TypeOK, Timers
  <2>7. CASE Toggle
    <3>1. toggles' \in 0 .. MaxToggles
      BY <2>7, HoverAssumption DEF Toggle, TypeOK
    <3>2. ASSUME NEW b \in Buffers \cup {NoBuffer}, NeovimEnable(b)
          PROVE  (TypeOK /\ Timers)'
      BY <2>7, <3>1, <3>2 DEF Toggle, NeovimEnable, Armed, TypeOK, Timers
    <3>3. CASE NeovimDisable
      BY <2>7, <3>1, <3>3 DEF Toggle, NeovimDisable, NeovimKeeps, TypeOK, Timers
    <3>4. CASE VSCodeToggle
      BY <2>7, <3>1, <3>4 DEF Toggle, VSCodeToggle, TypeOK, Timers
    <3>5. CASE EmacsEnable
      BY <2>7, <3>1, <3>5 DEF Toggle, EmacsEnable, EmacsListens, EmacsKeeps, Armed, TypeOK, Timers
    <3>6. CASE EmacsDisable
      BY <2>7, <3>1, <3>6 DEF Toggle, EmacsDisable, NoTimer, TypeOK, Timers
    <3> QED
      BY <2>7, <3>2, <3>3, <3>4, <3>5, <3>6 DEF Toggle
  <2> QED
    BY <2>1, <2>2, <2>3, <2>4, <2>5, <2>6, <2>7 DEF Next
<1> QED
  BY <1>1, <1>2, PTL DEF Spec

\* Type correctness of the three clients.
THEOREM TypeCorrect == Spec => []TypeOK
  BY TypesHold, PTL

-----------------------------------------------------------------------------
LEMMA OwnedHolds == Spec => []Owned
<1>1. Init => Owned
  BY DEF Init, Owned, OneAtATime, NoTimer
<1>2. TypeOK /\ Timers /\ Owned /\ [Next]_vars => Owned'
  <2> SUFFICES ASSUME TypeOK, Timers, Owned, [Next]_vars
               PROVE  Owned'
    OBVIOUS
  <2>1. CASE UNCHANGED vars
    BY <2>1 DEF vars, Owned, OneAtATime
  <2>2. ASSUME NEW b \in Buffers, CursorMoves(b)
        PROVE  Owned'
    <3>0. editor' = editor /\ flight' = flight /\ (~crossed' => ~crossed /\ flight = {})
      BY <2>2 DEF CursorMoves, TypeOK
    <3>1. CASE UNCHANGED <<drawn, timer>>
      BY <3>0, <3>1 DEF Owned, OneAtATime
    <3>2. CASE Listen(b)
      <4>1. CASE editor = "vscode" /\ VSCodeListens(b)
        <5>1. ~crossed' => drawn' = {}
          BY <3>0, <4>1 DEF VSCodeListens, VSCodeKeeps, Owned, OneAtATime
        <5> QED
          BY <3>0, <4>1, <5>1 DEF Owned, OneAtATime
      <4>2. CASE editor = "neovim" /\ NeovimListens(b)
        BY <3>0, <4>2 DEF NeovimListens, NeovimKeeps, Owned
      <4>3. CASE editor = "emacs" /\ EmacsListens
        BY <3>0, <4>3 DEF EmacsListens, EmacsKeeps, Owned
      <4> QED
        BY <3>2, <4>1, <4>2, <4>3 DEF Listen
    <3> QED
      BY <2>2, <3>1, <3>2 DEF CursorMoves
  <2>3. CASE TimerFires
    BY <2>3 DEF TimerFires, NoTimer, Owned, OneAtATime
  <2>4. CASE StrayFires
    BY <2>4 DEF StrayFires, Timers, Owned
  <2>5. CASE HoverCommand
    BY <2>5 DEF HoverCommand, Owned
  <2>6. ASSUME NEW r \in flight, Answer(r)
        PROVE  Owned'
    <3>1. Drawn(r).owned
      BY DrawnType DEF TypeOK
    <3>2. UNCHANGED <<editor, timer, crossed>> /\ flight' = flight \ {r}
      BY <2>6 DEF Answer
    <3>3. CASE editor = "vscode" /\ VSCodeDraws(r)
      <4> SUFFICES ASSUME ~crossed
                   PROVE  OneAtATime'
        BY <3>2, <3>3 DEF Owned
      <4>1. OneAtATime
        BY <3>3 DEF Owned
      <4>2. drawn = {} /\ ~timer.armed /\ flight' = {}
        BY <3>2, <4>1 DEF OneAtATime
      <4>3. drawn' = {Drawn(r)}
        BY <3>3, <4>2 DEF VSCodeDraws, Disowned
      <4> QED
        BY <3>1, <3>2, <4>2, <4>3 DEF OneAtATime
    <3>4. CASE editor = "neovim" /\ NeovimDraws(r)
      BY <3>1, <3>2, <3>4 DEF NeovimDraws, Owned
    <3>5. CASE editor = "emacs" /\ EmacsDraws(r)
      BY <3>1, <3>2, <3>5 DEF EmacsDraws, Owned
    <3> QED
      BY <2>6, <3>3, <3>4, <3>5 DEF Answer, Draw
  <2>7. CASE Toggle
    <3>1. UNCHANGED <<editor, flight, crossed>>
      BY <2>7 DEF Toggle
    <3>2. CASE \E b \in Buffers \cup {NoBuffer} : NeovimEnable(b)
      BY <3>1, <3>2 DEF NeovimEnable, Owned
    <3>3. CASE NeovimDisable
      BY <3>1, <3>3 DEF NeovimDisable, NeovimKeeps, Owned
    <3>4. CASE VSCodeToggle
      BY <3>1, <3>4 DEF VSCodeToggle, Owned, OneAtATime
    <3>5. CASE EmacsEnable \/ EmacsDisable
      BY <3>1, <3>5 DEF EmacsEnable, EmacsDisable, EmacsListens, EmacsKeeps, Owned
    <3> QED
      BY <2>7, <3>2, <3>3, <3>4, <3>5 DEF Toggle
  <2> QED
    BY <2>1, <2>2, <2>3, <2>4, <2>5, <2>6, <2>7 DEF Next
<1> QED
  BY <1>1, <1>2, TypesHold, PTL DEF Spec

\* While every answer beats the next move, a move in VS Code can still remove all that is drawn.
THEOREM LateAnswersLeak == Spec => []OnlyLateAnswersLeak
<1>1. TypeOK /\ Owned => OnlyLateAnswersLeak
  BY DEF Owned, OneAtATime, OnlyLateAnswersLeak
<1> QED
  BY <1>1, TypesHold, OwnedHolds, PTL

-----------------------------------------------------------------------------
\* A client stays the one it is.
LEMMA SameEditor ==
  ASSUME [Next]_vars
  PROVE  editor' = editor
<1>1. CASE UNCHANGED vars
  BY <1>1 DEF vars
<1>2. CASE \E b \in Buffers : CursorMoves(b)
  BY <1>2 DEF CursorMoves
<1>3. CASE TimerFires \/ StrayFires \/ HoverCommand
  BY <1>3 DEF TimerFires, StrayFires, HoverCommand
<1>4. CASE \E r \in flight : Answer(r)
  BY <1>4 DEF Answer
<1>5. CASE Toggle
  BY <1>5 DEF Toggle
<1> QED
  BY <1>1, <1>2, <1>3, <1>4, <1>5 DEF Next

LEMMA StraightHolds == Spec => []Straight
<1>1. Init => Straight
  BY DEF Init, Straight
<1>2. TypeOK /\ Timers /\ Straight /\ [Next]_vars => Straight'
  <2> SUFFICES ASSUME TypeOK, Timers, Straight, [Next]_vars
               PROVE  Straight'
    OBVIOUS
  <2>0. editor' = editor
    BY SameEditor
  <2> SUFFICES ASSUME editor # "neovim"
               PROVE  Straight'
    BY <2>0 DEF Straight
  <2>1. CASE UNCHANGED vars
    BY <2>1 DEF vars, Straight
  <2>2. ASSUME NEW b \in Buffers, CursorMoves(b)
        PROVE  Straight'
    <3>1. drawn' \subseteq drawn
      BY <2>2 DEF CursorMoves, Listen, VSCodeListens, EmacsListens, VSCodeKeeps, EmacsKeeps
    <3> QED
      BY <2>2, <3>1 DEF CursorMoves, Straight
  <2>3. CASE TimerFires \/ HoverCommand
    BY <2>3, AsksStraight DEF TimerFires, HoverCommand, Straight
  <2>4. CASE StrayFires
    BY <2>4 DEF StrayFires, Timers
  <2>5. ASSUME NEW r \in flight, Answer(r)
        PROVE  Straight'
    <3>1. Drawn(r).into = Drawn(r).of /\ \A e \in Disowned : e.into = e.of
      BY DrawnType, DisownedType DEF Straight, TypeOK
    <3>2. drawn' \subseteq drawn \cup Disowned \cup {Drawn(r)}
      BY <2>5 DEF Answer, Draw, VSCodeDraws, EmacsDraws
    <3>3. flight' \subseteq flight
      BY <2>5 DEF Answer
    <3> QED
      BY <3>1, <3>2, <3>3 DEF Straight
  <2>6. CASE Toggle
    <3>1. flight' = flight /\ drawn' \subseteq drawn
      BY <2>6 DEF Toggle, NeovimEnable, NeovimDisable, VSCodeToggle, EmacsEnable, EmacsDisable,
                  EmacsListens, EmacsKeeps
    <3> QED
      BY <3>1 DEF Straight
  <2> QED
    BY <2>1, <2>2, <2>3, <2>4, <2>5, <2>6 DEF Next
<1> QED
  BY <1>1, <1>2, TypesHold, PTL DEF Spec

\* What VS Code and Emacs draw in a file is about that file.
THEOREM DrawnInRightBuffer == Spec => []RightBuffer
<1>1. Straight => RightBuffer
  BY DEF Straight, RightBuffer
<1> QED
  BY <1>1, StraightHolds, PTL

=============================================================================
