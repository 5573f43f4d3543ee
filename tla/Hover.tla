------------------------------- MODULE Hover -------------------------------
(***************************************************************************)
(* The three editor clients (vscode/src/extension.ts, lua/rustowl/,        *)
(* rustowl.el): some time after the cursor stopped they ask the server     *)
(* what is under it, and draw the answer when it comes.                    *)
(*                                                                         *)
(* Two things are never looked at when an answer comes: whether the cursor *)
(* is still where it was, and whether showing is still enabled.            *)
(* A place is the number of the move that brought the cursor there.        *)
(***************************************************************************)
EXTENDS Naturals, FiniteSets

CONSTANTS
  Buffers,      \* Rust files that are open
  NoBuffer,     \* Neovim: enable() without a buffer stands for the current one
  MaxMoves,     \* bound: moves of the cursor
  MaxToggles    \* bound: commands and attachments that enable or disable

ASSUME HoverAssumption ==
  /\ MaxMoves \in Nat /\ MaxToggles \in Nat
  /\ NoBuffer \notin Buffers

VARIABLES
  editor,   \* which of the clients this is
  buf,      \* the buffer that has the cursor
  now,      \* the last move
  at,       \* at[b]: place of the cursor in b
  on,       \* buffers whose moves are listened to
  timer,    \* the display timer: armed, and for which buffer
  stray,    \* Neovim: buffers of armed timers that no handler can stop any more
  flight,   \* requests that are not answered yet
  drawn,    \* answers on the screen
  toggles,
  crossed   \* auxiliary: the cursor moved while a request was under way, or rustowl.hover was used

vars == <<editor, buf, now, at, on, timer, stray, flight, drawn, toggles, crossed>>

Editors == {"vscode", "neovim", "emacs"}
Places == 0 .. MaxMoves
\* A request is about place n of buffer of, and its answer is drawn in buffer into.
Request == [into : Buffers, of : Buffers, n : Places]
\* A drawn answer is owned while the client still holds what it needs to remove it.
Drawing == [into : Buffers, of : Buffers, n : Places, owned : BOOLEAN]
NoTimer == [armed |-> FALSE, b |-> NoBuffer]
Armed(b) == [armed |-> TRUE, b |-> b]

TypeOK ==
  /\ editor \in Editors
  /\ buf \in Buffers
  /\ now \in Places
  /\ at \in [Buffers -> Places]
  /\ on \in SUBSET Buffers
  /\ timer \in [armed : BOOLEAN, b : Buffers \cup {NoBuffer}]
  /\ stray \in SUBSET (Buffers \cup {NoBuffer})
  /\ flight \in SUBSET Request
  /\ drawn \in SUBSET Drawing
  /\ toggles \in 0 .. MaxToggles
  /\ crossed \in BOOLEAN

\* VS Code's `enabled` is true at first; Emacs' mode hooks add the handler; Neovim waits for enable().
Init ==
  /\ editor \in Editors
  /\ buf \in Buffers
  /\ now = 0
  /\ at = [b \in Buffers |-> 0]
  /\ on = IF editor = "neovim" THEN {} ELSE Buffers
  /\ timer = NoTimer
  /\ stray = {}
  /\ flight = {}
  /\ drawn = {}
  /\ toggles = 0
  /\ crossed = FALSE

-----------------------------------------------------------------------------
(* Moving. *)

\* Mutant: a move leaves what is drawn.
VSCodeKeeps_All == drawn
\* resetDecoration disposes the decoration types it knows.
VSCodeKeeps == {d \in drawn : ~d.owned}
\* The namespace is cleared in one buffer.
NeovimKeeps(b) == {d \in drawn : d.into # b}
\* rustowl-clear-overlays deletes every overlay in its list.
EmacsKeeps == {}

\* The handlers of a move in b: clear, stop the timer, start it anew, for the editor of the event, for
\* the bufnr of enable(), for no buffer.
VSCodeListens(b) == drawn' = VSCodeKeeps /\ timer' = Armed(b)
NeovimListens(b) == drawn' = NeovimKeeps(b) /\ timer' = Armed(IF on = Buffers THEN NoBuffer ELSE b)
EmacsListens == drawn' = EmacsKeeps /\ timer' = Armed(NoBuffer)
Listen(b) ==
  \/ editor = "vscode" /\ VSCodeListens(b)
  \/ editor = "neovim" /\ NeovimListens(b)
  \/ editor = "emacs" /\ EmacsListens

\* Going to another buffer need not be an event of the cursor, except in Emacs, where it is a command
\* like any other.
MayBeUnheard(b) == b # buf /\ editor # "emacs"

\* The cursor moves, in its buffer or to another one.
CursorMoves(b) ==
  /\ now < MaxMoves
  /\ now' = now + 1
  /\ buf' = b
  /\ at' = [at EXCEPT ![b] = now + 1]
  /\ \/ b \in on /\ Listen(b)
     \/ (b \notin on \/ MayBeUnheard(b)) /\ UNCHANGED <<drawn, timer>>
  /\ crossed' = (crossed \/ flight # {})
  /\ UNCHANGED <<editor, on, stray, flight, toggles>>

-----------------------------------------------------------------------------
(* Asking and drawing. *)

About(into, of) == [into |-> into, of |-> of, n |-> at[of]]
\* Position and file are those of the event's editor in VS Code, of the current buffer elsewhere.
VSCodeAsks(b) == About(b, b)
NeovimAsks(b) == About(IF b = NoBuffer THEN buf ELSE b, buf)
EmacsAsks == About(buf, buf)
Asks(b) ==
  CASE editor = "vscode" -> VSCodeAsks(b)
    [] editor = "neovim" -> NeovimAsks(b)
    [] editor = "emacs" -> EmacsAsks

\* Mutant: nothing is asked while an answer is awaited.
TimerFires_OneAtATime ==
  /\ timer.armed
  /\ timer' = NoTimer
  /\ flight' = IF flight = {} THEN {Asks(timer.b)} ELSE flight
  /\ UNCHANGED <<editor, buf, now, at, on, stray, drawn, toggles, crossed>>

TimerFires ==
  /\ timer.armed
  /\ timer' = NoTimer
  /\ flight' = flight \cup {Asks(timer.b)}
  /\ UNCHANGED <<editor, buf, now, at, on, stray, drawn, toggles, crossed>>

StrayFires ==
  \E b \in stray :
    /\ stray' = stray \ {b}
    /\ flight' = flight \cup {Asks(b)}
    /\ UNCHANGED <<editor, buf, now, at, on, timer, drawn, toggles, crossed>>

\* The command rustowl.hover of VS Code asks at once.
HoverCommand ==
  /\ editor = "vscode"
  /\ toggles < MaxToggles
  /\ toggles' = toggles + 1
  /\ flight' = flight \cup {Asks(buf)}
  /\ crossed' = TRUE
  /\ UNCHANGED <<editor, buf, now, at, on, timer, stray, drawn>>

Drawn(r) == [into |-> r.into, of |-> r.of, n |-> r.n, owned |-> TRUE]
Disowned == {[d EXCEPT !.owned = FALSE] : d \in drawn}

\* updateDecoration makes new decoration types in place of those it had, and sets `enabled` to the
\* configured default, which is true.
VSCodeDraws(r) == drawn' = Disowned \cup {Drawn(r)} /\ on' = Buffers
\* highlight.lua adds to the namespace of the buffer.
NeovimDraws(r) == drawn' = drawn \cup {Drawn(r)} /\ on' = on
\* Mutant: the answer is drawn in whatever buffer is current.
EmacsDraws_Anywhere(r) == drawn' = drawn \cup {[Drawn(r) EXCEPT !.into = buf]} /\ on' = on
\* lsp-mode drops an answer ('current) when another buffer has become current.
EmacsDraws(r) == drawn' = (IF r.into = buf THEN drawn \cup {Drawn(r)} ELSE drawn) /\ on' = on
Draw(r) ==
  \/ editor = "vscode" /\ VSCodeDraws(r)
  \/ editor = "neovim" /\ NeovimDraws(r)
  \/ editor = "emacs" /\ EmacsDraws(r)

Answer(r) ==
  /\ r \in flight
  /\ flight' = flight \ {r}
  /\ Draw(r)
  /\ UNCHANGED <<editor, buf, now, at, timer, stray, toggles, crossed>>

-----------------------------------------------------------------------------
(* Enabling and disabling. *)

\* M.enable: a new closure with a timer of its own, and the autocommands of the old one are cleared.
NeovimEnable(b) ==
  /\ editor = "neovim"
  /\ on' = IF b = NoBuffer THEN Buffers ELSE {b}
  /\ stray' = stray \cup (IF timer.armed THEN {timer.b} ELSE {})
  /\ timer' = Armed(b)
  /\ UNCHANGED drawn

\* M.disable clears the current buffer and forgets the handlers, not the timer.
NeovimDisable ==
  /\ editor = "neovim"
  /\ on # {}
  /\ on' = {}
  /\ drawn' = NeovimKeeps(buf)
  /\ UNCHANGED <<timer, stray>>

\* rustowl.toggle flips `enabled`; what is drawn or pending stays.
VSCodeToggle ==
  /\ editor = "vscode"
  /\ on' = Buffers \ on
  /\ UNCHANGED <<timer, stray, drawn>>

\* enable-rustowl-cursor in this buffer; its hook runs at the end of the command already.
EmacsEnable ==
  /\ editor = "emacs"
  /\ on' = on \cup {buf}
  /\ EmacsListens
  /\ UNCHANGED stray

\* disable-rustowl-cursor stops the timer and leaves the overlays.
EmacsDisable ==
  /\ editor = "emacs"
  /\ on' = on \ {buf}
  /\ timer' = NoTimer
  /\ UNCHANGED <<stray, drawn>>

\* A command, or Neovim's LspAttach of a buffer.
Toggle ==
  /\ toggles < MaxToggles
  /\ toggles' = toggles + 1
  /\ \/ \E b \in Buffers \cup {NoBuffer} : NeovimEnable(b)
     \/ NeovimDisable
     \/ VSCodeToggle
     \/ EmacsEnable
     \/ EmacsDisable
  /\ UNCHANGED <<editor, buf, now, at, flight, crossed>>

-----------------------------------------------------------------------------
Next ==
  \/ \E b \in Buffers : CursorMoves(b)
  \/ TimerFires
  \/ StrayFires
  \/ HoverCommand
  \/ \E r \in flight : Answer(r)
  \/ Toggle

Spec == Init /\ [][Next]_vars

\* Timers fire and the server answers (Backend: RequestsComplete).
FairSpec == Spec /\ WF_vars(TimerFires) /\ \A r \in Request : WF_vars(Answer(r))

-----------------------------------------------------------------------------
\* VS Code replaces its decoration types with every answer, and can then no longer remove what the
\* old ones show.  That happens only if an answer came after a further move (or by the command
\* rustowl.hover): while every answer beats the next move, a move still removes all there is.
OnlyLateAnswersLeak == ~crossed => \A d \in drawn : d.owned

\* What is drawn in a file is about that file, although the user may have gone to another one before
\* the timer fired or the answer came (VS Code's closure over the event, lsp-mode's :mode 'current).
RightBuffer == editor # "neovim" => \A d \in drawn : d.into = d.of

\* The same of every client.  Neovim breaks it: the timer of one buffer fires in another, asks about
\* the other one and highlights the first (highlight.lua: bufnr and make_text_document_params).
RightBufferInNeovim == \A d \in drawn : d.into = d.of

\* Only a command or an attachment enables or disables.  VS Code breaks it: every answer sets
\* `enabled` to the configured default (updateDecoration).
ToggleHolds == [][on' # on => toggles' # toggles]_vars

\* A cursor that rests in a buffer whose moves are listened to gets its decorations, whatever
\* requests, answers and stray timers are still around from before.
RestIsShown ==
  \A b \in Buffers, n \in Places :
    (buf = b /\ now = n /\ timer.armed /\ timer.b \in {b, NoBuffer})
      ~> (now # n \/ b \notin on \/ \E d \in drawn : d.into = b /\ d.of = b /\ d.n = n)
=============================================================================
