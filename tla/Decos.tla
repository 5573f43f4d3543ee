------------------------------- MODULE Decos -------------------------------
(***************************************************************************)
(* One answer of Backend::decos (src/src/lsp/backend.rs): the functions of *)
(* the file are visited by a SelectLocal, then by a CalcDecos for the      *)
(* local that was selected, and the decorations are cut up.                *)
(***************************************************************************)
EXTENDS SelectLocal, Decorations

VARIABLE turn   \* whose visit it is: "select", "draw", or "none" when nothing is selected

decosVars == <<turn, selVars, vars>>

DecosInit == turn = "select" /\ SelInit /\ Init

Selecting == turn = "select" /\ SelNext /\ UNCHANGED <<turn, vars>>

(* CalcDecos::new; the selector is not used again and what it knew is      *)
(* forgotten.  Without a local no visit pushes anything.                   *)
Selected ==
  /\ turn = "select" /\ part = "between"
  /\ turn' = IF selected = << >> THEN "none" ELSE "draw"
  /\ pos' = 0 /\ item' = (CHOOSE f \in Fns : TRUE) /\ UNCHANGED part
  /\ declared' = {} /\ candidates' = {} /\ items' = 0 /\ uses' = 0
  /\ selected' = << >> /\ first' = << >> /\ offered' = {}
  /\ UNCHANGED vars

Drawing == turn = "draw" /\ Next /\ UNCHANGED <<turn, selVars>>

DecosNext == Selecting \/ Selected \/ Drawing

DecosSpec == DecosInit /\ [][DecosNext]_decosVars
DecosFairSpec == DecosSpec /\ WF_decosVars(DecosNext)     \* the call runs on
=============================================================================
