---------------------------- MODULE Decorations ----------------------------
(***************************************************************************)
(* What is drawn for the selected local (src/src/lsp/decoration.rs): the   *)
(* visit of every function of the file pushes decorations, of nested calls *)
(* only the innermost, and handle_overlapping then cuts them up so that    *)
(* each position shows one, editing the list while it scans it.            *)
(*                                                                         *)
(* Every decoration is of one local, so its hover text follows from its    *)
(* kind.  Indices start at 1.                                              *)
(***************************************************************************)
EXTENDS RangeOps, SequencesExt

CONSTANTS
  Kinds,       \* the kinds that occur
  MaxPushes    \* bound: decorations the visits offer

(* get_deco_order                                                          *)
Order == <<"lifetime", "maybe_initialized", "definitely_live", "imm_borrow", "mut_borrow",
           "move", "call", "shared_mut", "outlive">>
AllKinds == {Order[k] : k \in 1 .. 9}
Rank(kind) == CHOOSE k \in 1 .. 9 : Order[k] = kind

(* visit_decl pushes these from lists that are flat (Ranges!FlatResult).   *)
ListKinds == {"lifetime", "maybe_initialized", "definitely_live", "shared_mut", "outlive"}

ASSUME DecorationsAssumption ==
  /\ MaxLoc > 0 /\ MaxPushes \in Nat
  /\ Kinds \subseteq AllKinds

VARIABLES
  phase,        \* "visit", "call", "outer", "inner" or "done"
  decorations,
  i, j,         \* indices of the loops
  current,      \* the call visited; current_range of handle_overlapping
  pushes,       \* decorations offered so far
  calls,        \* auxiliary: ranges of the calls visited
  sorted        \* auxiliary: the decorations when handle_overlapping began

aux == <<pushes, calls, sorted>>
vars == <<phase, decorations, i, j, current, aux>>

Deco(kind, range) == [kind |-> kind, range |-> range, overlapped |-> FALSE]

Init ==
  /\ phase = "visit" /\ decorations = << >>
  /\ i = 1 /\ j = 1 /\ current = [from |-> 0, until |-> 1]
  /\ pushes = 0 /\ calls = {} /\ sorted = << >>

-----------------------------------------------------------------------------
(* The visits.                                                             *)

Offer == phase = "visit" /\ pushes < MaxPushes /\ pushes' = pushes + 1

(* The visit of the local's declaration, in whatever order the functions    *)
(* stand: its function may stand there twice, the lists of two analyses.   *)
VisitDecl ==
  /\ Offer
  /\ \E kind \in Kinds \cap ListKinds : \E range \in Interval :
       decorations' = Append(decorations, Deco(kind, range))
  /\ UNCHANGED <<phase, i, j, current, calls, sorted>>

(* A borrow of the local, or an operand that moves it.                     *)
VisitUse ==
  /\ Offer
  /\ \E kind \in Kinds \cap {"imm_borrow", "mut_borrow", "move"} : \E range \in Interval :
       decorations' = Append(decorations, Deco(kind, range))
  /\ UNCHANGED <<phase, i, j, current, calls, sorted>>

IsCall(d) == d.kind = "call"

(* calc_call: a call around one that is there already is left out; those    *)
(* around this one are removed.                                            *)
AroundAnother_No(range) == FALSE     \* mutant: calls around a call are kept
AroundAnother(range) ==
  \E k \in DOMAIN decorations :
    IsCall(decorations[k]) /\ IsSuperRange(range, decorations[k].range)

VisitCall ==
  /\ Offer /\ "call" \in Kinds
  /\ \E range \in Interval :
       /\ calls' = calls \cup {range}
       /\ IF AroundAnother(range)
          THEN UNCHANGED <<phase, i, current>>
          ELSE phase' = "call" /\ i' = 1 /\ current' = range
  /\ UNCHANGED <<decorations, j, sorted>>

AroundThis(d) == IsCall(d) /\ IsSuperRange(d.range, current)

RemoveOuterCall ==
  /\ phase = "call" /\ i <= Len(decorations) /\ AroundThis(decorations[i])
  /\ decorations' = RemoveAt(decorations, i)
  /\ UNCHANGED <<phase, i, j, current, aux>>

PassDecoration ==
  /\ phase = "call" /\ i <= Len(decorations) /\ ~AroundThis(decorations[i])
  /\ i' = i + 1
  /\ UNCHANGED <<phase, decorations, j, current, aux>>

PushCall ==
  /\ phase = "call" /\ i > Len(decorations)
  /\ decorations' = Append(decorations, Deco("call", current))
  /\ phase' = "visit"
  /\ UNCHANGED <<i, j, current, aux>>

(* sort_by_key, which is stable                                            *)
InOrder_Pushed(k, l) == k < l     \* mutant: not sorted
InOrder(k, l) ==
  LET r == Rank(decorations[k].kind)
      s == Rank(decorations[l].kind)
  IN  r < s \/ (r = s /\ k < l)

StartOverlapping ==
  /\ phase = "visit" /\ phase' = "outer" /\ i' = 2
  /\ \E p \in [DOMAIN decorations -> DOMAIN decorations] :
       /\ \A k, l \in DOMAIN decorations : k < l => InOrder(p[k], p[l])
       /\ decorations' = [k \in DOMAIN decorations |-> decorations[p[k]]]
  /\ sorted' = decorations'
  /\ UNCHANGED <<j, current, pushes, calls>>

-----------------------------------------------------------------------------
(* handle_overlapping.                                                     *)

Outer ==
  /\ phase = "outer" /\ i <= Len(decorations)
  /\ current' = decorations[i].range /\ j' = 1
  /\ phase' = "inner"
  /\ UNCHANGED <<decorations, i, aux>>

Done ==
  /\ phase = "outer" /\ i > Len(decorations)
  /\ phase' = "done"
  /\ UNCHANGED <<decorations, i, j, current, aux>>

Duplicate == decorations[j] = decorations[i]
Hidden == decorations[j].overlapped
Overlap == Common(current, decorations[j].range)

RemoveDuplicate ==
  /\ phase = "inner" /\ j < i /\ Duplicate
  /\ decorations' = RemoveAt(decorations, i)
  /\ phase' = "outer"
  /\ UNCHANGED <<i, j, current, aux>>

Pass ==
  /\ phase = "inner" /\ j < i /\ ~Duplicate
  /\ Hidden \/ Overlap = << >>
  /\ j' = j + 1
  /\ UNCHANGED <<phase, decorations, i, current, aux>>

(* The overlapped part of decoration j is hidden, its other parts follow.  *)
Cut_Whole(d, common) == <<[d EXCEPT !.overlapped = TRUE]>>     \* mutant: all of it is hidden
Cut(d, common) ==
  LET pieces == Pieces(d.range, common)
  IN  <<[d EXCEPT !.range = common, !.overlapped = TRUE]>>
      \o [k \in DOMAIN pieces |-> Deco(d.kind, pieces[k])]

Hide ==
  /\ phase = "inner" /\ j < i /\ ~Duplicate /\ ~Hidden /\ Overlap # << >>
  /\ decorations' = SubSeq(decorations, 1, j - 1) \o Cut(decorations[j], Overlap[1])
                      \o SubSeq(decorations, j + 1, Len(decorations))
  /\ j' = j + 1
  /\ UNCHANGED <<phase, i, current, aux>>

InnerEnd_Skip(k) == k + 2     \* mutant: the element moved up to i + 1 is skipped
InnerEnd_Stay(k) == k     \* mutant: never moves on
InnerEnd(k) == k + 1
OuterNext ==
  /\ phase = "inner" /\ j >= i
  /\ i' = InnerEnd(i) /\ phase' = "outer"
  /\ UNCHANGED <<decorations, j, current, aux>>

-----------------------------------------------------------------------------
Next ==
  \/ VisitDecl \/ VisitUse \/ VisitCall
  \/ RemoveOuterCall \/ PassDecoration \/ PushCall
  \/ StartOverlapping
  \/ Outer \/ Done \/ RemoveDuplicate \/ Pass \/ Hide \/ OuterNext

Spec == Init /\ [][Next]_vars

-----------------------------------------------------------------------------
(* Properties.                                                             *)

Shown(d, p) == ~d.overlapped /\ In(p, d.range)

Decoration == [kind : Kinds, range : Interval, overlapped : BOOLEAN]

TypeOK ==
  /\ phase \in {"visit", "call", "outer", "inner", "done"}
  /\ decorations \in Seq(Decoration) /\ sorted \in Seq(Decoration)
  /\ current \in Interval /\ calls \subseteq Interval
  /\ i \in Nat \ {0} /\ j \in Nat \ {0} /\ pushes \in 0 .. MaxPushes

\* Of nested calls only the innermost are drawn, and every call visited is
\* drawn or has a drawn one within it, in whatever order they are visited.
Drawn(k) == k \in DOMAIN decorations /\ IsCall(decorations[k])
InnermostCalls ==
  phase = "visit" =>
    /\ \A k, l \in DOMAIN decorations :
         Drawn(k) /\ Drawn(l) => ~IsSuperRange(decorations[k].range, decorations[l].range)
    /\ \A r \in calls : \E k \in DOMAIN decorations :
         Drawn(k) /\ (decorations[k].range = r \/ IsSuperRange(r, decorations[k].range))

\* docs/lsp-spec.md: an overlapped decoration should be hidden; no position
\* shows two.
OneShown ==
  phase = "done" =>
    \A p \in Loc : \A k, l \in DOMAIN decorations :
      Shown(decorations[k], p) /\ Shown(decorations[l], p) => k = l

\* What a position shows is the last in order of all that was pushed for it.
TopmostShown ==
  phase = "done" =>
    \A p \in Loc : \A k \in DOMAIN decorations : \A l \in DOMAIN sorted :
      Shown(decorations[k], p) /\ In(p, sorted[l].range) =>
        Rank(sorted[l].kind) <= Rank(decorations[k].kind)

\* A position something was pushed for shows something, unless it lies just
\* before or just after a decoration pushed, where it may have been cut off.
Beside(p, r) == p = r.from - 1 \/ p = r.until
NothingLost ==
  phase = "done" =>
    \A p \in Loc : \A l \in DOMAIN sorted :
      In(p, sorted[l].range) =>
        \/ \E k \in DOMAIN decorations : Shown(decorations[k], p)
        \/ \E k \in DOMAIN sorted : Beside(p, sorted[k].range)

\* The scan ends although it inserts into the list it scans.
Returns == phase = "outer" ~> phase = "done"
=============================================================================
