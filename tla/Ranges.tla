------------------------------- MODULE Ranges -------------------------------
(***************************************************************************)
(* The range lists of src/src/utils.rs: what two lists have in common,     *)
(* what a list covers twice, union, exclusion, and the in-place loop that  *)
(* merges a list until its ranges are disjoint and not adjacent.  Lives,   *)
(* drops, borrows and every decoration drawn are computed with them.       *)
(*                                                                         *)
(* A run is one call; a step is one round of one of its loops.  Indices    *)
(* start at 1.                                                             *)
(***************************************************************************)
EXTENDS RangeOps, SequencesExt

CONSTANT MaxRanges   \* bound: ranges in the two lists together

ASSUME RangesAssumption == MaxRanges \in Nat

VARIABLES
  op,         \* "common", "intersect", "union" or "exclude"
  in1, in2,   \* the two lists; "common" has one
  phase,      \* "collect", "exclude", "eliminate" or "done"
  ranges,     \* the list being built
  i, j        \* indices of the loops

input == <<op, in1, in2>>
vars == <<input, phase, ranges, i, j>>

-----------------------------------------------------------------------------
Init ==
  /\ op \in {"common", "intersect", "union", "exclude"}
  /\ \E n \in 0 .. MaxRanges : \E m \in 0 .. MaxRanges - n :
       in1 \in [1 .. n -> Interval] /\ in2 \in [1 .. m -> Interval]
  /\ op = "common" => in2 = << >>
  /\ phase = CASE op = "union" -> "eliminate" [] op = "exclude" -> "exclude" [] OTHER -> "collect"
  /\ ranges = CASE op = "union" -> in1 \o in2 [] op = "exclude" -> in1 [] OTHER -> << >>
  /\ i = 1
  /\ j = IF op = "common" THEN 2 ELSE 1

(* Every loop is followed by eliminated_ranges.                            *)
Eliminate == phase' = "eliminate" /\ i' = 1 /\ j' = 1 /\ UNCHANGED <<input, ranges>>

-----------------------------------------------------------------------------
(* common_ranges, intersect_ranges: the ranges common to two of the pairs. *)

Partners == IF op = "common" THEN in1 ELSE in2
FirstPartner_Self(k) == IF op = "common" THEN k ELSE 1     \* mutant: a range is paired with itself
FirstPartner(k) == IF op = "common" THEN k + 1 ELSE 1

CollectPair ==
  /\ phase = "collect" /\ i <= Len(in1) /\ j <= Len(Partners)
  /\ ranges' = ranges \o Common(in1[i], Partners[j])
  /\ j' = j + 1
  /\ UNCHANGED <<input, phase, i>>

CollectNext ==
  /\ phase = "collect" /\ i <= Len(in1) /\ j > Len(Partners)
  /\ i' = i + 1 /\ j' = FirstPartner(i + 1)
  /\ UNCHANGED <<input, phase, ranges>>

CollectDone == phase = "collect" /\ i > Len(in1) /\ Eliminate

-----------------------------------------------------------------------------
(* exclude_ranges: the first exclude that has something in common with     *)
(* range i cuts it; the pieces go to the end of the list.                  *)

Hits(k) == Common(ranges[i], in2[k]) # << >>

ExcludeCut ==
  /\ phase = "exclude" /\ i <= Len(ranges)
  /\ \E k \in DOMAIN in2 :
       /\ Hits(k) /\ \A l \in 1 .. k - 1 : ~Hits(l)
       /\ ranges' = RemoveAt(ranges \o Pieces(ranges[i], Common(ranges[i], in2[k])[1]), i)
  /\ UNCHANGED <<input, phase, i, j>>

ExcludeNext ==
  /\ phase = "exclude" /\ i <= Len(ranges)
  /\ \A k \in DOMAIN in2 : ~Hits(k)
  /\ i' = i + 1
  /\ UNCHANGED <<input, phase, ranges, j>>

ExcludeDone == phase = "exclude" /\ i > Len(ranges) /\ Eliminate

-----------------------------------------------------------------------------
(* eliminated_ranges: range i takes up the first range it meets.           *)

Meets(k) == k # i /\ Merged(ranges[i], ranges[k]) # << >>

TakenUp_Kept(k) ==     \* mutant: the range taken up stays in the list
  [ranges EXCEPT ![i] = Merged(ranges[i], ranges[k])[1]]
TakenUp(k) == RemoveAt([ranges EXCEPT ![i] = Merged(ranges[i], ranges[k])[1]], k)

EliminateMerge ==
  /\ phase = "eliminate" /\ i <= Len(ranges)
  /\ \E k \in DOMAIN ranges :
       /\ Meets(k) /\ \A l \in 1 .. k - 1 : ~Meets(l)
       /\ ranges' = TakenUp(k)
  /\ UNCHANGED <<input, phase, i, j>>

EliminateNext ==
  /\ phase = "eliminate" /\ i <= Len(ranges)
  /\ \A k \in DOMAIN ranges : ~Meets(k)
  /\ i' = i + 1
  /\ UNCHANGED <<input, phase, ranges, j>>

EliminateDone ==
  /\ phase = "eliminate" /\ i > Len(ranges)
  /\ phase' = "done"
  /\ UNCHANGED <<input, ranges, i, j>>

-----------------------------------------------------------------------------
Next ==
  \/ CollectPair \/ CollectNext \/ CollectDone
  \/ ExcludeCut \/ ExcludeNext \/ ExcludeDone
  \/ EliminateMerge \/ EliminateNext \/ EliminateDone

Spec == Init /\ [][Next]_vars
FairSpec == Spec /\ WF_vars(Next)     \* a call runs on

-----------------------------------------------------------------------------
(* Properties.                                                             *)

CoveredTwice(p, s) == \E k, l \in DOMAIN s : k < l /\ In(p, s[k]) /\ In(p, s[l])

\* Type correctness; no list ever holds an empty range.
TypeOK ==
  /\ op \in {"common", "intersect", "union", "exclude"}
  /\ in1 \in Seq(Interval) /\ in2 \in Seq(Interval) /\ ranges \in Seq(Interval)
  /\ phase \in {"collect", "exclude", "eliminate", "done"}
  /\ i \in Nat \ {0} /\ j \in Nat \ {0}

\* Intersection, union and twice-covered ranges cover exactly the positions
\* that are in both lists, in either, and in two ranges of the list (20-83).
Wanted(p) ==
  CASE op = "common" -> CoveredTwice(p, in1)
    [] op = "intersect" -> Covered(p, in1) /\ Covered(p, in2)
    [] op = "union" -> Covered(p, in1) \/ Covered(p, in2)
    [] OTHER -> FALSE
CoversExactly ==
  phase = "done" /\ op # "exclude" => \A p \in Loc : Covered(p, ranges) <=> Wanted(p)

\* Exclusion leaves nothing of the excluded ranges, adds nothing, and loses
\* at most the positions beside an excluded one (85-105).
Near(p, s) == Covered(p - 1, s) \/ Covered(p, s) \/ Covered(p + 1, s)
ExcludesExactly ==
  phase = "done" /\ op = "exclude" =>
    \A p \in Loc :
      /\ Covered(p, ranges) => Covered(p, in1) /\ ~Covered(p, in2)
      /\ Covered(p, in1) /\ ~Near(p, in2) => Covered(p, ranges)

\* eliminated_ranges merges in place while it scans and never goes back, yet no
\* two ranges of its result overlap or touch (43-61).
FlatResult ==
  phase = "done" => \A k, l \in DOMAIN ranges : k # l => Apart(ranges[k], ranges[l])

\* Every call returns, though two loops restart at the range they changed.
Returns == <>(phase = "done")
=============================================================================
