------------------------------ MODULE RangeOps ------------------------------
(***************************************************************************)
(* The operations on one and two ranges of source positions, half-open and *)
(* never empty (src/src/utils.rs, src/src/models.rs).  An Option<Range> is *)
(* a sequence of at most one range, so that pushing it is a concatenation. *)
(***************************************************************************)
EXTENDS Integers, Sequences

CONSTANT MaxLoc   \* bound: greatest position (a u32 below 2^31 in the code)

ASSUME MaxLocAssumption == MaxLoc \in Nat

Loc == 0 .. MaxLoc
Interval == {r \in [from : Loc, until : Loc] : r.from < r.until}

Smaller(a, b) == IF a < b THEN a ELSE b
Greater(a, b) == IF a < b THEN b ELSE a

New(a, b) == IF a < b THEN <<[from |-> a, until |-> b]>> ELSE << >>

Minus(loc, n) == IF loc < n THEN 0 ELSE loc - n

CommonInOrder(r1, r2) ==
  IF r1.until <= r2.from THEN << >> ELSE New(r2.from, Smaller(r1.until, r2.until))
Common(r1, r2) ==
  IF r2.from < r1.from THEN CommonInOrder(r2, r1) ELSE CommonInOrder(r1, r2)

Meet_Overlap(r1, r2) == Common(r1, r2) # << >>     \* mutant: adjacent ranges stay apart
Meet(r1, r2) ==
  Common(r1, r2) # << >> \/ r1.until = r2.from \/ r2.until = r1.from
Merged(r1, r2) ==
  IF Meet(r1, r2)
  THEN New(Smaller(r1.from, r2.from), Greater(r1.until, r2.until)) ELSE << >>

(* What is left of a range when a part of it is excluded.                  *)
Pieces_Left(r, common) == New(r.from, Minus(common.from, 1))     \* mutant: the right piece is forgotten
Pieces(r, common) ==
  New(r.from, Minus(common.from, 1)) \o New(common.until + 1, r.until)

(* r1 is strictly larger.                                                  *)
IsSuperRange(r1, r2) ==
  \/ r1.from < r2.from /\ r2.until <= r1.until
  \/ r1.from <= r2.from /\ r2.until < r1.until

-----------------------------------------------------------------------------
(* What ranges and lists cover; used by properties only.                   *)

In(p, r) == r.from <= p /\ p < r.until
Covered(p, s) == \E k \in DOMAIN s : In(p, s[k])
Apart(r1, r2) == r1.until < r2.from \/ r2.until < r1.from
=============================================================================
