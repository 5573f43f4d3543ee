---------------------------- MODULE UtilsProofs ----------------------------
(***************************************************************************)
(* Proofs about src/src/utils.rs: what the range lists compute, for lists  *)
(* of any length and positions of any size, and where a position is, for   *)
(* texts of any length (module Positions).                                 *)
(***************************************************************************)
EXTENDS Ranges, Positions, FiniteSetTheorems, TLAPS

(* Sequences, over an opaque set of elements.                              *)

\* Removing element k moves the later ones down.
LEMMA RemoveAtIs ==
  ASSUME NEW S, NEW s \in Seq(S), NEW k \in 1 .. Len(s)
  PROVE  /\ RemoveAt(s, k) \in Seq(S)
         /\ Len(RemoveAt(s, k)) = Len(s) - 1
         /\ \A l \in 1 .. Len(s) - 1 :
              RemoveAt(s, k)[l] = IF l < k THEN s[l] ELSE s[l + 1]
<1>1. /\ SubSeq(s, 1, k - 1) \in Seq(S) /\ Len(SubSeq(s, 1, k - 1)) = k - 1
      /\ \A l \in 1 .. k - 1 : SubSeq(s, 1, k - 1)[l] = s[l]
  OBVIOUS
<1>2. /\ SubSeq(s, k + 1, Len(s)) \in Seq(S) /\ Len(SubSeq(s, k + 1, Len(s))) = Len(s) - k
      /\ \A l \in 1 .. Len(s) - k : SubSeq(s, k + 1, Len(s))[l] = s[l + k]
  OBVIOUS
<1> DEFINE head == SubSeq(s, 1, k - 1)
           tail == SubSeq(s, k + 1, Len(s))
<1>3. /\ head \o tail \in Seq(S) /\ Len(head \o tail) = Len(head) + Len(tail)
      /\ \A l \in 1 .. Len(head) : (head \o tail)[l] = head[l]
      /\ \A l \in Len(head) + 1 .. Len(head) + Len(tail) : (head \o tail)[l] = tail[l - Len(head)]
  <2> HIDE DEF head, tail
  <2> SUFFICES ASSUME head \in Seq(S), tail \in Seq(S) PROVE <1>3!1 /\ <1>3!2 /\ <1>3!3
    BY <1>1, <1>2 DEF head, tail
  <2>. QED OBVIOUS
<1>4. RemoveAt(s, k) = head \o tail  BY DEF RemoveAt
<1>5. Len(s) \in Nat /\ Len(head) = k - 1 /\ Len(tail) = Len(s) - k  BY <1>1, <1>2
<1>6. ASSUME NEW l \in 1 .. Len(s) - 1 PROVE (head \o tail)[l] = IF l < k THEN s[l] ELSE s[l + 1]
  <2> HIDE DEF head, tail
  <2>1. CASE l < k
    BY <1>1, <1>3, <1>5, <2>1 DEF head
  <2>2. CASE ~(l < k)
    <3>1. l - Len(head) \in 1 .. Len(s) - k /\ l - Len(head) + k = l + 1  BY <1>5, <2>2
    <3>2. (head \o tail)[l] = tail[l - Len(head)]  BY <1>3, <1>5, <2>2
    <3>. QED BY <1>2, <2>2, <3>1, <3>2 DEF tail
  <2>. QED BY <2>1, <2>2
<1> HIDE DEF head, tail
<1>7. Len(head \o tail) = Len(s) - 1  BY <1>3, <1>5
<1>. QED BY <1>3, <1>4, <1>6, <1>7

\* The elements of a concatenation.
LEMMA ConcatIs ==
  ASSUME NEW S, NEW s \in Seq(S), NEW t \in Seq(S)
  PROVE  /\ s \o t \in Seq(S) /\ Len(s \o t) = Len(s) + Len(t)
         /\ \A l \in 1 .. Len(s) : (s \o t)[l] = s[l]
         /\ \A l \in Len(s) + 1 .. Len(s) + Len(t) : (s \o t)[l] = t[l - Len(s)]
OBVIOUS

\* A function on 1 .. n is a sequence.
LEMMA ListIs ==
  ASSUME NEW S, NEW n \in Nat, NEW f \in [1 .. n -> S]
  PROVE  f \in Seq(S)
OBVIOUS

\* What is covered by a concatenation, and by a list of one range.
LEMMA CoveredConcat ==
  ASSUME NEW s \in Seq(Interval), NEW t \in Seq(Interval), NEW p \in Int
  PROVE  Covered(p, s \o t) <=> Covered(p, s) \/ Covered(p, t)
<1>1. /\ s \o t \in Seq(Interval) /\ Len(s \o t) = Len(s) + Len(t)
      /\ \A l \in 1 .. Len(s) : (s \o t)[l] = s[l]
      /\ \A l \in 1 .. Len(t) : (s \o t)[Len(s) + l] = t[l]
      /\ \A l \in Len(s) + 1 .. Len(s) + Len(t) : (s \o t)[l] = t[l - Len(s)]
  OBVIOUS
<1>2. DOMAIN (s \o t) = 1 .. Len(s) + Len(t) /\ DOMAIN s = 1 .. Len(s) /\ DOMAIN t = 1 .. Len(t)
  BY <1>1
<1>3. ASSUME Covered(p, s \o t) PROVE Covered(p, s) \/ Covered(p, t)
  <2>1. PICK l \in 1 .. Len(s) + Len(t) : In(p, (s \o t)[l])
    BY <1>2, <1>3 DEF Covered
  <2>2. CASE l <= Len(s)  BY <1>1, <1>2, <2>1, <2>2 DEF Covered
  <2>3. CASE l > Len(s)
    <3>1. l - Len(s) \in 1 .. Len(t)  BY <2>3
    <3>2. In(p, t[l - Len(s)])  BY <1>1, <2>1, <2>3
    <3>. QED BY <1>2, <3>1, <3>2 DEF Covered
  <2>. QED BY <2>2, <2>3
<1>4. ASSUME Covered(p, s) PROVE Covered(p, s \o t)
  BY <1>1, <1>2, <1>4 DEF Covered
<1>5. ASSUME Covered(p, t) PROVE Covered(p, s \o t)
  <2>1. PICK l \in 1 .. Len(t) : In(p, t[l])  BY <1>2, <1>5 DEF Covered
  <2>2. Len(s) + l \in 1 .. Len(s) + Len(t)  OBVIOUS
  <2>. QED BY <1>1, <1>2, <2>1, <2>2 DEF Covered
<1>. QED BY <1>3, <1>4, <1>5

-----------------------------------------------------------------------------
(* Single ranges.                                                          *)

\* Range::new gives a range or nothing.
LEMMA NewIs ==
  ASSUME NEW a \in Nat, NEW b \in Loc
  PROVE  /\ New(a, b) \in Seq(Interval)
         /\ \A p \in Int : Covered(p, New(a, b)) <=> a <= p /\ p < b
<1>. USE MaxLocAssumption
<1>1. CASE a < b
  <2>1. [from |-> a, until |-> b] \in Interval  BY <1>1 DEF Interval, Loc
  <2>2. New(a, b) = <<[from |-> a, until |-> b]>>  BY <1>1 DEF New
  <2>. QED BY <2>1, <2>2 DEF Covered, In
<1>2. CASE ~(a < b)
  <2>1. New(a, b) = << >>  BY <1>2 DEF New
  <2>. QED BY <1>2, <2>1 DEF Covered, Loc
<1>. QED BY <1>1, <1>2

\* The common range covers what both ranges cover, and lies within both.
LEMMA CommonIs ==
  ASSUME NEW r1 \in Interval, NEW r2 \in Interval
  PROVE  \/ Common(r1, r2) = << >> /\ \A p \in Int : ~(In(p, r1) /\ In(p, r2))
         \/ \E c \in Interval :
              /\ Common(r1, r2) = <<c>>
              /\ c.from = Greater(r1.from, r2.from)
              /\ c.until = Smaller(r1.until, r2.until)
              /\ \A p \in Int : In(p, c) <=> In(p, r1) /\ In(p, r2)
<1>1. /\ r1.from \in Nat /\ r1.until \in Nat /\ r1.from < r1.until
      /\ r2.from \in Nat /\ r2.until \in Nat /\ r2.from < r2.until
  BY MaxLocAssumption DEF Interval, Loc
<1>2. CASE Greater(r1.from, r2.from) < Smaller(r1.until, r2.until)
  <2> DEFINE c == [from |-> Greater(r1.from, r2.from), until |-> Smaller(r1.until, r2.until)]
  <2>1. c \in Interval  BY <1>2 DEF Interval, Greater, Smaller
  <2>2. Common(r1, r2) = <<c>>
    BY <1>1, <1>2 DEF Common, CommonInOrder, New, Greater, Smaller
  <2>3. \A p \in Int : In(p, c) <=> In(p, r1) /\ In(p, r2)
    BY <1>1 DEF In, Greater, Smaller
  <2>. QED BY <2>1, <2>2, <2>3
<1>3. CASE ~(Greater(r1.from, r2.from) < Smaller(r1.until, r2.until))
  <2>1. Common(r1, r2) = << >>
    BY <1>1, <1>3 DEF Common, CommonInOrder, New, Greater, Smaller
  <2>2. \A p \in Int : ~(In(p, r1) /\ In(p, r2))
    BY <1>1, <1>3 DEF In, Greater, Smaller
  <2>. QED BY <2>1, <2>2
<1>. QED BY <1>2, <1>3

\* Two ranges merge unless they are apart, into what either covers.
LEMMA MergedIs ==
  ASSUME NEW r1 \in Interval, NEW r2 \in Interval
  PROVE  \/ Merged(r1, r2) = << >> /\ Apart(r1, r2)
         \/ \E m \in Interval :
              /\ Merged(r1, r2) = <<m>> /\ ~Apart(r1, r2)
              /\ \A p \in Int : In(p, m) <=> In(p, r1) \/ In(p, r2)
              /\ \A r \in Interval : Apart(r, r1) /\ Apart(r, r2) => Apart(r, m)
<1>1. /\ r1.from \in Nat /\ r1.until \in Nat /\ r1.from < r1.until
      /\ r2.from \in Nat /\ r2.until \in Nat /\ r2.from < r2.until
  BY MaxLocAssumption DEF Interval, Loc
<1>2. Common(r1, r2) # << >> <=> Greater(r1.from, r2.from) < Smaller(r1.until, r2.until)
  BY <1>1 DEF Common, CommonInOrder, New, Greater, Smaller
<1>3. Meet(r1, r2) <=> ~Apart(r1, r2)
  BY <1>1, <1>2 DEF Meet, Apart, Greater, Smaller
<1>4. CASE Meet(r1, r2)
  <2> DEFINE m == [from |-> Smaller(r1.from, r2.from), until |-> Greater(r1.until, r2.until)]
  <2>1. m \in Interval  BY <1>1 DEF Interval, Greater, Smaller
  <2>2. Merged(r1, r2) = <<m>>  BY <1>1, <1>4 DEF Merged, New, Greater, Smaller
  <2>3. \A p \in Int : In(p, m) <=> In(p, r1) \/ In(p, r2)
    BY <1>1, <1>3, <1>4 DEF In, Apart, Greater, Smaller
  <2>4. ASSUME NEW r \in Interval, Apart(r, r1), Apart(r, r2) PROVE Apart(r, m)
    <3>1. r.from \in Nat /\ r.until \in Nat /\ r.from < r.until
      BY MaxLocAssumption DEF Interval, Loc
    <3>. QED BY <1>1, <1>3, <1>4, <2>4, <3>1 DEF Apart, Greater, Smaller
  <2>. QED BY <1>3, <1>4, <2>1, <2>2, <2>3, <2>4
<1>5. CASE ~Meet(r1, r2)
  BY <1>3, <1>5 DEF Merged
<1>. QED BY <1>4, <1>5

\* The pieces of a range lie in it, off the excluded part, and leave out only
\* the positions of that part and beside it.
LEMMA PiecesCover ==
  ASSUME NEW r \in Interval, NEW x \in Interval, Common(r, x) # << >>, NEW p \in Int
  PROVE  /\ Pieces(r, Common(r, x)[1]) \in Seq(Interval)
         /\ Covered(p, Pieces(r, Common(r, x)[1])) => In(p, r)
         /\ In(p, r) =>
              \/ Covered(p, Pieces(r, Common(r, x)[1]))
              \/ In(p - 1, x) \/ In(p, x) \/ In(p + 1, x)
<1>1. PICK c \in Interval :
        /\ Common(r, x) = <<c>>
        /\ c.from = Greater(r.from, x.from) /\ c.until = Smaller(r.until, x.until)
        /\ \A q \in Int : In(q, c) <=> In(q, r) /\ In(q, x)
  BY CommonIs
<1>2. Common(r, x)[1] = c  BY <1>1
<1>3. /\ r.from \in Nat /\ r.until \in Loc /\ r.until \in Nat /\ r.from < r.until
      /\ x.from \in Nat /\ x.until \in Nat /\ x.from < x.until
      /\ c.from \in Nat /\ c.until \in Nat /\ c.from < c.until
      /\ Minus(c.from, 1) \in Loc /\ Minus(c.from, 1) \in Nat /\ c.until + 1 \in Nat
  BY MaxLocAssumption DEF Interval, Loc, Minus
<1>4. /\ New(r.from, Minus(c.from, 1)) \in Seq(Interval)
      /\ Covered(p, New(r.from, Minus(c.from, 1))) <=> r.from <= p /\ p < Minus(c.from, 1)
  BY <1>3, NewIs
<1>5. /\ New(c.until + 1, r.until) \in Seq(Interval)
      /\ Covered(p, New(c.until + 1, r.until)) <=> c.until + 1 <= p /\ p < r.until
  BY <1>3, NewIs
<1>6. /\ Pieces(r, c) \in Seq(Interval)
      /\ Covered(p, Pieces(r, c)) <=>
           (r.from <= p /\ p < Minus(c.from, 1)) \/ (c.until + 1 <= p /\ p < r.until)
  BY <1>4, <1>5, ConcatIs, CoveredConcat DEF Pieces
<1>7. Covered(p, Pieces(r, c)) => In(p, r)
  BY <1>1, <1>3, <1>6 DEF In, Minus, Greater, Smaller
<1>8. ASSUME In(p, r), ~Covered(p, Pieces(r, c))
      PROVE  In(p - 1, x) \/ In(p, x) \/ In(p + 1, x)
  <2>1. r.from <= p /\ p < r.until  BY <1>8 DEF In
  <2>2. Minus(c.from, 1) <= p /\ p <= c.until  BY <1>3, <1>6, <1>8, <2>1
  <2>3. c.from - 1 <= p /\ p <= c.until  BY <1>3, <2>2 DEF Minus
  <2>4. In(p - 1, c) \/ In(p, c) \/ In(p + 1, c)  BY <1>3, <2>3 DEF In
  <2>. QED BY <1>1, <2>4
<1>. QED BY <1>2, <1>6, <1>7, <1>8

\* What is pushed is a list of ranges.
LEMMA PushedTypes ==
  ASSUME NEW r1 \in Interval, NEW r2 \in Interval
  PROVE  /\ Common(r1, r2) \in Seq(Interval)
         /\ Common(r1, r2) # << >> =>
              /\ Common(r1, r2)[1] \in Interval
              /\ Pieces(r1, Common(r1, r2)[1]) \in Seq(Interval)
         /\ Merged(r1, r2) # << >> => Merged(r1, r2)[1] \in Interval
<1>1. Common(r1, r2) \in Seq(Interval)
  <2>1. << >> \in Seq(Interval) /\ \A c \in Interval : <<c>> \in Seq(Interval)  OBVIOUS
  <2>2. Common(r1, r2) = << >> \/ \E c \in Interval : Common(r1, r2) = <<c>>  BY CommonIs
  <2>. QED BY <2>1, <2>2
<1>2. ASSUME NEW c \in Interval PROVE Pieces(r1, c) \in Seq(Interval)
  <2>1. /\ Minus(c.from, 1) \in Loc /\ c.until + 1 \in Nat /\ r1.from \in Nat /\ r1.until \in Loc
    BY MaxLocAssumption DEF Interval, Loc, Minus
  <2>2. New(r1.from, Minus(c.from, 1)) \in Seq(Interval)  BY <2>1, NewIs
  <2>3. New(c.until + 1, r1.until) \in Seq(Interval)  BY <2>1, NewIs
  <2>. QED BY <2>2, <2>3, ConcatIs DEF Pieces
<1>3. Common(r1, r2) # << >> => Common(r1, r2)[1] \in Interval  BY CommonIs
<1>4. Merged(r1, r2) # << >> => Merged(r1, r2)[1] \in Interval  BY MergedIs
<1>. QED BY <1>1, <1>2, <1>3, <1>4

-----------------------------------------------------------------------------
(* Types.                                                                  *)

\* Taking up a range keeps the list a list of ranges, one shorter.
LEMMA TakenUpType ==
  ASSUME TypeOK, i <= Len(ranges), NEW k \in DOMAIN ranges, Meets(k)
  PROVE  TakenUp(k) \in Seq(Interval) /\ Len(TakenUp(k)) = Len(ranges) - 1
<1>1. ranges \in Seq(Interval) /\ i \in 1 .. Len(ranges) /\ k \in 1 .. Len(ranges)
  BY DEF TypeOK
<1>2. ranges[i] \in Interval /\ ranges[k] \in Interval  BY <1>1
<1>3. Merged(ranges[i], ranges[k])[1] \in Interval  BY <1>2, PushedTypes DEF Meets
<1> DEFINE t == [ranges EXCEPT ![i] = Merged(ranges[i], ranges[k])[1]]
<1>4. t \in Seq(Interval) /\ Len(t) = Len(ranges)
  <2> SUFFICES ASSUME NEW m \in Interval
               PROVE  /\ [ranges EXCEPT ![i] = m] \in Seq(Interval)
                      /\ Len([ranges EXCEPT ![i] = m]) = Len(ranges)
    BY <1>3
  <2>. QED BY <1>1
<1>5. TakenUp(k) = RemoveAt(t, k)  BY DEF TakenUp
<1> HIDE DEF t
<1>. QED BY <1>1, <1>4, <1>5, RemoveAtIs

\* The type invariant holds of every call.
LEMMA InitTypes == Init => TypeOK
<1> SUFFICES ASSUME Init PROVE TypeOK  OBVIOUS
<1>1. PICK n \in 0 .. MaxRanges :
        \E m \in 0 .. MaxRanges - n : in1 \in [1 .. n -> Interval] /\ in2 \in [1 .. m -> Interval]
  BY DEF Init
<1>2. PICK m \in 0 .. MaxRanges - n : in1 \in [1 .. n -> Interval] /\ in2 \in [1 .. m -> Interval]
  BY <1>1
<1>3. n \in Nat /\ m \in Nat  BY RangesAssumption, <1>1, <1>2
<1>4. in1 \in Seq(Interval)  BY <1>2, <1>3, ListIs
<1>5. in2 \in Seq(Interval)  BY <1>2, <1>3, ListIs
<1>6. in1 \o in2 \in Seq(Interval) /\ << >> \in Seq(Interval)  BY <1>4, <1>5, ConcatIs
<1>7. op \in {"common", "intersect", "union", "exclude"} /\ i = 1 /\ j \in {1, 2}
  BY DEF Init
<1>8. ranges \in Seq(Interval)  BY <1>4, <1>6, <1>7 DEF Init
<1>9. phase \in {"collect", "exclude", "eliminate", "done"}  BY <1>7 DEF Init
<1>. QED BY <1>4, <1>5, <1>7, <1>8, <1>9 DEF TypeOK

LEMMA StepTypes == TypeOK /\ [Next]_vars => TypeOK'
<1> SUFFICES ASSUME TypeOK, [Next]_vars PROVE TypeOK'  OBVIOUS
<1> USE DEF TypeOK, input, vars, Eliminate
<1>1. CASE CollectPair
  <2>1. Partners \in Seq(Interval)  BY DEF Partners
  <2>2. in1[i] \in Interval /\ Partners[j] \in Interval  BY <1>1, <2>1 DEF CollectPair
  <2>3. Common(in1[i], Partners[j]) \in Seq(Interval)  BY <2>2, PushedTypes
  <2>4. ranges' \in Seq(Interval)  BY <1>1, <2>3, ConcatIs DEF CollectPair
  <2>. QED BY <1>1, <2>4 DEF CollectPair
<1>2. CASE CollectNext  BY <1>2 DEF CollectNext, FirstPartner
<1>3. CASE CollectDone  BY <1>3 DEF CollectDone
<1>4. CASE ExcludeCut
  <2>1. PICK k \in DOMAIN in2 :
          /\ Hits(k)
          /\ ranges' = RemoveAt(ranges \o Pieces(ranges[i], Common(ranges[i], in2[k])[1]), i)
    BY <1>4 DEF ExcludeCut
  <2> DEFINE pieces == Pieces(ranges[i], Common(ranges[i], in2[k])[1])
  <2>2. ranges[i] \in Interval /\ in2[k] \in Interval /\ i \in 1 .. Len(ranges)
    BY <1>4 DEF ExcludeCut
  <2>3. pieces \in Seq(Interval)  BY <2>1, <2>2, PushedTypes DEF Hits
  <2> HIDE DEF pieces
  <2>4. ranges \o pieces \in Seq(Interval) /\ Len(ranges \o pieces) = Len(ranges) + Len(pieces)
    BY <2>3, ConcatIs
  <2>5. i \in 1 .. Len(ranges \o pieces)  BY <2>2, <2>3, <2>4
  <2>6. ranges' \in Seq(Interval)  BY <2>1, <2>4, <2>5, RemoveAtIs DEF pieces
  <2>. QED BY <1>4, <2>6 DEF ExcludeCut
<1>5. CASE ExcludeNext  BY <1>5 DEF ExcludeNext
<1>6. CASE ExcludeDone  BY <1>6 DEF ExcludeDone
<1>7. CASE EliminateMerge
  <2>1. PICK k \in DOMAIN ranges : Meets(k) /\ ranges' = TakenUp(k)
    BY <1>7 DEF EliminateMerge
  <2>2. ranges' \in Seq(Interval)  BY <1>7, <2>1, TakenUpType DEF EliminateMerge
  <2>. QED BY <1>7, <2>2 DEF EliminateMerge
<1>8. CASE EliminateNext  BY <1>8 DEF EliminateNext
<1>9. CASE EliminateDone  BY <1>9 DEF EliminateDone
<1>10. CASE UNCHANGED vars  BY <1>10
<1>. QED BY <1>1, <1>2, <1>3, <1>4, <1>5, <1>6, <1>7, <1>8, <1>9, <1>10 DEF Next

\* No list ever holds an empty range, and the indices stay in the code's types.
THEOREM TypeCorrect == Spec => []TypeOK
BY InitTypes, StepTypes, PTL DEF Spec

-----------------------------------------------------------------------------
(* Flatness.  eliminated_ranges never goes back to a range it has passed,  *)
(* which is right because of ScannedApart: the ranges before the one it is *)
(* at are apart from all others, so it only ever takes up later ones.      *)

Ended == phase = "done" => i > Len(ranges)
ScannedApart ==
  phase \in {"eliminate", "done"} =>
    \A a, b \in DOMAIN ranges : a < i /\ a # b => Apart(ranges[a], ranges[b])
FlatInv == TypeOK /\ Ended /\ ScannedApart

\* The range taken up lies behind, and the list is as before but for it and
\* the range it went into.
LEMMA TakenUpIs ==
  ASSUME TypeOK, ScannedApart, phase = "eliminate", i <= Len(ranges),
         NEW k \in DOMAIN ranges, Meets(k)
  PROVE  /\ i < k
         /\ \E m \in Interval :
              /\ \A p \in Int : In(p, m) <=> In(p, ranges[i]) \/ In(p, ranges[k])
              /\ \A r \in Interval : Apart(r, ranges[i]) /\ Apart(r, ranges[k]) => Apart(r, m)
              /\ \A l \in 1 .. Len(ranges) - 1 :
                   TakenUp(k)[l] = IF l = i THEN m ELSE IF l < k THEN ranges[l] ELSE ranges[l + 1]
<1>1. /\ ranges \in Seq(Interval) /\ i \in 1 .. Len(ranges) /\ k \in 1 .. Len(ranges)
      /\ DOMAIN ranges = 1 .. Len(ranges) /\ k # i
  BY DEF TypeOK, Meets
<1>2. ranges[i] \in Interval /\ ranges[k] \in Interval  BY <1>1
<1>3. Merged(ranges[i], ranges[k]) # << >>  BY DEF Meets
<1>4. ~Apart(ranges[i], ranges[k])  BY <1>2, <1>3, MergedIs
<1>5. Apart(ranges[k], ranges[i]) <=> Apart(ranges[i], ranges[k])  BY DEF Apart
<1>6. i < k
  <2> SUFFICES ASSUME k < i PROVE FALSE  BY <1>1
  <2>. QED BY <1>1, <1>4, <1>5 DEF ScannedApart
<1>7. PICK m \in Interval :
        /\ Merged(ranges[i], ranges[k]) = <<m>>
        /\ \A p \in Int : In(p, m) <=> In(p, ranges[i]) \/ In(p, ranges[k])
        /\ \A r \in Interval : Apart(r, ranges[i]) /\ Apart(r, ranges[k]) => Apart(r, m)
  BY <1>2, <1>3, MergedIs
<1> DEFINE t == [ranges EXCEPT ![i] = m]
<1>8. TakenUp(k) = RemoveAt(t, k)
  <2>1. Merged(ranges[i], ranges[k])[1] = m  BY <1>7
  <2>. QED BY <2>1 DEF TakenUp
<1>9. t \in Seq(Interval) /\ Len(t) = Len(ranges)
      /\ \A l \in 1 .. Len(ranges) : t[l] = IF l = i THEN m ELSE ranges[l]
  BY <1>1
<1> HIDE DEF t
<1>10. \A l \in 1 .. Len(ranges) - 1 : TakenUp(k)[l] = IF l < k THEN t[l] ELSE t[l + 1]
  <2>1. k \in 1 .. Len(t)  BY <1>1, <1>9
  <2>2. \A l \in 1 .. Len(t) - 1 : RemoveAt(t, k)[l] = IF l < k THEN t[l] ELSE t[l + 1]
    BY <1>9, <2>1, RemoveAtIs
  <2>. QED BY <1>8, <1>9, <2>2
<1>11. ASSUME NEW l \in 1 .. Len(ranges) - 1
       PROVE  TakenUp(k)[l] = IF l = i THEN m ELSE IF l < k THEN ranges[l] ELSE ranges[l + 1]
  <2>1. l \in 1 .. Len(ranges) /\ l + 1 \in 1 .. Len(ranges)  BY <1>1
  <2>2. CASE l < k  BY <1>6, <1>9, <1>10, <2>1, <2>2
  <2>3. CASE ~(l < k)
    <3>1. l + 1 # i /\ l # i  BY <1>1, <1>6, <2>3
    <3>. QED BY <1>9, <1>10, <2>1, <2>3, <3>1
  <2>. QED BY <2>2, <2>3
<1>. QED BY <1>6, <1>7, <1>11

\* A range that meets no other may be passed.
LEMMA PassedApart ==
  ASSUME FlatInv, phase = "eliminate", i <= Len(ranges), \A k \in DOMAIN ranges : ~Meets(k)
  PROVE  \A a, b \in DOMAIN ranges : a < i + 1 /\ a # b => Apart(ranges[a], ranges[b])
<1>1. ranges \in Seq(Interval) /\ i \in 1 .. Len(ranges) /\ DOMAIN ranges = 1 .. Len(ranges)
  BY DEF FlatInv, TypeOK
<1> SUFFICES ASSUME NEW a \in DOMAIN ranges, NEW b \in DOMAIN ranges, a < i + 1, a # b
             PROVE  Apart(ranges[a], ranges[b])
  OBVIOUS
<1>2. CASE a < i  BY <1>2 DEF FlatInv, ScannedApart
<1>3. CASE ~(a < i)
  <2>1. a = i  BY <1>1, <1>3
  <2>2. Merged(ranges[i], ranges[b]) = << >>  BY <2>1 DEF Meets
  <2>3. ranges[i] \in Interval /\ ranges[b] \in Interval  BY <1>1
  <2>. QED BY <2>1, <2>2, <2>3, MergedIs
<1>. QED BY <1>2, <1>3

LEMMA StepFlat == FlatInv /\ [Next]_vars => FlatInv'
<1> SUFFICES ASSUME FlatInv, [Next]_vars PROVE FlatInv'  OBVIOUS
<1>1. TypeOK'  BY StepTypes DEF FlatInv
<1>2. TypeOK /\ Ended /\ ScannedApart  BY DEF FlatInv
<1>3. Ended' /\ ScannedApart'
  <2>1. CASE CollectPair  BY <2>1 DEF CollectPair, Ended, ScannedApart
  <2>2. CASE CollectNext  BY <2>2 DEF CollectNext, Ended, ScannedApart
  <2>3. CASE CollectDone  BY <1>1, <2>3 DEF CollectDone, Eliminate, Ended, ScannedApart, TypeOK
  <2>4. CASE ExcludeCut  BY <2>4 DEF ExcludeCut, Ended, ScannedApart
  <2>5. CASE ExcludeNext  BY <2>5 DEF ExcludeNext, Ended, ScannedApart
  <2>6. CASE ExcludeDone  BY <1>1, <2>6 DEF ExcludeDone, Eliminate, Ended, ScannedApart, TypeOK
  <2>7. CASE EliminateMerge
    <3>1. phase = "eliminate" /\ i <= Len(ranges) /\ phase' = phase /\ i' = i
      BY <2>7 DEF EliminateMerge
    <3>2. PICK k \in DOMAIN ranges : Meets(k) /\ ranges' = TakenUp(k)
      BY <2>7 DEF EliminateMerge
    <3>3. i < k  BY <1>2, <3>1, <3>2, TakenUpIs
    <3>4. PICK m \in Interval :
            /\ \A r \in Interval : Apart(r, ranges[i]) /\ Apart(r, ranges[k]) => Apart(r, m)
            /\ \A l \in 1 .. Len(ranges) - 1 :
                 TakenUp(k)[l] = IF l = i THEN m ELSE IF l < k THEN ranges[l] ELSE ranges[l + 1]
      BY <1>2, <3>1, <3>2, TakenUpIs
    <3>5. Len(ranges') = Len(ranges) - 1  BY <1>2, <3>1, <3>2, TakenUpType
    <3>6. /\ ranges \in Seq(Interval) /\ ranges' \in Seq(Interval) /\ i \in 1 .. Len(ranges)
          /\ k \in 1 .. Len(ranges) /\ DOMAIN ranges = 1 .. Len(ranges)
          /\ DOMAIN ranges' = 1 .. Len(ranges) - 1
      BY <1>1, <1>2, <3>1, <3>5 DEF TypeOK
    <3>7. ASSUME NEW a \in DOMAIN ranges', NEW b \in DOMAIN ranges', a < i, a # b
          PROVE  Apart(ranges'[a], ranges'[b])
      <4>1. ranges'[a] = ranges[a] /\ a \in 1 .. Len(ranges) /\ a # k /\ ranges[a] \in Interval
        BY <3>2, <3>3, <3>4, <3>6, <3>7
      <4>2. \A c \in 1 .. Len(ranges) : a # c => Apart(ranges[a], ranges[c])
        BY <1>2, <3>1, <3>6, <3>7, <4>1 DEF ScannedApart
      <4>3. CASE b = i
        <5>1. ranges'[b] = m  BY <3>2, <3>4, <3>6, <4>3
        <5>2. Apart(ranges[a], ranges[i]) /\ Apart(ranges[a], ranges[k])
          BY <3>6, <3>7, <4>1, <4>2
        <5>. QED BY <3>4, <4>1, <5>1, <5>2
      <4>4. CASE b # i /\ b < k
        <5>1. ranges'[b] = ranges[b] /\ b \in 1 .. Len(ranges)  BY <3>2, <3>4, <3>6, <4>4
        <5>. QED BY <3>7, <4>1, <4>2, <5>1
      <4>5. CASE b # i /\ ~(b < k)
        <5>1. ranges'[b] = ranges[b + 1] /\ b + 1 \in 1 .. Len(ranges) /\ a # b + 1
          BY <3>2, <3>3, <3>4, <3>6, <3>7, <4>5
        <5>. QED BY <4>1, <4>2, <5>1
      <4>. QED BY <4>3, <4>4, <4>5
    <3>. QED BY <3>1, <3>7 DEF Ended, ScannedApart
  <2>8. CASE EliminateNext
    <3>1. \A a, b \in DOMAIN ranges : a < i + 1 /\ a # b => Apart(ranges[a], ranges[b])
      BY <2>8, PassedApart DEF EliminateNext
    <3>. QED BY <2>8, <3>1 DEF EliminateNext, Ended, ScannedApart
  <2>9. CASE EliminateDone  BY <1>2, <2>9 DEF EliminateDone, input, Ended, ScannedApart, TypeOK
  <2>10. CASE UNCHANGED vars  BY <1>2, <2>10 DEF vars, input, Ended, ScannedApart
  <2>. QED BY <2>1, <2>2, <2>3, <2>4, <2>5, <2>6, <2>7, <2>8, <2>9, <2>10 DEF Next
<1>. QED BY <1>1, <1>3 DEF FlatInv

LEMMA InitFlat == Init => FlatInv
<1> SUFFICES ASSUME Init PROVE FlatInv  OBVIOUS
<1>1. TypeOK  BY InitTypes
<1>2. phase # "done" /\ i = 1  BY <1>1 DEF Init, TypeOK
<1>3. \A a \in DOMAIN ranges : ~(a < i)  BY <1>1, <1>2 DEF TypeOK
<1>. QED BY <1>1, <1>2, <1>3 DEF FlatInv, Ended, ScannedApart

LEMMA FlatInvFlat == FlatInv => FlatResult
<1> SUFFICES ASSUME FlatInv, phase = "done", NEW k \in DOMAIN ranges, NEW l \in DOMAIN ranges, k # l
             PROVE  Apart(ranges[k], ranges[l])
  BY DEF FlatResult
<1>1. k < i  BY DEF FlatInv, Ended, TypeOK
<1>. QED BY <1>1 DEF FlatInv, ScannedApart

\* No two ranges of a result overlap or touch, for lists of any length.
THEOREM ResultIsFlat == Spec => []FlatResult
BY InitFlat, StepFlat, FlatInvFlat, PTL DEF Spec

-----------------------------------------------------------------------------
(* Coverage.  The list collected covers what the pairs seen so far have in *)
(* common; a cut loses only positions near an exclude; merging keeps what  *)
(* a list covers.                                                          *)

Seen(a, b) == (a < i \/ (a = i /\ b < j)) /\ (op = "common" => a < b)
Collected ==
  phase = "collect" =>
    /\ op \in {"common", "intersect"} /\ (op = "common" => i < j)
    /\ \A p \in Int :
         Covered(p, ranges) <=>
           \E a \in DOMAIN in1, b \in DOMAIN Partners :
             Seen(a, b) /\ In(p, in1[a]) /\ In(p, Partners[b])

Kept(p) ==
  /\ Covered(p, ranges) => Covered(p, in1)
  /\ Covered(p, in1) /\ ~Near(p, in2) => Covered(p, ranges)
Cutting ==
  phase = "exclude" =>
    /\ op = "exclude"
    /\ \A p \in Int : Kept(p)
    /\ \A a \in DOMAIN ranges : a < i => \A p \in Int : ~(In(p, ranges[a]) /\ Covered(p, in2))

Covering ==
  phase \in {"eliminate", "done"} =>
    IF op = "exclude"
    THEN \A p \in Int : Kept(p) /\ ~(Covered(p, ranges) /\ Covered(p, in2))
    ELSE \A p \in Int : Covered(p, ranges) <=> Wanted(p)

CoverInv == FlatInv /\ Collected /\ Cutting /\ Covering

\* Taking up a range keeps what the list covers.
LEMMA TakenUpCovers ==
  ASSUME FlatInv, phase = "eliminate", i <= Len(ranges), NEW k \in DOMAIN ranges, Meets(k),
         NEW p \in Int
  PROVE  Covered(p, TakenUp(k)) <=> Covered(p, ranges)
<1>1. TypeOK /\ ScannedApart  BY DEF FlatInv
<1>2. i < k  BY <1>1, TakenUpIs
<1>3. PICK m \in Interval :
        /\ \A q \in Int : In(q, m) <=> In(q, ranges[i]) \/ In(q, ranges[k])
        /\ \A l \in 1 .. Len(ranges) - 1 :
             TakenUp(k)[l] = IF l = i THEN m ELSE IF l < k THEN ranges[l] ELSE ranges[l + 1]
  BY <1>1, TakenUpIs
<1>4. /\ ranges \in Seq(Interval) /\ DOMAIN ranges = 1 .. Len(ranges)
      /\ i \in 1 .. Len(ranges) /\ k \in 1 .. Len(ranges)
      /\ DOMAIN TakenUp(k) = 1 .. Len(ranges) - 1
  BY <1>1, TakenUpType DEF TypeOK
<1>5. ASSUME NEW l \in 1 .. Len(ranges) - 1, In(p, TakenUp(k)[l]) PROVE Covered(p, ranges)
  <2>1. CASE l = i  BY <1>3, <1>4, <1>5, <2>1 DEF Covered
  <2>2. CASE l # i /\ l < k  BY <1>3, <1>4, <1>5, <2>2 DEF Covered
  <2>3. CASE l # i /\ ~(l < k)
    <3>1. l + 1 \in 1 .. Len(ranges) /\ In(p, ranges[l + 1])  BY <1>3, <1>4, <1>5, <2>3
    <3>. QED BY <1>4, <3>1 DEF Covered
  <2>. QED BY <2>1, <2>2, <2>3
<1>6. ASSUME NEW l \in 1 .. Len(ranges), In(p, ranges[l]) PROVE Covered(p, TakenUp(k))
  <2>1. CASE l = i \/ l = k
    <3>1. i \in 1 .. Len(ranges) - 1 /\ In(p, TakenUp(k)[i])
      BY <1>2, <1>3, <1>4, <1>6, <2>1
    <3>. QED BY <1>4, <3>1 DEF Covered
  <2>2. CASE l # i /\ l < k
    <3>1. l \in 1 .. Len(ranges) - 1 /\ In(p, TakenUp(k)[l])  BY <1>3, <1>4, <1>6, <2>2
    <3>. QED BY <1>4, <3>1 DEF Covered
  <2>3. CASE l > k
    <3>1. l - 1 \in 1 .. Len(ranges) - 1 /\ l - 1 # i /\ ~(l - 1 < k) /\ (l - 1) + 1 = l
      BY <1>2, <1>4, <2>3
    <3>2. In(p, TakenUp(k)[l - 1])  BY <1>3, <1>6, <3>1
    <3>. QED BY <1>4, <3>1, <3>2 DEF Covered
  <2>. QED BY <1>4, <2>1, <2>2, <2>3
<1>. QED BY <1>4, <1>5, <1>6 DEF Covered

\* Removing a range loses at most what it covers.
LEMMA RemoveCovers ==
  ASSUME NEW s \in Seq(Interval), NEW k \in 1 .. Len(s), NEW p \in Int
  PROVE  /\ Covered(p, RemoveAt(s, k)) => Covered(p, s)
         /\ \A l \in 1 .. Len(s) : l # k /\ In(p, s[l]) => Covered(p, RemoveAt(s, k))
<1> DEFINE t == RemoveAt(s, k)
<1>1. /\ t \in Seq(Interval) /\ Len(t) = Len(s) - 1
      /\ \A l \in 1 .. Len(s) - 1 : t[l] = IF l < k THEN s[l] ELSE s[l + 1]
  BY RemoveAtIs
<1> HIDE DEF t
<1>2. DOMAIN t = 1 .. Len(s) - 1 /\ DOMAIN s = 1 .. Len(s)  BY <1>1
<1>3. ASSUME NEW l \in 1 .. Len(s) - 1, In(p, t[l]) PROVE Covered(p, s)
  <2>1. CASE l < k  BY <1>1, <1>2, <1>3, <2>1 DEF Covered
  <2>2. CASE ~(l < k)
    <3>1. l + 1 \in 1 .. Len(s) /\ In(p, s[l + 1])  BY <1>1, <1>3, <2>2
    <3>. QED BY <1>2, <3>1 DEF Covered
  <2>. QED BY <2>1, <2>2
<1>4. ASSUME NEW l \in 1 .. Len(s), In(p, s[l]), l # k PROVE Covered(p, t)
  <2>1. CASE l < k
    <3>1. l \in 1 .. Len(s) - 1 /\ In(p, t[l])  BY <1>1, <1>4, <2>1
    <3>. QED BY <1>2, <3>1 DEF Covered
  <2>2. CASE l > k
    <3>1. l - 1 \in 1 .. Len(s) - 1 /\ ~(l - 1 < k) /\ (l - 1) + 1 = l  BY <2>2
    <3>2. In(p, t[l - 1])  BY <1>1, <1>4, <3>1
    <3>. QED BY <1>2, <3>1, <3>2 DEF Covered
  <2>. QED BY <1>4, <2>1, <2>2
<1>5. Covered(p, t) => Covered(p, s)  BY <1>2, <1>3 DEF Covered
<1>. QED BY <1>4, <1>5 DEF t

\* One cut of a range.
LEMMA CutKeeps ==
  ASSUME TypeOK, Cutting, phase = "exclude", i <= Len(ranges), NEW k \in DOMAIN in2, Hits(k),
         ranges' = RemoveAt(ranges \o Pieces(ranges[i], Common(ranges[i], in2[k])[1]), i)
  PROVE  /\ \A a \in DOMAIN ranges' : a < i => ranges'[a] = ranges[a] /\ a \in DOMAIN ranges
         /\ \A p \in Int :
              /\ Covered(p, ranges') => Covered(p, in1)
              /\ Covered(p, in1) /\ ~Near(p, in2) => Covered(p, ranges')
<1> DEFINE pieces == Pieces(ranges[i], Common(ranges[i], in2[k])[1])
           s == ranges \o pieces
<1>1. /\ ranges \in Seq(Interval) /\ in2 \in Seq(Interval) /\ i \in 1 .. Len(ranges)
      /\ DOMAIN ranges = 1 .. Len(ranges) /\ DOMAIN in2 = 1 .. Len(in2)
      /\ ranges[i] \in Interval /\ in2[k] \in Interval
  BY DEF TypeOK
<1>2. Common(ranges[i], in2[k]) # << >>  BY DEF Hits
<1>3. /\ pieces \in Seq(Interval)
      /\ \A p \in Int : Covered(p, pieces) => In(p, ranges[i])
      /\ \A p \in Int : In(p, ranges[i]) =>
           Covered(p, pieces) \/ In(p - 1, in2[k]) \/ In(p, in2[k]) \/ In(p + 1, in2[k])
  BY <1>1, <1>2, PiecesCover
<1>4. ranges' = RemoveAt(s, i)  OBVIOUS
<1> HIDE DEF pieces
<1>5. /\ s \in Seq(Interval) /\ Len(s) = Len(ranges) + Len(pieces) /\ Len(pieces) \in Nat
      /\ \A l \in 1 .. Len(ranges) : s[l] = ranges[l]
      /\ \A l \in 1 .. Len(pieces) : s[Len(ranges) + l] = pieces[l]
  <2> SUFFICES ASSUME NEW t \in Seq(Interval), t = pieces
               PROVE  /\ ranges \o t \in Seq(Interval) /\ Len(ranges \o t) = Len(ranges) + Len(t)
                      /\ Len(t) \in Nat
                      /\ \A l \in 1 .. Len(ranges) : (ranges \o t)[l] = ranges[l]
                      /\ \A l \in 1 .. Len(t) : (ranges \o t)[Len(ranges) + l] = t[l]
    BY <1>3
  <2>. QED BY <1>1
<1>6. \A p \in Int : Covered(p, s) <=> Covered(p, ranges) \/ Covered(p, pieces)
  BY <1>1, <1>3, CoveredConcat
<1> HIDE DEF s
<1>7. i \in 1 .. Len(s)  BY <1>1, <1>5
<1>8. /\ ranges' \in Seq(Interval) /\ Len(ranges') = Len(s) - 1
      /\ \A l \in 1 .. Len(s) - 1 : ranges'[l] = IF l < i THEN s[l] ELSE s[l + 1]
  <2>1. /\ RemoveAt(s, i) \in Seq(Interval) /\ Len(RemoveAt(s, i)) = Len(s) - 1
        /\ \A l \in 1 .. Len(s) - 1 : RemoveAt(s, i)[l] = IF l < i THEN s[l] ELSE s[l + 1]
    BY <1>5, <1>7, RemoveAtIs
  <2>. QED BY <1>4, <2>1
<1>9. ASSUME NEW p \in Int
      PROVE  /\ Covered(p, ranges') => Covered(p, s)
             /\ \A l \in 1 .. Len(s) : l # i /\ In(p, s[l]) => Covered(p, ranges')
  BY <1>4, <1>5, <1>7, RemoveCovers
<1>10. \A p \in Int : Kept(p)  BY DEF Cutting
<1>11. ASSUME NEW a \in DOMAIN ranges', a < i PROVE ranges'[a] = ranges[a] /\ a \in DOMAIN ranges
  <2>1. a \in 1 .. Len(s) - 1  BY <1>8
  <2>2. ranges'[a] = s[a] /\ a \in 1 .. Len(ranges)  BY <1>1, <1>8, <1>11, <2>1
  <2>. QED BY <1>1, <1>5, <2>2
<1>12. ASSUME NEW p \in Int, Covered(p, ranges') PROVE Covered(p, in1)
  <2>1. Covered(p, ranges) \/ Covered(p, pieces)  BY <1>6, <1>9, <1>12
  <2>2. Covered(p, ranges)  BY <1>1, <1>3, <2>1 DEF Covered
  <2>. QED BY <1>10, <2>2 DEF Kept
<1>13. ASSUME NEW p \in Int, Covered(p, in1), ~Near(p, in2) PROVE Covered(p, ranges')
  <2>1. PICK l \in 1 .. Len(ranges) : In(p, ranges[l])
    BY <1>1, <1>10, <1>13 DEF Kept, Covered
  <2>2. CASE l # i
    <3>1. l \in 1 .. Len(s) /\ In(p, s[l])  BY <1>1, <1>5, <2>1
    <3>. QED BY <1>9, <2>2, <3>1
  <2>3. CASE l = i
    <3>1. ~In(p - 1, in2[k]) /\ ~In(p, in2[k]) /\ ~In(p + 1, in2[k])
      BY <1>13 DEF Near, Covered
    <3>2. Covered(p, pieces)  BY <1>3, <2>1, <2>3, <3>1
    <3>3. PICK q \in 1 .. Len(pieces) : In(p, pieces[q])  BY <1>3, <3>2 DEF Covered
    <3>4. Len(ranges) + q \in 1 .. Len(s) /\ Len(ranges) + q # i /\ In(p, s[Len(ranges) + q])
      BY <1>1, <1>5, <3>3
    <3>. QED BY <1>9, <3>4
  <2>. QED BY <2>2, <2>3
<1>. QED BY <1>11, <1>12, <1>13

LEMMA InitCovers == Init => CoverInv
<1> SUFFICES ASSUME Init PROVE CoverInv  OBVIOUS
<1>1. FlatInv  BY InitFlat
<1>2. TypeOK /\ i = 1 /\ op \in {"common", "intersect", "union", "exclude"}
  BY <1>1 DEF FlatInv, Init
<1>3. Collected
  <2> SUFFICES ASSUME phase = "collect" PROVE Collected  BY DEF Collected
  <2>1. op \in {"common", "intersect"} /\ ranges = << >> /\ j = IF op = "common" THEN 2 ELSE 1
    BY <1>2 DEF Init
  <2>2. \A p : ~Covered(p, ranges)  BY <2>1 DEF Covered
  <2>3. ASSUME NEW a \in DOMAIN in1, NEW b \in DOMAIN Partners PROVE ~Seen(a, b)
    <3>1. a \in Nat \ {0} /\ b \in Nat \ {0}  BY <1>2 DEF Partners, TypeOK
    <3>. QED BY <1>2, <2>1, <3>1 DEF Seen
  <2>. QED BY <1>2, <2>1, <2>2, <2>3 DEF Collected
<1>4. Cutting
  <2> SUFFICES ASSUME phase = "exclude" PROVE Cutting  BY DEF Cutting
  <2>1. op = "exclude" /\ ranges = in1  BY <1>2 DEF Init
  <2>2. \A a \in DOMAIN ranges : ~(a < i)  BY <1>2 DEF TypeOK
  <2>. QED BY <2>1, <2>2 DEF Cutting, Kept
<1>5. Covering
  <2> SUFFICES ASSUME phase \in {"eliminate", "done"} PROVE Covering  BY DEF Covering
  <2>1. op = "union" /\ ranges = in1 \o in2  BY <1>2 DEF Init
  <2>2. \A p \in Int : Covered(p, ranges) <=> Covered(p, in1) \/ Covered(p, in2)
    BY <1>2, <2>1, CoveredConcat DEF TypeOK
  <2>. QED BY <2>1, <2>2 DEF Covering, Wanted
<1>. QED BY <1>1, <1>3, <1>4, <1>5 DEF CoverInv

LEMMA StepCovers == CoverInv /\ [Next]_vars => CoverInv'
<1> SUFFICES ASSUME CoverInv, [Next]_vars PROVE CoverInv'  OBVIOUS
<1>1. FlatInv' /\ TypeOK'  BY StepFlat DEF CoverInv, FlatInv
<1>2. FlatInv /\ TypeOK /\ Collected /\ Cutting /\ Covering  BY DEF CoverInv, FlatInv
<1>3. Collected' /\ Cutting' /\ Covering'
  <2>1. CASE CollectPair
    <3>1. /\ phase = "collect" /\ phase' = "collect" /\ op' = op /\ in1' = in1 /\ in2' = in2
          /\ i' = i /\ j' = j + 1 /\ Partners' = Partners
          /\ ranges' = ranges \o Common(in1[i], Partners[j])
      BY <2>1 DEF CollectPair, input, Partners
    <3>2. /\ Partners \in Seq(Interval) /\ i \in DOMAIN in1 /\ j \in DOMAIN Partners
          /\ in1[i] \in Interval /\ Partners[j] \in Interval
      BY <1>2, <2>1 DEF CollectPair, Partners, TypeOK
    <3>3. /\ op \in {"common", "intersect"} /\ (op = "common" => i < j)
          /\ \A p \in Int :
               Covered(p, ranges) <=>
                 \E a \in DOMAIN in1, b \in DOMAIN Partners :
                   Seen(a, b) /\ In(p, in1[a]) /\ In(p, Partners[b])
      BY <1>2, <3>1 DEF Collected
    <3>4. \A p \in Int : Covered(p, Common(in1[i], Partners[j])) <=> In(p, in1[i]) /\ In(p, Partners[j])
      <4>1. \/ Common(in1[i], Partners[j]) = << >> /\ \A p \in Int : ~(In(p, in1[i]) /\ In(p, Partners[j]))
            \/ \E c \in Interval :
                 /\ Common(in1[i], Partners[j]) = <<c>>
                 /\ \A p \in Int : In(p, c) <=> In(p, in1[i]) /\ In(p, Partners[j])
        BY <3>2, CommonIs
      <4>. QED BY <4>1 DEF Covered
    <3>5. \A p \in Int : Covered(p, ranges') <=> Covered(p, ranges) \/ (In(p, in1[i]) /\ In(p, Partners[j]))
      BY <1>2, <3>1, <3>2, <3>4, PushedTypes, CoveredConcat DEF TypeOK
    <3>6. ASSUME NEW a \in DOMAIN in1, NEW b \in DOMAIN Partners
          PROVE  Seen(a, b)' <=> Seen(a, b) \/ (a = i /\ b = j)
      <4>1. a \in Nat /\ b \in Nat /\ i \in Nat /\ j \in Nat  BY <1>2, <3>2 DEF TypeOK
      <4>. QED BY <3>1, <3>3, <4>1 DEF Seen
    <3>7. ASSUME NEW p \in Int
          PROVE  Covered(p, ranges') <=>
                   \E a \in DOMAIN in1, b \in DOMAIN Partners :
                     Seen(a, b)' /\ In(p, in1[a]) /\ In(p, Partners[b])
      BY <3>2, <3>3, <3>5, <3>6
    <3>8. op' = "common" => i' < j'  BY <1>2, <3>1, <3>3 DEF TypeOK
    <3>. QED BY <3>1, <3>3, <3>7, <3>8 DEF Collected, Cutting, Covering
  <2>2. CASE CollectNext
    <3>1. /\ phase = "collect" /\ phase' = "collect" /\ op' = op /\ in1' = in1 /\ in2' = in2
          /\ i' = i + 1 /\ j' = FirstPartner(i + 1) /\ Partners' = Partners /\ ranges' = ranges
          /\ j > Len(Partners)
      BY <2>2 DEF CollectNext, input, Partners
    <3>2. op \in {"common", "intersect"}  BY <1>2, <3>1 DEF Collected
    <3>3. ASSUME NEW a \in DOMAIN in1, NEW b \in DOMAIN Partners
          PROVE  Seen(a, b)' <=> Seen(a, b)
      <4>1. a \in Nat \ {0} /\ b \in Nat \ {0} /\ b <= Len(Partners) /\ i \in Nat /\ j \in Nat
            /\ Len(Partners) \in Nat
        BY <1>2 DEF TypeOK, Partners
      <4>. QED BY <3>1, <3>2, <4>1 DEF Seen, FirstPartner
    <3>4. op = "common" => i' < j'  BY <1>2, <3>1 DEF FirstPartner, TypeOK
    <3>. QED BY <1>2, <3>1, <3>2, <3>3, <3>4 DEF Collected, Cutting, Covering
  <2>3. CASE CollectDone
    <3>1. /\ phase = "collect" /\ phase' = "eliminate" /\ op' = op /\ in1' = in1 /\ in2' = in2
          /\ ranges' = ranges /\ i > Len(in1)
      BY <2>3 DEF CollectDone, Eliminate, input
    <3>2. /\ op \in {"common", "intersect"}
          /\ \A p \in Int :
               Covered(p, ranges) <=>
                 \E a \in DOMAIN in1, b \in DOMAIN Partners :
                   Seen(a, b) /\ In(p, in1[a]) /\ In(p, Partners[b])
      BY <1>2, <3>1 DEF Collected
    <3>3. ASSUME NEW a \in DOMAIN in1, NEW b \in DOMAIN Partners
          PROVE  Seen(a, b) <=> (op = "common" => a < b)
      BY <1>2, <3>1 DEF Seen, TypeOK
    <3>4. ASSUME NEW p \in Int PROVE Covered(p, ranges) <=> Wanted(p)
      <4>1. CASE op = "common"
        BY <3>2, <3>3, <4>1 DEF Wanted, CoveredTwice, Partners
      <4>2. CASE op = "intersect"
        BY <3>2, <3>3, <4>2 DEF Wanted, Covered, Partners
      <4>. QED BY <3>2, <4>1, <4>2
    <3>. QED BY <3>1, <3>2, <3>4 DEF Collected, Cutting, Covering, Wanted, CoveredTwice, Covered
  <2>4. CASE ExcludeCut
    <3>1. /\ phase = "exclude" /\ phase' = "exclude" /\ i <= Len(ranges) /\ i' = i
          /\ op' = op /\ in1' = in1 /\ in2' = in2
      BY <2>4 DEF ExcludeCut, input
    <3>2. PICK k \in DOMAIN in2 :
            /\ Hits(k)
            /\ ranges' = RemoveAt(ranges \o Pieces(ranges[i], Common(ranges[i], in2[k])[1]), i)
      BY <2>4 DEF ExcludeCut
    <3>3. /\ \A a \in DOMAIN ranges' : a < i => ranges'[a] = ranges[a] /\ a \in DOMAIN ranges
          /\ \A p \in Int :
               /\ Covered(p, ranges') => Covered(p, in1)
               /\ Covered(p, in1) /\ ~Near(p, in2) => Covered(p, ranges')
      BY <1>2, <3>1, <3>2, CutKeeps
    <3>4. op = "exclude" /\ \A a \in DOMAIN ranges : a < i => \A p \in Int : ~(In(p, ranges[a]) /\ Covered(p, in2))
      BY <1>2, <3>1 DEF Cutting
    <3>5. ASSUME NEW p \in Int PROVE Kept(p)'
      BY <3>1, <3>3 DEF Kept, Near, Covered
    <3>6. \A a \in DOMAIN ranges' : a < i => \A p \in Int : ~(In(p, ranges'[a]) /\ Covered(p, in2))
      BY <3>3, <3>4
    <3>. QED BY <3>1, <3>4, <3>5, <3>6 DEF Collected, Cutting, Covering
  <2>5. CASE ExcludeNext
    <3>1. /\ phase = "exclude" /\ phase' = "exclude" /\ i <= Len(ranges) /\ i' = i + 1
          /\ op' = op /\ in1' = in1 /\ in2' = in2 /\ ranges' = ranges
          /\ \A k \in DOMAIN in2 : ~Hits(k)
      BY <2>5 DEF ExcludeNext, input
    <3>2. i \in DOMAIN ranges /\ ranges[i] \in Interval  BY <1>2, <3>1 DEF TypeOK
    <3>3. ASSUME NEW p \in Int, In(p, ranges[i]), NEW k \in DOMAIN in2 PROVE ~In(p, in2[k])
      <4>1. in2[k] \in Interval  BY <1>2 DEF TypeOK
      <4>2. Common(ranges[i], in2[k]) = << >>  BY <3>1 DEF Hits
      <4>. QED BY <3>2, <3>3, <4>1, <4>2, CommonIs
    <3>4. op = "exclude" /\ \A a \in DOMAIN ranges : a < i => \A p \in Int : ~(In(p, ranges[a]) /\ Covered(p, in2))
      BY <1>2, <3>1 DEF Cutting
    <3>5. ASSUME NEW a \in DOMAIN ranges, a < i + 1, NEW p \in Int
          PROVE  ~(In(p, ranges[a]) /\ Covered(p, in2))
      <4>1. CASE a < i  BY <3>4, <4>1
      <4>2. CASE ~(a < i)
        <5>1. a = i  BY <1>2, <3>5, <4>2 DEF TypeOK
        <5>. QED BY <3>3, <5>1 DEF Covered
      <4>. QED BY <4>1, <4>2
    <3>6. \A p \in Int : Kept(p)'
      BY <1>2, <3>1 DEF Cutting, Kept, Near, Covered
    <3>. QED BY <3>1, <3>4, <3>5, <3>6 DEF Collected, Cutting, Covering
  <2>6. CASE ExcludeDone
    <3>1. /\ phase = "exclude" /\ phase' = "eliminate" /\ i > Len(ranges)
          /\ op' = op /\ in1' = in1 /\ in2' = in2 /\ ranges' = ranges
      BY <2>6 DEF ExcludeDone, Eliminate, input
    <3>2. op = "exclude" /\ (\A p \in Int : Kept(p))
          /\ \A a \in DOMAIN ranges : a < i => \A p \in Int : ~(In(p, ranges[a]) /\ Covered(p, in2))
      BY <1>2, <3>1 DEF Cutting
    <3>3. \A a \in DOMAIN ranges : a < i  BY <1>2, <3>1 DEF TypeOK
    <3>4. \A p \in Int : ~(Covered(p, ranges) /\ Covered(p, in2))
      <4>1. ASSUME NEW p \in Int, Covered(p, ranges) PROVE ~Covered(p, in2)
        <5>1. PICK a \in DOMAIN ranges : In(p, ranges[a])  BY <4>1 DEF Covered
        <5>. QED BY <3>2, <3>3, <5>1
      <4>. QED BY <4>1
    <3>5. \A p \in Int : Kept(p)'  BY <3>1, <3>2 DEF Kept, Near, Covered
    <3>. QED BY <3>1, <3>2, <3>4, <3>5 DEF Collected, Cutting, Covering, Covered
  <2>7. CASE EliminateMerge
    <3>1. /\ phase = "eliminate" /\ phase' = "eliminate" /\ i <= Len(ranges)
          /\ op' = op /\ in1' = in1 /\ in2' = in2
      BY <2>7 DEF EliminateMerge, input
    <3>2. PICK k \in DOMAIN ranges : Meets(k) /\ ranges' = TakenUp(k)
      BY <2>7 DEF EliminateMerge
    <3>3. \A p \in Int : Covered(p, ranges') <=> Covered(p, ranges)
      BY <1>2, <3>1, <3>2, TakenUpCovers
    <3>. QED BY <1>2, <3>1, <3>3 DEF Collected, Cutting, Covering, Kept, Wanted, Near, Covered, CoveredTwice
  <2>8. CASE EliminateNext
    BY <1>2, <2>8 DEF EliminateNext, input, Collected, Cutting, Covering, Kept, Wanted, Near, Covered, CoveredTwice
  <2>9. CASE EliminateDone
    BY <1>2, <2>9 DEF EliminateDone, input, Collected, Cutting, Covering, Kept, Wanted, Near, Covered, CoveredTwice
  <2>10. CASE UNCHANGED vars
    BY <1>2, <2>10 DEF vars, input, Collected, Cutting, Covering, Kept, Wanted, Near, Covered, CoveredTwice, Seen, Partners
  <2>. QED BY <2>1, <2>2, <2>3, <2>4, <2>5, <2>6, <2>7, <2>8, <2>9, <2>10 DEF Next
<1>. QED BY <1>1, <1>3 DEF CoverInv

LEMMA CoverInvCovers == CoverInv => CoversExactly /\ ExcludesExactly
<1>. Loc \subseteq Int  BY MaxLocAssumption DEF Loc
<1>. QED BY DEF CoverInv, Covering, CoversExactly, ExcludesExactly, Kept

\* Intersection, union and twice-covered ranges cover exactly what they should,
\* for lists of any length.
THEOREM CoverageIsExact == Spec => []CoversExactly
BY InitCovers, StepCovers, CoverInvCovers, PTL DEF Spec

\* Exclusion leaves nothing of what is excluded and loses only positions near it.
THEOREM ExclusionIsExact == Spec => []ExcludesExactly
BY InitCovers, StepCovers, CoverInvCovers, PTL DEF Spec
-----------------------------------------------------------------------------
(* Positions.  Induction over numbers, as a fact about sets of them.       *)

Below == {ss \in Nat \X Nat : ss[1] < ss[2]}

\* The order of the numbers is well-founded: so is the inclusion of the intervals below them.
LEMMA BelowWellFounded == IsWellFoundedOn(Below, Nat)
<1> DEFINE U(k) == 0 .. k - 1
<1>1. ASSUME NEW k \in Nat PROVE U(k) \in FiniteSubsetsOf(Nat)
  <2>1. U(k) \in SUBSET Nat
    OBVIOUS
  <2>2. IsFiniteSet(U(k))
    BY FS_Interval
  <2> QED
    BY <2>1, <2>2 DEF FiniteSubsetsOf
<1>2. ASSUME NEW a \in Nat, NEW b \in Nat, <<a, b>> \in Below
      PROVE  <<U(a), U(b)>> \in StrictSubsetOrdering(Nat)
  <2>1. a < b
    BY <1>2 DEF Below
  <2>2. U(a) \subseteq U(b) /\ U(a) \in SUBSET Nat /\ U(b) \in SUBSET Nat
    BY <2>1
  <2>3. a \in U(b) /\ a \notin U(a)
    BY <2>1
  <2> QED
    BY <2>2, <2>3 DEF StrictSubsetOrdering
<1> HIDE DEF U
<1>3. SUFFICES ASSUME NEW f \in [Nat -> Nat], \A n \in Nat : <<f[n + 1], f[n]>> \in Below
               PROVE  FALSE
  BY DEF IsWellFoundedOn
<1> DEFINE g == [n \in Nat |-> U(f[n])]
<1>4. g \in [Nat -> FiniteSubsetsOf(Nat)]
  BY <1>1
<1>5. ASSUME NEW n \in Nat PROVE <<g[n + 1], g[n]>> \in StrictSubsetOrdering(Nat)
  <2>1. /\ f[n] \in Nat /\ f[n + 1] \in Nat /\ <<f[n + 1], f[n]>> \in Below
        /\ g[n] = U(f[n]) /\ g[n + 1] = U(f[n + 1])
    BY <1>3
  <2> HIDE DEF g
  <2> QED
    BY <1>2, <2>1
<1> QED
  BY <1>4, <1>5, FS_StrictSubsetOrderingWellFounded DEF IsWellFoundedOn

\* A set that has 0, and with every number the next one, has all numbers.
LEMMA Induct ==
  ASSUME NEW S \in SUBSET Nat, 0 \in S, \A n \in S : n + 1 \in S
  PROVE  S = Nat
<1>1. SUFFICES ASSUME Nat \ S # {} PROVE FALSE
  OBVIOUS
<1>2. PICK x \in Nat \ S : \A y \in Nat \ S : ~ (<<y, x>> \in Below)
  BY <1>1, BelowWellFounded, WFMin
<1>3. \A y \in Nat \ S : ~ (y < x)
  BY <1>2 DEF Below
<1>4. x - 1 \in Nat /\ x - 1 \in S
  BY <1>3
<1> QED
  BY <1>2, <1>4

-----------------------------------------------------------------------------
(* Texts without CR.                                                       *)

KeptTo(s, f, n) ==
  f = [m \in 0 .. n |-> IF m = 0 THEN << >> ELSE IF s[m] = "cr" THEN f[m - 1] ELSE Append(f[m - 1], s[m])]

\* The recursion that drops the CR of a text has a solution, for each of its prefixes.
LEMMA KeptExists ==
  ASSUME NEW s, NEW n \in Nat
  PROVE  \E f : KeptTo(s, f, n)
<1> DEFINE T == {m \in Nat : \E f : KeptTo(s, f, m)}
<1>1. 0 \in T
  <2> DEFINE g == [m \in 0 .. 0 |-> << >>]
  <2>1. KeptTo(s, g, 0)
    BY DEF KeptTo
  <2> QED
    BY <2>1
<1>2. ASSUME NEW m \in T PROVE m + 1 \in T
  <2>1. PICK f : KeptTo(s, f, m)
    OBVIOUS
  <2> DEFINE last == IF s[m + 1] = "cr" THEN f[m] ELSE Append(f[m], s[m + 1])
             g == [k \in 0 .. m + 1 |-> IF k = m + 1 THEN last ELSE f[k]]
  <2>2. \A k \in 0 .. m : f[k] = IF k = 0 THEN << >>
                                    ELSE IF s[k] = "cr" THEN f[k - 1] ELSE Append(f[k - 1], s[k])
    <3> HIDE DEF last, g, T
    <3> QED
      BY <2>1, Zenon DEF KeptTo
  <2>3. ASSUME NEW k \in 0 .. m + 1
        PROVE  g[k] = IF k = 0 THEN << >> ELSE IF s[k] = "cr" THEN g[k - 1] ELSE Append(g[k - 1], s[k])
    <3>1. CASE k = 0
      <4>1. g[k] = f[0] /\ 0 \in 0 .. m
        BY <3>1
      <4> QED
        BY <2>2, <3>1, <4>1
    <3>2. CASE k \in 1 .. m
      <4>1. g[k] = f[k] /\ g[k - 1] = f[k - 1] /\ k \in 0 .. m /\ k # 0
        BY <3>2
      <4> QED
        BY <2>2, <4>1
    <3>3. CASE k = m + 1
      <4>1. g[k] = last /\ g[k - 1] = f[m] /\ k # 0
        BY <3>3
      <4> QED
        BY <3>3, <4>1
    <3> QED
      BY <3>1, <3>2, <3>3
  <2>4. KeptTo(s, g, m + 1)
    BY <2>3 DEF KeptTo
  <2> QED
    BY <2>4
<1>3. T = Nat
  BY <1>1, <1>2, Induct
<1> QED
  BY <1>3

\* Dropping the CR of a text leaves its other characters, and a text without CR as it is.
LEMMA DroppedIs ==
  ASSUME NEW S, NEW s \in Seq(S)
  PROVE  /\ Dropped(s) \in Seq(S \ {"cr"}) /\ Len(Dropped(s)) <= Len(s)
         /\ IsSourceClean(s) => Dropped(s) = s
<1> DEFINE g == CHOOSE f : KeptTo(s, f, Len(s))
<1>1. KeptTo(s, g, Len(s))
  BY KeptExists
<1>2. Dropped(s) = g[Len(s)]
  BY DEF Dropped, KeptTo
<1> HIDE DEF g
<1>3. \A m \in 0 .. Len(s) : g[m] = IF m = 0 THEN << >>
                                    ELSE IF s[m] = "cr" THEN g[m - 1] ELSE Append(g[m - 1], s[m])
  BY <1>1 DEF KeptTo
<1> DEFINE Good(n) == /\ g[n] \in Seq(S \ {"cr"}) /\ Len(g[n]) <= n
                      /\ IsSourceClean(s) => g[n] = SubSeq(s, 1, n)
           T == {n \in Nat : n <= Len(s) => Good(n)}
<1>4. 0 \in T
  <2>1. g[0] = << >>
    BY <1>3
  <2>2. g[0] \in Seq(S \ {"cr"}) /\ Len(g[0]) = 0 /\ SubSeq(s, 1, 0) = << >>
    BY <2>1
  <2>3. Good(0)
    BY <2>1, <2>2
  <2> QED
    BY <2>3
<1>5. ASSUME NEW n \in T PROVE n + 1 \in T
  <2>1. SUFFICES ASSUME n + 1 <= Len(s) PROVE Good(n + 1)
    OBVIOUS
  <2>2. n \in Nat /\ Good(n)
    BY <1>5, <2>1
  <2>3. g[n + 1] = IF s[n + 1] = "cr" THEN g[n] ELSE Append(g[n], s[n + 1])
    BY <1>3, <2>1, <2>2
  <2>4. s[n + 1] \in S /\ n + 1 \in DOMAIN s
    BY <2>1, <2>2
  <2>5. SubSeq(s, 1, n + 1) = Append(SubSeq(s, 1, n), s[n + 1])
    BY <2>1, <2>2
  <2>6. CASE s[n + 1] = "cr"
    BY <2>2, <2>3, <2>4, <2>6 DEF IsSourceClean
  <2>7. CASE s[n + 1] # "cr"
    <3>1. s[n + 1] \in S \ {"cr"} /\ g[n + 1] = Append(g[n], s[n + 1])
      BY <2>3, <2>4, <2>7
    <3> QED
      BY <2>2, <2>5, <3>1
  <2> QED
    BY <2>6, <2>7
<1>6. T = Nat
  <2> HIDE DEF T
  <2>1. T \in SUBSET Nat
    BY DEF T
  <2> QED
    BY <1>4, <1>5, <2>1, Induct
<1>7. Good(Len(s))
  BY <1>6
<1> QED
  BY <1>2, <1>7

-----------------------------------------------------------------------------
(* Lines and columns of a text.                                            *)

IsStart(s, k, b) ==
  /\ b \in 0 .. k
  /\ b = 0 \/ Char(s, b - 1) = "lf"
  /\ \A l \in b .. k - 1 : Char(s, l) # "lf"

\* A line starts after the line end before it.
LEMMA StartNext ==
  ASSUME NEW s, NEW k \in Nat, NEW b, IsStart(s, k, b)
  PROVE  IsStart(s, k + 1, IF Char(s, k) = "lf" THEN k + 1 ELSE b)
<1>1. CASE Char(s, k) = "lf"
  BY <1>1 DEF IsStart
<1>2. CASE Char(s, k) # "lf"
  <2>1. \A l \in b .. k : l \in b .. k - 1 \/ l = k
    BY DEF IsStart
  <2> QED
    BY <1>2, <2>1 DEF IsStart
<1> QED
  BY <1>1, <1>2

\* Every character is on one line only.
LEMMA OneStart ==
  ASSUME NEW s, NEW k \in Nat, NEW b, NEW c, IsStart(s, k, b), IsStart(s, k, c)
  PROVE  b = c
<1>1. b \in Nat /\ c \in Nat /\ b <= k /\ c <= k
  BY DEF IsStart
<1>2. CASE b < c
  <2>1. c - 1 \in b .. k - 1 /\ Char(s, c - 1) = "lf"
    BY <1>1, <1>2 DEF IsStart
  <2> QED
    BY <2>1 DEF IsStart
<1>3. CASE c < b
  <2>1. b - 1 \in c .. k - 1 /\ Char(s, b - 1) = "lf"
    BY <1>1, <1>3 DEF IsStart
  <2> QED
    BY <2>1 DEF IsStart
<1> QED
  BY <1>1, <1>2, <1>3

\* Every character is on a line, which LineStart finds.
LEMMA LineStartIs ==
  ASSUME NEW s, NEW k \in Nat
  PROVE  IsStart(s, k, LineStart(s, k))
<1> DEFINE T == {n \in Nat : \E b \in 0 .. n : IsStart(s, n, b)}
<1>1. 0 \in T
  <2>1. IsStart(s, 0, 0)
    BY DEF IsStart
  <2> QED
    BY <2>1
<1>2. ASSUME NEW n \in T PROVE n + 1 \in T
  <2>1. PICK b \in 0 .. n : IsStart(s, n, b)
    OBVIOUS
  <2>2. IsStart(s, n + 1, IF Char(s, n) = "lf" THEN n + 1 ELSE b)
    BY <2>1, StartNext
  <2> QED
    BY <2>2
<1>3. T = Nat
  BY <1>1, <1>2, Induct
<1>4. \E b \in 0 .. k : IsStart(s, k, b)
  BY <1>3
<1> QED
  BY <1>4 DEF LineStart, IsStart

\* A line start stays until a line end is passed.
LEMMA LineStartNext ==
  ASSUME NEW s, NEW k \in Nat
  PROVE  /\ LineStart(s, k) \in 0 .. k
         /\ LineStart(s, k + 1) = IF Char(s, k) = "lf" THEN k + 1 ELSE LineStart(s, k)
<1>1. IsStart(s, k, LineStart(s, k)) /\ IsStart(s, k + 1, LineStart(s, k + 1))
  BY LineStartIs
<1>2. IsStart(s, k + 1, IF Char(s, k) = "lf" THEN k + 1 ELSE LineStart(s, k))
  BY <1>1, StartNext
<1>3. LineStart(s, k) \in 0 .. k
  BY <1>1 DEF IsStart
<1> QED
  BY <1>1, <1>2, <1>3, OneStart

\* Two characters between which there is no line end are on one line.
LEMMA SameLine ==
  ASSUME NEW s, NEW a \in Nat, NEW b \in Nat, a <= b, \A l \in a .. b - 1 : Char(s, l) # "lf"
  PROVE  LineStart(s, a) = LineStart(s, b)
<1>1. IsStart(s, a, LineStart(s, a)) /\ IsStart(s, b, LineStart(s, b))
  BY LineStartIs
<1>2. \A l \in LineStart(s, a) .. b - 1 : Char(s, l) # "lf"
  BY <1>1 DEF IsStart
<1>3. IsStart(s, b, LineStart(s, a))
  BY <1>1, <1>2 DEF IsStart
<1> QED
  BY <1>1, <1>3, OneStart

Breaks(s, a, b) == {l \in a .. b - 1 : Char(s, l) = "lf"}
Lines(s, a, b) == Cardinality(Breaks(s, a, b))

\* Line ends of a stretch of text are counted by a number.
LEMMA LinesType ==
  ASSUME NEW s, NEW a \in Nat, NEW b \in Nat, a <= b
  PROVE  /\ IsFiniteSet(Breaks(s, a, b)) /\ Lines(s, a, b) \in Nat /\ Lines(s, a, b) <= b - a
         /\ Lines(s, a, b) = 0 <=> Breaks(s, a, b) = {}
<1>1. IsFiniteSet(a .. b - 1) /\ Cardinality(a .. b - 1) = b - a
  <2> DEFINE z == b - 1
  <2>1. a \in Int /\ z \in Int /\ z - a + 1 = b - a /\ (a > z => b - a = 0)
    OBVIOUS
  <2> HIDE DEF z
  <2>2. IsFiniteSet(a .. z) /\ Cardinality(a .. z) = IF a > z THEN 0 ELSE z - a + 1
    BY <2>1, FS_Interval
  <2> QED
    BY <2>1, <2>2 DEF z
<1>2. Breaks(s, a, b) \subseteq a .. b - 1
  BY DEF Breaks
<1>3. IsFiniteSet(Breaks(s, a, b)) /\ Lines(s, a, b) <= b - a
  BY <1>1, <1>2, FS_Subset DEF Lines
<1>4. Lines(s, a, b) \in Nat
  BY <1>3, FS_CardinalityType DEF Lines
<1>5. Lines(s, a, b) = 0 <=> Breaks(s, a, b) = {}
  BY <1>3, FS_EmptySet DEF Lines
<1> QED
  BY <1>3, <1>4, <1>5

\* The lines up to a character and those from it on, counted one character further.
LEMMA LinesNext ==
  ASSUME NEW s, NEW a \in Nat, NEW b \in Nat, a <= b
  PROVE  Lines(s, a, b + 1) = Lines(s, a, b) + (IF Char(s, b) = "lf" THEN 1 ELSE 0)
<1>1. IsFiniteSet(Breaks(s, a, b)) /\ Lines(s, a, b) \in Nat
  BY LinesType
<1>0. b \notin Breaks(s, a, b)
  BY DEF Breaks
<1>2. CASE Char(s, b) = "lf"
  <2>1. Breaks(s, a, b + 1) = Breaks(s, a, b) \cup {b}
    BY <1>2 DEF Breaks
  <2> QED
    BY <1>0, <1>1, <1>2, <2>1, FS_AddElement DEF Lines
<1>3. CASE Char(s, b) # "lf"
  <2>1. Breaks(s, a, b + 1) = Breaks(s, a, b)
    BY <1>3 DEF Breaks
  <2> QED
    BY <1>1, <1>3, <2>1 DEF Lines
<1> QED
  BY <1>2, <1>3

\* The same, counted from one character further.
LEMMA LinesAfter ==
  ASSUME NEW s, NEW a \in Nat, NEW b \in Nat, a < b
  PROVE  Lines(s, a, b) = Lines(s, a + 1, b) + (IF Char(s, a) = "lf" THEN 1 ELSE 0)
<1>1. IsFiniteSet(Breaks(s, a + 1, b)) /\ Lines(s, a + 1, b) \in Nat
  <2> DEFINE c == a + 1
  <2>1. c \in Nat /\ c <= b
    OBVIOUS
  <2> HIDE DEF c
  <2>2. IsFiniteSet(Breaks(s, c, b)) /\ Lines(s, c, b) \in Nat
    BY <2>1, LinesType
  <2> QED
    BY <2>1, <2>2 DEF c
<1>0. a \notin Breaks(s, a + 1, b)
  BY DEF Breaks
<1>2. CASE Char(s, a) = "lf"
  <2>1. Breaks(s, a, b) = Breaks(s, a + 1, b) \cup {a}
    BY <1>2 DEF Breaks
  <2> QED
    BY <1>0, <1>1, <1>2, <2>1, FS_AddElement DEF Lines
<1>3. CASE Char(s, a) # "lf"
  <2>1. Breaks(s, a, b) = Breaks(s, a + 1, b)
    BY <1>3 DEF Breaks
  <2> QED
    BY <1>1, <1>3, <2>1 DEF Lines
<1> QED
  BY <1>2, <1>3

\* A place is the number of line ends before and the distance from the start of the line.
LEMMA PlaceIs ==
  ASSUME NEW s, NEW k \in Nat
  PROVE  Place(s, k) = <<Lines(s, 0, k), k - LineStart(s, k)>>
  BY DEF Place, Lines, Breaks

LEMMA PlaceZero ==
  ASSUME NEW s
  PROVE  Place(s, 0) = <<0, 0>>
<1>1. Lines(s, 0, 0) \in Nat /\ Lines(s, 0, 0) <= 0 - 0
  BY LinesType
<1>2. LineStart(s, 0) \in 0 .. 0
  BY LineStartNext
<1> QED
  BY <1>1, <1>2, PlaceIs

\* The place of the next character, as index_to_line_char counts it.
LEMMA PlaceNext ==
  ASSUME NEW s, NEW k \in Nat, NEW n, n = k + 1
  PROVE  Place(s, n) = <<IF Char(s, k) = "lf" THEN Lines(s, 0, k) + 1 ELSE Lines(s, 0, k),
                         IF Char(s, k) = "lf" THEN 0 ELSE (k - LineStart(s, k)) + 1>>
<1>1. Lines(s, 0, k + 1) = Lines(s, 0, k) + (IF Char(s, k) = "lf" THEN 1 ELSE 0)
  BY LinesNext
<1>2. Lines(s, 0, k) \in Nat
  BY LinesType
<1>3. /\ LineStart(s, k) \in 0 .. k
      /\ LineStart(s, k + 1) = IF Char(s, k) = "lf" THEN k + 1 ELSE LineStart(s, k)
  BY LineStartNext
<1>4. Place(s, n) = <<Lines(s, 0, n), n - LineStart(s, n)>>
  BY PlaceIs
<1>5. /\ Lines(s, 0, n) = IF Char(s, k) = "lf" THEN Lines(s, 0, k) + 1 ELSE Lines(s, 0, k)
      /\ n - LineStart(s, n) = IF Char(s, k) = "lf" THEN 0 ELSE (k - LineStart(s, k)) + 1
  BY <1>1, <1>2, <1>3
<1> QED
  BY <1>4, <1>5

\* A later character does not start at a smaller byte.
LEMMA BytesGrow ==
  ASSUME NEW s, NEW a \in Nat, NEW b \in Nat, a <= b
  PROVE  ByteIndex(s, a) \in Nat /\ ByteIndex(s, b) \in Nat /\ ByteIndex(s, a) <= ByteIndex(s, b)
<1> DEFINE W(n) == {k \in 1 .. n : s[k] = "wide"}
<1>1. IsFiniteSet(W(b)) /\ W(a) \subseteq W(b)
  <2>1. IsFiniteSet(1 .. b) /\ W(b) \subseteq 1 .. b
    BY FS_Interval
  <2> QED
    BY <2>1, FS_Subset
<1>2. IsFiniteSet(W(a)) /\ Cardinality(W(a)) <= Cardinality(W(b))
  BY <1>1, FS_Subset
<1>3. Cardinality(W(a)) \in Nat /\ Cardinality(W(b)) \in Nat
  BY <1>1, <1>2, FS_CardinalityType
<1>4. Wides(s, a) = Cardinality(W(a)) /\ Wides(s, b) = Cardinality(W(b))
  BY DEF Wides
<1> HIDE DEF W
<1> QED
  BY <1>2, <1>3, <1>4 DEF ByteIndex

-----------------------------------------------------------------------------
(* The way of one position.                                                *)

\* Types, with the bounds of the loop that runs.
PosTypeInv ==
  /\ PosTypeOK /\ text \in Seq(Chars) /\ byte \in Nat
  /\ stage = "byte" => at <= Len(Source)
  /\ stage = "show" => line <= at /\ col <= at
  /\ stage = "find" => at <= Len(Source) /\ line <= Len(Source) /\ col <= at

\* The character sought starts at the byte, and the loop is not past it.
ByteInv == stage = "byte" => \E k \in at .. Len(Source) : byte = ByteIndex(Source, k)

\* In a text without CR the loop has counted lines and columns up to here.
ShowInv ==
  stage = "show" /\ IsSourceClean(text) =>
    at <= index /\ line = Lines(Source, 0, at) /\ col = at - LineStart(Source, at)

\* The lines still to go are those between here and the character, and the column is that of here.
FindInv ==
  stage = "find" => at <= index /\ line = Lines(Source, at, index) /\ col = at - LineStart(Source, at)

\* What the loops run over: the text without its CR, and, as the condition is, the text itself.
LEMMA SourceIs ==
  ASSUME PosTypeInv
  PROVE  /\ Source \in Seq(Chars \ {"cr"}) /\ Len(Source) \in Nat /\ Len(Source) <= Len(text)
         /\ \A k \in 0 .. Len(Source) - 1 : Char(Source, k) # "cr"
         /\ Len(text) \in Nat /\ ShowText(text) = text
         /\ IsSourceClean(text) => Source = text
<1>1. /\ Source \in Seq(Chars \ {"cr"}) /\ Len(Source) <= Len(text)
      /\ IsSourceClean(text) => Source = text
  BY DroppedIs DEF PosTypeInv, Source
<1>2. ShowText(text) = text
  BY DEF ShowText, CleanSource
<1>3. \A k \in 0 .. Len(Source) - 1 : Char(Source, k) # "cr"
  <2>1. ASSUME NEW k \in 0 .. Len(Source) - 1 PROVE Source[k + 1] \in Chars \ {"cr"}
    BY <1>1
  <2> QED
    BY <2>1 DEF Char
<1> QED
  BY <1>1, <1>2, <1>3 DEF PosTypeInv

LEMMA PosInitInv == PosInit => PosTypeInv /\ ByteInv /\ IndexOfByte /\ ShowInv /\ ShownInCleanText /\ FindInv /\ FoundAgain
<1> SUFFICES ASSUME PosInit
             PROVE  PosTypeInv /\ ByteInv /\ IndexOfByte /\ ShowInv /\ ShownInCleanText /\ FindInv /\ FoundAgain
  OBVIOUS
<1>1. text \in Seq(Chars)
  BY PositionsAssumption DEF PosInit
<1>2. Source \in Seq(Chars \ {"cr"})
  BY <1>1, DroppedIs DEF Source
<1>3. Len(Source) \in Nat /\ Len(text) \in Nat
  BY <1>1, <1>2
<1>4. PICK k \in 0 .. Len(Source) : byte = ByteIndex(Source, k)
  BY DEF PosInit
<1>5. byte \in Nat
  <2>1. ByteIndex(Source, k) \in Nat
    BY <1>3, <1>4, BytesGrow
  <2> QED
    BY <1>4, <2>1
<1>6. /\ stage = "byte" /\ index = 0 /\ found = 0 /\ at = 0 /\ line = 0 /\ col = 0
  BY DEF PosInit
<1> QED
  BY <1>1, <1>3, <1>4, <1>5, <1>6
     DEF PosTypeInv, PosTypeOK, ByteInv, IndexOfByte, ShowInv, ShownInCleanText, ShownWhereItIs, FindInv, FoundAgain

LEMMA PosTypeStep ==
  ASSUME PosTypeInv, [PosNext]_posVars
  PROVE  PosTypeInv'
<1>0. /\ Source \in Seq(Chars \ {"cr"}) /\ Len(Source) \in Nat /\ Len(Source) <= Len(text)
      /\ Len(text) \in Nat /\ ShowText(text) = text
  BY SourceIs
<1> USE DEF PosTypeInv, PosTypeOK
<1>1. UNCHANGED <<text, byte>> /\ Source' = Source
  BY DEF PosNext, posVars, LocNext, LocReturn, ShowNext, ShowReturn, FindNext, FindReturn, Source
<1>2. CASE LocNext
  BY <1>0, <1>1, <1>2 DEF LocNext
<1>3. CASE LocReturn
  BY <1>0, <1>1, <1>3 DEF LocReturn
<1>4. CASE ShowNext
  BY <1>0, <1>1, <1>4 DEF ShowNext, Column
<1>5. CASE ShowReturn
  <2>1. index \in Nat /\ Place(Source, index)[1] = Lines(Source, 0, index)
    BY <1>0, PlaceIs
  <2>2. Lines(Source, 0, index) \in Nat /\ Lines(Source, 0, index) <= index - 0
    <3>1. 0 \in Nat /\ 0 <= index
      BY <2>1
    <3> QED
      BY <2>1, <3>1, LinesType
  <2>3. /\ stage' = "find" /\ at' = 0 /\ line' = Place(Source, index)[1] /\ col' = 0
        /\ UNCHANGED <<index, found>>
    BY <1>5 DEF ShowReturn
  <2>4. line' \in 0 .. Len(Source)
    BY <1>0, <2>1, <2>2, <2>3
  <2> QED
    BY <1>0, <1>1, <2>3, <2>4
<1>6. CASE FindNext
  <2>1. /\ stage = "find" /\ stage' = "find" /\ at < Len(Source) /\ at' = at + 1
        /\ line' \in {line, line - 1} /\ (line' = line - 1 => 0 < line) /\ col' \in {0, col, col + 1}
        /\ UNCHANGED <<index, found>>
    <3>1. line \in Nat /\ col \in Nat
      OBVIOUS
    <3> QED
      BY <1>6, <3>1 DEF FindNext, FindText, Source
  <2> QED
    BY <1>0, <1>1, <2>1
<1>7. CASE FindReturn
  BY <1>0, <1>1, <1>7 DEF FindReturn, FindText, Source
<1>8. CASE UNCHANGED posVars
  BY <1>1, <1>8 DEF posVars
<1> QED
  BY <1>2, <1>3, <1>4, <1>5, <1>6, <1>7, <1>8 DEF PosNext

LEMMA ByteStep ==
  ASSUME PosTypeInv, ByteInv, IndexOfByte, [PosNext]_posVars
  PROVE  ByteInv' /\ IndexOfByte'
<1>0. Len(Source) \in Nat
  BY SourceIs
<1>1. UNCHANGED <<text, byte>> /\ Source' = Source
  BY DEF PosNext, posVars, LocNext, LocReturn, ShowNext, ShowReturn, FindNext, FindReturn, Source
<1>2. CASE LocNext
  <2>1. stage = "byte" /\ stage' = "byte" /\ at' = at + 1 /\ ByteIndex(Source, at) < byte
    BY <1>2 DEF LocNext, StartsBefore
  <2>2. PICK k \in at .. Len(Source) : byte = ByteIndex(Source, k)
    BY <2>1 DEF ByteInv
  <2>3. at \in Nat
    BY DEF PosTypeInv, PosTypeOK
  <2>4. k # at
    BY <2>1, <2>2, <2>3, BytesGrow
  <2>5. k \in at' .. Len(Source)
    BY <1>0, <2>1, <2>2, <2>3, <2>4
  <2> QED
    BY <1>1, <2>1, <2>2, <2>5 DEF ByteInv, IndexOfByte
<1>3. CASE LocReturn
  <2>1. /\ stage = "byte" /\ stage' = "show" /\ index' = at
        /\ at = Len(Source) \/ ~ (ByteIndex(Source, at) < byte)
    BY <1>3 DEF LocReturn, StartsBefore
  <2>2. PICK k \in at .. Len(Source) : byte = ByteIndex(Source, k)
    BY <2>1 DEF ByteInv
  <2>3. at \in Nat /\ k \in Nat /\ at <= k /\ k <= Len(Source)
    BY <1>0, <2>2 DEF PosTypeInv, PosTypeOK
  <2>4. ByteIndex(Source, at) \in Nat /\ ByteIndex(Source, k) \in Nat /\ ByteIndex(Source, at) <= ByteIndex(Source, k)
    BY <2>3, BytesGrow
  <2>5. ByteIndex(Source, at) = byte
    BY <1>0, <2>1, <2>2, <2>3, <2>4
  <2> QED
    BY <1>1, <2>1, <2>5 DEF ByteInv, IndexOfByte
<1>4. CASE ShowNext \/ ShowReturn \/ FindNext \/ FindReturn
  <2>1. stage # "byte" /\ stage' # "byte" /\ index' = index
    BY <1>4 DEF ShowNext, ShowReturn, FindNext, FindReturn
  <2> QED
    BY <1>1, <2>1 DEF ByteInv, IndexOfByte
<1>5. CASE UNCHANGED posVars
  BY <1>1, <1>5 DEF posVars, ByteInv, IndexOfByte
<1> QED
  BY <1>2, <1>3, <1>4, <1>5 DEF PosNext

LEMMA ShowStep ==
  ASSUME PosTypeInv, ShowInv, ShownInCleanText, [PosNext]_posVars
  PROVE  ShowInv' /\ ShownInCleanText'
<1>0. Len(Source) \in Nat /\ ShowText(text) = text /\ (IsSourceClean(text) => Source = text)
  BY SourceIs
<1>1. text' = text /\ Source' = Source
  BY DEF PosNext, posVars, LocNext, LocReturn, ShowNext, ShowReturn, FindNext, FindReturn, Source
<1>2. SUFFICES ASSUME IsSourceClean(text) PROVE ShowInv' /\ ShownInCleanText'
  BY <1>1 DEF ShowInv, ShownInCleanText
<1>3. at \in Nat /\ index \in Nat /\ index <= Len(Source)
  BY <1>0 DEF PosTypeInv, PosTypeOK
<1>4. CASE LocNext
  BY <1>4 DEF LocNext, ShowInv, ShownInCleanText, ShownWhereItIs
<1>5. CASE LocReturn
  <2>1. stage' = "show" /\ index' = at /\ at' = 0 /\ line' = 0 /\ col' = 0
    BY <1>5 DEF LocReturn
  <2>2. Place(Source, 0) = <<0, 0>> /\ Place(Source, 0) = <<Lines(Source, 0, 0), 0 - LineStart(Source, 0)>>
    BY PlaceZero, PlaceIs
  <2>3. Lines(Source, 0, 0) = 0 /\ 0 - LineStart(Source, 0) = 0
    BY <2>2
  <2> QED
    BY <1>1, <1>3, <2>1, <2>3 DEF ShowInv, ShownInCleanText, ShownWhereItIs
<1>6. CASE ShowNext
  <2>1. /\ stage = "show" /\ stage' = "show" /\ at # index /\ at' = at + 1 /\ index' = index
        /\ line' = IF Char(Source, at) = "lf" THEN line + 1 ELSE line
        /\ col' = IF Char(Source, at) = "lf" THEN 0 ELSE col + 1
    BY <1>0, <1>2, <1>6 DEF ShowNext, Column
  <2>2. at <= index /\ line = Lines(Source, 0, at) /\ col = at - LineStart(Source, at)
    BY <1>2, <2>1 DEF ShowInv
  <2>3. Lines(Source, 0, at + 1) = Lines(Source, 0, at) + (IF Char(Source, at) = "lf" THEN 1 ELSE 0)
    BY <1>3, LinesNext
  <2>4. Lines(Source, 0, at) \in Nat
    <3>1. 0 \in Nat /\ 0 <= at
      BY <1>3
    <3> QED
      BY <1>3, <3>1, LinesType
  <2>5. /\ LineStart(Source, at) \in 0 .. at
        /\ LineStart(Source, at + 1) = IF Char(Source, at) = "lf" THEN at + 1 ELSE LineStart(Source, at)
    BY <1>3, LineStartNext
  <2>6. at' <= index /\ line' = Lines(Source, 0, at') /\ col' = at' - LineStart(Source, at')
    <3>1. CASE Char(Source, at) = "lf"
      BY <1>3, <2>1, <2>2, <2>3, <2>4, <2>5, <3>1
    <3>2. CASE Char(Source, at) # "lf"
      <4>1. at' <= index /\ line' = Lines(Source, 0, at')
        BY <1>3, <2>1, <2>2, <2>3, <2>4, <3>2
      <4>2. LineStart(Source, at') = LineStart(Source, at) /\ LineStart(Source, at) \in Nat
        BY <2>1, <2>5, <3>2
      <4>3. col' = (at - LineStart(Source, at)) + 1
        BY <2>1, <2>2, <3>2
      <4> QED
        BY <1>3, <2>1, <4>1, <4>2, <4>3
    <3> QED
      BY <3>1, <3>2
  <2> QED
    BY <1>1, <2>1, <2>6 DEF ShowInv, ShownInCleanText, ShownWhereItIs
<1>7. CASE ShowReturn
  <2>1. /\ stage = "show" /\ stage' = "find" /\ (at = index \/ at = Len(text)) /\ index' = index
        /\ shown' = <<line, col>>
    BY <1>0, <1>7 DEF ShowReturn
  <2>2. at <= index /\ line = Lines(Source, 0, at) /\ col = at - LineStart(Source, at)
    BY <1>2, <2>1 DEF ShowInv
  <2>3. at = index
    BY <1>0, <1>2, <1>3, <2>1, <2>2
  <2>4. Place(Source, index) = <<Lines(Source, 0, index), index - LineStart(Source, index)>>
    BY <1>3, PlaceIs
  <2> QED
    BY <1>1, <2>1, <2>2, <2>3, <2>4 DEF ShowInv, ShownInCleanText, ShownWhereItIs
<1>8. CASE FindNext \/ FindReturn
  BY <1>1, <1>2, <1>8 DEF FindNext, FindReturn, ShowInv, ShownInCleanText, ShownWhereItIs
<1>9. CASE UNCHANGED posVars
  BY <1>1, <1>9 DEF posVars, ShowInv, ShownInCleanText, ShownWhereItIs
<1> QED
  BY <1>4, <1>5, <1>6, <1>7, <1>8, <1>9 DEF PosNext

LEMMA FindStep ==
  ASSUME PosTypeInv, FindInv, FoundAgain, [PosNext]_posVars
  PROVE  FindInv' /\ FoundAgain'
<1>0. Len(Source) \in Nat /\ \A k \in 0 .. Len(Source) - 1 : Char(Source, k) # "cr"
  BY SourceIs
<1>1. Source' = Source
  BY DEF PosNext, posVars, LocNext, LocReturn, ShowNext, ShowReturn, FindNext, FindReturn, Source
<1>2. at \in Nat /\ index \in Nat /\ index <= Len(Source)
  BY <1>0 DEF PosTypeInv, PosTypeOK
<1>3. Place(Source, index)[1] = Lines(Source, 0, index) /\ Place(Source, index)[2] = index - LineStart(Source, index)
  BY <1>2, PlaceIs
\* The place sought is met at the character, and not before.
<1>4. ASSUME stage = "find" PROVE AtPlace <=> at = index
  <2>1. at <= index /\ line = Lines(Source, at, index) /\ col = at - LineStart(Source, at)
    BY <1>4 DEF FindInv
  <2>2. Lines(Source, at, index) \in Nat /\ (Lines(Source, at, index) = 0 <=> Breaks(Source, at, index) = {})
        /\ Lines(Source, at, index) <= index - at
    BY <1>2, <2>1, LinesType
  <2>3. CASE line = 0
    <3>1. \A l \in at .. index - 1 : Char(Source, l) # "lf"
      BY <2>1, <2>2, <2>3 DEF Breaks
    <3>2. LineStart(Source, at) = LineStart(Source, index)
      BY <1>2, <2>1, <3>1, SameLine
    <3>3. LineStart(Source, at) \in 0 .. at
      BY <1>2, LineStartNext
    <3> QED
      BY <1>2, <1>3, <2>1, <2>3, <3>2, <3>3 DEF AtPlace
  <2>4. CASE line # 0
    BY <1>2, <2>1, <2>2, <2>4 DEF AtPlace
  <2> QED
    BY <2>3, <2>4
<1>5. CASE LocNext \/ LocReturn \/ ShowNext
  BY <1>5 DEF LocNext, LocReturn, ShowNext, FindInv, FoundAgain
<1>6. CASE ShowReturn
  <2>1. stage' = "find" /\ at' = 0 /\ line' = Lines(Source, 0, index) /\ col' = 0 /\ index' = index
    BY <1>3, <1>6 DEF ShowReturn
  <2>2. LineStart(Source, 0) \in 0 .. 0
    BY LineStartNext
  <2> QED
    BY <1>1, <1>2, <2>1, <2>2 DEF FindInv, FoundAgain
<1>7. CASE FindNext
  <2>1. stage = "find" /\ stage' = "find" /\ at < Len(Source) /\ at' = at + 1 /\ index' = index /\ ~ AtPlace
    BY <1>7 DEF FindNext, FindText, Source
  <2>2. at < index /\ line = Lines(Source, at, index) /\ col = at - LineStart(Source, at)
    BY <1>2, <1>4, <2>1 DEF FindInv
  <2>3. Char(Source, at) # "cr"
    BY <1>0, <1>2, <2>1
  <2>4. IF Char(Source, at) = "lf" /\ 0 < line THEN line' = line - 1 /\ col' = 0 ELSE line' = line /\ col' = col + 1
    BY <1>7, <2>3 DEF FindNext, FindText, Source
  <2>5. Lines(Source, at, index) = Lines(Source, at + 1, index) + (IF Char(Source, at) = "lf" THEN 1 ELSE 0)
    BY <1>2, <2>2, LinesAfter
  <2>6. Lines(Source, at + 1, index) \in Nat
    <3>1. at + 1 \in Nat /\ at + 1 <= index
      BY <1>2, <2>2
    <3> QED
      BY <1>2, <2>1, <3>1, LinesType
  <2>7. /\ LineStart(Source, at) \in 0 .. at
        /\ LineStart(Source, at + 1) = IF Char(Source, at) = "lf" THEN at + 1 ELSE LineStart(Source, at)
    BY <1>2, LineStartNext
  <2>8. at' <= index /\ line' = Lines(Source, at', index) /\ col' = at' - LineStart(Source, at')
    <3>1. CASE Char(Source, at) = "lf"
      <4>1. 0 < line
        BY <2>2, <2>5, <2>6, <3>1
      <4> QED
        BY <1>2, <2>1, <2>2, <2>4, <2>5, <2>6, <2>7, <3>1, <4>1
    <3>2. CASE Char(Source, at) # "lf"
      <4>1. at' <= index /\ line' = Lines(Source, at', index)
        BY <1>2, <2>1, <2>2, <2>4, <2>5, <2>6, <3>2
      <4>2. LineStart(Source, at') = LineStart(Source, at) /\ LineStart(Source, at) \in Nat
        BY <2>1, <2>7, <3>2
      <4>3. col' = (at - LineStart(Source, at)) + 1
        BY <2>2, <2>4, <3>2
      <4> QED
        BY <1>2, <2>1, <4>1, <4>2, <4>3
    <3> QED
      BY <3>1, <3>2
  <2> QED
    BY <1>1, <2>1, <2>8 DEF FindInv, FoundAgain
<1>8. CASE FindReturn
  <2>1. /\ stage = "find" /\ stage' = "done" /\ index' = index /\ (AtPlace \/ at = Len(Source))
        /\ found' = IF at < Len(Source) THEN at ELSE 0
    BY <1>8 DEF FindReturn, FindText, Source
  <2>2. at <= index
    BY <2>1 DEF FindInv
  <2>3. at = index
    BY <1>2, <1>4, <2>1, <2>2
  <2> QED
    BY <1>1, <2>1, <2>3 DEF FindInv, FoundAgain
<1>9. CASE UNCHANGED posVars
  BY <1>1, <1>9 DEF posVars, FindInv, FoundAgain
<1> QED
  BY <1>5, <1>6, <1>7, <1>8, <1>9 DEF PosNext

\* The types of a position's way, and that no loop leaves its text.
THEOREM PositionsTyped == PosSpec => []PosTypeOK
<1>1. PosTypeInv => PosTypeOK
  BY DEF PosTypeInv
<1> QED
  BY <1>1, PosInitInv, PosTypeStep, PTL DEF PosSpec

\* A byte offset at which a character starts becomes that character's index, in any text.
THEOREM BytesBecomeIndices == PosSpec => []IndexOfByte
  BY PosInitInv, PosTypeStep, ByteStep, PTL DEF PosSpec

\* A click on a character of any text, with any line ends, finds the character.
THEOREM ClicksFind == PosSpec => []FoundAgain
  BY PosInitInv, PosTypeStep, FindStep, PTL DEF PosSpec

\* In a text without CR a character is drawn on the line and at the column where it is.
THEOREM DrawnWhereItIs == PosSpec => []ShownInCleanText
  BY PosInitInv, PosTypeStep, ShowStep, PTL DEF PosSpec

=============================================================================
