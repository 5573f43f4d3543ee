------------------------- MODULE DecorationsProofs -------------------------
(***************************************************************************)
(* Proofs about Decorations for every MaxLoc, MaxPushes and Kinds: of      *)
(* nested calls only the innermost are drawn, and handle_overlapping       *)
(* leaves no position that shows two decorations, shows the topmost of     *)
(* what was pushed for it, and hides nothing but what lies beside another. *)
(* Then about SelectLocal, for any functions, locals and bounds: which of  *)
(* the offers at the cursor is selected.                                   *)
(***************************************************************************)
EXTENDS Decos, TLAPS

(* Sequences, over an opaque set of elements, and single ranges: those     *)
(* that UtilsProofs has too are proved there in the same way.             *)

\* Removing element k moves the later ones down.
LEMMA RemoveAtIs ==
  ASSUME NEW S, NEW s \in Seq(S), NEW k \in 1 .. Len(s)
  PROVE  /\ RemoveAt(s, k) \in Seq(S)
         /\ Len(RemoveAt(s, k)) = Len(s) - 1
         /\ \A l \in 1 .. Len(s) - 1 :
              RemoveAt(s, k)[l] = IF l < k THEN s[l] ELSE s[l + 1]
<1>1. /\ SubSeq(s, 1, k - 1) \in Seq(S) /\ Len(SubSeq(s, 1, k - 1)) = k - 1
      /\ \A l \in 1 .. k - 1 : SubSeq(s, 1, k - 1)[l] = s[l]
  OBVIOUS
<1>2. /\ SubSeq(s, k + 1, Len(s)) \in Seq(S) /\ Len(SubSeq(s, k + 1, Len(s))) = Len(s) - k
      /\ \A l \in 1 .. Len(s) - k : SubSeq(s, k + 1, Len(s))[l] = s[l + k]
  OBVIOUS
<1> DEFINE head == SubSeq(s, 1, k - 1)
           tail == SubSeq(s, k + 1, Len(s))
<1>3. /\ head \o tail \in Seq(S) /\ Len(head \o tail) = Len(head) + Len(tail)
      /\ \A l \in 1 .. Len(head) : (head \o tail)[l] = head[l]
      /\ \A l \in Len(head) + 1 .. Len(head) + Len(tail) : (head \o tail)[l] = tail[l - Len(head)]
  <2> HIDE DEF head, tail
  <2> SUFFICES ASSUME head \in Seq(S), tail \in Seq(S) PROVE <1>3!1 /\ <1>3!2 /\ <1>3!3
    BY <1>1, <1>2 DEF head, tail
  <2>. QED OBVIOUS
<1>4. RemoveAt(s, k) = head \o tail  BY DEF RemoveAt
<1>5. Len(s) \in Nat /\ Len(head) = k - 1 /\ Len(tail) = Len(s) - k  BY <1>1, <1>2
<1>6. ASSUME NEW l \in 1 .. Len(s) - 1 PROVE (head \o tail)[l] = IF l < k THEN s[l] ELSE s[l + 1]
  <2> HIDE DEF head, tail
  <2>1. CASE l < k
    BY <1>1, <1>3, <1>5, <2>1 DEF head
  <2>2. CASE ~(l < k)
    <3>1. l - Len(head) \in 1 .. Len(s) - k /\ l - Len(head) + k = l + 1  BY <1>5, <2>2
    <3>2. (head \o tail)[l] = tail[l - Len(head)]
      <4>1. l \in Len(head) + 1 .. Len(head) + Len(tail)  BY <1>5, <2>2
      <4>. QED BY <1>3, <4>1
    <3>. QED BY <1>2, <2>2, <3>1, <3>2 DEF tail
  <2>. QED BY <2>1, <2>2
<1> HIDE DEF head, tail
<1>7. Len(head \o tail) = Len(s) - 1  BY <1>3, <1>5
<1>. QED BY <1>3, <1>4, <1>6, <1>7

\* The elements of a concatenation.
LEMMA ConcatIs ==
  ASSUME NEW S, NEW s \in Seq(S), NEW t \in Seq(S)
  PROVE  /\ s \o t \in Seq(S) /\ Len(s \o t) = Len(s) + Len(t)
         /\ \A l \in 1 .. Len(s) : (s \o t)[l] = s[l]
         /\ \A l \in Len(s) + 1 .. Len(s) + Len(t) : (s \o t)[l] = t[l - Len(s)]
OBVIOUS

\* An element replaced by a list.
Replaced(s, k, t) == SubSeq(s, 1, k - 1) \o t \o SubSeq(s, k + 1, Len(s))

LEMMA ReplaceIs ==
  ASSUME NEW S, NEW s \in Seq(S), NEW k \in 1 .. Len(s), NEW t \in Seq(S)
  PROVE  /\ Replaced(s, k, t) \in Seq(S)
         /\ Len(Replaced(s, k, t)) = Len(s) - 1 + Len(t)
         /\ \A l \in 1 .. k - 1 : Replaced(s, k, t)[l] = s[l]
         /\ \A l \in k .. k - 1 + Len(t) : Replaced(s, k, t)[l] = t[l - k + 1]
         /\ \A l \in k + Len(t) .. Len(s) - 1 + Len(t) :
              Replaced(s, k, t)[l] = s[l - Len(t) + 1]
<1> DEFINE u == Replaced(s, k, t)
           head == SubSeq(s, 1, k - 1)
           tail == SubSeq(s, k + 1, Len(s))
<1>1. /\ head \in Seq(S) /\ Len(head) = k - 1
      /\ \A l \in 1 .. k - 1 : head[l] = s[l]
  OBVIOUS
<1>2. /\ tail \in Seq(S) /\ Len(tail) = Len(s) - k
      /\ \A l \in 1 .. Len(s) - k : tail[l] = s[l + k]
  OBVIOUS
<1>3. u = (head \o t) \o tail  BY DEF Replaced
<1> HIDE DEF u, head, tail
<1>4. /\ head \o t \in Seq(S) /\ Len(head \o t) = Len(head) + Len(t)
      /\ \A l \in 1 .. Len(head) : (head \o t)[l] = head[l]
      /\ \A l \in Len(head) + 1 .. Len(head) + Len(t) : (head \o t)[l] = t[l - Len(head)]
  <2>1. head \in Seq(S)  BY <1>1
  <2>. QED BY <2>1, ConcatIs
<1> DEFINE front == head \o t
<1>5. front \in Seq(S) /\ Len(front) = k - 1 + Len(t) /\ Len(t) \in Nat /\ Len(s) \in Nat
  BY <1>1, <1>4
<1>6. /\ \A l \in 1 .. k - 1 : front[l] = s[l]
      /\ \A l \in k .. k - 1 + Len(t) : front[l] = t[l - k + 1]
  BY <1>1, <1>4, <1>5
<1>7. u = front \o tail  BY <1>3
<1> HIDE DEF front
<1>8. /\ front \o tail \in Seq(S) /\ Len(front \o tail) = Len(front) + Len(tail)
      /\ \A l \in 1 .. Len(front) : (front \o tail)[l] = front[l]
      /\ \A l \in Len(front) + 1 .. Len(front) + Len(tail) :
           (front \o tail)[l] = tail[l - Len(front)]
  <2>1. front \in Seq(S) /\ tail \in Seq(S)  BY <1>2, <1>5
  <2>. QED BY <2>1, ConcatIs
<1>9. Len(u) = Len(s) - 1 + Len(t)
  <2>1. Len(u) = Len(front) + Len(tail)  BY <1>7, <1>8
  <2>2. Len(tail) = Len(s) - k  BY <1>2
  <2>3. Len(front) = k - 1 + Len(t)  BY <1>5
  <2>. QED BY <1>5, <2>1, <2>2, <2>3
<1>10. ASSUME NEW l \in 1 .. k - 1 + Len(t) PROVE u[l] = front[l]
  <2>1. l \in 1 .. Len(front)  BY <1>5
  <2>. QED BY <1>7, <1>8, <2>1
<1>11. ASSUME NEW l \in k + Len(t) .. Len(s) - 1 + Len(t) PROVE u[l] = s[l - Len(t) + 1]
  <2>0. Len(tail) = Len(s) - k /\ Len(front) = k - 1 + Len(t)  BY <1>2, <1>5
  <2>1. l \in Len(front) + 1 .. Len(front) + Len(tail)  BY <1>9, <2>0
  <2>2. u[l] = tail[l - Len(front)]  BY <1>7, <1>8, <2>1
  <2>3. l - Len(front) \in 1 .. Len(s) - k /\ l - Len(front) + k = l - Len(t) + 1
    BY <1>9, <2>0
  <2>. QED BY <1>2, <2>2, <2>3
<1>12. \A l \in 1 .. k - 1 : u[l] = s[l]
  <2> SUFFICES ASSUME NEW l \in 1 .. k - 1 PROVE u[l] = s[l]  OBVIOUS
  <2>1. l \in 1 .. k - 1 + Len(t)  BY <1>5
  <2>. QED BY <1>6, <1>10, <2>1
<1>13. \A l \in k .. k - 1 + Len(t) : u[l] = t[l - k + 1]
  <2> SUFFICES ASSUME NEW l \in k .. k - 1 + Len(t) PROVE u[l] = t[l - k + 1]  OBVIOUS
  <2>1. l \in 1 .. k - 1 + Len(t)  BY <1>5
  <2>. QED BY <1>6, <1>10, <2>1
<1>14. u \in Seq(S)  BY <1>7, <1>8
<1>. QED BY <1>9, <1>11, <1>12, <1>13, <1>14 DEF u

\* A function on 1 .. n is a sequence.
LEMMA ListIs ==
  ASSUME NEW S, NEW n \in Nat, NEW f \in [1 .. n -> S]
  PROVE  f \in Seq(S)
OBVIOUS

\* What is covered by a concatenation, and by a list of one range.
LEMMA CoveredConcat ==
  ASSUME NEW s \in Seq(Interval), NEW t \in Seq(Interval), NEW p \in Int
  PROVE  Covered(p, s \o t) <=> Covered(p, s) \/ Covered(p, t)
<1>1. /\ s \o t \in Seq(Interval) /\ Len(s \o t) = Len(s) + Len(t)
      /\ \A l \in 1 .. Len(s) : (s \o t)[l] = s[l]
      /\ \A l \in 1 .. Len(t) : (s \o t)[Len(s) + l] = t[l]
      /\ \A l \in Len(s) + 1 .. Len(s) + Len(t) : (s \o t)[l] = t[l - Len(s)]
  OBVIOUS
<1>2. DOMAIN (s \o t) = 1 .. Len(s) + Len(t) /\ DOMAIN s = 1 .. Len(s) /\ DOMAIN t = 1 .. Len(t)
  BY <1>1
<1>3. ASSUME Covered(p, s \o t) PROVE Covered(p, s) \/ Covered(p, t)
  <2>1. PICK l \in 1 .. Len(s) + Len(t) : In(p, (s \o t)[l])
    BY <1>2, <1>3 DEF Covered
  <2>2. CASE l <= Len(s)  BY <1>1, <1>2, <2>1, <2>2 DEF Covered
  <2>3. CASE l > Len(s)
    <3>1. l - Len(s) \in 1 .. Len(t)  BY <2>3
    <3>2. In(p, t[l - Len(s)])  BY <1>1, <2>1, <2>3
    <3>. QED BY <1>2, <3>1, <3>2 DEF Covered
  <2>. QED BY <2>2, <2>3
<1>4. ASSUME Covered(p, s) PROVE Covered(p, s \o t)
  BY <1>1, <1>2, <1>4 DEF Covered
<1>5. ASSUME Covered(p, t) PROVE Covered(p, s \o t)
  <2>1. PICK l \in 1 .. Len(t) : In(p, t[l])  BY <1>2, <1>5 DEF Covered
  <2>2. Len(s) + l \in 1 .. Len(s) + Len(t)  OBVIOUS
  <2>. QED BY <1>1, <1>2, <2>1, <2>2 DEF Covered
<1>. QED BY <1>3, <1>4, <1>5

\* Range::new gives a range or nothing.
LEMMA NewIs ==
  ASSUME NEW a \in Nat, NEW b \in Loc
  PROVE  /\ New(a, b) \in Seq(Interval)
         /\ \A p \in Int : Covered(p, New(a, b)) <=> a <= p /\ p < b
<1>. USE MaxLocAssumption
<1>1. CASE a < b
  <2>1. [from |-> a, until |-> b] \in Interval  BY <1>1 DEF Interval, Loc
  <2>2. New(a, b) = <<[from |-> a, until |-> b]>>  BY <1>1 DEF New
  <2>. QED BY <2>1, <2>2 DEF Covered, In
<1>2. CASE ~(a < b)
  <2>1. New(a, b) = << >>  BY <1>2 DEF New
  <2>. QED BY <1>2, <2>1 DEF Covered, Loc
<1>. QED BY <1>1, <1>2

\* The common range covers what both ranges cover, and lies within both.
LEMMA CommonIs ==
  ASSUME NEW r1 \in Interval, NEW r2 \in Interval
  PROVE  \/ Common(r1, r2) = << >> /\ \A p \in Int : ~(In(p, r1) /\ In(p, r2))
         \/ \E c \in Interval :
              /\ Common(r1, r2) = <<c>>
              /\ c.from = Greater(r1.from, r2.from)
              /\ c.until = Smaller(r1.until, r2.until)
              /\ \A p \in Int : In(p, c) <=> In(p, r1) /\ In(p, r2)
<1>1. /\ r1.from \in Nat /\ r1.until \in Nat /\ r1.from < r1.until
      /\ r2.from \in Nat /\ r2.until \in Nat /\ r2.from < r2.until
  BY MaxLocAssumption DEF Interval, Loc
<1>2. CASE Greater(r1.from, r2.from) < Smaller(r1.until, r2.until)
  <2> DEFINE c == [from |-> Greater(r1.from, r2.from), until |-> Smaller(r1.until, r2.until)]
  <2>1. c \in Interval  BY <1>2 DEF Interval, Greater, Smaller
  <2>2. Common(r1, r2) = <<c>>
    BY <1>1, <1>2 DEF Common, CommonInOrder, New, Greater, Smaller
  <2>3. \A p \in Int : In(p, c) <=> In(p, r1) /\ In(p, r2)
    BY <1>1 DEF In, Greater, Smaller
  <2>. QED BY <2>1, <2>2, <2>3
<1>3. CASE ~(Greater(r1.from, r2.from) < Smaller(r1.until, r2.until))
  <2>1. Common(r1, r2) = << >>
    BY <1>1, <1>3 DEF Common, CommonInOrder, New, Greater, Smaller
  <2>2. \A p \in Int : ~(In(p, r1) /\ In(p, r2))
    BY <1>1, <1>3 DEF In, Greater, Smaller
  <2>. QED BY <2>1, <2>2
<1>. QED BY <1>2, <1>3

\* The pieces lie within the range and are disjoint.
LEMMA PiecesAre ==
  ASSUME NEW r \in Interval, NEW c \in Interval, r.from <= c.from, c.until <= r.until
  PROVE  /\ Pieces(r, c) \in Seq(Interval)
         /\ \A k \in DOMAIN Pieces(r, c) : \A p \in Int : In(p, Pieces(r, c)[k]) => In(p, r)
         /\ \A k, l \in DOMAIN Pieces(r, c) :
              k # l => \A p \in Int : ~(In(p, Pieces(r, c)[k]) /\ In(p, Pieces(r, c)[l]))
<1>1. /\ r.from \in Nat /\ r.until \in Loc /\ r.until \in Nat
      /\ c.from \in Nat /\ c.until \in Nat /\ c.from < c.until
      /\ Minus(c.from, 1) \in Loc /\ Minus(c.from, 1) \in Nat /\ Minus(c.from, 1) <= c.from
      /\ c.until + 1 \in Nat
  BY MaxLocAssumption DEF Interval, Loc, Minus
<1> DEFINE a == New(r.from, Minus(c.from, 1))
           b == New(c.until + 1, r.until)
<1>2. a \in Seq(Interval) /\ b \in Seq(Interval)  BY <1>1, NewIs
<1>3. a = << >> \/ a = <<[from |-> r.from, until |-> Minus(c.from, 1)]>>  BY DEF New
<1>4. b = << >> \/ b = <<[from |-> c.until + 1, until |-> r.until]>>  BY DEF New
<1>5. \A p \in Int : Covered(p, a) => r.from <= p /\ p < Minus(c.from, 1)  BY <1>1, NewIs
<1>6. \A p \in Int : Covered(p, b) => c.until + 1 <= p /\ p < r.until  BY <1>1, NewIs
<1>7. /\ Len(a) \in {0, 1} /\ Len(b) \in {0, 1}
      /\ \A p \in Int : Len(a) = 1 /\ In(p, a[1]) => Covered(p, a)
      /\ \A p \in Int : Len(b) = 1 /\ In(p, b[1]) => Covered(p, b)
  <2>1. Len(a) \in {0, 1}  BY <1>3
  <2>2. Len(b) \in {0, 1}  BY <1>4
  <2>3. ASSUME NEW p \in Int, Len(a) = 1, In(p, a[1]) PROVE Covered(p, a)
    <3>1. 1 \in DOMAIN a  BY <1>2, <2>3
    <3>. QED BY <2>3, <3>1 DEF Covered
  <2>4. ASSUME NEW p \in Int, Len(b) = 1, In(p, b[1]) PROVE Covered(p, b)
    <3>1. 1 \in DOMAIN b  BY <1>2, <2>4
    <3>. QED BY <2>4, <3>1 DEF Covered
  <2>. QED BY <2>1, <2>2, <2>3, <2>4
<1>8. Pieces(r, c) = a \o b  BY DEF Pieces
<1> HIDE DEF a, b
<1>9. /\ a \o b \in Seq(Interval) /\ Len(a \o b) = Len(a) + Len(b)
      /\ \A l \in 1 .. Len(a) : (a \o b)[l] = a[l]
      /\ \A l \in Len(a) + 1 .. Len(a) + Len(b) : (a \o b)[l] = b[l - Len(a)]
      /\ DOMAIN (a \o b) = 1 .. Len(a) + Len(b)
  <2>1. /\ a \o b \in Seq(Interval) /\ Len(a \o b) = Len(a) + Len(b)
        /\ \A l \in 1 .. Len(a) : (a \o b)[l] = a[l]
        /\ \A l \in Len(a) + 1 .. Len(a) + Len(b) : (a \o b)[l] = b[l - Len(a)]
    BY <1>2, ConcatIs
  <2>. QED BY <2>1
<1>10. ASSUME NEW k \in 1 .. Len(a) + Len(b)
       PROVE  \/ Len(a) = 1 /\ (a \o b)[k] = a[1] /\ k = 1
              \/ Len(b) = 1 /\ (a \o b)[k] = b[1] /\ k = Len(a) + 1
  <2>1. /\ Len(a) \in Nat /\ Len(b) \in Nat
        /\ Len(a) = 0 \/ Len(a) = 1
        /\ Len(b) = 0 \/ Len(b) = 1
    BY <1>7
  <2>2. CASE Len(a) = 0
    <3>1. k = 1 /\ Len(b) = 1  BY <2>1, <2>2
    <3>2. (a \o b)[k] = b[k - Len(a)]  BY <1>9, <2>2
    <3>. QED BY <2>2, <3>1, <3>2
  <2>3. CASE Len(a) = 1
    <3>1. CASE k = 1  BY <1>9, <2>3, <3>1
    <3>2. CASE k # 1
      <4>1. k = 2 /\ Len(b) = 1
        <5>1. CASE Len(b) = 0
          <6>1. k \in 1 .. 1 + 0  BY <2>3, <5>1
          <6>. QED BY <3>2, <6>1
        <5>2. CASE Len(b) = 1
          <6>1. k \in 1 .. 1 + 1  BY <2>3, <5>2
          <6>. QED BY <3>2, <5>2, <6>1
        <5>. QED BY <2>1, <5>1, <5>2
      <4>2. (a \o b)[k] = b[k - Len(a)]  BY <1>9, <2>3, <4>1
      <4>. QED BY <2>3, <4>1, <4>2
    <3>. QED BY <3>1, <3>2
  <2>. QED BY <2>1, <2>2, <2>3
<1>11. ASSUME NEW k \in DOMAIN (a \o b), NEW p \in Int, In(p, (a \o b)[k]) PROVE In(p, r)
  <2>1. Covered(p, a) \/ Covered(p, b)  BY <1>7, <1>9, <1>10, <1>11
  <2>2. CASE Covered(p, a)
    BY <1>1, <1>5, <2>2 DEF In
  <2>3. CASE Covered(p, b)  BY <1>1, <1>6, <2>3 DEF In
  <2>. QED BY <2>1, <2>2, <2>3
<1>12. ASSUME NEW k \in DOMAIN (a \o b), NEW l \in DOMAIN (a \o b), k # l, NEW p \in Int
       PROVE  ~(In(p, (a \o b)[k]) /\ In(p, (a \o b)[l]))
  <2> SUFFICES ASSUME In(p, (a \o b)[k]), In(p, (a \o b)[l]) PROVE FALSE  OBVIOUS
  <2>1. Covered(p, a) /\ Covered(p, b)  BY <1>7, <1>9, <1>10, <1>12
  <2>. QED BY <1>1, <1>5, <1>6, <2>1
<1>. QED BY <1>8, <1>9, <1>11, <1>12

-----------------------------------------------------------------------------
(* Lists of decorations.                                                   *)

LEMMA DecoType ==
  ASSUME NEW kind \in Kinds, NEW range \in Interval
  PROVE  Deco(kind, range) \in Decoration
BY DEF Deco, Decoration

LEMMA AppendIs ==
  ASSUME NEW S, NEW s \in Seq(S), NEW e \in S
  PROVE  /\ Append(s, e) \in Seq(S)
         /\ DOMAIN Append(s, e) = 1 .. Len(s) + 1
         /\ \A k \in 1 .. Len(s) : Append(s, e)[k] = s[k]
         /\ Append(s, e)[Len(s) + 1] = e
OBVIOUS

\* A cut hides its first element; the others show the pieces.
LEMMA CutIs ==
  ASSUME NEW d \in Decoration, NEW c \in Interval
  PROVE  /\ Pieces(d.range, c) \in Seq(Interval)
         /\ Cut(d, c) \in Seq(Decoration)
         /\ Len(Cut(d, c)) = 1 + Len(Pieces(d.range, c))
         /\ Cut(d, c)[1].overlapped /\ Cut(d, c)[1].kind = d.kind /\ Cut(d, c)[1].range = c
         /\ \A k \in 1 .. Len(Pieces(d.range, c)) :
              Cut(d, c)[k + 1] = Deco(d.kind, Pieces(d.range, c)[k])
<1> DEFINE pieces == Pieces(d.range, c)
           rest == [k \in DOMAIN pieces |-> Deco(d.kind, pieces[k])]
           hidden == [d EXCEPT !.range = c, !.overlapped = TRUE]
<1>1. d.kind \in Kinds /\ d.range \in Interval  BY DEF Decoration
<1>2. pieces \in Seq(Interval)
  <2>1. /\ Minus(c.from, 1) \in Loc /\ c.until + 1 \in Nat
        /\ d.range.from \in Nat /\ d.range.until \in Loc
    BY <1>1, MaxLocAssumption DEF Interval, Loc, Minus
  <2>2. New(d.range.from, Minus(c.from, 1)) \in Seq(Interval)  BY <2>1, NewIs
  <2>3. New(c.until + 1, d.range.until) \in Seq(Interval)  BY <2>1, NewIs
  <2>. QED BY <2>2, <2>3, ConcatIs DEF Pieces
<1>3. hidden \in Decoration /\ hidden.overlapped /\ hidden.kind = d.kind /\ hidden.range = c
  BY DEF Decoration
<1>4. Cut(d, c) = <<hidden>> \o rest  BY DEF Cut
<1> HIDE DEF pieces, hidden
<1>5. /\ rest \in Seq(Decoration) /\ Len(rest) = Len(pieces)
      /\ DOMAIN pieces = 1 .. Len(pieces) /\ Len(pieces) \in Nat
  <2>1. DOMAIN pieces = 1 .. Len(pieces) /\ Len(pieces) \in Nat  BY <1>2
  <2>2. \A k \in 1 .. Len(pieces) : Deco(d.kind, pieces[k]) \in Decoration
    BY <1>1, <1>2, DecoType
  <2>3. rest \in [1 .. Len(pieces) -> Decoration]  BY <2>1, <2>2
  <2>4. rest \in Seq(Decoration)  BY <2>1, <2>3, ListIs
  <2>. QED BY <2>1, <2>3, <2>4
<1>6. \A k \in 1 .. Len(pieces) : rest[k] = Deco(d.kind, pieces[k])  BY <1>5
<1> HIDE DEF rest
<1>7. <<hidden>> \in Seq(Decoration) /\ Len(<<hidden>>) = 1 /\ <<hidden>>[1] = hidden  BY <1>3
<1> DEFINE front == <<hidden>>
<1> HIDE DEF front
<1>8. front \in Seq(Decoration) /\ Len(front) = 1 /\ front[1] = hidden  BY <1>7 DEF front
<1>9. /\ front \o rest \in Seq(Decoration) /\ Len(front \o rest) = Len(front) + Len(rest)
      /\ \A l \in 1 .. Len(front) : (front \o rest)[l] = front[l]
      /\ \A l \in Len(front) + 1 .. Len(front) + Len(rest) :
           (front \o rest)[l] = rest[l - Len(front)]
  <2>1. front \in Seq(Decoration) /\ rest \in Seq(Decoration)  BY <1>5, <1>8
  <2>. QED BY <2>1, ConcatIs
<1>10. Cut(d, c) = front \o rest  BY <1>4 DEF front
<1>11. Cut(d, c) \in Seq(Decoration) /\ Len(Cut(d, c)) = 1 + Len(pieces)
  BY <1>5, <1>8, <1>9, <1>10
<1>12. Cut(d, c)[1].overlapped /\ Cut(d, c)[1].kind = d.kind /\ Cut(d, c)[1].range = c
  BY <1>3, <1>8, <1>9, <1>10
<1>13. ASSUME NEW k \in 1 .. Len(pieces)
       PROVE  Cut(d, c)[k + 1] = Deco(d.kind, pieces[k])
  <2>1. k + 1 \in Len(front) + 1 .. Len(front) + Len(rest) /\ k + 1 - Len(front) = k
    BY <1>5, <1>8
  <2>2. Cut(d, c)[k + 1] = rest[k]  BY <1>9, <1>10, <2>1
  <2>. QED BY <1>6, <2>2
<1>. QED BY <1>2, <1>11, <1>12, <1>13 DEF pieces

-----------------------------------------------------------------------------
(* Types.                                                                  *)

TypeInv ==
  /\ TypeOK
  /\ phase = "call" => "call" \in Kinds
  /\ phase = "inner" => i <= Len(decorations)

\* While a decoration is compared, its list has an element at j before i.
LEMMA HideIs ==
  ASSUME TypeInv, Hide
  PROVE  /\ j \in 1 .. Len(decorations) /\ i \in 1 .. Len(decorations) /\ j < i
         /\ decorations \in Seq(Decoration) /\ decorations[j] \in Decoration
         /\ Overlap[1] \in Interval
         /\ decorations[j].range.from <= Overlap[1].from
         /\ Overlap[1].until <= decorations[j].range.until
         /\ ~decorations[j].overlapped
         /\ decorations' = Replaced(decorations, j, Cut(decorations[j], Overlap[1]))
         /\ j' = j + 1 /\ phase = "inner" /\ phase' = "inner" /\ i' = i /\ current' = current
<1>1. /\ j < i /\ ~Hidden /\ Overlap # << >> /\ phase = "inner"
      /\ j' = j + 1 /\ phase' = phase /\ i' = i /\ current' = current
  BY DEF Hide
<1>2. decorations' = Replaced(decorations, j, Cut(decorations[j], Overlap[1]))
  BY DEF Hide, Replaced
<1>3. /\ decorations \in Seq(Decoration) /\ i \in Nat \ {0} /\ j \in Nat \ {0}
      /\ i <= Len(decorations) /\ current \in Interval
  BY <1>1 DEF TypeInv, TypeOK
<1>4. j \in 1 .. Len(decorations) /\ i \in 1 .. Len(decorations)  BY <1>1, <1>3
<1>5. decorations[j] \in Decoration  BY <1>3, <1>4
<1>6. decorations[j].range \in Interval  BY <1>5 DEF Decoration
<1> DEFINE r == decorations[j].range
<1>7. r \in Interval  BY <1>6
<1> HIDE DEF r
<1>8. Common(current, r) # << >>  BY <1>1 DEF Overlap, r
<1>9. PICK c \in Interval :
        /\ Common(current, r) = <<c>>
        /\ c.from = Greater(current.from, r.from)
        /\ c.until = Smaller(current.until, r.until)
  BY <1>3, <1>7, <1>8, CommonIs
<1>10. Overlap[1] = c  BY <1>9 DEF Overlap, r
<1>11. r.from <= c.from /\ c.until <= r.until
  BY <1>3, <1>7, <1>9, MaxLocAssumption DEF Interval, Loc, Greater, Smaller
<1>12. ~decorations[j].overlapped  BY <1>1 DEF Hidden
<1>. QED BY <1>1, <1>2, <1>3, <1>4, <1>5, <1>10, <1>11, <1>12 DEF r

LEMMA InitType == Init => TypeInv
<1> SUFFICES ASSUME Init PROVE TypeInv  OBVIOUS
<1>. USE DEF Init
<1>1. decorations \in Seq(Decoration) /\ sorted \in Seq(Decoration)
  <2>1. << >> \in Seq(Decoration)  OBVIOUS
  <2>. QED BY <2>1
<1>2. current \in Interval
  BY DecorationsAssumption, MaxLocAssumption DEF Interval, Loc
<1>3. pushes \in 0 .. MaxPushes  BY DecorationsAssumption
<1>4. phase = "visit" /\ i = 1 /\ j = 1 /\ calls = {}  OBVIOUS
<1>. QED BY <1>1, <1>2, <1>3, <1>4 DEF TypeInv, TypeOK

LEMMA NextType == TypeInv /\ [Next]_vars => TypeInv'
<1> SUFFICES ASSUME TypeInv, [Next]_vars PROVE TypeInv'  OBVIOUS
<1>1. /\ phase \in {"visit", "call", "outer", "inner", "done"}
      /\ decorations \in Seq(Decoration) /\ sorted \in Seq(Decoration)
      /\ current \in Interval /\ calls \subseteq Interval
      /\ i \in Nat \ {0} /\ j \in Nat \ {0} /\ pushes \in 0 .. MaxPushes
      /\ phase = "call" => "call" \in Kinds
      /\ phase = "inner" => i <= Len(decorations)
  BY DEF TypeInv, TypeOK
<1>2. ASSUME Offer PROVE pushes' \in 0 .. MaxPushes
  BY <1>1, <1>2, DecorationsAssumption DEF Offer
<1>3. CASE VisitDecl
  <2>1. PICK kind \in Kinds \cap ListKinds :
          \E range \in Interval : decorations' = Append(decorations, Deco(kind, range))
    BY <1>3 DEF VisitDecl
  <2>2. PICK range \in Interval : decorations' = Append(decorations, Deco(kind, range))
    BY <2>1
  <2>3. Deco(kind, range) \in Decoration  BY DecoType
  <2>4. decorations' \in Seq(Decoration)  BY <1>1, <2>2, <2>3, AppendIs
  <2>5. Offer /\ phase = "visit" /\ UNCHANGED <<phase, i, j, current, calls, sorted>>
    BY <1>3 DEF VisitDecl, Offer
  <2>. QED BY <1>1, <1>2, <2>4, <2>5 DEF TypeInv, TypeOK
<1>4. CASE VisitUse
  <2>1. PICK kind \in Kinds \cap {"imm_borrow", "mut_borrow", "move"} :
          \E range \in Interval : decorations' = Append(decorations, Deco(kind, range))
    BY <1>4 DEF VisitUse
  <2>2. PICK range \in Interval : decorations' = Append(decorations, Deco(kind, range))
    BY <2>1
  <2>3. Deco(kind, range) \in Decoration  BY DecoType
  <2>4. decorations' \in Seq(Decoration)  BY <1>1, <2>2, <2>3, AppendIs
  <2>5. Offer /\ phase = "visit" /\ UNCHANGED <<phase, i, j, current, calls, sorted>>
    BY <1>4 DEF VisitUse, Offer
  <2>. QED BY <1>1, <1>2, <2>4, <2>5 DEF TypeInv, TypeOK
<1>5. CASE VisitCall
  <2>1. PICK range \in Interval :
          /\ calls' = calls \cup {range}
          /\ IF AroundAnother(range) THEN UNCHANGED <<phase, i, current>>
             ELSE phase' = "call" /\ i' = 1 /\ current' = range
    BY <1>5 DEF VisitCall
  <2>2. /\ Offer /\ phase = "visit" /\ "call" \in Kinds
        /\ UNCHANGED <<decorations, j, sorted>>
    BY <1>5 DEF VisitCall, Offer
  <2>. QED BY <1>1, <1>2, <2>1, <2>2 DEF TypeInv, TypeOK
<1>6. CASE RemoveOuterCall
  <2>1. /\ phase = "call" /\ i <= Len(decorations) /\ decorations' = RemoveAt(decorations, i)
        /\ UNCHANGED <<phase, i, j, current, aux>>
    BY <1>6 DEF RemoveOuterCall
  <2>2. i \in 1 .. Len(decorations)  BY <1>1, <2>1
  <2>3. decorations' \in Seq(Decoration)  BY <1>1, <2>1, <2>2, RemoveAtIs
  <2>. QED BY <1>1, <2>1, <2>3 DEF TypeInv, TypeOK, aux
<1>7. CASE PassDecoration
  BY <1>1, <1>7 DEF PassDecoration, TypeInv, TypeOK, aux
<1>8. CASE PushCall
  <2>1. /\ phase = "call" /\ decorations' = Append(decorations, Deco("call", current))
        /\ phase' = "visit" /\ UNCHANGED <<i, j, current, aux>>
    BY <1>8 DEF PushCall
  <2>2. Deco("call", current) \in Decoration  BY <1>1, <2>1, DecoType
  <2>3. decorations' \in Seq(Decoration)  BY <1>1, <2>1, <2>2, AppendIs
  <2>. QED BY <1>1, <2>1, <2>3 DEF TypeInv, TypeOK, aux
<1>9. CASE StartOverlapping
  <2>1. PICK p \in [DOMAIN decorations -> DOMAIN decorations] :
          decorations' = [k \in DOMAIN decorations |-> decorations[p[k]]]
    BY <1>9 DEF StartOverlapping
  <2>2. phase' = "outer" /\ i' = 2 /\ sorted' = decorations'
        /\ UNCHANGED <<j, current, pushes, calls>>
    BY <1>9 DEF StartOverlapping
  <2>3. DOMAIN decorations = 1 .. Len(decorations) /\ Len(decorations) \in Nat  BY <1>1
  <2>4. \A k \in DOMAIN decorations : decorations[k] \in Decoration  BY <1>1, <2>3
  <2>5. decorations' \in [1 .. Len(decorations) -> Decoration]  BY <2>1, <2>3, <2>4
  <2>6. decorations' \in Seq(Decoration)  BY <2>3, <2>5, ListIs
  <2>. QED BY <1>1, <2>2, <2>6 DEF TypeInv, TypeOK
<1>10. CASE Outer
  <2>1. /\ i <= Len(decorations) /\ current' = decorations[i].range /\ j' = 1
        /\ phase' = "inner" /\ UNCHANGED <<decorations, i, aux>>
    BY <1>10 DEF Outer
  <2>2. i \in 1 .. Len(decorations)  BY <1>1, <2>1
  <2>3. decorations[i] \in Decoration  BY <1>1, <2>2
  <2>4. current' \in Interval  BY <2>1, <2>3 DEF Decoration
  <2>. QED BY <1>1, <2>1, <2>4 DEF TypeInv, TypeOK, aux
<1>11. CASE Done
  BY <1>1, <1>11 DEF Done, TypeInv, TypeOK, aux
<1>12. CASE RemoveDuplicate
  <2>1. /\ phase = "inner" /\ decorations' = RemoveAt(decorations, i)
        /\ phase' = "outer" /\ UNCHANGED <<i, j, current, aux>>
    BY <1>12 DEF RemoveDuplicate
  <2>2. i \in 1 .. Len(decorations)  BY <1>1, <2>1
  <2>3. decorations' \in Seq(Decoration)  BY <1>1, <2>1, <2>2, RemoveAtIs
  <2>. QED BY <1>1, <2>1, <2>3 DEF TypeInv, TypeOK, aux
<1>13. CASE Pass
  BY <1>1, <1>13 DEF Pass, TypeInv, TypeOK, aux
<1>14. CASE Hide
  <2>1. /\ j \in 1 .. Len(decorations) /\ i \in 1 .. Len(decorations)
        /\ decorations \in Seq(Decoration) /\ decorations[j] \in Decoration
        /\ Overlap[1] \in Interval
        /\ decorations' = Replaced(decorations, j, Cut(decorations[j], Overlap[1]))
        /\ j' = j + 1 /\ phase' = "inner" /\ i' = i /\ current' = current
    BY <1>14, HideIs
  <2> DEFINE d == decorations[j]
             c == Overlap[1]
  <2>2. d \in Decoration /\ c \in Interval  BY <2>1
  <2> HIDE DEF d, c
  <2>3. Cut(d, c) \in Seq(Decoration) /\ Len(Cut(d, c)) = 1 + Len(Pieces(d.range, c))
        /\ Pieces(d.range, c) \in Seq(Interval)
    BY <2>2, CutIs
  <2> DEFINE t == Cut(d, c)
  <2> HIDE DEF t
  <2>4. t \in Seq(Decoration) /\ Len(t) >= 1  BY <2>3 DEF t
  <2>5. /\ Replaced(decorations, j, t) \in Seq(Decoration)
        /\ Len(Replaced(decorations, j, t)) = Len(decorations) - 1 + Len(t)
    BY <2>1, <2>4, ReplaceIs
  <2>6. decorations' = Replaced(decorations, j, t)  BY <2>1 DEF t, d, c
  <2>7. decorations' \in Seq(Decoration) /\ i' <= Len(decorations')
    BY <1>1, <2>1, <2>4, <2>5, <2>6
  <2>8. UNCHANGED aux /\ j' \in Nat \ {0}  BY <1>1, <1>14 DEF Hide
  <2>. QED BY <1>1, <2>1, <2>7, <2>8 DEF TypeInv, TypeOK, aux
<1>15. CASE OuterNext
  BY <1>1, <1>15 DEF OuterNext, InnerEnd, TypeInv, TypeOK, aux
<1>16. CASE UNCHANGED vars
  BY <1>1, <1>16 DEF vars, aux, TypeInv, TypeOK
<1>. QED BY <1>3, <1>4, <1>5, <1>6, <1>7, <1>8, <1>9, <1>10, <1>11, <1>12, <1>13,
            <1>14, <1>15, <1>16 DEF Next

\* decorations is a list of decorations of the kinds offered, and indices
\* stay where the code may use them (src/src/lsp/decoration.rs:481-662).
THEOREM TypeCorrect == Spec => []TypeOK
<1>1. Spec => []TypeInv  BY InitType, NextType, PTL DEF Spec
<1>2. TypeInv => TypeOK  BY DEF TypeInv
<1>. QED BY <1>1, <1>2, PTL

-----------------------------------------------------------------------------
(* Calls.                                                                  *)

Unnested == \A k, l \in DOMAIN decorations :
              Drawn(k) /\ Drawn(l) => ~IsSuperRange(decorations[k].range, decorations[l].range)

Represented(r) == \E k \in DOMAIN decorations :
  Drawn(k) /\ (decorations[k].range = r \/ IsSuperRange(r, decorations[k].range))

\* While a call is about to be pushed none is drawn within it, those around
\* it are gone up to i, and it stands for the calls it replaces.
CallInv ==
  /\ phase = "visit" => Unnested /\ \A r \in calls : Represented(r)
  /\ phase = "call" =>
       /\ Unnested
       /\ \A k \in DOMAIN decorations :
            Drawn(k) => /\ ~IsSuperRange(current, decorations[k].range)
                        /\ k < i => ~IsSuperRange(decorations[k].range, current)
       /\ \A r \in calls : r = current \/ IsSuperRange(r, current) \/ Represented(r)

LEMMA SuperTransitive ==
  ASSUME NEW r1 \in Interval, NEW r2 \in Interval, NEW r3 \in Interval
  PROVE  /\ ~IsSuperRange(r1, r1)
         /\ IsSuperRange(r1, r2) /\ IsSuperRange(r2, r3) => IsSuperRange(r1, r3)
BY MaxLocAssumption DEF IsSuperRange, Interval, Loc

\* A decoration that is no call changes nothing between calls.
LEMMA AppendOther ==
  ASSUME TypeInv, CallInv, phase = "visit", phase' = "visit", calls' = calls,
         NEW kind \in Kinds, kind # "call", NEW range \in Interval,
         decorations' = Append(decorations, Deco(kind, range))
  PROVE  CallInv'
<1> DEFINE d == Deco(kind, range)
<1>1. d \in Decoration /\ ~IsCall(d)  BY DecoType DEF IsCall, Deco
<1>2. decorations \in Seq(Decoration)  BY DEF TypeInv, TypeOK
<1> HIDE DEF d
<1>3. decorations' = Append(decorations, d)  BY DEF d
<1>4. /\ DOMAIN decorations' = 1 .. Len(decorations) + 1
      /\ \A k \in 1 .. Len(decorations) : decorations'[k] = decorations[k]
      /\ decorations'[Len(decorations) + 1] = d
      /\ DOMAIN decorations = 1 .. Len(decorations) /\ Len(decorations) \in Nat
  BY <1>1, <1>2, <1>3, AppendIs
<1>5. ASSUME NEW k PROVE Drawn(k)' <=> Drawn(k)
  <2>1. CASE k \in 1 .. Len(decorations)  BY <1>4, <2>1 DEF Drawn, IsCall
  <2>2. CASE k \notin 1 .. Len(decorations)
    <3>1. ~Drawn(k)  BY <1>4, <2>2 DEF Drawn
    <3>2. k \in DOMAIN decorations' => k = Len(decorations) + 1  BY <1>4, <2>2
    <3>3. ~Drawn(k)'  BY <1>1, <1>4, <3>2 DEF Drawn, IsCall
    <3>. QED BY <3>1, <3>3
  <2>. QED BY <2>1, <2>2
<1>6. \A k : Drawn(k) => k \in 1 .. Len(decorations) /\ decorations'[k] = decorations[k]
  BY <1>4 DEF Drawn
<1>7. Unnested /\ \A r \in calls : Represented(r)  BY DEF CallInv
<1>8. Unnested'  BY <1>5, <1>6, <1>7, <1>4 DEF Unnested
<1>9. ASSUME NEW r \in calls PROVE Represented(r)'
  <2>1. PICK k \in DOMAIN decorations :
          Drawn(k) /\ (decorations[k].range = r \/ IsSuperRange(r, decorations[k].range))
    BY <1>7 DEF Represented
  <2>2. Drawn(k)' /\ decorations'[k] = decorations[k]  BY <1>5, <1>6, <2>1
  <2>3. k \in DOMAIN decorations'  BY <2>2 DEF Drawn
  <2>. QED BY <2>1, <2>2, <2>3 DEF Represented
<1>. QED BY <1>8, <1>9 DEF CallInv

LEMMA InitCalls == Init => CallInv
<1> SUFFICES ASSUME Init PROVE CallInv  OBVIOUS
<1>1. DOMAIN decorations = {} /\ calls = {} /\ phase = "visit"  BY DEF Init
<1>. QED BY <1>1 DEF CallInv, Unnested

LEMMA NextCalls == TypeInv /\ CallInv /\ [Next]_vars => CallInv'
<1> SUFFICES ASSUME TypeInv, CallInv, [Next]_vars PROVE CallInv'  OBVIOUS
<1>1. /\ decorations \in Seq(Decoration) /\ current \in Interval /\ calls \subseteq Interval
      /\ i \in Nat \ {0} /\ DOMAIN decorations = 1 .. Len(decorations)
      /\ Len(decorations) \in Nat
  BY DEF TypeInv, TypeOK
<1>2. ASSUME NEW k \in DOMAIN decorations PROVE decorations[k].range \in Interval
  <2>1. decorations[k] \in Decoration  BY <1>1
  <2>. QED BY <2>1 DEF Decoration
<1>3. CASE VisitDecl
  <2>1. PICK kind \in Kinds \cap ListKinds :
          \E range \in Interval : decorations' = Append(decorations, Deco(kind, range))
    BY <1>3 DEF VisitDecl
  <2>2. PICK range \in Interval : decorations' = Append(decorations, Deco(kind, range))
    BY <2>1
  <2>3. kind \in Kinds /\ kind # "call"  BY DEF ListKinds
  <2>4. phase = "visit" /\ phase' = "visit" /\ calls' = calls
    BY <1>3 DEF VisitDecl, Offer
  <2>. QED BY <2>2, <2>3, <2>4, AppendOther
<1>4. CASE VisitUse
  <2>1. PICK kind \in Kinds \cap {"imm_borrow", "mut_borrow", "move"} :
          \E range \in Interval : decorations' = Append(decorations, Deco(kind, range))
    BY <1>4 DEF VisitUse
  <2>2. PICK range \in Interval : decorations' = Append(decorations, Deco(kind, range))
    BY <2>1
  <2>3. kind \in Kinds /\ kind # "call"  OBVIOUS
  <2>4. phase = "visit" /\ phase' = "visit" /\ calls' = calls
    BY <1>4 DEF VisitUse, Offer
  <2>. QED BY <2>2, <2>3, <2>4, AppendOther
<1>5. CASE VisitCall
  <2>1. PICK range \in Interval :
          /\ calls' = calls \cup {range}
          /\ IF AroundAnother(range) THEN UNCHANGED <<phase, i, current>>
             ELSE phase' = "call" /\ i' = 1 /\ current' = range
    BY <1>5 DEF VisitCall
  <2>2. phase = "visit" /\ UNCHANGED decorations  BY <1>5 DEF VisitCall, Offer
  <2>3. Unnested /\ \A r \in calls : Represented(r)  BY <2>2 DEF CallInv
  <2>4. Unnested' /\ \A r \in calls : Represented(r)'
    BY <2>2, <2>3 DEF Unnested, Represented, Drawn
  <2>5. CASE AroundAnother(range)
    <3>1. Represented(range)'  BY <2>2, <2>5 DEF AroundAnother, Represented, Drawn
    <3>2. phase' = "visit"  BY <2>1, <2>2, <2>5
    <3>. QED BY <2>1, <2>4, <3>1, <3>2 DEF CallInv
  <2>6. CASE ~AroundAnother(range)
    <3>1. phase' = "call" /\ i' = 1 /\ current' = range  BY <2>1, <2>6
    <3>2. ASSUME NEW k \in DOMAIN decorations', Drawn(k)'
          PROVE  /\ ~IsSuperRange(current', decorations'[k].range)
                 /\ ~(k < i')
      BY <1>1, <2>2, <2>6, <3>1, <3>2 DEF AroundAnother, Drawn
    <3>. QED BY <2>1, <2>4, <3>1, <3>2 DEF CallInv
  <2>. QED BY <2>5, <2>6
<1>6. CASE RemoveOuterCall
  <2>1. /\ phase = "call" /\ i <= Len(decorations) /\ AroundThis(decorations[i])
        /\ decorations' = RemoveAt(decorations, i)
        /\ UNCHANGED <<phase, i, current, calls>>
    BY <1>6 DEF RemoveOuterCall, aux
  <2>2. i \in 1 .. Len(decorations)  BY <1>1, <2>1
  <2>3. /\ decorations' \in Seq(Decoration) /\ Len(decorations') = Len(decorations) - 1
        /\ \A l \in 1 .. Len(decorations) - 1 :
             decorations'[l] = IF l < i THEN decorations[l] ELSE decorations[l + 1]
    BY <1>1, <2>1, <2>2, RemoveAtIs
  <2> DEFINE Was(l) == IF l < i THEN l ELSE l + 1
  <2>4. DOMAIN decorations' = 1 .. Len(decorations) - 1  BY <1>1, <2>3
  <2>5. ASSUME NEW l \in DOMAIN decorations'
        PROVE  /\ Was(l) \in DOMAIN decorations
               /\ decorations'[l] = decorations[Was(l)]
               /\ l < i => Was(l) = l
    BY <1>1, <2>2, <2>3, <2>4
  <2>6. ASSUME NEW k \in DOMAIN decorations, k # i
        PROVE  \E l \in DOMAIN decorations' : decorations'[l] = decorations[k]
    <3>1. CASE k < i
      <4>1. k \in 1 .. Len(decorations) - 1  BY <1>1, <2>2, <3>1
      <4>. QED BY <2>3, <2>4, <3>1, <4>1
    <3>2. CASE k > i
      <4>1. k - 1 \in 1 .. Len(decorations) - 1 /\ ~(k - 1 < i) /\ k - 1 + 1 = k
        BY <1>1, <2>2, <3>2
      <4>. QED BY <2>3, <2>4, <4>1
    <3>. QED BY <1>1, <2>6, <3>1, <3>2
  <2>7. /\ Unnested
        /\ \A k \in DOMAIN decorations :
             Drawn(k) => /\ ~IsSuperRange(current, decorations[k].range)
                         /\ k < i => ~IsSuperRange(decorations[k].range, current)
        /\ \A r \in calls : r = current \/ IsSuperRange(r, current) \/ Represented(r)
    BY <2>1 DEF CallInv
  <2> HIDE DEF Was
  <2>8. \A l \in DOMAIN decorations' : Drawn(l)' => Drawn(Was(l))  BY <2>5 DEF Drawn, IsCall
  <2>9. Unnested'  BY <2>5, <2>7, <2>8 DEF Unnested
  <2>10. ASSUME NEW k \in DOMAIN decorations', Drawn(k)'
         PROVE  /\ ~IsSuperRange(current', decorations'[k].range)
                /\ k < i' => ~IsSuperRange(decorations'[k].range, current')
    BY <2>1, <2>5, <2>7, <2>8, <2>10
  <2>11. ASSUME NEW r \in calls, r # current, ~IsSuperRange(r, current)
         PROVE  Represented(r)'
    <3>1. PICK k \in DOMAIN decorations :
            Drawn(k) /\ (decorations[k].range = r \/ IsSuperRange(r, decorations[k].range))
      BY <2>7, <2>11 DEF Represented
    <3>2. k # i
      <4> SUFFICES ASSUME k = i PROVE FALSE  OBVIOUS
      <4>1. IsSuperRange(decorations[k].range, current)  BY <2>1 DEF AroundThis
      <4>2. r \in Interval /\ decorations[k].range \in Interval  BY <1>1, <1>2
      <4>. QED BY <1>1, <2>11, <3>1, <4>1, <4>2, SuperTransitive
    <3>3. PICK l \in DOMAIN decorations' : decorations'[l] = decorations[k]
      BY <2>6, <3>2
    <3>4. Drawn(l)'  BY <3>1, <3>3 DEF Drawn, IsCall
    <3>. QED BY <3>1, <3>3, <3>4 DEF Represented
  <2>. QED BY <2>1, <2>9, <2>10, <2>11 DEF CallInv
<1>7. CASE PassDecoration
  <2>1. /\ phase = "call" /\ i <= Len(decorations) /\ ~AroundThis(decorations[i]) /\ i' = i + 1
        /\ UNCHANGED <<phase, decorations, current, calls>>
    BY <1>7 DEF PassDecoration, aux
  <2>2. ASSUME NEW k \in DOMAIN decorations, Drawn(k), k < i + 1
        PROVE  ~IsSuperRange(decorations[k].range, current)
    <3>1. CASE k = i  BY <2>1, <2>2, <3>1 DEF AroundThis, Drawn
    <3>2. CASE k < i  BY <2>1, <2>2, <3>2 DEF CallInv
    <3>. QED BY <1>1, <2>2, <3>1, <3>2
  <2>3. Unnested' /\ \A r \in calls : Represented(r)' <=> Represented(r)
    BY <2>1 DEF CallInv, Unnested, Represented, Drawn
  <2>4. ASSUME NEW k \in DOMAIN decorations', Drawn(k)'
        PROVE  /\ ~IsSuperRange(current', decorations'[k].range)
               /\ k < i' => ~IsSuperRange(decorations'[k].range, current')
    BY <2>1, <2>2, <2>4 DEF CallInv, Drawn
  <2>. QED BY <2>1, <2>3, <2>4 DEF CallInv
<1>8. CASE PushCall
  <2>1. /\ phase = "call" /\ i > Len(decorations) /\ phase' = "visit" /\ calls' = calls
        /\ decorations' = Append(decorations, Deco("call", current))
    BY <1>8 DEF PushCall, aux
  <2> DEFINE d == Deco("call", current)
  <2>2. d \in Decoration /\ IsCall(d) /\ d.range = current
    BY <1>1, <2>1, DecoType DEF IsCall, Deco, TypeInv
  <2> HIDE DEF d
  <2>3. decorations' = Append(decorations, d)  BY <2>1 DEF d
  <2>4. /\ DOMAIN decorations' = 1 .. Len(decorations) + 1
        /\ \A k \in 1 .. Len(decorations) : decorations'[k] = decorations[k]
        /\ decorations'[Len(decorations) + 1] = d
    BY <1>1, <2>2, <2>3, AppendIs
  <2>5. /\ Unnested
        /\ \A k \in DOMAIN decorations :
             Drawn(k) => /\ ~IsSuperRange(current, decorations[k].range)
                         /\ ~IsSuperRange(decorations[k].range, current)
        /\ \A r \in calls : r = current \/ IsSuperRange(r, current) \/ Represented(r)
    <3>1. \A k \in DOMAIN decorations : k < i  BY <1>1, <2>1
    <3>. QED BY <2>1, <3>1 DEF CallInv
  <2>6. \A k \in DOMAIN decorations : Drawn(k)' => Drawn(k)
    BY <1>1, <2>4 DEF Drawn, IsCall
  <2>7. \A k \in DOMAIN decorations' : k \in DOMAIN decorations \/ decorations'[k] = d
    BY <1>1, <2>4
  <2>8. ASSUME NEW k \in DOMAIN decorations', NEW l \in DOMAIN decorations',
               Drawn(k)', Drawn(l)'
        PROVE  ~IsSuperRange(decorations'[k].range, decorations'[l].range)
    <3>1. CASE k \in DOMAIN decorations /\ l \in DOMAIN decorations
      <4>1. Drawn(k) /\ Drawn(l)  BY <2>6, <2>8, <3>1
      <4>2. decorations'[k] = decorations[k] /\ decorations'[l] = decorations[l]
        BY <1>1, <2>4, <3>1
      <4>. QED BY <2>5, <3>1, <4>1, <4>2 DEF Unnested
    <3>2. CASE k \in DOMAIN decorations /\ decorations'[l] = d
      <4>1. Drawn(k) /\ decorations'[k] = decorations[k]  BY <1>1, <2>4, <2>6, <2>8, <3>2
      <4>. QED BY <2>2, <2>5, <3>2, <4>1
    <3>3. CASE decorations'[k] = d /\ l \in DOMAIN decorations
      <4>1. Drawn(l) /\ decorations'[l] = decorations[l]  BY <1>1, <2>4, <2>6, <2>8, <3>3
      <4>. QED BY <2>2, <2>5, <3>3, <4>1
    <3>4. CASE decorations'[k] = d /\ decorations'[l] = d
      BY <1>1, <2>2, <3>4, SuperTransitive
    <3>. QED BY <2>7, <3>1, <3>2, <3>3, <3>4
  <2>9. ASSUME NEW r \in calls PROVE Represented(r)'
    <3>1. CASE r = current \/ IsSuperRange(r, current)
      <4>1. PICK m \in DOMAIN decorations' : decorations'[m] = d  BY <1>1, <2>4
      <4>2. Drawn(m)'  BY <2>2, <4>1 DEF Drawn, IsCall
      <4>. QED BY <2>2, <3>1, <4>1, <4>2 DEF Represented
    <3>2. CASE Represented(r)
      <4>1. PICK k \in DOMAIN decorations :
              Drawn(k) /\ (decorations[k].range = r \/ IsSuperRange(r, decorations[k].range))
        BY <3>2 DEF Represented
      <4>2. k \in DOMAIN decorations' /\ decorations'[k] = decorations[k]  BY <1>1, <2>4
      <4>3. Drawn(k)'  BY <4>1, <4>2 DEF Drawn, IsCall
      <4>. QED BY <4>1, <4>2, <4>3 DEF Represented
    <3>. QED BY <2>5, <3>1, <3>2
  <2>10. Unnested'  BY <2>8 DEF Unnested
  <2>. QED BY <2>1, <2>9, <2>10 DEF CallInv
<1>9. CASE StartOverlapping
  BY <1>9 DEF StartOverlapping, CallInv
<1>10. CASE Outer \/ Done \/ RemoveDuplicate \/ Pass \/ Hide \/ OuterNext
  <2>1. phase \in {"outer", "inner"} /\ phase' \in {"outer", "inner", "done"}
    BY <1>10 DEF Outer, Done, RemoveDuplicate, Pass, Hide, OuterNext
  <2>. QED BY <2>1 DEF CallInv
<1>11. CASE UNCHANGED vars
  BY <1>11 DEF vars, aux, CallInv, Unnested, Represented, Drawn
<1>. QED BY <1>3, <1>4, <1>5, <1>6, <1>7, <1>8, <1>9, <1>10, <1>11 DEF Next

\* calc_call keeps the innermost of nested calls, whatever the order in
\* which they are visited (src/src/lsp/decoration.rs:680-708).
THEOREM CallsAreInnermost == Spec => []InnermostCalls
<1>1. TypeInv /\ CallInv => InnermostCalls
  BY DEF CallInv, Unnested, Represented, InnermostCalls
<1>. QED BY <1>1, InitType, NextType, InitCalls, NextCalls, PTL DEF Spec

-----------------------------------------------------------------------------
(* Cutting a decoration.                                                   *)

Disjoint(r1, r2) == \A p \in Int : ~(In(p, r1) /\ In(p, r2))
Clears(d, e) == d.overlapped \/ Disjoint(d.range, e.range)

\* Of the first n decorations of s, one that is shown has no position in
\* common with a later one.
ClearTo(s, n) == \A k, l \in DOMAIN s : k < l /\ l <= n => Clears(s[k], s[l])

Ranked(s) == \A k, l \in DOMAIN s : k <= l => Rank(s[k].kind) <= Rank(s[l].kind)

\* What decoration l was before decoration k was cut into n pieces.
Origin(l, k, n) == IF l < k THEN l ELSE IF l <= k + n THEN k ELSE l - n

\* What becomes of a list when decoration k is cut: k hides the common part,
\* pieces of it follow, the other decorations are as they were.
IsSplit(u, s, k, c, n) ==
  /\ n = Len(Pieces(s[k].range, c))
  /\ n \in Nat /\ u \in Seq(Decoration) /\ Len(u) = Len(s) + n
  /\ u[k].overlapped
  /\ \A l \in 1 .. n : u[k + l] = Deco(s[k].kind, Pieces(s[k].range, c)[l])
  /\ \A l \in 1 .. Len(s) : l < k => u[l] = s[l]
  /\ \A l \in 1 .. Len(s) : l > k => u[l + n] = s[l]
  /\ \A l \in DOMAIN u :
       /\ Origin(l, k, n) \in DOMAIN s
       /\ u[l].kind = s[Origin(l, k, n)].kind
       /\ \A p \in Int : In(p, u[l].range) => In(p, s[Origin(l, k, n)].range)
       /\ Origin(l, k, n) # k => u[l] = s[Origin(l, k, n)]
       /\ Origin(l, k, n) = k => l = k \/ (l - k \in 1 .. n /\ ~u[l].overlapped)

LEMMA SplitIs ==
  ASSUME NEW s \in Seq(Decoration), NEW k \in 1 .. Len(s), NEW c \in Interval,
         s[k].range.from <= c.from, c.until <= s[k].range.until, ~s[k].overlapped,
         NEW u, u = Replaced(s, k, Cut(s[k], c)),
         NEW n, n = Len(Pieces(s[k].range, c))
  PROVE  IsSplit(u, s, k, c, n)
<1> DEFINE d == s[k]
           pieces == Pieces(d.range, c)
           t == Cut(d, c)
<1>1. d \in Decoration /\ d.range \in Interval
  <2>1. d \in Decoration  OBVIOUS
  <2>. QED BY <2>1 DEF Decoration
<1>2. d.range.from <= c.from /\ c.until <= d.range.until /\ ~d.overlapped  OBVIOUS
<1>4. /\ Len(s) \in Nat /\ DOMAIN s = 1 .. Len(s) /\ s[k] = d /\ k \in 1 .. Len(s)
      /\ n = Len(pieces) /\ u = Replaced(s, k, t)
  OBVIOUS
<1>5. /\ pieces \in Seq(Interval) /\ t \in Seq(Decoration)
      /\ Len(t) = 1 + Len(pieces) /\ t[1].overlapped
      /\ t[1].kind = d.kind /\ t[1].range = c
      /\ \A q \in 1 .. Len(pieces) : t[q + 1] = Deco(d.kind, pieces[q])
  BY <1>1, CutIs
<1> HIDE DEF d, pieces, t
<1>6. n \in Nat /\ DOMAIN pieces = 1 .. n /\ Len(t) = 1 + n  BY <1>4, <1>5
<1>7. \A q \in 1 .. n : \A p \in Int : In(p, pieces[q]) => In(p, d.range)
  BY <1>1, <1>2, <1>6, PiecesAre DEF pieces
<1>8. /\ u \in Seq(Decoration) /\ Len(u) = Len(s) + n
      /\ \A l \in 1 .. k - 1 : u[l] = s[l]
      /\ \A l \in k .. k + n : u[l] = t[l - k + 1]
      /\ \A l \in k + n + 1 .. Len(s) + n : u[l] = s[l - n]
  <2>1. t \in Seq(Decoration)  BY <1>5
  <2>2. Replaced(s, k, t) \in Seq(Decoration) /\ Len(Replaced(s, k, t)) = Len(s) - 1 + Len(t)
    BY <2>1, ReplaceIs
  <2>3. \A l \in 1 .. k - 1 : Replaced(s, k, t)[l] = s[l]  BY <2>1, ReplaceIs
  <2>4. \A l \in k .. k - 1 + Len(t) : Replaced(s, k, t)[l] = t[l - k + 1]  BY <2>1, ReplaceIs
  <2>5. \A l \in k + Len(t) .. Len(s) - 1 + Len(t) : Replaced(s, k, t)[l] = s[l - Len(t) + 1]
    BY <2>1, ReplaceIs
  <2>6. k - 1 + Len(t) = k + n /\ k + Len(t) = k + n + 1 /\ Len(s) - 1 + Len(t) = Len(s) + n
    <3>1. k \in Int /\ Len(s) \in Int  BY <1>4
    <3>. QED BY <1>6, <3>1
  <2>7. ASSUME NEW l \in k + n + 1 .. Len(s) + n PROVE l - Len(t) + 1 = l - n
    BY <1>4, <1>6
  <2>. QED BY <1>4, <2>2, <2>3, <2>4, <2>5, <2>6, <2>7
<1>9. DOMAIN u = 1 .. Len(s) + n  BY <1>8
<1>10. u[k] = t[1]
  <2>1. k \in k .. k + n /\ k - k + 1 = 1  BY <1>4, <1>6
  <2>. QED BY <1>8, <2>1
<1>11. ASSUME NEW l \in 1 .. n PROVE u[k + l] = Deco(d.kind, pieces[l])
  <2>1. k + l \in k .. k + n /\ (k + l) - k + 1 = l + 1  BY <1>4, <1>6
  <2>2. u[k + l] = t[l + 1]  BY <1>8, <2>1
  <2>3. l \in 1 .. Len(pieces)  BY <1>4
  <2>. QED BY <1>5, <2>2, <2>3
<1>12. ASSUME NEW l \in 1 .. Len(s) PROVE (l < k => u[l] = s[l]) /\ (l > k => u[l + n] = s[l])
  <2>1. ASSUME l < k PROVE u[l] = s[l]
    <3>1. l \in 1 .. k - 1  BY <1>4, <2>1
    <3>. QED BY <1>8, <3>1
  <2>2. ASSUME l > k PROVE u[l + n] = s[l]
    <3>1. l + n \in k + n + 1 .. Len(s) + n /\ l + n - n = l  BY <1>4, <1>6, <2>2
    <3>2. u[l + n] = s[l + n - n]  BY <1>8, <3>1
    <3>. QED BY <3>1, <3>2
  <2>. QED BY <2>1, <2>2
<1>13. ASSUME NEW l \in DOMAIN u
       PROVE  /\ Origin(l, k, n) \in DOMAIN s
              /\ u[l].kind = s[Origin(l, k, n)].kind
              /\ \A p \in Int : In(p, u[l].range) => In(p, s[Origin(l, k, n)].range)
              /\ Origin(l, k, n) # k => u[l] = s[Origin(l, k, n)]
              /\ Origin(l, k, n) = k => l = k \/ (l - k \in 1 .. n /\ ~u[l].overlapped)
  <2>1. CASE l < k
    <3>1. l \in 1 .. k - 1 /\ Origin(l, k, n) = l /\ l \in DOMAIN s  BY <1>4, <1>9, <2>1 DEF Origin
    <3>. QED BY <1>8, <1>4, <2>1, <3>1
  <2>2. CASE l = k
    <3>1. Origin(l, k, n) = k  BY <1>4, <1>6, <2>2 DEF Origin
    <3>2. \A p \in Int : In(p, c) => In(p, d.range)
      <4>1. /\ c.from \in Int /\ c.until \in Int /\ d.range.from \in Int /\ d.range.until \in Int
        BY <1>1 DEF Interval, Loc
      <4>. QED BY <1>2, <4>1 DEF In
    <3>. QED BY <1>4, <1>5, <1>10, <2>2, <3>1, <3>2
  <2>3. CASE l > k /\ l <= k + n
    <3>1. Origin(l, k, n) = k /\ l - k \in 1 .. n /\ k + (l - k) = l
      BY <1>4, <1>6, <1>9, <2>3 DEF Origin
    <3>2. u[l] = Deco(d.kind, pieces[l - k])  BY <1>11, <3>1
    <3>3. u[l].kind = d.kind /\ u[l].range = pieces[l - k] /\ ~u[l].overlapped  BY <3>2 DEF Deco
    <3>. QED BY <1>4, <1>7, <3>1, <3>3
  <2>4. CASE l > k + n
    <3>1. /\ l \in k + n + 1 .. Len(s) + n /\ Origin(l, k, n) = l - n
          /\ l - n \in DOMAIN s /\ l - n # k
      BY <1>4, <1>6, <1>9, <2>4 DEF Origin
    <3>. QED BY <1>8, <3>1
  <2>. QED BY <1>4, <1>6, <1>9, <2>1, <2>2, <2>3, <2>4
<1>14. u[k].overlapped  BY <1>5, <1>10
<1>. QED BY <1>6, <1>8, <1>11, <1>12, <1>13, <1>14 DEF IsSplit, d, pieces

\* When decoration k of a clear prefix is cut, what becomes of the prefix is
\* clear too, and the order by rank remains.
LEMMA CutKeeps ==
  ASSUME NEW s \in Seq(Decoration), NEW k \in 1 .. Len(s), NEW c \in Interval,
         NEW u, NEW n, IsSplit(u, s, k, c, n),
         s[k].range.from <= c.from, c.until <= s[k].range.until, ~s[k].overlapped
  PROVE  /\ Ranked(s) => Ranked(u)
         /\ \A m, q \in Nat : k <= m /\ q <= m + n /\ ClearTo(s, m) => ClearTo(u, q)
<1>1. /\ n \in Nat /\ u \in Seq(Decoration) /\ Len(u) = Len(s) + n
      /\ u[k].overlapped
      /\ \A l \in 1 .. n : u[k + l] = Deco(s[k].kind, Pieces(s[k].range, c)[l])
      /\ \A l \in DOMAIN u :
           /\ Origin(l, k, n) \in DOMAIN s
           /\ u[l].kind = s[Origin(l, k, n)].kind
           /\ \A p \in Int : In(p, u[l].range) => In(p, s[Origin(l, k, n)].range)
           /\ Origin(l, k, n) # k => u[l] = s[Origin(l, k, n)]
           /\ Origin(l, k, n) = k => l = k \/ (l - k \in 1 .. n /\ ~u[l].overlapped)
  BY DEF IsSplit
<1>2. /\ DOMAIN s = 1 .. Len(s) /\ DOMAIN u = 1 .. Len(s) + n
      /\ Len(s) \in Nat /\ k \in 1 .. Len(s)
  BY <1>1
<1>3. \A a, b \in DOMAIN u : a <= b => Origin(a, k, n) <= Origin(b, k, n)
  BY <1>1, <1>2 DEF Origin
<1>4. ASSUME NEW a \in 1 .. n, NEW b \in 1 .. n, a # b
      PROVE  Disjoint(u[k + a].range, u[k + b].range)
  <2> DEFINE pieces == Pieces(s[k].range, c)
  <2>1. s[k].range \in Interval
    <3>1. s[k] \in Decoration  OBVIOUS
    <3>. QED BY <3>1 DEF Decoration
  <2>2. pieces \in Seq(Interval)
        /\ \A x, y \in DOMAIN pieces : x # y => Disjoint(pieces[x], pieces[y])
    BY <2>1, PiecesAre DEF Disjoint
  <2>3. a \in DOMAIN pieces /\ b \in DOMAIN pieces
    <3>1. n = Len(pieces)  BY DEF IsSplit
    <3>. QED BY <2>2, <3>1
  <2>4. \A l \in 1 .. n : u[k + l] = Deco(s[k].kind, pieces[l])  BY DEF IsSplit
  <2> HIDE DEF pieces
  <2>5. ASSUME NEW l \in 1 .. n PROVE u[k + l].range = pieces[l]
    <3>1. u[k + l] = Deco(s[k].kind, pieces[l])  BY <2>4
    <3>2. Deco(s[k].kind, pieces[l]).range = pieces[l]  BY DEF Deco
    <3>. QED BY <3>1, <3>2
  <2>. QED BY <1>4, <2>2, <2>3, <2>5
<1>5. ASSUME Ranked(s) PROVE Ranked(u)
  BY <1>1, <1>3, <1>5 DEF Ranked
<1>6. ASSUME NEW m \in Nat, NEW q \in Nat, k <= m, q <= m + n, ClearTo(s, m),
             NEW a \in DOMAIN u, NEW b \in DOMAIN u, a < b, b <= q, ~u[a].overlapped
      PROVE  Disjoint(u[a].range, u[b].range)
  <2> DEFINE oa == Origin(a, k, n)
             ob == Origin(b, k, n)
  <2>1. /\ oa \in DOMAIN s /\ ob \in DOMAIN s /\ oa <= ob
        /\ \A p \in Int : In(p, u[a].range) => In(p, s[oa].range)
        /\ \A p \in Int : In(p, u[b].range) => In(p, s[ob].range)
    BY <1>1, <1>3, <1>6
  <2>2. CASE oa # ob
    <3>1. oa < ob  BY <1>2, <2>1, <2>2
    <3>2. ob <= m  BY <1>1, <1>2, <1>6 DEF Origin
    <3>3. ~s[oa].overlapped
      <4>1. CASE oa = k  BY <4>1
      <4>2. CASE oa # k
        <5>1. u[a] = s[oa]  BY <1>1, <4>2
        <5>. QED BY <1>6, <5>1
      <4>. QED BY <4>1, <4>2
    <3>4. Disjoint(s[oa].range, s[ob].range)
      <4>1. Clears(s[oa], s[ob])  BY <1>6, <2>1, <3>1, <3>2 DEF ClearTo
      <4>. QED BY <3>3, <4>1 DEF Clears
    <3>. QED BY <2>1, <3>4 DEF Disjoint
  <2>3. CASE oa = ob
    <3>1. oa = k  BY <1>1, <1>2, <1>6, <2>3 DEF Origin
    <3>2. a # k  BY <1>1, <1>6
    <3>3. a - k \in 1 .. n  BY <1>1, <3>1, <3>2
    <3>4. b - k \in 1 .. n
      <4>1. b # k  BY <1>1, <1>2, <1>6, <3>3
      <4>. QED BY <1>1, <2>3, <3>1, <4>1
    <3>5. a - k # b - k /\ k + (a - k) = a /\ k + (b - k) = b  BY <1>2, <1>6
    <3>. QED BY <1>4, <3>3, <3>4, <3>5
  <2>. QED BY <2>2, <2>3
<1>7. ASSUME NEW m \in Nat, NEW q \in Nat, k <= m, q <= m + n, ClearTo(s, m)
      PROVE  ClearTo(u, q)
  BY <1>6, <1>7 DEF ClearTo, Clears
<1>. QED BY <1>5, <1>7

-----------------------------------------------------------------------------
(* Overlapping.                                                            *)

Scanning == phase \in {"outer", "inner", "done"}

Plain(s) == \A k \in DOMAIN s : ~s[k].overlapped

\* A decoration as it was in the list s the scan began with.
Fresh(d, s) == \E l \in DOMAIN s : d = s[l]

\* The decorations stay in order; every one is fresh or behind a clear prefix.
OrderInv ==
  /\ phase \in {"visit", "call"} => Plain(decorations)
  /\ Scanning =>
       /\ Plain(sorted) /\ Ranked(decorations)
       /\ \A m \in DOMAIN decorations : ClearTo(decorations, m) \/ Fresh(decorations[m], sorted)

\* The decoration compared is still at i, and clear of those before j.
Comparing ==
  /\ decorations[i].range = current
  /\ \A k \in DOMAIN decorations :
       k < j /\ k < i => decorations[k].overlapped \/ Disjoint(decorations[k].range, current)

\* The decorations before i are clear.  Pieces inserted at j push others of
\* them to i and beyond: then those up to i are clear as well, although
\* current is no longer the range of the decoration at i.
ScanInv ==
  /\ phase = "outer" => i >= 2 /\ ClearTo(decorations, i - 1)
  /\ phase = "inner" =>
       /\ i >= 2 /\ ClearTo(decorations, i - 1)
       /\ Comparing \/ ClearTo(decorations, i)
  /\ phase = "done" => i > Len(decorations) /\ ClearTo(decorations, Len(decorations))

LEMMA InitScan == Init => ScanInv /\ OrderInv
BY DEF Init, ScanInv, OrderInv, Plain, Scanning

LEMMA RankIs ==
  ASSUME NEW d \in Decoration
  PROVE  Rank(d.kind) \in 1 .. 9
<1>1. d.kind \in AllKinds  BY DecorationsAssumption DEF Decoration
<1>2. PICK k \in 1 .. 9 : Order[k] = d.kind  BY <1>1 DEF AllKinds
<1> HIDE DEF Order
<1>. QED BY <1>2 DEF Rank

LEMMA NextScan == TypeInv /\ ScanInv /\ [Next]_vars => ScanInv'
<1> SUFFICES ASSUME TypeInv, ScanInv, [Next]_vars PROVE ScanInv'  OBVIOUS
<1>1. /\ decorations \in Seq(Decoration) /\ current \in Interval
      /\ i \in Nat \ {0} /\ j \in Nat \ {0} /\ DOMAIN decorations = 1 .. Len(decorations)
      /\ Len(decorations) \in Nat
      /\ phase = "inner" => i <= Len(decorations)
  BY DEF TypeInv, TypeOK
<1>2. ASSUME NEW k \in DOMAIN decorations
      PROVE  decorations[k] \in Decoration /\ decorations[k].range \in Interval
  <2>1. decorations[k] \in Decoration  BY <1>1
  <2>. QED BY <2>1 DEF Decoration
<1>3. CASE VisitDecl \/ VisitUse \/ VisitCall \/ RemoveOuterCall \/ PassDecoration \/ PushCall
  <2>1. phase' \in {"visit", "call"}
    BY <1>3 DEF VisitDecl, VisitUse, VisitCall, Offer, RemoveOuterCall, PassDecoration, PushCall
  <2>. QED BY <2>1 DEF ScanInv
<1>4. CASE StartOverlapping
  <2>1. phase' = "outer" /\ i' = 2  BY <1>4 DEF StartOverlapping
  <2>2. TypeInv'  BY NextType
  <2>3. decorations' \in Seq(Decoration)  BY <2>2 DEF TypeInv, TypeOK
  <2>4. \A k \in DOMAIN decorations' : k \in Nat /\ k >= 1  BY <2>3
  <2>5. ClearTo(decorations', i' - 1)  BY <2>1, <2>4 DEF ClearTo
  <2>. QED BY <2>1, <2>5 DEF ScanInv
<1>5. CASE Outer
  <2>1. /\ phase = "outer" /\ i <= Len(decorations) /\ current' = decorations[i].range
        /\ j' = 1 /\ phase' = "inner" /\ i' = i /\ decorations' = decorations
    BY <1>5 DEF Outer
  <2>2. Comparing'  BY <1>1, <2>1 DEF Comparing
  <2>. QED BY <2>1, <2>2 DEF ScanInv
<1>6. CASE Done
  <2>1. phase = "outer" /\ i > Len(decorations) /\ phase' = "done" /\ i' = i
        /\ decorations' = decorations
    BY <1>6 DEF Done
  <2>2. ClearTo(decorations, i - 1)  BY <2>1 DEF ScanInv
  <2>3. ClearTo(decorations, Len(decorations))  BY <1>1, <2>1, <2>2 DEF ClearTo
  <2>. QED BY <2>1, <2>3 DEF ScanInv
<1>7. CASE RemoveDuplicate
  <2>1. /\ phase = "inner" /\ decorations' = RemoveAt(decorations, i)
        /\ phase' = "outer" /\ i' = i
    BY <1>7 DEF RemoveDuplicate
  <2>2. i \in 1 .. Len(decorations) /\ i >= 2 /\ ClearTo(decorations, i - 1)
    BY <1>1, <2>1 DEF ScanInv
  <2>3. /\ decorations' \in Seq(Decoration) /\ Len(decorations') = Len(decorations) - 1
        /\ \A l \in 1 .. Len(decorations) - 1 :
             decorations'[l] = IF l < i THEN decorations[l] ELSE decorations[l + 1]
    BY <1>1, <2>1, <2>2, RemoveAtIs
  <2>4. DOMAIN decorations' = 1 .. Len(decorations) - 1  BY <1>1, <2>3
  <2>5. \A l \in DOMAIN decorations' :
          l <= i - 1 => l \in DOMAIN decorations /\ decorations'[l] = decorations[l]
    BY <1>1, <2>3, <2>4
  <2>6. ClearTo(decorations', i - 1)  BY <2>2, <2>5 DEF ClearTo
  <2>. QED BY <2>1, <2>2, <2>6 DEF ScanInv
<1>8. CASE Pass
  <2>1. /\ phase = "inner" /\ j < i /\ (Hidden \/ Overlap = << >>) /\ j' = j + 1
        /\ phase' = phase /\ decorations' = decorations /\ i' = i /\ current' = current
    BY <1>8 DEF Pass
  <2>2. /\ i >= 2 /\ ClearTo(decorations, i - 1)
        /\ Comparing \/ ClearTo(decorations, i)
    BY <2>1 DEF ScanInv
  <2>3. decorations[j].overlapped \/ Disjoint(decorations[j].range, current)
    <3>1. j \in DOMAIN decorations  BY <1>1, <2>1
    <3>2. CASE Hidden  BY <3>2 DEF Hidden
    <3>3. CASE Overlap = << >>
      <4>1. decorations[j].range \in Interval  BY <1>2, <3>1
      <4>2. Common(current, decorations[j].range) = << >>  BY <3>3 DEF Overlap
      <4>. QED BY <1>1, <4>1, <4>2, CommonIs DEF Disjoint
    <3>. QED BY <2>1, <3>2, <3>3
  <2>4. ASSUME Comparing PROVE Comparing'
    <3>1. \A k \in DOMAIN decorations : k < j + 1 => k < j \/ k = j  BY <1>1
    <3>. QED BY <2>1, <2>3, <2>4, <3>1 DEF Comparing
  <2>5. ClearTo(decorations', i' - 1) /\ (Comparing' \/ ClearTo(decorations', i'))
    BY <2>1, <2>2, <2>4
  <2>. QED BY <2>1, <2>2, <2>5 DEF ScanInv
<1>9. CASE Hide
  <2>1. /\ j \in 1 .. Len(decorations) /\ i \in 1 .. Len(decorations) /\ j < i
        /\ decorations[j] \in Decoration /\ Overlap[1] \in Interval
        /\ decorations[j].range.from <= Overlap[1].from
        /\ Overlap[1].until <= decorations[j].range.until
        /\ ~decorations[j].overlapped
        /\ decorations' = Replaced(decorations, j, Cut(decorations[j], Overlap[1]))
        /\ j' = j + 1 /\ phase = "inner" /\ phase' = "inner" /\ i' = i /\ current' = current
    BY <1>9, HideIs
  <2>2. /\ i >= 2 /\ ClearTo(decorations, i - 1)
        /\ Comparing \/ ClearTo(decorations, i)
    BY <2>1 DEF ScanInv
  <2> DEFINE c == Overlap[1]
             n == Len(Pieces(decorations[j].range, c))
  <2>3. c \in Interval /\ decorations[j].range.from <= c.from
        /\ c.until <= decorations[j].range.until
        /\ decorations' = Replaced(decorations, j, Cut(decorations[j], c))
    BY <2>1
  <2> HIDE DEF c
  <2>4. /\ Pieces(decorations[j].range, c) \in Seq(Interval)
        /\ Cut(decorations[j], c) \in Seq(Decoration)
        /\ Len(Cut(decorations[j], c)) = 1 + n
        /\ Cut(decorations[j], c)[1].overlapped
    BY <2>1, <2>3, CutIs
  <2>5. n \in Nat  BY <2>4
  <2>6. ASSUME NEW m \in Nat, j <= m, ClearTo(decorations, m), NEW q \in Nat, q <= m + n
        PROVE  ClearTo(decorations', q)
    <3>1. IsSplit(decorations', decorations, j, c, n)  BY <1>1, <2>1, <2>3, SplitIs
    <3>. QED BY <1>1, <2>1, <2>3, <2>6, <3>1, CutKeeps
  <2> HIDE DEF n
  <2>7. i - 1 \in Nat /\ j <= i - 1 /\ i \in Nat /\ i - 1 <= i - 1 + n  BY <1>1, <2>1, <2>2, <2>5
  <2>8. ClearTo(decorations', i - 1)  BY <2>2, <2>6, <2>7
  <2>9. CASE ClearTo(decorations, i)
    <3>1. j <= i /\ i <= i + n  BY <1>1, <2>1, <2>5
    <3>2. ClearTo(decorations', i)  BY <2>6, <2>7, <2>9, <3>1
    <3>. QED BY <2>1, <2>2, <2>8, <3>2 DEF ScanInv
  <2>10. CASE n > 0
    <3>1. i <= i - 1 + n  BY <1>1, <2>5, <2>10
    <3>2. ClearTo(decorations', i)  BY <2>2, <2>6, <2>7, <3>1
    <3>. QED BY <2>1, <2>2, <2>8, <3>2 DEF ScanInv
  <2>11. CASE Comparing /\ n = 0
    <3> DEFINE t == Cut(decorations[j], c)
    <3>1. t \in Seq(Decoration) /\ Len(t) = 1 /\ t[1].overlapped  BY <2>4, <2>11
    <3> HIDE DEF t
    <3>2. decorations' = Replaced(decorations, j, t)  BY <2>3 DEF t
    <3>3. /\ Len(decorations') = Len(decorations) /\ decorations' \in Seq(Decoration)
          /\ decorations'[j] = t[1]
          /\ \A l \in DOMAIN decorations : l # j => decorations'[l] = decorations[l]
      <4>1. /\ decorations' \in Seq(Decoration)
            /\ Len(decorations') = Len(decorations) - 1 + Len(t)
            /\ \A l \in 1 .. j - 1 : decorations'[l] = decorations[l]
            /\ \A l \in j .. j - 1 + Len(t) : decorations'[l] = t[l - j + 1]
            /\ \A l \in j + Len(t) .. Len(decorations) - 1 + Len(t) :
                 decorations'[l] = decorations[l - Len(t) + 1]
        <5>1. t \in Seq(Decoration)  BY <3>1
        <5>2. /\ Replaced(decorations, j, t) \in Seq(Decoration)
              /\ Len(Replaced(decorations, j, t)) = Len(decorations) - 1 + Len(t)
              /\ \A l \in 1 .. j - 1 : Replaced(decorations, j, t)[l] = decorations[l]
              /\ \A l \in j .. j - 1 + Len(t) : Replaced(decorations, j, t)[l] = t[l - j + 1]
              /\ \A l \in j + Len(t) .. Len(decorations) - 1 + Len(t) :
                   Replaced(decorations, j, t)[l] = decorations[l - Len(t) + 1]
          BY <1>1, <2>1, <5>1, ReplaceIs
        <5>. QED BY <3>2, <5>2
      <4>2. \A l \in j + 1 .. Len(decorations) : decorations'[l] = decorations[l]
        <5> SUFFICES ASSUME NEW l \in j + 1 .. Len(decorations)
                     PROVE  decorations'[l] = decorations[l]
          OBVIOUS
        <5>1. l \in j + Len(t) .. Len(decorations) - 1 + Len(t) /\ l - Len(t) + 1 = l
          BY <1>1, <3>1
        <5>. QED BY <4>1, <5>1
      <4>3. decorations'[j] = t[1]
        <5>1. j \in j .. j - 1 + Len(t) /\ j - j + 1 = 1  BY <1>1, <3>1
        <5>. QED BY <4>1, <5>1
      <4>4. Len(decorations') = Len(decorations)  BY <1>1, <3>1, <4>1
      <4>5. \A l \in DOMAIN decorations : l # j => l \in 1 .. j - 1 \/ l \in j + 1 .. Len(decorations)
        BY <1>1, <2>1
      <4>. QED BY <4>1, <4>2, <4>3, <4>4, <4>5
    <3>4. DOMAIN decorations' = DOMAIN decorations  BY <1>1, <3>3
    <3>5. decorations'[i].range = current'
      BY <1>1, <2>1, <2>11, <3>3 DEF Comparing
    <3>6. ASSUME NEW k \in DOMAIN decorations, k < j + 1, k < i
          PROVE  decorations'[k].overlapped \/ Disjoint(decorations'[k].range, current)
      <4>1. CASE k = j  BY <3>1, <3>3, <4>1
      <4>2. CASE k # j
        <5>1. k < j  BY <1>1, <3>6, <4>2
        <5>. QED BY <2>11, <3>3, <3>6, <4>2, <5>1 DEF Comparing
      <4>. QED BY <4>1, <4>2
    <3>7. Comparing'  BY <2>1, <3>4, <3>5, <3>6 DEF Comparing
    <3>. QED BY <2>1, <2>2, <2>8, <3>7 DEF ScanInv
  <2>. QED BY <2>2, <2>5, <2>9, <2>10, <2>11
<1>10. CASE OuterNext
  <2>1. /\ phase = "inner" /\ j >= i /\ i' = i + 1 /\ phase' = "outer"
        /\ decorations' = decorations
    BY <1>10 DEF OuterNext, InnerEnd
  <2>2. /\ i >= 2 /\ ClearTo(decorations, i - 1)
        /\ Comparing \/ ClearTo(decorations, i)
    BY <2>1 DEF ScanInv
  <2>3. ASSUME Comparing PROVE ClearTo(decorations, i)
    <3>1. ASSUME NEW k \in DOMAIN decorations, k < i
          PROVE  decorations[k].overlapped \/ Disjoint(decorations[k].range, decorations[i].range)
      BY <1>1, <2>1, <2>3, <3>1 DEF Comparing
    <3>2. ASSUME NEW k \in DOMAIN decorations, NEW l \in DOMAIN decorations, k < l, l <= i
          PROVE  Clears(decorations[k], decorations[l])
      <4>1. CASE l < i
        <5>1. l <= i - 1  BY <1>1, <4>1
        <5>. QED BY <2>2, <3>2, <5>1 DEF ClearTo
      <4>2. CASE l = i
        <5>1. k < i  BY <1>1, <3>2, <4>2
        <5>. QED BY <3>1, <4>2, <5>1 DEF Clears
      <4>. QED BY <1>1, <3>2, <4>1, <4>2
    <3>. QED BY <3>2 DEF ClearTo
  <2>4. i' - 1 = i  BY <1>1, <2>1
  <2>. QED BY <1>1, <2>1, <2>2, <2>3, <2>4 DEF ScanInv
<1>11. CASE UNCHANGED vars
  BY <1>11 DEF vars, aux, ScanInv, Comparing
<1>. QED BY <1>3, <1>4, <1>5, <1>6, <1>7, <1>8, <1>9, <1>10, <1>11 DEF Next

\* No position shows two decorations when handle_overlapping has returned,
\* although it inserts into and removes from the list it scans
\* (src/src/lsp/decoration.rs:481-662).
THEOREM OneIsShown == Spec => []OneShown
<1>1. TypeInv /\ ScanInv => OneShown
  <2> SUFFICES ASSUME TypeInv, ScanInv, phase = "done", NEW p \in Loc,
                      NEW k \in DOMAIN decorations, NEW l \in DOMAIN decorations,
                      Shown(decorations[k], p), Shown(decorations[l], p), k # l
               PROVE  FALSE
    BY DEF OneShown
  <2>1. k <= Len(decorations) /\ l <= Len(decorations)
    <3>1. decorations \in Seq(Decoration)  BY DEF TypeInv, TypeOK
    <3>. QED BY <3>1
  <2>2. Clears(decorations[k], decorations[l]) \/ Clears(decorations[l], decorations[k])
    <3>1. k < l \/ l < k
      <4>1. decorations \in Seq(Decoration)  BY DEF TypeInv, TypeOK
      <4>. QED BY <4>1
    <3>. QED BY <2>1, <3>1 DEF ScanInv, ClearTo
  <2>3. p \in Int  BY DEF Loc
  <2>. QED BY <2>2, <2>3 DEF Shown, Clears, Disjoint
<1>. QED BY <1>1, InitType, NextType, InitScan, NextScan, PTL DEF Spec

-----------------------------------------------------------------------------
(* The order of the scan.                                                  *)

\* A step of the scan that cuts decoration j at what it has in common with
\* the current range.
LEMMA HideCuts ==
  ASSUME TypeInv, Hide
  PROVE  \E c \in Interval : \E n \in Nat :
           /\ IsSplit(decorations', decorations, j, c, n)
           /\ Common(current, decorations[j].range) = <<c>>
           /\ decorations[j].range.from <= c.from
           /\ c.until <= decorations[j].range.until
<1>1. /\ j \in 1 .. Len(decorations)
      /\ decorations \in Seq(Decoration) /\ Overlap[1] \in Interval
      /\ decorations[j].range.from <= Overlap[1].from
      /\ Overlap[1].until <= decorations[j].range.until
      /\ ~decorations[j].overlapped
      /\ decorations' = Replaced(decorations, j, Cut(decorations[j], Overlap[1]))
  BY HideIs
<1>2. decorations[j] \in Decoration  BY <1>1
<1>3. decorations[j].range \in Interval  BY <1>2 DEF Decoration
<1>4. current \in Interval /\ Overlap # << >>  BY DEF TypeInv, TypeOK, Hide
<1> DEFINE r == decorations[j].range
<1>5. PICK c \in Interval : Common(current, r) = <<c>>
  <2>1. r \in Interval /\ Common(current, r) # << >>  BY <1>3, <1>4 DEF Overlap
  <2> HIDE DEF r
  <2>. QED BY <1>4, <2>1, CommonIs
<1>6. Overlap[1] = c  BY <1>5 DEF Overlap
<1> DEFINE n == Len(Pieces(r, c))
<1>7. IsSplit(decorations', decorations, j, c, n)  BY <1>1, <1>5, <1>6, SplitIs
<1>8. n \in Nat  BY <1>7 DEF IsSplit
<1>. QED BY <1>1, <1>5, <1>6, <1>7, <1>8

\* The decoration cut is shown and has positions in common with the current
\* range.
LEMMA OverlapMeets ==
  ASSUME TypeInv, Hide
  PROVE  /\ j \in DOMAIN decorations /\ ~decorations[j].overlapped /\ j < i
         /\ ~Disjoint(decorations[j].range, current)
<1>1. /\ j \in DOMAIN decorations /\ ~decorations[j].overlapped /\ j < i
      /\ decorations[j] \in Decoration
  <2>1. decorations \in Seq(Decoration)  BY DEF TypeInv, TypeOK
  <2>. QED BY <2>1, HideIs
<1>2. current \in Interval /\ decorations[j].range \in Interval
  BY <1>1 DEF TypeInv, TypeOK, Decoration
<1> DEFINE r == decorations[j].range
<1>3. Common(current, r) # << >>  BY DEF Hide, Overlap
<1>4. r \in Interval  BY <1>2
<1> HIDE DEF r
<1>5. PICK d \in Interval : \A p \in Int : In(p, d) <=> In(p, current) /\ In(p, r)
  BY <1>2, <1>3, <1>4, CommonIs
<1>6. d.from \in Int /\ In(d.from, d)  BY MaxLocAssumption DEF Interval, Loc, In
<1>. QED BY <1>1, <1>5, <1>6 DEF Disjoint, r

\* What decoration l was before decoration k was removed.
Back(l, k) == IF l < k THEN l ELSE l + 1

LEMMA RemovedIs ==
  ASSUME NEW s \in Seq(Decoration), NEW k \in 1 .. Len(s), NEW u, u = RemoveAt(s, k)
  PROVE  /\ u \in Seq(Decoration) /\ Len(u) = Len(s) - 1
         /\ \A l \in DOMAIN u : Back(l, k) \in DOMAIN s /\ u[l] = s[Back(l, k)]
         /\ Ranked(s) => Ranked(u)
         /\ \A m, q \in Nat : Back(q, k) <= m /\ ClearTo(s, m) => ClearTo(u, q)
<1>1. /\ u \in Seq(Decoration) /\ Len(u) = Len(s) - 1
      /\ \A l \in 1 .. Len(s) - 1 : u[l] = IF l < k THEN s[l] ELSE s[l + 1]
  BY RemoveAtIs
<1>2. DOMAIN u = 1 .. Len(s) - 1 /\ DOMAIN s = 1 .. Len(s) /\ Len(s) \in Nat  BY <1>1
<1>3. \A l \in DOMAIN u : Back(l, k) \in DOMAIN s /\ u[l] = s[Back(l, k)]
  BY <1>1, <1>2 DEF Back
<1>4. \A a, b \in Nat : /\ a <= b => Back(a, k) <= Back(b, k)
                        /\ a < b => Back(a, k) < Back(b, k)
  BY <1>2 DEF Back
<1>5. ASSUME Ranked(s) PROVE Ranked(u)
  BY <1>2, <1>3, <1>4, <1>5 DEF Ranked
<1>6. ASSUME NEW m \in Nat, NEW q \in Nat, Back(q, k) <= m, ClearTo(s, m)
      PROVE  ClearTo(u, q)
  <2>1. ASSUME NEW a \in DOMAIN u, NEW b \in DOMAIN u, a < b, b <= q
        PROVE  Clears(u[a], u[b])
    <3>1. a \in Nat /\ b \in Nat  BY <1>2
    <3>2. Back(a, k) < Back(b, k) /\ Back(b, k) <= Back(q, k)  BY <1>4, <2>1, <3>1
    <3>3. Back(b, k) <= m  BY <1>2, <1>6, <3>1, <3>2 DEF Back
    <3>4. Clears(s[Back(a, k)], s[Back(b, k)])  BY <1>3, <1>6, <3>2, <3>3 DEF ClearTo
    <3>. QED BY <1>3, <3>4
  <2>. QED BY <2>1 DEF ClearTo
<1>. QED BY <1>1, <1>3, <1>5, <1>6

LEMMA AppendPlain ==
  ASSUME NEW s \in Seq(Decoration), Plain(s), NEW kind \in Kinds, NEW range \in Interval
  PROVE  Plain(Append(s, Deco(kind, range)))
<1> DEFINE d == Deco(kind, range)
<1>1. d \in Decoration  BY DecoType
<1>2. ~d.overlapped  BY DEF Deco
<1> HIDE DEF d
<1>3. Plain(Append(s, d))
  <2>1. /\ DOMAIN Append(s, d) = 1 .. Len(s) + 1
        /\ \A k \in 1 .. Len(s) : Append(s, d)[k] = s[k]
        /\ Append(s, d)[Len(s) + 1] = d
    BY <1>1, AppendIs
  <2>2. DOMAIN s = 1 .. Len(s) /\ Len(s) \in Nat  OBVIOUS
  <2>3. ASSUME NEW k \in 1 .. Len(s) + 1 PROVE ~Append(s, d)[k].overlapped
    <3>1. CASE k = Len(s) + 1  BY <1>2, <2>1, <3>1
    <3>2. CASE k # Len(s) + 1
      <4>1. k \in 1 .. Len(s)  BY <2>2, <3>2
      <4>. QED BY <2>1, <2>2, <4>1 DEF Plain
    <3>. QED BY <3>1, <3>2
  <2>. QED BY <2>1, <2>3 DEF Plain
<1>. QED BY <1>3 DEF d

LEMMA NextOrder == TypeInv /\ ScanInv /\ OrderInv /\ [Next]_vars => OrderInv'
<1> SUFFICES ASSUME TypeInv, ScanInv, OrderInv, [Next]_vars PROVE OrderInv'  OBVIOUS
<1>1. /\ decorations \in Seq(Decoration) /\ current \in Interval
      /\ i \in Nat \ {0} /\ j \in Nat \ {0} /\ DOMAIN decorations = 1 .. Len(decorations)
      /\ Len(decorations) \in Nat
      /\ phase = "inner" => i <= Len(decorations)
      /\ phase = "call" => "call" \in Kinds
  BY DEF TypeInv, TypeOK
<1>2. CASE VisitDecl
  <2>1. phase = "visit" /\ phase' = "visit"  BY <1>2 DEF VisitDecl, Offer
  <2>2. Plain(decorations)  BY <2>1 DEF OrderInv
  <2>3. \E kind \in Kinds : \E range \in Interval :
          decorations' = Append(decorations, Deco(kind, range))
    BY <1>2 DEF VisitDecl
  <2>4. Plain(decorations')  BY <1>1, <2>2, <2>3, AppendPlain
  <2>. QED BY <2>1, <2>4 DEF OrderInv, Scanning
<1>3. CASE VisitUse
  <2>1. phase = "visit" /\ phase' = "visit"  BY <1>3 DEF VisitUse, Offer
  <2>2. Plain(decorations)  BY <2>1 DEF OrderInv
  <2>3. \E kind \in Kinds : \E range \in Interval :
          decorations' = Append(decorations, Deco(kind, range))
    BY <1>3 DEF VisitUse
  <2>4. Plain(decorations')  BY <1>1, <2>2, <2>3, AppendPlain
  <2>. QED BY <2>1, <2>4 DEF OrderInv, Scanning
<1>4. CASE VisitCall \/ PassDecoration
  <2>1. phase \in {"visit", "call"} /\ phase' \in {"visit", "call"} /\ decorations' = decorations
    BY <1>4 DEF VisitCall, Offer, PassDecoration
  <2>. QED BY <2>1 DEF OrderInv, Scanning, Plain
<1>5. CASE RemoveOuterCall
  <2>1. phase = "call" /\ phase' = "call" /\ decorations' = RemoveAt(decorations, i)
        /\ i \in 1 .. Len(decorations)
    BY <1>1, <1>5 DEF RemoveOuterCall
  <2>2. \A l \in DOMAIN decorations' :
          Back(l, i) \in DOMAIN decorations /\ decorations'[l] = decorations[Back(l, i)]
    BY <1>1, <2>1, RemovedIs
  <2>3. Plain(decorations)  BY <2>1 DEF OrderInv
  <2>4. Plain(decorations')  BY <2>2, <2>3 DEF Plain
  <2>. QED BY <2>1, <2>4 DEF OrderInv, Scanning
<1>6. CASE PushCall
  <2>1. phase = "call" /\ phase' = "visit"
        /\ decorations' = Append(decorations, Deco("call", current))
    BY <1>6 DEF PushCall
  <2>2. Plain(decorations)  BY <2>1 DEF OrderInv
  <2>3. Plain(decorations')  BY <1>1, <2>1, <2>2, AppendPlain
  <2>. QED BY <2>1, <2>3 DEF OrderInv, Scanning
<1>7. CASE StartOverlapping
  <2>1. phase = "visit" /\ phase' = "outer" /\ sorted' = decorations'
    BY <1>7 DEF StartOverlapping
  <2>2. PICK p \in [DOMAIN decorations -> DOMAIN decorations] :
          /\ \A k, l \in DOMAIN decorations : k < l => InOrder(p[k], p[l])
          /\ decorations' = [k \in DOMAIN decorations |-> decorations[p[k]]]
    BY <1>7 DEF StartOverlapping
  <2>3. \A k \in DOMAIN decorations : p[k] \in DOMAIN decorations  BY <2>2
  <2>4. /\ DOMAIN decorations' = DOMAIN decorations
        /\ \A k \in DOMAIN decorations : decorations'[k] = decorations[p[k]]
    BY <2>2
  <2>5. Plain(decorations)  BY <2>1 DEF OrderInv
  <2>6. Plain(sorted')  BY <2>1, <2>3, <2>4, <2>5 DEF Plain
  <2>7. \A k \in DOMAIN decorations : Rank(decorations[k].kind) \in 1 .. 9
    BY <1>1, RankIs
  <2>8. ASSUME NEW k \in DOMAIN decorations', NEW l \in DOMAIN decorations', k <= l
        PROVE  Rank(decorations'[k].kind) <= Rank(decorations'[l].kind)
    <3> DEFINE a == Rank(decorations[p[k]].kind)
               b == Rank(decorations[p[l]].kind)
    <3>1. a \in 1 .. 9 /\ b \in 1 .. 9  BY <2>3, <2>4, <2>7
    <3>2. a <= b
      <4>1. CASE k = l  BY <3>1, <4>1
      <4>2. CASE k # l
        <5>1. k < l  BY <1>1, <2>4, <2>8, <4>2
        <5>2. InOrder(p[k], p[l])  BY <2>2, <2>4, <5>1
        <5>3. a < b \/ a = b  BY <5>2 DEF InOrder
        <5> HIDE DEF a, b
        <5>. QED BY <3>1, <5>3
      <4>. QED BY <4>1, <4>2
    <3>. QED BY <2>4, <3>2
  <2>9. Ranked(decorations')  BY <2>8 DEF Ranked
  <2>10. \A m \in DOMAIN decorations' : Fresh(decorations'[m], sorted')  BY <2>1 DEF Fresh
  <2>. QED BY <2>1, <2>6, <2>9, <2>10 DEF OrderInv, Scanning
<1>8. CASE Outer \/ Done \/ Pass \/ OuterNext
  <2>1. /\ phase \in {"outer", "inner"} /\ phase' \in {"outer", "inner", "done"}
        /\ decorations' = decorations /\ sorted' = sorted
    BY <1>8 DEF Outer, Done, Pass, OuterNext, aux
  <2>. QED BY <2>1 DEF OrderInv, Scanning, Plain, Fresh
<1>9. CASE RemoveDuplicate
  <2>1. /\ phase = "inner" /\ phase' = "outer" /\ sorted' = sorted
        /\ decorations' = RemoveAt(decorations, i)
    BY <1>9 DEF RemoveDuplicate, aux
  <2>2. i \in 1 .. Len(decorations) /\ i >= 2 /\ ClearTo(decorations, i - 1)
    BY <1>1, <2>1 DEF ScanInv
  <2>3. /\ Plain(sorted) /\ Ranked(decorations)
        /\ \A m \in DOMAIN decorations : ClearTo(decorations, m) \/ Fresh(decorations[m], sorted)
    BY <2>1 DEF OrderInv, Scanning
  <2>4. /\ decorations' \in Seq(Decoration)
        /\ \A l \in DOMAIN decorations' :
             Back(l, i) \in DOMAIN decorations /\ decorations'[l] = decorations[Back(l, i)]
    <3>1. decorations' \in Seq(Decoration)  BY <1>1, <2>1, <2>2, RemovedIs
    <3>2. \A l \in DOMAIN decorations' :
            Back(l, i) \in DOMAIN decorations /\ decorations'[l] = decorations[Back(l, i)]
      BY <1>1, <2>1, <2>2, RemovedIs
    <3>. QED BY <3>1, <3>2
  <2>5. Ranked(decorations')  BY <1>1, <2>1, <2>2, <2>3, RemovedIs
  <2>6. \A m, q \in Nat : Back(q, i) <= m /\ ClearTo(decorations, m) => ClearTo(decorations', q)
    BY <1>1, <2>1, <2>2, RemovedIs
  <2>7. ASSUME NEW m \in DOMAIN decorations'
        PROVE  ClearTo(decorations', m) \/ Fresh(decorations'[m], sorted')
    <3>1. m \in Nat /\ Back(m, i) \in Nat /\ Back(m, i) <= Back(m, i)  BY <2>4 DEF Back
    <3>2. CASE ClearTo(decorations, Back(m, i))  BY <2>6, <3>1, <3>2
    <3>3. CASE Fresh(decorations[Back(m, i)], sorted)  BY <2>1, <2>4, <3>3 DEF Fresh
    <3>. QED BY <2>3, <2>4, <3>2, <3>3
  <2>. QED BY <2>1, <2>3, <2>5, <2>7 DEF OrderInv, Scanning
<1>10. CASE Hide
  <2>1. /\ phase = "inner" /\ phase' = "inner" /\ sorted' = sorted
        /\ ~decorations[j].overlapped /\ j < i
    BY <1>10 DEF Hide, aux, Hidden
  <2>2. /\ i \in 1 .. Len(decorations) /\ j \in 1 .. Len(decorations) /\ i >= 2
        /\ ClearTo(decorations, i - 1)
    BY <1>1, <2>1 DEF ScanInv
  <2>3. /\ Plain(sorted) /\ Ranked(decorations)
        /\ \A m \in DOMAIN decorations : ClearTo(decorations, m) \/ Fresh(decorations[m], sorted)
    BY <2>1 DEF OrderInv, Scanning
  <2>4. PICK c \in Interval, n \in Nat :
          /\ IsSplit(decorations', decorations, j, c, n)
          /\ decorations[j].range.from <= c.from
          /\ c.until <= decorations[j].range.until
    BY <1>10, HideCuts
  <2>5. Ranked(decorations')  BY <1>1, <2>1, <2>2, <2>3, <2>4, CutKeeps
  <2>6. \A m, q \in Nat : j <= m /\ q <= m + n /\ ClearTo(decorations, m) => ClearTo(decorations', q)
    BY <1>1, <2>1, <2>2, <2>4, CutKeeps
  <2>7. /\ decorations' \in Seq(Decoration) /\ Len(decorations') = Len(decorations) + n
        /\ \A l \in 1 .. Len(decorations) : l > j => decorations'[l + n] = decorations[l]
    BY <2>4 DEF IsSplit
  <2>8. ASSUME NEW m \in DOMAIN decorations'
        PROVE  ClearTo(decorations', m) \/ Fresh(decorations'[m], sorted')
    <3>1. m \in Nat /\ m <= Len(decorations) + n  BY <2>7
    <3>2. CASE m <= i - 1 + n
      <4>1. i - 1 \in Nat /\ j <= i - 1  BY <2>1, <2>2
      <4>. QED BY <2>2, <2>6, <3>1, <3>2, <4>1
    <3>3. CASE m > i - 1 + n
      <4>1. /\ m - n \in 1 .. Len(decorations) /\ m - n > j /\ m - n + n = m /\ m - n \in Nat
            /\ j <= m - n /\ m <= m - n + n
        BY <1>1, <2>1, <2>2, <3>1, <3>3
      <4>2. decorations'[m] = decorations[m - n]  BY <2>7, <4>1
      <4>3. CASE ClearTo(decorations, m - n)  BY <2>6, <3>1, <4>1, <4>3
      <4>4. CASE Fresh(decorations[m - n], sorted)  BY <2>1, <4>2, <4>4 DEF Fresh
      <4>. QED BY <1>1, <2>3, <4>1, <4>3, <4>4
    <3>. QED BY <2>2, <3>1, <3>2, <3>3
  <2>. QED BY <2>1, <2>3, <2>5, <2>8 DEF OrderInv, Scanning
<1>11. CASE UNCHANGED vars
  BY <1>11 DEF vars, aux, OrderInv, Scanning, Plain, Fresh
<1>. QED BY <1>2, <1>3, <1>4, <1>5, <1>6, <1>7, <1>8, <1>9, <1>10, <1>11 DEF Next

-----------------------------------------------------------------------------
(* What a position shows.                                                  *)

\* The range compared is that of a decoration still ahead of the scan, or no
\* decoration before i has a position in common with it.
Ahead == \E m \in DOMAIN decorations :
           m >= i /\ decorations[m].range = current /\ Fresh(decorations[m], sorted)
Spent == \A k \in DOMAIN decorations :
           k < i => decorations[k].overlapped \/ Disjoint(decorations[k].range, current)
CurrentInv == phase = "inner" => Ahead \/ Spent

LEMMA NextCurrent == TypeInv /\ ScanInv /\ OrderInv /\ CurrentInv /\ [Next]_vars => CurrentInv'
<1> SUFFICES ASSUME TypeInv, ScanInv, OrderInv, CurrentInv, [Next]_vars, phase' = "inner"
             PROVE  (Ahead \/ Spent)'
  BY DEF CurrentInv
<1>1. /\ decorations \in Seq(Decoration) /\ i \in Nat \ {0} /\ j \in Nat \ {0}
      /\ DOMAIN decorations = 1 .. Len(decorations) /\ Len(decorations) \in Nat
      /\ phase = "inner" => i <= Len(decorations)
  BY DEF TypeInv, TypeOK
<1>2. CASE Outer
  <2>1. /\ phase = "outer" /\ i \in DOMAIN decorations /\ current' = decorations[i].range
        /\ i' = i /\ decorations' = decorations /\ sorted' = sorted
    BY <1>1, <1>2 DEF Outer, aux
  <2>2. ClearTo(decorations, i) \/ Fresh(decorations[i], sorted)
    BY <2>1 DEF OrderInv, Scanning
  <2>3. CASE Fresh(decorations[i], sorted)
    <3>1. i >= i  BY <1>1
    <3>2. Ahead'  BY <2>1, <2>3, <3>1 DEF Ahead, Fresh
    <3>. QED BY <3>2
  <2>4. CASE ClearTo(decorations, i)
    <3>1. \A k \in DOMAIN decorations : k < i => Clears(decorations[k], decorations[i])
      <4>1. i <= i  BY <1>1
      <4>. QED BY <2>1, <2>4, <4>1 DEF ClearTo
    <3>2. Spent'  BY <2>1, <3>1 DEF Spent, Clears
    <3>. QED BY <3>2
  <2>. QED BY <2>2, <2>3, <2>4
<1>3. CASE Pass
  <2>1. phase = "inner" /\ UNCHANGED <<decorations, i, current, sorted>>
    BY <1>3 DEF Pass, aux
  <2>. QED BY <2>1 DEF CurrentInv, Ahead, Spent, Fresh
<1>4. CASE Hide
  <2>1. /\ phase = "inner" /\ sorted' = sorted /\ i' = i /\ current' = current
        /\ ~decorations[j].overlapped /\ j < i /\ j \in DOMAIN decorations
    BY <1>1, <1>4 DEF Hide, aux, Hidden
  <2>2. PICK c \in Interval, n \in Nat :
          /\ IsSplit(decorations', decorations, j, c, n)
          /\ Common(current, decorations[j].range) = <<c>>
    BY <1>4, HideCuts
  <2>3. ~Spent  BY <1>4, OverlapMeets DEF Spent
  <2>4. PICK m \in DOMAIN decorations :
          m >= i /\ decorations[m].range = current /\ Fresh(decorations[m], sorted)
    BY <2>1, <2>3 DEF CurrentInv, Ahead
  <2>5. /\ decorations' \in Seq(Decoration) /\ Len(decorations') = Len(decorations) + n
        /\ \A l \in 1 .. Len(decorations) : l > j => decorations'[l + n] = decorations[l]
    BY <2>2 DEF IsSplit
  <2>6. m + n \in DOMAIN decorations' /\ m + n >= i /\ decorations'[m + n] = decorations[m]
    BY <1>1, <2>1, <2>4, <2>5
  <2>7. Ahead'  BY <2>1, <2>4, <2>6 DEF Ahead, Fresh
  <2>. QED BY <2>7
<1>5. CASE UNCHANGED vars
  <2>1. phase = "inner" /\ UNCHANGED <<decorations, i, current, sorted>>
    BY <1>5 DEF vars, aux
  <2>. QED BY <2>1 DEF CurrentInv, Ahead, Spent, Fresh
<1>. QED BY <1>2, <1>3, <1>4, <1>5
         DEF Next, VisitDecl, VisitUse, VisitCall, Offer, RemoveOuterCall, PassDecoration,
             PushCall, StartOverlapping, Done, RemoveDuplicate, OuterNext

\* Something of sorted[l]: it is still ahead, or every position of it shows
\* at least its rank.
Topped(l) ==
  \A p \in Loc : In(p, sorted[l].range) =>
    \/ \E m \in DOMAIN decorations : m >= i /\ decorations[m] = sorted[l]
    \/ \A k \in DOMAIN decorations :
         Shown(decorations[k], p) => Rank(sorted[l].kind) <= Rank(decorations[k].kind)
TopInv == Scanning => \A l \in DOMAIN sorted : Topped(l)

LEMMA NextTop == TypeInv /\ ScanInv /\ OrderInv /\ TopInv /\ [Next]_vars => TopInv'
<1> SUFFICES ASSUME TypeInv, ScanInv, OrderInv, TopInv, [Next]_vars, Scanning',
                    NEW l \in DOMAIN sorted', NEW p \in Loc, In(p, sorted'[l].range)
             PROVE  \/ \E m \in DOMAIN decorations' : m >= i' /\ decorations'[m] = sorted'[l]
                    \/ \A k \in DOMAIN decorations' :
                         Shown(decorations'[k], p)
                           => Rank(sorted'[l].kind) <= Rank(decorations'[k].kind)
  BY DEF TopInv, Topped
<1>1. /\ decorations \in Seq(Decoration) /\ i \in Nat \ {0} /\ j \in Nat \ {0}
      /\ DOMAIN decorations = 1 .. Len(decorations) /\ Len(decorations) \in Nat
      /\ phase = "inner" => i <= Len(decorations)
      /\ p \in Int
  BY DEF TypeInv, TypeOK, Loc
<1>2. CASE StartOverlapping
  <2>1. /\ sorted' = decorations' /\ i' = 2 /\ phase' = "outer"
    BY <1>2 DEF StartOverlapping
  <2>2. decorations' \in Seq(Decoration)
    <3>1. TypeInv'  BY NextType
    <3>. QED BY <3>1 DEF TypeInv, TypeOK
  <2>3. Ranked(decorations')
    <3>1. OrderInv'  BY NextOrder
    <3>. QED BY <2>1, <3>1 DEF OrderInv, Scanning
  <2>4. CASE l >= 2  BY <2>1, <2>4
  <2>5. CASE l = 1
    <3>1. \A k \in DOMAIN decorations' : l <= k  BY <2>2, <2>5
    <3>. QED BY <2>1, <2>3, <3>1 DEF Ranked
  <2>. QED BY <2>1, <2>2, <2>4, <2>5
<1>3. CASE Outer \/ Done \/ Pass \/ UNCHANGED vars
  <2>1. Scanning /\ decorations' = decorations /\ sorted' = sorted /\ i' = i
    BY <1>3 DEF Outer, Done, Pass, vars, aux, Scanning
  <2>. QED BY <2>1 DEF TopInv, Topped
<1>4. CASE RemoveDuplicate
  <2>1. /\ phase = "inner" /\ phase' = "outer" /\ sorted' = sorted /\ i' = i /\ j < i
        /\ decorations' = RemoveAt(decorations, i) /\ decorations[j] = decorations[i]
    BY <1>4 DEF RemoveDuplicate, Duplicate, aux
  <2>2. i \in 1 .. Len(decorations) /\ i >= 2 /\ ClearTo(decorations, i - 1)
    BY <1>1, <2>1 DEF ScanInv
  <2>3. Ranked(decorations) /\ Topped(l)
    BY <2>1 DEF OrderInv, TopInv, Scanning
  <2>4. \A k \in DOMAIN decorations' :
          Back(k, i) \in DOMAIN decorations /\ decorations'[k] = decorations[Back(k, i)]
    BY <1>1, <2>1, <2>2, RemovedIs
  <2>5. DOMAIN decorations' = 1 .. Len(decorations) - 1
    <3>1. decorations' \in Seq(Decoration)  BY <1>1, <2>1, <2>2, RemovedIs
    <3>2. Len(decorations') = Len(decorations) - 1  BY <1>1, <2>1, <2>2, RemovedIs
    <3>. QED BY <1>1, <3>1, <3>2
  <2>6. CASE \A k \in DOMAIN decorations :
               Shown(decorations[k], p) => Rank(sorted[l].kind) <= Rank(decorations[k].kind)
    BY <2>1, <2>4, <2>6
  <2>7. ASSUME NEW m \in DOMAIN decorations, m > i, decorations[m] = sorted[l]
        PROVE  \E q \in DOMAIN decorations' : q >= i' /\ decorations'[q] = sorted'[l]
    <3>1. m - 1 \in DOMAIN decorations' /\ m - 1 >= i /\ Back(m - 1, i) = m
      BY <1>1, <2>2, <2>5, <2>7 DEF Back
    <3>. QED BY <2>1, <2>4, <2>7, <3>1
  <2>8. ASSUME decorations[i] = sorted[l], NEW k \in DOMAIN decorations', Shown(decorations'[k], p)
        PROVE  Rank(sorted'[l].kind) <= Rank(decorations'[k].kind)
    <3> DEFINE b == Back(k, i)
    <3>1. b \in DOMAIN decorations /\ b # i /\ decorations'[k] = decorations[b]
      BY <1>1, <2>4, <2>5 DEF Back
    <3>2. j \in DOMAIN decorations /\ j <= i - 1  BY <1>1, <2>1, <2>2
    <3>3. CASE b < j
      <4>1. Clears(decorations[b], decorations[j])  BY <2>2, <3>1, <3>2, <3>3 DEF ClearTo
      <4>. QED BY <1>1, <2>1, <2>8, <3>1, <4>1 DEF Clears, Disjoint, Shown
    <3>4. CASE j <= b
      <4>1. Rank(decorations[j].kind) <= Rank(decorations[b].kind)
        BY <2>3, <3>1, <3>2, <3>4 DEF Ranked
      <4>. QED BY <2>1, <2>8, <3>1, <4>1
    <3>. QED BY <1>1, <3>1, <3>2, <3>3, <3>4
  <2>9. \A m \in DOMAIN decorations : m >= i => m > i \/ m = i  BY <1>1
  <2>. QED BY <2>1, <2>3, <2>6, <2>7, <2>8, <2>9 DEF Topped
<1>5. CASE Hide
  <2>1. /\ phase = "inner" /\ sorted' = sorted /\ i' = i /\ Scanning
        /\ ~decorations[j].overlapped /\ j < i /\ j \in DOMAIN decorations
    BY <1>1, <1>5 DEF Hide, aux, Hidden, Scanning
  <2>2. PICK c \in Interval, n \in Nat : IsSplit(decorations', decorations, j, c, n)
    BY <1>5, HideCuts
  <2>3. /\ decorations' \in Seq(Decoration) /\ Len(decorations') = Len(decorations) + n
        /\ \A q \in 1 .. Len(decorations) : q > j => decorations'[q + n] = decorations[q]
        /\ \A q \in DOMAIN decorations' :
             /\ Origin(q, j, n) \in DOMAIN decorations
             /\ decorations'[q].kind = decorations[Origin(q, j, n)].kind
             /\ \A x \in Int : In(x, decorations'[q].range)
                                 => In(x, decorations[Origin(q, j, n)].range)
             /\ Origin(q, j, n) # j => decorations'[q] = decorations[Origin(q, j, n)]
    BY <2>2 DEF IsSplit
  <2>4. Topped(l)  BY <2>1 DEF TopInv
  <2>5. ASSUME NEW m \in DOMAIN decorations, m >= i, decorations[m] = sorted[l]
        PROVE  \E q \in DOMAIN decorations' : q >= i' /\ decorations'[q] = sorted'[l]
    <3>1. m + n \in DOMAIN decorations' /\ m + n >= i /\ decorations'[m + n] = decorations[m]
      BY <1>1, <2>1, <2>3, <2>5
    <3>. QED BY <2>1, <2>5, <3>1
  <2>6. ASSUME NEW k \in DOMAIN decorations', Shown(decorations'[k], p)
        PROVE  /\ Origin(k, j, n) \in DOMAIN decorations
               /\ Shown(decorations[Origin(k, j, n)], p)
               /\ decorations'[k].kind = decorations[Origin(k, j, n)].kind
    BY <1>1, <2>1, <2>3, <2>6 DEF Shown
  <2>. QED BY <2>1, <2>4, <2>5, <2>6 DEF Topped
<1>6. CASE OuterNext
  <2>1. /\ phase = "inner" /\ j >= i /\ i' = i + 1 /\ decorations' = decorations
        /\ sorted' = sorted /\ Scanning /\ i \in DOMAIN decorations
    BY <1>1, <1>6 DEF OuterNext, InnerEnd, aux, Scanning
  <2>2. Topped(l) /\ Ranked(decorations)  BY <2>1 DEF TopInv, OrderInv
  <2>3. ASSUME NEW k \in DOMAIN decorations, k < i
        PROVE  Clears(decorations[k], decorations[i])
    <3>1. CASE Comparing
      <4>1. k < j  BY <1>1, <2>1, <2>3
      <4>. QED BY <2>3, <3>1, <4>1 DEF Comparing, Clears
    <3>2. CASE ClearTo(decorations, i)
      <4>1. i <= i  BY <1>1
      <4>. QED BY <2>1, <2>3, <3>2, <4>1 DEF ClearTo
    <3>. QED BY <2>1, <3>1, <3>2 DEF ScanInv
  <2>4. ASSUME NEW k \in DOMAIN decorations, Shown(decorations[k], p),
               decorations[i] = sorted[l]
        PROVE  Rank(sorted[l].kind) <= Rank(decorations[k].kind)
    <3>1. CASE k < i
      BY <1>1, <2>1, <2>3, <2>4, <3>1 DEF Clears, Disjoint, Shown
    <3>2. CASE i <= k
      BY <2>1, <2>2, <2>4, <3>2 DEF Ranked
    <3>. QED BY <1>1, <3>1, <3>2
  <2>5. \A m \in DOMAIN decorations : m >= i => m >= i + 1 \/ m = i  BY <1>1
  <2>. QED BY <2>1, <2>2, <2>4, <2>5 DEF Topped
<1>. QED BY <1>2, <1>3, <1>4, <1>5, <1>6
         DEF Next, VisitDecl, VisitUse, VisitCall, Offer, RemoveOuterCall, PassDecoration,
             PushCall, Scanning

\* What a position shows when handle_overlapping has returned is the last in
\* order of all that was pushed for it, however it was cut up
\* (src/src/lsp/decoration.rs:481-662).
THEOREM TopmostIsShown == Spec => []TopmostShown
<1>1. Init => TopInv  BY DEF Init, TopInv, Scanning
<1>2. TypeInv /\ ScanInv /\ TopInv => TopmostShown
  <2> SUFFICES ASSUME TypeInv, ScanInv, TopInv, phase = "done", NEW p \in Loc,
                      NEW k \in DOMAIN decorations, NEW l \in DOMAIN sorted,
                      Shown(decorations[k], p), In(p, sorted[l].range)
               PROVE  Rank(sorted[l].kind) <= Rank(decorations[k].kind)
    BY DEF TopmostShown
  <2>1. Topped(l)  BY DEF TopInv, Scanning
  <2>2. ~\E m \in DOMAIN decorations : m >= i
    <3>1. /\ decorations \in Seq(Decoration) /\ i \in Nat /\ i > Len(decorations)
      BY DEF TypeInv, TypeOK, ScanInv
    <3>. QED BY <3>1
  <2>. QED BY <2>1, <2>2 DEF Topped
<1>. QED BY <1>1, <1>2, InitType, NextType, InitScan, NextScan, NextOrder, NextTop, PTL DEF Spec

\* Of a range r cut at what it has in common with x, only what lies in x or
\* beside it is in no piece.
LEMMA CutLoses ==
  ASSUME NEW r \in Interval, NEW x \in Interval, NEW c, Common(x, r) = <<c>>,
         NEW p \in Int, In(p, r)
  PROVE  Covered(p, Pieces(r, c)) \/ In(p, x) \/ Beside(p, x)
<1>1. /\ c \in Interval
      /\ c.from = Greater(x.from, r.from) /\ c.until = Smaller(x.until, r.until)
      /\ \A q \in Int : In(q, c) <=> In(q, x) /\ In(q, r)
  BY CommonIs
<1>2. /\ r.from \in Nat /\ r.until \in Loc /\ r.until \in Nat /\ r.from < r.until
      /\ x.from \in Nat /\ x.until \in Nat /\ x.from < x.until
      /\ c.from \in Nat /\ c.until \in Nat /\ c.from < c.until
      /\ Minus(c.from, 1) \in Loc /\ Minus(c.from, 1) \in Nat /\ c.until + 1 \in Nat
  BY <1>1, MaxLocAssumption DEF Interval, Loc, Minus
<1>3. /\ New(r.from, Minus(c.from, 1)) \in Seq(Interval)
      /\ Covered(p, New(r.from, Minus(c.from, 1))) <=> r.from <= p /\ p < Minus(c.from, 1)
  BY <1>2, NewIs
<1>4. /\ New(c.until + 1, r.until) \in Seq(Interval)
      /\ Covered(p, New(c.until + 1, r.until)) <=> c.until + 1 <= p /\ p < r.until
  BY <1>2, NewIs
<1>5. Covered(p, Pieces(r, c)) <=>
        (r.from <= p /\ p < Minus(c.from, 1)) \/ (c.until + 1 <= p /\ p < r.until)
  BY <1>3, <1>4, CoveredConcat DEF Pieces
<1>6. ASSUME ~Covered(p, Pieces(r, c)) PROVE In(p, x) \/ Beside(p, x)
  <2>1. r.from <= p /\ p < r.until  BY DEF In
  <2>2. c.from - 1 <= p /\ p <= c.until  BY <1>2, <1>5, <1>6, <2>1 DEF Minus
  <2>3. CASE p < c.from
    BY <1>1, <1>2, <2>1, <2>2, <2>3 DEF Beside, Greater
  <2>4. CASE p = c.until
    BY <1>1, <1>2, <2>1, <2>4 DEF Beside, Smaller
  <2>5. CASE c.from <= p /\ p < c.until
    <3>1. In(p, c)  BY <2>5 DEF In
    <3>. QED BY <1>1, <3>1
  <2>. QED BY <1>2, <2>2, <2>3, <2>4, <2>5
<1>. QED BY <1>6

\* A position something was pushed for shows something, or lies beside
\* something pushed.
Kept(p) == \/ \E k \in DOMAIN decorations : Shown(decorations[k], p)
           \/ \E k \in DOMAIN sorted : Beside(p, sorted[k].range)
KeptInv == Scanning => \A p \in Loc : \A l \in DOMAIN sorted : In(p, sorted[l].range) => Kept(p)

LEMMA NextKept ==
  TypeInv /\ ScanInv /\ OrderInv /\ CurrentInv /\ KeptInv /\ [Next]_vars => KeptInv'
<1> SUFFICES ASSUME TypeInv, ScanInv, OrderInv, CurrentInv, KeptInv, [Next]_vars, Scanning',
                    NEW p \in Loc, NEW l \in DOMAIN sorted', In(p, sorted'[l].range)
             PROVE  Kept(p)'
  BY DEF KeptInv
<1>1. /\ decorations \in Seq(Decoration) /\ i \in Nat \ {0} /\ j \in Nat \ {0}
      /\ DOMAIN decorations = 1 .. Len(decorations) /\ Len(decorations) \in Nat
      /\ phase = "inner" => i <= Len(decorations)
      /\ p \in Int /\ current \in Interval
  BY DEF TypeInv, TypeOK, Loc
<1>2. CASE StartOverlapping
  <2>1. sorted' = decorations' /\ phase' = "outer"  BY <1>2 DEF StartOverlapping
  <2>2. OrderInv'  BY NextOrder
  <2>3. Plain(sorted')  BY <2>1, <2>2 DEF OrderInv, Scanning, Plain
  <2>. QED BY <2>1, <2>3 DEF Plain, Kept, Shown
<1>3. CASE Outer \/ Done \/ Pass \/ OuterNext \/ UNCHANGED vars
  <2>1. Scanning /\ decorations' = decorations /\ sorted' = sorted
    BY <1>3 DEF Outer, Done, Pass, OuterNext, vars, aux, Scanning
  <2>. QED BY <2>1 DEF KeptInv, Kept
<1>4. CASE RemoveDuplicate
  <2>1. /\ phase = "inner" /\ sorted' = sorted /\ j < i /\ Scanning
        /\ decorations' = RemoveAt(decorations, i) /\ decorations[j] = decorations[i]
    BY <1>4 DEF RemoveDuplicate, Duplicate, aux, Scanning
  <2>2. i \in 1 .. Len(decorations)  BY <1>1, <2>1
  <2>3. DOMAIN decorations' = 1 .. Len(decorations) - 1
    <3>1. decorations' \in Seq(Decoration)  BY <1>1, <2>1, <2>2, RemovedIs
    <3>2. Len(decorations') = Len(decorations) - 1  BY <1>1, <2>1, <2>2, RemovedIs
    <3>. QED BY <1>1, <3>1, <3>2
  <2>4. \A k \in DOMAIN decorations' :
          Back(k, i) \in DOMAIN decorations /\ decorations'[k] = decorations[Back(k, i)]
    <3>1. decorations \in Seq(Decoration) /\ decorations' = RemoveAt(decorations, i)
      BY <1>1, <2>1
    <3>. QED BY <2>2, <3>1, RemovedIs
  <2>5. ASSUME NEW k \in DOMAIN decorations, k # i
        PROVE  \E m \in DOMAIN decorations' : decorations'[m] = decorations[k]
    <3>1. CASE k < i
      <4>1. k \in DOMAIN decorations' /\ Back(k, i) = k  BY <1>1, <2>2, <2>3, <3>1 DEF Back
      <4>. QED BY <2>4, <4>1
    <3>2. CASE k > i
      <4>1. k - 1 \in DOMAIN decorations' /\ Back(k - 1, i) = k
        BY <1>1, <2>2, <2>3, <3>2 DEF Back
      <4>. QED BY <2>4, <4>1
    <3>. QED BY <1>1, <2>5, <3>1, <3>2
  <2>6. \A k \in DOMAIN decorations : \E m \in DOMAIN decorations' : decorations'[m] = decorations[k]
    <3>1. j \in DOMAIN decorations /\ j # i  BY <1>1, <2>1, <2>2
    <3>. QED BY <2>1, <2>5, <3>1
  <2>7. Kept(p)  BY <2>1 DEF KeptInv
  <2>. QED BY <2>1, <2>6, <2>7 DEF Kept
<1>5. CASE Hide
  <2>1. phase = "inner" /\ sorted' = sorted /\ Scanning  BY <1>5 DEF Hide, aux, Scanning
  <2>2. /\ j \in DOMAIN decorations /\ ~decorations[j].overlapped /\ j < i
        /\ ~Disjoint(decorations[j].range, current)
    BY <1>5, OverlapMeets
  <2>3. PICK c \in Interval, n \in Nat :
          /\ IsSplit(decorations', decorations, j, c, n)
          /\ Common(current, decorations[j].range) = <<c>>
    BY <1>5, HideCuts
  <2> DEFINE pieces == Pieces(decorations[j].range, c)
  <2>4. /\ decorations' \in Seq(Decoration) /\ Len(decorations') = Len(decorations) + n
        /\ \A q \in 1 .. Len(decorations) : q < j => decorations'[q] = decorations[q]
        /\ \A q \in 1 .. Len(decorations) : q > j => decorations'[q + n] = decorations[q]
        /\ \A q \in 1 .. n : decorations'[j + q] = Deco(decorations[j].kind, pieces[q])
        /\ n = Len(pieces)
    BY <2>3 DEF IsSplit
  <2>5. DOMAIN decorations' = 1 .. Len(decorations) + n  BY <1>1, <2>4
  <2>6. ASSUME NEW k \in DOMAIN decorations, k # j
        PROVE  \E m \in DOMAIN decorations' : decorations'[m] = decorations[k]
    <3>1. CASE k < j  BY <1>1, <2>4, <2>5, <3>1
    <3>2. CASE k > j
      <4>1. k + n \in DOMAIN decorations'  BY <1>1, <2>5, <3>2
      <4>. QED BY <1>1, <2>4, <3>2, <4>1
    <3>. QED BY <1>1, <2>2, <2>6, <3>1, <3>2
  <2>7. Plain(sorted)  BY <2>1 DEF OrderInv
  <2>8. PICK a \in DOMAIN decorations :
          a >= i /\ decorations[a].range = current /\ Fresh(decorations[a], sorted)
    BY <2>1, <2>2 DEF CurrentInv, Ahead, Spent
  <2>9. PICK b \in DOMAIN sorted : decorations[a] = sorted[b]  BY <2>8 DEF Fresh
  <2>10. ASSUME Shown(decorations[j], p) PROVE Kept(p)'
    <3>1. decorations[j].range \in Interval
      <4>1. decorations[j] \in Decoration  BY <1>1, <2>2
      <4>. QED BY <4>1 DEF Decoration
    <3>2. Covered(p, pieces) \/ In(p, current) \/ Beside(p, current)
      <4>1. In(p, decorations[j].range)  BY <2>10 DEF Shown
      <4> DEFINE r == decorations[j].range
      <4>2. r \in Interval /\ Common(current, r) = <<c>> /\ In(p, r)  BY <2>3, <3>1, <4>1
      <4> HIDE DEF r, pieces
      <4>3. Covered(p, Pieces(r, c)) \/ In(p, current) \/ Beside(p, current)
        BY <1>1, <4>2, CutLoses
      <4>. QED BY <4>3 DEF r, pieces
    <3>3. CASE Covered(p, pieces)
      <4>1. PICK q \in DOMAIN pieces : In(p, pieces[q])  BY <3>3 DEF Covered
      <4>2. q \in 1 .. n
        <5>1. pieces \in Seq(Interval)
          <6>1. decorations[j] \in Decoration  BY <1>1, <2>2
          <6>. QED BY <6>1, CutIs
        <5>. QED BY <2>4, <5>1
      <4>3. decorations'[j + q] = Deco(decorations[j].kind, pieces[q])  BY <2>4, <4>2
      <4>4. j + q \in DOMAIN decorations'  BY <1>1, <2>2, <2>5, <4>2
      <4> HIDE DEF pieces
      <4>5. ~Deco(decorations[j].kind, pieces[q]).overlapped
            /\ Deco(decorations[j].kind, pieces[q]).range = pieces[q]
        BY DEF Deco
      <4>6. Shown(decorations'[j + q], p)  BY <4>1, <4>3, <4>5 DEF Shown
      <4>. QED BY <4>4, <4>6 DEF Kept
    <3>4. CASE In(p, current)
      <4>1. Shown(decorations[a], p)  BY <2>7, <2>8, <2>9, <3>4 DEF Plain, Shown
      <4>2. a # j  BY <1>1, <2>2, <2>8
      <4>. QED BY <2>6, <4>1, <4>2 DEF Kept
    <3>5. CASE Beside(p, current)  BY <2>1, <2>8, <2>9, <3>5 DEF Kept
    <3>. QED BY <3>2, <3>3, <3>4, <3>5
  <2>11. Kept(p)  BY <2>1 DEF KeptInv
  <2>. QED BY <2>1, <2>6, <2>10, <2>11 DEF Kept
<1>. QED BY <1>2, <1>3, <1>4, <1>5
         DEF Next, VisitDecl, VisitUse, VisitCall, Offer, RemoveOuterCall, PassDecoration,
             PushCall, Scanning

\* A position something was pushed for shows something when
\* handle_overlapping has returned, unless it lies just before or just after
\* a decoration that was pushed (src/src/lsp/decoration.rs:481-662).
THEOREM NothingIsLost == Spec => []NothingLost
<1>1. Init => CurrentInv /\ KeptInv  BY DEF Init, CurrentInv, KeptInv, Scanning
<1>2. KeptInv => NothingLost  BY DEF KeptInv, Scanning, Kept, NothingLost
<1>. QED BY <1>1, <1>2, InitType, NextType, InitScan, NextScan, NextOrder, NextCurrent,
            NextKept, PTL DEF Spec

-----------------------------------------------------------------------------
(* The local under the cursor, for any number of functions, locals and     *)
(* uses, in any order.                                                     *)

Offering(reason, id, range) ==
  [reason |-> reason, local |-> [fn_id |-> item, id |-> id], range |-> range, visit |-> items]

\* What a call of select does: nothing, the first offer, or a later one.
LEMMA SelectDoes ==
  ASSUME SelTypeOK, NEW known, NEW reason, NEW id, NEW range,
         Select(known, reason, [fn_id |-> item, id |-> id], range)
  PROVE  LET n == Offering(reason, id, range) IN
         \/ UNCHANGED <<selected, first, offered>>
         \/ /\ [fn_id |-> item, id |-> id] \in known /\ At(range)
            /\ selected = << >> /\ first = << >> /\ offered = {}
            /\ selected' = <<n>> /\ first' = <<n>> /\ offered' = {n}
         \/ /\ [fn_id |-> item, id |-> id] \in known /\ At(range)
            /\ first # << >> /\ first' = first /\ offered' = offered \cup {n}
            /\ \E o \in offered :
                 /\ selected = <<o>>
                 /\ selected' = IF Replaces(o, n) THEN <<n>> ELSE <<o>>
<1> DEFINE n == Offering(reason, id, range)
<1> HIDE DEF n
<1>1. CASE ~([fn_id |-> item, id |-> id] \in known /\ At(range))  BY <1>1 DEF Select
<1>2. CASE [fn_id |-> item, id |-> id] \in known /\ At(range)
  <2>1. /\ selected' = Taken(n) /\ offered' = offered \cup {n}
        /\ first' = IF first = << >> THEN <<n>> ELSE first
    BY <1>2 DEF Select, Offering, n
  <2>2. CASE selected = << >> /\ first = << >> /\ offered = {}
    BY <1>2, <2>1, <2>2 DEF Taken, n
  <2>3. CASE \E o, p \in offered : selected = <<o>> /\ first = <<p>>
    <3>1. PICK o \in offered, p \in offered : selected = <<o>> /\ first = <<p>>  BY <2>3
    <3>2. selected # << >> /\ first # << >> /\ selected[1] = o  BY <3>1
    <3>3. selected' = IF Replaces(o, n) THEN <<n>> ELSE <<o>>  BY <2>1, <3>1, <3>2 DEF Taken
    <3>. QED BY <1>2, <2>1, <3>1, <3>2, <3>3 DEF n
  <2>. QED BY <2>2, <2>3 DEF SelTypeOK
<1>. QED BY <1>1, <1>2

\* An offer at the cursor is one, and its size a number.
LEMMA OfferingTyped ==
  ASSUME SelTypeOK, NEW reason \in Reason, NEW id \in Ids, NEW range \in Spans
  PROVE  /\ Offering(reason, id, range) \in Offers
         /\ Offering(reason, id, range).reason = reason
         /\ Offering(reason, id, range).visit = items
         /\ Offering(reason, id, range).range = range
         /\ Offering(reason, id, range).local = [fn_id |-> item, id |-> id]
BY SelectAssumption DEF SelTypeOK, Offering, Offers, Local

LEMMA SizeTyped == \A o \in Offers : Size(o.range) \in Int
BY MaxLocAssumption DEF Offers, Spans, Interval, Size, Loc

AtNext(range) == range.from <= pos' /\ pos' <= range.until

LEMMA SelectTyped ==
  ASSUME SelTypeOK, NEW known, known \subseteq Local \ Resume, candidates \subseteq known,
         NEW reason \in Reason, NEW id \in Ids, NEW range \in Spans,
         Select(known, reason, [fn_id |-> item, id |-> id], range), pos' = pos, candidates' = known
  PROVE  /\ offered' \subseteq {o \in Offers : o.local \in candidates' /\ AtNext(o.range)}
         /\ \/ selected' = << >> /\ first' = << >> /\ offered' = {}
            \/ \E o, p \in offered' : selected' = <<o>> /\ first' = <<p>>
<1> DEFINE n == Offering(reason, id, range)
<1>1. /\ n \in Offers /\ n.local = [fn_id |-> item, id |-> id] /\ n.range = range
  BY OfferingTyped
<1>2. ASSUME NEW o \in Offers, o \in offered
      PROVE  o.local \in candidates' /\ AtNext(o.range)
  BY <1>2 DEF SelTypeOK, At, AtNext
<1>3. offered \subseteq Offers  BY DEF SelTypeOK
<1> HIDE DEF n
<1>4. CASE UNCHANGED <<selected, first, offered>>
  BY <1>2, <1>3, <1>4 DEF SelTypeOK
<1>5. CASE /\ n.local \in known /\ At(n.range)
           /\ selected' = <<n>> /\ first' = <<n>> /\ offered' = {n}
  BY <1>1, <1>5 DEF At, AtNext
<1>6. CASE /\ n.local \in known /\ At(n.range)
           /\ first # << >> /\ first' = first /\ offered' = offered \cup {n}
           /\ \E o \in offered :
                /\ selected = <<o>>
                /\ selected' = IF Replaces(o, n) THEN <<n>> ELSE <<o>>
  <2>1. PICK o \in offered : selected' = <<n>> \/ selected' = <<o>>  BY <1>6
  <2>2. PICK p \in offered : first = <<p>>  BY <1>6 DEF SelTypeOK
  <2>3. \E o1, p1 \in offered' : selected' = <<o1>> /\ first' = <<p1>>  BY <1>6, <2>1, <2>2
  <2>4. n.local \in candidates' /\ AtNext(n.range)  BY <1>6 DEF At, AtNext
  <2>5. offered' \subseteq {o1 \in Offers : o1.local \in candidates' /\ AtNext(o1.range)}
    BY <1>1, <1>2, <1>3, <1>6, <2>4
  <2>. QED BY <2>3, <2>5
<1>. QED
  <2>1. known = candidates'  OBVIOUS
  <2>2. \/ UNCHANGED <<selected, first, offered>>
        \/ /\ n.local \in known /\ At(n.range)
           /\ selected' = <<n>> /\ first' = <<n>> /\ offered' = {n}
        \/ /\ n.local \in known /\ At(n.range)
           /\ first # << >> /\ first' = first /\ offered' = offered \cup {n}
           /\ \E o \in offered :
                /\ selected = <<o>>
                /\ selected' = IF Replaces(o, n) THEN <<n>> ELSE <<o>>
    BY <1>1, SelectDoes DEF n
  <2>. QED BY <1>4, <1>5, <1>6, <2>2

\* A call that is no call of select keeps what was found.
LEMMA SelType == SelTypeOK /\ [SelNext]_selVars => SelTypeOK'
<1> SUFFICES ASSUME SelTypeOK, [SelNext]_selVars PROVE SelTypeOK'  OBVIOUS
<1>1. CASE VisitItem \/ VisitBody \/ LeaveItem \/ UNCHANGED selVars
  BY <1>1, SelectAssumption DEF SelTypeOK, VisitItem, VisitBody, LeaveItem, selVars, At
<1>2. CASE SeeResume
  BY <1>2, SelectAssumption DEF SelTypeOK, SeeResume, DeclaredLocal, At
<1>3. CASE SeeDecl
  <2>1. PICK id \in Ids :
          LET local == [fn_id |-> item, id |-> id] IN
          /\ DeclaredLocal(id) /\ local \notin Resume
          /\ candidates' = candidates \cup {local}
          /\ \/ \E span \in Spans : Select(candidates', "var", local, span)
             \/ UNCHANGED <<selected, first, offered>>
    BY <1>3 DEF SeeDecl
  <2>2. /\ pos' = pos /\ part' = part /\ item' = item /\ items' = items /\ uses' = uses
        /\ declared' \subseteq Ids
    BY <2>1 DEF DeclaredLocal, SelTypeOK
  <2>3. candidates' \subseteq Local \ Resume /\ candidates \subseteq candidates'
    BY <2>1 DEF SelTypeOK, Local
  <2>4. /\ offered' \subseteq {o \in Offers : o.local \in candidates' /\ AtNext(o.range)}
        /\ \/ selected' = << >> /\ first' = << >> /\ offered' = {}
           \/ \E o, p \in offered' : selected' = <<o>> /\ first' = <<p>>
    <3>1. CASE UNCHANGED <<selected, first, offered>>  BY <2>2, <2>3, <3>1 DEF SelTypeOK, At, AtNext
    <3>2. CASE \E span \in Spans :
                 Select(candidates', "var", [fn_id |-> item, id |-> id], span)
      <4>1. PICK span \in Spans :
              Select(candidates', "var", [fn_id |-> item, id |-> id], span)
        BY <3>2
      <4>2. "var" \in Reason  BY DEF Reason
      <4>. QED BY <2>2, <2>3, <4>1, <4>2, SelectTyped
    <3>. QED BY <2>1, <3>1, <3>2
  <2>. QED BY <2>2, <2>3, <2>4 DEF SelTypeOK, At, AtNext
<1>4. CASE SeeUse
  <2>1. PICK reason \in Reason \ {"var"}, id \in Ids, range \in Spans :
          Select(candidates, reason, [fn_id |-> item, id |-> id], range)
    BY <1>4 DEF SeeUse
  <2>2. /\ offered' \subseteq {o \in Offers : o.local \in candidates' /\ AtNext(o.range)}
        /\ \/ selected' = << >> /\ first' = << >> /\ offered' = {}
           \/ \E o, p \in offered' : selected' = <<o>> /\ first' = <<p>>
    BY <1>4, <2>1, SelectTyped DEF SeeUse, SelTypeOK
  <2>. QED BY <1>4, <2>2, SelectAssumption DEF SelTypeOK, SeeUse, At, AtNext
<1>. QED BY <1>1, <1>2, <1>3, <1>4 DEF SelNext

LEMMA SelInitType == SelInit => SelTypeOK
BY SelectAssumption DEF SelInit, SelTypeOK

(* Declarations come before the body, so that what a function offers first *)
(* tells whether it declares a variable at the cursor.                     *)
VisitInv ==
  /\ \A o \in offered : o.visit <= items
  /\ part = "decls" => \A o \in offered : o.visit = items => o.reason = "var"
  /\ first # << >> /\ first[1].reason # "var"
       => \A o \in offered : o.visit = first[1].visit => o.reason # "var"

VariableStays ==
  first # << >> /\ first[1].reason = "var"
    => /\ selected[1].reason = "var"
       /\ \A o \in offered : o.reason = "var" => Size(selected[1].range) <= Size(o.range)

SelectInv == VisitInv /\ VariableStays /\ NarrowestSelected /\ OutermostCall

\* A later offer: what is selected after it is one of the two.
LEMMA LaterOffer ==
  ASSUME NEW o \in Offers, NEW n \in Offers, NEW p \in Offers, NEW S, S \subseteq Offers,
         o \in S, offered = S, selected = <<o>>, first = <<p>>, first' = <<p>>,
         offered' = S \cup {n}, selected' = IF Replaces(o, n) THEN <<n>> ELSE <<o>>
  PROVE  /\ VariableStays => VariableStays'
         /\ NarrowestSelected => NarrowestSelected'
         /\ OutermostCall => OutermostCall'
<1> DEFINE r == IF Replaces(o, n) THEN n ELSE o
<1>1. selected' = <<r>> /\ selected'[1] = r /\ selected[1] = o
      /\ first # << >> /\ first' # << >> /\ first[1] = p /\ first'[1] = p
      /\ selected # << >> /\ selected' # << >>
  OBVIOUS
<1>2. \A q \in S \cup {n, p} : Size(q.range) \in Int  BY SizeTyped
<1>3. n.reason \in Reason /\ o.reason \in Reason  BY DEF Offers
<1>4. CASE Replaces(o, n)
  <2>1. r = n  BY <1>4
  <2>2. \/ n.reason = "var" /\ Size(n.range) < Size(o.range)
        \/ o.reason # "var" /\ n.reason \in {"move", "borrow"} /\ Size(n.range) < Size(o.range)
        \/ o.reason = "call" /\ n.reason = "call" /\ Size(o.range) < Size(n.range)
    BY <1>4 DEF Replaces
  <2> HIDE DEF r
  <2>3. VariableStays => VariableStays'  BY <1>1, <1>2, <1>3, <2>1, <2>2 DEF VariableStays
  <2>4. NarrowestSelected => NarrowestSelected'
    <3> SUFFICES ASSUME NarrowestSelected, NEW q \in S \cup {n}, Narrowest(q)',
                        \/ q.reason = "var"
                        \/ /\ q.reason \in {"move", "borrow"}
                           /\ \A t \in S \cup {n} : t.reason # "var"
                 PROVE  Alike(r, q) /\ Size(r.range) <= Size(q.range)
      BY <1>1 DEF NarrowestSelected
    <3>1. \A t \in S \cup {n} : Size(t.range) <= Size(q.range) => Alike(t, q)
      BY DEF Narrowest
    <3>2. ASSUME q \in S PROVE Alike(o, q) /\ Size(o.range) <= Size(q.range)
      BY <1>1, <3>1, <3>2 DEF NarrowestSelected, Narrowest
    <3>3. Alike(o, q) => o.reason = q.reason
      BY DEF Alike
    <3> QED
      BY <1>2, <1>3, <2>1, <2>2, <3>1, <3>2, <3>3
  <2>5. OutermostCall => OutermostCall'
    BY <1>1, <1>2, <1>3, <2>1, <2>2 DEF OutermostCall
  <2>. QED BY <2>3, <2>4, <2>5
<1>5. CASE ~Replaces(o, n)
  <2>1. r = o  BY <1>5
  <2>2. /\ ~(n.reason = "var" /\ Size(n.range) < Size(o.range))
        /\ ~(o.reason # "var" /\ n.reason \in {"move", "borrow"} /\ Size(n.range) < Size(o.range))
        /\ ~(o.reason = "call" /\ n.reason = "call" /\ Size(o.range) < Size(n.range))
    BY <1>5 DEF Replaces
  <2> HIDE DEF r
  <2>3. VariableStays => VariableStays'  BY <1>1, <1>2, <1>3, <2>1, <2>2 DEF VariableStays
  <2>4. NarrowestSelected => NarrowestSelected'
    <3> SUFFICES ASSUME NarrowestSelected, NEW q \in S \cup {n}, Narrowest(q)',
                        \/ q.reason = "var"
                        \/ /\ q.reason \in {"move", "borrow"}
                           /\ \A t \in S \cup {n} : t.reason # "var"
                 PROVE  Alike(r, q) /\ Size(r.range) <= Size(q.range)
      BY <1>1 DEF NarrowestSelected
    <3>1. \A t \in S \cup {n} : Size(t.range) <= Size(q.range) => Alike(t, q)
      BY DEF Narrowest
    <3>2. ASSUME q \in S PROVE Alike(o, q) /\ Size(o.range) <= Size(q.range)
      BY <1>1, <3>1, <3>2 DEF NarrowestSelected, Narrowest
    <3>3. Alike(o, q) => o.reason = q.reason
      BY DEF Alike
    <3> QED
      BY <1>2, <1>3, <2>1, <2>2, <3>1, <3>2, <3>3
  <2>5. OutermostCall => OutermostCall'
    BY <1>1, <1>2, <1>3, <2>1, <2>2 DEF OutermostCall
  <2>. QED BY <2>3, <2>4, <2>5
<1>. QED BY <1>4, <1>5

LEMMA SelectKeeps ==
  ASSUME SelTypeOK, SelectInv, NEW known, NEW reason \in Reason, NEW id \in Ids,
         NEW range \in Spans,
         Select(known, reason, [fn_id |-> item, id |-> id], range),
         items' = items, part' = part,
         (part = "decls") = (reason = "var")
  PROVE  SelectInv'
<1> DEFINE n == Offering(reason, id, range)
<1>1. n \in Offers /\ n.reason = reason /\ n.visit = items  BY OfferingTyped
<1>2. offered \subseteq Offers  BY DEF SelTypeOK
<1>3. \/ UNCHANGED <<selected, first, offered>>
      \/ /\ selected = << >> /\ first = << >> /\ offered = {}
         /\ selected' = <<n>> /\ first' = <<n>> /\ offered' = {n}
      \/ /\ first # << >> /\ first' = first /\ offered' = offered \cup {n}
         /\ \E o \in offered :
              /\ selected = <<o>>
              /\ selected' = IF Replaces(o, n) THEN <<n>> ELSE <<o>>
  BY SelectDoes
<1>4. items \in Nat  BY SelectAssumption DEF SelTypeOK
<1> HIDE DEF n
<1>5. CASE UNCHANGED <<selected, first, offered>>
  BY <1>5 DEF SelectInv, VisitInv, VariableStays, NarrowestSelected, Narrowest, Alike, OutermostCall
<1>6. CASE selected' = <<n>> /\ first' = <<n>> /\ offered' = {n}
  <2>1. selected'[1] = n /\ first'[1] = n  BY <1>6
  <2>2. Size(n.range) \in Int  BY <1>1, SizeTyped
  <2>. QED BY <1>1, <1>4, <1>6, <2>1, <2>2
           DEF SelectInv, VisitInv, VariableStays, NarrowestSelected, Narrowest, Alike, OutermostCall
<1>7. CASE /\ first # << >> /\ first' = first /\ offered' = offered \cup {n}
           /\ \E o \in offered :
                /\ selected = <<o>>
                /\ selected' = IF Replaces(o, n) THEN <<n>> ELSE <<o>>
  <2>1. PICK o \in offered :
          /\ selected = <<o>>
          /\ selected' = IF Replaces(o, n) THEN <<n>> ELSE <<o>>
    BY <1>7
  <2>2. PICK p \in offered : first = <<p>>  BY <1>7 DEF SelTypeOK
  <2>3. /\ VariableStays => VariableStays'
        /\ NarrowestSelected => NarrowestSelected'
        /\ OutermostCall => OutermostCall'
    BY <1>1, <1>2, <1>7, <2>1, <2>2, LaterOffer
  <2>4. VisitInv'
    <3>1. first[1] = p /\ first'[1] = p  BY <1>7, <2>2
    <3>2. p.reason # "var" /\ p.visit = items => part # "decls"
      BY <2>2 DEF SelectInv, VisitInv
    <3>. QED BY <1>1, <1>4, <1>7, <3>1, <3>2 DEF SelectInv, VisitInv
  <2>. QED BY <2>3, <2>4 DEF SelectInv
<1>. QED BY <1>3, <1>5, <1>6, <1>7

LEMMA SelectStep == SelTypeOK /\ SelectInv /\ [SelNext]_selVars => SelectInv'
<1> SUFFICES ASSUME SelTypeOK, SelectInv, [SelNext]_selVars PROVE SelectInv'  OBVIOUS
<1>1. CASE UNCHANGED <<selected, first, offered>> /\ items' = items
           /\ (part' = "decls" => part = "decls")
  BY <1>1 DEF SelectInv, VisitInv, VariableStays, NarrowestSelected, Narrowest, Alike, OutermostCall
<1>2. CASE VisitItem
  <2>1. UNCHANGED <<selected, first, offered>> /\ items' = items + 1  BY <1>2 DEF VisitItem
  <2>2. \A o \in offered : o.visit \in Nat /\ o.visit <= items
    BY DEF SelTypeOK, Offers, SelectInv, VisitInv
  <2>3. items \in Nat  BY SelectAssumption DEF SelTypeOK
  <2>4. VisitInv'  BY <2>1, <2>2, <2>3 DEF SelectInv, VisitInv
  <2>5. VariableStays' /\ NarrowestSelected' /\ OutermostCall'
    BY <2>1 DEF SelectInv, VariableStays, NarrowestSelected, Narrowest, Alike, OutermostCall
  <2>. QED BY <2>4, <2>5 DEF SelectInv
<1>3. CASE SeeResume  BY <1>1, <1>3 DEF SeeResume, DeclaredLocal
<1>4. CASE SeeDecl
  <2>1. PICK id \in Ids :
          LET local == [fn_id |-> item, id |-> id] IN
          /\ DeclaredLocal(id)
          /\ \/ \E span \in Spans : Select(candidates', "var", local, span)
             \/ UNCHANGED <<selected, first, offered>>
    BY <1>4 DEF SeeDecl
  <2>2. part = "decls" /\ part' = part /\ items' = items  BY <2>1 DEF DeclaredLocal
  <2>3. ASSUME NEW span \in Spans,
               Select(candidates', "var", [fn_id |-> item, id |-> id], span)
        PROVE  SelectInv'
    <3>1. "var" \in Reason  BY DEF Reason
    <3>. QED BY <2>2, <2>3, <3>1, SelectKeeps
  <2>. QED BY <1>1, <2>1, <2>2, <2>3
<1>5. CASE SeeUse
  <2>1. PICK reason \in Reason \ {"var"}, id \in Ids, range \in Spans :
          Select(candidates, reason, [fn_id |-> item, id |-> id], range)
    BY <1>5 DEF SeeUse
  <2>2. part = "body" /\ part' = part /\ items' = items  BY <1>5 DEF SeeUse
  <2>. QED BY <2>1, <2>2, SelectKeeps
<1>6. CASE VisitBody \/ LeaveItem \/ UNCHANGED selVars
  BY <1>1, <1>6 DEF VisitBody, LeaveItem, selVars
<1>. QED BY <1>2, <1>3, <1>4, <1>5, <1>6 DEF SelNext

LEMMA SelectStart == SelInit => SelectInv
BY DEF SelInit, SelectInv, VisitInv, VariableStays, NarrowestSelected, Narrowest, Alike, OutermostCall

(* A whole answer.                                                         *)

LEMMA SelectEnds == SelTypeOK /\ Selected => SelTypeOK' /\ SelectInv'
<1> SUFFICES ASSUME SelTypeOK, Selected PROVE SelTypeOK' /\ SelectInv'  OBVIOUS
<1>1. item' \in Fns  BY DEF SelTypeOK, Selected
<1>2. pos' = 0 /\ pos' \in Cursors
  BY SelectAssumption, MaxLocAssumption DEF Selected, Cursors, Loc
<1>3. SelTypeOK'  BY <1>1, <1>2, SelectAssumption DEF SelTypeOK, Selected
<1>4. SelectInv'
  BY DEF Selected, SelectInv, VisitInv, VariableStays, NarrowestSelected, Narrowest, Alike, OutermostCall
<1>. QED BY <1>3, <1>4

LEMMA DecosStep == SelTypeOK /\ SelectInv /\ [DecosNext]_decosVars => SelTypeOK' /\ SelectInv'
<1> SUFFICES ASSUME SelTypeOK, SelectInv, [DecosNext]_decosVars
             PROVE  SelTypeOK' /\ SelectInv'
  OBVIOUS
<1>1. CASE Selected  BY <1>1, SelectEnds
<1>2. CASE Selecting  BY <1>2, SelType, SelectStep DEF Selecting
<1>3. CASE UNCHANGED selVars  BY <1>3, SelType, SelectStep
<1>. QED BY <1>1, <1>2, <1>3 DEF DecosNext, Drawing, decosVars

\* Types of the selector; what is selected is never a local that an async
\* function is resumed with (src/src/lsp/decoration.rs:378-383).
THEOREM SelectorTyped == DecosSpec => []SelTypeOK
<1>1. DecosInit => SelTypeOK /\ SelectInv  BY SelInitType, SelectStart DEF DecosInit
<1>. QED BY <1>1, DecosStep, PTL DEF DecosSpec

\* A variable declared at the cursor by the function that first offers
\* anything there is selected, and the narrowest; what is narrower than all
\* else at the cursor is selected in any order of the functions, if it is a
\* variable, or a move or borrow where no variable is; a selected call is the
\* outermost there and a call was found first
\* (src/src/lsp/decoration.rs:334-361, src/src/utils.rs:114-125).
THEOREM RightLocalIsSelected == DecosSpec => []RightLocal
<1>1. DecosInit => SelTypeOK /\ SelectInv  BY SelInitType, SelectStart DEF DecosInit
<1>2. SelTypeOK /\ SelectInv => DeclarationFirst
  BY DEF SelTypeOK, SelectInv, VisitInv, VariableStays, DeclarationFirst
<1>3. SelTypeOK /\ SelectInv => RightLocal  BY <1>2 DEF SelectInv, RightLocal
<1>. QED BY <1>1, <1>3, DecosStep, PTL DEF DecosSpec

\* What a whole answer draws keeps what is proved of CalcDecos
\* (src/src/lsp/backend.rs:169-206): an answer implements a call of it.
THEOREM AnswersAreDrawn == DecosSpec => Spec
<1>1. DecosInit => Init  BY DEF DecosInit
<1>2. [DecosNext]_decosVars => [Next]_vars
  BY DEF DecosNext, Selecting, Selected, Drawing, decosVars, vars, aux
<1>. QED BY <1>1, <1>2, PTL DEF DecosSpec, Spec
=============================================================================
