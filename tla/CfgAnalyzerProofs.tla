------------------------- MODULE CfgAnalyzerProofs -------------------------
(***************************************************************************)
(* What CfgAnalyzer computes, for every control-flow graph and every value *)
(* of the two cutoffs: nothing the dataflow equations do not justify, and, *)
(* unless a cutoff interfered, a solution of them.  A solution below every *)
(* solution is the least one.                                              *)
(***************************************************************************)
EXTENDS CfgAnalyzer, TLAPS

-----------------------------------------------------------------------------
(* The effect of a location on the state set of a local.                   *)

LEMMA FlowType ==
  ASSUME NEW e \in Effects, NEW x \in Locals, NEW s \in SUBSET Variants
  PROVE  Flow(e, x, s) \in SUBSET Variants
  BY DEF Flow, Effects, Variants

LEMMA FlowSome ==
  ASSUME NEW e \in Effects, NEW x \in Locals, NEW s \in SUBSET Variants, s # {}
  PROVE  Flow(e, x, s) # {}
  BY DEF Flow, Effects, Variants

LEMMA FlowMonotone ==
  ASSUME NEW e \in Effects, NEW x \in Locals,
         NEW s \in SUBSET Variants, NEW t \in SUBSET Variants, s \subseteq t
  PROVE  Flow(e, x, s) \subseteq Flow(e, x, t)
  BY DEF Flow, Effects

LEMMA FlowIdempotent ==
  ASSUME NEW e \in Effects, NEW x \in Locals, NEW s \in SUBSET Variants
  PROVE  Flow(e, x, Flow(e, x, s)) = Flow(e, x, s)
  BY DEF Flow, Effects

\* Joining a location's own result with what arrives, and applying its effect
\* to both, adds nothing but the effect on what arrives.
LEMMA FlowJoin ==
  ASSUME NEW e \in Effects, NEW x \in Locals,
         NEW s \in SUBSET Variants, NEW t \in SUBSET Variants
  PROVE  Flow(e, x, s \cup t) \subseteq s \cup Flow(e, x, t)
  BY DEF Flow, Effects

-----------------------------------------------------------------------------
(* Graphs.                                                                 *)

WellFormed(c) ==
  /\ c \in Seq(Blocks)
  /\ \A b \in DOMAIN c : Range(c[b].succ) \subseteq DOMAIN c

LEMMA CfgFacts ==
  ASSUME fn \in DOMAIN Cfgs, meaning = Meaning(fn)
  PROVE  /\ WellFormed(cfg)
         /\ meaning \in [Locations(cfg) -> LocalStates]
         /\ Solves(cfg, meaning)
  BY CfgAssumption DEF WellFormed, cfg

LEMMA BlockFacts ==
  ASSUME NEW c, WellFormed(c), NEW b \in DOMAIN c
  PROVE  /\ b \in Nat \ {0} /\ c[b] \in Blocks
         /\ c[b].stmts \in Seq(Effects) /\ c[b].term \in Effects /\ c[b].succ \in Seq(Nat)
         /\ \A i \in DOMAIN c[b].succ : c[b].succ[i] \in DOMAIN c
<1>1. c[b] \in Blocks /\ b \in Nat \ {0}
  BY DEF WellFormed
<1>2. c[b].stmts \in Seq(Effects) /\ c[b].term \in Effects /\ c[b].succ \in Seq(Nat)
  BY <1>1 DEF Blocks
<1>3. \A i \in DOMAIN c[b].succ : c[b].succ[i] \in DOMAIN c
  BY DEF WellFormed, Range
<1> QED
  BY <1>1, <1>2, <1>3

LEMMA LocationFacts ==
  ASSUME NEW c, WellFormed(c)
  PROVE  /\ Idle \notin Locations(c)
         /\ \A b \in DOMAIN c : <<b, 1>> \in Locations(c)
         /\ \A l \in Locations(c) :
              /\ l[1] \in DOMAIN c
              /\ EffectAt(c, l) \in Effects
              /\ ~IsTerm(c, l) => Following(l) \in Locations(c) /\ Edge(c, l, Following(l))
<1> USE DEF WellFormed
<1>1. \A b \in DOMAIN c : /\ b \in Nat \ {0} /\ c[b].stmts \in Seq(Effects)
                          /\ c[b].term \in Effects /\ c[b].succ \in Seq(Nat)
  BY BlockFacts
<1>2. \A l : l \in Locations(c) <=>
        \E b \in DOMAIN c : \E i \in 1 .. Len(c[b].stmts) + 1 : l = <<b, i>>
  BY DEF Locations
<1>3. Idle \notin Locations(c)
  BY <1>1, <1>2 DEF Idle
<1>4. \A b \in DOMAIN c : <<b, 1>> \in Locations(c)
  BY <1>1, <1>2
<1>5. ASSUME NEW l \in Locations(c)
      PROVE  /\ l[1] \in DOMAIN c
             /\ EffectAt(c, l) \in Effects
             /\ ~IsTerm(c, l) => Following(l) \in Locations(c) /\ Edge(c, l, Following(l))
  <2>0. PICK b \in DOMAIN c : \E i \in 1 .. Len(c[b].stmts) + 1 : l = <<b, i>>
    BY <1>2
  <2>1. PICK i \in 1 .. Len(c[b].stmts) + 1 : l = <<b, i>>
    BY <2>0
  <2>2. EffectAt(c, l) \in Effects
    BY <1>1, <2>1 DEF EffectAt, IsTerm
  <2>3. ~IsTerm(c, l) => i + 1 \in 1 .. Len(c[b].stmts) + 1
    BY <1>1, <2>1 DEF IsTerm
  <2> QED
    BY <1>2, <2>1, <2>2, <2>3 DEF Following, Edge
<1> QED
  BY <1>3, <1>4, <1>5

-----------------------------------------------------------------------------
(* Type correctness.                                                       *)

LEMMA AfterType ==
  ASSUME TypeOK, at # Idle
  PROVE  After \in LocalStates
<1>1. EffectAt(cfg, at) \in Effects
  BY CfgFacts, LocationFacts DEF TypeOK
<1>2. \A x \in Locals : Joined(x) \in SUBSET Variants
  BY DEF TypeOK, Joined, LocalStates
<1> QED
  BY <1>1, <1>2, FlowType DEF After, LocalStates

\* What a visited terminator appends to the work list.
Pushed == [i \in DOMAIN cfg[at[1]].succ |-> [block |-> cfg[at[1]].succ[i], states |-> After]]

LEMMA PushedType ==
  ASSUME TypeOK, at # Idle
  PROVE  /\ Pushed \in Seq(Entries)
         /\ DOMAIN Pushed = DOMAIN cfg[at[1]].succ
         /\ \A i \in DOMAIN Pushed : Pushed[i] = [block |-> cfg[at[1]].succ[i], states |-> After]
<1>1. at[1] \in DOMAIN cfg /\ WellFormed(cfg)
  BY CfgFacts, LocationFacts DEF TypeOK
<1> DEFINE succ == cfg[at[1]].succ
<1>2. succ \in Seq(Nat) /\ \A i \in DOMAIN succ : succ[i] \in DOMAIN cfg
  BY <1>1, BlockFacts
<1>3. \A i \in DOMAIN succ : [block |-> succ[i], states |-> After] \in Entries
  BY <1>2, AfterType DEF Entries
<1>4. Pushed = [i \in 1 .. Len(succ) |-> [block |-> succ[i], states |-> After]]
  BY <1>2 DEF Pushed
<1>5. Len(succ) \in Nat /\ DOMAIN succ = 1 .. Len(succ)
  BY <1>2
<1> HIDE DEF succ
<1>6. Pushed \in Seq(Entries) /\ DOMAIN Pushed = 1 .. Len(succ)
  BY <1>3, <1>4, <1>5
<1> QED
  BY <1>4, <1>5, <1>6 DEF succ

LEMMA TypeInit == Init => TypeOK
<1> SUFFICES ASSUME Init PROVE TypeOK
  OBVIOUS
<1>1. WellFormed(cfg)
  BY CfgFacts DEF Init
<1>2. Nothing \in LocalStates /\ [x \in Locals |-> Start] \in LocalStates
  BY DEF Nothing, LocalStates, Start, Variants
<1>3. Limit \in Nat
  BY <1>1, CfgAssumption DEF Limit, WellFormed
<1>4. cfg # << >> => 1 \in DOMAIN cfg
  BY <1>1 DEF WellFormed
<1>5. queue \in Seq(Entries)
  <2>1. cfg # << >> => [block |-> 1, states |-> [x \in Locals |-> Start]] \in Entries
    BY <1>2, <1>4 DEF Entries
  <2> QED
    BY <2>1 DEF Init
<1>6. states \in [Locations(cfg) -> LocalStates] /\ visited \in [Locations(cfg) -> Nat]
  BY <1>2 DEF Init
<1>7. popped \in 0 .. Limit /\ cut \in BOOLEAN
  <2>1. popped = 0 /\ cut = FALSE
    BY DEF Init
  <2>2. popped \in 0 .. Limit
    BY <1>3, <2>1
  <2> QED
    BY <2>1, <2>2
<1>8. prev \in LocalStates
  BY <1>2 DEF Init
<1> QED
  BY <1>5, <1>6, <1>7, <1>8 DEF Init, TypeOK

LEMMA TypeStep ==
  ASSUME TypeOK, [Next]_vars
  PROVE  TypeOK'
<1>1. WellFormed(cfg) /\ Limit \in Nat
  BY CfgFacts, CfgAssumption DEF TypeOK, WellFormed, Limit
<1>2. Nothing \in LocalStates
  BY DEF Nothing, LocalStates
<1>3. fn' = fn => cfg' = cfg /\ Limit' = Limit /\ Entries' = Entries
  BY DEF cfg, Limit, Entries
<1>4. CASE Pop
  <2>1. Head(queue) \in Entries /\ Tail(queue) \in Seq(Entries)
    BY <1>4 DEF Pop, TypeOK
  <2>2. <<Head(queue).block, 1>> \in Locations(cfg) /\ Head(queue).states \in LocalStates
    BY <1>1, <2>1, LocationFacts DEF Entries
  <2>3. popped' \in 0 .. Limit
    BY <1>1, <1>4 DEF Pop, MayPop, TypeOK
  <2> QED
    BY <1>3, <1>4, <2>1, <2>2, <2>3 DEF Pop, TypeOK
<1>5. CASE CircuitBreak \/ SkipUnchanged
  BY <1>2, <1>3, <1>5 DEF CircuitBreak, SkipUnchanged, Leave, TypeOK
<1>6. ASSUME Visit, at # Idle
      PROVE  /\ states' \in [Locations(cfg) -> LocalStates]
             /\ visited' \in [Locations(cfg) -> Nat]
  BY <1>6, AfterType DEF Visit, TypeOK
<1>7. CASE VisitStatement
  <2>1. Following(at) \in Locations(cfg)
    BY <1>1, <1>7, LocationFacts DEF VisitStatement, AtStatement, TypeOK
  <2> QED
    BY <1>3, <1>6, <1>7, <2>1, AfterType DEF VisitStatement, AtStatement, Visit, Carried, TypeOK
<1>8. CASE VisitTerminator
  <2>1. queue' = queue \o Pushed
    BY <1>8 DEF VisitTerminator, Pushed, Carried
  <2>2. queue \in Seq(Entries) /\ Pushed \in Seq(Entries)
    BY <1>8, PushedType DEF VisitTerminator, TypeOK
  <2>3. queue' \in Seq(Entries)
    BY <2>1, <2>2
  <2> QED
    BY <1>2, <1>3, <1>6, <1>8, <2>3 DEF VisitTerminator, Visit, TypeOK
<1>9. CASE UNCHANGED vars
  BY <1>3, <1>9 DEF vars, TypeOK
<1> QED
  BY <1>4, <1>5, <1>7, <1>8, <1>9 DEF Next

\* Type correctness of the analyzer's state.
THEOREM TypeCorrect == Spec => []TypeOK
  BY TypeInit, TypeStep, PTL DEF Spec
-----------------------------------------------------------------------------
(* The work list.                                                          *)

LEMMA PopFacts ==
  ASSUME TypeOK, Pop
  PROVE  /\ 1 \in DOMAIN queue /\ Head(queue) = queue[1]
         /\ \A i \in DOMAIN queue' : i + 1 \in DOMAIN queue /\ queue'[i] = queue[i + 1]
         /\ \A i \in DOMAIN queue :
              i # 1 => \E j \in DOMAIN queue' : queue'[j] = queue[i]
<1>1. queue \in Seq(Entries) /\ queue # << >> /\ queue' = Tail(queue)
  BY DEF TypeOK, Pop
<1>2. 1 \in DOMAIN queue /\ Head(queue) = queue[1]
  BY <1>1
<1>3. \A i \in DOMAIN queue' : i + 1 \in DOMAIN queue /\ queue'[i] = queue[i + 1]
  BY <1>1
<1>4. ASSUME NEW i \in DOMAIN queue, i # 1
      PROVE  \E j \in DOMAIN queue' : queue'[j] = queue[i]
  <2>1. i - 1 \in DOMAIN queue' /\ queue'[i - 1] = queue[i]
    BY <1>1, <1>4
  <2> QED
    BY <2>1
<1> QED
  BY <1>2, <1>3, <1>4

LEMMA PushFacts ==
  ASSUME TypeOK, VisitTerminator
  PROVE  /\ \A i \in DOMAIN queue : i \in DOMAIN queue' /\ queue'[i] = queue[i]
         /\ \A i \in DOMAIN queue' \ DOMAIN queue :
              \E j \in DOMAIN cfg[at[1]].succ :
                 queue'[i] = [block |-> cfg[at[1]].succ[j], states |-> After]
         /\ \A j \in DOMAIN cfg[at[1]].succ : \E i \in DOMAIN queue' :
              queue'[i] = [block |-> cfg[at[1]].succ[j], states |-> After]
<1>1. queue' = queue \o Pushed
  BY DEF VisitTerminator, Pushed, Carried
<1>2. queue \in Seq(Entries) /\ Pushed \in Seq(Entries)
  BY PushedType DEF VisitTerminator, TypeOK
<1>3. DOMAIN Pushed = DOMAIN cfg[at[1]].succ
  BY PushedType DEF VisitTerminator
<1>4. \A j \in DOMAIN Pushed : Pushed[j] = [block |-> cfg[at[1]].succ[j], states |-> After]
  BY PushedType DEF VisitTerminator
<1>5. \A i \in DOMAIN queue : i \in DOMAIN queue' /\ queue'[i] = queue[i]
  BY <1>1, <1>2
<1>6. \A i \in DOMAIN queue' \ DOMAIN queue : \E j \in DOMAIN Pushed : queue'[i] = Pushed[j]
  <2>1. ASSUME NEW i \in DOMAIN queue' \ DOMAIN queue
        PROVE  i - Len(queue) \in DOMAIN Pushed /\ queue'[i] = Pushed[i - Len(queue)]
    BY <1>1, <1>2, <2>1
  <2> QED
    BY <2>1
<1>7. \A j \in DOMAIN Pushed : \E i \in DOMAIN queue' : queue'[i] = Pushed[j]
  <2>1. ASSUME NEW j \in DOMAIN Pushed
        PROVE  j + Len(queue) \in DOMAIN queue' /\ queue'[j + Len(queue)] = Pushed[j]
    BY <1>1, <1>2, <2>1
  <2> QED
    BY <2>1
<1>8. \A i \in DOMAIN queue' \ DOMAIN queue : \E j \in DOMAIN cfg[at[1]].succ :
         queue'[i] = [block |-> cfg[at[1]].succ[j], states |-> After]
  BY <1>3, <1>4, <1>6
<1>9. \A j \in DOMAIN cfg[at[1]].succ : \E i \in DOMAIN queue' :
         queue'[i] = [block |-> cfg[at[1]].succ[j], states |-> After]
  BY <1>3, <1>4, <1>7
<1> QED
  BY <1>5, <1>8, <1>9

LEMMA NextKeepsCfg ==
  ASSUME [Next]_vars
  PROVE  fn' = fn /\ meaning' = meaning /\ cfg' = cfg
<1>1. fn' = fn /\ meaning' = meaning
  BY DEF Next, Pop, CircuitBreak, SkipUnchanged, Leave, VisitStatement, VisitTerminator, Visit, vars
<1> QED
  BY <1>1 DEF cfg

-----------------------------------------------------------------------------
(* Nothing is invented: what is carried to a location, or waits in the     *)
(* work list, is justified by any solution of the equations.               *)

Justified(m, s) ==
  \A x \in Locals : s[x] # {} /\ Flow(EffectAt(cfg, m), x, s[x]) \subseteq meaning[m][x]

Sound ==
  /\ NothingInvented
  /\ at # Idle => Justified(at, prev)
  /\ \A i \in DOMAIN queue : Justified(<<queue[i].block, 1>>, queue[i].states)

\* What a visit computes is justified, at the location and at its successors.
LEMMA AfterJustified ==
  ASSUME TypeOK, Sound, at # Idle
  PROVE  /\ \A x \in Locals : After[x] \subseteq meaning[at][x]
         /\ \A m \in Locations(cfg) : Edge(cfg, at, m) => Justified(m, After)
<1>1. /\ at \in Locations(cfg) /\ After \in LocalStates
      /\ meaning \in [Locations(cfg) -> LocalStates] /\ Solves(cfg, meaning)
      /\ \A m \in Locations(cfg) : EffectAt(cfg, m) \in Effects
  BY CfgFacts, LocationFacts, AfterType DEF TypeOK
<1>2. ASSUME NEW x \in Locals
      PROVE  After[x] # {} /\ After[x] \subseteq meaning[at][x]
  <2>1. states[at][x] \in SUBSET Variants /\ prev[x] \in SUBSET Variants
    BY <1>1 DEF TypeOK, LocalStates
  <2>2. prev[x] # {} /\ Flow(EffectAt(cfg, at), x, prev[x]) \subseteq meaning[at][x]
    BY DEF Sound, Justified
  <2>3. states[at][x] \subseteq meaning[at][x]
    BY <1>1 DEF Sound, NothingInvented
  <2>4. After[x] = Flow(EffectAt(cfg, at), x, states[at][x] \cup prev[x])
    BY DEF After, Joined
  <2>5. After[x] # {}
    BY <1>1, <2>1, <2>2, <2>4, FlowSome
  <2>6. After[x] \subseteq states[at][x] \cup Flow(EffectAt(cfg, at), x, prev[x])
    BY <1>1, <2>1, <2>4, FlowJoin
  <2> QED
    BY <2>2, <2>3, <2>5, <2>6
<1>3. ASSUME NEW m \in Locations(cfg), Edge(cfg, at, m), NEW x \in Locals
      PROVE  After[x] # {} /\ Flow(EffectAt(cfg, m), x, After[x]) \subseteq meaning[m][x]
  <2>1. meaning[at][x] \in SUBSET Variants /\ After[x] \in SUBSET Variants
    BY <1>1 DEF LocalStates
  <2>2. Flow(EffectAt(cfg, m), x, meaning[at][x]) \subseteq meaning[m][x]
    BY <1>1, <1>2, <1>3 DEF Solves
  <2> QED
    BY <1>1, <1>2, <2>1, <2>2, FlowMonotone
<1> QED
  BY <1>2, <1>3 DEF Justified

LEMMA SoundInit == Init /\ TypeOK => Sound
<1> SUFFICES ASSUME Init, TypeOK PROVE Sound
  OBVIOUS
<1>1. WellFormed(cfg) /\ Solves(cfg, meaning)
  BY CfgFacts DEF Init
<1>2. NothingInvented
  BY DEF Init, NothingInvented, Nothing
<1>3. ASSUME NEW i \in DOMAIN queue
      PROVE  Justified(<<queue[i].block, 1>>, queue[i].states)
  <2>1. cfg # << >> /\ queue[i] = [block |-> 1, states |-> [x \in Locals |-> Start]]
    BY DEF Init
  <2>2. \A x \in Locals : Flow(EffectAt(cfg, <<1, 1>>), x, Start) \subseteq meaning[<<1, 1>>][x]
    BY <1>1, <2>1 DEF Solves
  <2> QED
    BY <2>1, <2>2 DEF Justified, Start
<1>4. at = Idle
  BY DEF Init
<1> QED
  BY <1>2, <1>3, <1>4 DEF Sound

LEMMA SoundStep ==
  ASSUME TypeOK, Sound, [Next]_vars
  PROVE  Sound'
<1>1. cfg' = cfg /\ meaning' = meaning
  BY NextKeepsCfg
<1>2. WellFormed(cfg)
  BY CfgFacts DEF TypeOK
<1>3. \A i \in DOMAIN queue : Justified(<<queue[i].block, 1>>, queue[i].states)
  BY DEF Sound
<1>4. CASE Pop
  <2>1. NothingInvented'
    BY <1>1, <1>4 DEF Pop, Sound, NothingInvented
  <2>2. Justified(at', prev')
    BY <1>3, <1>4, PopFacts DEF Pop
  <2>3. \A i \in DOMAIN queue' : Justified(<<queue'[i].block, 1>>, queue'[i].states)
    BY <1>3, <1>4, PopFacts
  <2> QED
    BY <1>1, <2>1, <2>2, <2>3 DEF Sound, Justified
<1>5. CASE CircuitBreak \/ SkipUnchanged
  <2>1. UNCHANGED <<states, queue>> /\ at' = Idle
    BY <1>5 DEF CircuitBreak, SkipUnchanged, Leave
  <2> QED
    BY <1>1, <1>3, <2>1 DEF Sound, Justified, NothingInvented
<1>6. ASSUME Visit, at # Idle
      PROVE  NothingInvented'
  <2>1. states' = [states EXCEPT ![at] = After] /\ states \in [Locations(cfg) -> LocalStates]
    BY <1>6 DEF Visit, TypeOK
  <2>2. \A x \in Locals : After[x] \subseteq meaning[at][x]
    BY <1>6, AfterJustified
  <2> QED
    BY <1>1, <2>1, <2>2 DEF Sound, NothingInvented
<1>7. CASE VisitStatement
  <2>1. at # Idle /\ ~IsTerm(cfg, at) /\ at \in Locations(cfg)
    BY <1>7 DEF VisitStatement, AtStatement, TypeOK
  <2>2. Justified(Following(at), After)
    BY <1>2, <2>1, LocationFacts, AfterJustified
  <2>3. Visit /\ at' = Following(at) /\ prev' = After /\ queue' = queue
    BY <1>7 DEF VisitStatement, Carried
  <2> QED
    BY <1>1, <1>3, <1>6, <2>1, <2>2, <2>3 DEF Sound, Justified
<1>8. CASE VisitTerminator
  <2>1. at # Idle /\ IsTerm(cfg, at) /\ at \in Locations(cfg) /\ Visit /\ at' = Idle
    BY <1>8 DEF VisitTerminator, TypeOK
  <2>2. ASSUME NEW j \in DOMAIN cfg[at[1]].succ
        PROVE  Justified(<<cfg[at[1]].succ[j], 1>>, After)
    <3>1. at[1] \in DOMAIN cfg
      BY <1>2, <2>1, LocationFacts
    <3>2. <<cfg[at[1]].succ[j], 1>> \in Locations(cfg)
      BY <1>2, <3>1, BlockFacts, LocationFacts
    <3>3. Edge(cfg, at, <<cfg[at[1]].succ[j], 1>>)
      BY <2>1 DEF Edge, Range
    <3> QED
      BY <2>1, <3>2, <3>3, AfterJustified
  <2>3. ASSUME NEW i \in DOMAIN queue'
        PROVE  Justified(<<queue'[i].block, 1>>, queue'[i].states)
    <3>1. CASE i \in DOMAIN queue
      BY <1>3, <1>8, <3>1, PushFacts
    <3>2. CASE i \notin DOMAIN queue
      <4>1. PICK j \in DOMAIN cfg[at[1]].succ :
              queue'[i] = [block |-> cfg[at[1]].succ[j], states |-> After]
        BY <1>8, <3>2, PushFacts
      <4> QED
        BY <2>2, <4>1
    <3> QED
      BY <3>1, <3>2
  <2> QED
    BY <1>1, <1>6, <2>1, <2>3 DEF Sound, Justified
<1>9. CASE UNCHANGED vars
  BY <1>1, <1>3, <1>9 DEF vars, Sound, Justified, NothingInvented
<1> QED
  BY <1>4, <1>5, <1>7, <1>8, <1>9 DEF Next

\* Whenever the walk stops, it has found no state that the dataflow equations
\* do not justify.
THEOREM FindsNothingElse == Spec => []NothingInvented
<1>1. Init => TypeOK /\ Sound
  BY TypeInit, SoundInit
<1>2. TypeOK /\ Sound /\ [Next]_vars => (TypeOK /\ Sound)'
  BY TypeStep, SoundStep
<1>3. Sound => NothingInvented
  BY DEF Sound
<1> QED
  BY <1>1, <1>2, <1>3, PTL DEF Spec
-----------------------------------------------------------------------------
(* Nothing is missed: what is recorded at a location has already been      *)
(* carried to each of its successors, or is on its way there.              *)

\* A location's effect leaves what is recorded there alone, so that joining
\* again only adds.
Settled ==
  \A l \in Locations(cfg), x \in Locals :
    states[l][x] # {} => Flow(EffectAt(cfg, l), x, states[l][x]) = states[l][x]

OnItsWay(m, x, s) ==
  \/ at = m /\ s \subseteq prev[x]
  \/ \E i \in DOMAIN queue : m = <<queue[i].block, 1>> /\ s \subseteq queue[i].states[x]
Carries(m, x, s) ==
  Flow(EffectAt(cfg, m), x, s) \subseteq states[m][x] \/ OnItsWay(m, x, s)

Complete ==
  \A x \in Locals :
    /\ cfg # << >> => Carries(<<1, 1>>, x, Start)
    /\ \A l, m \in Locations(cfg) :
         Edge(cfg, l, m) /\ states[l][x] # {} => Carries(m, x, states[l][x])

LEMMA SettledInit == Init => Settled
  BY DEF Init, Settled, Nothing

LEMMA SettledStep ==
  ASSUME TypeOK, Settled, [Next]_vars
  PROVE  Settled'
<1>1. cfg' = cfg
  BY NextKeepsCfg
<1>2. ASSUME Visit, at # Idle
      PROVE  Settled'
  <2>1. states' = [states EXCEPT ![at] = After] /\ states \in [Locations(cfg) -> LocalStates]
    BY <1>2 DEF Visit, TypeOK
  <2>2. EffectAt(cfg, at) \in Effects
    BY <1>2, CfgFacts, LocationFacts DEF TypeOK
  <2>3. ASSUME NEW x \in Locals
        PROVE  Flow(EffectAt(cfg, at), x, After[x]) = After[x]
    <3>1. Joined(x) \in SUBSET Variants
      BY <1>2, <2>1 DEF Joined, TypeOK, LocalStates
    <3> QED
      BY <2>2, <3>1, FlowIdempotent DEF After
  <2> QED
    BY <1>1, <2>1, <2>3 DEF Settled
<1>3. CASE UNCHANGED states
  BY <1>1, <1>3 DEF Settled
<1>4. UNCHANGED states \/ (Visit /\ at # Idle)
  BY DEF Next, Pop, CircuitBreak, SkipUnchanged, Leave, VisitStatement, AtStatement, VisitTerminator, vars
<1> QED
  BY <1>2, <1>3, <1>4

\* A visit records at the location the effect on everything that was recorded
\* there or carried to it.
LEMMA VisitGrows ==
  ASSUME TypeOK, Settled, Visit, at # Idle
  PROVE  /\ \A l \in Locations(cfg), x \in Locals : states[l][x] \subseteq states'[l][x]
         /\ \A x \in Locals, s \in SUBSET Variants :
              s \subseteq prev[x] => Flow(EffectAt(cfg, at), x, s) \subseteq states'[at][x]
<1>1. states' = [states EXCEPT ![at] = After] /\ states \in [Locations(cfg) -> LocalStates]
  BY DEF Visit, TypeOK
<1>2. at \in Locations(cfg) /\ EffectAt(cfg, at) \in Effects
  BY CfgFacts, LocationFacts DEF TypeOK
<1>3. ASSUME NEW x \in Locals, NEW s \in SUBSET Variants, s \subseteq Joined(x)
      PROVE  Flow(EffectAt(cfg, at), x, s) \subseteq After[x]
  <2>1. Joined(x) \in SUBSET Variants
    BY <1>1, <1>2 DEF Joined, TypeOK, LocalStates
  <2> QED
    BY <1>2, <1>3, <2>1, FlowMonotone DEF After
<1>4. ASSUME NEW x \in Locals
      PROVE  states[at][x] \subseteq After[x]
  <2>1. states[at][x] \in SUBSET Variants
    BY <1>1, <1>2 DEF LocalStates
  <2>2. states[at][x] # {} => Flow(EffectAt(cfg, at), x, states[at][x]) = states[at][x]
    BY <1>2 DEF Settled
  <2>3. Flow(EffectAt(cfg, at), x, states[at][x]) \subseteq After[x]
    BY <1>3, <2>1 DEF Joined
  <2> QED
    BY <2>2, <2>3
<1>5. \A l \in Locations(cfg), x \in Locals : states[l][x] \subseteq states'[l][x]
  BY <1>1, <1>2, <1>4
<1>6. \A x \in Locals, s \in SUBSET Variants :
        s \subseteq prev[x] => Flow(EffectAt(cfg, at), x, s) \subseteq states'[at][x]
  BY <1>1, <1>2, <1>3 DEF Joined
<1> QED
  BY <1>5, <1>6

\* What has been carried to a location stays carried.
LEMMA CarriesStep ==
  ASSUME TypeOK, Settled, [Next]_vars, ~cut',
         NEW m \in Locations(cfg), NEW x \in Locals, NEW s \in SUBSET Variants, s # {},
         Carries(m, x, s)
  PROVE  Carries(m, x, s)'
<1>1. cfg' = cfg
  BY NextKeepsCfg
<1>2. m # Idle /\ WellFormed(cfg) /\ EffectAt(cfg, m) \in Effects
  BY CfgFacts, LocationFacts DEF TypeOK
<1>3. states[m][x] \in SUBSET Variants
  BY DEF TypeOK, LocalStates
<1>4. CASE Pop
  <2>1. states' = states
    BY <1>4 DEF Pop
  <2>2. CASE Flow(EffectAt(cfg, m), x, s) \subseteq states[m][x]
    BY <1>1, <2>1, <2>2 DEF Carries
  <2>3. CASE OnItsWay(m, x, s)
    <3>1. at = Idle
      BY <1>4 DEF Pop
    <3>2. PICK i \in DOMAIN queue : m = <<queue[i].block, 1>> /\ s \subseteq queue[i].states[x]
      BY <1>2, <2>3, <3>1 DEF OnItsWay
    <3>3. CASE i = 1
      <4>1. at' = m /\ prev' = queue[1].states
        BY <1>4, <3>2, <3>3, PopFacts DEF Pop
      <4> QED
        BY <3>2, <3>3, <4>1 DEF Carries, OnItsWay
    <3>4. CASE i # 1
      <4>1. PICK j \in DOMAIN queue' : queue'[j] = queue[i]
        BY <1>4, <3>4, PopFacts
      <4> QED
        BY <3>2, <4>1 DEF Carries, OnItsWay
    <3> QED
      BY <3>3, <3>4
  <2> QED
    BY <2>2, <2>3 DEF Carries
<1>5. CASE CircuitBreak
  BY <1>5 DEF CircuitBreak
<1>6. CASE SkipUnchanged
  <2>1. UNCHANGED <<states, queue>> /\ states[at] = prev
    BY <1>6 DEF SkipUnchanged, Leave, Unchanged
  <2>2. CASE at = m /\ s \subseteq prev[x]
    <3>1. s \subseteq states[m][x]
      BY <2>1, <2>2
    <3>2. Flow(EffectAt(cfg, m), x, states[m][x]) = states[m][x]
      BY <3>1 DEF Settled
    <3>3. Flow(EffectAt(cfg, m), x, s) \subseteq states[m][x]
      BY <1>2, <1>3, <3>1, <3>2, FlowMonotone
    <3> QED
      BY <1>1, <2>1, <3>3 DEF Carries
  <2> QED
    BY <1>1, <2>1, <2>2 DEF Carries, OnItsWay
<1>7. ASSUME Visit, at # Idle,
             \A i \in DOMAIN queue : i \in DOMAIN queue' /\ queue'[i] = queue[i]
      PROVE  Carries(m, x, s)'
  <2>1. states[m][x] \subseteq states'[m][x]
    BY <1>7, VisitGrows
  <2>2. CASE Flow(EffectAt(cfg, m), x, s) \subseteq states[m][x]
    BY <1>1, <2>1, <2>2 DEF Carries
  <2>3. CASE at = m /\ s \subseteq prev[x]
    <3>1. Flow(EffectAt(cfg, m), x, s) \subseteq states'[m][x]
      BY <1>7, <2>3, VisitGrows
    <3> QED
      BY <1>1, <3>1 DEF Carries
  <2>4. CASE \E i \in DOMAIN queue : m = <<queue[i].block, 1>> /\ s \subseteq queue[i].states[x]
    <3>1. PICK i \in DOMAIN queue : m = <<queue[i].block, 1>> /\ s \subseteq queue[i].states[x]
      BY <2>4
    <3>2. i \in DOMAIN queue' /\ queue'[i] = queue[i]
      BY <1>7
    <3> QED
      BY <3>1, <3>2 DEF Carries, OnItsWay
  <2> QED
    BY <2>2, <2>3, <2>4 DEF Carries, OnItsWay
<1>8. CASE VisitStatement
  <2>1. Visit /\ at # Idle /\ queue' = queue
    BY <1>8 DEF VisitStatement, AtStatement
  <2> QED
    BY <1>7, <2>1
<1>9. CASE VisitTerminator
  <2>1. Visit /\ at # Idle
    BY <1>9 DEF VisitTerminator
  <2> QED
    BY <1>7, <1>9, <2>1, PushFacts
<1>10. CASE UNCHANGED vars
  BY <1>1, <1>10 DEF vars, Carries, OnItsWay
<1> QED
  BY <1>4, <1>5, <1>6, <1>8, <1>9, <1>10 DEF Next

\* What a visit computes is sent to every successor.
LEMMA VisitSends ==
  ASSUME TypeOK, VisitStatement \/ VisitTerminator,
         NEW m \in Locations(cfg), Edge(cfg, at, m), NEW x \in Locals
  PROVE  \E s \in SUBSET Variants : s = After[x] /\ OnItsWay(m, x, s)'
<1>1. at \in Locations(cfg) /\ Visit
  BY DEF VisitStatement, AtStatement, VisitTerminator, TypeOK
<1>2. ASSUME NEW s, s = After[x]
      PROVE  OnItsWay(m, x, s)'
  <2>1. CASE VisitStatement
    BY <1>2, <2>1 DEF VisitStatement, AtStatement, Carried, Edge, OnItsWay
  <2>2. CASE VisitTerminator
    <3>1. at # Idle /\ IsTerm(cfg, at) /\ at[1] \in DOMAIN cfg
      BY <1>1, <2>2, CfgFacts, LocationFacts DEF VisitTerminator, TypeOK
    <3>2. PICK j \in DOMAIN cfg[at[1]].succ : m = <<cfg[at[1]].succ[j], 1>>
      BY <3>1 DEF Edge, Range
    <3>3. PICK i \in DOMAIN queue' : queue'[i] = [block |-> cfg[at[1]].succ[j], states |-> After]
      BY <2>2, PushFacts
    <3> QED
      BY <1>2, <3>2, <3>3 DEF OnItsWay
  <2> QED
    BY <2>1, <2>2
<1>3. After[x] \in SUBSET Variants
  BY <1>1, AfterType, CfgFacts, LocationFacts DEF TypeOK, LocalStates
<1> QED
  BY <1>2, <1>3

LEMMA CompleteInit == Init /\ TypeOK => Complete
<1> SUFFICES ASSUME Init, TypeOK PROVE Complete
  OBVIOUS
<1>1. ASSUME NEW x \in Locals, cfg # << >>
      PROVE  Carries(<<1, 1>>, x, Start)
  <2>1. queue = <<[block |-> 1, states |-> [v \in Locals |-> Start]]>>
    BY <1>1 DEF Init
  <2>2. 1 \in DOMAIN queue /\ queue[1].block = 1 /\ queue[1].states[x] = Start
    BY <2>1
  <2> QED
    BY <2>2 DEF Carries, OnItsWay
<1>2. \A l \in Locations(cfg), x \in Locals : states[l][x] = {}
  BY DEF Init, Nothing
<1> QED
  BY <1>1, <1>2 DEF Complete

LEMMA CompleteStep ==
  ASSUME TypeOK, Settled, Complete, [Next]_vars, ~cut'
  PROVE  Complete'
<1>1. cfg' = cfg
  BY NextKeepsCfg
<1>2. WellFormed(cfg)
  BY CfgFacts DEF TypeOK
<1>3. ASSUME NEW x \in Locals, cfg # << >>
      PROVE  Carries(<<1, 1>>, x, Start)'
  <2>1. <<1, 1>> \in Locations(cfg)
    BY <1>2, <1>3, LocationFacts DEF WellFormed
  <2>2. Carries(<<1, 1>>, x, Start)
    BY <1>3 DEF Complete
  <2>3. Start \in SUBSET Variants /\ Start # {}
    BY DEF Start, Variants
  <2> QED
    BY <2>1, <2>2, <2>3, CarriesStep
<1>4. ASSUME NEW l \in Locations(cfg), NEW m \in Locations(cfg), NEW x \in Locals,
             Edge(cfg, l, m), states'[l][x] # {}
      PROVE  \E s : s = states'[l][x] /\ Carries(m, x, s)'
  <2>1. CASE states'[l] = states[l]
    <3>1. PICK s \in SUBSET Variants : s = states[l][x]
      BY DEF TypeOK, LocalStates
    <3>2. Carries(m, x, s) /\ s # {}
      BY <1>4, <2>1, <3>1 DEF Complete
    <3>3. Carries(m, x, s)'
      BY <3>1, <3>2, CarriesStep
    <3> QED
      BY <2>1, <3>1, <3>3
  <2>2. CASE states'[l] # states[l]
    <3>1. VisitStatement \/ VisitTerminator
      BY <2>2 DEF Next, Pop, CircuitBreak, SkipUnchanged, Leave, vars
    <3>2. states' = [states EXCEPT ![at] = After] /\ states \in [Locations(cfg) -> LocalStates]
      BY <3>1 DEF VisitStatement, VisitTerminator, Visit, TypeOK
    <3>3. l = at /\ states'[l] = After
      BY <2>2, <3>2
    <3>4. PICK s \in SUBSET Variants : s = After[x] /\ OnItsWay(m, x, s)'
      BY <1>4, <3>1, <3>3, VisitSends
    <3> QED
      BY <3>3, <3>4 DEF Carries
  <2> QED
    BY <2>1, <2>2
<1>5. ASSUME NEW l \in Locations(cfg), NEW m \in Locations(cfg), NEW x \in Locals,
             Edge(cfg, l, m), states'[l][x] # {}
      PROVE  Carries(m, x, states[l][x])'
  <2>1. PICK s : s = states'[l][x] /\ Carries(m, x, s)'
    BY <1>4, <1>5
  <2> QED
    BY <2>1 DEF Carries, OnItsWay
<1> QED
  BY <1>1, <1>3, <1>5 DEF Complete

\* A walk no cutoff touched ends at a solution of the dataflow equations.
THEOREM FindsEverything == Spec => []CompleteIfUncut
<1> DEFINE IInv == TypeOK /\ Settled /\ (~cut => Complete)
<1>1. Init => IInv
  BY TypeInit, SettledInit, CompleteInit
<1>2. IInv /\ [Next]_vars => IInv'
  <2> SUFFICES ASSUME TypeOK, Settled, ~cut => Complete, [Next]_vars
               PROVE  IInv'
    OBVIOUS
  <2>1. ~cut' => ~cut
    BY DEF Next, Pop, CircuitBreak, SkipUnchanged, VisitStatement, VisitTerminator, Visit, vars, TypeOK
  <2>2. TypeOK' /\ Settled'
    BY TypeStep, SettledStep
  <2>3. ~cut' => Complete'
    BY <2>1, CompleteStep
  <2> QED
    BY <2>2, <2>3
<1>3. IInv => CompleteIfUncut
  <2> SUFFICES ASSUME TypeOK, Complete, at = Idle, queue = << >>
               PROVE  Solves(cfg, states)
    BY DEF CompleteIfUncut, Done
  <2>1. WellFormed(cfg)
    BY CfgFacts DEF TypeOK
  <2>2. ASSUME NEW m \in Locations(cfg), NEW x, NEW s, Carries(m, x, s)
        PROVE  Flow(EffectAt(cfg, m), x, s) \subseteq states[m][x]
    BY <2>1, <2>2, LocationFacts DEF Carries, OnItsWay
  <2>3. cfg # << >> => <<1, 1>> \in Locations(cfg)
    BY <2>1, LocationFacts DEF WellFormed
  <2> QED
    BY <2>2, <2>3 DEF Complete, Solves
<1> QED
  BY <1>1, <1>2, <1>3, PTL DEF Spec

-----------------------------------------------------------------------------
(* What an uncut walk finds is what every path leaves.                     *)

\* Meaning is the least solution: it says what some path brings about.
MeaningIsLeast ==
  \A f \in DOMAIN Cfgs : \A S \in [Locations(Cfgs[f]) -> LocalStates] :
    Solves(Cfgs[f], S) =>
      \A l \in Locations(Cfgs[f]), x \in Locals : Meaning(f)[l][x] \subseteq S[l][x]

\* As long as no cutoff is met, a local drawn as definitely live is
\* initialized on every path (src/src/bin/core/analyze/dataflow_analyzer.rs:
\* 245-247, 348-357).
THEOREM DefinitelyLiveIsSound ==
  ASSUME MeaningIsLeast
  PROVE  Spec => []SoundIfUncut
<1>1. ASSUME TypeOK, NothingInvented, CompleteIfUncut, CutoffsUnused, Done,
             NEW l \in Locations(cfg), NEW x \in Locals, DefinitelyLive(x, l)
      PROVE  meaning[l][x] = {"Initialized"}
  <2>1. Solves(cfg, states)
    BY <1>1 DEF CompleteIfUncut, CutoffsUnused
  <2>2. fn \in DOMAIN Cfgs /\ meaning = Meaning(fn) /\ states \in [Locations(cfg) -> LocalStates]
    BY <1>1 DEF TypeOK
  <2>3. meaning[l][x] \subseteq states[l][x]
    BY <2>1, <2>2, MeaningIsLeast DEF MeaningIsLeast, cfg
  <2>4. states[l][x] \subseteq meaning[l][x]
    BY <1>1 DEF NothingInvented
  <2>. QED BY <1>1, <2>3, <2>4 DEF DefinitelyLive
<1>2. TypeOK /\ NothingInvented /\ CompleteIfUncut => SoundIfUncut
  BY <1>1 DEF SoundIfUncut, DefinitelyLiveSound
<1>. QED BY <1>2, TypeCorrect, FindsNothingElse, FindsEverything, PTL
=============================================================================
