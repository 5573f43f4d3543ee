--------------------------- MODULE MCCfgAnalyzer ---------------------------
(* Instances of CfgAnalyzer for TLC: families of small control-flow graphs, *)
(* and the least solution of their dataflow equations by iteration.        *)
EXTENDS CfgAnalyzer

x == "x"
None == [moves |-> {}, op |-> "none", local |-> x]
Assign == [moves |-> {}, op |-> "init", local |-> x]
Move == [moves |-> {x}, op |-> "none", local |-> x]
Dead == [moves |-> {}, op |-> "dead", local |-> x]
Drop == [moves |-> {}, op |-> "drop", local |-> x]
Block(ss, t, next) == [stmts |-> ss, term |-> t, succ |-> next]

(* Families as sequences, by the number of a combination.                  *)
Pick(s, n) == s[(n % Len(s)) + 1]
BlockSeq(bodies, exits) ==
  SubSeq([n \in 1 .. Len(bodies) * Len(exits) |->
            LET e == exits[((n - 1) \div Len(bodies)) + 1]
            IN Block(Pick(bodies, n), e[1], e[2])],
         1, Len(bodies) * Len(exits))

(* No edge leads back to the entry block: rustc builds no other MIR.       *)
Jumps == <<<<Drop, <<2>> >>, <<Drop, <<3>> >>, <<Assign, <<2>> >>, <<None, <<3>> >>, <<None, <<2, 3>> >>,
           <<None, << >> >> >>
EntryBlocks == BlockSeq(<<<< >>, <<Assign>> >>, <<<<None, <<2>> >>, <<None, <<2, 3>> >> >>)
OtherBlocks == BlockSeq(<<<< >>, <<None>>, <<Assign>>, <<Move>>, <<Dead>> >>, Jumps)
BlockTriples ==
  SubSeq([n \in 1 .. 4 * 30 * 30 |->
            <<Pick(EntryBlocks, n \div (30 * 30)), Pick(OtherBlocks, n \div 30), Pick(OtherBlocks, n)>>],
         1, 4 * 30 * 30)
ThreeBlocks == BlockTriples     \* TLC tabulates BlockTriples once

(* loop { x = ..; consume(x) } *)
Loop == <<<<Block(<<Assign>>, None, <<2>>), Block(<<Assign, Move>>, None, <<2>>)>> >>

(* x = ..; match v { 10 arms => {}, _ => consume(x) }; y = ..: eleven arms  *)
(* meet in a block that begins by assigning another local.                 *)
Other == [moves |-> {}, op |-> "init", local |-> "y"]
Match(arms) ==
  <<Block(<<Assign>>, None, [i \in 1 .. arms |-> i + 1])>>
  \o [i \in 1 .. arms |-> Block(IF i = arms THEN <<Move>> ELSE <<None>>, None, <<arms + 2>>)]
  \o <<Block(<<Other>>, None, << >>)>>
ElevenArms == <<Match(11)>>

(* The least solution: <<l, v, s>> when some path brings local v to l in    *)
(* state s, following the effects of its locations.                        *)
From(c, l) == {m \in Locations(c) : Edge(c, l, m)}
Brought(c, m, v, s) == {<<m, v, t>> : t \in Flow(EffectAt(c, m), v, s)}
RECURSIVE Paths(_, _)
Paths(c, T) ==
  LET more == UNION {UNION {Brought(c, m, t[2], {t[3]}) : m \in From(c, t[1])} : t \in T}
  IN IF more \subseteq T THEN T ELSE Paths(c, T \cup more)
LeastSolution(f) ==
  LET c == Cfgs[f]
      T == Paths(c, UNION {Brought(c, <<1, 1>>, v, Start) : v \in Locals})
  IN [l \in Locations(c) |-> [v \in Locals |-> {s \in Variants : <<l, v, s>> \in T}]]
=============================================================================
