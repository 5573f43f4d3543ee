---------------------------- MODULE CfgAnalyzer ----------------------------
(***************************************************************************)
(* The liveness analysis of rustowlc                                       *)
(* (src/src/bin/core/analyze/dataflow_analyzer.rs): CfgAnalyzer::walk_cfg  *)
(* carries, along a work list of basic blocks, the set of states each      *)
(* local may be in, and joins it into the set kept at every location.      *)
(*                                                                         *)
(* A control-flow graph is a sequence of blocks, the first the entry; what *)
(* a statement or terminator does to the locals is abstracted to an        *)
(* Effect.  One step is one location visited, or one decision not to.      *)
(***************************************************************************)
EXTENDS Naturals, Sequences, Functions

CONSTANTS
  Locals,
  Cfgs,        \* the control-flow graphs of the functions analyzed
  Meaning(_),  \* for each of them, a solution of its dataflow equations
  VisitCap,    \* visits of a location before the circuit breaker opens (10)
  IterFactor   \* blocks taken from the work list, per block of the graph (10)

Variants == {"Uninitialized", "Initialized", "Moved", "Dropped"}
LocalStates == [Locals -> SUBSET Variants]

(* The locals moved out of, then what happens to one local: an assignment  *)
(* or a call's destination, StorageDead, a Drop terminator, or nothing.    *)
Effects == [moves : SUBSET Locals, op : {"init", "dead", "drop", "none"}, local : Locals]
Blocks == [stmts : Seq(Effects), term : Effects, succ : Seq(Nat)]

(* Location <<b, i>>: statement i of block b, or, past them, its terminator.*)
Locations(c) == UNION {{b} \X (1 .. Len(c[b].stmts) + 1) : b \in DOMAIN c}
IsTerm(c, l) == l[2] = Len(c[l[1]].stmts) + 1
EffectAt(c, l) == IF IsTerm(c, l) THEN c[l[1]].term ELSE c[l[1]].stmts[l[2]]
Following(l) == <<l[1], l[2] + 1>>
Edge(c, l, m) ==
  IF IsTerm(c, l) THEN \E b \in Range(c[l[1]].succ) : m = <<b, 1>> ELSE m = Following(l)

(* What a location does to the state set s of local x.                     *)
Flow(e, x, s) ==
  IF e.op # "none" /\ x = e.local
  THEN CASE e.op = "init" -> {"Initialized"}
         [] e.op = "dead" -> {"Uninitialized"}
         [] e.op = "drop" -> (s \ {"Initialized"}) \cup {"Dropped"}
  ELSE IF x \in e.moves THEN {"Moved"} ELSE s

Start == {"Uninitialized"}

(* The dataflow equations, for locations something reaches.                *)
Solves(c, S) ==
  \A x \in Locals :
    /\ c # << >> => Flow(EffectAt(c, <<1, 1>>), x, Start) \subseteq S[<<1, 1>>][x]
    /\ \A l, m \in Locations(c) :
         Edge(c, l, m) /\ S[l][x] # {} => Flow(EffectAt(c, m), x, S[l][x]) \subseteq S[m][x]

ASSUME CfgAssumption ==
  /\ VisitCap \in Nat \ {0} /\ IterFactor \in Nat
  /\ \A f \in DOMAIN Cfgs :
       /\ Cfgs[f] \in Seq(Blocks)
       /\ \A b \in DOMAIN Cfgs[f] : Range(Cfgs[f][b].succ) \subseteq DOMAIN Cfgs[f]
       /\ Meaning(f) \in [Locations(Cfgs[f]) -> LocalStates]
       /\ Solves(Cfgs[f], Meaning(f))

VARIABLES
  fn,       \* the function analyzed
  states,   \* CfgAnalyzer.states
  visited,  \* CfgAnalyzer.visited
  queue,    \* next_blocks
  at,       \* the location about to be visited, Idle between two blocks
  prev,     \* prev_states: what is carried to it
  popped,   \* turns taken of the outer loop
  meaning,  \* auxiliary: Meaning(fn)
  cut       \* auxiliary: the circuit breaker stopped a block

vars == <<fn, states, visited, queue, at, prev, popped, meaning, cut>>

cfg == Cfgs[fn]
Idle == <<0, 0>>
Nothing == [x \in Locals |-> {}]
Limit == IterFactor * Len(cfg)
Done == at = Idle /\ (queue = << >> \/ popped = Limit)

Init ==
  /\ fn \in DOMAIN Cfgs /\ meaning = Meaning(fn)
  /\ states = [l \in Locations(cfg) |-> Nothing]
  /\ visited = [l \in Locations(cfg) |-> 0]
  /\ queue = IF cfg = << >> THEN << >>
             ELSE <<[block |-> 1, states |-> [x \in Locals |-> Start]]>>
  /\ at = Idle /\ prev = Nothing /\ popped = 0 /\ cut = FALSE

MayPop == popped < Limit
Pop ==
  /\ at = Idle /\ queue # << >> /\ MayPop
  /\ at' = <<Head(queue).block, 1>> /\ prev' = Head(queue).states
  /\ queue' = Tail(queue) /\ popped' = popped + 1
  /\ UNCHANGED <<fn, meaning, states, visited, cut>>

(* `continue 'outer`: the rest of the block is not walked.                 *)
Leave == at' = Idle /\ prev' = Nothing /\ UNCHANGED <<fn, meaning, states, visited, queue, popped>>

AtStatement == at # Idle /\ ~IsTerm(cfg, at)

CircuitBreak ==
  /\ AtStatement /\ VisitCap <= visited[at]
  /\ cut' = TRUE
  /\ Leave

Unchanged_Seen == visited[at] > 0     \* mutant: the states are not compared
Unchanged == visited[at] > 0 /\ states[at] = prev
SkipUnchanged ==
  /\ AtStatement /\ visited[at] < VisitCap /\ Unchanged
  /\ UNCHANGED cut
  /\ Leave

(* Join what is carried into the location, then apply its effect.          *)
Joined_Replace(x) == prev[x]     \* mutant: the last path to arrive wins
Joined(x) == states[at][x] \cup prev[x]
After == [x \in Locals |-> Flow(EffectAt(cfg, at), x, Joined(x))]
Visit ==
  /\ states' = [states EXCEPT ![at] = After]
  /\ visited' = [visited EXCEPT ![at] = @ + 1]
  /\ UNCHANGED <<fn, meaning, popped, cut>>

Carried_Stale == prev     \* mutant: prev_states is not renewed
Carried == After
VisitStatement ==
  /\ AtStatement /\ visited[at] < VisitCap /\ ~Unchanged
  /\ Visit
  /\ at' = Following(at) /\ prev' = Carried
  /\ UNCHANGED queue

(* A terminator is visited whatever was seen there before.                 *)
VisitTerminator ==
  /\ at # Idle /\ IsTerm(cfg, at)
  /\ Visit
  /\ at' = Idle /\ prev' = Nothing
  /\ LET succ == cfg[at[1]].succ IN
       queue' = queue \o [i \in DOMAIN succ |-> [block |-> succ[i], states |-> Carried]]

Next == Pop \/ CircuitBreak \/ SkipUnchanged \/ VisitStatement \/ VisitTerminator

Spec == Init /\ [][Next]_vars

-----------------------------------------------------------------------------
(* What the decorations are drawn from.                                    *)

DefinitelyLive(x, l) == states[l][x] = {"Initialized"}
MaybeInitialized(x, l) == "Initialized" \in states[l][x]

-----------------------------------------------------------------------------
(* Properties.                                                             *)

Entries == [block : DOMAIN cfg, states : LocalStates]     \* of the work list

\* Type correctness of the analyzer's state.
TypeOK ==
  /\ fn \in DOMAIN Cfgs /\ meaning = Meaning(fn)
  /\ states \in [Locations(cfg) -> LocalStates]
  /\ visited \in [Locations(cfg) -> Nat]
  /\ queue \in Seq(Entries)
  /\ at \in Locations(cfg) \cup {Idle} /\ prev \in LocalStates
  /\ popped \in 0 .. Limit /\ cut \in BOOLEAN

\* Whenever the walk stops, and whatever the cutoffs skipped, it has found no
\* state that the dataflow equations do not justify.
NothingInvented ==
  \A l \in Locations(cfg), x \in Locals : states[l][x] \subseteq meaning[l][x]

\* A walk no cutoff touched found everything: it ends at a solution of the
\* dataflow equations, though it compares states before and after a location's
\* own effect (304) and never looks at a terminator's.
CompleteIfUncut == Done /\ ~cut /\ queue = << >> => Solves(cfg, states)

\* "a fixpoint is reached well before either cutoff; the cutoffs only protect
\* against pathological inputs" (245-247).
CutoffsUnused == ~cut /\ (Done => queue = << >>)

\* A local is drawn as definitely live where "every path reaching the location
\* leaves the local in the initialized state" (348-350), Meaning being the
\* least solution.  The code does not keep this promise: eleven paths that
\* meet in one block open the circuit breaker (298).
DefinitelyLiveSound ==
  Done => \A l \in Locations(cfg), x \in Locals :
            DefinitelyLive(x, l) => meaning[l][x] = {"Initialized"}

\* It keeps it for the walks that neither cutoff has ended.
SoundIfUncut == CutoffsUnused => DefinitelyLiveSound
=============================================================================
