--------------------------- MODULE RustowlcProofs ---------------------------
(***************************************************************************)
(* Proofs about Rustowlc for any processes, functions and panics: types,   *)
(* that every function is printed, and that what a process that ran by     *)
(* itself has printed is found in the cache, unless a write went wrong.    *)
(***************************************************************************)
EXTENDS Rustowlc, FiniteSetTheorems, TLAPS

-----------------------------------------------------------------------------
(* Types.                                                                  *)

States == Resting \cup {"borrowck", "collect", "join", "open", "write"}
TaskStates == {"none", "running", "ready", "panicked", "joined", "lost"}
Maps == [Fns -> Ids \cup {0}]
Caches == {None} \cup {<<m>> : m \in Maps}
Prints == {<< >>} \cup {<<n>> : n \in Ids}
Contents == [len : 0 .. Cardinality(Fns) + 1, entries : Maps, torn : BOOLEAN]
Files == {None} \cup {<<c>> : c \in Contents}

TypeInv ==
  /\ pc \in [Procs -> States]
  /\ todo \in [Procs -> SUBSET Fns] /\ ids \in [Procs -> [Fns -> Ids]]
  /\ cache \in [Procs -> Caches]
  /\ tasks \in [Procs -> [Fns -> TaskStates]]
  /\ printed \in [Procs -> [Fns -> Prints]]
  /\ file \in Files
  /\ starts \in 0 .. MaxStarts /\ alone \subseteq Procs /\ spoiled \in BOOLEAN

\* A function has its task from the borrow check on, until it is printed or
\* its task panicked.
Unfinished == {"running", "ready", "panicked", "lost"}
FnOk(r, f) ==
  /\ f \in todo[r] => tasks[r][f] = "none" /\ printed[r][f] = << >>
  /\ tasks[r][f] \in Unfinished => printed[r][f] = << >>
  /\ f \notin todo[r] => printed[r][f] # << >> \/ tasks[r][f] \in Unfinished
FnInv == \A r \in Procs : \A f \in Fns : FnOk(r, f)

\* A process that writes has a cache, and has opened the file.
WriteInv == \A r \in Procs : pc[r] = "write" => cache[r] # None /\ file # None

LEMMA CacheIs ==
  ASSUME NEW c \in Caches, c # None
  PROVE  c[1] \in Maps /\ c = <<c[1]>>
<1>1. PICK m \in Maps : c = <<m>>  BY DEF Caches
<1>. QED BY <1>1

LEMMA FileIs ==
  ASSUME NEW c \in Files, c # None
  PROVE  c[1] \in Contents /\ c = <<c[1]>>
<1>1. PICK m \in Contents : c = <<m>>  BY DEF Files
<1>. QED BY <1>1

LEMMA NothingIs == Nothing \in Maps
BY DEF Nothing, Maps

\* A map has a text of at most one line for each function and one more.
LEMMA SizeIs ==
  ASSUME NEW m \in Maps
  PROVE  Size(m) \in 1 .. Cardinality(Fns) + 1 /\ Cardinality(Fns) \in Nat
<1>1. IsFiniteSet(Fns)  BY RustowlcAssumption
<1>2. Cached(m) \subseteq Fns  BY DEF Cached
<1>3. Cardinality(Cached(m)) <= Cardinality(Fns)  BY <1>1, <1>2, FS_Subset
<1>4. Cardinality(Cached(m)) \in Nat /\ Cardinality(Fns) \in Nat
  BY <1>1, <1>2, FS_Subset, FS_CardinalityType
<1>. QED BY <1>3, <1>4 DEF Size

LEMMA PrintIs ==
  ASSUME NEW n \in Ids
  PROVE  Append(<< >>, n) \in Prints /\ Append(<< >>, n) # << >>
<1>1. Append(<< >>, n) = <<n>>  OBVIOUS
<1>2. <<n>> # << >>  OBVIOUS
<1>. QED BY <1>1, <1>2 DEF Prints

\* The cache a process opens is a map, or none when the file is no JSON.
LEMMA OpenedIs ==
  ASSUME TypeInv, NEW p \in Procs
  PROVE  /\ Opened(p) \in Caches
         /\ cache[p] # None => Opened(p) = cache[p]
         /\ cache[p] = None /\ Opened(p) = None => file # None /\ ~Whole(file[1])
<1>1. cache[p] \in Caches /\ file \in Files  BY DEF TypeInv
<1>2. <<Nothing>> \in Caches /\ <<Nothing>> # None  BY NothingIs DEF Caches, None
<1>3. ASSUME file # None PROVE <<file[1].entries>> \in Caches /\ <<file[1].entries>> # None
  <2>1. file[1].entries \in Maps  BY <1>1, <1>3, FileIs DEF Contents
  <2>. QED BY <2>1 DEF Caches, None
<1>4. None \in Caches  BY DEF Caches
<1>. QED BY <1>1, <1>2, <1>3, <1>4 DEF Opened, GetCache

LEMMA InsertedIs ==
  ASSUME TypeInv, NEW p \in Procs, NEW f \in Fns
  PROVE  /\ Inserted(p, f) \in Caches
         /\ Inserted(p, f) = None <=> cache[p] = None
         /\ cache[p] # None =>
              /\ Inserted(p, f)[1][f] # 0
              /\ \A g \in Fns : cache[p][1][g] # 0 => Inserted(p, f)[1][g] # 0
<1>1. cache[p] \in Caches /\ ids[p][f] \in Ids  BY DEF TypeInv
<1>2. ids[p][f] # 0  BY <1>1, RustowlcAssumption
<1>3. CASE cache[p] = None
  BY <1>3 DEF Inserted, Caches
<1>4. CASE cache[p] # None
  <2> DEFINE m == cache[p][1]
             k == [m EXCEPT ![f] = ids[p][f]]
  <2>1. m \in Maps  BY <1>1, <1>4, CacheIs
  <2>2. k \in Maps  BY <1>1, <2>1 DEF Maps
  <2>3. k[f] # 0 /\ \A g \in Fns : m[g] # 0 => k[g] # 0  BY <1>2, <2>1 DEF Maps
  <2>4. Inserted(p, f) = <<k>>  BY <1>4 DEF Inserted
  <2> HIDE DEF k
  <2>5. <<k>> \in Caches /\ <<k>> # None /\ <<k>>[1] = k  BY <2>2 DEF Caches, None
  <2>. QED BY <1>4, <2>3, <2>4, <2>5
<1>. QED BY <1>3, <1>4

\* A step of one process leaves the state of the others alone.
Does(p) == Start(p) \/ Kill(p) \/ Step(p)
Writes(p) == WriteOpen(p) \/ OpenFails(p) \/ NoCache(p) \/ WriteAll(p) \/ WriteFails(p)

LEMMA OthersKeep ==
  ASSUME TypeInv, NEW p \in Procs, Does(p), NEW r \in Procs, r # p
  PROVE  /\ pc'[r] = pc[r] /\ todo'[r] = todo[r] /\ ids'[r] = ids[r]
         /\ cache'[r] = cache[r] /\ tasks'[r] = tasks[r] /\ printed'[r] = printed[r]
<1>. USE DEF TypeInv
<1>1. CASE Start(p) \/ AnalysisEnd(p)
  BY <1>1 DEF Start, AnalysisEnd, procVars
<1>6. CASE Kill(p)
  BY <1>6 DEF Kill, procVars
<1>7. CASE WriteOpen(p) \/ OpenFails(p) \/ NoCache(p)
  BY <1>7 DEF WriteOpen, OpenFails, NoCache, procVars
<1>8. CASE WriteAll(p) \/ WriteFails(p)
  BY <1>8 DEF WriteAll, WriteFails, procVars
<1>2. CASE Borrowck(p)
  BY <1>2 DEF Borrowck
<1>3. CASE TaskEnd(p)
  BY <1>3 DEF TaskEnd
<1>4. CASE Collect(p) \/ Join(p)
  BY <1>4 DEF Collect, Join, JoinOk
<1>5. CASE CollectEnd(p) \/ JoinEnd(p)
  BY <1>5 DEF CollectEnd, JoinEnd, JoinErr
<1>. QED BY <1>1, <1>2, <1>3, <1>4, <1>5, <1>6, <1>7, <1>8 DEF Does, Step

LEMMA InitType == Init => TypeInv /\ FnInv /\ WriteInv
<1> SUFFICES ASSUME Init PROVE TypeInv /\ FnInv /\ WriteInv  OBVIOUS
<1>1. NoMap \in [Fns -> Ids]
  <2>1. \E m \in IdMaps : TRUE  BY RustowlcAssumption DEF IdMaps
  <2>. QED BY <2>1 DEF NoMap, IdMaps
<1>2. None \in Caches /\ None \in Files /\ << >> \in Prints  BY DEF Caches, Files, Prints
<1>3. TypeInv
  <2>1. pc \in [Procs -> States]  BY DEF Init, States, Resting
  <2>2. todo \in [Procs -> SUBSET Fns] /\ ids \in [Procs -> [Fns -> Ids]]  BY <1>1 DEF Init
  <2>3. cache \in [Procs -> Caches] /\ printed \in [Procs -> [Fns -> Prints]]  BY <1>2 DEF Init
  <2>4. tasks \in [Procs -> [Fns -> TaskStates]]  BY DEF Init, TaskStates
  <2>5. file \in Files /\ alone \subseteq Procs /\ spoiled \in BOOLEAN  BY <1>2 DEF Init
  <2>6. MaxStarts \in Nat  BY RustowlcAssumption
  <2>7. starts \in 0 .. MaxStarts  BY <2>6 DEF Init
  <2>. QED BY <2>1, <2>2, <2>3, <2>4, <2>5, <2>7 DEF TypeInv
<1>4. FnInv  BY DEF Init, FnInv, FnOk, Unfinished
<1>5. WriteInv  BY DEF Init, WriteInv
<1>. QED BY <1>3, <1>4, <1>5

\* A borrow check prints the functions found in the cache opened, and starts
\* a task for the others.
LEMMA BorrowckStep ==
  ASSUME TypeInv, FnInv, NEW p \in Procs, Borrowck(p)
  PROVE  /\ TypeInv'
         /\ todo'[p] # Fns /\ cache'[p] = Opened(p)
         /\ \A f \in Fns : FnOk(p, f)'
         /\ \A f \in Fns : printed[p][f] = << >> /\ printed'[p][f] # << >>
                             => Opened(p) # None /\ Opened(p)[1][f] # 0
<1> DEFINE c == Opened(p)
<1>1. c \in Caches  BY OpenedIs
<1> HIDE DEF c
<1>2. PICK fs \in (SUBSET todo[p]) \ {{}} :
        /\ todo' = [todo EXCEPT ![p] = @ \ fs]
        /\ cache' = [cache EXCEPT ![p] = c]
        /\ printed' = [printed EXCEPT ![p] =
             [f \in Fns |-> IF f \in fs /\ Hit(c, f) THEN Append(@[f], c[1][f]) ELSE @[f]]]
        /\ tasks' = [tasks EXCEPT ![p] =
             [f \in Fns |-> IF f \in fs /\ ~Hit(c, f) THEN "running" ELSE @[f]]]
  BY DEF Borrowck, c
<1>3. /\ pc' = [pc EXCEPT ![p] = "collect"] /\ UNCHANGED <<ids, file, starts, alone, spoiled>>
  BY DEF Borrowck, runVars
<1>4. /\ todo \in [Procs -> SUBSET Fns] /\ cache \in [Procs -> Caches]
      /\ tasks \in [Procs -> [Fns -> TaskStates]] /\ printed \in [Procs -> [Fns -> Prints]]
      /\ pc \in [Procs -> States] /\ fs \subseteq todo[p] /\ fs # {}
  BY DEF TypeInv
<1>5. ASSUME NEW f \in Fns
      PROVE  /\ printed'[p][f] = IF f \in fs /\ Hit(c, f)
                                 THEN Append(printed[p][f], c[1][f]) ELSE printed[p][f]
             /\ tasks'[p][f] = IF f \in fs /\ ~Hit(c, f) THEN "running" ELSE tasks[p][f]
  BY <1>2, <1>4
<1>6. ASSUME NEW f \in Fns, f \in fs
      PROVE  /\ f \in todo[p] /\ tasks[p][f] = "none" /\ printed[p][f] = << >>
             /\ Hit(c, f) => printed'[p][f] \in Prints /\ printed'[p][f] # << >>
  <2>1. f \in todo[p] /\ tasks[p][f] = "none" /\ printed[p][f] = << >>
    BY <1>4, <1>6 DEF FnInv, FnOk
  <2>2. ASSUME Hit(c, f) PROVE printed'[p][f] \in Prints /\ printed'[p][f] # << >>
    <3>1. c # None /\ c[1][f] # 0  BY <2>2 DEF Hit
    <3>2. c[1][f] \in Ids  BY <1>1, <3>1, CacheIs DEF Maps
    <3>3. printed'[p][f] = Append(<< >>, c[1][f])  BY <1>5, <1>6, <2>1, <2>2
    <3>. QED BY <3>2, <3>3, PrintIs
  <2>. QED BY <2>1, <2>2
<1>7. TypeInv'
  <2>1. todo' \in [Procs -> SUBSET Fns]  BY <1>2, <1>4
  <2>2. cache' \in [Procs -> Caches]  BY <1>1, <1>2, <1>4
  <2>3. \A f \in Fns : printed'[p][f] \in Prints /\ tasks'[p][f] \in TaskStates
    BY <1>4, <1>5, <1>6 DEF TaskStates
  <2>4. tasks' \in [Procs -> [Fns -> TaskStates]]
    <3> DEFINE v == [f \in Fns |-> IF f \in fs /\ ~Hit(c, f) THEN "running" ELSE tasks[p][f]]
    <3>1. tasks' = [tasks EXCEPT ![p] = v]  BY <1>2
    <3>2. v \in [Fns -> TaskStates]  BY <1>4, <1>5, <2>3
    <3> HIDE DEF v
    <3>. QED BY <1>4, <3>1, <3>2
  <2>5. printed' \in [Procs -> [Fns -> Prints]]
    <3> DEFINE v == [f \in Fns |-> IF f \in fs /\ Hit(c, f)
                                   THEN Append(printed[p][f], c[1][f]) ELSE printed[p][f]]
    <3>1. printed' = [printed EXCEPT ![p] = v]  BY <1>2
    <3>2. v \in [Fns -> Prints]  BY <1>4, <1>5, <2>3
    <3> HIDE DEF v
    <3>. QED BY <1>4, <3>1, <3>2
  <2>6. pc' \in [Procs -> States]  BY <1>3, <1>4 DEF States, Resting
  <2>. QED BY <1>3, <2>1, <2>2, <2>4, <2>5, <2>6 DEF TypeInv
<1>8. ASSUME NEW f \in Fns PROVE FnOk(p, f)'
  <2>1. todo'[p] = todo[p] \ fs  BY <1>2, <1>4
  <2>2. FnOk(p, f)  BY DEF FnInv
  <2>3. CASE f \in fs /\ Hit(c, f)
    BY <1>5, <1>6, <2>1, <2>3 DEF FnOk, Unfinished
  <2>4. CASE f \in fs /\ ~Hit(c, f)
    BY <1>5, <1>6, <2>1, <2>4 DEF FnOk, Unfinished
  <2>5. CASE f \notin fs
    BY <1>5, <2>1, <2>2, <2>5 DEF FnOk, Unfinished
  <2>. QED BY <2>3, <2>4, <2>5
<1>9. \A f \in Fns : printed[p][f] = << >> /\ printed'[p][f] # << >> => c # None /\ c[1][f] # 0
  BY <1>5 DEF Hit
<1>10. todo'[p] # Fns /\ cache'[p] = c  BY <1>2, <1>4
<1>. QED BY <1>7, <1>8, <1>9, <1>10 DEF c

\* A finished task is printed, and inserted in the cache if there is one.
LEMMA JoinStep ==
  ASSUME TypeInv, FnInv, NEW p \in Procs, NEW f \in Fns, JoinOk(p, f),
         UNCHANGED <<pc, todo, ids, file, starts, alone, spoiled>>
  PROVE  /\ TypeInv' /\ cache'[p] = Inserted(p, f)
         /\ \A g \in Fns : FnOk(p, g)'
         /\ \A g \in Fns : g # f => printed'[p][g] = printed[p][g]
<1>1. /\ tasks[p][f] = "ready"
      /\ tasks' = [tasks EXCEPT ![p] = [tasks[p] EXCEPT ![f] = "joined"]]
      /\ cache' = [cache EXCEPT ![p] = Inserted(p, f)]
      /\ printed' = [printed EXCEPT ![p][f] = Append(@, ids[p][f])]
  BY DEF JoinOk, Joined
<1>2. /\ cache \in [Procs -> Caches] /\ ids[p][f] \in Ids
      /\ tasks \in [Procs -> [Fns -> TaskStates]] /\ printed \in [Procs -> [Fns -> Prints]]
  BY DEF TypeInv
<1>3. printed[p][f] = << >> /\ f \notin todo[p]
  BY <1>1 DEF FnInv, FnOk, Unfinished
<1>4. printed'[p][f] \in Prints /\ printed'[p][f] # << >>
  <2>1. printed'[p][f] = Append(<< >>, ids[p][f])  BY <1>1, <1>2, <1>3
  <2>. QED BY <1>2, <2>1, PrintIs
<1>5. ASSUME NEW g \in Fns, g # f
      PROVE  printed'[p][g] = printed[p][g] /\ tasks'[p][g] = tasks[p][g]
  BY <1>1, <1>2, <1>5
<1>6. tasks'[p][f] = "joined"  BY <1>1, <1>2
<1>7. cache'[p] = Inserted(p, f) /\ cache' \in [Procs -> Caches]
  BY <1>1, <1>2, InsertedIs
<1>8. tasks' \in [Procs -> [Fns -> TaskStates]]
  BY <1>1, <1>2 DEF TaskStates
<1>9. printed' \in [Procs -> [Fns -> Prints]]
  <2> DEFINE s == Append(printed[p][f], ids[p][f])
  <2>1. s \in Prints  BY <1>2, <1>3, PrintIs
  <2>2. printed' = [printed EXCEPT ![p][f] = s]  BY <1>1, <1>2
  <2> HIDE DEF s
  <2>. QED BY <1>2, <2>1, <2>2
<1>10. TypeInv'  BY <1>7, <1>8, <1>9 DEF TypeInv
<1>11. ASSUME NEW g \in Fns PROVE FnOk(p, g)'
  <2>1. FnOk(p, g) /\ todo' = todo  BY DEF FnInv
  <2>. QED BY <1>3, <1>4, <1>5, <1>6, <2>1 DEF FnOk, Unfinished
<1>. QED BY <1>5, <1>7, <1>10, <1>11

\* A write that stops leaves a file.
LEMMA StopsIs ==
  ASSUME TypeInv, WriteInv, NEW p \in Procs, WriteStops(p)
  PROVE  file' \in Files /\ file' # None /\ spoiled' = TRUE
<1>1. PICK c \in CutShort(p) : file' = <<c>>  BY DEF WriteStops
<1>2. cache[p] # None /\ file # None /\ cache[p] \in Caches /\ file \in Files
  BY DEF WriteStops, WriteInv, TypeInv
<1>3. cache[p][1] \in Maps /\ file[1] \in Contents  BY <1>2, CacheIs, FileIs
<1>4. Size(cache[p][1]) \in 1 .. Cardinality(Fns) + 1 /\ Cardinality(Fns) \in Nat
  BY <1>3, SizeIs
<1>5. c \in Contents
  <2>1. CASE c = file[1]  BY <1>3, <2>1
  <2>2. ASSUME NEW k \in 1 .. Size(cache[p][1]) - 1,
               c = [file[1] EXCEPT !.len = Longer(@, k), !.torn = TRUE]
        PROVE  c \in Contents
    <3>1. Longer(file[1].len, k) \in 0 .. Cardinality(Fns) + 1
      BY <1>3, <1>4 DEF Contents, Longer
    <3>2. c = [len |-> Longer(file[1].len, k), entries |-> file[1].entries, torn |-> TRUE]
      BY <1>3, <2>2 DEF Contents
    <3>. QED BY <1>3, <3>1, <3>2 DEF Contents
  <2>. QED BY <1>1, <2>1, <2>2 DEF CutShort
<1>. QED BY <1>1, <1>5 DEF Files, None, WriteStops

LEMMA NextType == TypeInv /\ FnInv /\ WriteInv /\ [Next]_vars => TypeInv' /\ FnInv'
<1> SUFFICES ASSUME TypeInv, FnInv, WriteInv, [Next]_vars PROVE TypeInv' /\ FnInv'  OBVIOUS
<1>1. ASSUME NEW p \in Procs, Does(p) PROVE TypeInv' /\ \A f \in Fns : FnOk(p, f)'
  <2>1. \A f \in Fns : FnOk(p, f)  BY DEF FnInv
  <2>2. CASE Start(p)
    <3>1. TypeInv'
      <4>1. \A m \in IdMaps : m \in [Fns -> Ids]  BY DEF IdMaps
      <4>2. None \in Caches /\ << >> \in Prints  BY DEF Caches, Prints
      <4>3. [f \in Fns |-> "none"] \in [Fns -> TaskStates]  BY DEF TaskStates
      <4>4. [f \in Fns |-> << >>] \in [Fns -> Prints]  BY <4>2
      <4>5. /\ pc' = [pc EXCEPT ![p] = "borrowck"] /\ starts' = starts + 1 /\ starts < MaxStarts
            /\ \E m \in [Fns -> Ids] : ids' = [ids EXCEPT ![p] = m]
            /\ todo' = [todo EXCEPT ![p] = Fns] /\ cache' = [cache EXCEPT ![p] = None]
            /\ tasks' = [tasks EXCEPT ![p] = [f \in Fns |-> "none"]]
            /\ printed' = [printed EXCEPT ![p] = [f \in Fns |-> << >>]]
            /\ file' = file /\ alone' \subseteq Procs /\ spoiled' = spoiled
        BY <2>2, <4>1 DEF Start
      <4>6. pc' \in [Procs -> States] /\ starts' \in 0 .. MaxStarts
        BY <4>5, RustowlcAssumption DEF TypeInv, States, Resting
      <4>7. ids' \in [Procs -> [Fns -> Ids]] /\ todo' \in [Procs -> SUBSET Fns]
        BY <4>5 DEF TypeInv
      <4>8. cache' \in [Procs -> Caches]  BY <4>2, <4>5 DEF TypeInv
      <4>9. tasks' \in [Procs -> [Fns -> TaskStates]]  BY <4>3, <4>5 DEF TypeInv
      <4>10. printed' \in [Procs -> [Fns -> Prints]]  BY <4>4, <4>5 DEF TypeInv
      <4>. QED BY <4>5, <4>6, <4>7, <4>8, <4>9, <4>10 DEF TypeInv
    <3>2. todo'[p] = Fns /\ \A f \in Fns : tasks'[p][f] = "none" /\ printed'[p][f] = << >>
      BY <2>2 DEF Start, TypeInv
    <3>. QED BY <3>1, <3>2 DEF FnOk, Unfinished
  <2>3. CASE Kill(p) \/ AnalysisEnd(p)
    <3>1. UNCHANGED <<todo, ids, cache, tasks, printed, starts, alone>>
          /\ \E s \in {"killed", "join"} : pc' = [pc EXCEPT ![p] = s]
      BY <2>3 DEF Kill, AnalysisEnd, procVars, runVars
    <3>2. file' \in Files /\ spoiled' \in BOOLEAN
      <4>1. CASE WriteStops(p)  BY <4>1, StopsIs
      <4>2. CASE UNCHANGED <<file, spoiled>>  BY <4>2 DEF TypeInv
      <4>. QED BY <2>3, <4>1, <4>2 DEF Kill, AnalysisEnd
    <3>3. TypeInv'  BY <3>1, <3>2 DEF TypeInv, States, Resting
    <3>. QED BY <2>1, <3>1, <3>3 DEF FnOk
  <2>4. CASE Borrowck(p)  BY <2>4, BorrowckStep
  <2>5. CASE TaskEnd(p)
    <3>1. PICK f \in Fns :
            /\ tasks[p][f] = "running"
            /\ \E e \in {"ready", "panicked"} : tasks' = [tasks EXCEPT ![p][f] = e]
      BY <2>5 DEF TaskEnd
    <3>2. UNCHANGED <<pc, todo, ids, cache, printed, file, starts, alone, spoiled>>
      BY <2>5 DEF TaskEnd, runVars
    <3>3. TypeInv'  BY <3>1, <3>2 DEF TypeInv, TaskStates
    <3>4. \A g \in Fns : g # f => tasks'[p][g] = tasks[p][g]  BY <3>1 DEF TypeInv
    <3>5. tasks'[p][f] \in {"ready", "panicked"}  BY <3>1 DEF TypeInv
    <3>. QED BY <2>1, <3>1, <3>2, <3>3, <3>4, <3>5 DEF FnOk, Unfinished
  <2>6. CASE Collect(p) \/ Join(p)
    <3>1. UNCHANGED <<pc, todo, ids, file, starts, alone, spoiled>> /\ \E f \in Fns : JoinOk(p, f)
      BY <2>6 DEF Collect, Join, runVars
    <3>. QED BY <3>1, JoinStep
  <2>7. CASE CollectEnd(p) \/ JoinEnd(p)
    <3>1. /\ UNCHANGED <<todo, ids, cache, printed, file, starts, alone, spoiled>>
          /\ \E s \in {"borrowck", "open"} : pc' = [pc EXCEPT ![p] = s]
      BY <2>7 DEF CollectEnd, JoinEnd, JoinErr, runVars
    <3>2. \/ tasks' = tasks
          \/ \E f \in Fns : tasks[p][f] = "panicked" /\ tasks' = [tasks EXCEPT ![p][f] = "lost"]
      BY <2>7 DEF CollectEnd, JoinEnd, JoinErr
    <3>3. TypeInv'
      <4>1. pc' \in [Procs -> States]  BY <3>1 DEF TypeInv, States, Resting
      <4>2. tasks' \in [Procs -> [Fns -> TaskStates]]
        <5>1. "lost" \in TaskStates  BY DEF TaskStates
        <5>2. tasks \in [Procs -> [Fns -> TaskStates]]  BY DEF TypeInv
        <5>3. ASSUME NEW f \in Fns, tasks' = [tasks EXCEPT ![p][f] = "lost"]
              PROVE  tasks' \in [Procs -> [Fns -> TaskStates]]
          BY <5>1, <5>2, <5>3
        <5>. QED BY <3>2, <5>2, <5>3
      <4>. QED BY <3>1, <4>1, <4>2 DEF TypeInv
    <3>4. \A g \in Fns : \/ tasks'[p][g] = tasks[p][g]
                         \/ tasks[p][g] = "panicked" /\ tasks'[p][g] = "lost"
      BY <3>2 DEF TypeInv
    <3>. QED BY <2>1, <3>1, <3>3, <3>4 DEF FnOk, Unfinished
  <2>8. CASE Writes(p)
    <3>1. /\ UNCHANGED <<procVars, runVars>>
          /\ \E s \in {"exited", "unsaved", "write"} : pc' = [pc EXCEPT ![p] = s]
      BY <2>8 DEF Writes, WriteOpen, OpenFails, NoCache, WriteAll, WriteFails
    <3>2. file' \in Files /\ spoiled' \in BOOLEAN
      <4>1. CASE WriteOpen(p)
        <5>1. Empty \in Contents  BY NothingIs, SizeIs DEF Empty, Contents
        <5>. QED BY <4>1, <5>1 DEF WriteOpen, Files, TypeInv
      <4>2. CASE WriteAll(p)
        <5>1. cache[p] # None /\ file # None /\ cache[p] \in Caches /\ file \in Files
          BY <4>2 DEF WriteAll, WriteInv, TypeInv
        <5>2. cache[p][1] \in Maps /\ file[1] \in Contents  BY <5>1, CacheIs, FileIs
        <5>3. Written(p) \in Contents
          BY <5>2, SizeIs DEF Written, Longer, Contents
        <5>. QED BY <4>2, <5>3 DEF WriteAll, Files, TypeInv
      <4>3. CASE WriteFails(p)
        BY <4>3, StopsIs DEF WriteFails
      <4>4. CASE OpenFails(p) \/ NoCache(p)
        BY <4>4 DEF OpenFails, NoCache, TypeInv
      <4>. QED BY <2>8, <4>1, <4>2, <4>3, <4>4 DEF Writes
    <3>3. TypeInv'  BY <3>1, <3>2 DEF TypeInv, States, Resting, procVars, runVars
    <3>. QED BY <2>1, <3>1, <3>3 DEF FnOk, procVars
  <2>. QED BY <1>1, <2>2, <2>3, <2>4, <2>5, <2>6, <2>7, <2>8 DEF Does, Step, Writes
<1>2. CASE \E p \in Procs : Does(p)
  <2>1. PICK p \in Procs : Does(p)  BY <1>2
  <2>2. ASSUME NEW r \in Procs, NEW f \in Fns PROVE FnOk(r, f)'
    <3>1. CASE r = p  BY <1>1, <2>1, <3>1
    <3>2. CASE r # p
      BY <2>1, <3>2, OthersKeep DEF FnInv, FnOk
    <3>. QED BY <3>1, <3>2
  <2>. QED BY <1>1, <2>1, <2>2 DEF FnInv
<1>3. CASE UNCHANGED vars
  BY <1>3 DEF vars, procVars, runVars, TypeInv, FnInv, FnOk
<1>. QED BY <1>2, <1>3 DEF Next, Does

LEMMA NextWrite == TypeInv /\ WriteInv /\ [Next]_vars => WriteInv'
<1> SUFFICES ASSUME TypeInv, WriteInv, [Next]_vars PROVE WriteInv'  OBVIOUS
<1>1. CASE \E p \in Procs : Does(p)
  <2>1. PICK p \in Procs : Does(p)  BY <1>1
  <2>2. file # None => file' # None
    BY <2>1 DEF WriteStops, Does, Step, Start, Kill, Borrowck, TaskEnd, Collect, CollectEnd, AnalysisEnd,
         Join, JoinEnd, WriteOpen, OpenFails, NoCache, WriteAll, WriteFails, None
  <2>3. pc'[p] = "write" => WriteOpen(p) \/ (pc[p] = "write" /\ cache' = cache)
    BY <2>1 DEF Does, Step, Start, Kill, Borrowck, TaskEnd, Collect, CollectEnd, AnalysisEnd,
         Join, JoinEnd, WriteOpen, OpenFails, NoCache, WriteAll, WriteFails, TypeInv, JoinOk, JoinErr
  <2>4. ASSUME pc'[p] = "write" PROVE cache'[p] # None /\ file' # None
    <3>1. CASE WriteOpen(p)
      BY <3>1 DEF WriteOpen, procVars, None
    <3>2. CASE pc[p] = "write" /\ cache' = cache
      BY <2>2, <3>2 DEF WriteInv
    <3>. QED BY <2>3, <2>4, <3>1, <3>2
  <2>5. ASSUME NEW r \in Procs, pc'[r] = "write" PROVE cache'[r] # None /\ file' # None
    <3>1. CASE r = p  BY <2>4, <2>5, <3>1
    <3>2. CASE r # p  BY <2>1, <2>2, <2>5, <3>2, OthersKeep DEF WriteInv
    <3>. QED BY <3>1, <3>2
  <2>. QED BY <2>5 DEF WriteInv
<1>2. CASE UNCHANGED vars
  BY <1>2 DEF vars, procVars, WriteInv
<1>. QED BY <1>1, <1>2 DEF Next, Does

\* Processes, tasks and the cache stay what the code may find them to be
\* (src/src/bin/core/mod.rs, cache.rs).
THEOREM TypeCorrect == Spec => []TypeOK
<1>1. TypeInv => TypeOK
  <2> SUFFICES ASSUME TypeInv PROVE TypeOK  OBVIOUS
  <2>1. \A p \in Procs : cache[p] = None \/ cache[p][1] \in [Fns -> Ids \cup {0}]
    BY CacheIs DEF TypeInv, Maps
  <2>2. \A p \in Procs : \A f \in Fns : printed[p][f] = << >> \/ \E n \in Ids : printed[p][f] = <<n>>
    BY DEF TypeInv, Prints
  <2>3. \/ file = None
        \/ /\ file[1].len \in 0 .. Cardinality(Fns) + 1
           /\ file[1].entries \in [Fns -> Ids \cup {0}] /\ file[1].torn \in BOOLEAN
    BY FileIs DEF TypeInv, Contents, Maps
  <2>. QED BY <2>1, <2>2, <2>3 DEF TypeInv, TypeOK, States, Resting, TaskStates
<1>. QED BY <1>1, InitType, NextType, NextWrite, PTL DEF Spec

-----------------------------------------------------------------------------
(* Every function is printed.                                              *)

\* A process that has joined its tasks has none left, or has lost one.
LeftInv == \A r \in Procs : Ended(r) => Left(r) = {} \/ \E f \in Fns : tasks[r][f] = "lost"

LEMMA NextLeft == TypeInv /\ LeftInv /\ [Next]_vars => LeftInv'
<1> SUFFICES ASSUME TypeInv, LeftInv, [Next]_vars PROVE LeftInv'  OBVIOUS
<1>1. ASSUME NEW p \in Procs, Does(p), Ended(p)'
      PROVE  Left(p)' = {} \/ \E f \in Fns : tasks'[p][f] = "lost"
  <2>1. CASE JoinEnd(p)
    <3>1. CASE NothingToJoin(p) /\ tasks' = tasks
      BY <3>1 DEF NothingToJoin, Left
    <3>2. CASE \E f \in Fns : JoinErr(p, f)
      BY <3>2 DEF JoinErr, TypeInv
    <3>. QED BY <2>1, <3>1, <3>2 DEF JoinEnd
  <2>2. CASE TaskEnd(p)
    <3>1. PICK f \in Fns : tasks[p][f] = "running"
            /\ \E e \in {"ready", "panicked"} : tasks' = [tasks EXCEPT ![p][f] = e]
      BY <2>2 DEF TaskEnd
    <3>2. Ended(p)  BY <1>1, <2>2 DEF TaskEnd, Ended
    <3>3. f \in Left(p)  BY <3>1 DEF Left
    <3>4. PICK g \in Fns : tasks[p][g] = "lost"  BY <3>2, <3>3 DEF LeftInv
    <3>5. tasks'[p][g] = "lost"  BY <3>1, <3>4 DEF TypeInv
    <3>. QED BY <3>5
  <2>3. CASE Writes(p)
    <3>1. Ended(p) /\ tasks' = tasks
      BY <2>3 DEF Writes, WriteOpen, OpenFails, NoCache, WriteAll, WriteFails, WriteStops, Ended, procVars
    <3>. QED BY <3>1 DEF LeftInv, Left
  <2>4. CASE Start(p) \/ Kill(p) \/ Borrowck(p) \/ Collect(p) \/ CollectEnd(p) \/ AnalysisEnd(p) \/ Join(p)
    <3>1. pc'[p] \in {"borrowck", "collect", "join", "killed"}
      BY <2>4 DEF Start, Kill, Borrowck, Collect, CollectEnd, AnalysisEnd, Join, TypeInv
    <3>. QED BY <1>1, <3>1 DEF Ended
  <2>. QED BY <1>1, <2>1, <2>2, <2>3, <2>4 DEF Does, Step, Writes
<1>2. CASE \E p \in Procs : Does(p)
  <2>1. PICK p \in Procs : Does(p)  BY <1>2
  <2>2. ASSUME NEW r \in Procs, Ended(r)'
        PROVE  Left(r)' = {} \/ \E f \in Fns : tasks'[r][f] = "lost"
    <3>1. CASE r = p  BY <1>1, <2>1, <2>2, <3>1
    <3>2. CASE r # p
      <4>1. tasks'[r] = tasks[r] /\ pc'[r] = pc[r]  BY <2>1, <3>2, OthersKeep
      <4>. QED BY <2>2, <4>1 DEF LeftInv, Left, Ended
    <3>. QED BY <3>1, <3>2
  <2>. QED BY <2>2 DEF LeftInv
<1>3. CASE UNCHANGED vars
  BY <1>3 DEF vars, procVars, LeftInv, Left, Ended
<1>. QED BY <1>2, <1>3 DEF Next, Does

\* When a process ends without a panic, every function borrow checked has
\* been printed (src/src/bin/core/mod.rs:81-84, 113-116).
THEOREM EveryFunctionIsPrinted == Spec => []EveryFunctionPrinted
<1>1. Init => LeftInv  BY DEF Init, LeftInv, Ended
<1>2. TypeInv /\ FnInv /\ LeftInv => EveryFunctionPrinted
  <2> SUFFICES ASSUME TypeInv, FnInv, LeftInv, NEW p \in Procs, Ended(p),
                      \A f \in Fns : tasks[p][f] \notin {"panicked", "lost"},
                      NEW f \in Fns \ todo[p]
               PROVE  printed[p][f] # << >>
    BY DEF EveryFunctionPrinted
  <2>1. Left(p) = {}  BY DEF LeftInv
  <2>2. tasks[p][f] \notin Unfinished  BY <2>1 DEF Left, Unfinished
  <2>. QED BY <2>2 DEF FnInv, FnOk
<1>. QED BY <1>1, <1>2, InitType, NextType, NextWrite, NextLeft, PTL DEF Spec

-----------------------------------------------------------------------------
(* What was printed is found in the cache file.                            *)

\* While a process runs by itself all others rest.
AloneInv == \A r \in alone : \A q \in Procs \ {r} : pc[q] \in Resting

\* As long as no write went wrong one process writes at a time, into a file
\* it has emptied, and otherwise the file, if there is one, can be read.
Good == file = None \/ Whole(file[1])
FileInv ==
  ~spoiled =>
    /\ \A r \in Procs : pc[r] = "write" =>
         /\ file = <<Empty>>
         /\ \A q \in Procs \ {r} : pc[q] # "write"
    /\ (\A r \in Procs : pc[r] # "write") => Good

\* A process that runs by itself then has a cache as soon as it needs one,
\* what it prints is there, and it leaves it in the file.
Kept(r) == cache[r] # None => \A f \in Fns : printed[r][f] # << >> => cache[r][1][f] # 0
Stored(r) == Good /\ file # None /\ file[1].entries = cache[r][1]
CacheOk(r) ==
  /\ Kept(r)
  /\ cache[r] = None => todo[r] = Fns
  /\ pc[r] = "exited" /\ cache[r] # None => Stored(r)
CacheInv == ~spoiled => \A r \in alone : CacheOk(r)

\* A step of a process at rest is its start; those of others leave rest alone.
LEMMA ActiveSteps ==
  ASSUME TypeInv, NEW p \in Procs, Does(p), ~Start(p)
  PROVE  pc[p] \notin Resting /\ alone' = alone
BY DEF Does, Step, Kill, Borrowck, TaskEnd, Collect, CollectEnd, AnalysisEnd, Join, JoinEnd, WriteOpen,
       OpenFails, NoCache, WriteAll, WriteFails, WriteStops, runVars, Resting

LEMMA NextAlone == TypeInv /\ AloneInv /\ [Next]_vars => AloneInv'
<1> SUFFICES ASSUME TypeInv, AloneInv, [Next]_vars PROVE AloneInv'  OBVIOUS
<1>1. CASE \E p \in Procs : Does(p)
  <2>1. PICK p \in Procs : Does(p)  BY <1>1
  <2>2. \A q \in Procs \ {p} : pc'[q] = pc[q]  BY <2>1, OthersKeep
  <2>3. CASE Start(p)  BY <2>2, <2>3 DEF Start, AloneInv
  <2>4. CASE ~Start(p)
    <3>1. pc[p] \notin Resting /\ alone' = alone  BY <2>1, <2>4, ActiveSteps
    <3>2. \A r \in alone : r = p  BY <3>1 DEF AloneInv
    <3>. QED BY <2>2, <3>1, <3>2 DEF AloneInv
  <2>. QED BY <2>3, <2>4
<1>2. CASE UNCHANGED vars
  BY <1>2 DEF vars, runVars, AloneInv
<1>. QED BY <1>1, <1>2 DEF Next, Does

\* A text written into an emptied file is whole.
LEMMA WrittenWhole ==
  ASSUME TypeInv, WriteInv, NEW p \in Procs, WriteAll(p), file = <<Empty>>
  PROVE  /\ file' # None /\ Whole(file'[1]) /\ file'[1].entries = cache[p][1]
         /\ pc'[p] = "exited" /\ UNCHANGED <<todo, cache, printed, alone, spoiled>>
<1>1. cache[p] # None /\ cache[p] \in Caches  BY DEF WriteAll, WriteInv, TypeInv
<1>2. Size(cache[p][1]) \in 1 .. Cardinality(Fns) + 1 /\ Cardinality(Fns) \in Nat
  BY <1>1, CacheIs, SizeIs
<1>3. file[1].len = 0  BY DEF Empty
<1>4. Written(p) = [len |-> Size(cache[p][1]), entries |-> cache[p][1], torn |-> FALSE]
  <2>1. Longer(0, Size(cache[p][1])) = Size(cache[p][1])  BY <1>2 DEF Longer
  <2>. QED BY <1>3, <2>1 DEF Written
<1>5. file' = <<[len |-> Size(cache[p][1]), entries |-> cache[p][1], torn |-> FALSE]>>
  BY <1>4 DEF WriteAll
<1>. QED BY <1>5 DEF WriteAll, Whole, None, TypeInv, procVars, runVars

LEMMA NextFile ==
  TypeInv /\ WriteInv /\ FileInv /\ [Next]_vars => FileInv'
<1> SUFFICES ASSUME TypeInv, WriteInv, FileInv, [Next]_vars, ~spoiled' PROVE FileInv'
  BY DEF FileInv
<1>1. CASE \E p \in Procs : Does(p)
  <2>1. PICK p \in Procs : Does(p)  BY <1>1
  <2>2. \A q \in Procs \ {p} : pc'[q] = pc[q]  BY <2>1, OthersKeep
  <2>3. CASE WriteOpen(p)
    <3>1. ~spoiled /\ \A q \in Procs \ {p} : pc[q] # "write"  BY <2>3 DEF WriteOpen
    <3>2. file' = <<Empty>> /\ pc'[p] = "write"  BY <2>3 DEF WriteOpen, TypeInv
    <3>. QED BY <2>2, <3>1, <3>2 DEF FileInv
  <2>4. CASE WriteAll(p)
    <3>1. ~spoiled /\ pc[p] = "write"  BY <2>4 DEF WriteAll
    <3>2. file = <<Empty>> /\ \A q \in Procs \ {p} : pc[q] # "write"  BY <3>1 DEF FileInv
    <3>3. Good' /\ pc'[p] = "exited"  BY <2>4, <3>2, WrittenWhole DEF Good
    <3>. QED BY <2>2, <3>2, <3>3 DEF FileInv
  <2>5. CASE WriteStops(p)  BY <2>5 DEF WriteStops
  <2>6. CASE TaskEnd(p)
    <3>1. UNCHANGED <<pc, file, spoiled>>  BY <2>6 DEF TaskEnd
    <3>. QED BY <3>1 DEF FileInv, Good
  <2>7. CASE ~WriteOpen(p) /\ ~WriteAll(p) /\ ~WriteStops(p) /\ ~TaskEnd(p)
    <3>1. UNCHANGED <<file, spoiled>> /\ pc[p] # "write" /\ pc'[p] # "write"
      BY <2>1, <2>7 DEF Does, Step, Start, Kill, Borrowck, Collect, CollectEnd, AnalysisEnd, Join, JoinEnd,
           OpenFails, NoCache, WriteFails, JoinOk, TypeInv, Resting
    <3>. QED BY <2>2, <3>1 DEF FileInv, Good
  <2>. QED BY <2>3, <2>4, <2>5, <2>6, <2>7
<1>2. CASE UNCHANGED vars
  BY <1>2 DEF vars, FileInv, Good
<1>. QED BY <1>1, <1>2 DEF Next, Does

LEMMA NextCache ==
  TypeInv /\ FnInv /\ WriteInv /\ AloneInv /\ FileInv /\ CacheInv /\ [Next]_vars => CacheInv'
<1> SUFFICES ASSUME TypeInv, FnInv, WriteInv, AloneInv, FileInv, CacheInv, [Next]_vars, ~spoiled',
                    NEW p \in alone'
             PROVE  CacheOk(p)'
  BY DEF CacheInv
<1>1. spoiled => spoiled'
  <2>1. CASE \E q \in Procs : Kill(q)
    BY <2>1 DEF Kill, WriteStops
  <2>2. CASE \E q \in Procs : WriteOpen(q) \/ WriteFails(q)
    BY <2>2 DEF WriteOpen, WriteFails, WriteStops
  <2>3. CASE \E q \in Procs : Start(q) \/ Borrowck(q) \/ TaskEnd(q) \/ Collect(q) \/ CollectEnd(q)
    BY <2>3 DEF Start, Borrowck, TaskEnd, Collect, CollectEnd
  <2>4. CASE \E q \in Procs : AnalysisEnd(q) \/ Join(q) \/ JoinEnd(q) \/ OpenFails(q) \/ NoCache(q) \/ WriteAll(q)
    BY <2>4 DEF AnalysisEnd, Join, JoinEnd, OpenFails, NoCache, WriteAll
  <2>5. CASE UNCHANGED vars
    BY <2>5 DEF vars
  <2>. QED BY <2>1, <2>2, <2>3, <2>4, <2>5 DEF Next, Step
<1>2. ~spoiled  BY <1>1
<1>3. ASSUME NEW q \in Procs, Does(q), ~Start(q) PROVE q = p /\ p \in alone
  BY <1>3, ActiveSteps DEF AloneInv
<1>4. ASSUME NEW q \in Procs, Start(q) PROVE CacheOk(p)'
  <2>1. p = q  BY <1>4 DEF Start
  <2>2. pc'[p] = "borrowck" /\ cache'[p] = None /\ todo'[p] = Fns
    BY <1>4, <2>1 DEF Start, TypeInv
  <2>. QED BY <2>2 DEF CacheOk, Kept
<1>5. ASSUME p \in Procs, Does(p), ~Start(p), CacheOk(p) PROVE CacheOk(p)'
  <2>1. CASE Kill(p) \/ WriteFails(p) \/ OpenFails(p) \/ WriteOpen(p)
    <3>1. pc'[p] # "exited" /\ UNCHANGED <<cache, printed, todo>>
      BY <1>5, <2>1 DEF Kill, WriteFails, OpenFails, WriteOpen, TypeInv, procVars
    <3>. QED BY <1>5, <3>1 DEF CacheOk, Kept
  <2>2. CASE NoCache(p)
    <3>1. cache[p] = None /\ UNCHANGED <<cache, printed, todo>>
      BY <2>2 DEF NoCache, procVars
    <3>. QED BY <1>5, <3>1 DEF CacheOk, Kept
  <2>3. CASE Borrowck(p)
    <3>1. pc'[p] = "collect" /\ pc[p] = "borrowck"
      BY <1>5, <2>3 DEF Borrowck, TypeInv
    <3>2. /\ cache'[p] = Opened(p)
          /\ \A f \in Fns : printed[p][f] = << >> /\ printed'[p][f] # << >>
                              => Opened(p) # None /\ Opened(p)[1][f] # 0
      BY <1>5, <2>3, BorrowckStep
    <3>3. /\ cache[p] # None => Opened(p) = cache[p]
          /\ cache[p] = None /\ Opened(p) = None => file # None /\ ~Whole(file[1])
      BY <1>5, OpenedIs
    <3>4. Good
      <4>1. p \in alone  BY <1>3, <1>5
      <4>2. \A q \in Procs : pc[q] # "write"  BY <3>1, <4>1 DEF AloneInv, Resting
      <4>. QED BY <1>2, <4>2 DEF FileInv
    <3>5. Opened(p) # None  BY <3>3, <3>4 DEF Good
    <3>6. Kept(p)'
      <4> SUFFICES ASSUME NEW f \in Fns, printed'[p][f] # << >>
                   PROVE  Opened(p)[1][f] # 0
        BY <3>2 DEF Kept
      <4>1. CASE printed[p][f] = << >>  BY <3>2, <4>1
      <4>2. CASE printed[p][f] # << >>
        <5>1. f \notin todo[p]  BY <1>5, <4>2 DEF FnInv, FnOk
        <5>2. cache[p] # None  BY <1>5, <5>1 DEF CacheOk
        <5>. QED BY <1>5, <3>3, <4>2, <5>2 DEF CacheOk, Kept
      <4>. QED BY <4>1, <4>2
    <3>. QED BY <3>1, <3>2, <3>5, <3>6 DEF CacheOk
  <2>4. CASE TaskEnd(p)
    <3>1. UNCHANGED <<pc, cache, printed, todo, file>> /\ pc[p] # "exited"
      BY <2>4 DEF TaskEnd, Resting
    <3>. QED BY <1>5, <3>1 DEF CacheOk, Kept
  <2>5. CASE Collect(p) \/ Join(p)
    <3>1. PICK f \in Fns : JoinOk(p, f)  BY <2>5 DEF Collect, Join
    <3>2. UNCHANGED <<pc, todo, ids, file, starts, alone, spoiled>>  BY <2>5 DEF Collect, Join, runVars
    <3>3. /\ cache'[p] = Inserted(p, f)
          /\ \A g \in Fns : g # f => printed'[p][g] = printed[p][g]
      BY <1>5, <3>1, <3>2, JoinStep
    <3>4. /\ Inserted(p, f) = None <=> cache[p] = None
          /\ cache[p] # None =>
               /\ Inserted(p, f)[1][f] # 0
               /\ \A g \in Fns : cache[p][1][g] # 0 => Inserted(p, f)[1][g] # 0
      BY <1>5, InsertedIs
    <3>5. Kept(p)'  BY <1>5, <3>3, <3>4 DEF CacheOk, Kept
    <3>6. pc[p] \in {"collect", "join"}  BY <2>5 DEF Collect, Join
    <3>. QED BY <1>5, <3>2, <3>3, <3>4, <3>5, <3>6 DEF CacheOk
  <2>6. CASE CollectEnd(p) \/ JoinEnd(p) \/ AnalysisEnd(p)
    <3>1. pc'[p] # "exited" /\ UNCHANGED <<cache, printed, todo>>
      BY <1>5, <2>6 DEF CollectEnd, JoinEnd, AnalysisEnd, JoinErr, TypeInv, procVars
    <3>. QED BY <1>5, <3>1 DEF CacheOk, Kept
  <2>7. CASE WriteAll(p)
    <3>1. file = <<Empty>>  BY <1>2, <1>5, <2>7 DEF WriteAll, FileInv
    <3>2. /\ file' # None /\ Whole(file'[1]) /\ file'[1].entries = cache[p][1]
          /\ UNCHANGED <<todo, cache, printed>>
      BY <1>5, <2>7, <3>1, WrittenWhole
    <3>. QED BY <1>5, <3>2 DEF CacheOk, Kept, Stored, Good
  <2>. QED BY <1>5, <2>1, <2>2, <2>3, <2>4, <2>5, <2>6, <2>7 DEF Does, Step
<1>6. CASE \E q \in Procs : Does(q)
  <2>1. PICK q \in Procs : Does(q)  BY <1>6
  <2>2. CASE ~Start(q)
    <3>1. q = p /\ p \in alone  BY <1>3, <2>1, <2>2
    <3>. QED BY <1>2, <1>5, <2>1, <2>2, <3>1 DEF CacheInv
  <2>. QED BY <1>4, <2>2
<1>7. CASE UNCHANGED vars
  <2>1. p \in alone  BY <1>7 DEF vars, runVars
  <2>2. CacheOk(p)  BY <1>2, <2>1 DEF CacheInv
  <2>. QED BY <1>7, <2>2 DEF vars, procVars, CacheOk, Kept, Stored, Good
<1>. QED BY <1>6, <1>7 DEF Next, Does

\* What a process that ran by itself has printed the next one finds in the
\* cache, whatever became of the processes before, unless the cache could not
\* be opened or a write was cut short or overlapped another
\* (src/src/bin/core/cache.rs:34-77).
THEOREM NothingIsAnalyzedTwice == Spec => []NotAnalyzedTwice
<1>1. Init => AloneInv /\ FileInv /\ CacheInv
  BY DEF Init, AloneInv, FileInv, CacheInv, Good
<1>2. TypeInv /\ FnInv /\ CacheInv => NotAnalyzedTwice
  <2> SUFFICES ASSUME TypeInv, FnInv, CacheInv, NEW p \in alone, pc[p] = "exited", ~spoiled,
                      NEW f \in Fns, printed[p][f] # << >>
               PROVE  f \in Found
    BY DEF NotAnalyzedTwice
  <2>1. p \in Procs /\ CacheOk(p)  BY DEF TypeInv, CacheInv
  <2>2. f \notin todo[p]  BY <2>1 DEF FnInv, FnOk
  <2>3. cache[p] # None  BY <2>1, <2>2 DEF CacheOk
  <2>4. file # None /\ Whole(file[1]) /\ file[1].entries[f] # 0
    BY <2>1, <2>3 DEF CacheOk, Kept, Stored, Good
  <2>5. GetCache = <<file[1].entries>> /\ GetCache # None
    BY <2>4 DEF GetCache, None
  <2>. QED BY <2>4, <2>5 DEF Found, Cached
<1>. QED BY <1>1, <1>2, InitType, NextType, NextWrite, NextAlone, NextFile, NextCache, PTL DEF Spec
=============================================================================
