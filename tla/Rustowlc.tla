------------------------------ MODULE Rustowlc ------------------------------
(***************************************************************************)
(* rustowlc (src/src/bin/core/mod.rs, analyze.rs, cache.rs): while rustc   *)
(* borrow checks the functions of a crate, each is printed from the cache  *)
(* or gets an analysis task; finished tasks are collected whenever a       *)
(* function has been borrow checked and, in the end, joined; then the      *)
(* cache is written.  Processes for one crate name (the library and its    *)
(* tests, or runs one after another) share the cache file.                 *)
(*                                                                         *)
(* The functions are those of one source file that does not change, so the *)
(* hashes that are their cache keys stay the same.  Their fn_id is the     *)
(* compiler's DefIndex, and differs with what else the crate contains.     *)
(***************************************************************************)
EXTENDS Naturals, Sequences, FiniteSets

CONSTANTS
  Procs,       \* processes that share the cache file
  Fns,         \* functions of the file
  Ids,         \* fn_ids
  Panics,      \* functions whose analysis may panic
  MaxStarts,   \* bound: starts of processes
  MayKill      \* whether processes are killed

ASSUME RustowlcAssumption ==
  /\ IsFiniteSet(Fns) /\ Ids \subseteq Nat \ {0} /\ Panics \subseteq Fns
  /\ \E m \in [Fns -> Ids] : \A f, g \in Fns : f # g => m[f] # m[g]
  /\ MaxStarts \in Nat /\ MayKill \in BOOLEAN

VARIABLES
  pc,         \* "off", "borrowck", "collect", "join", "open", "write"; "exited", "unsaved", "killed"
  todo,       \* functions not borrow checked yet
  ids,        \* fn_ids in this process's compilation
  cache,      \* CACHE: an Option of a map from functions to the fn_id stored
  tasks,      \* TASKS: "none", "running", "ready", "panicked"; "joined", "lost"
  printed,    \* fn_ids printed for a function
  file,       \* the cache file, absent or with its length and text
  starts,
  alone,      \* auxiliary: the process started last, if none ran while it did
  spoiled     \* auxiliary: a write was cut short, or two processes wrote at a time

procVars == <<todo, ids, cache, tasks, printed>>
runVars == <<starts, alone>>
vars == <<pc, procVars, file, runVars, spoiled>>

None == << >>
Nothing == [f \in Fns |-> 0]
Cached(m) == {f \in Fns : m[f] # 0}

(* write_all does not shorten a file: a longer text before leaves a rest;   *)
(* torn: it ends, or goes on, with a part of another text.                  *)
Size(m) == 1 + Cardinality(Cached(m))
Whole(c) == ~c.torn /\ c.len = Size(c.entries)
Empty == [len |-> 0, entries |-> Nothing, torn |-> FALSE]

IdMaps == {m \in [Fns -> Ids] : \A f, g \in Fns : f # g => m[f] # m[g]}
NoMap == CHOOSE m \in IdMaps : TRUE

Init ==
  /\ pc = [p \in Procs |-> "off"] /\ starts = 0
  /\ todo = [p \in Procs |-> Fns] /\ ids = [p \in Procs |-> NoMap]
  /\ cache = [p \in Procs |-> None]
  /\ tasks = [p \in Procs |-> [f \in Fns |-> "none"]]
  /\ printed = [p \in Procs |-> [f \in Fns |-> << >>]]
  /\ file = None /\ alone = {} /\ spoiled = FALSE

Resting == {"off", "exited", "unsaved", "killed"}
Start(p) ==
  /\ pc[p] \in Resting /\ starts < MaxStarts
  /\ alone' = IF \A q \in Procs : pc[q] \in Resting THEN {p} ELSE {}
  /\ pc' = [pc EXCEPT ![p] = "borrowck"] /\ starts' = starts + 1
  /\ \E m \in IdMaps : ids' = [ids EXCEPT ![p] = m]
  /\ todo' = [todo EXCEPT ![p] = Fns] /\ cache' = [cache EXCEPT ![p] = None]
  /\ tasks' = [tasks EXCEPT ![p] = [f \in Fns |-> "none"]]
  /\ printed' = [printed EXCEPT ![p] = [f \in Fns |-> << >>]]
  /\ UNCHANGED <<file, spoiled>>

(* A write that ends early has written nothing yet, or a part of its text.  *)
Longer(a, b) == IF a < b THEN b ELSE a
CutShort(p) ==
  {file[1]} \cup {[file[1] EXCEPT !.len = Longer(@, k), !.torn = TRUE] : k \in 1 .. Size(cache[p][1]) - 1}
WriteStops(p) ==
  /\ pc[p] = "write"
  /\ \E c \in CutShort(p) : file' = <<c>>
  /\ spoiled' = TRUE

Kill(p) ==
  /\ MayKill /\ pc[p] \notin Resting
  /\ pc' = [pc EXCEPT ![p] = "killed"]
  /\ WriteStops(p) \/ (pc[p] # "write" /\ UNCHANGED <<file, spoiled>>)
  /\ UNCHANGED <<procVars, runVars>>

-----------------------------------------------------------------------------
(* mir_borrowck of functions whose bodies are checked together.            *)

(* get_cache: no file gives an empty cache, an unreadable one gives None.  *)
GetCache ==
  IF file = None THEN <<Nothing>>
  ELSE IF Whole(file[1]) THEN <<file[1].entries>> ELSE None

Opened(p) == IF cache[p] = None THEN GetCache ELSE cache[p]
Hit(c, f) == c # None /\ c[1][f] # 0

Borrowck(p) ==
  /\ pc[p] = "borrowck"
  /\ \E fs \in (SUBSET todo[p]) \ {{}} :
       LET c == Opened(p)
       IN  /\ todo' = [todo EXCEPT ![p] = @ \ fs]
           /\ cache' = [cache EXCEPT ![p] = c]
           /\ printed' = [printed EXCEPT ![p] =
                [f \in Fns |-> IF f \in fs /\ Hit(c, f) THEN Append(@[f], c[1][f]) ELSE @[f]]]
           /\ tasks' = [tasks EXCEPT ![p] =
                [f \in Fns |-> IF f \in fs /\ ~Hit(c, f) THEN "running" ELSE @[f]]]
  /\ pc' = [pc EXCEPT ![p] = "collect"]
  /\ UNCHANGED <<ids, file, runVars, spoiled>>

TaskEnd(p) ==
  /\ pc[p] \notin Resting
  /\ \E f \in Fns :
       /\ tasks[p][f] = "running"
       /\ \E e \in {"ready"} \cup (IF f \in Panics THEN {"panicked"} ELSE {}) :
            tasks' = [tasks EXCEPT ![p][f] = e]
  /\ UNCHANGED <<pc, todo, ids, cache, printed, file, runVars, spoiled>>

(* handle_analyzed_result                                                  *)
Inserted_Not(p, f) == cache[p]     \* mutant: the result is not inserted
Inserted(p, f) ==
  IF cache[p] = None THEN None ELSE <<[cache[p][1] EXCEPT ![f] = ids[p][f]]>>

Joined(p, f) == [tasks[p] EXCEPT ![f] = "joined"]

JoinOk(p, f) ==
  /\ tasks[p][f] = "ready"
  /\ tasks' = [tasks EXCEPT ![p] = Joined(p, f)]
  /\ cache' = [cache EXCEPT ![p] = Inserted(p, f)]
  /\ printed' = [printed EXCEPT ![p][f] = Append(@, ids[p][f])]

JoinErr(p, f) ==
  /\ tasks[p][f] = "panicked"
  /\ tasks' = [tasks EXCEPT ![p][f] = "lost"]
  /\ UNCHANGED <<cache, printed>>

Finished(p) == {f \in Fns : tasks[p][f] \in {"ready", "panicked"}}
Left(p) == {f \in Fns : tasks[p][f] \in {"running", "ready", "panicked"}}

(* while let Some(Ok(result)) = tasks.try_join_next()                      *)
Collect(p) ==
  /\ pc[p] = "collect"
  /\ \E f \in Fns : JoinOk(p, f)
  /\ UNCHANGED <<pc, todo, ids, file, runVars, spoiled>>

CollectEnd(p) ==
  /\ pc[p] = "collect"
  /\ \/ Finished(p) = {} /\ UNCHANGED <<tasks, cache, printed>>
     \/ \E f \in Fns : JoinErr(p, f)
  /\ pc' = [pc EXCEPT ![p] = "borrowck"]
  /\ UNCHANGED <<todo, ids, file, runVars, spoiled>>

-----------------------------------------------------------------------------
(* after_expansion                                                         *)

(* Every function is borrow checked, or an error ends the analysis.        *)
AnalysisEnd(p) ==
  /\ pc[p] = "borrowck"
  /\ pc' = [pc EXCEPT ![p] = "join"]
  /\ UNCHANGED <<procVars, file, runVars, spoiled>>

(* while let Some(Ok(result)) = join_next().await                          *)
Join(p) ==
  /\ pc[p] = "join"
  /\ \E f \in Fns : JoinOk(p, f)
  /\ UNCHANGED <<pc, todo, ids, file, runVars, spoiled>>

NothingToJoin_Try(p) == Finished(p) = {}     \* mutant: try_join_next
NothingToJoin(p) == Left(p) = {}
JoinEnd(p) ==
  /\ pc[p] = "join"
  /\ \/ NothingToJoin(p) /\ UNCHANGED <<tasks, cache, printed>>
     \/ \E f \in Fns : JoinErr(p, f)
  /\ pc' = [pc EXCEPT ![p] = "open"]
  /\ UNCHANGED <<todo, ids, file, runVars, spoiled>>

(* write_cache.  The directory is made, the file opened and truncated; that *)
(* any of it fails is logged, and the process ends as others do.            *)
WriteOpen(p) ==
  /\ pc[p] = "open" /\ cache[p] # None
  /\ pc' = [pc EXCEPT ![p] = "write"] /\ file' = <<Empty>>
  /\ spoiled' = (spoiled \/ \E q \in Procs \ {p} : pc[q] = "write")
  /\ UNCHANGED <<procVars, runVars>>

OpenFails(p) ==
  /\ pc[p] = "open" /\ cache[p] # None
  /\ pc' = [pc EXCEPT ![p] = "unsaved"]
  /\ UNCHANGED <<procVars, file, runVars, spoiled>>

NoCache(p) ==
  /\ pc[p] = "open" /\ cache[p] = None
  /\ pc' = [pc EXCEPT ![p] = "exited"]
  /\ UNCHANGED <<procVars, file, runVars, spoiled>>

Written(p) == [len |-> Longer(file[1].len, Size(cache[p][1])), entries |-> cache[p][1], torn |-> FALSE]
WriteAll(p) ==
  /\ pc[p] = "write"
  /\ file' = <<Written(p)>>
  /\ pc' = [pc EXCEPT ![p] = "exited"]
  /\ UNCHANGED <<procVars, runVars, spoiled>>

WriteFails(p) ==
  /\ WriteStops(p)
  /\ pc' = [pc EXCEPT ![p] = "unsaved"]
  /\ UNCHANGED <<procVars, runVars>>

-----------------------------------------------------------------------------
Step(p) ==
  \/ Borrowck(p) \/ TaskEnd(p) \/ Collect(p) \/ CollectEnd(p)
  \/ AnalysisEnd(p) \/ Join(p) \/ JoinEnd(p)
  \/ WriteOpen(p) \/ OpenFails(p) \/ NoCache(p) \/ WriteAll(p) \/ WriteFails(p)

Next == \E p \in Procs : Start(p) \/ Kill(p) \/ Step(p)

Spec == Init /\ [][Next]_vars

-----------------------------------------------------------------------------
(* Properties.                                                             *)

TypeOK ==
  /\ pc \in [Procs -> Resting \cup {"borrowck", "collect", "join", "open", "write"}]
  /\ todo \in [Procs -> SUBSET Fns] /\ ids \in [Procs -> [Fns -> Ids]]
  /\ \A p \in Procs : cache[p] = None \/ cache[p][1] \in [Fns -> Ids \cup {0}]
  /\ tasks \in [Procs -> [Fns -> {"none", "running", "ready", "panicked", "joined", "lost"}]]
  /\ \A p \in Procs : \A f \in Fns : printed[p][f] = << >> \/ \E n \in Ids : printed[p][f] = <<n>>
  /\ \/ file = None
     \/ /\ file[1].len \in 0 .. Cardinality(Fns) + 1
        /\ file[1].entries \in [Fns -> Ids \cup {0}] /\ file[1].torn \in BOOLEAN
  /\ starts \in 0 .. MaxStarts /\ alone \subseteq Procs /\ spoiled \in BOOLEAN

Ended(p) == pc[p] \in {"open", "write", "exited", "unsaved"}

\* When a process ends and no analysis of it panicked, every function borrow
\* checked has been printed, from the cache or by its task, whichever of the
\* two loops collected it (81-84, 113-116).
EveryFunctionPrinted ==
  \A p \in Procs : Ended(p) /\ (\A f \in Fns : tasks[p][f] \notin {"panicked", "lost"}) =>
    \A f \in Fns \ todo[p] : printed[p][f] # << >>

\* What a process that ran by itself has printed, the next one will find in
\* the cache: an unchanged function is not analyzed twice, whatever became of
\* the processes before, unless the cache could not be opened for writing, or
\* some write ever was cut short or overlapped another.
Found == IF GetCache = None THEN {} ELSE Cached(GetCache[1])
NotAnalyzedTwice ==
  \A p \in alone : pc[p] = "exited" /\ ~spoiled =>
    {f \in Fns : printed[p][f] # << >>} \subseteq Found

\* after_expansion: "join all tasks after all analysis finished" (107).  It
\* fails when an analysis panics: Rustowlc_panic.cfg.
AllTasksJoined == \A p \in Procs : Ended(p) => Left(p) = {}

\* get_cache: "If cache is not enabled, then return None" (cache.rs 32).  It
\* fails after a kill, or two writes at a time: Rustowlc_none.cfg.
NoneMeansDisabled == \A p \in Procs : pc[p] = "collect" => cache[p] # None
=============================================================================
