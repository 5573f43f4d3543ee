---------------------------- MODULE SelectLocal ----------------------------
(***************************************************************************)
(* Which local a cursor selects (SelectLocal of                            *)
(* src/src/lsp/decoration.rs): mir_visit shows the selector every function *)
(* of the file, its declarations before its body; the selector is offered  *)
(* what lies at the cursor and keeps one.  The functions of a file stand   *)
(* in the order in which their analyses ended, so any order is possible,   *)
(* and one may stand there twice (Crate::merge).                           *)
(*                                                                         *)
(* A statement or terminator that has no range, or offers nothing, changes *)
(* nothing; one with several operands is a visit of each.                  *)
(***************************************************************************)
EXTENDS RangeOps

CONSTANTS
  Fns,         \* functions of the file
  Ids,         \* numbers of the locals of a function
  Resume,      \* locals of a type in ASYNC_RESUME_TY
  MaxItems,    \* bound: functions visited
  MaxUses,     \* bound: uses visited
  MaxEnd       \* bound: greatest position in what is visited

Local == [fn_id : Fns, id : Ids]
Reason == {"var", "move", "drop", "borrow", "call"}

ASSUME SelectAssumption ==
  /\ Ids \subseteq Nat /\ Resume \subseteq Local
  /\ MaxItems \in Nat /\ MaxUses \in Nat /\ MaxEnd \in Loc

VARIABLES
  pos,         \* the cursor
  part,        \* of mir_visit: "between" functions, "decls" or "body"
  item,        \* the function visited
  declared,    \* its locals that were visited
  candidates,  \* candidate_local_decls
  selected,    \* an option: a sequence of at most one offer
  items, uses, \* visits so far
  first,       \* auxiliary: an option, the first offer
  offered      \* auxiliary: all offers

selVars == <<pos, part, item, declared, candidates, selected, items, uses, first, offered>>

Cursors == 0 .. MaxEnd
Spans == {range \in Interval : range.until <= MaxEnd}

Size(range) == range.until - range.from
At(range) == range.from <= pos /\ pos <= range.until

Offers == [reason : Reason, local : Local, range : Spans, visit : Nat]

SelInit ==
  /\ pos \in Cursors
  /\ part = "between" /\ item \in Fns /\ declared = {}
  /\ candidates = {} /\ selected = << >>
  /\ items = 0 /\ uses = 0
  /\ first = << >> /\ offered = {}

-----------------------------------------------------------------------------
(* SelectLocal::select.                                                    *)

Replaces_ArmsSwapped(old, new) ==    \* mutant: the arm (Var, _) stands before (_, Var)
  \/ old.reason # "var" /\ new.reason \in {"var", "move", "borrow"} /\ Size(new.range) < Size(old.range)
  \/ old.reason = "call" /\ new.reason = "call" /\ Size(old.range) < Size(new.range)
Replaces(old, new) ==
  \/ new.reason = "var" /\ Size(new.range) < Size(old.range)
  \/ old.reason # "var" /\ new.reason \in {"move", "borrow"} /\ Size(new.range) < Size(old.range)
  \/ old.reason = "call" /\ new.reason = "call" /\ Size(old.range) < Size(new.range)

Taken(offer) ==
  IF selected = << >> \/ Replaces(selected[1], offer) THEN <<offer>> ELSE selected

(* known: the candidates at the time of the call.                          *)
Select(known, reason, local, range) ==
  LET offer == [reason |-> reason, local |-> local, range |-> range, visit |-> items] IN
  IF local \in known /\ At(range)
  THEN /\ selected' = Taken(offer)
       /\ first' = IF first = << >> THEN <<offer>> ELSE first
       /\ offered' = offered \cup {offer}
  ELSE UNCHANGED <<selected, first, offered>>

-----------------------------------------------------------------------------
(* mir_visit.                                                              *)

VisitItem ==
  /\ part = "between" /\ items < MaxItems
  /\ part' = "decls" /\ item' \in Fns /\ declared' = {}
  /\ items' = items + 1
  /\ UNCHANGED <<pos, candidates, selected, uses, first, offered>>

DeclaredLocal(id) ==
  /\ part = "decls" /\ id \in Ids \ declared
  /\ \A k \in Ids \ declared : id <= k     \* collect_decls keeps their order
  /\ declared' = declared \cup {id}
  /\ UNCHANGED <<pos, part, item, items, uses>>

(* visit_decl.                                                             *)
SeeResume ==
  /\ \E id \in Ids : DeclaredLocal(id) /\ [fn_id |-> item, id |-> id] \in Resume
  /\ UNCHANGED <<candidates, selected, first, offered>>

SeeDecl ==
  \E id \in Ids :
    LET local == [fn_id |-> item, id |-> id] IN
    /\ DeclaredLocal(id) /\ local \notin Resume
    /\ candidates' = candidates \cup {local}
    /\ \/ \E span \in Spans : Select(candidates', "var", local, span)   \* MirDecl::User
       \/ UNCHANGED <<selected, first, offered>>                           \* MirDecl::Other

VisitBody ==
  /\ part = "decls" /\ declared = Ids
  /\ part' = "body"
  /\ UNCHANGED <<pos, item, declared, candidates, selected, items, uses, first, offered>>

(* visit_stmt, visit_term: a move of a local, a borrow or drop of it, or   *)
(* the call that gives it its value.                                       *)
SeeUse ==
  /\ part = "body" /\ uses < MaxUses
  /\ uses' = uses + 1
  /\ \E reason \in Reason \ {"var"}, id \in Ids, range \in Spans :
       Select(candidates, reason, [fn_id |-> item, id |-> id], range)
  /\ UNCHANGED <<pos, part, item, declared, candidates, items>>

LeaveItem ==
  /\ part = "body"
  /\ part' = "between"
  /\ UNCHANGED <<pos, item, declared, candidates, selected, items, uses, first, offered>>

SelNext == VisitItem \/ SeeResume \/ SeeDecl \/ VisitBody \/ SeeUse \/ LeaveItem

-----------------------------------------------------------------------------
(* Types; and what is selected is a candidate and none of those that only  *)
(* an async function's MIR has.                                            *)
SelTypeOK ==
  /\ pos \in Cursors /\ part \in {"between", "decls", "body"}
  /\ item \in Fns /\ declared \subseteq Ids
  /\ candidates \subseteq Local \ Resume
  /\ items \in 0 .. MaxItems /\ uses \in 0 .. MaxUses
  /\ offered \subseteq {o \in Offers : o.local \in candidates /\ At(o.range)}
  /\ (selected = << >> /\ first = << >> /\ offered = {})
     \/ (\E o, p \in offered : selected = <<o>> /\ first = <<p>>)

(* If the function that first has anything at the cursor declares a        *)
(* variable there, a variable is selected, and the narrowest: no use in    *)
(* this or another function, in whatever order they stand, takes its place *)
(* (mir_visit, lines 116 to 125 of utils.rs; select, lines 340 to 345).    *)
DeclarationFirst ==
  (\E o \in offered : o.reason = "var" /\ o.visit = first[1].visit)
    => /\ selected[1].reason = "var"
       /\ \A o \in offered : o.reason = "var" => Size(selected[1].range) <= Size(o.range)

(* What is at the cursor and narrower than all else there is selected, in  *)
(* whatever order the functions stand: a variable whatever else is there,  *)
(* a move or a borrow if no variable is.  Of anything else the order       *)
(* decides: a wider variable that was found first stays, one found later   *)
(* does not replace a narrower move, and a drop replaces nothing (select,  *)
(* lines 340 to 355).                                                      *)
Alike(o, p) == o.local = p.local /\ o.reason = p.reason
Narrowest(o) == \A p \in offered : Size(p.range) <= Size(o.range) => Alike(p, o)
NarrowestSelected ==
  \A o \in offered :
    /\ Narrowest(o)
    /\ o.reason = "var" \/ (o.reason \in {"move", "borrow"} /\ \A p \in offered : p.reason # "var")
    => Alike(selected[1], o) /\ Size(selected[1].range) <= Size(o.range)

(* A selected call is around all other calls at the cursor, and it or a    *)
(* call within it was the first thing found there: nothing else gives way  *)
(* to a call, and where only calls are, it is the outermost (the TODO at   *)
(* decoration.rs:350 is about the direction).                              *)
OutermostCall ==
  selected # << >> /\ selected[1].reason = "call"
    => /\ first[1].reason = "call"
       /\ Size(first[1].range) <= Size(selected[1].range)
       /\ \A o \in offered : o.reason = "call" => Size(o.range) <= Size(selected[1].range)

(* The local under the cursor: what select promises, whatever is visited.  *)
RightLocal == DeclarationFirst /\ NarrowestSelected /\ OutermostCall

(* docs/usage.md:39 has the user place the cursor on a variable or call to *)
(* inspect.  A call in a closure, with no variable declared there, is not  *)
(* selected where another function, such as the closure's parent that      *)
(* moves what it captures over the whole closure, stands first (violated). *)
CallIsFound ==
  \A o \in offered :
      /\ o.reason = "call" /\ o.visit # first[1].visit
      /\ \A p \in offered \ {o} : p.reason # "var" /\ Size(o.range) < Size(p.range)
    => selected[1].reason = "call"
=============================================================================
