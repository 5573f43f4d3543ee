----------------------------- MODULE StatusBoard -----------------------------
(***************************************************************************)
(* What RustOwl's client may assume of the analysis status: it turns to    *)
(* Analyzing when a run begins, changes otherwise only when a run that     *)
(* began publishes, and an error stays until the next run begins.  The     *)
(* language server (module Backend) implements it.                         *)
(***************************************************************************)
CONSTANT Runs

VARIABLES
  status,   \* the status a cursor request is answered with
  pending   \* the runs that began and have not published

vars == <<status, pending>>

Init == status = "Finished" /\ pending = {}

Begin(r) ==
  /\ r \notin pending
  /\ status' = "Analyzing"
  /\ pending' = pending \cup {r}

Publish(r) ==
  /\ r \in pending
  /\ status' \in IF status = "Error" THEN {"Error"} ELSE {"Finished", "Error"}
  /\ pending' = pending \ {r}

Next == \E r \in Runs : Begin(r) \/ Publish(r)

Spec == Init /\ [][Next]_vars
=============================================================================
