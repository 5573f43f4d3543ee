----------------------------- MODULE MCBackend -----------------------------
(* Instances of Backend for TLC: the requests a client sends in each run. *)
EXTENDS Backend

\* An editing session with hovers; or the command line's one check.
EditorKinds == {"initialize", "analyze", "change", "cursor", "shutdown", "check"}
\* Edits alone, saved in between.
EditKinds == {"initialize", "analyze", "change", "shutdown"}
\* Analyses and stops; or one check.
StopKinds == {"initialize", "analyze", "change", "check"}

(* What the code does not guarantee: TLC shows how each comes to fail.     *)

\* Every progress that was reported begun is reported ended (progress.rs).
ProgressAlwaysEnds ==
  \A t \in Tasks : tpc[t] \in {"finished", "reaped"} => progress[t] \in {"none", "ended"}

\* No target is ever analyzed by two live tasks (backend.rs 101).
NeverTwoAnalyses ==
  \A s, t \in Tasks : tpc[s] \in Live /\ tpc[t] \in Live /\ s[2] = t[2] => s = t

\* A task that ends removes no token but its own (backend.rs 144).
OnlyOwnToken ==
  [][\A t \in Tasks : tpc[t] = "cleanup" /\ tpc'[t] # "cleanup" =>
       \A k \in DOMAIN tokens \ DOMAIN tokens' : tokens[k] = t]_vars
=============================================================================
