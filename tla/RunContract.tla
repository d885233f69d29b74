---------------------------- MODULE RunContract ----------------------------
(***************************************************************************)
(* What one run of a routing algorithm promises to the host that called    *)
(* `drive` (libsy/src/core/algorithm.rs): the caller gets one answer; a     *)
(* successful answer comes with every decision the algorithm published, in  *)
(* the order it published them, and nothing is published afterwards; a      *)
(* failed or cancelled run yields no trace.  There is no third way to end.  *)
(***************************************************************************)
EXTENDS Naturals, Sequences

VARIABLES outcome,    \* what the caller has: "running", "ok", "err", "cancelled"
          trace,      \* the decisions returned with a successful answer
          published   \* the decisions the algorithm published so far

contractVars == <<outcome, trace, published>>

Init == outcome = "running" /\ trace = <<>> /\ published = <<>>

\* The algorithm publishes one more decision.  It may still do so while a run the
\* caller has given up is being torn down, never after a successful answer.
Publish == /\ outcome # "ok"
           /\ Len(published') = Len(published) + 1
           /\ SubSeq(published', 1, Len(published)) = published
           /\ UNCHANGED <<outcome, trace>>

Succeed == /\ outcome = "running"
           /\ outcome' = "ok"
           /\ trace' = published
           /\ UNCHANGED published

GiveUp == /\ outcome = "running"
          /\ outcome' \in {"err", "cancelled"}
          /\ UNCHANGED <<trace, published>>

Next == Publish \/ Succeed \/ GiveUp

Spec == Init /\ [][Next]_contractVars
============================================================================
