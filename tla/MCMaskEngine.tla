---------------------------- MODULE MCMaskEngine ----------------------------
(* MaskEngine for TLC: placeholders as triples, keys of both kinds. *)
EXTENDS MaskEngine, TLC

CONSTANTS email, v1

MCMint(h, s, v) == <<h, s, v>>
\* A client that calls its session what the first anonymous key is called
MCSessionId == {AnonKey(1)}
MCKey == SessionId \cup {AnonKey(n) : n \in 1 .. MaxAnon}
MCCritical == {[kind |-> email, value |-> v1]}
MCNone == {}
Symmetry == Permutations(Request)
=============================================================================
