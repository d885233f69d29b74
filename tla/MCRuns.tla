------------------------------- MODULE MCRuns -------------------------------
(***************************************************************************)
(* For TLC: a run of a routing algorithm and the sessions a router keeps,  *)
(* side by side.  They share no state: part says which of the two moves,   *)
(* and the other stays where none of its steps is possible: a run that     *)
(* hangs before it did anything, or a router nobody has called.            *)
(***************************************************************************)
EXTENDS RunDriver, FallThroughSessions

VARIABLE part

RunsInit ==
  /\ SessionsInit
  /\ \/ part = "run" /\ Init
     \/ /\ part = "sessions"
        /\ task = "hung" /\ result = "none" /\ announced = 0
        /\ promise = [c \in Calls |-> "none"]
        /\ senders = <<>> /\ steps = <<>> /\ published = <<>> /\ stream = "open"
        /\ serving = {} /\ trace = <<>> /\ outcome = "running"

\* Every request of the router is through.
AllServed == (\A r \in Request : phase[r] = "done") /\ UNCHANGED sessionsVars

RunsNext ==
  \/ part = "run" /\ Next /\ UNCHANGED <<part, sessionsVars>>
  \/ part = "sessions" /\ (SessionsNext \/ AllServed) /\ UNCHANGED <<part, vars>>

RunsSpec ==
  /\ RunsInit /\ [][RunsNext]_<<part, vars, sessionsVars>>
  /\ HostFairness /\ WF_vars(Advance) /\ RouterFairness
=============================================================================
