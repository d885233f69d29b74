----------------------------- MODULE RunDriver -----------------------------
(***************************************************************************)
(* One run of a routing algorithm: the task `run_stream` spawns, the step   *)
(* channel of capacity one between it and its consumer, the one-shot        *)
(* promise inside every offloaded model call, and the host loop `drive`     *)
(* that pulls steps and serves calls concurrently                           *)
(* (libsy/src/core/algorithm.rs, libsy-llm-client/src/run.rs).              *)
(*                                                                          *)
(* The algorithm is any `route`: it offloads calls one by one or several at *)
(* once, publishes decisions, and returns or panics.  A hedging algorithm   *)
(* may also drop a call it no longer wants.                                 *)
(***************************************************************************)
EXTENDS Naturals, FiniteSets, SequencesExt

CONSTANTS Calls,         \* the model calls the algorithm may offload
          Stuck,         \* the calls whose upstream may never answer
          MaxDecisions,  \* bound: decisions the algorithm publishes
          Capacity,      \* slots of the step channel (1 in the code)
          Hedging        \* whether the algorithm drops calls that lost a race

ASSUME RunAssumption == /\ IsFiniteSet(Calls) /\ Stuck \subseteq Calls
                        /\ MaxDecisions \in Nat
                        /\ Capacity \in Nat \ {0}
                        /\ Hedging \in BOOLEAN

VARIABLES
  task,       \* the spawned task: "route", "hung", "finish", "ended" or "aborted"
  result,     \* what route returned: "none", "ok" or "err"
  promise,    \* per call, the future the algorithm holds on it
  announced,  \* decisions the algorithm started to publish
  senders,    \* sends blocked on the channel, first come first served
  steps,      \* the items in the channel
  published,  \* the decisions the channel accepted
  stream,     \* the consumer's end of the channel: "open" or "closed"
  serving,    \* the calls in drive's in_flight set
  trace,      \* drive's local trace
  outcome     \* what drive gave its caller

taskVars  == <<task, result, announced>>
chanVars  == <<senders, steps, published, stream>>
driveVars == <<serving, trace, outcome>>
vars == <<taskVars, promise, chanVars, driveVars>>

CallStep(c)     == [kind |-> "call", of |-> c]
DecisionStep(d) == [kind |-> "decision", of |-> d]
Terminal(r)     == [kind |-> r, of |-> 0]

Pending(c) == promise[c] \in {"sending", "waiting"}
Settled(c) == promise[c] \in {"ok", "err"}

\* The calls carried by a sequence of steps.
CallsIn(items) == {c \in Calls : \E i \in DOMAIN items : items[i] = CallStep(c)}

\* The futures after every pending one among cs became v.
Resolve(cs, v) == [c \in Calls |-> IF c \in cs /\ Pending(c) THEN v ELSE promise[c]]

Init == /\ task = "route" /\ result = "none" /\ announced = 0
        /\ promise = [c \in Calls |-> "none"]
        /\ senders = <<>> /\ steps = <<>> /\ published = <<>> /\ stream = "open"
        /\ serving = {} /\ trace = <<>> /\ outcome = "running"
----------------------------------------------------------------------------
(* The algorithm's task *)

\* Queue the send of one step; on a closed stream the send fails at once.
Send(step) ==
  senders' = IF stream = "open" THEN Append(senders, step) ELSE senders

\* Driver::call_model up to the blocked send.
Offload(c) ==
  /\ task = "route" /\ promise[c] = "none"
  /\ promise' = [promise EXCEPT ![c] = IF stream = "open" THEN "sending" ELSE "err"]
  /\ Send(CallStep(c))
  /\ UNCHANGED <<taskVars, steps, published, stream, driveVars>>

\* Driver::call_model with no candidate model fails before it publishes.
NoTargets(c) ==
  /\ task = "route" /\ promise[c] = "none"
  /\ promise' = [promise EXCEPT ![c] = "err"]
  /\ UNCHANGED <<taskVars, chanVars, driveVars>>

\* Driver::decide up to the blocked send.
Decide ==
  /\ task = "route" /\ announced < MaxDecisions
  /\ announced' = announced + 1
  /\ Send(DecisionStep(announced'))
  /\ UNCHANGED <<task, result, promise, steps, published, stream, driveVars>>

\* mpsc::channel(1): a send goes through while the channel has a free slot.
Room == Len(steps) < Capacity

\* The send that has waited longest gets the free slot.  A call then
\* awaits its promise, a decision counts as published, and the terminal step is
\* the task's last act.
Accept ==
  /\ Room /\ senders # <<>>
  /\ LET step == Head(senders)
     IN  /\ steps' = Append(steps, step)
         /\ senders' = Tail(senders)
         /\ promise' = IF step.kind = "call" THEN [promise EXCEPT ![step.of] = "waiting"]
                       ELSE promise
         /\ published' = IF step.kind = "decision" THEN Append(published, step.of)
                         ELSE published
         /\ task' = IF step.kind \in {"ok", "err"} THEN "ended" ELSE task
  /\ UNCHANGED <<result, announced, stream, driveVars>>

\* A hedging algorithm drops a call that lost: its send, if still blocked, is
\* withdrawn; a call already in the channel or being served goes on without a
\* receiver.
Drop(c) ==
  /\ task = "route" /\ Hedging /\ Pending(c)
  /\ \E won \in Calls : Settled(won)
  /\ promise' = Resolve({c}, "dropped")
  /\ \/ c \notin CallsIn(senders) /\ UNCHANGED senders
     \/ \E i \in DOMAIN senders : /\ senders[i] = CallStep(c)
                                  /\ senders' = RemoveAt(senders, i)
  /\ UNCHANGED <<taskVars, steps, published, stream, driveVars>>

\* route is over: the futures it still held are dropped with their blocked
\* sends, and finish starts to publish the terminal step.
Complete(r) ==
  /\ task = "route"
  /\ result' = r
  /\ promise' = Resolve(Calls, "dropped")
  /\ task' = IF stream = "open" THEN "finish" ELSE "ended"
  /\ senders' = IF stream = "open" THEN <<Terminal(r)>> ELSE <<>>
  /\ UNCHANGED <<announced, steps, published, stream, driveVars>>

\* route returns a response it got from some call, or an error.  It waits for
\* what it started, a hedging one only for a first answer.
Return(r) ==
  /\ \/ senders = <<>> /\ \A c \in Calls : ~Pending(c)
     \/ Hedging /\ \E c \in Calls : Settled(c)
  /\ r = "ok" => \E c \in Calls : promise[c] = "ok"
  /\ Complete(r)

\* route waits for something that never comes, without touching its driver.
Hang ==
  /\ task = "route"
  /\ task' = "hung"
  /\ UNCHANGED <<result, announced, promise, chanVars, driveVars>>

\* A panic anywhere in route is caught and reported as an error.
Panic == Complete("err")
----------------------------------------------------------------------------
(* The host: drive and serve *)

Looping == outcome = "running"

\* drive returns o: the in_flight futures are dropped, and with each the
\* promise it carried.  c is a call whose future has just ended by itself.
Exit(o) ==
  /\ outcome' = o
  /\ serving' = {}
  /\ promise' = Resolve({c \in serving : promise[c] = "waiting"}, "err")

\* drive that keeps the newest decision first.
Record_NewestFirst(d) == <<d>> \o trace

\* trace.push(decision)
Record(d) == Append(trace, d)

\* drive handles the item it took off the stream; a stream that ended without a
\* terminal item is a MissingFinalResponse.
Take ==
  IF steps = <<>>
  THEN /\ task = "ended" /\ senders = <<>>
       /\ Exit("missing")
       /\ UNCHANGED <<steps, trace>>
  ELSE LET step == Head(steps)
       IN  /\ steps' = Tail(steps)
           /\ \/ /\ step.kind = "call"
                 /\ serving' = serving \cup {step.of}
                 /\ UNCHANGED <<promise, trace, outcome>>
              \/ /\ step.kind = "decision"
                 /\ trace' = Record(step.of)
                 /\ UNCHANGED <<promise, serving, outcome>>
              \/ /\ step.kind \in {"ok", "err"}
                 /\ Exit(step.kind)
                 /\ UNCHANGED trace

\* drive that waits for the calls it serves before it takes the last step.
Pull_JoinAll ==
  /\ Looping
  /\ steps # <<>> => (Head(steps).kind = "ok" => serving = {})
  /\ Take
  /\ UNCHANGED <<taskVars, senders, published, stream>>

\* The stream branch of drive's select!.
Pull ==
  /\ Looping
  /\ Take
  /\ UNCHANGED <<taskVars, senders, published, stream>>

\* serve that lets a failed model call fail the whole run.
Serve_Propagates(c, r) ==
  /\ Looping /\ c \in serving
  /\ IF promise[c] = "waiting" /\ r = "ok"
     THEN /\ promise' = [promise EXCEPT ![c] = r]
          /\ serving' = serving \ {c}
          /\ UNCHANGED outcome
     ELSE Exit("err")
  /\ UNCHANGED <<taskVars, chanVars, trace>>

\* The in_flight branch: serve has the result r of call c, on every candidate,
\* and responds.  A failed call is an answer like any other; a promise nobody
\* waits for any more makes serve, and with it drive, fail.
Serve(c, r) ==
  /\ Looping /\ c \in serving
  /\ IF promise[c] = "waiting"
     THEN /\ promise' = [promise EXCEPT ![c] = r]
          /\ serving' = serving \ {c}
          /\ UNCHANGED outcome
     ELSE Exit("err")
  /\ UNCHANGED <<taskVars, chanVars, trace>>

\* The caller drops drive's future, for one because its client went away.
Cancel ==
  /\ Looping
  /\ Exit("cancelled")
  /\ UNCHANGED <<taskVars, chanVars, trace>>

\* A stream whose queued calls keep their promise when it is dropped.
DropStream_KeepsQueue ==
  /\ ~Looping /\ stream = "open"
  /\ stream' = "closed"
  /\ promise' = Resolve(CallsIn(senders), "err")
  /\ steps' = <<>> /\ senders' = <<>>
  /\ task' = IF task = "finish" THEN "ended" ELSE task
  /\ UNCHANGED <<result, announced, published, driveVars>>

\* The stream is dropped after in_flight, as drive declared it first: the items
\* in the channel are dropped, blocked sends fail with StreamClosed, and a task
\* that was publishing its terminal step is through.
DropStream ==
  /\ ~Looping /\ stream = "open"
  /\ stream' = "closed"
  /\ promise' = Resolve(CallsIn(steps \o senders), "err")
  /\ steps' = <<>> /\ senders' = <<>>
  /\ task' = IF task = "finish" THEN "ended" ELSE task
  /\ UNCHANGED <<result, announced, published, driveVars>>

\* A stream without the abort guard: a task is never cancelled.
Abort_Unlinked == FALSE /\ UNCHANGED vars

\* AbortOnDrop: the task is cancelled at an await of its own.
Abort ==
  /\ stream = "closed" /\ task \in {"route", "hung"}
  /\ task' = "aborted"
  /\ promise' = Resolve(Calls, "dropped")
  /\ UNCHANGED <<result, announced, chanVars, driveVars>>
----------------------------------------------------------------------------
\* The task and the caller are both done with the run.
Terminated == stream = "closed" /\ task \in {"ended", "aborted"} /\ UNCHANGED vars

Advance == \/ Accept
           \/ Decide
           \/ \E c \in Calls : Offload(c)
           \/ \E r \in {"ok", "err"} : Return(r)

Next == \/ Advance
        \/ Panic \/ Hang
        \/ \E c \in Calls : NoTargets(c) \/ Drop(c)
        \/ Pull
        \/ \E c \in Calls, r \in {"ok", "err"} : Serve(c, r)
        \/ Cancel \/ DropStream \/ Abort
        \/ Terminated

\* drive's select! picks a ready branch at random, and its locals are dropped
\* when it returns; an upstream answers unless the call is stuck.
HostFairness == /\ WF_vars(Pull)
                /\ \A c \in Calls \ Stuck : WF_vars(\E r \in {"ok", "err"} : Serve(c, r))
                /\ WF_vars(DropStream) /\ WF_vars(Abort)

\* The runtime polls the task and the host; an algorithm that has not hung goes
\* on whenever it can.
Spec == Init /\ [][Next]_vars /\ HostFairness /\ WF_vars(Advance)
----------------------------------------------------------------------------

\* A call the algorithm waits for is held by someone who will settle it: it is
\* in the channel or being served; one it still sends is queued.  Whatever way
\* the run is torn down, no future is left waiting on a promise nobody has
\* (core/algorithm.rs, call_model and drive).
NoLostPromise ==
  \A c \in Calls : /\ promise[c] = "waiting" => c \in serving \cup CallsIn(steps)
                   /\ promise[c] = "sending" => c \in CallsIn(senders)

\* What drive's caller sees of a run is the contract: it never meets a stream
\* that ends without a terminal item (run_stream: "Every run ends with exactly one
\* terminal item"), not even when route panics, and a response comes with exactly
\* the published decisions in their order.
Contract == INSTANCE RunContract WITH trace <- IF outcome = "ok" THEN trace ELSE <<>>
RunKeepsContract == Contract!Spec

\* drive returns unless the algorithm hangs: neither the full channel, nor a call
\* whose upstream never answers and that the algorithm can do without, holds it
\* (drive, Driver::new).
RunReturns == <>(outcome # "running" \/ task = "hung")

\* When drive is gone the algorithm's task goes away too, even one that hangs
\* without touching its driver (AbortOnDrop).
TaskReaped == (outcome # "running") ~> (task \in {"ended", "aborted"})

\* `run` "returns `Err` only when the run itself cannot complete": a run whose
\* algorithm returned a response does not end in an error (run, serve, drive).
ResponseNotLost == outcome = "err" => result # "ok"

\* Where the algorithm dropped no call that holds: a failed model call goes back
\* to the algorithm, and only there (serve, drive).
AwaitedResponseNotLost ==
  outcome = "err" /\ result = "ok" => \E c \in Calls : promise[c] = "dropped"
============================================================================
