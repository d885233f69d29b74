---------------------------- MODULE ModelClient ----------------------------
(***************************************************************************)
(* The calls one run offloads, as the host serves them                     *)
(* (libsy-llm-client/src/run.rs, client.rs): each call tries its candidate *)
(* models in order, each candidate spends its own budget of HTTP attempts, *)
(* and a streamed answer is handed on as soon as its headers arrive, with  *)
(* a span that stays open until its body ends.                             *)
(*                                                                         *)
(* Time counts in ticks: only which calls overlap matters, and a backoff   *)
(* lasts any number of them.                                               *)
(***************************************************************************)
EXTENDS Naturals, FiniteSets, Folds

CONSTANTS
    Calls,        \* the model calls of the run
    AnswerCalls,  \* those whose response is the answer, not a routing verdict
    StreamCalls,  \* those whose body asks for a stream
    Candidates,   \* how many models a call may try
    MaxRetries,   \* per candidate, the additional attempts its backend allows
    Unrouted,     \* the candidates of a call no client or backend is configured for
    Faults,       \* the failures an attempt may meet
    Horizon       \* bound: ticks of the clock

HttpFailures == {"http_403", "http_408", "http_429", "http_4xx", "http_5xx"}

\* What is asked of the constants
ASSUME ClientAssumption ==
    /\ AnswerCalls \subseteq Calls /\ StreamCalls \subseteq Calls
    /\ Candidates \in Nat /\ Horizon \in Nat
    /\ MaxRetries \in [1..Candidates -> Nat]
    /\ Unrouted \subseteq Calls \X (1..Candidates)
    /\ Faults \subseteq HttpFailures \cup {"transport", "timeout", "context_window"}

VARIABLES
    phase,     \* per call: "new", "trying", "backoff", "streaming" or "done"
    at,        \* the candidate a call is at; 0 before the first
    attempts,  \* HTTP attempts each candidate has made for a call
    verdict,   \* how each candidate ended for a call: "none", "ok" or a failure
    windows,   \* per call, the [from, to] its current or successful candidate took
    body,      \* what the reader of a streamed answer has seen of it
    span,      \* per call, the outcome its client_call span records
    clock,
    flights,   \* per tick, the calls in flight and their candidates (history)
    over,      \* the run returned an answer
    overhead   \* the routing overhead it then reported
clientVars == <<phase, at, attempts, verdict, windows, body, span, clock, flights, over, overhead>>

Models == 1..Candidates

\* AttemptFailure::is_retryable with metrics::is_retryable_http_status
is_retryable(failure) == failure \in {"transport", "timeout", "http_408", "http_429", "http_5xx"}

\* fallback_reason that forgets the candidate a caller may not use
fallback_reason_Retryable(failure) ==
    IF failure = "context_window" THEN "context_window"
    ELSE IF is_retryable(failure) THEN "unavailable" ELSE "none"

\* fallback_reason: why a failed candidate is worth routing around, if it is
fallback_reason(failure) ==
    IF failure = "context_window" THEN "context_window"
    ELSE IF is_retryable(failure) \/ failure = "http_403" THEN "unavailable" ELSE "none"

-----------------------------------------------------------------------------

\* RoutedCallWindows::served: in the order of their starts, what each window
\* covers beyond the cursor
Latest(ws, calls) == CHOOSE c \in calls : \A d \in calls : ws[d].from =< ws[c].from

sweep(window, acc) ==
    LET covered == IF acc.covered > window.from THEN acc.covered ELSE window.from
    IN  IF window.to > covered
        THEN [covered |-> window.to, total |-> acc.total + (window.to - covered)]
        ELSE [covered |-> covered, total |-> acc.total]

served(ws, recorded) ==
    MapThenFoldSet(sweep, [covered |-> 0, total |-> 0], LAMBDA c : ws[c],
                   LAMBDA calls : Latest(ws, calls), recorded).total

ClientInit ==
    /\ phase = [c \in Calls |-> "new"] /\ at = [c \in Calls |-> 0]
    /\ attempts = [c \in Calls |-> [m \in Models |-> 0]]
    /\ verdict = [c \in Calls |-> [m \in Models |-> "none"]]
    /\ windows = [c \in Calls |-> [from |-> 0, to |-> 0]]
    /\ body = [c \in Calls |-> {}] /\ span = [c \in Calls |-> "open"]
    /\ clock = 0 /\ flights = [t \in 1..Horizon |-> {}] /\ over = FALSE /\ overhead = 0

\* call_one up to the client: the candidate is stamped on the request
Stamp(c, m) ==
    /\ at' = [at EXCEPT ![c] = m]
    /\ phase' = [phase EXCEPT ![c] = "trying"]
    /\ windows' = [windows EXCEPT ![c] = [from |-> clock, to |-> clock]]

\* The run offloads a call with at least one candidate
Offload(c) ==
    /\ ~over /\ phase[c] = "new" /\ Candidates > 0
    /\ Stamp(c, 1)
    /\ UNCHANGED <<attempts, verdict, body, span, clock, flights, over, overhead>>

\* call_first_available after a candidate failed: the next one, or the call fails
Fail(c, failure) ==
    /\ verdict' = [verdict EXCEPT ![c][at[c]] = failure]
    /\ span' = [span EXCEPT ![c] = "error"]
    /\ IF at[c] < Candidates /\ fallback_reason(failure) # "none"
       THEN Stamp(c, at[c] + 1)
       ELSE /\ phase' = [phase EXCEPT ![c] = "done"]
            /\ UNCHANGED <<at, windows>>

\* ClientRouter::route or backend_for knows no backend: no attempt is made
Unconfigured(c) ==
    /\ phase[c] = "trying" /\ <<c, at[c]>> \in Unrouted
    /\ Fail(c, "configuration")
    /\ UNCHANGED <<attempts, body, clock, flights, over, overhead>>

\* send_once fails, and send_encoded retries it within the candidate's budget
AttemptFails(c, failure) ==
    /\ phase[c] = "trying" /\ <<c, at[c]>> \notin Unrouted
    /\ attempts' = [attempts EXCEPT ![c][at[c]] = @ + 1]
    /\ IF attempts[c][at[c]] < MaxRetries[at[c]] /\ is_retryable(failure)
       THEN /\ phase' = [phase EXCEPT ![c] = "backoff"]
            /\ UNCHANGED <<at, verdict, windows, span>>
       ELSE Fail(c, failure)
    /\ UNCHANGED <<body, clock, flights, over, overhead>>

\* The backoff, or the upstream's Retry-After up to its cap, is over
Retry(c) ==
    /\ phase[c] = "backoff"
    /\ phase' = [phase EXCEPT ![c] = "trying"]
    /\ UNCHANGED <<at, attempts, verdict, windows, body, span, clock, flights, over, overhead>>

\* A successful status.  A buffered body was read inside the attempt; a stream is
\* handed on at its headers, and its span stays open.
AttemptSucceeds(c) ==
    /\ phase[c] = "trying" /\ <<c, at[c]>> \notin Unrouted
    /\ attempts' = [attempts EXCEPT ![c][at[c]] = @ + 1]
    /\ verdict' = [verdict EXCEPT ![c][at[c]] = "ok"]
    /\ windows' = [windows EXCEPT ![c].to = clock]
    /\ phase' = [phase EXCEPT ![c] = IF c \in StreamCalls THEN "streaming" ELSE "done"]
    /\ span' = [span EXCEPT ![c] = IF c \in StreamCalls THEN "open" ELSE "ok"]
    /\ UNCHANGED <<at, body, clock, flights, over, overhead>>

\* A buffered body that is no JSON, or no response of its format, is never retried
BodyUnreadable(c) ==
    /\ phase[c] = "trying" /\ <<c, at[c]>> \notin Unrouted /\ c \notin StreamCalls
    /\ attempts' = [attempts EXCEPT ![c][at[c]] = @ + 1]
    /\ Fail(c, "response_translation")
    /\ UNCHANGED <<body, clock, flights, over, overhead>>

\* ClientStreamObserver: observe, complete and drop.  A failure is final and no
\* later item is looked at; a finished message is no longer a cancellation.
observe(outcome, item) ==
    IF item = "error" THEN "error"
    ELSE IF outcome # "open" THEN outcome
    ELSE IF item = "left" THEN "cancelled" ELSE "ok"

\* The reader of a stream polls its next item, or drops it
StreamItem(c, item) ==
    /\ phase[c] = "streaming"
    /\ item \notin body[c]
    /\ body' = [body EXCEPT ![c] = @ \cup {item}]
    /\ span' = [span EXCEPT ![c] = observe(@, item)]
    /\ phase' = [phase EXCEPT ![c] = IF item \in {"end", "left"} THEN "done" ELSE @]
    /\ UNCHANGED <<at, attempts, verdict, windows, clock, flights, over, overhead>>

Tick == /\ clock < Horizon /\ ~over
        /\ clock' = clock + 1
        /\ flights' = [flights EXCEPT ![clock'] =
                          {<<c, at[c]>> : c \in {d \in Calls : phase[d] \in {"trying", "backoff"}}}]
        /\ UNCHANGED <<phase, at, attempts, verdict, windows, body, span, over, overhead>>

\* Answer calls whose candidate succeeded: only these are recorded
Recorded == {c \in AnswerCalls : \E m \in Models : verdict[c][m] = "ok"}

\* run, after drive returned: the routing overhead of a run that served an answer
RunEnds ==
    /\ ~over
    /\ \A c \in Calls : phase[c] \in {"new", "streaming", "done"}
    /\ Recorded # {}
    /\ over' = TRUE /\ overhead' = clock - served(windows, Recorded)
    /\ UNCHANGED <<phase, at, attempts, verdict, windows, body, span, clock, flights>>

ClientNext ==
    \/ \E c \in Calls : \/ Offload(c) \/ Unconfigured(c) \/ Retry(c)
                        \/ AttemptSucceeds(c) \/ BodyUnreadable(c)
                        \/ \E failure \in Faults : AttemptFails(c, failure)
                        \/ \E item \in {"stop", "error", "end", "left"} : StreamItem(c, item)
    \/ Tick \/ RunEnds

ClientSpec == ClientInit /\ [][ClientNext]_clientVars

-----------------------------------------------------------------------------

\* What the client's tests and docs call an unavailable or an overflowing candidate
RoutableAround == {"context_window", "transport", "timeout",
                   "http_403", "http_408", "http_429", "http_5xx"}

(***************************************************************************)
(* Fallback is what run.rs says of it: a candidate is called only after    *)
(* every one before it ended with a failure worth routing around and, when *)
(* that failure could be retried, with its retry budget spent; the worst   *)
(* case is candidates x (max_retries + 1) attempts; and a call fails with  *)
(* candidates left only on a failure that forbids another.  A forbidden or *)
(* an overflowing candidate is where the two classifications differ: it is *)
(* not retried, but routed around.                                         *)
(***************************************************************************)
FallbackJustified ==
    \A c \in Calls :
        /\ \A m \in Models :
            /\ attempts[c][m] =< MaxRetries[m] + 1
            /\ m < at[c] => verdict[c][m] \in RoutableAround
            /\ verdict[c][m] \in RoutableAround \ {"context_window", "http_403"} =>
                   attempts[c][m] = MaxRetries[m] + 1
            /\ m > at[c] => verdict[c][m] = "none" /\ attempts[c][m] = 0
        /\ phase[c] = "done" /\ at[c] < Candidates =>
               verdict[c][at[c]] \notin RoutableAround

(***************************************************************************)
(* The routing overhead is the time of the run in which no candidate was   *)
(* in flight whose answer was used, however the calls overlapped: verdict  *)
(* calls, failed candidates and the gaps count, an overlap counts once.    *)
(***************************************************************************)
OverheadIsUnserved ==
    over =>
        overhead = Cardinality({t \in 1..clock :
                       ~\E f \in flights[t] : f[1] \in AnswerCalls /\ verdict[f[1]][f[2]] = "ok"})

(***************************************************************************)
(* The span of a streamed call says how its body ended: an error wins over *)
(* a finished message, a reader that leaves after the message was finished *)
(* did not cancel it.                                                      *)
(***************************************************************************)
SpanTellsEnd ==
    \A c \in StreamCalls : phase[c] = "done" /\ at[c] # 0 /\ verdict[c][at[c]] = "ok" =>
        span[c] = IF "error" \in body[c] THEN "error"
                  ELSE IF {"stop", "end"} \cap body[c] # {} THEN "ok" ELSE "cancelled"

(***************************************************************************)
(* Once a candidate answered, nothing is called again for it: a stream     *)
(* whose body fails is past the retry boundary (client.rs send_once).      *)
(***************************************************************************)
AnsweredOnce ==
    [][\A c \in Calls : at[c] # 0 /\ verdict[c][at[c]] = "ok" =>
           at'[c] = at[c] /\ attempts'[c] = attempts[c]]_clientVars

(***************************************************************************)
(* Candidates follow one another only for a reason that allows it, none    *)
(* after an answer, and the overhead and the spans reported are those of   *)
(* the calls made (client.rs, run.rs, observability.rs).                   *)
(***************************************************************************)
ClientSound == [](FallbackJustified /\ OverheadIsUnserved /\ SpanTellsEnd) /\ AnsweredOnce
=============================================================================
