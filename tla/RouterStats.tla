----------------------------- MODULE RouterStats -----------------------------
(***************************************************************************)
(* What the server counts of the requests it routes (switchyard-server:    *)
(* lib.rs handle_llm_request and stats_observer, usage_metrics.rs observe, *)
(* stats/accumulator.rs, routing_log.rs): the calls of a run as they end,  *)
(* the usage of the served answer when its body or stream ends, and a line *)
(* of the routing log for each.  POST /v1/stats/reset clears the counters  *)
(* between any two of these.                                               *)
(*                                                                         *)
(* One model answers and one judges.  A usage is its number of tokens, a   *)
(* latency the order in which the samples came.                            *)
(***************************************************************************)
EXTENDS Requests, Naturals, Sequences, FiniteSets, SequencesExt, Functions

CONSTANTS SessionOf,                  \* the session of every request, or None
          Tokens,                     \* the tokens of every request's whole answer
          JudgeTokens,
          MaxCalls,                   \* bound: calls of each run
          MaxResets,                  \* bound: resets
          MAX_LATENCY_SAMPLES

\* What is asked of the constants
ASSUME StatsAssumption ==
    /\ IsFiniteSet(Request) /\ None \notin Session
    /\ Tokens \in [Request -> Nat] /\ SessionOf \in [Request -> Session \cup {None}]
    /\ JudgeTokens \in Nat /\ MAX_LATENCY_SAMPLES \in Nat \ {0}

VARIABLES
    progress,   \* per request: "routing", "answered" (a call gave an answer), "streaming",
                \* "done", "failed", "gone"
    calls,      \* per request, the calls its run has made
    usage,      \* per request, latest_usage of its stream
    stats,      \* StatsAccumulatorInner
    latency,    \* the answering model's total_latency histogram
    log,        \* the routing log's records, a bag: no reader depends on their order
    epoch,      \* resets so far
    ended,      \* per request, the epoch its answer's usage was recorded in; 0 before (history)
    judged,     \* per request, its judge calls that succeeded with a usage (history)
    samples     \* every latency recorded since the last reset (history)
statsVars == <<progress, calls, usage, stats, latency, log, epoch, ended, judged, samples>>

NoStats == [total_requests |-> 0, total_errors |-> 0, calls |-> 0, tokens |-> 0,
            classifier_requests |-> 0, classifier_errors |-> 0, classifier_tokens |-> 0]
NoLatency == [count |-> 0, samples |-> <<>>]

StatsInit ==
    /\ progress = [r \in Request |-> "routing"] /\ calls = [r \in Request |-> 0]
    /\ usage = [r \in Request |-> 0]
    /\ stats = NoStats /\ latency = NoLatency /\ log = EmptyBag
    /\ epoch = 1 /\ ended = [r \in Request |-> 0] /\ judged = [r \in Request |-> 0] /\ samples = <<>>

-----------------------------------------------------------------------------
\* LatencyHistogram::record
record(histogram, sample) ==
    LET count == histogram.count + 1
    IN  [count |-> count,
         samples |-> IF Len(histogram.samples) < MAX_LATENCY_SAMPLES
                     THEN Append(histogram.samples, sample)
                     ELSE [histogram.samples EXCEPT
                             ![1 + ((count - 1) % MAX_LATENCY_SAMPLES)] = sample]]

Record(r, tier, tokens) == [session |-> SessionOf[r], tier |-> tier, tokens |-> tokens]

\* The line an observed call leaves in the routing log
CallLines(r, judges) == IF judges THEN SetToBag({Record(r, "classifier", JudgeTokens)}) ELSE EmptyBag

\* A judge's call that succeeds with a usage
Judges(tier, success, reports) == tier = "classifier" /\ success /\ reports

\* A call of the run ends and stats_observer sees it: a judge's usage, if the call reports
\* one, is logged and counted apart, an answer's waits for the end of the answer
Observe(r, tier, success, reports) ==
    /\ progress[r] \in {"routing", "answered"} /\ calls[r] < MaxCalls[r]
    /\ progress' = [progress EXCEPT ![r] = IF tier = "answer" /\ success THEN "answered" ELSE @]
    /\ calls' = [calls EXCEPT ![r] = @ + 1]
    /\ stats' = IF tier = "answer"
                THEN [stats EXCEPT !.total_requests = @ + 1,
                                   !.calls = IF success THEN @ + 1 ELSE @,
                                   !.total_errors = IF success THEN @ ELSE @ + 1]
                ELSE [stats EXCEPT !.classifier_requests = @ + 1,
                                   !.classifier_errors = IF success THEN @ ELSE @ + 1,
                                   !.classifier_tokens =
                                        IF Judges(tier, success, reports) THEN @ + JudgeTokens ELSE @]
    /\ log' = log (+) CallLines(r, Judges(tier, success, reports))
    /\ judged' = [judged EXCEPT ![r] = IF Judges(tier, success, reports) THEN @ + 1 ELSE @]
    /\ UNCHANGED <<usage, latency, epoch, ended, samples>>

\* The run fails, and the client gets its error
RunFails(r) == /\ progress[r] \in {"routing", "answered"} /\ calls[r] > 0
               /\ progress' = [progress EXCEPT ![r] = "failed"]
               /\ UNCHANGED <<calls, usage, stats, latency, log, epoch, ended, judged, samples>>

\* record_terminal and the routing log's line, once the whole usage is known
RecordTerminal(r, tokens) ==
    /\ stats' = [stats EXCEPT !.tokens = @ + tokens]
    /\ latency' = record(latency, Len(samples) + 1)
    /\ samples' = Append(samples, Len(samples) + 1)
    /\ log' = log (+) SetToBag({Record(r, "answer", tokens)})
    /\ ended' = [ended EXCEPT ![r] = epoch]

\* The run returns a whole answer, which a call of it gave
Buffered(r) == /\ progress[r] = "answered"
               /\ RecordTerminal(r, Tokens[r])
               /\ progress' = [progress EXCEPT ![r] = "done"]
               /\ usage' = [usage EXCEPT ![r] = Tokens[r]]
               /\ UNCHANGED <<calls, epoch, judged>>

\* The run returns a stream
StreamStarts(r) ==
    /\ progress[r] = "answered"
    /\ progress' = [progress EXCEPT ![r] = "streaming"]
    /\ UNCHANGED <<calls, usage, stats, latency, log, epoch, ended, judged, samples>>

\* Usage that is counted as it comes
UsageChunk_Counts(r, tokens) ==
    /\ progress[r] = "streaming" /\ usage[r] < tokens /\ tokens =< Tokens[r]
    /\ usage' = [usage EXCEPT ![r] = tokens]
    /\ stats' = [stats EXCEPT !.tokens = @ + tokens]
    /\ UNCHANGED <<progress, calls, latency, log, epoch, ended, judged, samples>>
\* A usage chunk, which counts all tokens so far
UsageChunk(r, tokens) ==
    /\ progress[r] = "streaming" /\ usage[r] < tokens /\ tokens =< Tokens[r]
    /\ usage' = [usage EXCEPT ![r] = tokens]
    /\ UNCHANGED <<progress, calls, stats, latency, log, epoch, ended, judged, samples>>

\* An error, a stream's or one in it, ends the stream
StreamFails(r) ==
    /\ progress[r] = "streaming"
    /\ stats' = [stats EXCEPT !.total_errors = @ + 1]
    /\ progress' = [progress EXCEPT ![r] = "failed"]
    /\ UNCHANGED <<calls, usage, latency, log, epoch, ended, judged, samples>>

\* The stream ends with the usage that came last, if with none at all then a default one
StreamEnds(r) == /\ progress[r] = "streaming"
                 /\ RecordTerminal(r, usage[r])
                 /\ progress' = [progress EXCEPT ![r] = "done"]
                 /\ UNCHANGED <<calls, usage, epoch, judged>>

\* The client hangs up: the wrapped stream is dropped where it is
HangsUp(r) == /\ progress[r] = "streaming"
              /\ progress' = [progress EXCEPT ![r] = "gone"]
              /\ UNCHANGED <<calls, usage, stats, latency, log, epoch, ended, judged, samples>>

\* StatsAccumulator::reset; the log is not the counters'
Reset == /\ epoch =< MaxResets
         /\ stats' = NoStats /\ latency' = NoLatency /\ samples' = <<>>
         /\ epoch' = epoch + 1
         /\ UNCHANGED <<progress, calls, usage, log, ended, judged>>

StatsNext ==
    \/ \E r \in Request :
         \/ \E tier \in {"answer", "classifier"}, success, reports \in BOOLEAN :
              Observe(r, tier, success, reports)
         \/ RunFails(r) \/ Buffered(r) \/ StreamStarts(r) \/ StreamFails(r) \/ StreamEnds(r) \/ HangsUp(r)
         \/ \E tokens \in {1, Tokens[r]} : UsageChunk(r, tokens)
    \/ Reset

StatsSpec == StatsInit /\ [][StatsNext]_statsVars
-----------------------------------------------------------------------------
\* routing_log::snapshot: the tokens of a session's lines
snapshot(session) == SumFunctionOnSet([line \in DOMAIN log |-> log[line] * line.tokens],
                                      {line \in DOMAIN log : line.session = session})
Sum(f, S) == SumFunctionOnSet(f, S)

(***************************************************************************)
(* The counters hold the usage of exactly the answers that came to their   *)
(* end since the last reset, each once and as it was reported last: not    *)
(* what a stream that broke or was hung up on had reported, nor a judge's  *)
(* tokens, however resets fall between a request's calls and its end.      *)
(***************************************************************************)
TokensCountedOnce ==
    LET answered == {r \in Request : ended[r] = epoch}
    IN  /\ stats.tokens = Sum([r \in Request |-> usage[r]], answered)
        /\ latency.count = Cardinality(answered)
        /\ \A r \in answered : progress[r] = "done"

(***************************************************************************)
(* A session's snapshot of the routing log is the usage of its answers and *)
(* of the judge calls that reported one, none counted twice (stats_observer: "a   *)
(* second append here" would be "a double count"), and no reset clears it. *)
(***************************************************************************)
SessionAccounted ==
    \A s \in Session :
        LET own == {r \in Request : SessionOf[r] = s}
        IN  snapshot(s) = Sum([r \in Request |-> IF ended[r] > 0 THEN usage[r] ELSE 0], own)
                          + JudgeTokens * Sum(judged, own)

(***************************************************************************)
(* The latency ring holds the newest samples since the last reset, as many *)
(* as it has room for, also after it wrapped.                              *)
(***************************************************************************)
RingHoldsNewest ==
    LET n == Len(samples)
        newest == (IF n > MAX_LATENCY_SAMPLES THEN n - MAX_LATENCY_SAMPLES + 1 ELSE 1)..n
    IN  latency.count = n /\ ToSet(latency.samples) = newest
        /\ Len(latency.samples) = Cardinality(newest)

\* Counters, routing log and latency ring agree on what the requests used, whatever resets
\* and hang-ups came between (stats/accumulator.rs, usage_metrics.rs, routing_log.rs).
StatsSound == TokensCountedOnce /\ SessionAccounted /\ RingHoldsNewest
=============================================================================
