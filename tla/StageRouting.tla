---------------------------- MODULE StageRouting ----------------------------
(***************************************************************************)
(* The stage router (libsy/src/algorithms/stage.rs, util/stage.rs,         *)
(* util/tool_signals.rs) over one coding-agent conversation: each turn the *)
(* whole conversation is read again into tool signals, the signals pick a  *)
(* tier or abstain, an optional judge takes what they leave, and the       *)
(* picker's default tier closes the cascade.                               *)
(*                                                                         *)
(* A tool result is what the error table makes of its text.  The scorer's  *)
(* tanh is monotone, so scores are compared before it, in 1/42 of the      *)
(* weight of one maxed signal (a soft error is 3/7 of it, production a     *)
(* ratio of at most three calls).                                          *)
(***************************************************************************)
EXTENDS Integers, Sequences, FiniteSets

CONSTANTS
    RecentWindow,          \* recent_window
    STALL_MIN_TURN_DEPTH,
    Threshold,             \* confidence_threshold, in 1/42 of a signal
    DefaultTier,           \* the picker's mode: "capable" or "efficient"
    HasJudge,              \* llm_fallback is configured
    Gated,                 \* only_on_wrong_signal_escalation
    MaxMessages            \* bound: messages of the conversation

\* What is asked of the constants
ASSUME StageAssumption ==
    /\ {RecentWindow, STALL_MIN_TURN_DEPTH, Threshold, MaxMessages} \subseteq Nat
    /\ DefaultTier \in {"capable", "efficient"} /\ {HasJudge, Gated} \subseteq BOOLEAN

VARIABLES messages,  \* the caller's conversation
          turn,      \* what the last routed turn sent and why; NoTurn before
          source,    \* State.extra[DECISION_SOURCE_KEY]
          compactions  \* whether the harness ever compacted this conversation
stageVars == <<messages, turn, source, compactions>>

Unit == 42
Severity(result) == CASE result = "critical" -> 60 [] result = "hard" -> 42
                      [] result = "soft" -> 18 [] OTHER -> 0

Text(summary) == [kind |-> "text", of |-> IF summary THEN "summary" ELSE "words"]
ToolCall(category) == [kind |-> "call", of |-> category]
\* A result without text counts as none
ToolResult(result) == [kind |-> IF result = "empty" THEN "empty" ELSE "result", of |-> result]
NoTurn == [tier |-> "none", source |-> "none", note |-> "none", signal |-> "none"]

-----------------------------------------------------------------------------
(* ToolSignals::from_request                                               *)

\* Where the last n messages of a kind are
Recent(conversation, kind, n) ==
    {i \in DOMAIN conversation :
        /\ conversation[i].kind = kind
        /\ Cardinality({j \in DOMAIN conversation : j > i /\ conversation[j].kind = kind}) < n}
MaxOf(S) == CHOOSE x \in S : \A y \in S : y =< x

\* build_signal: the worst result and the kinds of call within the window
build_signal(conversation) ==
    LET calls == Recent(conversation, "call", RecentWindow)
        results == Recent(conversation, "result", IF RecentWindow > 1 THEN RecentWindow ELSE 1)
        Among(positions, of) == {i \in positions : conversation[i].of = of}
    IN  [severity |-> MaxOf({0} \cup {Severity(conversation[i].of) : i \in results}),
         writes |-> Cardinality(Among(calls, "write")), reads |-> Cardinality(Among(calls, "read")),
         tests_passed |-> Among(results, "passed") # {},
         turn_depth |-> Len(conversation),
         compacted |-> \E i \in DOMAIN conversation : conversation[i] = Text(TRUE)]

-----------------------------------------------------------------------------
(* pick_tier                                                               *)

\* should_escalate that overlooks a compaction
should_escalate_ErrorsOnly(signal) == signal.severity >= Severity("critical")
should_escalate(signal) == signal.compacted \/ signal.severity >= Severity("critical")
should_deescalate(signal) == signal.tests_passed /\ signal.writes >= 1 /\ signal.severity = 0

\* score_signal: error, spinning and exploring push up, production down
score_signal(signal) ==
    LET ops == signal.writes + signal.reads
        \* spinning or exploring: deep, and nothing written lately
        stalled == signal.turn_depth >= STALL_MIN_TURN_DEPTH /\ signal.writes = 0
        production == IF ops = 0 THEN 0 ELSE (Unit * signal.writes) \div ops
    IN  signal.severity + (IF stalled THEN Unit ELSE 0) - production
Confidence(score) == IF score < 0 THEN -score ELSE score

Pick(tier, why) == [tier |-> tier, source |-> why]
pick_tier(signal) ==
    LET score == score_signal(signal)
    IN  IF should_escalate(signal) THEN Pick("capable", "override")
        ELSE IF should_deescalate(signal) THEN Pick("efficient", "tests_passed")
        ELSE IF Confidence(score) >= Threshold
             THEN Pick(IF score > 0 THEN "capable" ELSE "efficient", "dimensions")
        ELSE Pick("none", "ambiguous")

\* HandoffNoteConfig::note_for
note_for(pick) ==
    IF pick.tier = "efficient" THEN "deescalation"
    ELSE IF ~Gated \/ pick.source \in {"override", "dimensions"} THEN "escalation" ELSE "none"

\* SourceStamp over the judge, which may be undecided, and over the default target
Behind(verdict) == IF HasJudge /\ verdict # "ambiguous" THEN Pick(verdict, "llm-classifier")
                   ELSE Pick(DefaultTier, "fall_open")

\* StageClassifier appends the note of a turn it decided itself
Handoff(pick, chosen) == IF pick.tier # "none" THEN note_for(pick) ELSE "none"

-----------------------------------------------------------------------------
StageInit == messages = <<>> /\ turn = NoTurn /\ source = "none" /\ compactions = FALSE

Room(n) == Len(messages) + n =< MaxMessages /\ turn = NoTurn

\* The agent calls a tool, and the harness answers with its result
Work(category, result) ==
    /\ Room(2)
    /\ messages' = messages \o <<ToolCall(category), ToolResult(result)>>
    /\ UNCHANGED <<turn, source, compactions>>

\* The user or the assistant speaks
Speak == /\ Room(1)
         /\ messages' = Append(messages, Text(FALSE))
         /\ UNCHANGED <<turn, source, compactions>>

\* The agent's context overflowed: the harness puts a summary in its place
Compact == /\ turn = NoTurn /\ Len(messages) > 1
           /\ messages' = <<Text(TRUE)>>
           /\ compactions' = TRUE
           /\ UNCHANGED <<turn, source>>

\* One request through the cascade: ToolSignalProcessor, StageClassifier, and
\* what is behind it when it abstains
Route(verdict) ==
    /\ turn = NoTurn /\ messages # <<>>
    /\ LET signal == build_signal(messages)
           pick == pick_tier(signal)
           chosen == IF pick.tier # "none" THEN pick ELSE Behind(verdict)
       IN  /\ turn' = [tier |-> chosen.tier, source |-> chosen.source,
                       note |-> Handoff(pick, chosen),
                       signal |-> IF pick.tier # "none" THEN "decided" ELSE "abstained"]
           /\ source' = chosen.source
    /\ UNCHANGED <<messages, compactions>>

\* The run is dropped while it consults the judge
Cancelled ==  /\ turn = NoTurn /\ messages # <<>> /\ HasJudge
              /\ pick_tier(build_signal(messages)).tier = "none"
              /\ source' = "ambiguous"
              /\ UNCHANGED <<messages, turn, compactions>>

\* The reply reaches the caller; what was added to the request stays out of the
\* caller's conversation
Replied == /\ turn # NoTurn
           /\ turn' = NoTurn
           /\ UNCHANGED <<messages, source, compactions>>

StageNext ==
    \/ \E category \in {"write", "read", "other"},
          result \in {"empty", "clean", "passed", "soft", "hard", "critical"} : Work(category, result)
    \/ Speak \/ Compact
    \/ \E verdict \in {"capable", "efficient", "ambiguous"} : Route(verdict)
    \/ Cancelled \/ Replied

StageSpec == StageInit /\ [][StageNext]_stageVars

-----------------------------------------------------------------------------
(***************************************************************************)
(* An error holds the capable tier while it is among the recent results: a *)
(* clean or even a passed result right after it does not send the agent    *)
(* back to the efficient tier, unless code was written since ("an error's  *)
(* severity then persists for the recent window", build_signal).           *)
(***************************************************************************)
ErrorPersists ==
    turn # NoTurn =>
        LET calls == {messages[i].of : i \in Recent(messages, "call", RecentWindow)}
            results == {messages[i].of : i \in Recent(messages, "result", RecentWindow)}
        IN  /\ "critical" \in results => turn.tier = "capable"
            /\ "hard" \in results /\ "write" \notin calls /\ Threshold =< Unit
                   => turn.tier = "capable"

(***************************************************************************)
(* A conversation whose context once overflowed never goes back to the     *)
(* efficient tier, though compaction wiped every signal that had sent it   *)
(* to the capable one (ToolSignals.compacted).                             *)
(***************************************************************************)
CompactedStaysCapable == turn # NoTurn /\ compactions => turn.tier = "capable"

(***************************************************************************)
(* A note tells the model why the signals moved the turn, so only a turn   *)
(* the signals decided carries one: an escalation note only when an error, *)
(* a stall or a compaction was seen, never on a turn of the judge or of    *)
(* the default tier.                                                       *)
(***************************************************************************)
NoteTellsWhy ==
    /\ turn.note = "escalation" => turn.tier = "capable" /\ turn.source \in {"override", "dimensions"}
    /\ turn.note = "deescalation" => turn.tier = "efficient"
    /\ turn.signal = "abstained" => turn.note = "none"
    /\ turn # NoTurn => source = turn.source /\ turn.source # "ambiguous"

\* The stage router's turns follow from what the conversation shows (stage.rs, tool_signals.rs).
StageSound == ErrorPersists /\ CompactedStaysCapable /\ NoteTellsWhy
=============================================================================
