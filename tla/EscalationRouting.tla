-------------------------- MODULE EscalationRouting --------------------------
(***************************************************************************)
(* The escalation classifier (libsy/src/algorithms/llm_class.rs            *)
(* EscalationClassifier, util/escalation.rs EscalationPolicy, util/        *)
(* llm_judge.rs JudgeClassifier): each turn is answered by the efficient   *)
(* model first, a judge reads the trajectory with that answer in it, and   *)
(* enough escalate verdicts in a row move the session to the capable model *)
(* for good.  The streak is part of the session's state, which the turn    *)
(* holds while it awaits both calls; a turn without a session has a state  *)
(* of its own.  A turn ends here when it is decided: a call for the        *)
(* capable model is offered to it first and to the efficient one after it, *)
(* and which of them answers, or that it fails, is left to the host.  When *)
(* a session's state is dropped is FallThroughSessions'.                   *)
(***************************************************************************)
EXTENDS Requests, Naturals, Sequences

CONSTANT confirmations

\* What is asked of the constants
EscalationAssumption == confirmations \in Nat \ {0} /\ None \notin Session \cup Request
ASSUME EscalationAssumed == EscalationAssumption

VARIABLES
    streak,   \* per session, State.extra[STREAK_KEY]
    held_by,  \* per session, the turn that holds its state
    turns,    \* per request, where its turn is, the answer calls it made, and what it served
    verdicts  \* per session, the usable verdicts of its turns in order (history)
escalationVars == <<streak, held_by, turns, verdicts>>

NewTurn == [session |-> None, step |-> "idle", paid |-> <<>>, served |-> "none", why |-> "none"]

EscalationInit ==
    /\ streak = [s \in Session |-> 0] /\ held_by = [s \in Session |-> None]
    /\ turns = [r \in Request |-> NewTurn]
    /\ verdicts = [s \in Session |-> <<>>]

\* The session of a turn, if it has one
Own(r) == Session \cap {turns[r].session}
Streak(r) == IF Own(r) = {} THEN 0 ELSE streak[turns[r].session]

TakeState(r) == /\ \A s \in Own(r) : held_by[s] = None
                /\ held_by' = [s \in Session |-> IF s \in Own(r) THEN r ELSE held_by[s]]
GiveBack(r) == held_by' = [s \in Session |-> IF held_by[s] = r THEN None ELSE held_by[s]]

Arrive(r, s) ==
    /\ turns[r].step = "idle"
    /\ turns' = [turns EXCEPT ![r].session = s, ![r].step = "waiting"]
    /\ UNCHANGED <<streak, held_by, verdicts>>

\* execute_session takes the state, and the classifier starts
Start(r) == /\ turns[r].step = "waiting" /\ TakeState(r)
            /\ turns' = [turns EXCEPT ![r].step = "scoring"]
            /\ UNCHANGED <<streak, verdicts>>

\* The capable model is decided on: the state is given back, and the call goes out with the
\* capable model first among its candidates
Capable(r, why) ==
    /\ turns' = [turns EXCEPT ![r].step = "done", ![r].served = "capable", ![r].why = why,
                              ![r].paid = Append(@, "capable")]
    /\ GiveBack(r)

\* score: a confirmed session stays capable without a judge; any other turn is first
\* an answer call with the efficient model as its only candidate
Score(r) ==
    /\ turns[r].step = "scoring"
    /\ IF Streak(r) >= confirmations THEN Capable(r, "latched")
       ELSE /\ turns' = [turns EXCEPT ![r].step = "efficient", ![r].paid = <<"efficient">>]
            /\ UNCHANGED held_by
    /\ UNCHANGED <<streak, verdicts>>

\* The call, or the stream while it is buffered, fails: only a context the model cannot
\* hold, and only a transport that breaks, move the turn to the capable model
Fails(r, error) ==
    /\ turns[r].step \in {"efficient", "buffering"}
    /\ IF error = (IF turns[r].step = "efficient" THEN "context_window" ELSE "transport")
       THEN Capable(r, "unusable")
       ELSE /\ turns' = [turns EXCEPT ![r].step = "failed"]
            /\ GiveBack(r)
    /\ UNCHANGED <<streak, verdicts>>

EfficientAnswers(r) ==
    /\ turns[r].step \in {"efficient", "buffering"}
    /\ turns' = [turns EXCEPT ![r].step = IF @ = "efficient" THEN "buffering" ELSE "judging"]
    /\ UNCHANGED <<streak, held_by, verdicts>>

\* A decline clears the streak, an outage is no evidence
Pending(held, verdict) ==
    CASE verdict = "escalate" -> held + 1 [] verdict = "decline" -> 0 [] OTHER -> held

\* Moving a turn on its verdict alone
Confirmed_FirstVerdict(held, verdict) == verdict = "escalate"
Confirmed(held, verdict) == verdict = "escalate" /\ Pending(held, verdict) >= confirmations

\* The judge's verdict, or "unavailable" when its call, its stream or its text fails
\* (JudgeClassifier falls open): the streak is written, and the turn is served by the
\* answer that was already paid for, or by the capable model
VerdictGiven(r, verdict) ==
    /\ turns[r].step = "judging"
    /\ streak' = [s \in Session |-> IF s \in Own(r) THEN Pending(streak[s], verdict) ELSE streak[s]]
    /\ verdicts' = [s \in Session |-> IF s \in Own(r) /\ verdict # "unavailable"
                                      THEN Append(verdicts[s], verdict) ELSE verdicts[s]]
    /\ IF Confirmed(Streak(r), verdict) THEN Capable(r, "judged")
       ELSE /\ turns' = [turns EXCEPT ![r].step = "done", ![r].served = "efficient", ![r].why = verdict]
            /\ GiveBack(r)

\* The caller goes away at one of the awaits
Leave(r) ==
    /\ turns[r].step \in {"waiting", "efficient", "buffering", "judging"}
    /\ turns' = [turns EXCEPT ![r].step = "gone"]
    /\ GiveBack(r)
    /\ UNCHANGED <<streak, verdicts>>

EscalationNext == \E r \in Request :
    \/ \E s \in Session \cup {None} : Arrive(r, s)
    \/ Start(r) \/ Score(r) \/ EfficientAnswers(r) \/ Leave(r)
    \/ \E error \in {"context_window", "transport", "timeout"} : Fails(r, error)
    \/ \E verdict \in {"escalate", "decline", "unavailable"} : VerdictGiven(r, verdict)

EscalationSpec == EscalationInit /\ [][EscalationNext]_escalationVars

-----------------------------------------------------------------------------
\* How many of the newest verdicts escalate without a decline in between
Trailing(s) ==
    LET log == verdicts[s]
        declined == {i \in DOMAIN log : log[i] = "decline"}
    IN  Len(log) - (IF declined = {} THEN 0 ELSE CHOOSE i \in declined : \A j \in declined : j =< i)

(***************************************************************************)
(* A session's streak is the number of escalate verdicts in a row of its   *)
(* own turns, whatever other turns, outages of the judge, failures and     *)
(* cancellations come in between, and a confirmed one never gets another   *)
(* judge: the turns that wait for the session see the verdict before them. *)
(***************************************************************************)
StreakIsConsecutive ==
    \A s \in Session :
        /\ streak[s] = Trailing(s) /\ streak[s] =< confirmations
        /\ streak[s] = confirmations =>
               ~\E r \in Request : turns[r].session = s /\ turns[r].step \in {"efficient", "buffering", "judging"}

(***************************************************************************)
(* A turn asks for two answers only when its efficient one was not usable  *)
(* or the judge confirmed an escalation; every other turn is decided to be *)
(* served by the model it asked, and one without a session can only ever   *)
(* be escalated when a single verdict confirms (EscalationJudgeConfig).    *)
(***************************************************************************)
PaidOnce ==
    \A r \in Request : LET t == turns[r] IN
        /\ t.step = "done" => t.paid[Len(t.paid)] = t.served
        /\ Len(t.paid) =< (IF t.why \in {"unusable", "judged"} THEN 2 ELSE 1)
        /\ t.why = "judged" =>
               IF Own(r) = {} THEN confirmations = 1 ELSE streak[t.session] = confirmations

\* The escalation streak counts consecutive verdicts, and a turn is paid for once
\* (escalation.rs).
EscalationSound == StreakIsConsecutive /\ PaidOnce
=============================================================================
