---------------------------- MODULE JudgeContext ----------------------------
(***************************************************************************)
(* What a judge is shown of a conversation (libsy/src/algorithms/          *)
(* llm_class.rs trim_messages, window_start, task_messages; util/          *)
(* escalation.rs summarize_for_judge, truncate_middle).                    *)
(*                                                                         *)
(* A message has a role, the tool calls and results among its blocks in    *)
(* order, and a length in units of text.  A part of a conversation is the  *)
(* set of the positions of its messages; the judge reads it in their       *)
(* order, the instructions and the task first.                             *)
(***************************************************************************)
EXTENDS Integers, Sequences, FiniteSets, SequencesExt, FiniteSetsExt, Functions

CONSTANTS
    Message,              \* the messages a conversation is made of
    MaxSaid,              \* bound: messages of the conversation
    Windows,              \* recent_turn_window: -1 is None
    SYSTEM_CHARS, FIRST_USER_CHARS, window_message_chars, MAX_REQUEST_CHARS,
    TRIM_MARKER, MinKeep, \* the marker's length, and the least text kept around it
    Header,               \* the length of the coverage header, by the lines it counts
    Label                 \* the length of a line's role

\* What is asked of the constants
ASSUME JudgeAssumption ==
    /\ \A m \in Message : /\ Len(m.blocks) \in Nat /\ DOMAIN m.blocks = 1..Len(m.blocks)
                          /\ \A k \in DOMAIN m.blocks : m.blocks[k].kind \in {"call", "result"}
                          /\ m.length \in Nat
    /\ Windows \subseteq Int
    /\ {SYSTEM_CHARS, FIRST_USER_CHARS, window_message_chars, TRIM_MARKER, MinKeep, MaxSaid} \subseteq Nat
    /\ \A n \in 0..MaxSaid : Header[n] \in Nat /\ (n > 0 => Header[n] >= Header[n - 1])
    /\ {MAX_REQUEST_CHARS, Label} \subseteq Nat \ {0}

VARIABLES
    conversation,
    shown,      \* what the capability judge was sent; NoView before
    summary     \* what the escalation judge was sent; NoSummary before
judgeVars == <<conversation, shown, summary>>

-----------------------------------------------------------------------------
(* The trailing window                                                     *)

Instructions(messages) == {i \in DOMAIN messages : messages[i].role = "system"}
Users(messages) == {i \in DOMAIN messages : messages[i].role = "user"}

\* The n newest of the messages S, and those of S from one of them on
Newest(S, n) == {i \in S : Cardinality({j \in S : j > i}) < n}
From(S, start) == {i \in S : i >= start}

\* One block, and one message's blocks newest first, on the ids that wait for a call
Pair(block, ids) == IF block.kind = "result" THEN ids \cup {block.id} ELSE ids \ {block.id}
Unpair(message, ids) == FoldRight(Pair, message.blocks, ids)

\* The ids that wait for a call when the pass, newest first, has read the messages S
Unpaired(messages, S) ==
    MapThenFoldSet(Unpair, {}, LAMBDA i : messages[i], LAMBDA T : Min(T), S)

\* A window that counts messages alone
window_start_Counted(messages, tail, window) == Newest(tail, window)

\* window_start: the window reaches back to the nearest start that leaves no id waiting
window_start(messages, tail, window) ==
    LET counted == Newest(tail, window)
        whole == {start \in tail : /\ counted \subseteq From(tail, start)
                                   /\ Unpaired(messages, From(tail, start)) = {}}
    IN  IF counted = {} \/ whole = {} THEN counted ELSE From(tail, Max(whole))

\* trim_messages: instructions, the opening task, and the window behind it
trim_messages(messages, window) ==
    LET task == Min(Users(messages))
        tail == {i \in DOMAIN messages : i > task} \ Instructions(messages)
    IN  IF Users(messages) = {}
        THEN [kept |-> Instructions(messages), tail |-> {}, read |-> {}, window |-> window]
        ELSE [kept |-> Instructions(messages) \cup {task}, tail |-> tail,
              read |-> window_start(messages, tail, window), window |-> window]

\* task_messages: the opening task and the latest follow-up
task_messages(messages) ==
    [kept |-> IF Users(messages) = {} THEN {} ELSE {Min(Users(messages)), Max(Users(messages))},
     tail |-> {}, read |-> {}, window |-> -1]

\* TaskInput::build_messages
build_messages(messages, window) ==
    IF window = -1 THEN task_messages(messages) ELSE trim_messages(messages, window)

-----------------------------------------------------------------------------
(* The escalation judge's transcript: its lines by their lengths           *)

truncate_middle(length, limit) ==
    IF length =< limit THEN length
    ELSE LET kept == IF limit - TRIM_MARKER > MinKeep THEN limit - TRIM_MARKER ELSE MinKeep
         IN  (IF kept < length THEN kept ELSE length) + TRIM_MARKER

\* What a message's line, and its newline, takes of the transcript
line(message, limit) == Label + truncate_middle(message.length, limit) + 1

\* The system messages and the first user's, which every transcript shows
Anchors(messages) == Instructions(messages) \cup {i \in Users(messages) : \A j \in Users(messages) : i =< j}

Lines(messages) ==
    [i \in DOMAIN messages |->
        line(messages[i], IF i \in Instructions(messages) THEN SYSTEM_CHARS
                          ELSE IF i \in Anchors(messages) THEN FIRST_USER_CHARS
                          ELSE window_message_chars)]

\* assemble: the length of the transcript with these lines of the window, whose header says
\* how many they are
assemble(messages, left) ==
    Header[Cardinality(left)] + SumFunctionOnSet(Lines(messages), Anchors(messages) \cup left)

summarize_for_judge(messages, window) ==
    LET anchors == Anchors(messages)
        recent == Newest(DOMAIN messages \ anchors, window)
        \* the oldest lines of the window go until the text fits
        fits == {n \in 0..Cardinality(recent) :
                    assemble(messages, Newest(recent, n)) =< MAX_REQUEST_CHARS}
        left == Newest(recent, Max(fits \cup {0}))
        total == assemble(messages, left)
    IN  [anchors |-> anchors, recent |-> recent, left |-> left,
         length |-> IF total =< MAX_REQUEST_CHARS THEN total ELSE MAX_REQUEST_CHARS - 1,
         whole |-> total =< MAX_REQUEST_CHARS]

-----------------------------------------------------------------------------
NoView == [kept |-> {}, tail |-> {}, read |-> {}, window |-> -2]
NoSummary == [anchors |-> {}, recent |-> {}, left |-> {}, length |-> 0, whole |-> TRUE]

JudgeInit == conversation = <<>> /\ shown = NoView /\ summary = NoSummary

Unasked == shown = NoView /\ summary = NoSummary

Say(message) == /\ Unasked /\ Len(conversation) < MaxSaid
                /\ conversation' = Append(conversation, message)
                /\ UNCHANGED <<shown, summary>>

\* The capability judge is consulted
Consult(window) == /\ Unasked /\ conversation # <<>>
                   /\ shown' = build_messages(conversation, window)
                   /\ UNCHANGED <<conversation, summary>>

\* The escalation judge is consulted, whose window validate holds above zero
Summarize(window) == /\ Unasked /\ conversation # <<>> /\ window > 0
                     /\ summary' = summarize_for_judge(conversation, window)
                     /\ UNCHANGED <<conversation, shown>>

JudgeNext == \/ \E message \in Message : Say(message)
             \/ \E window \in Windows : Consult(window) \/ Summarize(window)

JudgeSpec == JudgeInit /\ [][JudgeNext]_judgeVars

-----------------------------------------------------------------------------
\* Every result among the messages S stands behind a call of its id, in an earlier one or its own
Paired(S) ==
    \A i \in S : \A k \in DOMAIN conversation[i].blocks :
        conversation[i].blocks[k].kind = "result" =>
            \E j \in S : \E l \in DOMAIN conversation[j].blocks :
                /\ j < i \/ (j = i /\ l < k)
                /\ conversation[j].blocks[l].kind = "call"
                /\ conversation[j].blocks[l].id = conversation[i].blocks[k].id

(***************************************************************************)
(* The judge never reads a tool result whose call was cut off, unless no   *)
(* start of the window could have kept the pair; and it reads no more      *)
(* messages than that takes: the count it was configured with, or the      *)
(* nearest start before it that keeps every pair whole (window_start reads *)
(* the tail once, newest first, while ids repeat).                         *)
(***************************************************************************)
PairsStayWhole ==
    LET tail == shown.tail
        counted == Newest(tail, shown.window)
        Wider == {start \in tail : counted \subseteq From(tail, start)}
    IN  shown.window >= 0 =>
        /\ counted \subseteq shown.read
        /\ \A i \in shown.read, j \in tail : j > i => j \in shown.read
        /\ \A start \in Wider : Paired(From(tail, start)) =>
               shown.read \subseteq From(tail, start)
        /\ ~Paired(shown.read) =>
               shown.read = counted /\ \A start \in Wider : ~Paired(From(tail, start))

(***************************************************************************)
(* The escalation judge's transcript stays within its cap, keeps every     *)
(* anchor and the newest lines of the window without a gap, and gives up   *)
(* no line that would have fitted under the header that counts it ("the    *)
(* newest evidence is strictly the most valuable").                        *)
(***************************************************************************)
NewestEvidenceKept ==
    LET s == summary
        more == Header[Cardinality(s.left) + 1] - Header[Cardinality(s.left)]
    IN  /\ s.length =< MAX_REQUEST_CHARS
        /\ s.left \subseteq s.recent
        /\ \A i \in s.left, j \in s.recent : j > i => j \in s.left
        /\ s.left # s.recent =>
               s.length + line(conversation[Max(s.recent \ s.left)], window_message_chars) + more
                   > MAX_REQUEST_CHARS
        /\ ~s.whole => s.left = {}
        /\ s # NoSummary => /\ s.anchors \cup s.recent \subseteq DOMAIN conversation
                            /\ Len(conversation) \in s.anchors \cup s.recent

\* What a judge is shown keeps calls with their results, and the newest evidence
\* (llm_class.rs, escalation.rs).
JudgeSound == PairsStayWhole /\ NewestEvidenceKept
=============================================================================
