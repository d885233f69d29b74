-------------------------- MODULE RunDriver_proofs --------------------------
(***************************************************************************)
(* RunDriver, for any calls, any of them stuck, any number of decisions and *)
(* any channel: what drive's caller sees of a run is the contract, no       *)
(* future waits on a promise nobody has, and a response is lost only to a   *)
(* call the algorithm dropped.                                              *)
(***************************************************************************)
EXTENDS RunDriver, SequenceTheorems, TLAPS

Step == [kind : {"call"}, of : Calls] \cup [kind : {"decision"}, of : Nat]
          \cup [kind : {"ok", "err"}, of : {0}]

TypeOK ==
  /\ task \in {"route", "hung", "finish", "ended", "aborted"}
  /\ result \in {"none", "ok", "err"}
  /\ promise \in [Calls -> {"none", "sending", "waiting", "ok", "err", "dropped"}]
  /\ announced \in Nat
  /\ senders \in Seq(Step) /\ steps \in Seq(Step)
  /\ published \in Seq(Nat) /\ trace \in Seq(Nat)
  /\ stream \in {"open", "closed"}
  /\ serving \subseteq Calls
  /\ outcome \in {"running", "ok", "err", "cancelled"}

IsEnd(step) == step.kind \in {"ok", "err"}
NoEnd(items) == \A i \in DOMAIN items : ~IsEnd(items[i])

\* The terminal step is the last the stream carries, and whoever is past it knows.
EndsOnce ==
  /\ task \in {"route", "hung"} => NoEnd(steps) /\ NoEnd(senders)
  /\ task = "finish" => NoEnd(steps) /\ senders = <<Terminal(result)>> /\ stream = "open"
  /\ task \in {"ended", "aborted"} => senders = <<>>
  /\ task \in {"finish", "ended"} => result \in {"ok", "err"}
  /\ task = "aborted" => stream = "closed"
  /\ task = "ended" /\ Looping => steps # <<>> /\ steps[Len(steps)] = Terminal(result)
  /\ \A i \in DOMAIN steps : i < Len(steps) => ~IsEnd(steps[i])
  /\ outcome = "ok" => steps = <<>> /\ task = "ended"
  /\ stream = "closed" => ~Looping /\ steps = <<>> /\ senders = <<>> /\ task # "finish"
  /\ ~Looping => serving = {}

\* A call is in one place, and its promise says in which.
Once(items) == \A i, j \in DOMAIN items :
                 i < j /\ items[i].kind = "call" => items[i] # items[j]
CallsHeld ==
  /\ Once(steps) /\ Once(senders)
  /\ \A c \in CallsIn(senders) : promise[c] = "sending"
  /\ \A c \in CallsIn(steps) \cup serving : promise[c] \in {"waiting", "dropped"}
  /\ CallsIn(steps) \cap serving = {}

\* Decisions are numbered as they are published: an item sequence holds those
\* above lo and up to hi, in this order.
Rising(items, lo, hi) ==
  \A i \in DOMAIN items : items[i].kind = "decision" =>
     /\ lo < items[i].of /\ items[i].of =< hi
     /\ \A j \in DOMAIN items : i < j /\ items[j].kind = "decision" => items[i].of < items[j].of
Covers(items, lo, hi) ==
  \A d \in lo + 1 .. hi : \E i \in DOMAIN items : items[i] = DecisionStep(d)
Counting(s) == \A i \in DOMAIN s : s[i] = i
DecisionsInOrder ==
  /\ Counting(published) /\ Counting(trace)
  /\ Len(trace) =< Len(published) /\ Len(published) =< announced
  /\ Rising(steps, Len(trace), Len(published)) /\ Rising(senders, Len(published), announced)
  /\ stream = "open" => Covers(steps, Len(trace), Len(published))
  /\ stream = "open" /\ task \in {"route", "hung"} => Covers(senders, Len(published), announced)

\* An error is the one route returned, or some call was dropped.
ErrExplained ==
  outcome = "err" => \/ result = "err" /\ task = "ended"
                     \/ \E c \in Calls : promise[c] = "dropped"

RunInv == /\ TypeOK /\ EndsOnce /\ CallsHeld /\ NoLostPromise
          /\ DecisionsInOrder /\ ErrExplained
----------------------------------------------------------------------------
(* What sending, taking and withdrawing do to a sequence of items *)

\* Every step of a call, a decision or an end is an item.
LEMMA Items ==
  /\ \A c \in Calls : CallStep(c) \in Step
  /\ \A d \in Nat : DecisionStep(d) \in Step
  /\ \A r \in {"ok", "err"} : Terminal(r) \in Step
  /\ \A step \in Step : /\ step.kind = "call" => step.of \in Calls /\ step = CallStep(step.of)
                        /\ step.kind = "decision" => step.of \in Nat /\ step = DecisionStep(step.of)
                        /\ IsEnd(step) => step.kind \in {"ok", "err"} /\ step = Terminal(step.kind)
                        /\ step.kind \in {"call", "decision", "ok", "err"}
  BY DEF Step, CallStep, DecisionStep, Terminal, IsEnd

\* A sent item goes to the end, the others stay (mpsc send).
LEMMA SentItem ==
  ASSUME NEW items \in Seq(Step), NEW step \in Step
  PROVE  LET longer == Append(items, step)
         IN  /\ longer \in Seq(Step) /\ longer # <<>>
             /\ Len(longer) = Len(items) + 1 /\ DOMAIN longer = 1 .. Len(items) + 1
             /\ DOMAIN items = 1 .. Len(items) /\ Len(items) \in Nat
             /\ \A i \in DOMAIN items : longer[i] = items[i]
             /\ longer[Len(items) + 1] = step
  BY AppendProperties, LenProperties

\* The item behind the one taken becomes the first (mpsc receive).
LEMMA TakenItem ==
  ASSUME NEW items \in Seq(Step), items # <<>>
  PROVE  /\ Tail(items) \in Seq(Step) /\ Head(items) \in Step
         /\ Len(items) \in Nat \ {0} /\ DOMAIN items = 1 .. Len(items)
         /\ Len(Tail(items)) = Len(items) - 1 /\ DOMAIN Tail(items) = 1 .. Len(items) - 1
         /\ Head(items) = items[1]
         /\ \A i \in DOMAIN Tail(items) : Tail(items)[i] = items[i + 1]
  <1>1. /\ Head(items) \in Step /\ Tail(items) \in Seq(Step)
        /\ Len(Tail(items)) = Len(items) - 1
        /\ \A i \in 1 .. Len(Tail(items)) : Tail(items)[i] = items[i + 1]
    BY HeadTailProperties
  <1>2. Len(items) \in Nat \ {0} /\ DOMAIN items = 1 .. Len(items)
    BY LenProperties, EmptySeq
  <1>3. DOMAIN Tail(items) = 1 .. Len(Tail(items))
    BY <1>1, LenProperties
  <1> QED BY <1>1, <1>2, <1>3

\* Nothing is left behind the last item.
LEMMA TakenLast ==
  ASSUME NEW items \in Seq(Step), items # <<>>, Tail(items) = <<>>
  PROVE  Len(items) = 1 /\ DOMAIN items = {1} /\ Head(items) = items[1]
  <1>1. Len(Tail(items)) = 0
    <2>1. Len(<<>>) = 0
      BY EmptySeq
    <2> QED BY <2>1
  <1>2. /\ Len(Tail(items)) = Len(items) - 1 /\ Len(items) \in Nat \ {0}
        /\ DOMAIN items = 1 .. Len(items) /\ Head(items) = items[1]
    BY TakenItem
  <1>3. Len(items) = 1
    BY <1>1, <1>2
  <1>4. 1 .. 1 = {1}
    OBVIOUS
  <1> QED BY <1>2, <1>3, <1>4

\* The items behind a withdrawn one move up (a dropped send future).
LEMMA WithdrawnItem ==
  ASSUME NEW items \in Seq(Step), NEW n \in DOMAIN items
  PROVE  LET shorter == RemoveAt(items, n)
         IN  /\ shorter \in Seq(Step)
             /\ Len(items) \in Nat \ {0} /\ DOMAIN items = 1 .. Len(items)
             /\ DOMAIN shorter = 1 .. Len(items) - 1
             /\ \A i \in DOMAIN shorter :
                   shorter[i] = IF i < n THEN items[i] ELSE items[i + 1]
  <1> DEFINE before == SubSeq(items, 1, n - 1)
             after == SubSeq(items, n + 1, Len(items))
  <1>1. Len(items) \in Nat \ {0} /\ DOMAIN items = 1 .. Len(items) /\ n \in 1 .. Len(items)
    BY LenProperties, EmptySeq
  <1>2. /\ before \in Seq(Step) /\ Len(before) = n - 1
        /\ \A i \in 1 .. n - 1 : before[i] = items[i]
    BY <1>1, SubSeqProperties
  <1>3. /\ after \in Seq(Step) /\ Len(after) = Len(items) - n
        /\ \A i \in 1 .. Len(items) - n : after[i] = items[n + i]
    <2> DEFINE m == n + 1  last == Len(items)
    <2>1. m \in Int /\ last \in Int /\ \A i \in m .. last : items[i] \in Step
      BY <1>1
    <2>2. m <= last + 1 /\ last - m + 1 = last - n /\ \A i \in 1 .. last - n : m + i - 1 = n + i
      BY <1>1
    <2> HIDE DEF m, last
    <2>3. /\ SubSeq(items, m, last) \in Seq(Step)
          /\ Len(SubSeq(items, m, last)) = IF m <= last THEN last - m + 1 ELSE 0
          /\ \A i \in 1 .. last - m + 1 : SubSeq(items, m, last)[i] = items[m + i - 1]
      BY <2>1, SubSeqProperties
    <2>4. Len(SubSeq(items, m, last)) = last - m + 1
      BY <2>1, <2>2, <2>3
    <2> QED BY <2>2, <2>3, <2>4 DEF m, last
  <1>4. /\ before \o after \in Seq(Step) /\ Len(before \o after) = Len(items) - 1
        /\ \A i \in 1 .. Len(items) - 1 :
              (before \o after)[i] = IF i =< n - 1 THEN before[i] ELSE after[i - (n - 1)]
    <2>1. before \o after \in Seq(Step)
      BY <1>2, <1>3, ConcatProperties
    <2>2. Len(before \o after) = Len(before) + Len(after)
      BY <1>2, <1>3, ConcatProperties
    <2>3. \A i \in 1 .. Len(before) + Len(after) :
              (before \o after)[i] = IF i =< Len(before) THEN before[i] ELSE after[i - Len(before)]
      BY <1>2, <1>3, ConcatProperties
    <2> HIDE DEF before, after
    <2>4. Len(before) + Len(after) = Len(items) - 1
      BY <1>1, <1>2, <1>3
    <2>5. \A i \in 1 .. Len(items) - 1 :
              (before \o after)[i] = IF i =< Len(before) THEN before[i] ELSE after[i - Len(before)]
      BY <2>3, <2>4
    <2>6. Len(before) = n - 1
      BY <1>2
    <2>7. Len(before \o after) = Len(items) - 1
      BY <2>2, <2>4
    <2> QED BY <2>1, <2>5, <2>6, <2>7
  <1>5. \A i \in 1 .. Len(items) - 1 :
           (before \o after)[i] = IF i < n THEN items[i] ELSE items[i + 1]
    <2> SUFFICES ASSUME NEW i \in 1 .. Len(items) - 1
                 PROVE  (before \o after)[i] = IF i < n THEN items[i] ELSE items[i + 1]
      OBVIOUS
    <2>1. CASE i < n
      BY <1>1, <1>2, <1>4, <2>1
    <2>2. CASE ~(i < n)
      <3>1. i - (n - 1) \in 1 .. Len(items) - n /\ n + (i - (n - 1)) = i + 1 /\ ~(i =< n - 1)
        BY <1>1, <2>2
      <3> QED BY <1>3, <1>4, <2>2, <3>1
    <2> QED BY <2>1, <2>2
  <1>6. DOMAIN (before \o after) = 1 .. Len(items) - 1
    BY <1>4, LenProperties
  <1> QED BY <1>1, <1>4, <1>5, <1>6 DEF RemoveAt

\* What a sent item makes of the calls, the end and the decisions of a sequence.
LEMMA Sent ==
  ASSUME NEW items \in Seq(Step), NEW step \in Step
  PROVE  LET longer == Append(items, step)
         IN  /\ CallsIn(longer) = CallsIn(items) \cup {c \in Calls : step = CallStep(c)}
             /\ Once(items) /\ (\A c \in CallsIn(items) : step # CallStep(c)) => Once(longer)
             /\ NoEnd(items) /\ ~IsEnd(step) => NoEnd(longer)
             /\ NoEnd(items) => \A i \in DOMAIN longer : i < Len(longer) => ~IsEnd(longer[i])
  <1> DEFINE longer == Append(items, step)
  <1>1. /\ Len(longer) = Len(items) + 1 /\ DOMAIN longer = 1 .. Len(items) + 1
        /\ DOMAIN items = 1 .. Len(items) /\ Len(items) \in Nat
        /\ \A i \in DOMAIN items : longer[i] = items[i]
        /\ longer[Len(items) + 1] = step
    BY SentItem
  <1> HIDE DEF longer
  <1>2. \A i \in DOMAIN longer : \/ i \in DOMAIN items /\ longer[i] = items[i] /\ i < Len(items) + 1
                                 \/ i = Len(items) + 1 /\ longer[i] = step
    BY <1>1
  <1>3. /\ \A i \in DOMAIN items : i \in DOMAIN longer
        /\ Len(items) + 1 \in DOMAIN longer
    BY <1>1
  <1>4. CallsIn(longer) = CallsIn(items) \cup {c \in Calls : step = CallStep(c)}
    BY <1>1, <1>2, <1>3, Zenon DEF CallsIn
  <1>5. Once(items) /\ (\A c \in CallsIn(items) : step # CallStep(c)) => Once(longer)
    <2> SUFFICES ASSUME Once(items), \A c \in CallsIn(items) : step # CallStep(c),
                        NEW i \in DOMAIN longer, NEW j \in DOMAIN longer,
                        i < j, longer[i].kind = "call"
                 PROVE  longer[i] # longer[j]
      BY DEF Once
    <2>1. i \in DOMAIN items /\ longer[i] = items[i]
      BY <1>1, <1>2
    <2>2. CASE j \in DOMAIN items
      BY <2>1, <2>2, <1>1 DEF Once
    <2>3. CASE j = Len(items) + 1
      <3>1. items[i] \in Step
        BY <2>1, LenProperties
      <3>2. items[i].of \in Calls /\ items[i] = CallStep(items[i].of)
        BY <3>1, <2>1, Items
      <3>3. items[i].of \in CallsIn(items)
        BY <3>2, <2>1 DEF CallsIn
      <3> QED BY <3>2, <3>3, <2>1, <2>3, <1>1
    <2> QED BY <2>2, <2>3, <1>2
  <1>6. NoEnd(items) /\ ~IsEnd(step) => NoEnd(longer)
    BY <1>2 DEF NoEnd
  <1>7. NoEnd(items) => \A i \in DOMAIN longer : i < Len(longer) => ~IsEnd(longer[i])
    BY <1>1, <1>2 DEF NoEnd
  <1> QED BY <1>4, <1>5, <1>6, <1>7 DEF longer

\* A decision that is sent is the next one.
LEMMA SentDecision ==
  ASSUME NEW items \in Seq(Step), NEW step \in Step, NEW lo \in Nat, NEW hi \in Nat,
         Rising(items, lo, hi)
  PROVE  LET longer == Append(items, step)
         IN  /\ step.kind # "decision" => /\ Rising(longer, lo, hi)
                                          /\ Covers(items, lo, hi) => Covers(longer, lo, hi)
             /\ step = DecisionStep(hi + 1) /\ lo =< hi =>
                  /\ Rising(longer, lo, hi + 1)
                  /\ Covers(items, lo, hi) => Covers(longer, lo, hi + 1)
  <1> DEFINE longer == Append(items, step)
  <1>1. /\ DOMAIN longer = 1 .. Len(items) + 1
        /\ DOMAIN items = 1 .. Len(items) /\ Len(items) \in Nat
        /\ \A i \in DOMAIN items : longer[i] = items[i]
        /\ longer[Len(items) + 1] = step
    BY SentItem
  <1> HIDE DEF longer
  <1>2. \A i \in DOMAIN longer : \/ i \in DOMAIN items /\ longer[i] = items[i] /\ i < Len(items) + 1
                                 \/ i = Len(items) + 1 /\ longer[i] = step
    BY <1>1
  <1>3. \A i \in DOMAIN items : items[i].kind = "decision" =>
           lo < items[i].of /\ items[i].of =< hi /\ items[i].of \in Nat
    <2> TAKE i \in DOMAIN items
    <2>1. items[i] \in Step
      BY LenProperties
    <2> QED BY <2>1, Items DEF Rising
  <1>4. ASSUME step.kind # "decision" PROVE Rising(longer, lo, hi)
    BY <1>1, <1>2, <1>4 DEF Rising
  <1>5. ASSUME step.kind # "decision", Covers(items, lo, hi) PROVE Covers(longer, lo, hi)
    BY <1>1, <1>5 DEF Covers
  <1>6. ASSUME step = DecisionStep(hi + 1), lo =< hi PROVE Rising(longer, lo, hi + 1)
    <2>1. step.kind = "decision" /\ step.of = hi + 1
      BY <1>6 DEF DecisionStep
    <2>2. SUFFICES ASSUME NEW i \in DOMAIN longer, longer[i].kind = "decision"
                   PROVE  /\ lo < longer[i].of /\ longer[i].of =< hi + 1
                          /\ \A j \in DOMAIN longer : i < j /\ longer[j].kind = "decision"
                                                        => longer[i].of < longer[j].of
      BY DEF Rising
    <2>3. CASE i = Len(items) + 1
      BY <2>1, <2>3, <1>1, <1>6
    <2>4. CASE i \in DOMAIN items
      <3>1. longer[i] = items[i] /\ lo < items[i].of /\ items[i].of =< hi /\ items[i].of \in Nat
        BY <2>2, <2>4, <1>1, <1>3
      <3>2. ASSUME NEW j \in DOMAIN longer, i < j, longer[j].kind = "decision"
            PROVE  longer[i].of < longer[j].of
        <4>1. CASE j = Len(items) + 1
          BY <4>1, <3>1, <2>1, <1>1
        <4>2. CASE j \in DOMAIN items
          BY <4>2, <3>1, <3>2, <2>2, <2>4, <1>1 DEF Rising
        <4> QED BY <4>1, <4>2, <1>2
      <3> QED BY <3>1, <3>2
    <2> QED BY <2>3, <2>4, <1>2
  <1>7. ASSUME step = DecisionStep(hi + 1), lo =< hi, Covers(items, lo, hi)
        PROVE  Covers(longer, lo, hi + 1)
    <2> SUFFICES ASSUME NEW d \in lo + 1 .. hi + 1
                 PROVE  \E i \in DOMAIN longer : longer[i] = DecisionStep(d)
      BY DEF Covers
    <2>1. CASE d = hi + 1
      BY <2>1, <1>1, <1>7
    <2>2. CASE d \in lo + 1 .. hi
      <3>1. PICK i \in DOMAIN items : items[i] = DecisionStep(d)
        BY <2>2, <1>7 DEF Covers
      <3> QED BY <3>1, <1>1
    <2> QED BY <2>1, <2>2
  <1> QED BY <1>4, <1>5, <1>6, <1>7 DEF longer

\* What a taken item leaves of the calls and the end.
LEMMA Taken ==
  ASSUME NEW items \in Seq(Step), items # <<>>
  PROVE  LET rest == Tail(items)
         IN  /\ CallsIn(items) = CallsIn(rest) \cup {c \in Calls : Head(items) = CallStep(c)}
             /\ Once(items) => /\ Once(rest)
                               /\ \A c \in CallsIn(rest) : Head(items) # CallStep(c)
             /\ NoEnd(items) => NoEnd(rest) /\ ~IsEnd(Head(items))
             /\ rest # <<>> => rest[Len(rest)] = items[Len(items)]
             /\ (\A i \in DOMAIN items : i < Len(items) => ~IsEnd(items[i])) =>
                  /\ \A i \in DOMAIN rest : i < Len(rest) => ~IsEnd(rest[i])
                  /\ IsEnd(Head(items)) => rest = <<>> /\ Head(items) = items[Len(items)]
  <1> DEFINE rest == Tail(items)
  <1>1. /\ Len(items) \in Nat \ {0} /\ DOMAIN items = 1 .. Len(items)
        /\ rest \in Seq(Step)
        /\ Len(rest) = Len(items) - 1 /\ DOMAIN rest = 1 .. Len(items) - 1
        /\ Head(items) = items[1]
        /\ \A i \in DOMAIN rest : rest[i] = items[i + 1]
    BY TakenItem
  <1> HIDE DEF rest
  <1>2. \A i \in DOMAIN items : \/ i = 1
                                \/ i - 1 \in DOMAIN rest /\ rest[i - 1] = items[i]
    BY <1>1
  <1>3. \A i \in DOMAIN rest : i + 1 \in DOMAIN items /\ 1 < i + 1
    BY <1>1
  <1>4. 1 \in DOMAIN items
    BY <1>1
  <1>5. CallsIn(items) = CallsIn(rest) \cup {c \in Calls : Head(items) = CallStep(c)}
    BY <1>1, <1>2, <1>3, <1>4 DEF CallsIn
  <1>6. Once(items) => Once(rest)
    BY <1>1, <1>3 DEF Once
  <1>7. ASSUME Once(items), NEW c \in CallsIn(rest) PROVE Head(items) # CallStep(c)
    <2>1. PICK i \in DOMAIN rest : rest[i] = CallStep(c)
      BY DEF CallsIn
    <2>2. items[i + 1] = CallStep(c)
      BY <2>1, <1>1
    <2> QED BY <2>2, <1>1, <1>3, <1>4, <1>7 DEF Once, CallStep
  <1>8. NoEnd(items) => NoEnd(rest) /\ ~IsEnd(Head(items))
    BY <1>1, <1>3, <1>4 DEF NoEnd
  <1>9. rest # <<>> => rest[Len(rest)] = items[Len(items)]
    <2>1. rest # <<>> => Len(rest) \in Nat \ {0}
      BY <1>1, EmptySeq
    <2> QED BY <2>1, <1>1
  <1>10. ASSUME \A i \in DOMAIN items : i < Len(items) => ~IsEnd(items[i])
         PROVE  /\ \A i \in DOMAIN rest : i < Len(rest) => ~IsEnd(rest[i])
                /\ IsEnd(Head(items)) => rest = <<>> /\ Head(items) = items[Len(items)]
    <2>1. \A i \in DOMAIN rest : i < Len(rest) => ~IsEnd(rest[i])
      BY <1>1, <1>3, <1>10
    <2>2. IsEnd(Head(items)) => Len(items) = 1
      BY <1>1, <1>4, <1>10
    <2>3. Len(items) = 1 => rest = <<>>
      BY <1>1, EmptySeq
    <2> QED BY <2>1, <2>2, <2>3, <1>1
  <1> QED BY <1>5, <1>6, <1>7, <1>8, <1>9, <1>10 DEF rest

\* A decision that is taken is the oldest one left.
LEMMA TakenDecision ==
  ASSUME NEW items \in Seq(Step), items # <<>>, NEW lo \in Nat, NEW hi \in Nat,
         Rising(items, lo, hi)
  PROVE  LET rest == Tail(items)
         IN  /\ Head(items).kind # "decision" => /\ Rising(rest, lo, hi)
                                                 /\ Covers(items, lo, hi) => Covers(rest, lo, hi)
             /\ Head(items).kind = "decision" /\ Covers(items, lo, hi) =>
                  /\ Head(items) = DecisionStep(lo + 1) /\ lo + 1 =< hi
                  /\ Rising(rest, lo + 1, hi) /\ Covers(rest, lo + 1, hi)
  <1> DEFINE rest == Tail(items)
  <1>1. /\ Len(items) \in Nat \ {0} /\ DOMAIN items = 1 .. Len(items)
        /\ DOMAIN rest = 1 .. Len(items) - 1
        /\ Head(items) = items[1] /\ Head(items) \in Step
        /\ \A i \in DOMAIN rest : rest[i] = items[i + 1]
    BY TakenItem
  <1> HIDE DEF rest
  <1>2. /\ \A i \in DOMAIN items : i = 1 \/ (i - 1 \in DOMAIN rest /\ rest[i - 1] = items[i])
        /\ \A i \in DOMAIN rest : i + 1 \in DOMAIN items /\ 1 < i + 1
        /\ 1 \in DOMAIN items
    BY <1>1
  <1>3. \A i \in DOMAIN items : items[i].kind = "decision" =>
           lo < items[i].of /\ items[i].of =< hi /\ items[i].of \in Nat
                /\ items[i] = DecisionStep(items[i].of)
    <2> TAKE i \in DOMAIN items
    <2>1. items[i] \in Step
      BY LenProperties
    <2> QED BY <2>1, Items DEF Rising
  <1>4. \A i \in DOMAIN rest, j \in DOMAIN rest :
           /\ i < j /\ rest[i].kind = "decision" /\ rest[j].kind = "decision"
           => rest[i].of < rest[j].of
    <2> TAKE i \in DOMAIN rest, j \in DOMAIN rest
    <2>1. rest[i] = items[i + 1] /\ rest[j] = items[j + 1]
      BY <1>1
    <2>2. i + 1 \in DOMAIN items /\ j + 1 \in DOMAIN items /\ (i < j => i + 1 < j + 1)
      BY <1>1
    <2> QED BY <2>1, <2>2 DEF Rising
  <1>5. Rising(rest, lo, hi)
    BY <1>1, <1>2, <1>3, <1>4 DEF Rising
  <1>6. ASSUME Head(items).kind # "decision", Covers(items, lo, hi) PROVE Covers(rest, lo, hi)
    <2> SUFFICES ASSUME NEW d \in lo + 1 .. hi
                 PROVE  \E i \in DOMAIN rest : rest[i] = DecisionStep(d)
      BY DEF Covers
    <2>1. PICK i \in DOMAIN items : items[i] = DecisionStep(d)
      BY <1>6 DEF Covers
    <2>2. i # 1
      BY <2>1, <1>1, <1>6 DEF DecisionStep
    <2> QED BY <2>1, <2>2, <1>2
  <1>7. ASSUME Head(items).kind = "decision", Covers(items, lo, hi)
        PROVE  /\ Head(items) = DecisionStep(lo + 1) /\ lo + 1 =< hi
               /\ Rising(rest, lo + 1, hi) /\ Covers(rest, lo + 1, hi)
    <2> DEFINE d == Head(items).of
    <2>1. d \in Nat /\ lo < d /\ d =< hi /\ Head(items) = DecisionStep(d)
      BY <1>1, <1>2, <1>3, <1>7
    <2>2. lo + 1 =< hi
      BY <2>1
    <2>3. PICK i \in DOMAIN items : items[i] = DecisionStep(lo + 1)
      BY <2>2, <1>7 DEF Covers
    <2>4. i # 1 => d < lo + 1
      <3>1. items[i].kind = "decision" /\ items[i].of = lo + 1
        BY <2>3 DEF DecisionStep
      <3>2. 1 \in DOMAIN items /\ items[1] = Head(items) /\ (i # 1 => 1 < i)
        BY <2>3, <1>1
      <3> QED BY <3>1, <3>2, <2>3, <1>7 DEF Rising
    <2>5. i = 1
      BY <2>1, <2>4
    <2>6. d = lo + 1
      BY <2>3, <2>5, <1>1 DEF DecisionStep
    <2>7. \A j \in DOMAIN rest : rest[j].kind = "decision" => lo + 1 < rest[j].of
      BY <2>6, <1>1, <1>2, <1>7 DEF Rising
    <2>8. Rising(rest, lo + 1, hi)
      BY <2>7, <1>4, <1>5 DEF Rising
    <2>9. ASSUME NEW e \in lo + 1 + 1 .. hi
          PROVE  \E j \in DOMAIN rest : rest[j] = DecisionStep(e)
      <3>1. PICK j \in DOMAIN items : items[j] = DecisionStep(e)
        BY <1>7 DEF Covers
      <3>2. j # 1
        BY <3>1, <2>3, <2>5 DEF DecisionStep
      <3> QED BY <3>1, <3>2, <1>2
    <2> QED BY <2>1, <2>2, <2>6, <2>8, <2>9 DEF Covers
  <1> QED BY <1>5, <1>6, <1>7 DEF rest

\* A withdrawn call is gone, and everything else is as before.
LEMMA Withdrawn ==
  ASSUME NEW items \in Seq(Step), NEW n \in DOMAIN items, NEW c \in Calls,
         items[n] = CallStep(c), Once(items), NEW lo \in Nat, NEW hi \in Nat
  PROVE  LET rest == RemoveAt(items, n)
         IN  /\ CallsIn(rest) = CallsIn(items) \ {c}
             /\ Once(rest)
             /\ NoEnd(items) => NoEnd(rest)
             /\ Rising(items, lo, hi) => Rising(rest, lo, hi)
             /\ Covers(items, lo, hi) => Covers(rest, lo, hi)
  <1> DEFINE rest == RemoveAt(items, n)
             from(i) == IF i < n THEN i ELSE i + 1
  <1>1. /\ Len(items) \in Nat \ {0} /\ DOMAIN items = 1 .. Len(items)
        /\ DOMAIN rest = 1 .. Len(items) - 1
        /\ \A i \in DOMAIN rest : rest[i] = IF i < n THEN items[i] ELSE items[i + 1]
    BY WithdrawnItem
  <1> HIDE DEF rest
  <1>2. /\ \A i \in DOMAIN rest : from(i) \in DOMAIN items /\ from(i) # n /\ rest[i] = items[from(i)]
        /\ \A i, j \in DOMAIN rest : i < j => from(i) < from(j)
    BY <1>1
  <1>3. \A i \in DOMAIN items : i # n => \E j \in DOMAIN rest : rest[j] = items[i]
    <2> SUFFICES ASSUME NEW i \in DOMAIN items, i # n
                 PROVE  \E j \in DOMAIN rest : rest[j] = items[i]
      OBVIOUS
    <2>1. CASE i < n
      BY <2>1, <1>1
    <2>2. CASE ~(i < n)
      <3>1. i - 1 \in DOMAIN rest /\ ~(i - 1 < n) /\ i - 1 + 1 = i
        BY <2>2, <1>1
      <3>2. rest[i - 1] = items[i]
        BY <3>1, <1>1
      <3> QED BY <3>1, <3>2
    <2> QED BY <2>1, <2>2
  <1> HIDE DEF from
  <1>4. \A i \in DOMAIN items : items[i] = CallStep(c) => i = n
    BY <1>1 DEF Once, CallStep
  <1>5. CallsIn(rest) = CallsIn(items) \ {c}
    <2>1. ASSUME NEW x \in CallsIn(rest) PROVE x \in CallsIn(items) \ {c}
      <3>1. PICK i \in DOMAIN rest : rest[i] = CallStep(x)
        BY DEF CallsIn
      <3>2. x # c
        BY <3>1, <1>2, <1>4
      <3> QED BY <3>1, <3>2, <1>2 DEF CallsIn
    <2>2. ASSUME NEW x \in CallsIn(items) \ {c} PROVE x \in CallsIn(rest)
      <3>1. PICK i \in DOMAIN items : items[i] = CallStep(x)
        BY DEF CallsIn
      <3>2. i # n
        BY <3>1 DEF CallStep
      <3> QED BY <3>1, <3>2, <1>3 DEF CallsIn
    <2> QED BY <2>1, <2>2
  <1>6. Once(rest)
    BY <1>2 DEF Once
  <1>7. NoEnd(items) => NoEnd(rest)
    BY <1>2 DEF NoEnd
  <1>8. Rising(items, lo, hi) => Rising(rest, lo, hi)
    BY <1>2 DEF Rising
  <1>9. ASSUME Covers(items, lo, hi), NEW d \in lo + 1 .. hi
        PROVE  \E i \in DOMAIN rest : rest[i] = DecisionStep(d)
    <2>1. PICK i \in DOMAIN items : items[i] = DecisionStep(d)
      BY <1>9 DEF Covers
    <2>2. i # n
      BY <2>1 DEF DecisionStep, CallStep
    <2> QED BY <2>1, <2>2, <1>3
  <1> QED BY <1>5, <1>6, <1>7, <1>8, <1>9 DEF Covers, rest
----------------------------------------------------------------------------
(* Every action keeps the invariant *)

\* Initially nothing is anywhere.
LEMMA RunInit == Init => RunInv
<1> SUFFICES ASSUME Init PROVE RunInv
  OBVIOUS
<1>1. TypeOK
  BY DEF Init, TypeOK
<1>2. /\ DOMAIN steps = {} /\ DOMAIN senders = {} /\ DOMAIN published = {} /\ DOMAIN trace = {}
      /\ Len(published) = 0 /\ Len(trace) = 0 /\ announced = 0
  BY DEF Init
<1>3. EndsOnce
  BY <1>2 DEF Init, EndsOnce, NoEnd, Looping
<1>4. CallsHeld /\ NoLostPromise
  BY <1>2 DEF Init, CallsHeld, Once, CallsIn, NoLostPromise
<1>5. DecisionsInOrder
  BY <1>2 DEF DecisionsInOrder, Counting, Rising, Covers
<1>6. ErrExplained
  BY DEF Init, ErrExplained
<1> QED BY <1>1, <1>3, <1>4, <1>5, <1>6 DEF RunInv

\* An offloaded call is queued and its future is sending (call_model).
LEMMA OffloadKeeps == ASSUME RunInv, NEW c \in Calls, Offload(c) PROVE RunInv'
<1> DEFINE step == CallStep(c)
<1>1. /\ step \in Step /\ ~IsEnd(step) /\ step.kind = "call"
      /\ \A d \in Calls : step = CallStep(d) <=> d = c
  BY Items DEF CallStep, IsEnd
<1>2. /\ UNCHANGED <<taskVars, steps, published, stream, driveVars>>
      /\ task = "route" /\ promise[c] = "none"
      /\ promise' = [promise EXCEPT ![c] = IF stream = "open" THEN "sending" ELSE "err"]
      /\ senders' = IF stream = "open" THEN Append(senders, step) ELSE senders
  BY DEF Offload, Send
<1> USE DEF RunInv, taskVars, driveVars
<1> HIDE DEF step
<1>3. senders \in Seq(Step) /\ senders' \in Seq(Step)
  BY <1>1, <1>2, SentItem DEF TypeOK
<1>4. TypeOK'
  BY <1>2, <1>3 DEF TypeOK
<1>5. CASE stream = "open"
  <2>1. /\ CallsIn(senders') = CallsIn(senders) \cup {c}
        /\ NoEnd(senders) => NoEnd(senders')
        /\ Once(senders) /\ (\A d \in CallsIn(senders) : step # CallStep(d)) => Once(senders')
    BY <1>1, <1>2, <1>3, <1>5, Sent
  <2>2. c \notin CallsIn(senders) /\ c \notin CallsIn(steps) /\ c \notin serving
    BY <1>2 DEF CallsHeld
  <2>3. Once(senders')
    BY <2>1, <2>2, <1>1 DEF CallsHeld, CallsIn
  <2>4. EndsOnce'
    BY <1>2, <1>5, <2>1 DEF EndsOnce, Looping
  <2>5. CallsHeld'
    BY <1>2, <1>5, <2>1, <2>2, <2>3 DEF CallsHeld, TypeOK, CallsIn
  <2>6. NoLostPromise'
    BY <1>2, <1>5, <2>1 DEF NoLostPromise, TypeOK
  <2>7. /\ Rising(senders', Len(published), announced)
        /\ Covers(senders, Len(published), announced) => Covers(senders', Len(published), announced)
    <3>1. Len(published) \in Nat /\ announced \in Nat /\ Rising(senders, Len(published), announced)
      BY LenProperties DEF TypeOK, DecisionsInOrder
    <3> QED BY <3>1, <1>1, <1>2, <1>3, <1>5, SentDecision
  <2>8. DecisionsInOrder'
    BY <1>2, <2>7 DEF DecisionsInOrder
  <2>9. ErrExplained'
    BY <1>2, <1>5 DEF ErrExplained, TypeOK
  <2> QED BY <1>4, <2>4, <2>5, <2>6, <2>8, <2>9
<1>6. CASE stream # "open"
  <2>1. senders' = senders /\ promise' = [promise EXCEPT ![c] = "err"]
    BY <1>2, <1>6
  <2>2. EndsOnce'
    BY <1>2, <2>1 DEF EndsOnce, Looping
  <2>3. CallsHeld' /\ NoLostPromise'
    BY <1>2, <2>1 DEF CallsHeld, NoLostPromise, TypeOK, CallsIn
  <2>4. DecisionsInOrder'
    BY <1>2, <2>1 DEF DecisionsInOrder
  <2>5. ErrExplained'
    BY <1>2, <2>1 DEF ErrExplained, TypeOK
  <2> QED BY <1>4, <2>2, <2>3, <2>4, <2>5
<1> QED BY <1>5, <1>6

\* A call without a candidate fails at once (call_model).
LEMMA NoTargetsKeeps == ASSUME RunInv, NEW c \in Calls, NoTargets(c) PROVE RunInv'
<1> USE DEF RunInv, taskVars, chanVars, driveVars
<1>1. /\ UNCHANGED <<task, result, announced, senders, steps, published, stream,
                     serving, trace, outcome>>
      /\ promise[c] = "none" /\ promise' = [promise EXCEPT ![c] = "err"]
  BY DEF NoTargets
<1>2. TypeOK' /\ EndsOnce' /\ DecisionsInOrder'
  BY <1>1 DEF TypeOK, EndsOnce, DecisionsInOrder, Looping
<1>3. CallsHeld' /\ NoLostPromise'
  BY <1>1 DEF CallsHeld, NoLostPromise, TypeOK, CallsIn
<1>4. ErrExplained'
  BY <1>1 DEF ErrExplained, TypeOK
<1> QED BY <1>2, <1>3, <1>4

\* A decision is queued behind everything the algorithm sent (decide).
LEMMA DecideKeeps == ASSUME RunInv, Decide PROVE RunInv'
<1> DEFINE step == DecisionStep(announced + 1)
<1> USE DEF RunInv, driveVars
<1>1. /\ UNCHANGED <<task, result, promise, steps, published, stream, serving, trace, outcome>>
      /\ task = "route" /\ announced' = announced + 1
      /\ senders' = IF stream = "open" THEN Append(senders, step) ELSE senders
  BY DEF Decide, Send
<1>2. announced \in Nat /\ announced' \in Nat /\ Len(published) \in Nat
  BY <1>1, LenProperties DEF TypeOK
<1>3. step \in Step /\ ~IsEnd(step) /\ \A c \in Calls : step # CallStep(c)
  BY <1>2, Items DEF DecisionStep, CallStep, IsEnd
<1> HIDE DEF step
<1>4. senders \in Seq(Step) /\ senders' \in Seq(Step)
  BY <1>1, <1>3, SentItem DEF TypeOK
<1>5. TypeOK' /\ ErrExplained'
  BY <1>1, <1>2, <1>4 DEF TypeOK, ErrExplained
<1>6. CASE stream = "open"
  <2>1. /\ CallsIn(senders') = CallsIn(senders)
        /\ NoEnd(senders) => NoEnd(senders')
        /\ Once(senders) => Once(senders')
    BY <1>1, <1>3, <1>4, <1>6, Sent DEF CallsIn
  <2>2. EndsOnce'
    BY <1>1, <1>6, <2>1 DEF EndsOnce, Looping
  <2>3. CallsHeld' /\ NoLostPromise'
    BY <1>1, <2>1 DEF CallsHeld, NoLostPromise
  <2>4. /\ Rising(senders', Len(published), announced')
        /\ Covers(senders', Len(published), announced')
    BY <1>1, <1>2, <1>3, <1>4, <1>6, SentDecision DEF DecisionsInOrder, step
  <2>5. Len(published) =< announced'
    BY <1>1, <1>2 DEF DecisionsInOrder
  <2>6. DecisionsInOrder'
    BY <1>1, <2>4, <2>5 DEF DecisionsInOrder
  <2> QED BY <1>5, <2>2, <2>3, <2>6
<1>7. CASE stream # "open"
  <2>1. senders' = senders /\ stream = "closed" /\ senders = <<>>
    BY <1>1, <1>7 DEF TypeOK, EndsOnce
  <2>2. EndsOnce' /\ CallsHeld' /\ NoLostPromise'
    BY <1>1, <2>1 DEF EndsOnce, CallsHeld, NoLostPromise, Looping
  <2>3. Rising(senders', Len(published), announced')
    BY <2>1 DEF Rising
  <2>4. Len(published) =< announced'
    BY <1>1, <1>2 DEF DecisionsInOrder
  <2>5. DecisionsInOrder'
    BY <1>1, <1>7, <2>3, <2>4 DEF DecisionsInOrder
  <2> QED BY <1>5, <2>2, <2>5
<1> QED BY <1>6, <1>7

\* What any accepted step does: it moves from the head of the senders to the end of
\* the channel.
LEMMA AcceptMoves ==
  ASSUME RunInv, Accept
  PROVE  LET step == Head(senders)
         IN  /\ senders # <<>> /\ step \in Step /\ steps \in Seq(Step) /\ senders \in Seq(Step)
             /\ steps' = Append(steps, step) /\ senders' = Tail(senders)
             /\ steps' \in Seq(Step) /\ senders' \in Seq(Step)
             /\ NoEnd(steps) /\ task \in {"route", "hung", "finish"} /\ stream = "open"
             /\ UNCHANGED <<result, announced, stream, serving, trace, outcome>>
             /\ CallsIn(steps') = CallsIn(steps) \cup {c \in Calls : step = CallStep(c)}
             /\ CallsIn(senders) = CallsIn(senders') \cup {c \in Calls : step = CallStep(c)}
             /\ Once(steps') /\ Once(senders')
             /\ \A c \in CallsIn(senders') : step # CallStep(c)
             /\ task \in {"route", "hung"} => ~IsEnd(step) /\ NoEnd(senders') /\ NoEnd(steps')
             /\ task = "finish" => step = Terminal(result) /\ senders' = <<>> /\ IsEnd(step)
             /\ \A i \in DOMAIN steps' : i < Len(steps') => ~IsEnd(steps'[i])
<1> USE DEF RunInv, driveVars
<1> DEFINE step == Head(senders)
<1>1. /\ senders # <<>> /\ steps' = Append(steps, step) /\ senders' = Tail(senders)
      /\ UNCHANGED <<result, announced, stream, serving, trace, outcome>>
  BY DEF Accept
<1>2. steps \in Seq(Step) /\ senders \in Seq(Step)
  BY DEF TypeOK
<1>3. step \in Step /\ senders' \in Seq(Step)
  BY <1>1, <1>2, TakenItem
<1>4. steps' \in Seq(Step)
  BY <1>1, <1>2, <1>3, SentItem
<1>5. task \in {"route", "hung", "finish"} /\ NoEnd(steps) /\ stream = "open"
  BY <1>1 DEF EndsOnce, TypeOK
<1>6. /\ CallsIn(senders) = CallsIn(senders') \cup {c \in Calls : step = CallStep(c)}
      /\ Once(senders')
      /\ \A c \in CallsIn(senders') : step # CallStep(c)
      /\ NoEnd(senders) => NoEnd(senders') /\ ~IsEnd(step)
  BY <1>1, <1>2, Taken DEF CallsHeld
<1>7. \A c \in CallsIn(steps) : step # CallStep(c)
  <2> SUFFICES ASSUME NEW c \in CallsIn(steps), step = CallStep(c) PROVE FALSE
    OBVIOUS
  <2>1. c \in CallsIn(senders)
    BY <1>6 DEF CallsIn
  <2> QED BY <2>1 DEF CallsHeld
<1>8. /\ CallsIn(steps') = CallsIn(steps) \cup {c \in Calls : step = CallStep(c)}
      /\ Once(steps')
      /\ ~IsEnd(step) => NoEnd(steps')
      /\ \A i \in DOMAIN steps' : i < Len(steps') => ~IsEnd(steps'[i])
  BY <1>1, <1>2, <1>3, <1>5, <1>7, Sent DEF CallsHeld
<1>9. task = "finish" => step = Terminal(result) /\ senders' = <<>> /\ IsEnd(step)
  <2> SUFFICES ASSUME task = "finish" PROVE step = Terminal(result) /\ senders' = <<>> /\ IsEnd(step)
    OBVIOUS
  <2>1. senders = <<Terminal(result)>> /\ result \in {"ok", "err"}
    BY DEF EndsOnce
  <2>2. Len(senders) = 1 /\ senders[1] = Terminal(result)
    BY <2>1
  <2>3. step = senders[1] /\ Len(senders') = Len(senders) - 1
    BY <1>1, <1>2, TakenItem
  <2>4. senders' = <<>>
    BY <1>3, <2>2, <2>3, EmptySeq
  <2> QED BY <2>1, <2>2, <2>3, <2>4 DEF Terminal, IsEnd
<1>10. task \in {"route", "hung"} => ~IsEnd(step) /\ NoEnd(senders')
  BY <1>6 DEF EndsOnce
<1> QED BY <1>1, <1>2, <1>3, <1>4, <1>5, <1>6, <1>8, <1>9, <1>10

\* An accepted call waits in the channel; an accepted decision is published; the
\* accepted end ends the task (call_model, decide, finish).
LEMMA AcceptKeeps == ASSUME RunInv, Accept PROVE RunInv'
<1> USE DEF RunInv
<1> DEFINE step == Head(senders)
<1>1. /\ senders # <<>> /\ step \in Step /\ steps \in Seq(Step) /\ senders \in Seq(Step)
      /\ steps' = Append(steps, step) /\ senders' = Tail(senders)
      /\ steps' \in Seq(Step) /\ senders' \in Seq(Step)
      /\ NoEnd(steps) /\ task \in {"route", "hung", "finish"} /\ stream = "open"
      /\ UNCHANGED <<result, announced, stream, serving, trace, outcome>>
  BY AcceptMoves
<1>2. /\ CallsIn(steps') = CallsIn(steps) \cup {c \in Calls : step = CallStep(c)}
      /\ CallsIn(senders) = CallsIn(senders') \cup {c \in Calls : step = CallStep(c)}
      /\ Once(steps') /\ Once(senders')
      /\ \A c \in CallsIn(senders') : step # CallStep(c)
  BY AcceptMoves
<1>3. /\ task \in {"route", "hung"} => ~IsEnd(step) /\ NoEnd(senders') /\ NoEnd(steps')
      /\ task = "finish" => step = Terminal(result) /\ senders' = <<>> /\ IsEnd(step)
      /\ \A i \in DOMAIN steps' : i < Len(steps') => ~IsEnd(steps'[i])
  BY AcceptMoves
<1>4. /\ promise' = IF step.kind = "call" THEN [promise EXCEPT ![step.of] = "waiting"] ELSE promise
      /\ published' = IF step.kind = "decision" THEN Append(published, step.of) ELSE published
      /\ task' = IF IsEnd(step) THEN "ended" ELSE task
  BY DEF Accept, IsEnd
<1>5. /\ steps' # <<>> /\ steps'[Len(steps')] = step
  BY <1>1, SentItem
<1> HIDE DEF step
<1>6. /\ Len(trace) \in Nat /\ Len(published) \in Nat /\ announced \in Nat
      /\ Rising(steps, Len(trace), Len(published)) /\ Rising(senders, Len(published), announced)
      /\ Len(trace) =< Len(published) /\ Len(published) =< announced
      /\ Covers(steps, Len(trace), Len(published))
  BY <1>1, LenProperties DEF TypeOK, DecisionsInOrder
<1>7. EndsOnce'
  <2>1. CASE IsEnd(step)
    <3>1. task = "finish" /\ task' = "ended" /\ step = Terminal(result) /\ senders' = <<>>
      BY <2>1, <1>1, <1>3, <1>4
    <3>2. result \in {"ok", "err"}
      BY <3>1 DEF EndsOnce
    <3>3. outcome # "ok" /\ (~Looping => serving = {})
      BY <3>1 DEF EndsOnce
    <3> QED BY <3>1, <3>2, <3>3, <1>1, <1>3, <1>5 DEF EndsOnce, Looping
  <2>2. CASE ~IsEnd(step)
    <3>1. task \in {"route", "hung"} /\ task' = task
      BY <2>2, <1>1, <1>3, <1>4
    <3>2. outcome # "ok" /\ (~Looping => serving = {})
      BY <3>1 DEF EndsOnce
    <3> QED BY <3>1, <3>2, <1>1, <1>3 DEF EndsOnce, Looping
  <2> QED BY <2>1, <2>2
<1>8. CASE step.kind = "call"
  <2> DEFINE c == step.of
  <2>1. c \in Calls /\ step = CallStep(c) /\ ~IsEnd(step)
    BY <1>1, <1>8, Items DEF IsEnd
  <2>2. \A d \in Calls : step = CallStep(d) <=> d = c
    BY <2>1 DEF CallStep
  <2>3. /\ promise' = [promise EXCEPT ![c] = "waiting"] /\ published' = published /\ task' = task
    BY <1>4, <1>8, <2>1
  <2> HIDE DEF c
  <2>4. /\ CallsIn(steps') = CallsIn(steps) \cup {c} /\ CallsIn(senders) = CallsIn(senders') \cup {c}
        /\ c \notin CallsIn(senders')
    BY <1>2, <2>1, <2>2
  <2>5. promise[c] = "sending" /\ c \notin CallsIn(steps) /\ c \notin serving
    BY <2>4 DEF CallsHeld
  <2>6. TypeOK'
    BY <1>1, <2>1, <2>3 DEF TypeOK
  <2>7. CallsHeld'
    BY <1>1, <1>2, <2>1, <2>3, <2>4, <2>5 DEF CallsHeld, TypeOK, CallsIn
  <2>8. NoLostPromise'
    BY <1>1, <2>1, <2>3, <2>4, <2>5 DEF NoLostPromise, TypeOK
  <2>9. DecisionsInOrder'
    <3>1. Rising(steps', Len(trace), Len(published)) /\ Covers(steps', Len(trace), Len(published))
      BY <1>1, <1>6, <1>8, SentDecision
    <3>2. /\ Rising(senders', Len(published), announced)
          /\ Covers(senders, Len(published), announced) => Covers(senders', Len(published), announced)
      BY <1>1, <1>6, <1>8, TakenDecision DEF step
    <3> QED BY <3>1, <3>2, <1>1, <2>3 DEF DecisionsInOrder
  <2>10. ErrExplained'
    BY <1>1, <2>1, <2>3, <2>5 DEF ErrExplained, TypeOK
  <2> QED BY <1>7, <2>6, <2>7, <2>8, <2>9, <2>10
<1>9. ASSUME step.kind # "call"
      PROVE  /\ promise' = promise /\ CallsIn(steps') = CallsIn(steps)
             /\ CallsIn(senders') = CallsIn(senders) /\ CallsHeld' /\ NoLostPromise'
  <2>1. \A c \in Calls : step # CallStep(c)
    BY <1>9 DEF CallStep
  <2>2. promise' = promise /\ CallsIn(steps') = CallsIn(steps) /\ CallsIn(senders') = CallsIn(senders)
    BY <1>2, <1>4, <1>9, <2>1
  <2> QED BY <2>2, <1>1, <1>2 DEF CallsHeld, NoLostPromise
<1>10. CASE step.kind = "decision"
  <2>1. ~IsEnd(step) /\ step.kind # "call"
    BY <1>10 DEF IsEnd
  <2>2. task' = task /\ task \in {"route", "hung"} /\ published' = Append(published, step.of)
    BY <1>1, <1>3, <1>4, <1>10, <2>1
  <2>3. Covers(senders, Len(published), announced)
    BY <1>1, <2>2 DEF DecisionsInOrder
  <2>4. /\ step = DecisionStep(Len(published) + 1) /\ Len(published) + 1 =< announced
        /\ Rising(senders', Len(published) + 1, announced)
        /\ Covers(senders', Len(published) + 1, announced)
    BY <1>1, <1>6, <1>10, <2>3, TakenDecision DEF step
  <2>5. step.of = Len(published) + 1 /\ step.of \in Nat
    BY <2>4, <1>6 DEF DecisionStep
  <2>6. /\ published \in Seq(Nat) /\ published' \in Seq(Nat) /\ Len(published') = Len(published) + 1
        /\ DOMAIN published' = 1 .. Len(published) + 1 /\ DOMAIN published = 1 .. Len(published)
        /\ \A i \in 1 .. Len(published) : published'[i] = published[i]
        /\ published'[Len(published) + 1] = Len(published) + 1
    BY <2>2, <2>5, AppendProperties, LenProperties DEF TypeOK
  <2>7. Counting(published')
    <3>1. Counting(published)
      BY DEF DecisionsInOrder
    <3>2. ASSUME NEW i \in DOMAIN published' PROVE published'[i] = i
      <4>1. CASE i = Len(published) + 1
        BY <4>1, <2>6
      <4>2. CASE i # Len(published) + 1
        BY <4>2, <2>6, <3>1, <1>6 DEF Counting
      <4> QED BY <4>1, <4>2
    <3> QED BY <3>2 DEF Counting
  <2>8. /\ Rising(steps', Len(trace), Len(published) + 1)
        /\ Covers(steps', Len(trace), Len(published) + 1)
    BY <1>1, <1>6, <2>4, SentDecision
  <2>9. Len(trace) =< Len(published')
    BY <1>6, <2>6
  <2>10. DecisionsInOrder'
    BY <1>1, <2>4, <2>6, <2>7, <2>8, <2>9 DEF DecisionsInOrder
  <2>11. TypeOK' /\ ErrExplained'
    BY <1>1, <1>9, <2>1, <2>2, <2>6 DEF TypeOK, ErrExplained
  <2> QED BY <1>7, <1>9, <2>1, <2>10, <2>11
<1>11. CASE IsEnd(step)
  <2>1. step.kind # "call" /\ step.kind # "decision"
    BY <1>11 DEF IsEnd
  <2>2. task = "finish" /\ task' = "ended" /\ published' = published /\ senders' = <<>>
    BY <1>1, <1>3, <1>4, <1>11, <2>1
  <2>3. Rising(steps', Len(trace), Len(published)) /\ Covers(steps', Len(trace), Len(published))
    BY <1>1, <1>6, <2>1, SentDecision
  <2>4. Rising(senders', Len(published), announced)
    BY <2>2 DEF Rising
  <2>5. DecisionsInOrder'
    BY <1>1, <2>2, <2>3, <2>4 DEF DecisionsInOrder
  <2>6. TypeOK' /\ ErrExplained'
    BY <1>1, <1>9, <2>1, <2>2 DEF TypeOK, ErrExplained
  <2> QED BY <1>7, <1>9, <2>1, <2>5, <2>6
<1>12. step.kind \in {"call", "decision", "ok", "err"}
  BY <1>1, Items
<1> QED BY <1>8, <1>10, <1>11, <1>12 DEF IsEnd

\* A dropped call leaves the senders; elsewhere it goes on without a receiver
\* (dropping a future of call_model).
LEMMA DropKeeps == ASSUME RunInv, NEW c \in Calls, Drop(c) PROVE RunInv'
<1> USE DEF RunInv, taskVars, driveVars
<1>1. /\ UNCHANGED <<task, result, announced, steps, published, stream, serving, trace, outcome>>
      /\ task = "route"
      /\ promise' = [promise EXCEPT ![c] = "dropped"] /\ promise[c] \in {"sending", "waiting"}
  BY DEF Drop, Resolve, Pending, TypeOK
<1>2. senders \in Seq(Step) /\ Len(published) \in Nat /\ announced \in Nat
  BY LenProperties DEF TypeOK
<1>3. /\ senders' \in Seq(Step) /\ CallsIn(senders') = CallsIn(senders) \ {c}
      /\ Once(senders') /\ (NoEnd(senders) => NoEnd(senders')) /\ (senders = <<>> => senders' = <<>>)
      /\ \A lo, hi \in Nat : /\ Rising(senders, lo, hi) => Rising(senders', lo, hi)
                             /\ Covers(senders, lo, hi) => Covers(senders', lo, hi)
  <2>1. CASE c \notin CallsIn(senders) /\ senders' = senders
    BY <1>2, <2>1 DEF CallsHeld
  <2>2. ASSUME NEW n \in DOMAIN senders, senders[n] = CallStep(c), senders' = RemoveAt(senders, n)
        PROVE  /\ senders' \in Seq(Step) /\ CallsIn(senders') = CallsIn(senders) \ {c}
               /\ Once(senders') /\ (NoEnd(senders) => NoEnd(senders')) /\ senders # <<>>
               /\ \A lo, hi \in Nat : /\ Rising(senders, lo, hi) => Rising(senders', lo, hi)
                                      /\ Covers(senders, lo, hi) => Covers(senders', lo, hi)
    <3>1. Once(senders)
      BY DEF CallsHeld
    <3>2. senders' \in Seq(Step) /\ senders # <<>>
      BY <1>2, <2>2, WithdrawnItem
    <3> QED BY <1>2, <2>2, <3>1, <3>2, Withdrawn
  <2> QED BY <2>1, <2>2 DEF Drop
<1>4. TypeOK'
  BY <1>1, <1>3 DEF TypeOK
<1>5. EndsOnce'
  BY <1>1, <1>3 DEF EndsOnce, Looping
<1>6. CallsHeld'
  BY <1>1, <1>3 DEF CallsHeld, TypeOK, CallsIn
<1>7. NoLostPromise'
  BY <1>1, <1>3 DEF NoLostPromise, TypeOK
<1>8. DecisionsInOrder'
  BY <1>1, <1>2, <1>3 DEF DecisionsInOrder
<1>9. ErrExplained'
  BY <1>1 DEF ErrExplained, TypeOK
<1> QED BY <1>4, <1>5, <1>6, <1>7, <1>8, <1>9

\* When route is over, no future is pending and the end is all that is still sent
\* (run_stream).
LEMMA CompleteKeeps == ASSUME RunInv, NEW r \in {"ok", "err"}, Complete(r) PROVE RunInv'
<1> USE DEF RunInv, driveVars
<1>1. /\ UNCHANGED <<announced, steps, published, stream, serving, trace, outcome>>
      /\ task = "route" /\ result' = r /\ task' \in {"finish", "ended"}
      /\ promise' = [c \in Calls |-> IF promise[c] \in {"sending", "waiting"} THEN "dropped"
                                     ELSE promise[c]]
      /\ stream = "open" => task' = "finish" /\ senders' = <<Terminal(r)>>
      /\ stream # "open" => task' = "ended" /\ senders' = <<>>
  BY DEF Complete, Resolve, Pending
<1>2. Terminal(r) \in Step
  BY Items
<1>3. senders' \in Seq(Step)
  <2>1. <<Terminal(r)>> \in Seq(Step)
    BY <1>2
  <2>2. <<>> \in Seq(Step)
    BY EmptySeq
  <2> QED BY <1>1, <2>1, <2>2
<1>4. TypeOK'
  BY <1>1, <1>3 DEF TypeOK
<1>5. /\ NoEnd(steps) /\ outcome # "ok"
      /\ stream # "open" => ~Looping /\ steps = <<>>
  BY <1>1 DEF EndsOnce, TypeOK
<1>6. EndsOnce'
  BY <1>1, <1>5 DEF EndsOnce, TypeOK, NoEnd, Looping
<1>7. /\ Once(senders') /\ CallsIn(senders') = {}
      /\ Rising(senders', Len(published), announced)
  <2>1. \A i \in DOMAIN senders' : i = 1 /\ senders'[i] = Terminal(r)
    BY <1>1
  <2> QED BY <2>1 DEF Once, CallsIn, Rising, Terminal, CallStep
<1>8. CallsHeld' /\ NoLostPromise'
  <2>1. CallsIn(steps) \subseteq Calls /\ serving \subseteq Calls
    BY DEF CallsIn, TypeOK
  <2> QED BY <1>1, <1>7, <2>1 DEF CallsHeld, NoLostPromise
<1>9. DecisionsInOrder'
  BY <1>1, <1>7 DEF DecisionsInOrder
<1>10. ErrExplained'
  BY <1>1 DEF ErrExplained
<1> QED BY <1>4, <1>6, <1>8, <1>9, <1>10

\* A hung task changes nothing else.
LEMMA HangKeeps == ASSUME RunInv, Hang PROVE RunInv'
<1> USE DEF RunInv, chanVars, driveVars
<1>1. /\ UNCHANGED <<result, announced, promise, senders, steps, published, stream,
                     serving, trace, outcome>>
      /\ task = "route" /\ task' = "hung"
  BY DEF Hang
<1>2. TypeOK' /\ EndsOnce' /\ CallsHeld' /\ NoLostPromise' /\ DecisionsInOrder'
  BY <1>1 DEF TypeOK, EndsOnce, CallsHeld, NoLostPromise, DecisionsInOrder, Looping
<1>3. ErrExplained'
  BY <1>1 DEF ErrExplained
<1> QED BY <1>2, <1>3

\* When drive returns, the promises of the calls it serves fail (drive's locals).
LEMMA ExitSettles ==
  ASSUME RunInv, NEW o, Exit(o)
  PROVE  /\ outcome' = o /\ serving' = {}
         /\ promise' \in [Calls -> {"none", "sending", "waiting", "ok", "err", "dropped"}]
         /\ \A c \in Calls : promise'[c] = IF c \in serving /\ promise[c] = "waiting" THEN "err"
                                           ELSE promise[c]
BY DEF RunInv, TypeOK, Exit, Resolve, Pending

\* Outside a return of drive, what it keeps apart from the channel: drive gives up
\* for a reason that ErrExplained knows.
LEMMA GiveUpKeeps ==
  ASSUME RunInv, NEW o \in {"err", "cancelled"}, Exit(o), Looping,
         UNCHANGED <<taskVars, chanVars, trace>>,
         o = "err" => \E c \in Calls : promise[c] = "dropped"
  PROVE  RunInv'
<1> USE DEF RunInv, taskVars, chanVars
<1>1. /\ outcome' = o /\ serving' = {}
      /\ promise' \in [Calls -> {"none", "sending", "waiting", "ok", "err", "dropped"}]
      /\ \A c \in Calls : promise'[c] = IF c \in serving /\ promise[c] = "waiting" THEN "err"
                                        ELSE promise[c]
  BY ExitSettles
<1>2. UNCHANGED <<task, result, announced, senders, steps, published, stream, trace>>
  OBVIOUS
<1>3. TypeOK' /\ EndsOnce' /\ DecisionsInOrder'
  BY <1>1, <1>2 DEF TypeOK, EndsOnce, DecisionsInOrder, Looping
<1>4. CallsHeld' /\ NoLostPromise'
  <2>1. CallsIn(steps) \subseteq Calls /\ CallsIn(senders) \subseteq Calls
    BY DEF CallsIn
  <2> QED BY <1>1, <1>2, <2>1 DEF CallsHeld, NoLostPromise
<1>5. ErrExplained'
  BY <1>1, <1>2 DEF ErrExplained
<1> QED BY <1>3, <1>4, <1>5

\* drive is cancelled (a dropped future of drive).
LEMMA CancelKeeps == ASSUME RunInv, Cancel PROVE RunInv'
BY GiveUpKeeps DEF Cancel

\* A served call settles its promise; one that nobody waits for makes drive give up
\* (serve, CallModel::respond).
LEMMA ServeKeeps ==
  ASSUME RunInv, NEW c \in Calls, NEW r \in {"ok", "err"}, Serve(c, r) PROVE RunInv'
<1> USE DEF RunInv
<1>1. CASE promise[c] = "waiting"
  <2>1. /\ UNCHANGED <<task, result, announced, senders, steps, published, stream, trace, outcome>>
        /\ c \in serving /\ Looping
        /\ promise' = [promise EXCEPT ![c] = r] /\ serving' = serving \ {c}
    BY <1>1 DEF Serve, taskVars, chanVars
  <2>2. TypeOK' /\ EndsOnce' /\ DecisionsInOrder'
    BY <2>1 DEF TypeOK, EndsOnce, DecisionsInOrder, Looping
  <2>3. c \notin CallsIn(steps) /\ c \notin CallsIn(senders)
    BY <1>1, <2>1 DEF CallsHeld
  <2>4. CallsHeld' /\ NoLostPromise'
    BY <2>1, <2>3 DEF CallsHeld, NoLostPromise, TypeOK, CallsIn
  <2>5. ErrExplained'
    BY <2>1, <1>1 DEF ErrExplained, TypeOK
  <2> QED BY <2>2, <2>4, <2>5
<1>2. CASE promise[c] # "waiting"
  <2>1. Exit("err") /\ Looping /\ c \in serving /\ UNCHANGED <<taskVars, chanVars, trace>>
    BY <1>2 DEF Serve
  <2>2. promise[c] = "dropped"
    BY <1>2, <2>1 DEF CallsHeld
  <2> QED BY <2>1, <2>2, GiveUpKeeps
<1> QED BY <1>1, <1>2

\* A pull never finds the stream at its end before the terminal step
\* (run_stream: "Every run ends with exactly one terminal item").
LEMMA PullFinds == ASSUME RunInv, Pull PROVE steps # <<>> /\ stream = "open"
BY DEF RunInv, Pull, Take, EndsOnce, TypeOK

\* The pulled terminal step is the one route's result made, and the last.
LEMMA PulledEnd ==
  ASSUME RunInv, Pull, IsEnd(Head(steps))
  PROVE  /\ task = "ended" /\ Head(steps) = Terminal(result) /\ Tail(steps) = <<>>
         /\ Len(trace) = Len(published) /\ trace = published /\ senders = <<>>
<1> USE DEF RunInv
<1>1. steps # <<>> /\ steps \in Seq(Step) /\ Looping
  BY PullFinds DEF TypeOK, Pull
<1>2. ~NoEnd(steps)
  BY <1>1, Taken
<1>3. task = "ended"
  BY <1>1, <1>2 DEF EndsOnce, TypeOK
<1>4. Head(steps) = Terminal(result) /\ Tail(steps) = <<>> /\ senders = <<>>
  BY <1>1, <1>3, Taken DEF EndsOnce
<1>5. Len(steps) = 1 /\ DOMAIN steps = {1} /\ steps[1] = Terminal(result)
  BY <1>1, <1>4, TakenLast
<1>6. Len(trace) = Len(published)
  <2>1. /\ Len(trace) \in Nat /\ Len(published) \in Nat /\ Len(trace) =< Len(published)
        /\ Covers(steps, Len(trace), Len(published))
    BY LenProperties, PullFinds DEF TypeOK, DecisionsInOrder
  <2>2. ASSUME Len(trace) < Len(published) PROVE FALSE
    <3>1. Len(published) \in Len(trace) + 1 .. Len(published)
      BY <2>1, <2>2
    <3>2. \E i \in DOMAIN steps : steps[i] = DecisionStep(Len(published))
      BY <2>1, <3>1 DEF Covers
    <3>3. result \in {"ok", "err"}
      BY <1>3 DEF EndsOnce
    <3> QED BY <3>2, <3>3, <1>5 DEF DecisionStep, Terminal
  <2> QED BY <2>1, <2>2
<1>7. trace = published
  <2>1. trace \in Seq(Nat) /\ published \in Seq(Nat)
    BY DEF TypeOK
  <2>2. /\ DOMAIN trace = 1 .. Len(trace) /\ DOMAIN published = 1 .. Len(published)
        /\ trace \in [1 .. Len(trace) -> Nat] /\ published \in [1 .. Len(published) -> Nat]
    BY <2>1, LenProperties
  <2>3. \A i \in 1 .. Len(trace) : trace[i] = published[i]
    BY <2>2, <1>6 DEF DecisionsInOrder, Counting
  <2> QED BY <2>2, <2>3, <1>6
<1> QED BY <1>3, <1>4, <1>6, <1>7

\* drive pulls a call, a decision or the end of the run (drive).
LEMMA PullKeeps == ASSUME RunInv, Pull PROVE RunInv'
<1> USE DEF RunInv
<1> DEFINE step == Head(steps)
<1>1. /\ steps # <<>> /\ stream = "open" /\ steps \in Seq(Step) /\ step \in Step /\ Looping
      /\ steps' = Tail(steps) /\ steps' \in Seq(Step)
      /\ UNCHANGED <<task, result, announced, senders, published, stream>>
  BY PullFinds, TakenItem DEF TypeOK, Pull, Take, taskVars
<1>2. /\ CallsIn(steps) = CallsIn(steps') \cup {c \in Calls : step = CallStep(c)}
      /\ Once(steps') /\ \A c \in CallsIn(steps') : step # CallStep(c)
      /\ NoEnd(steps) => NoEnd(steps')
      /\ steps' # <<>> => steps'[Len(steps')] = steps[Len(steps)]
      /\ \A i \in DOMAIN steps' : i < Len(steps') => ~IsEnd(steps'[i])
      /\ ~IsEnd(step) /\ task = "ended" => steps' # <<>>
  <2>1. /\ CallsIn(steps) = CallsIn(steps') \cup {c \in Calls : step = CallStep(c)}
        /\ Once(steps') /\ \A c \in CallsIn(steps') : step # CallStep(c)
        /\ NoEnd(steps) => NoEnd(steps')
        /\ steps' # <<>> => steps'[Len(steps')] = steps[Len(steps)]
        /\ \A i \in DOMAIN steps' : i < Len(steps') => ~IsEnd(steps'[i])
    BY <1>1, Taken DEF CallsHeld, EndsOnce
  <2>2. ASSUME task = "ended", steps' = <<>> PROVE IsEnd(step)
    <3>1. Len(steps) = 1 /\ step = steps[1]
      BY <1>1, <2>2, TakenLast
    <3>2. steps[1] = Terminal(result) /\ result \in {"ok", "err"}
      BY <3>1, <1>1, <2>2 DEF EndsOnce
    <3> QED BY <3>1, <3>2 DEF Terminal, IsEnd
  <2> QED BY <2>1, <2>2
<1>3. /\ Len(trace) \in Nat /\ Len(published) \in Nat /\ Len(trace) =< Len(published)
      /\ Rising(steps, Len(trace), Len(published)) /\ Covers(steps, Len(trace), Len(published))
  BY <1>1, LenProperties DEF TypeOK, DecisionsInOrder
<1>4. ASSUME ~IsEnd(step), UNCHANGED outcome PROVE EndsOnce'
  BY <1>1, <1>2, <1>4 DEF EndsOnce, Looping
<1>5. CASE step.kind = "call"
  <2> DEFINE c == step.of
  <2>1. c \in Calls /\ step = CallStep(c) /\ ~IsEnd(step)
    BY <1>1, <1>5, Items DEF IsEnd
  <2>2. serving' = serving \cup {c} /\ UNCHANGED <<promise, trace, outcome>>
    BY <1>1, <1>5 DEF Pull, Take
  <2>3. \A d \in Calls : step = CallStep(d) <=> d = c
    BY <2>1 DEF CallStep
  <2> HIDE DEF c
  <2>4. CallsIn(steps) = CallsIn(steps') \cup {c} /\ c \notin CallsIn(steps')
    BY <1>2, <2>1, <2>3
  <2>5. TypeOK' /\ CallsHeld' /\ NoLostPromise'
    BY <1>1, <1>2, <2>1, <2>2, <2>4 DEF TypeOK, CallsHeld, NoLostPromise
  <2>6. Rising(steps', Len(trace), Len(published)) /\ Covers(steps', Len(trace), Len(published))
    BY <1>1, <1>3, <1>5, TakenDecision
  <2>7. DecisionsInOrder' /\ ErrExplained'
    BY <1>1, <2>2, <2>6 DEF DecisionsInOrder, ErrExplained
  <2> QED BY <1>4, <2>1, <2>2, <2>5, <2>7
<1>6. CASE step.kind = "decision"
  <2>1. ~IsEnd(step) /\ \A c \in Calls : step # CallStep(c)
    BY <1>6 DEF IsEnd, CallStep
  <2>2. trace' = Append(trace, step.of) /\ UNCHANGED <<promise, serving, outcome>>
    BY <1>1, <1>6 DEF Pull, Take, Record
  <2>3. CallsIn(steps') = CallsIn(steps)
    BY <1>2, <2>1
  <2>4. /\ step = DecisionStep(Len(trace) + 1) /\ Len(trace) + 1 =< Len(published)
        /\ Rising(steps', Len(trace) + 1, Len(published))
        /\ Covers(steps', Len(trace) + 1, Len(published))
    BY <1>1, <1>3, <1>6, TakenDecision
  <2>5. step.of = Len(trace) + 1 /\ step.of \in Nat
    BY <2>4, <1>3 DEF DecisionStep
  <2> HIDE DEF step
  <2>6. /\ trace \in Seq(Nat) /\ trace' \in Seq(Nat) /\ Len(trace') = Len(trace) + 1
        /\ DOMAIN trace' = 1 .. Len(trace) + 1 /\ DOMAIN trace = 1 .. Len(trace)
        /\ \A i \in 1 .. Len(trace) : trace'[i] = trace[i]
        /\ trace'[Len(trace) + 1] = Len(trace) + 1
    BY <2>2, <2>5, AppendProperties, LenProperties DEF TypeOK
  <2>7. Counting(trace')
    <3>1. Counting(trace)
      BY DEF DecisionsInOrder
    <3>2. ASSUME NEW i \in DOMAIN trace' PROVE trace'[i] = i
      <4>1. CASE i = Len(trace) + 1
        BY <4>1, <2>6
      <4>2. CASE i # Len(trace) + 1
        BY <4>2, <2>6, <3>1, <1>3 DEF Counting
      <4> QED BY <4>1, <4>2
    <3> QED BY <3>2 DEF Counting
  <2>8. DecisionsInOrder'
    BY <1>1, <2>4, <2>6, <2>7 DEF DecisionsInOrder
  <2>9. TypeOK' /\ CallsHeld' /\ NoLostPromise' /\ ErrExplained'
    BY <1>1, <1>2, <2>2, <2>3, <2>6 DEF TypeOK, CallsHeld, NoLostPromise, ErrExplained
  <2> QED BY <1>4, <2>1, <2>2, <2>8, <2>9
<1>7. CASE IsEnd(step)
  <2>1. /\ task = "ended" /\ step = Terminal(result) /\ steps' = <<>> /\ senders = <<>>
        /\ result \in {"ok", "err"}
    BY <1>1, <1>7, PulledEnd DEF EndsOnce
  <2>2. step.kind = result
    BY <2>1 DEF Terminal
  <2>3. Exit(result) /\ trace' = trace
    BY <1>1, <1>7, <2>2 DEF Pull, Take, IsEnd
  <2>4. /\ outcome' = result /\ serving' = {}
        /\ promise' \in [Calls -> {"none", "sending", "waiting", "ok", "err", "dropped"}]
        /\ \A c \in Calls : promise'[c] = IF c \in serving /\ promise[c] = "waiting" THEN "err"
                                          ELSE promise[c]
    BY <2>3, ExitSettles
  <2> HIDE DEF step
  <2>5. TypeOK'
    BY <1>1, <2>1, <2>3, <2>4 DEF TypeOK
  <2>6. EndsOnce'
    BY <1>1, <1>2, <2>1, <2>4 DEF EndsOnce, Looping
  <2>7. CallsIn(steps') = {} /\ CallsIn(senders) = {} /\ CallsIn(steps) = {}
    <3>1. CallsIn(steps') = {} /\ CallsIn(senders) = {}
      BY <2>1 DEF CallsIn
    <3>2. \A c \in Calls : step # CallStep(c)
      BY <1>7 DEF CallStep, IsEnd
    <3> QED BY <3>1, <3>2, <1>2
  <2>8. CallsHeld' /\ NoLostPromise'
    BY <1>1, <1>2, <2>4, <2>7 DEF CallsHeld, NoLostPromise
  <2>9. /\ Rising(steps', Len(trace), Len(published)) /\ Covers(steps', Len(trace), Len(published))
    <3>1. step.kind # "decision"
      BY <1>7 DEF IsEnd
    <3> QED BY <1>1, <1>3, <3>1, TakenDecision DEF step
  <2>10. DecisionsInOrder' /\ ErrExplained'
    BY <1>1, <2>1, <2>3, <2>4, <2>9 DEF DecisionsInOrder, ErrExplained
  <2> QED BY <2>5, <2>6, <2>8, <2>10
<1>8. step.kind \in {"call", "decision", "ok", "err"}
  BY <1>1, Items
<1> QED BY <1>5, <1>6, <1>7, <1>8 DEF IsEnd

\* With the stream everything in it and before it is gone, and every future that
\* waited for it has failed (run_stream's guarded stream).
LEMMA DropStreamKeeps == ASSUME RunInv, DropStream PROVE RunInv'
<1> USE DEF RunInv, driveVars
<1>1. /\ UNCHANGED <<result, announced, published, serving, trace, outcome>>
      /\ ~Looping /\ stream = "open" /\ stream' = "closed" /\ steps' = <<>> /\ senders' = <<>>
      /\ task' = IF task = "finish" THEN "ended" ELSE task
      /\ promise' = [c \in Calls |-> IF c \in CallsIn(steps \o senders)
                                          /\ promise[c] \in {"sending", "waiting"}
                                     THEN "err" ELSE promise[c]]
  BY DEF DropStream, Resolve, Pending
<1>2. serving = {}
  BY <1>1 DEF EndsOnce
<1>3. CallsIn(steps \o senders) = CallsIn(steps) \cup CallsIn(senders)
  <2> DEFINE all == steps \o senders
  <2>1. /\ steps \in Seq(Step) /\ senders \in Seq(Step)
        /\ Len(steps) \in Nat /\ Len(senders) \in Nat
        /\ DOMAIN steps = 1 .. Len(steps) /\ DOMAIN senders = 1 .. Len(senders)
    BY LenProperties DEF TypeOK
  <2>2. /\ all \in Seq(Step) /\ Len(all) = Len(steps) + Len(senders)
        /\ \A i \in 1 .. Len(steps) + Len(senders) :
              all[i] = IF i =< Len(steps) THEN steps[i] ELSE senders[i - Len(steps)]
    BY <2>1, ConcatProperties
  <2>3. DOMAIN all = 1 .. Len(steps) + Len(senders)
    BY <2>2, LenProperties
  <2> HIDE DEF all
  <2>4. /\ \A i \in DOMAIN steps : i \in DOMAIN all /\ all[i] = steps[i]
        /\ \A i \in DOMAIN senders : Len(steps) + i \in DOMAIN all /\ all[Len(steps) + i] = senders[i]
    BY <2>1, <2>2, <2>3
  <2>5. \A i \in DOMAIN all : \/ i \in DOMAIN steps /\ all[i] = steps[i]
                              \/ i - Len(steps) \in DOMAIN senders /\ all[i] = senders[i - Len(steps)]
    BY <2>1, <2>2, <2>3
  <2>6. CallsIn(all) = CallsIn(steps) \cup CallsIn(senders)
    BY <2>4, <2>5, Zenon DEF CallsIn
  <2> QED BY <2>6 DEF all
<1>4. TypeOK'
  BY <1>1 DEF TypeOK
<1>5. EndsOnce'
  BY <1>1, <1>2 DEF EndsOnce, Looping, NoEnd
<1>6. CallsHeld'
  BY <1>1, <1>2 DEF CallsHeld, Once, CallsIn
<1>7. NoLostPromise'
  BY <1>1, <1>2, <1>3 DEF NoLostPromise, TypeOK
<1>8. DecisionsInOrder'
  <2>1. Rising(steps', Len(trace), Len(published)) /\ Rising(senders', Len(published), announced)
    BY <1>1 DEF Rising
  <2> QED BY <1>1, <2>1 DEF DecisionsInOrder
<1>9. ErrExplained'
  BY <1>1 DEF ErrExplained
<1> QED BY <1>4, <1>5, <1>6, <1>7, <1>8, <1>9

\* An aborted task drops the futures it held (AbortOnDrop).
LEMMA AbortKeeps == ASSUME RunInv, Abort PROVE RunInv'
<1> USE DEF RunInv, chanVars, driveVars
<1>1. /\ UNCHANGED <<result, announced, senders, steps, published, stream, serving, trace, outcome>>
      /\ stream = "closed" /\ task \in {"route", "hung"} /\ task' = "aborted"
      /\ promise' = [c \in Calls |-> IF promise[c] \in {"sending", "waiting"} THEN "dropped"
                                     ELSE promise[c]]
  BY DEF Abort, Resolve, Pending
<1>2. steps = <<>> /\ senders = <<>> /\ serving = {} /\ ~Looping /\ outcome # "ok"
  BY <1>1 DEF EndsOnce
<1>3. TypeOK' /\ EndsOnce'
  BY <1>1, <1>2 DEF TypeOK, EndsOnce, Looping, NoEnd
<1>4. CallsHeld' /\ NoLostPromise'
  BY <1>1, <1>2 DEF CallsHeld, NoLostPromise, CallsIn, Once
<1>5. DecisionsInOrder' /\ ErrExplained'
  BY <1>1, <1>2 DEF DecisionsInOrder, ErrExplained
<1> QED BY <1>3, <1>4, <1>5

\* The invariant is inductive.
LEMMA RunStep == RunInv /\ [Next]_vars => RunInv'
<1> SUFFICES ASSUME RunInv, [Next]_vars PROVE RunInv'
  OBVIOUS
<1>1. CASE Advance
  <2>1. ASSUME NEW r \in {"ok", "err"}, Return(r) PROVE RunInv'
    BY <2>1, CompleteKeeps DEF Return
  <2> QED BY <1>1, <2>1, AcceptKeeps, DecideKeeps, OffloadKeeps DEF Advance
<1>2. CASE Panic
  BY <1>2, CompleteKeeps DEF Panic
<1>3. CASE Hang
  BY <1>3, HangKeeps
<1>4. CASE \E c \in Calls : NoTargets(c) \/ Drop(c)
  BY <1>4, NoTargetsKeeps, DropKeeps
<1>5. CASE Pull
  BY <1>5, PullKeeps
<1>6. CASE \E c \in Calls, r \in {"ok", "err"} : Serve(c, r)
  BY <1>6, ServeKeeps
<1>7. CASE Cancel \/ DropStream \/ Abort
  BY <1>7, CancelKeeps, DropStreamKeeps, AbortKeeps
<1>8. CASE Terminated \/ UNCHANGED vars
  <2>1. UNCHANGED vars
    BY <1>8 DEF Terminated
  <2>2. UNCHANGED <<task, result, announced, promise, senders, steps, published, stream,
                    serving, trace, outcome>>
    BY <2>1 DEF vars, taskVars, chanVars, driveVars
  <2> QED BY <2>2 DEF RunInv, TypeOK, EndsOnce, CallsHeld, NoLostPromise, DecisionsInOrder,
                      ErrExplained, Looping
<1> QED BY <1>1, <1>2, <1>3, <1>4, <1>5, <1>6, <1>7, <1>8 DEF Next

\* It holds throughout every run.
LEMMA RunInvariant == Spec => []RunInv
<1> QED BY RunInit, RunStep, PTL DEF Spec
----------------------------------------------------------------------------
(* The theorems *)

\* However a run is torn down, no future is left waiting on a promise nobody has
\* (core/algorithm.rs call_model, drive).
THEOREM RunLosesNoPromise == Spec => []NoLostPromise
<1>1. RunInv => NoLostPromise
  BY DEF RunInv
<1> QED BY <1>1, RunInvariant, PTL

\* A run whose algorithm returned a response ends in an error only when the
\* algorithm dropped a call (run, serve, drive).
THEOREM RunKeepsAwaitedResponse == Spec => []AwaitedResponseNotLost
<1>1. RunInv => AwaitedResponseNotLost
  BY DEF RunInv, ErrExplained, AwaitedResponseNotLost
<1> QED BY <1>1, RunInvariant, PTL

\* What drive's caller sees at first is what the contract starts with.
LEMMA ContractInit == Init => Contract!Init
BY DEF Init, Contract!Init

\* One step of a run is a step of the contract or leaves what the caller sees alone.
LEMMA ContractStep ==
  RunInv /\ [Next]_vars => [Contract!Next]_(Contract!contractVars)
<1> SUFFICES ASSUME RunInv, [Next]_vars PROVE [Contract!Next]_(Contract!contractVars)
  OBVIOUS
<1> USE DEF Contract!contractVars
\* Steps that touch neither the outcome nor what is published.
<1>1. ASSUME UNCHANGED <<outcome, published>>, outcome = "ok" => UNCHANGED trace
      PROVE  [Contract!Next]_(Contract!contractVars)
  BY <1>1
<1>2. ASSUME Looping, outcome' \in {"err", "cancelled"}, UNCHANGED published
      PROVE  [Contract!Next]_(Contract!contractVars)
  BY <1>2 DEF Looping, Contract!Next, Contract!GiveUp
<1>3. CASE Accept
  <2>1. UNCHANGED <<trace, outcome>> /\ Head(senders) \in Step /\ task \in {"route", "hung", "finish"}
    BY <1>3, AcceptMoves
  <2>2. outcome # "ok"
    BY <2>1 DEF RunInv, EndsOnce
  <2>3. CASE Head(senders).kind # "decision"
    BY <1>1, <1>3, <2>1, <2>3 DEF Accept
  <2>4. CASE Head(senders).kind = "decision"
    <3>1. published' = Append(published, Head(senders).of) /\ Head(senders).of \in Nat
      BY <1>3, <2>1, <2>4, Items DEF Accept
    <3>2. published \in Seq(Nat)
      BY DEF RunInv, TypeOK
    <3>3. Len(published') = Len(published) + 1
      BY <3>1, <3>2, AppendProperties
    <3>4. SubSeq(published', 1, Len(published)) = published
      <4> DEFINE kept == SubSeq(published', 1, Len(published))
      <4>1. Len(published) \in Nat /\ DOMAIN published = 1 .. Len(published)
        BY <3>2, LenProperties
      <4>2. \A i \in 1 .. Len(published) : published'[i] = published[i] /\ published'[i] \in Nat
        BY <3>1, <3>2, <4>1, AppendProperties, LenProperties
      <4>3. /\ kept \in Seq(Nat) /\ Len(kept) = Len(published)
            /\ \A i \in 1 .. Len(published) : kept[i] = published[i]
        BY <4>1, <4>2, SubSeqProperties
      <4>4. kept \in [1 .. Len(published) -> Nat] /\ published \in [1 .. Len(published) -> Nat]
        BY <4>3, <3>2, LenProperties
      <4> QED BY <4>3, <4>4
    <3>5. Contract!Publish
      BY <2>1, <2>2, <3>3, <3>4 DEF Contract!Publish
    <3> QED BY <3>5 DEF Contract!Next
  <2> QED BY <2>3, <2>4
<1>4. CASE Decide \/ (\E c \in Calls : Offload(c)) \/ (\E r \in {"ok", "err"} : Return(r))
  BY <1>1, <1>4 DEF Decide, Offload, Return, Complete, driveVars
<1>5. CASE Panic \/ Hang \/ \E c \in Calls : NoTargets(c) \/ Drop(c)
  BY <1>1, <1>5 DEF Panic, Complete, Hang, NoTargets, Drop, driveVars, chanVars
<1>6. CASE Pull
  <2>1. /\ steps # <<>> /\ Head(steps) \in Step /\ Looping /\ UNCHANGED published
    BY <1>6, PullFinds, TakenItem DEF RunInv, TypeOK, Pull
  <2>2. CASE ~IsEnd(Head(steps))
    <3>1. UNCHANGED outcome
      BY <1>6, <2>1, <2>2 DEF Pull, Take, IsEnd
    <3> QED BY <1>1, <2>1, <3>1 DEF Looping
  <2>3. CASE IsEnd(Head(steps))
    <3>1. trace = published /\ outcome' = Head(steps).kind /\ UNCHANGED trace
      BY <1>6, <2>1, <2>3, PulledEnd DEF Pull, Take, Exit, IsEnd
    <3>2. CASE Head(steps).kind = "ok"
      BY <2>1, <3>1, <3>2 DEF Looping, Contract!Next, Contract!Succeed
    <3>3. CASE Head(steps).kind = "err"
      BY <1>2, <2>1, <3>1, <3>3
    <3> QED BY <2>3, <3>2, <3>3 DEF IsEnd
  <2> QED BY <2>2, <2>3
<1>7. CASE \E c \in Calls, r \in {"ok", "err"} : Serve(c, r)
  <2>1. PICK c \in Calls, r \in {"ok", "err"} : Serve(c, r)
    BY <1>7
  <2>2. Looping /\ UNCHANGED <<published, trace>> /\ (UNCHANGED outcome \/ outcome' = "err")
    BY <2>1 DEF Serve, Exit, chanVars
  <2> QED BY <1>1, <1>2, <2>2
<1>8. CASE Cancel
  BY <1>2, <1>8 DEF Cancel, Exit, chanVars
<1>9. CASE DropStream \/ Abort \/ Terminated \/ UNCHANGED vars
  BY <1>1, <1>9 DEF DropStream, Abort, Terminated, vars, chanVars, driveVars
<1> QED BY <1>3, <1>4, <1>5, <1>6, <1>7, <1>8, <1>9 DEF Next, Advance

\* What drive's caller sees of a run is the contract, whatever the algorithm, its
\* calls and its decisions: one answer, with every published decision in order, or
\* none (drive, run_stream).
THEOREM RunImplementsContract == Spec => RunKeepsContract
<1>1. Spec => Contract!Init /\ [][Contract!Next]_(Contract!contractVars)
  BY ContractInit, ContractStep, RunInvariant, PTL DEF Spec
<1> QED BY <1>1 DEF RunKeepsContract, Contract!Spec
============================================================================
