---------------------------- MODULE Stream_proofs ----------------------------
(***************************************************************************)
(* What the client of a streamed answer reads is what the upstream said,   *)
(* for streams of any length and any pair of wire formats.                 *)
(*                                                                         *)
(* A list of events shows a text and a reasoning (Shows); the steps of the *)
(* codecs say which, chunk by chunk (AnthropicTalk, ResponsesTalk,         *)
(* OpenAiTalk), and so do the events of an upstream (Heard). The end of a  *)
(* stream is told by the reason to stop and the usage, which some clients  *)
(* hear of at once and others when the stream is over (Told, Stopped).     *)
(***************************************************************************)
EXTENDS StreamTranslation, SumsAndSequences

(***************************************************************************)
(* A streamed answer: lists of events, and what a client of any format     *)
(* reads in one.                                                           *)
(***************************************************************************)

IsList(s) == s \in Seq({s[i] : i \in DOMAIN s})

\* Any sequence is a list.
LEMMA ListOf == ASSUME NEW X, NEW s \in Seq(X) PROVE IsList(s)
<1> DEFINE Y == {s[i] : i \in DOMAIN s}
<1>1. \A i \in DOMAIN s : s[i] \in Y
  OBVIOUS
<1> HIDE DEF Y
<1>2. s \in Seq(Y)
  BY <1>1
<1> QED BY <1>2 DEF IsList, Y

\* A list has a length, and its places are numbered up to it.
LEMMA ListLen == ASSUME NEW s, IsList(s) PROVE Len(s) \in Nat /\ DOMAIN s = 1 .. Len(s)
<1> DEFINE Y == {s[i] : i \in DOMAIN s}
<1>1. s \in Seq(Y)
  BY DEF IsList
<1> HIDE DEF Y
<1> QED BY <1>1

\* Two lists are sequences over one set, so that the laws of sequences apply to both.
LEMMA ListsIn ==
    ASSUME NEW a, NEW b, IsList(a), IsList(b)
    PROVE  \E X : a \in Seq(X) /\ b \in Seq(X)
<1> DEFINE Y == {a[i] : i \in DOMAIN a}
           Z == {b[i] : i \in DOMAIN b}
           X == Y \cup Z
<1>1. a \in Seq(Y) /\ b \in Seq(Z)
  BY DEF IsList
<1>2. Y \subseteq X /\ Z \subseteq X
  OBVIOUS
<1> HIDE DEF X, Y, Z
<1>3. a \in Seq(X) /\ b \in Seq(X)
  BY <1>1, <1>2
<1> QED BY <1>3

\* Two lists, one after the other.
LEMMA ListConcat ==
    ASSUME NEW a, NEW b, IsList(a), IsList(b)
    PROVE  /\ IsList(a \o b) /\ Len(a \o b) = Len(a) + Len(b)
           /\ \A i \in 1 .. Len(a) : (a \o b)[i] = a[i]
           /\ \A i \in 1 .. Len(b) : (a \o b)[Len(a) + i] = b[i]
<1>1. PICK X : a \in Seq(X) /\ b \in Seq(X)
  BY ListsIn
<1> DEFINE c == a \o b
<1>2. /\ c \in Seq(X) /\ Len(c) = Len(a) + Len(b)
      /\ \A i \in 1 .. Len(a) : c[i] = a[i]
      /\ \A i \in 1 .. Len(b) : c[Len(a) + i] = b[i]
  BY <1>1
<1> HIDE DEF c
<1>3. IsList(c)
  BY <1>2, ListOf
<1> QED BY <1>2, <1>3 DEF c

\* A function on the places of a list is a list of the same length.
LEMMA ListMap ==
    ASSUME NEW s, IsList(s), NEW t, t = [i \in DOMAIN s |-> t[i]]
    PROVE  IsList(t) /\ Len(t) = Len(s) /\ DOMAIN t = DOMAIN s
<1>1. Len(s) \in Nat /\ DOMAIN s = 1 .. Len(s)
  BY ListLen
<1> DEFINE Y == {t[i] : i \in DOMAIN t}
<1>2. \A i \in 1 .. Len(s) : t[i] \in Y
  BY <1>1
<1> HIDE DEF Y
<1>3. t \in Seq(Y) /\ Len(t) = Len(s)
  BY <1>1, <1>2
<1> QED BY <1>1, <1>3 DEF IsList, Y

\* A list of one element.
LEMMA ListOne == ASSUME NEW e PROVE IsList(<<e>>) /\ DOMAIN <<e>> = {1} /\ <<e>>[1] = e
<1> DEFINE s == <<e>>
           X == {e}
<1>1. s \in Seq(X) /\ DOMAIN s = {1} /\ s[1] = e
  OBVIOUS
<1> HIDE DEF s, X
<1>2. IsList(s)
  BY <1>1, ListOf
<1> QED BY <1>1, <1>2 DEF s

\* The list of none.
LEMMA ListNone == IsList(<<>>) /\ DOMAIN <<>> = {}
<1> DEFINE s == <<>>
           X == {}
<1>1. s \in Seq(X) /\ DOMAIN s = {}
  OBVIOUS
<1> HIDE DEF s, X
<1>2. IsList(s)
  BY <1>1, ListOf
<1> QED BY <1>1, <1>2 DEF s

\* Lists of the same length with the same members are the same.
LEMMA ListsEqual ==
    ASSUME NEW a, NEW b, IsList(a), IsList(b), Len(a) = Len(b), \A i \in 1 .. Len(a) : a[i] = b[i]
    PROVE  a = b
<1>1. PICK X : a \in Seq(X) /\ b \in Seq(X)
  BY ListsIn
<1> QED BY <1>1

Fragments == Seq(Nat)
AddsOf(es, kind) == FlattenSeq([i \in DOMAIN es |-> Adds(es[i], kind)])
Cut(es) == \E i \in DOMAIN es : SaysTruncated(es[i])

\* The events es add x to the text and y to the reasoning.
Adding(es, x, y) ==
    /\ IsList(es)
    /\ \A i \in DOMAIN es : Adds(es[i], "text") \in Fragments /\ Adds(es[i], "reasoning") \in Fragments
    /\ AddsOf(es, "text") = x /\ AddsOf(es, "reasoning") = y

\* No events: no text, and no word of a cut-off answer.
LEMMA AddingNone == Adding(<<>>, <<>>, <<>>) /\ ~Cut(<<>>)
<1>1. FlattenSeq(<<>>) = <<>>
  BY FlattenEmpty
<1>2. \A k : [i \in DOMAIN <<>> |-> Adds(<<>>[i], k)] = <<>>
  OBVIOUS
<1> QED BY <1>1, <1>2, ListNone DEF Adding, AddsOf, Cut

\* One event adds what Adds reads in it.
LEMMA AddingOne ==
    ASSUME NEW e, Adds(e, "text") \in Fragments, Adds(e, "reasoning") \in Fragments
    PROVE  Adding(<<e>>, Adds(e, "text"), Adds(e, "reasoning")) /\ (Cut(<<e>>) <=> SaysTruncated(e))
<1>1. ASSUME NEW k \in {"text", "reasoning"} PROVE AddsOf(<<e>>, k) = Adds(e, k)
  <2>1. [i \in DOMAIN <<e>> |-> Adds(<<e>>[i], k)] = <<Adds(e, k)>>
    BY ListOne
  <2>2. Adds(e, k) \in Seq(Nat)
    BY <1>1 DEF Fragments
  <2> QED BY <2>1, <2>2, FlattenOne DEF AddsOf
<1> QED BY <1>1, ListOne DEF Adding, Cut

\* What two lists of events add is put together in their order.
LEMMA AddingMore ==
    ASSUME NEW a, NEW b, NEW x, NEW y, NEW v, NEW w, Adding(a, x, y), Adding(b, v, w)
    PROVE  Adding(a \o b, x \o v, y \o w) /\ (Cut(a \o b) <=> Cut(a) \/ Cut(b))
<1> DEFINE c == a \o b
<1>1. /\ IsList(a) /\ IsList(b) /\ IsList(c) /\ Len(c) = Len(a) + Len(b)
      /\ \A i \in 1 .. Len(a) : c[i] = a[i]
      /\ \A i \in 1 .. Len(b) : c[Len(a) + i] = b[i]
  BY ListConcat DEF Adding
<1>2. /\ Len(a) \in Nat /\ DOMAIN a = 1 .. Len(a) /\ Len(b) \in Nat /\ DOMAIN b = 1 .. Len(b)
      /\ DOMAIN c = 1 .. Len(c)
  BY <1>1, ListLen
<1> HIDE DEF c
<1>3. \A i \in DOMAIN c : \/ i \in DOMAIN a /\ c[i] = a[i]
                          \/ i - Len(a) \in DOMAIN b /\ c[i] = b[i - Len(a)]
  <2> SUFFICES ASSUME NEW i \in DOMAIN c PROVE \/ i \in DOMAIN a /\ c[i] = a[i]
                                               \/ i - Len(a) \in DOMAIN b /\ c[i] = b[i - Len(a)]
    OBVIOUS
  <2>1. CASE i =< Len(a)
    BY <1>1, <1>2, <2>1
  <2>2. CASE i > Len(a)
    <3>1. i - Len(a) \in 1 .. Len(b) /\ Len(a) + (i - Len(a)) = i
      BY <1>1, <1>2, <2>2
    <3> QED BY <1>1, <1>2, <3>1
  <2> QED BY <1>1, <1>2, <2>1, <2>2
<1>4. Cut(c) <=> Cut(a) \/ Cut(b)
  <2>1. Cut(c) => Cut(a) \/ Cut(b)
    BY <1>3 DEF Cut
  <2>2. Cut(a) => Cut(c)
    <3>1. \A i \in DOMAIN a : i \in DOMAIN c /\ c[i] = a[i]
      BY <1>1, <1>2
    <3> QED BY <3>1 DEF Cut
  <2>3. Cut(b) => Cut(c)
    <3>1. \A i \in DOMAIN b : Len(a) + i \in DOMAIN c /\ c[Len(a) + i] = b[i]
      BY <1>1, <1>2
    <3> QED BY <3>1 DEF Cut
  <2> QED BY <2>1, <2>2, <2>3
<1>5. ASSUME NEW k \in {"text", "reasoning"} PROVE AddsOf(c, k) = AddsOf(a, k) \o AddsOf(b, k)
  <2> DEFINE t == [i \in DOMAIN a |-> Adds(a[i], k)]
             u == [i \in DOMAIN b |-> Adds(b[i], k)]
             z == [i \in DOMAIN c |-> Adds(c[i], k)]
  <2>0. IsList(t) /\ Len(t) = Len(a) /\ IsList(u) /\ Len(u) = Len(b) /\ IsList(z) /\ Len(z) = Len(c)
    <3>1. t = [i \in DOMAIN a |-> t[i]] /\ u = [i \in DOMAIN b |-> u[i]] /\ z = [i \in DOMAIN c |-> z[i]]
      OBVIOUS
    <3> HIDE DEF t, u, z
    <3> QED BY <1>1, <3>1, ListMap
  <2>1. /\ \A i \in 1 .. Len(t) : t[i] \in Fragments
        /\ \A i \in 1 .. Len(u) : u[i] \in Fragments
    BY <1>2, <1>5, <2>0 DEF Adding
  <2>2. \A i \in 1 .. Len(z) : z[i] = (t \o u)[i]
    <3>1. /\ \A i \in 1 .. Len(t) : (t \o u)[i] = t[i]
          /\ \A i \in 1 .. Len(u) : (t \o u)[Len(t) + i] = u[i]
      <4> HIDE DEF t, u
      <4> QED BY <2>0, ListConcat
    <3> SUFFICES ASSUME NEW i \in 1 .. Len(z) PROVE z[i] = (t \o u)[i]
      OBVIOUS
    <3>2. CASE i \in DOMAIN a /\ c[i] = a[i]
      BY <1>2, <2>0, <3>1, <3>2
    <3>3. CASE i - Len(a) \in DOMAIN b /\ c[i] = b[i - Len(a)]
      <4>1. z[i] = u[i - Len(a)]
        BY <1>2, <2>0, <3>3
      <4>2. Len(t) + (i - Len(a)) = i /\ i - Len(a) \in 1 .. Len(u)
        BY <1>2, <2>0, <3>3
      <4> QED BY <3>1, <4>1, <4>2
    <3> QED BY <1>2, <1>3, <2>0, <3>2, <3>3
  <2>3. AddsOf(c, k) = FlattenSeq(z) /\ AddsOf(a, k) = FlattenSeq(t) /\ AddsOf(b, k) = FlattenSeq(u)
    BY DEF AddsOf
  <2> HIDE DEF t, u, z
  <2>4. z = t \o u
    <3>1. IsList(t \o u) /\ Len(t \o u) = Len(t) + Len(u)
      BY <2>0, ListConcat
    <3> QED BY <1>1, <2>0, <2>2, <3>1, ListsEqual
  <2>5. t \in Seq(Fragments) /\ u \in Seq(Fragments)
    <3>1. PICK X : t \in Seq(X) /\ u \in Seq(X)
      BY <2>0, ListsIn
    <3> HIDE DEF Fragments
    <3> QED BY <2>1, <3>1
  <2> QED BY <2>3, <2>4, <2>5, FlattenConcat DEF Fragments
<1>6. \A i \in DOMAIN c : Adds(c[i], "text") \in Fragments /\ Adds(c[i], "reasoning") \in Fragments
  BY <1>3 DEF Adding
<1> QED BY <1>1, <1>4, <1>5, <1>6 DEF Adding, c

-----------------------------------------------------------------------------
(* Stamping the served model.                                              *)

\* Nothing to stamp.
LEMMA StampedNone == Stamped(<<>>) = <<>>
  BY DEF Stamped

\* Every event is stamped on its own,
LEMMA StampedOne == ASSUME NEW e PROVE Stamped(<<e>>) = <<stamp_streamed_response_model(e)>>
  BY ListOne DEF Stamped

\* so lists can be stamped before they are joined or after.
LEMMA StampedMore ==
    ASSUME NEW a, NEW b, IsList(a), IsList(b)
    PROVE  IsList(Stamped(a)) /\ Stamped(a \o b) = Stamped(a) \o Stamped(b)
<1> DEFINE c == a \o b
           t == Stamped(a)
           u == Stamped(b)
           z == Stamped(c)
<1>1. /\ IsList(c) /\ Len(c) = Len(a) + Len(b)
      /\ \A i \in 1 .. Len(a) : c[i] = a[i]
      /\ \A i \in 1 .. Len(b) : c[Len(a) + i] = b[i]
  BY ListConcat
<1>2. /\ Len(a) \in Nat /\ DOMAIN a = 1 .. Len(a) /\ Len(b) \in Nat /\ DOMAIN b = 1 .. Len(b)
      /\ DOMAIN c = 1 .. Len(c)
  BY <1>1, ListLen
<1> HIDE DEF c
<1>3. IsList(t) /\ Len(t) = Len(a) /\ IsList(u) /\ Len(u) = Len(b) /\ IsList(z) /\ Len(z) = Len(c)
  <2>1. t = [i \in DOMAIN a |-> t[i]] /\ u = [i \in DOMAIN b |-> u[i]] /\ z = [i \in DOMAIN c |-> z[i]]
    BY DEF Stamped
  <2> HIDE DEF t, u, z
  <2> QED BY <1>1, <2>1, ListMap
<1>4. /\ \A i \in 1 .. Len(a) : z[i] = t[i]
      /\ \A i \in 1 .. Len(b) : z[Len(a) + i] = u[i]
  BY <1>1, <1>2 DEF Stamped
<1> HIDE DEF t, u, z
<1>5. /\ IsList(t \o u) /\ Len(t \o u) = Len(a) + Len(b)
      /\ \A i \in 1 .. Len(a) : (t \o u)[i] = t[i]
      /\ \A i \in 1 .. Len(b) : (t \o u)[Len(a) + i] = u[i]
  BY <1>3, ListConcat
<1>6. \A i \in 1 .. Len(z) : z[i] = (t \o u)[i]
  <2> SUFFICES ASSUME NEW i \in 1 .. Len(z) PROVE z[i] = (t \o u)[i]
    OBVIOUS
  <2>1. CASE i =< Len(a)
    BY <1>2, <1>4, <1>5, <2>1
  <2>2. CASE i > Len(a)
    <3>1. i - Len(a) \in 1 .. Len(b) /\ Len(a) + (i - Len(a)) = i
      BY <1>1, <1>2, <1>3, <2>2
    <3> QED BY <1>4, <1>5, <3>1
  <2> QED BY <1>1, <1>2, <1>3, <2>1, <2>2
<1>7. z = t \o u
  <2> DEFINE w == t \o u
  <2>1. IsList(w) /\ Len(z) = Len(w) /\ \A i \in 1 .. Len(z) : z[i] = w[i]
    BY <1>1, <1>3, <1>5, <1>6
  <2> HIDE DEF w
  <2>2. z = w
    BY <1>3, <2>1, ListsEqual
  <2> QED BY <2>2 DEF w
<1> QED BY <1>3, <1>7 DEF c, t, u, z

(***************************************************************************)
(* Steps of the stream codecs that leave the end of the stream alone, and  *)
(* the events of Anthropic clients.                                        *)
(***************************************************************************)

StateNames == {"model", "targetModel", "stop", "usage", "sawUsage", "tokensSeen", "sawStart",
               "emittedStart", "emittedDelta", "finished", "errored", "nextIx", "textIx",
               "reasoningIx", "emittedBlock", "tools", "text", "reasoning"}
IsState(st) == st = [x \in StateNames |-> st[x]] /\ IsFiniteSet(DOMAIN st.tools)

\* What decides how a stream ends is left as it is.
SameEnd(s, st) ==
    /\ s.errored = st.errored /\ s.finished = st.finished /\ s.stop = st.stop
    /\ s.usage = st.usage /\ s.sawUsage = st.sawUsage /\ s.emittedDelta = st.emittedDelta
SameTools(s, st) == s.tools = st.tools

\* What the client is shown of a list of events.
Shows(es, x, y) == IsList(es) /\ Adding(Stamped(es), x, y)
CutShown(es) == Cut(Stamped(es))

\* A client that is sent nothing reads nothing.
LEMMA ShowsNone == Shows(<<>>, <<>>, <<>>) /\ ~CutShown(<<>>)
  BY ListNone, AddingNone, StampedNone DEF Shows, CutShown

\* What a client reads in one event is what the stamped event adds.
LEMMA ShowsOne ==
    ASSUME NEW e, NEW x \in Fragments, NEW y \in Fragments,
           Adds(stamp_streamed_response_model(e), "text") = x,
           Adds(stamp_streamed_response_model(e), "reasoning") = y
    PROVE  /\ Shows(<<e>>, x, y)
           /\ CutShown(<<e>>) <=> SaysTruncated(stamp_streamed_response_model(e))
  BY ListOne, AddingOne, StampedOne DEF Shows, CutShown

\* What it reads in two lists is put together in their order.
LEMMA ShowsMore ==
    ASSUME NEW a, NEW b, NEW x, NEW y, NEW v, NEW w, Shows(a, x, y), Shows(b, v, w)
    PROVE  Shows(a \o b, x \o v, y \o w) /\ (CutShown(a \o b) <=> CutShown(a) \/ CutShown(b))
<1>1. IsList(a \o b)
  BY ListConcat DEF Shows
<1>2. Stamped(a \o b) = Stamped(a) \o Stamped(b)
  BY StampedMore DEF Shows
<1>3. /\ Adding(Stamped(a) \o Stamped(b), x \o v, y \o w)
      /\ Cut(Stamped(a) \o Stamped(b)) <=> Cut(Stamped(a)) \/ Cut(Stamped(b))
  BY AddingMore DEF Shows
<1> QED BY <1>1, <1>2, <1>3 DEF Shows, CutShown

\* The empty fragment adds nothing, on either side.
LEMMA NoFragment == <<>> \in Fragments /\ \A x \in Fragments : x \o <<>> = x /\ <<>> \o x = x
  BY DEF Fragments

\* Behind events without text, a client reads what it would have read without them.
LEMMA QuietMore ==
    ASSUME NEW a, NEW b, NEW x \in Fragments, NEW y \in Fragments,
           Shows(a, <<>>, <<>>), Shows(b, x, y), ~CutShown(a), ~CutShown(b)
    PROVE  Shows(a \o b, x, y) /\ ~CutShown(a \o b)
<1>1. <<>> \o x = x /\ <<>> \o y = y
  BY NoFragment
<1>2. /\ Shows(a \o b, <<>> \o x, <<>> \o y)
      /\ CutShown(a \o b) <=> CutShown(a) \/ CutShown(b)
  BY ShowsMore
<1> QED BY <1>1, <1>2

\* Two events are one after the other.
LEMMA ListTwo == ASSUME NEW e, NEW f PROVE <<e, f>> = <<e>> \o <<f>>
<1> DEFINE X == {e, f}
           a == <<e>>
           b == <<f>>
           c == <<e, f>>
<1>1. /\ a \in Seq(X) /\ b \in Seq(X) /\ c \in Seq(X)
      /\ Len(a) = 1 /\ Len(b) = 1 /\ Len(c) = 2 /\ a[1] = e /\ b[1] = f /\ c[1] = e /\ c[2] = f
  OBVIOUS
<1> HIDE DEF a, b, c, X
<1>2. IsList(a) /\ IsList(b) /\ IsList(c)
  BY <1>1, ListOf
<1> DEFINE d == a \o b
<1>3. /\ IsList(d) /\ Len(d) = Len(a) + Len(b)
      /\ \A i \in 1 .. Len(a) : d[i] = a[i]
      /\ \A i \in 1 .. Len(b) : d[Len(a) + i] = b[i]
  BY <1>2, ListConcat
<1> HIDE DEF d
<1>4. Len(d) = 2 /\ d[1] = e /\ d[2] = f
  BY <1>1, <1>3
<1>5. c = d
  BY <1>1, <1>2, <1>3, <1>4, ListsEqual
<1> QED BY <1>5 DEF a, b, c, d

\* The same of two single events.
LEMMA QuietTwo ==
    ASSUME NEW e, NEW f, NEW x \in Fragments, NEW y \in Fragments,
           Shows(<<e>>, <<>>, <<>>), ~CutShown(<<e>>), Shows(<<f>>, x, y), ~CutShown(<<f>>)
    PROVE  Shows(<<e, f>>, x, y) /\ ~CutShown(<<e, f>>)
<1> DEFINE a == <<e>>
           b == <<f>>
           c == <<e, f>>
<1>1. c = a \o b
  BY ListTwo
<1>2. Shows(a, <<>>, <<>>) /\ ~CutShown(a) /\ Shows(b, x, y) /\ ~CutShown(b)
  OBVIOUS
<1> HIDE DEF a, b, c
<1>3. Shows(c, x, y) /\ ~CutShown(c)
  BY <1>1, <1>2, QuietMore
<1> QED BY <1>3 DEF c

Moves(r, st, x, y) ==
    IsState(r.st) /\ SameEnd(r.st, st) /\ Shows(r.out, x, y) /\ ~CutShown(r.out)

\* Two steps of a codec, the first without text.
LEMMA MovesThen ==
    ASSUME NEW r, NEW n, NEW st, NEW x \in Fragments, NEW y \in Fragments,
           Moves(r, st, <<>>, <<>>), Moves(n, r.st, x, y)
    PROVE  Moves([st |-> n.st, out |-> r.out \o n.out], st, x, y)
<1>1. Shows(r.out \o n.out, x, y) /\ ~CutShown(r.out \o n.out)
  BY QuietMore DEF Moves
<1>2. IsState(n.st) /\ SameEnd(n.st, st)
  BY DEF Moves, SameEnd
<1> QED BY <1>1, <1>2 DEF Moves

\* No step at all.
LEMMA MovesNone == ASSUME NEW st, IsState(st) PROVE Moves([st |-> st, out |-> <<>>], st, <<>>, <<>>)
  BY ShowsNone DEF Moves, SameEnd

\* Each codec has the step operators of StreamChunks under its own name.
LEMMA StepsAlike ==
    /\ \A st, es : A!Emit(st, es) = [st |-> st, out |-> es] /\ O!Emit(st, es) = [st |-> st, out |-> es]
                   /\ R!Emit(st, es) = [st |-> st, out |-> es] /\ Emit(st, es) = [st |-> st, out |-> es]
    /\ \A st : A!Nothing(st) = [st |-> st, out |-> <<>>] /\ O!Nothing(st) = [st |-> st, out |-> <<>>]
               /\ R!Nothing(st) = [st |-> st, out |-> <<>>] /\ Nothing(st) = [st |-> st, out |-> <<>>]
    /\ \A r, n : /\ A!Followed(r, n) = [st |-> n.st, out |-> r.out \o n.out]
                 /\ R!Followed(r, n) = [st |-> n.st, out |-> r.out \o n.out]
                 /\ Followed(r, n) = [st |-> n.st, out |-> r.out \o n.out]
  BY DEF A!Emit, O!Emit, R!Emit, Emit, A!Nothing, O!Nothing, R!Nothing, Nothing,
         A!Followed, R!Followed, Followed

-----------------------------------------------------------------------------
(* Anthropic events.                                                       *)

\* The start and the end of a block carry no text.
LEMMA AnthropicBlocks ==
    ASSUME NEW ix, NEW kind \in {"text", "thinking", "tool_use"}, NEW id, NEW name
    PROVE  /\ Shows(<<A!BlockStart(ix, kind, id, name)>>, <<>>, <<>>)
           /\ ~CutShown(<<A!BlockStart(ix, kind, id, name)>>)
           /\ Shows(<<A!BlockStop(ix)>>, <<>>, <<>>) /\ ~CutShown(<<A!BlockStop(ix)>>)
<1>1. /\ stamp_streamed_response_model(A!BlockStart(ix, kind, id, name)) = A!BlockStart(ix, kind, id, name)
      /\ stamp_streamed_response_model(A!BlockStop(ix)) = A!BlockStop(ix)
  BY DEF stamp_streamed_response_model, A!BlockStart, A!BlockStop
<1>2. \A k \in {"text", "reasoning"} : /\ Adds(A!BlockStart(ix, kind, id, name), k) = <<>>
                                       /\ Adds(A!BlockStop(ix), k) = <<>>
  BY DEF Adds, A!BlockStart, A!BlockStop
<1>3. ~SaysTruncated(A!BlockStart(ix, kind, id, name)) /\ ~SaysTruncated(A!BlockStop(ix))
  BY DEF SaysTruncated, A!BlockStart, A!BlockStop
<1> HIDE DEF A!BlockStart, A!BlockStop
<1> QED BY <1>1, <1>2, <1>3, ShowsOne, NoFragment

\* A delta carries its fragment to the text or to the reasoning, by the kind of its block.
LEMMA AnthropicDeltas ==
    ASSUME NEW ix, NEW x \in Fragments, NEW z
    PROVE  /\ Shows(<<A!BlockDelta(ix, "text", x)>>, x, <<>>) /\ ~CutShown(<<A!BlockDelta(ix, "text", x)>>)
           /\ Shows(<<A!BlockDelta(ix, "thinking", x)>>, <<>>, x) /\ ~CutShown(<<A!BlockDelta(ix, "thinking", x)>>)
           /\ Shows(<<A!BlockDelta(ix, "tool_use", z)>>, <<>>, <<>>) /\ ~CutShown(<<A!BlockDelta(ix, "tool_use", z)>>)
           /\ Shows(<<A!BlockDelta(ix, "signature", <<>>)>>, <<>>, <<>>)
           /\ ~CutShown(<<A!BlockDelta(ix, "signature", <<>>)>>)
<1>1. \A k, d : /\ stamp_streamed_response_model(A!BlockDelta(ix, k, d)) = A!BlockDelta(ix, k, d)
                /\ ~SaysTruncated(A!BlockDelta(ix, k, d))
  BY DEF stamp_streamed_response_model, A!BlockDelta, SaysTruncated
<1>2. \A d : /\ Adds(A!BlockDelta(ix, "text", d), "text") = d /\ Adds(A!BlockDelta(ix, "text", d), "reasoning") = <<>>
             /\ Adds(A!BlockDelta(ix, "thinking", d), "text") = <<>>
             /\ Adds(A!BlockDelta(ix, "thinking", d), "reasoning") = d
             /\ Adds(A!BlockDelta(ix, "tool_use", d), "text") = <<>>
             /\ Adds(A!BlockDelta(ix, "tool_use", d), "reasoning") = <<>>
             /\ Adds(A!BlockDelta(ix, "signature", d), "text") = <<>>
             /\ Adds(A!BlockDelta(ix, "signature", d), "reasoning") = d
  BY DEF Adds, A!BlockDelta
<1> QED BY <1>1, <1>2, ShowsOne, NoFragment

\* close_text_block sends no text.
LEMMA CloseText == ASSUME NEW st, IsState(st) PROVE Moves(A!close_text_block(st), st, <<>>, <<>>)
<1>1. CASE st.textIx = Closed
  <2>1. A!close_text_block(st) = [st |-> st, out |-> <<>>]
    BY <1>1, StepsAlike DEF A!close_text_block, A!Closed, Closed
  <2> QED BY <2>1, MovesNone
<1>2. CASE st.textIx # Closed
  <2> DEFINE s == [st EXCEPT !.textIx = Closed]
             es == <<A!BlockStop(st.textIx)>>
  <2>1. A!close_text_block(st) = [st |-> s, out |-> es]
    BY <1>2, StepsAlike DEF A!close_text_block, A!Closed, Closed
  <2>2. IsState(s) /\ SameEnd(s, st)
    BY DEF IsState, StateNames, SameEnd
  <2>3. Shows(es, <<>>, <<>>) /\ ~CutShown(es)
    BY AnthropicBlocks
  <2> HIDE DEF s, es
  <2> QED BY <2>1, <2>2, <2>3 DEF Moves
<1> QED BY <1>1, <1>2

\* Neither does close_anthropic_reasoning_block, for all the signature it sends.
LEMMA CloseReasoning ==
    ASSUME NEW st, IsState(st) PROVE Moves(A!close_anthropic_reasoning_block(st), st, <<>>, <<>>)
<1>1. CASE st.reasoningIx = Closed
  <2>1. A!close_anthropic_reasoning_block(st) = [st |-> st, out |-> <<>>]
    BY <1>1, StepsAlike DEF A!close_anthropic_reasoning_block, A!Closed, Closed
  <2> QED BY <2>1, MovesNone
<1>2. CASE st.reasoningIx # Closed
  <2> DEFINE s == [st EXCEPT !.reasoningIx = Closed]
             e == A!BlockDelta(st.reasoningIx, "signature", <<>>)
             f == A!BlockStop(st.reasoningIx)
  <2>1. A!close_anthropic_reasoning_block(st) = [st |-> s, out |-> <<e, f>>]
    BY <1>2, StepsAlike DEF A!close_anthropic_reasoning_block, A!Closed, Closed
  <2>2. IsState(s) /\ SameEnd(s, st)
    BY DEF IsState, StateNames, SameEnd
  <2>3. Shows(<<e>>, <<>>, <<>>) /\ ~CutShown(<<e>>) /\ Shows(<<f>>, <<>>, <<>>) /\ ~CutShown(<<f>>)
    BY AnthropicBlocks, AnthropicDeltas, NoFragment
  <2> HIDE DEF s, e, f
  <2>5. Shows(<<e, f>>, <<>>, <<>>) /\ ~CutShown(<<e, f>>)
    BY <2>3, QuietTwo, NoFragment
  <2> QED BY <2>1, <2>2, <2>5 DEF Moves
<1> QED BY <1>1, <1>2

(***************************************************************************)
(* An answer written for an Anthropic client.                              *)
(***************************************************************************)

\* A step from a state with the same end.
LEMMA MovesFrom ==
    ASSUME NEW r, NEW s, NEW st, NEW x, NEW y, Moves(r, s, x, y), SameEnd(s, st)
    PROVE  Moves(r, st, x, y)
  BY DEF Moves, SameEnd

\* A tool's entry is written.
LEMMA ToolWritten ==
    ASSUME NEW st, IsState(st), NEW ix, NEW tool
    PROVE  /\ IsState(WithTool(st, ix, tool)) /\ SameEnd(WithTool(st, ix, tool), st)
           /\ A!WithTool(st, ix, tool) = WithTool(st, ix, tool)
           /\ R!WithTool(st, ix, tool) = WithTool(st, ix, tool)
           /\ WithTool(st, ix, tool).tools[ix] = tool
<1> DEFINE f == [i \in DOMAIN st.tools \cup {ix} |-> IF i = ix THEN tool ELSE st.tools[i]]
           s == [st EXCEPT !.tools = f]
<1>1. WithTool(st, ix, tool) = s
  BY DEF WithTool, IsState, StateNames
<1>2. A!WithTool(st, ix, tool) = s /\ R!WithTool(st, ix, tool) = s
  BY DEF A!WithTool, R!WithTool, IsState, StateNames
<1>3. IsFiniteSet(DOMAIN f)
  <2>1. IsFiniteSet(DOMAIN st.tools)
    BY DEF IsState
  <2>2. DOMAIN f = DOMAIN st.tools \cup {ix}
    OBVIOUS
  <2> HIDE DEF f
  <2> QED BY <2>1, <2>2, FS_AddElement
<1>4. f[ix] = tool
  OBVIOUS
<1> HIDE DEF f
<1>5. IsState(s) /\ SameEnd(s, st) /\ s.tools = f
  BY <1>3 DEF IsState, StateNames, SameEnd
<1> QED BY <1>1, <1>2, <1>4, <1>5

\* Two steps without text.
LEMMA MovesOn ==
    ASSUME NEW r, NEW n, NEW st, Moves(r, st, <<>>, <<>>), Moves(n, r.st, <<>>, <<>>)
    PROVE  Moves([st |-> n.st, out |-> r.out \o n.out], st, <<>>, <<>>)
<1>1. <<>> \in Fragments
  BY NoFragment
<1> QED BY <1>1, MovesThen

\* The text block an Anthropic delta goes to.
LEMMA EnsureText ==
    ASSUME NEW st, IsState(st) PROVE Moves(A!ensure_anthropic_text_block(st), st, <<>>, <<>>)
<1> DEFINE r == A!close_anthropic_reasoning_block(st)
           s == r.st
           n == IF s.textIx # A!Closed THEN A!Nothing(s)
                ELSE A!Emit([A!Opened(s) EXCEPT !.textIx = s.nextIx],
                            <<A!BlockStart(s.nextIx, "text", None, None)>>)
<1>1. Moves(r, st, <<>>, <<>>)
  BY CloseReasoning
<1>2. A!ensure_anthropic_text_block(st) = [st |-> n.st, out |-> r.out \o n.out]
  BY DEF A!ensure_anthropic_text_block, A!AndThen, A!Followed, A!Emit, None, A!None
<1>3. Moves(n, s, <<>>, <<>>)
  <2> HIDE DEF r
  <2>0. IsState(s)
    BY <1>1 DEF Moves
  <2> HIDE DEF s
  <2>1. CASE s.textIx # A!Closed
    <3>1. n = [st |-> s, out |-> <<>>]
      BY <2>1, StepsAlike
    <3> QED BY <2>0, <3>1, MovesNone
  <2>2. CASE s.textIx = A!Closed
    <3> DEFINE t == [A!Opened(s) EXCEPT !.textIx = s.nextIx]
               es == <<A!BlockStart(s.nextIx, "text", None, None)>>
    <3>1. n = [st |-> t, out |-> es]
      BY <2>2, StepsAlike
    <3>2. IsState(t) /\ SameEnd(t, s)
      BY <2>0 DEF IsState, StateNames, SameEnd, A!Opened
    <3>3. Shows(es, <<>>, <<>>) /\ ~CutShown(es)
      BY AnthropicBlocks
    <3> HIDE DEF t, es, n
    <3> QED BY <3>1, <3>2, <3>3 DEF Moves
  <2> QED BY <2>1, <2>2
<1> HIDE DEF r, n
<1> QED BY <1>1, <1>2, <1>3, MovesOn

\* The reasoning block an Anthropic delta goes to.
LEMMA EnsureReasoning ==
    ASSUME NEW st, IsState(st) PROVE Moves(A!ensure_anthropic_reasoning_block(st), st, <<>>, <<>>)
<1> DEFINE r == A!close_text_block(st)
           s == r.st
           n == IF s.reasoningIx # A!Closed THEN A!Nothing(s)
                ELSE A!Emit([A!Opened(s) EXCEPT !.reasoningIx = s.nextIx],
                            <<A!BlockStart(s.nextIx, "thinking", None, None)>>)
<1>1. Moves(r, st, <<>>, <<>>)
  BY CloseText
<1>2. A!ensure_anthropic_reasoning_block(st) = [st |-> n.st, out |-> r.out \o n.out]
  BY DEF A!ensure_anthropic_reasoning_block, A!AndThen, A!Followed, A!Emit, None, A!None
<1>3. Moves(n, s, <<>>, <<>>)
  <2> HIDE DEF r
  <2>0. IsState(s)
    BY <1>1 DEF Moves
  <2> HIDE DEF s
  <2>1. CASE s.reasoningIx # A!Closed
    <3>1. n = [st |-> s, out |-> <<>>]
      BY <2>1, StepsAlike
    <3> QED BY <2>0, <3>1, MovesNone
  <2>2. CASE s.reasoningIx = A!Closed
    <3> DEFINE t == [A!Opened(s) EXCEPT !.reasoningIx = s.nextIx]
               es == <<A!BlockStart(s.nextIx, "thinking", None, None)>>
    <3>1. n = [st |-> t, out |-> es]
      BY <2>2, StepsAlike
    <3>2. IsState(t) /\ SameEnd(t, s)
      BY <2>0 DEF IsState, StateNames, SameEnd, A!Opened
    <3>3. Shows(es, <<>>, <<>>) /\ ~CutShown(es)
      BY AnthropicBlocks
    <3> HIDE DEF t, es, n
    <3> QED BY <3>1, <3>2, <3>3 DEF Moves
  <2> QED BY <2>1, <2>2
<1> HIDE DEF r, n
<1> QED BY <1>1, <1>2, <1>3, MovesOn

\* A text delta, written for an Anthropic client.
LEMMA AnthropicText ==
    ASSUME NEW st, IsState(st), NEW x \in Fragments PROVE Moves(A!encode_text(st, x), st, x, <<>>)
<1> DEFINE u == [st EXCEPT !.tokensSeen = @ + 1]
           r == A!ensure_anthropic_text_block(u)
           n == [st |-> r.st, out |-> <<A!BlockDelta(r.st.textIx, "text", x)>>]
<1>1. IsState(u) /\ SameEnd(u, st)
  BY DEF IsState, StateNames, SameEnd
<1>2. A!encode_text(st, x) = [st |-> n.st, out |-> r.out \o n.out]
  BY DEF A!encode_text, A!AndThen, A!Followed, A!Emit
<1> HIDE DEF u
<1>3. Moves(r, st, <<>>, <<>>)
  BY <1>1, EnsureText, MovesFrom
<1> HIDE DEF r
<1>4. Moves(n, r.st, x, <<>>)
  <2>1. Shows(n.out, x, <<>>) /\ ~CutShown(n.out)
    BY AnthropicDeltas
  <2>2. n.st = r.st /\ IsState(r.st)
    BY <1>3 DEF Moves
  <2> HIDE DEF n
  <2> QED BY <2>1, <2>2 DEF Moves, SameEnd
<1> HIDE DEF n
<1>5. <<>> \in Fragments
  BY NoFragment
<1> QED BY <1>2, <1>3, <1>4, <1>5, MovesThen

\* A reasoning delta, written for an Anthropic client.
LEMMA AnthropicReasoning ==
    ASSUME NEW st, IsState(st), NEW y \in Fragments
    PROVE  Moves(A!encode_reasoning(st, y), st, <<>>, y)
<1> DEFINE r == A!ensure_anthropic_reasoning_block(st)
           n == [st |-> r.st, out |-> <<A!BlockDelta(r.st.reasoningIx, "thinking", y)>>]
<1>2. A!encode_reasoning(st, y) = [st |-> n.st, out |-> r.out \o n.out]
  BY DEF A!encode_reasoning, A!AndThen, A!Followed, A!Emit
<1>3. Moves(r, st, <<>>, <<>>)
  BY EnsureReasoning
<1> HIDE DEF r
<1>4. Moves(n, r.st, <<>>, y)
  <2>1. Shows(n.out, <<>>, y) /\ ~CutShown(n.out)
    BY AnthropicDeltas
  <2>2. n.st = r.st /\ IsState(r.st)
    BY <1>3 DEF Moves
  <2> HIDE DEF n
  <2> QED BY <2>1, <2>2 DEF Moves, SameEnd
<1> HIDE DEF n
<1>5. <<>> \in Fragments
  BY NoFragment
<1> QED BY <1>2, <1>3, <1>4, <1>5, MovesThen

\* A tool call's block is started once its name is known.
LEMMA AnthropicToolStart ==
    ASSUME NEW st, IsState(st), NEW chunk
    PROVE  Moves(A!start_tool(st, chunk), st, <<>>, <<>>)
<1> DEFINE tool == A!ToolAfter(st, chunk)
           begun == [tool EXCEPT !.started = TRUE, !.ix = st.nextIx]
           u == A!Opened(st)
           es == <<A!BlockStart(st.nextIx, "tool_use", tool.id, tool.name)>>
<1>1. CASE tool.started \/ tool.name = None
  <2>1. A!start_tool(st, chunk) = [st |-> A!WithTool(st, chunk.ix, tool), out |-> <<>>]
    BY <1>1, StepsAlike DEF A!start_tool, A!None, None
  <2> HIDE DEF tool
  <2> QED BY <2>1, ToolWritten, MovesNone, MovesFrom
<1>2. CASE ~(tool.started \/ tool.name = None)
  <2>1. A!start_tool(st, chunk) = [st |-> A!WithTool(u, chunk.ix, begun), out |-> es]
    BY <1>2, StepsAlike DEF A!start_tool, A!None, None
  <2>2. IsState(u) /\ SameEnd(u, st)
    BY DEF IsState, StateNames, SameEnd, A!Opened
  <2>3. Shows(es, <<>>, <<>>) /\ ~CutShown(es)
    BY AnthropicBlocks
  <2> HIDE DEF tool, begun, u, es
  <2>4. IsState(A!WithTool(u, chunk.ix, begun)) /\ SameEnd(A!WithTool(u, chunk.ix, begun), u)
    BY <2>2, ToolWritten
  <2> QED BY <2>1, <2>2, <2>3, <2>4 DEF Moves, SameEnd
<1> QED BY <1>1, <1>2

\* What a tool call has pending is sent.
LEMMA AnthropicToolFlush ==
    ASSUME NEW st, IsState(st), NEW ix PROVE Moves(A!flush_tool(st, ix), st, <<>>, <<>>)
<1> DEFINE tool == st.tools[ix]
           less == [tool EXCEPT !.pending = <<>>]
           es == <<A!BlockDelta(tool.ix, "tool_use", tool.pending)>>
<1>1. CASE ~tool.started \/ tool.pending = <<>>
  <2>1. A!flush_tool(st, ix) = [st |-> st, out |-> <<>>]
    BY <1>1, StepsAlike DEF A!flush_tool
  <2> QED BY <2>1, MovesNone
<1>2. CASE ~(~tool.started \/ tool.pending = <<>>)
  <2>1. A!flush_tool(st, ix) = [st |-> A!WithTool(st, ix, less), out |-> es]
    BY <1>2, StepsAlike DEF A!flush_tool
  <2>2. Shows(es, <<>>, <<>>) /\ ~CutShown(es)
    BY AnthropicDeltas, NoFragment
  <2> HIDE DEF less, es
  <2>3. IsState(A!WithTool(st, ix, less)) /\ SameEnd(A!WithTool(st, ix, less), st)
    BY ToolWritten
  <2> QED BY <2>1, <2>2, <2>3 DEF Moves
<1> QED BY <1>1, <1>2

\* A tool call's delta, written for an Anthropic client.
LEMMA AnthropicTool ==
    ASSUME NEW st, IsState(st), NEW chunk
    PROVE  Moves(A!encode_anthropic_tool_delta(st, chunk), st, <<>>, <<>>)
<1> DEFINE r == A!close_anthropic_reasoning_block(st)
           n == A!close_text_block(r.st)
           p == [st |-> n.st, out |-> r.out \o n.out]
           m == A!start_tool(p.st, chunk)
           q == [st |-> m.st, out |-> p.out \o m.out]
           l == A!flush_tool(q.st, chunk.ix)
<1>1. A!encode_anthropic_tool_delta(st, chunk) = [st |-> l.st, out |-> q.out \o l.out]
  BY DEF A!encode_anthropic_tool_delta, A!AndThen, A!Followed, A!Emit
<1>2. Moves(r, st, <<>>, <<>>)
  BY CloseReasoning
<1> HIDE DEF r
<1>3. Moves(n, r.st, <<>>, <<>>)
  BY <1>2, CloseText DEF Moves
<1> HIDE DEF n
<1>4. Moves(p, st, <<>>, <<>>)
  BY <1>2, <1>3, MovesOn
<1> HIDE DEF p
<1>5. Moves(m, p.st, <<>>, <<>>)
  BY <1>4, AnthropicToolStart DEF Moves
<1> HIDE DEF m
<1>6. Moves(q, st, <<>>, <<>>)
  BY <1>4, <1>5, MovesOn
<1> HIDE DEF q
<1>7. Moves(l, q.st, <<>>, <<>>)
  BY <1>6, AnthropicToolFlush DEF Moves
<1> HIDE DEF l
<1> QED BY <1>1, <1>6, <1>7, MovesOn

\* A chunk that is part of the answer, with the text and the reasoning it carries.
Talk(chunk, x, y) ==
    \/ chunk.c \in {"start", "tool"} /\ x = <<>> /\ y = <<>>
    \/ chunk.c = "text" /\ chunk.text = x /\ y = <<>>
    \/ chunk.c \in {"reasoning", "details"} /\ chunk.text = y /\ x = <<>>

\* What an Anthropic client is sent of the answer is what the answer says.
LEMMA AnthropicTalk ==
    ASSUME NEW st, IsState(st), ~st.errored, NEW chunk, NEW x \in Fragments, NEW y \in Fragments,
           Talk(chunk, x, y)
    PROVE  Moves(A!encode_anthropic_stream(st, chunk), st, x, y)
<1> DEFINE r == A!encode_anthropic_stream(st, chunk)
<1>1. CASE chunk.c = "start"
  <2> DEFINE known == A!record_source_identity(st, chunk)
             s == [known EXCEPT !.emittedStart = TRUE]
             e == [t |-> "message_start", model |-> A!ModelShown(known), usage |-> A!NoUsage]
  <2>1. x = <<>> /\ y = <<>>
    BY <1>1 DEF Talk
  <2>2. IsState(known) /\ SameEnd(known, st) /\ IsState(s) /\ SameEnd(s, st)
    BY DEF IsState, StateNames, SameEnd, A!record_source_identity
  <2>3. r = IF st.emittedStart THEN A!Nothing(known) ELSE A!Emit(s, <<e>>)
    BY <1>1 DEF A!encode_anthropic_stream, A!IsError
  <2>4. Shows(<<e>>, <<>>, <<>>) /\ ~CutShown(<<e>>)
    <3> DEFINE f == stamp_streamed_response_model(e)
    <3>1. f.t = "message_start"
      BY DEF stamp_streamed_response_model
    <3> HIDE DEF f
    <3>2. Adds(f, "text") = <<>> /\ Adds(f, "reasoning") = <<>> /\ ~SaysTruncated(f)
      BY <3>1 DEF Adds, SaysTruncated
    <3> HIDE DEF e
    <3> QED BY <3>2, ShowsOne, NoFragment DEF f
  <2> HIDE DEF known, s, e
  <2>5. Moves([st |-> s, out |-> <<e>>], st, <<>>, <<>>)
    BY <2>2, <2>4 DEF Moves
  <2>6. Moves([st |-> known, out |-> <<>>], st, <<>>, <<>>)
    BY <2>2, MovesNone, MovesFrom
  <2> QED BY <2>1, <2>3, <2>5, <2>6, StepsAlike
<1>2. CASE chunk.c = "text"
  <2>1. r = A!encode_text(st, x) /\ y = <<>>
    BY <1>2 DEF A!encode_anthropic_stream, A!IsError, Talk
  <2> QED BY <2>1, AnthropicText
<1>3. CASE chunk.c = "reasoning"
  <2>1. r = A!encode_reasoning(st, y) /\ x = <<>>
    BY <1>3 DEF A!encode_anthropic_stream, A!IsError, Talk
  <2> QED BY <2>1, AnthropicReasoning
<1>4. CASE chunk.c = "details"
  <2>1. r = (IF y = <<>> THEN [st |-> st, out |-> <<>>] ELSE A!encode_reasoning(st, y)) /\ x = <<>>
    BY <1>4, StepsAlike DEF A!encode_anthropic_stream, A!IsError, Talk
  <2> QED BY <2>1, AnthropicReasoning, MovesNone
<1>5. CASE chunk.c = "tool"
  <2>1. r = A!encode_anthropic_tool_delta(st, chunk) /\ x = <<>> /\ y = <<>>
    BY <1>5 DEF A!encode_anthropic_stream, A!IsError, Talk
  <2> QED BY <2>1, AnthropicTool
<1> QED BY <1>1, <1>2, <1>3, <1>4, <1>5 DEF Talk

(***************************************************************************)
(* An answer written for clients of Responses and of OpenAI.               *)
(***************************************************************************)

\* Events that carry no text and no reason to stop.
LEMMA QuietEvent ==
    ASSUME NEW e, "t" \in DOMAIN e,
           e.t \notin {"chunk", "content_block_delta", "delta", "incomplete", "message_delta"}
    PROVE  Shows(<<e>>, <<>>, <<>>) /\ ~CutShown(<<e>>)
<1> DEFINE f == stamp_streamed_response_model(e)
<1>1. f.t = e.t
  BY DEF stamp_streamed_response_model
<1> HIDE DEF f
<1>2. Adds(f, "text") = <<>> /\ Adds(f, "reasoning") = <<>> /\ ~SaysTruncated(f)
  BY <1>1 DEF Adds, SaysTruncated
<1>3. <<>> \in Fragments
  BY NoFragment
<1> QED BY <1>2, <1>3, ShowsOne DEF f

\* Responses events that carry no text.
LEMMA ResponsesItems ==
    ASSUME NEW ix, NEW kind, NEW id, NEW name, NEW full
    PROVE  /\ Shows(<<R!ItemAdded(ix, kind, id, name, full)>>, <<>>, <<>>)
           /\ ~CutShown(<<R!ItemAdded(ix, kind, id, name, full)>>)
           /\ Shows(<<R!ItemDone(ix, kind, full)>>, <<>>, <<>>) /\ ~CutShown(<<R!ItemDone(ix, kind, full)>>)
           /\ Shows(<<R!PartAdded(ix, kind)>>, <<>>, <<>>) /\ ~CutShown(<<R!PartAdded(ix, kind)>>)
           /\ Shows(<<R!PartDone(ix, kind, full)>>, <<>>, <<>>) /\ ~CutShown(<<R!PartDone(ix, kind, full)>>)
<1> DEFINE e1 == R!ItemAdded(ix, kind, id, name, full)
           e2 == R!ItemDone(ix, kind, full)
           e3 == R!PartAdded(ix, kind)
           e4 == R!PartDone(ix, kind, full)
<1>1. /\ "t" \in DOMAIN e1 /\ e1.t = "output_item.added"
      /\ "t" \in DOMAIN e2 /\ e2.t = "output_item.done"
      /\ "t" \in DOMAIN e3 /\ e3.t = "part.added"
      /\ "t" \in DOMAIN e4 /\ e4.t = "part.done"
  BY DEF R!ItemAdded, R!ItemDone, R!PartAdded, R!PartDone
<1> HIDE DEF e1, e2, e3, e4
<1>2. /\ Shows(<<e1>>, <<>>, <<>>) /\ ~CutShown(<<e1>>) /\ Shows(<<e2>>, <<>>, <<>>) /\ ~CutShown(<<e2>>)
      /\ Shows(<<e3>>, <<>>, <<>>) /\ ~CutShown(<<e3>>) /\ Shows(<<e4>>, <<>>, <<>>) /\ ~CutShown(<<e4>>)
  BY <1>1, QuietEvent
<1> QED BY <1>2 DEF e1, e2, e3, e4

\* The deltas of a Responses stream.
LEMMA ResponsesDeltas ==
    ASSUME NEW ix, NEW x \in Fragments, NEW z
    PROVE  /\ Shows(<<R!Delta(ix, "message", x)>>, x, <<>>) /\ ~CutShown(<<R!Delta(ix, "message", x)>>)
           /\ Shows(<<R!Delta(ix, "reasoning", x)>>, <<>>, x) /\ ~CutShown(<<R!Delta(ix, "reasoning", x)>>)
           /\ Shows(<<R!Delta(ix, "function_call", z)>>, <<>>, <<>>)
           /\ ~CutShown(<<R!Delta(ix, "function_call", z)>>)
<1>1. \A k, d : /\ stamp_streamed_response_model(R!Delta(ix, k, d)) = R!Delta(ix, k, d)
                /\ ~SaysTruncated(R!Delta(ix, k, d))
  BY DEF stamp_streamed_response_model, R!Delta, SaysTruncated
<1>2. \A d : /\ Adds(R!Delta(ix, "message", d), "text") = d /\ Adds(R!Delta(ix, "message", d), "reasoning") = <<>>
             /\ Adds(R!Delta(ix, "reasoning", d), "text") = <<>>
             /\ Adds(R!Delta(ix, "reasoning", d), "reasoning") = d
             /\ Adds(R!Delta(ix, "function_call", d), "text") = <<>>
             /\ Adds(R!Delta(ix, "function_call", d), "reasoning") = <<>>
  BY DEF Adds, R!Delta
<1> QED BY <1>1, <1>2, ShowsOne, NoFragment

\* The chunks of an OpenAI stream.
LEMMA OpenAiChunk ==
    ASSUME NEW e, DOMAIN e = DOMAIN O!OpenAi(None), e.t = "chunk", e.text \in Fragments, e.reasoning \in Fragments
    PROVE  Shows(<<e>>, e.text, e.reasoning) /\ (CutShown(<<e>>) <=> e.finish = "length")
<1> DEFINE f == stamp_streamed_response_model(e)
<1>0. DOMAIN e = {"t", "model", "text", "reasoning", "details", "tools", "finish", "usage"}
  BY DEF O!OpenAi
<1>1. f.t = "chunk" /\ f.text = e.text /\ f.reasoning = e.reasoning /\ f.finish = e.finish
  BY <1>0 DEF stamp_streamed_response_model
<1> HIDE DEF f
<1>2. Adds(f, "text") = e.text /\ Adds(f, "reasoning") = e.reasoning /\ (SaysTruncated(f) <=> e.finish = "length")
  BY <1>1 DEF Adds, SaysTruncated
<1> QED BY <1>2, ShowsOne DEF f

-----------------------------------------------------------------------------
(* Responses clients.                                                      *)

\* The response is announced once.
LEMMA EnsureCreated ==
    ASSUME NEW st, IsState(st) PROVE Moves(R!ensure_responses_created(st), st, <<>>, <<>>)
<1>1. CASE st.emittedStart
  <2>1. R!ensure_responses_created(st) = [st |-> st, out |-> <<>>]
    BY <1>1, StepsAlike DEF R!ensure_responses_created
  <2> QED BY <2>1, MovesNone
<1>2. CASE ~st.emittedStart
  <2> DEFINE s == [st EXCEPT !.emittedStart = TRUE]
             e == [t |-> "created", model |-> R!ModelShown(st)]
  <2>1. R!ensure_responses_created(st) = [st |-> s, out |-> <<e>>]
    BY <1>2, StepsAlike DEF R!ensure_responses_created
  <2>2. IsState(s) /\ SameEnd(s, st)
    BY DEF IsState, StateNames, SameEnd
  <2>3. "t" \in DOMAIN e /\ e.t = "created"
    OBVIOUS
  <2> HIDE DEF s, e
  <2>4. Shows(<<e>>, <<>>, <<>>) /\ ~CutShown(<<e>>)
    BY <2>3, QuietEvent
  <2> QED BY <2>1, <2>2, <2>4 DEF Moves
<1> QED BY <1>1, <1>2

\* Two events without text are shown as nothing.
LEMMA QuietPair ==
    ASSUME NEW e, NEW f, Shows(<<e>>, <<>>, <<>>), ~CutShown(<<e>>), Shows(<<f>>, <<>>, <<>>), ~CutShown(<<f>>)
    PROVE  Shows(<<e, f>>, <<>>, <<>>) /\ ~CutShown(<<e, f>>)
<1>1. <<>> \in Fragments
  BY NoFragment
<1> QED BY <1>1, QuietTwo

\* The item a text delta goes to.
LEMMA OpenText == ASSUME NEW st, IsState(st) PROVE Moves(R!open_text(st), st, <<>>, <<>>)
<1>1. CASE st.textIx # R!Closed
  <2>1. R!open_text(st) = [st |-> st, out |-> <<>>]
    BY <1>1, StepsAlike DEF R!open_text
  <2> QED BY <2>1, MovesNone
<1>2. CASE st.textIx = R!Closed
  <2> DEFINE s == [st EXCEPT !.textIx = st.nextIx, !.nextIx = @ + 1]
             e == R!ItemAdded(st.nextIx, "message", R!None, R!None, <<>>)
             f == R!PartAdded(st.nextIx, "message")
  <2>1. R!open_text(st) = [st |-> s, out |-> <<e, f>>]
    BY <1>2, StepsAlike DEF R!open_text
  <2>2. IsState(s) /\ SameEnd(s, st)
    BY DEF IsState, StateNames, SameEnd
  <2>3. Shows(<<e>>, <<>>, <<>>) /\ ~CutShown(<<e>>) /\ Shows(<<f>>, <<>>, <<>>) /\ ~CutShown(<<f>>)
    BY ResponsesItems
  <2> HIDE DEF s, e, f
  <2> QED BY <2>1, <2>2, <2>3, QuietPair DEF Moves
<1> QED BY <1>1, <1>2

\* The item a reasoning delta goes to.
LEMMA OpenReasoning == ASSUME NEW st, IsState(st) PROVE Moves(R!open_reasoning(st), st, <<>>, <<>>)
<1>1. CASE st.reasoningIx # R!Closed
  <2>1. R!open_reasoning(st) = [st |-> st, out |-> <<>>]
    BY <1>1, StepsAlike DEF R!open_reasoning
  <2> QED BY <2>1, MovesNone
<1>2. CASE st.reasoningIx = R!Closed
  <2> DEFINE s == [st EXCEPT !.reasoningIx = st.nextIx, !.nextIx = @ + 1]
             e == R!ItemAdded(st.nextIx, "reasoning", R!None, R!None, <<>>)
             f == R!PartAdded(st.nextIx, "reasoning")
  <2>1. R!open_reasoning(st) = [st |-> s, out |-> <<e, f>>]
    BY <1>2, StepsAlike DEF R!open_reasoning
  <2>2. IsState(s) /\ SameEnd(s, st)
    BY DEF IsState, StateNames, SameEnd
  <2>3. Shows(<<e>>, <<>>, <<>>) /\ ~CutShown(<<e>>) /\ Shows(<<f>>, <<>>, <<>>) /\ ~CutShown(<<f>>)
    BY ResponsesItems
  <2> HIDE DEF s, e, f
  <2> QED BY <2>1, <2>2, <2>3, QuietPair DEF Moves
<1> QED BY <1>1, <1>2

\* A text delta, written for a Responses client.
LEMMA ResponsesText ==
    ASSUME NEW st, IsState(st), NEW x \in Fragments
    PROVE  Moves(R!encode_responses_text_delta(st, x), st, x, <<>>)
<1> DEFINE r == R!ensure_responses_created(st)
           n == R!open_text(r.st)
           p == [st |-> n.st, out |-> r.out \o n.out]
           m == [st |-> [p.st EXCEPT !.text = @ \o x], out |-> <<R!Delta(p.st.textIx, "message", x)>>]
<1>1. R!encode_responses_text_delta(st, x) = [st |-> m.st, out |-> p.out \o m.out]
  BY DEF R!encode_responses_text_delta, R!AndThen, R!Followed, R!Emit
<1>2. Moves(r, st, <<>>, <<>>)
  BY EnsureCreated
<1> HIDE DEF r
<1>3. Moves(n, r.st, <<>>, <<>>)
  BY <1>2, OpenText DEF Moves
<1> HIDE DEF n
<1>4. Moves(p, st, <<>>, <<>>)
  BY <1>2, <1>3, MovesOn
<1> HIDE DEF p
<1>5. Moves(m, p.st, x, <<>>)
  <2>1. Shows(m.out, x, <<>>) /\ ~CutShown(m.out)
    BY ResponsesDeltas
  <2>2. IsState(m.st) /\ SameEnd(m.st, p.st)
    BY <1>4 DEF Moves, IsState, StateNames, SameEnd
  <2> HIDE DEF m
  <2> QED BY <2>1, <2>2 DEF Moves
<1> HIDE DEF m
<1>6. <<>> \in Fragments
  BY NoFragment
<1> QED BY <1>1, <1>4, <1>5, <1>6, MovesThen

\* A reasoning delta, written for a Responses client.
LEMMA ResponsesReasoning ==
    ASSUME NEW st, IsState(st), NEW y \in Fragments
    PROVE  Moves(R!encode_responses_reasoning_delta(st, y), st, <<>>, y)
<1> DEFINE r == R!ensure_responses_created(st)
           n == R!open_reasoning(r.st)
           p == [st |-> n.st, out |-> r.out \o n.out]
           m == [st |-> [p.st EXCEPT !.reasoning = @ \o y],
                 out |-> <<R!Delta(p.st.reasoningIx, "reasoning", y)>>]
<1>1. R!encode_responses_reasoning_delta(st, y) = [st |-> m.st, out |-> p.out \o m.out]
  BY DEF R!encode_responses_reasoning_delta, R!AndThen, R!Followed, R!Emit
<1>2. Moves(r, st, <<>>, <<>>)
  BY EnsureCreated
<1> HIDE DEF r
<1>3. Moves(n, r.st, <<>>, <<>>)
  BY <1>2, OpenReasoning DEF Moves
<1> HIDE DEF n
<1>4. Moves(p, st, <<>>, <<>>)
  BY <1>2, <1>3, MovesOn
<1> HIDE DEF p
<1>5. Moves(m, p.st, <<>>, y)
  <2>1. Shows(m.out, <<>>, y) /\ ~CutShown(m.out)
    BY ResponsesDeltas
  <2>2. IsState(m.st) /\ SameEnd(m.st, p.st)
    BY <1>4 DEF Moves, IsState, StateNames, SameEnd
  <2> HIDE DEF m
  <2> QED BY <2>1, <2>2 DEF Moves
<1> HIDE DEF m
<1>6. <<>> \in Fragments
  BY NoFragment
<1> QED BY <1>1, <1>4, <1>5, <1>6, MovesThen

\* A tool call's item is added once its name is known.
LEMMA ResponsesToolStart ==
    ASSUME NEW st, IsState(st), NEW chunk
    PROVE  Moves(R!start_tool(st, chunk), st, <<>>, <<>>)
<1> DEFINE tool == R!ToolAfter(st, chunk)
           begun == [tool EXCEPT !.started = TRUE, !.ix = st.nextIx]
           u == [st EXCEPT !.nextIx = @ + 1]
           es == <<R!ItemAdded(st.nextIx, "function_call", tool.id, tool.name, <<>>)>>
<1>1. CASE tool.started \/ tool.name = R!None
  <2>1. R!start_tool(st, chunk) = [st |-> R!WithTool(st, chunk.ix, tool), out |-> <<>>]
    BY <1>1, StepsAlike DEF R!start_tool
  <2> HIDE DEF tool
  <2> QED BY <2>1, ToolWritten, MovesNone, MovesFrom
<1>2. CASE ~(tool.started \/ tool.name = R!None)
  <2>1. R!start_tool(st, chunk) = [st |-> R!WithTool(u, chunk.ix, begun), out |-> es]
    BY <1>2, StepsAlike DEF R!start_tool
  <2>2. IsState(u) /\ SameEnd(u, st)
    BY DEF IsState, StateNames, SameEnd
  <2>3. Shows(es, <<>>, <<>>) /\ ~CutShown(es)
    BY ResponsesItems
  <2> HIDE DEF tool, begun, u, es
  <2>4. IsState(R!WithTool(u, chunk.ix, begun)) /\ SameEnd(R!WithTool(u, chunk.ix, begun), u)
    BY <2>2, ToolWritten
  <2> QED BY <2>1, <2>2, <2>3, <2>4 DEF Moves, SameEnd
<1> QED BY <1>1, <1>2

\* What a tool call has pending is sent.
LEMMA ResponsesToolFlush ==
    ASSUME NEW st, IsState(st), NEW ix PROVE Moves(R!flush_tool(st, ix), st, <<>>, <<>>)
<1> DEFINE tool == st.tools[ix]
           less == [tool EXCEPT !.pending = <<>>]
           es == <<R!Delta(tool.ix, "function_call", tool.pending)>>
<1>1. CASE ~tool.started \/ tool.pending = <<>>
  <2>1. R!flush_tool(st, ix) = [st |-> st, out |-> <<>>]
    BY <1>1, StepsAlike DEF R!flush_tool
  <2> QED BY <2>1, MovesNone
<1>2. CASE ~(~tool.started \/ tool.pending = <<>>)
  <2>1. R!flush_tool(st, ix) = [st |-> R!WithTool(st, ix, less), out |-> es]
    BY <1>2, StepsAlike DEF R!flush_tool
  <2>2. Shows(es, <<>>, <<>>) /\ ~CutShown(es)
    BY ResponsesDeltas, NoFragment
  <2> HIDE DEF less, es
  <2>3. IsState(R!WithTool(st, ix, less)) /\ SameEnd(R!WithTool(st, ix, less), st)
    BY ToolWritten
  <2> QED BY <2>1, <2>2, <2>3 DEF Moves
<1> QED BY <1>1, <1>2

\* A tool call's delta, written for a Responses client.
LEMMA ResponsesTool ==
    ASSUME NEW st, IsState(st), NEW chunk
    PROVE  Moves(R!encode_responses_tool_delta(st, chunk), st, <<>>, <<>>)
<1> DEFINE r == R!ensure_responses_created(st)
           n == R!start_tool(r.st, chunk)
           p == [st |-> n.st, out |-> r.out \o n.out]
           m == R!flush_tool(p.st, chunk.ix)
<1>1. R!encode_responses_tool_delta(st, chunk) = [st |-> m.st, out |-> p.out \o m.out]
  BY DEF R!encode_responses_tool_delta, R!AndThen, R!Followed, R!Emit
<1>2. Moves(r, st, <<>>, <<>>)
  BY EnsureCreated
<1> HIDE DEF r
<1>3. Moves(n, r.st, <<>>, <<>>)
  BY <1>2, ResponsesToolStart DEF Moves
<1> HIDE DEF n
<1>4. Moves(p, st, <<>>, <<>>)
  BY <1>2, <1>3, MovesOn
<1> HIDE DEF p
<1>5. Moves(m, p.st, <<>>, <<>>)
  BY <1>4, ResponsesToolFlush DEF Moves
<1> HIDE DEF m
<1> QED BY <1>1, <1>4, <1>5, MovesOn

\* What a Responses client is sent of the answer is what the answer says.
LEMMA ResponsesTalk ==
    ASSUME NEW st, IsState(st), ~st.errored, NEW chunk, NEW x \in Fragments, NEW y \in Fragments,
           Talk(chunk, x, y)
    PROVE  Moves(R!encode_responses_stream(st, chunk), st, x, y)
<1> DEFINE r == R!encode_responses_stream(st, chunk)
<1>1. CASE chunk.c = "start"
  <2> DEFINE known == R!record_source_identity(st, chunk)
  <2>1. x = <<>> /\ y = <<>>
    BY <1>1 DEF Talk
  <2>2. IsState(known) /\ SameEnd(known, st)
    BY DEF IsState, StateNames, SameEnd, R!record_source_identity
  <2>3. r = R!ensure_responses_created(known)
    BY <1>1 DEF R!encode_responses_stream, R!IsError
  <2> HIDE DEF known
  <2> QED BY <2>1, <2>2, <2>3, EnsureCreated, MovesFrom
<1>2. CASE chunk.c = "text"
  <2>1. r = R!encode_responses_text_delta(st, x) /\ y = <<>>
    BY <1>2 DEF R!encode_responses_stream, R!IsError, Talk
  <2> QED BY <2>1, ResponsesText
<1>3. CASE chunk.c = "reasoning"
  <2>1. r = R!encode_responses_reasoning_delta(st, y) /\ x = <<>>
    BY <1>3 DEF R!encode_responses_stream, R!IsError, Talk
  <2> QED BY <2>1, ResponsesReasoning
<1>4. CASE chunk.c = "details"
  <2>1. r = (IF y = <<>> THEN [st |-> st, out |-> <<>>] ELSE R!encode_responses_reasoning_delta(st, y)) /\ x = <<>>
    BY <1>4, StepsAlike DEF R!encode_responses_stream, R!IsError, Talk
  <2> QED BY <2>1, ResponsesReasoning, MovesNone
<1>5. CASE chunk.c = "tool"
  <2>1. r = R!encode_responses_tool_delta(st, chunk) /\ x = <<>> /\ y = <<>>
    BY <1>5 DEF R!encode_responses_stream, R!IsError, Talk
  <2> QED BY <2>1, ResponsesTool
<1> QED BY <1>1, <1>2, <1>3, <1>4, <1>5 DEF Talk

-----------------------------------------------------------------------------
(* OpenAI clients.                                                         *)

ChunkNames == {"t", "model", "text", "reasoning", "details", "tools", "finish", "usage"}

\* One chunk of an OpenAI stream that does not end it.
LEMMA OpenAiOne ==
    ASSUME NEW st, IsState(st), NEW e, NEW x \in Fragments, NEW y \in Fragments,
           DOMAIN e = ChunkNames, e.t = "chunk", e.text = x, e.reasoning = y, e.finish = None
    PROVE  Moves([st |-> st, out |-> <<e>>], st, x, y)
<1>1. DOMAIN e = DOMAIN O!OpenAi(None)
  BY DEF O!OpenAi, ChunkNames
<1>2. Shows(<<e>>, x, y) /\ ~CutShown(<<e>>)
  BY <1>1, OpenAiChunk DEF None
<1> QED BY <1>2 DEF Moves, SameEnd

\* What an OpenAI client is sent of the answer is what the answer says.
LEMMA OpenAiTalk ==
    ASSUME NEW st, IsState(st), ~st.errored, NEW chunk, NEW x \in Fragments, NEW y \in Fragments,
           Talk(chunk, x, y)
    PROVE  Moves(O!encode_openai_chat_stream(st, chunk), st, x, y)
<1> DEFINE r == O!encode_openai_chat_stream(st, chunk)
           shown == O!openai_stream_chunk(st)
<1>0. <<>> \in Fragments
  BY NoFragment
<1>1. CASE chunk.c = "start"
  <2> DEFINE s == [O!record_source_identity(st, chunk) EXCEPT !.sawStart = TRUE]
  <2>1. x = <<>> /\ y = <<>>
    BY <1>1 DEF Talk
  <2>2. IsState(s) /\ SameEnd(s, st)
    BY DEF IsState, StateNames, SameEnd, O!record_source_identity
  <2>3. r = [st |-> s, out |-> <<>>]
    BY <1>1, StepsAlike DEF O!encode_openai_chat_stream, O!IsError
  <2> HIDE DEF s
  <2> QED BY <2>1, <2>2, <2>3, MovesNone, MovesFrom
<1>3. CASE chunk.c = "text"
  <2> DEFINE e == [shown EXCEPT !.text = x]
  <2>1. r = [st |-> st, out |-> <<e>>] /\ y = <<>>
    BY <1>3, StepsAlike DEF O!encode_openai_chat_stream, O!IsError, Talk
  <2>2. DOMAIN e = ChunkNames /\ e.t = "chunk" /\ e.text = x /\ e.reasoning = <<>> /\ e.finish = None
    BY DEF O!openai_stream_chunk, O!OpenAi, O!None, None, ChunkNames
  <2>3. x \in Fragments /\ y \in Fragments /\ e.text = x /\ e.reasoning = y
    BY <2>1, <2>2
  <2> HIDE DEF e
  <2>4. Moves([st |-> st, out |-> <<e>>], st, x, y)
    BY <2>2, <2>3, OpenAiOne
  <2> QED BY <2>1, <2>4
<1>4. CASE chunk.c = "reasoning"
  <2> DEFINE e == [shown EXCEPT !.reasoning = y]
  <2>1. r = [st |-> st, out |-> <<e>>] /\ x = <<>>
    BY <1>4, StepsAlike DEF O!encode_openai_chat_stream, O!IsError, Talk
  <2>2. DOMAIN e = ChunkNames /\ e.t = "chunk" /\ e.text = <<>> /\ e.reasoning = y /\ e.finish = None
    BY DEF O!openai_stream_chunk, O!OpenAi, O!None, None, ChunkNames
  <2>3. x \in Fragments /\ y \in Fragments /\ e.text = x /\ e.reasoning = y
    BY <2>1, <2>2
  <2> HIDE DEF e
  <2>4. Moves([st |-> st, out |-> <<e>>], st, x, y)
    BY <2>2, <2>3, OpenAiOne
  <2> QED BY <2>1, <2>4
<1>5. CASE chunk.c = "details"
  <2> DEFINE e == [shown EXCEPT !.details = chunk.details, !.reasoning = y]
  <2>1. r = [st |-> st, out |-> <<e>>] /\ x = <<>>
    BY <1>5, StepsAlike DEF O!encode_openai_chat_stream, O!IsError, Talk
  <2>2. DOMAIN e = ChunkNames /\ e.t = "chunk" /\ e.text = <<>> /\ e.reasoning = y /\ e.finish = None
    BY DEF O!openai_stream_chunk, O!OpenAi, O!None, None, ChunkNames
  <2>3. x \in Fragments /\ y \in Fragments /\ e.text = x /\ e.reasoning = y
    BY <2>1, <2>2
  <2> HIDE DEF e
  <2>4. Moves([st |-> st, out |-> <<e>>], st, x, y)
    BY <2>2, <2>3, OpenAiOne
  <2> QED BY <2>1, <2>4
<1>6. CASE chunk.c = "tool"
  <2> DEFINE e == [shown EXCEPT !.tools = <<[ix |-> chunk.ix, id |-> chunk.id, name |-> chunk.name,
                                             args |-> chunk.args]>>]
  <2>1. r = [st |-> st, out |-> <<e>>] /\ x = <<>> /\ y = <<>>
    BY <1>6, StepsAlike DEF O!encode_openai_chat_stream, O!IsError, Talk
  <2>2. DOMAIN e = ChunkNames /\ e.t = "chunk" /\ e.text = <<>> /\ e.reasoning = <<>> /\ e.finish = None
    BY DEF O!openai_stream_chunk, O!OpenAi, O!None, None, ChunkNames
  <2>3. x \in Fragments /\ y \in Fragments /\ e.text = x /\ e.reasoning = y
    BY <2>1, <2>2
  <2> HIDE DEF e
  <2>4. Moves([st |-> st, out |-> <<e>>], st, x, y)
    BY <2>2, <2>3, OpenAiOne
  <2> QED BY <2>1, <2>4
<1> QED BY <1>1, <1>3, <1>4, <1>5, <1>6 DEF Talk

\* The same of any client.
LEMMA TalkMoves ==
    ASSUME target \in Formats, NEW st, IsState(st), ~st.errored, NEW chunk,
           NEW x \in Fragments, NEW y \in Fragments, Talk(chunk, x, y)
    PROVE  Moves(encode_event(st, chunk), st, x, y)
<1>1. CASE target = "openai"
  BY <1>1, OpenAiTalk DEF encode_event
<1>2. CASE target = "anthropic"
  BY <1>2, AnthropicTalk DEF encode_event
<1>3. CASE target = "responses"
  BY <1>3, ResponsesTalk DEF encode_event
<1> QED BY <1>1, <1>2, <1>3 DEF Formats

(***************************************************************************)
(* EncodeChunks: one chunk after the other, from the recursion that        *)
(* defines it.                                                             *)
(***************************************************************************)

Runs(g, st, cs) ==
    /\ g[0] = Nothing(st)
    /\ \A i \in 1 .. Len(cs) : g[i] = Followed(g[i - 1], encode_event(g[i - 1].st, cs[i]))

\* The recursion of EncodeChunks has a solution.
LEMMA ChunksRun ==
    ASSUME NEW st, NEW cs, IsList(cs)
    PROVE  \E g : Runs(g, st, cs) /\ EncodeChunks(st, cs) = g[Len(cs)]
<1> DEFINE n == Len(cs)
           next(r, i) == Followed(r, encode_event(r.st, cs[i]))
           At(g, i) == IF i = 0 THEN Nothing(st) ELSE next(g[i - 1], i)
           Until(k, g) == \A i \in 0 .. n : i =< k => g[i] = At(g, i)
           Reached == {k \in Nat : \E g : Until(k, g)}
<1>0. n \in Nat
  BY ListLen
<1> HIDE DEF n
<1>1. 0 \in Reached
  <2> DEFINE g == [i \in 0 .. n |-> Nothing(st)]
  <2>1. Until(0, g)
    BY <1>0
  <2> QED BY <2>1
<1>2. ASSUME NEW k \in Reached PROVE k + 1 \in Reached
  <2>1. PICK g : Until(k, g)
    OBVIOUS
  <2>2. k \in Nat
    OBVIOUS
  <2> DEFINE h == [i \in 0 .. n |-> IF i = k + 1 THEN next(g[k], k + 1) ELSE g[i]]
  <2>3. Until(k + 1, h)
    <3> SUFFICES ASSUME NEW i \in 0 .. n, i =< k + 1 PROVE h[i] = At(h, i)
      OBVIOUS
    <3>1. CASE i = k + 1
      <4>1. k \in 0 .. n /\ k # k + 1 /\ i - 1 = k /\ i # 0
        BY <1>0, <2>2, <3>1
      <4>2. h[i] = next(g[k], i) /\ h[i - 1] = g[k]
        BY <3>1, <4>1
      <4> HIDE DEF h
      <4> QED BY <4>1, <4>2
    <3>2. CASE i # k + 1
      <4>1. i =< k
        BY <1>0, <2>2, <3>2
      <4>2. h[i] = g[i] /\ (i # 0 => i - 1 \in 0 .. n /\ i - 1 # k + 1 /\ h[i - 1] = g[i - 1])
        BY <1>0, <2>2, <3>2, <4>1
      <4>3. g[i] = At(g, i)
        BY <2>1, <4>1
      <4> HIDE DEF h
      <4> QED BY <4>2, <4>3
    <3> QED BY <3>1, <3>2
  <2> HIDE DEF h, Until
  <2> QED BY <2>2, <2>3
<1>3. n \in Reached
  <2> HIDE DEF Reached, At
  <2>1. Reached \in SUBSET Nat
    BY DEF Reached
  <2> HIDE DEF Until
  <2>2. Reached = Nat
    BY <1>1, <1>2, <2>1, SetInduction
  <2> QED BY <1>0, <2>2
<1>4. PICK g : Until(n, g)
  BY <1>3
<1> DEFINE Solves(h) == h = [i \in 0 .. n |-> IF i = 0 THEN Nothing(st) ELSE next(h[i - 1], i)]
           f == [i \in 0 .. n |-> g[i]]
           h == CHOOSE h : Solves(h)
<1>5. Solves(f)
  <2>1. ASSUME NEW i \in 0 .. n PROVE f[i] = IF i = 0 THEN Nothing(st) ELSE next(f[i - 1], i)
    <3>1. i # 0 => i - 1 \in 0 .. n
      BY <1>0
    <3>2. i =< n
      BY <1>0
    <3> QED BY <1>4, <3>1, <3>2
  <2> QED BY <2>1
<1>6. Solves(h)
  BY <1>5
<1>7. EncodeChunks(st, cs) = h[n]
  BY DEF EncodeChunks, AndThen, n
<1> HIDE DEF h
<1>8. Runs(h, st, cs)
  <2>1. h[0] = Nothing(st)
    BY <1>0, <1>6
  <2>2. ASSUME NEW i \in 1 .. n PROVE h[i] = next(h[i - 1], i)
    <3>1. i \in 0 .. n /\ i # 0
      BY <1>0
    <3> QED BY <1>6, <3>1
  <2> QED BY <2>1, <2>2 DEF Runs, n
<1> QED BY <1>7, <1>8 DEF n

\* No chunks: nothing sent, nothing changed.
LEMMA EncodeNone == ASSUME NEW st PROVE EncodeChunks(st, <<>>) = [st |-> st, out |-> <<>>]
<1> DEFINE cs == <<>>
<1>1. IsList(cs) /\ Len(cs) = 0
  BY ListNone
<1> HIDE DEF cs
<1>2. PICK g : Runs(g, st, cs) /\ EncodeChunks(st, cs) = g[Len(cs)]
  BY <1>1, ChunksRun
<1>3. EncodeChunks(st, cs) = Nothing(st)
  BY <1>1, <1>2 DEF Runs
<1> QED BY <1>3, StepsAlike DEF cs

\* One chunk more is encoded behind the others.
LEMMA EncodeMore ==
    ASSUME NEW st, NEW cs, IsList(cs), NEW c
    PROVE  EncodeChunks(st, cs \o <<c>>) =
               Followed(EncodeChunks(st, cs), encode_event(EncodeChunks(st, cs).st, c))
<1> DEFINE ds == cs \o <<c>>
           b == <<c>>
<1>0. IsList(b) /\ Len(b) = 1 /\ b[1] = c
  BY ListOne
<1>1. IsList(ds) /\ Len(ds) = Len(cs) + 1 /\ (\A i \in 1 .. Len(cs) : ds[i] = cs[i]) /\ ds[Len(cs) + 1] = c
  <2> HIDE DEF b
  <2>0. IsList(b)
    BY <1>0
  <2>1. /\ IsList(cs \o b) /\ Len(cs \o b) = Len(cs) + Len(b)
        /\ \A i \in 1 .. Len(cs) : (cs \o b)[i] = cs[i]
        /\ \A i \in 1 .. Len(b) : (cs \o b)[Len(cs) + i] = b[i]
    BY <2>0, ListConcat
  <2> QED BY <1>0, <2>1 DEF b
<1>2. Len(cs) \in Nat
  BY ListLen
<1> HIDE DEF ds, b
<1>3. PICK g : Runs(g, st, cs) /\ EncodeChunks(st, cs) = g[Len(cs)]
  BY ChunksRun
<1>4. PICK h : Runs(h, st, ds) /\ EncodeChunks(st, ds) = h[Len(ds)]
  BY <1>1, ChunksRun
<1> DEFINE m == Len(cs)
<1>5. g[m] = h[m]
  <2>1. g[0] = h[0]
    BY <1>3, <1>4 DEF Runs
  <2>2. ASSUME NEW i \in 1 .. m, g[i - 1] = h[i - 1] PROVE g[i] = h[i]
    <3>1. i \in 1 .. Len(ds) /\ ds[i] = cs[i]
      BY <1>1, <1>2
    <3> QED BY <1>3, <1>4, <2>2, <3>1 DEF Runs
  <2> HIDE DEF m
  <2> QED BY <1>2, <2>1, <2>2, IterationsAgree DEF m
<1>6. h[m + 1] = Followed(h[m], encode_event(h[m].st, c))
  <2>1. m + 1 \in 1 .. Len(ds) /\ (m + 1) - 1 = m
    BY <1>1, <1>2
  <2> QED BY <1>1, <1>4, <2>1 DEF Runs
<1>7. EncodeChunks(st, ds) = Followed(EncodeChunks(st, cs), encode_event(EncodeChunks(st, cs).st, c))
  <2>1. EncodeChunks(st, ds) = h[m + 1] /\ EncodeChunks(st, cs) = h[m]
    BY <1>1, <1>3, <1>4, <1>5
  <2> HIDE DEF m
  <2> QED BY <1>6, <2>1
<1> QED BY <1>7 DEF ds

-----------------------------------------------------------------------------
(* What the chunks of an event do to an encoder.                           *)

Fresh(st) == IsState(st) /\ ~st.errored

\* The chunks of part of the answer.
Speaks(cs, x, y) ==
    /\ IsList(cs) /\ ~Stops(cs)
    /\ \A st : Fresh(st) => Moves(EncodeChunks(st, cs), st, x, y)

\* A list of chunks stops the answer when one of its parts does.
LEMMA StopsMore ==
    ASSUME NEW cs, IsList(cs), NEW c
    PROVE  /\ IsList(cs \o <<c>>)
           /\ Stops(cs \o <<c>>) <=> Stops(cs) \/ c.c = "stop"
<1> DEFINE ds == cs \o <<c>>
           b == <<c>>
<1>0. IsList(b) /\ Len(b) = 1 /\ b[1] = c
  BY ListOne
<1>1. IsList(ds) /\ Len(ds) = Len(cs) + 1 /\ (\A i \in 1 .. Len(cs) : ds[i] = cs[i]) /\ ds[Len(cs) + 1] = c
  <2> HIDE DEF b
  <2>0. IsList(b)
    BY <1>0
  <2>1. /\ IsList(cs \o b) /\ Len(cs \o b) = Len(cs) + Len(b)
        /\ \A i \in 1 .. Len(cs) : (cs \o b)[i] = cs[i]
        /\ \A i \in 1 .. Len(b) : (cs \o b)[Len(cs) + i] = b[i]
    BY <2>0, ListConcat
  <2> QED BY <1>0, <2>1 DEF b
<1> HIDE DEF ds, b
<1>2. /\ Len(cs) \in Nat /\ DOMAIN cs = 1 .. Len(cs) /\ DOMAIN ds = 1 .. Len(ds)
  BY <1>1, ListLen
<1>3. Stops(ds) => Stops(cs) \/ c.c = "stop"
  <2> SUFFICES ASSUME NEW i \in DOMAIN ds, ds[i].c = "stop" PROVE Stops(cs) \/ c.c = "stop"
    BY DEF Stops
  <2>1. i \in 1 .. Len(cs) \/ i = Len(cs) + 1
    BY <1>1, <1>2
  <2> QED BY <1>1, <1>2, <2>1 DEF Stops
<1>4. Stops(cs) \/ c.c = "stop" => Stops(ds)
  <2>1. ASSUME NEW i \in DOMAIN cs, cs[i].c = "stop" PROVE Stops(ds)
    <3>1. i \in DOMAIN ds /\ ds[i] = cs[i]
      BY <1>1, <1>2
    <3> QED BY <2>1, <3>1 DEF Stops
  <2>2. ASSUME c.c = "stop" PROVE Stops(ds)
    <3>1. Len(cs) + 1 \in DOMAIN ds
      BY <1>1, <1>2
    <3> QED BY <1>1, <2>2, <3>1 DEF Stops
  <2> QED BY <2>1, <2>2 DEF Stops
<1> QED BY <1>1, <1>3, <1>4 DEF ds

\* No chunks say nothing.
LEMMA SpeaksNone == Speaks(<<>>, <<>>, <<>>)
<1>1. \A st : Fresh(st) => Moves(EncodeChunks(st, <<>>), st, <<>>, <<>>)
  BY EncodeNone, MovesNone DEF Fresh
<1> QED BY <1>1, ListNone DEF Speaks, Stops

\* One chunk more of the answer, behind the others.
LEMMA SpeaksNext ==
    ASSUME target \in Formats, NEW cs, Speaks(cs, <<>>, <<>>),
           NEW c, NEW x \in Fragments, NEW y \in Fragments, Talk(c, x, y)
    PROVE  Speaks(cs \o <<c>>, x, y)
<1>1. ASSUME NEW st, Fresh(st) PROVE Moves(EncodeChunks(st, cs \o <<c>>), st, x, y)
  <2> DEFINE r == EncodeChunks(st, cs)
             n == encode_event(r.st, c)
  <2>1. EncodeChunks(st, cs \o <<c>>) = [st |-> n.st, out |-> r.out \o n.out]
    <3>1. IsList(cs)
      BY DEF Speaks
    <3>2. EncodeChunks(st, cs \o <<c>>) = Followed(r, n)
      BY <3>1, EncodeMore
    <3> HIDE DEF r, n
    <3> QED BY <3>2 DEF Followed, Emit
  <2>2. Moves(r, st, <<>>, <<>>)
    BY <1>1 DEF Speaks
  <2> HIDE DEF r
  <2>3. IsState(r.st) /\ ~r.st.errored
    BY <1>1, <2>2 DEF Moves, SameEnd, Fresh
  <2>4. Moves(n, r.st, x, y)
    BY <2>3, TalkMoves
  <2> HIDE DEF n
  <2> QED BY <2>1, <2>2, <2>4, MovesThen
<1>2. c.c # "stop"
  BY DEF Talk
<1>3. IsList(cs) /\ ~Stops(cs)
  BY DEF Speaks
<1> QED BY <1>1, <1>2, <1>3, StopsMore DEF Speaks

\* The empty list joined to another, on either side.
LEMMA NoneFirst == ASSUME NEW s, IsList(s) PROVE <<>> \o s = s /\ s \o <<>> = s
<1> DEFINE X == {s[i] : i \in DOMAIN s}
<1>1. s \in Seq(X)
  BY DEF IsList
<1> HIDE DEF X
<1> QED BY <1>1

\* One chunk of the answer.
LEMMA SpeaksOne ==
    ASSUME target \in Formats, NEW c, NEW x \in Fragments, NEW y \in Fragments, Talk(c, x, y)
    PROVE  Speaks(<<c>>, x, y)
<1> DEFINE b == <<c>>
<1>1. Speaks(<<>> \o b, x, y)
  BY SpeaksNone, SpeaksNext
<1>2. IsList(b)
  BY ListOne
<1> HIDE DEF b
<1>3. <<>> \o b = b
  BY <1>2, NoneFirst
<1> QED BY <1>1, <1>3 DEF b

(***************************************************************************)
(* How the reason to stop, the usage and an error are encoded.             *)
(***************************************************************************)

\* The events es report the usage u.
Reports(es, u) == \E i \in DOMAIN es : "usage" \in DOMAIN es[i] /\ es[i].usage = u
ReportsShown(es, u) == Reports(Stamped(es), u)

\* A usage that was reported stays so, whatever comes before or after.
LEMMA ReportsMore ==
    ASSUME NEW a, NEW b, NEW u, IsList(a), IsList(b)
    PROVE  /\ Reports(a, u) => Reports(a \o b, u)
           /\ Reports(b, u) => Reports(a \o b, u)
<1> DEFINE c == a \o b
<1>1. /\ IsList(c) /\ Len(c) = Len(a) + Len(b)
      /\ \A i \in 1 .. Len(a) : c[i] = a[i]
      /\ \A i \in 1 .. Len(b) : c[Len(a) + i] = b[i]
  BY ListConcat
<1>2. /\ Len(a) \in Nat /\ DOMAIN a = 1 .. Len(a) /\ Len(b) \in Nat /\ DOMAIN b = 1 .. Len(b)
      /\ DOMAIN c = 1 .. Len(c)
  BY <1>1, ListLen
<1> HIDE DEF c
<1>3. \A i \in DOMAIN a : i \in DOMAIN c /\ c[i] = a[i]
  BY <1>1, <1>2
<1>4. \A i \in DOMAIN b : Len(a) + i \in DOMAIN c /\ c[Len(a) + i] = b[i]
  BY <1>1, <1>2
<1>5. (Reports(a, u) => Reports(c, u)) /\ (Reports(b, u) => Reports(c, u))
  BY <1>3, <1>4 DEF Reports
<1> QED BY <1>5 DEF c

\* The same of events still to be stamped.
LEMMA ReportsShownMore ==
    ASSUME NEW a, NEW b, NEW u, IsList(a), IsList(b)
    PROVE  /\ ReportsShown(a, u) => ReportsShown(a \o b, u)
           /\ ReportsShown(b, u) => ReportsShown(a \o b, u)
<1>1. IsList(Stamped(a)) /\ IsList(Stamped(b)) /\ Stamped(a \o b) = Stamped(a) \o Stamped(b)
  <2>1. IsList(Stamped(a)) /\ Stamped(a \o b) = Stamped(a) \o Stamped(b)
    BY StampedMore
  <2>2. IsList(Stamped(b))
    BY StampedMore
  <2> QED BY <2>1, <2>2
<1> QED BY <1>1, ReportsMore DEF ReportsShown

\* An event with a usage reports it.
LEMMA ReportsOne ==
    ASSUME NEW e, "usage" \in DOMAIN e PROVE ReportsShown(<<e>>, e.usage)
<1> DEFINE f == stamp_streamed_response_model(e)
           s == <<f>>
<1>1. "usage" \in DOMAIN f /\ f.usage = e.usage
  BY DEF stamp_streamed_response_model
<1>2. DOMAIN s = {1} /\ s[1] = f
  BY ListOne
<1> HIDE DEF f, s
<1>3. Reports(s, e.usage)
  BY <1>1, <1>2 DEF Reports
<1> QED BY <1>3, StampedOne DEF ReportsShown, s, f

\* The same state but for the usage.
LEMMA UsageTaken ==
    ASSUME target \in Formats, NEW st, Fresh(st), NEW u, NEW r, r = encode_event(st, Usage(u))
    PROVE  /\ Fresh(r.st) /\ r.st.finished = st.finished /\ r.st.stop = st.stop
           /\ r.st.emittedDelta = st.emittedDelta /\ r.st.sawUsage /\ r.st.usage = u
           /\ (target # "openai" \/ ~st.finished) => r.out = <<>>
<1> DEFINE s == [st EXCEPT !.usage = u, !.sawUsage = TRUE]
           c == Usage(u)
<1>0. c.c = "usage" /\ c.usage = u
  BY DEF Usage
<1>1. /\ Fresh(s) /\ s.finished = st.finished /\ s.stop = st.stop
      /\ s.emittedDelta = st.emittedDelta /\ s.sawUsage /\ s.usage = u
  BY DEF IsState, StateNames, Fresh
<1> HIDE DEF c
<1>2. CASE target = "openai"
  <2>1. encode_event(st, c) = O!Emit(s, O!If(st.finished, <<[O!openai_stream_chunk(st) EXCEPT !.usage = c.usage]>>))
    BY <1>0, <1>2 DEF encode_event, O!encode_openai_chat_stream, O!IsError, Fresh
  <2>2. r.st = s /\ (~st.finished => r.out = <<>>)
    BY <2>1 DEF O!Emit, O!If, c
  <2> HIDE DEF s
  <2> QED BY <1>1, <1>2, <2>2
<1>3. CASE target = "anthropic"
  <2>1. encode_event(st, c) = A!Nothing(s)
    BY <1>0, <1>3 DEF encode_event, A!encode_anthropic_stream, A!IsError, Fresh
  <2>2. r.st = s /\ r.out = <<>>
    BY <2>1, StepsAlike DEF c
  <2> HIDE DEF s
  <2> QED BY <1>1, <1>3, <2>2
<1>4. CASE target = "responses"
  <2>1. encode_event(st, c) = R!Nothing(s)
    BY <1>0, <1>4 DEF encode_event, R!encode_responses_stream, R!IsError, Fresh
  <2>2. r.st = s /\ r.out = <<>>
    BY <2>1, StepsAlike DEF c
  <2> HIDE DEF s
  <2> QED BY <1>1, <1>4, <2>2
<1> QED BY <1>2, <1>3, <1>4 DEF Formats

\* An error is passed on, and nothing after it.
LEMMA ErrorTaken ==
    ASSUME target \in Formats, NEW st, Fresh(st), NEW c, c.c \in {"decode_error", "stream_error"}
    PROVE  LET r == encode_event(st, c) IN
           /\ IsState(r.st) /\ r.st.errored
           /\ Shows(r.out, <<>>, <<>>) /\ ~CutShown(r.out)
<1> DEFINE r == encode_event(st, c)
           s == [st EXCEPT !.finished = TRUE, !.errored = TRUE]
           e == [t |-> "error"]
<1>1. IsState(s) /\ s.errored
  BY DEF IsState, StateNames, Fresh
<1>2. Shows(<<e>>, <<>>, <<>>) /\ ~CutShown(<<e>>)
  <2>1. "t" \in DOMAIN e /\ e.t = "error"
    OBVIOUS
  <2> HIDE DEF e
  <2> QED BY <2>1, QuietEvent
<1>3. r = [st |-> s, out |-> <<e>>]
  <2>1. CASE target = "openai"
    BY <2>1, StepsAlike DEF encode_event, O!encode_openai_chat_stream, O!IsError, O!Errored, Fresh
  <2>2. CASE target = "anthropic"
    BY <2>2, StepsAlike DEF encode_event, A!encode_anthropic_stream, A!IsError, A!Errored, Fresh
  <2>3. CASE target = "responses"
    BY <2>3, StepsAlike DEF encode_event, R!encode_responses_stream, R!IsError, R!Errored, Fresh
  <2> QED BY <2>1, <2>2, <2>3 DEF Formats
<1>4. r.st = s /\ r.out = <<e>>
  BY <1>3
<1> HIDE DEF r, s, e
<1> QED BY <1>1, <1>2, <1>4 DEF r

Cutting == {"length", "max_tokens"}
Reasons == Cutting \cup {"stop", "end_turn", None}

\* Clients of Anthropic and Responses hear of the reason at the end.
LEMMA StopKept ==
    ASSUME target \in {"anthropic", "responses"}, NEW st, Fresh(st), NEW c, c.c = "stop", c.reason \in Reasons
    PROVE  LET r == encode_event(st, c) IN
           /\ r = [st |-> r.st, out |-> <<>>]
           /\ IsState(r.st) /\ ~r.st.errored
           /\ r.st.finished = st.finished /\ r.st.emittedDelta = st.emittedDelta
           /\ r.st.sawUsage = st.sawUsage /\ r.st.usage = st.usage
           /\ r.st.stop = Or(c.reason, st.stop)
<1> DEFINE r == encode_event(st, c)
           s == [st EXCEPT !.stop = Or(c.reason, @)]
<1>1. /\ IsState(s) /\ ~s.errored /\ s.finished = st.finished
      /\ s.emittedDelta = st.emittedDelta /\ s.sawUsage = st.sawUsage /\ s.usage = st.usage
      /\ s.stop = Or(c.reason, st.stop)
  BY DEF IsState, StateNames, Fresh
<1>2. r = [st |-> s, out |-> <<>>]
  <2>1. CASE target = "anthropic"
    BY <2>1, StepsAlike DEF encode_event, A!encode_anthropic_stream, A!IsError, A!Or, Or, A!None, None, Fresh
  <2>2. CASE target = "responses"
    BY <2>2, StepsAlike DEF encode_event, R!encode_responses_stream, R!IsError, R!Or, Or, R!None, None, Fresh
  <2> QED BY <2>1, <2>2
<1>3. r.st = s
  BY <1>2
<1> HIDE DEF r, s
<1> QED BY <1>1, <1>2, <1>3 DEF r

\* An OpenAI client hears of it at once, with the usage known by then.
LEMMA StopTold ==
    ASSUME target = "openai", NEW st, Fresh(st), NEW c, c.c = "stop", c.reason \in Reasons
    PROVE  LET r == encode_event(st, c) IN
           /\ IsState(r.st) /\ ~r.st.errored /\ r.st.emittedDelta = st.emittedDelta
           /\ r.st.finished
           /\ Shows(r.out, <<>>, <<>>)
           /\ st.finished => r = [st |-> st, out |-> <<>>]
           /\ ~st.finished => /\ r.st.finished
                              /\ CutShown(r.out) <=> c.reason \in Cutting
                              /\ st.sawUsage => ReportsShown(r.out, st.usage)
<1> DEFINE r == encode_event(st, c)
           s == [st EXCEPT !.finished = TRUE]
           e == O!Terminal(st, c.reason)
<1>0. IsState(st) /\ ~st.errored
  BY DEF Fresh
<1>1. CASE st.finished
  <2>1. r = [st |-> st, out |-> <<>>]
    BY <1>1, StepsAlike DEF encode_event, O!encode_openai_chat_stream, O!IsError, Fresh
  <2>2. r.st = st /\ r.out = <<>>
    BY <2>1
  <2> HIDE DEF r
  <2> QED BY <1>0, <1>1, <2>1, <2>2, ShowsNone DEF r
<1>2. CASE ~st.finished
  <2>1. r = [st |-> s, out |-> <<e>>]
    BY <1>2, StepsAlike DEF encode_event, O!encode_openai_chat_stream, O!IsError, Fresh
  <2>2. r.st = s /\ r.out = <<e>>
    BY <2>1
  <2>3. IsState(s) /\ ~s.errored /\ s.emittedDelta = st.emittedDelta /\ s.finished
    BY DEF IsState, StateNames, Fresh
  <2>4. /\ DOMAIN e = DOMAIN O!OpenAi(None) /\ e.t = "chunk" /\ e.text = <<>> /\ e.reasoning = <<>>
        /\ "usage" \in DOMAIN e /\ (st.sawUsage => e.usage = st.usage)
        /\ e.finish = O!openai_finish_reason(c.reason)
    BY DEF O!Terminal, O!openai_stream_chunk, O!OpenAi
  <2>5. O!openai_finish_reason(c.reason) = "length" <=> c.reason \in Cutting
    BY DEF O!openai_finish_reason, Cutting, Reasons, O!None, None
  <2> HIDE DEF r, s, e
  <2>6. Shows(<<e>>, <<>>, <<>>) /\ (CutShown(<<e>>) <=> c.reason \in Cutting)
    <3>1. e.text \in Fragments /\ e.reasoning \in Fragments
      BY <2>4, NoFragment
    <3> QED BY <2>4, <2>5, <3>1, OpenAiChunk
  <2>7. st.sawUsage => ReportsShown(<<e>>, st.usage)
    BY <2>4, ReportsOne
  <2> QED BY <1>2, <2>2, <2>3, <2>6, <2>7 DEF r
<1> QED BY <1>1, <1>2

(***************************************************************************)
(* Lists of chunks that count the tokens or stop the answer.               *)
(***************************************************************************)

\* Chunks that come to the usage u, if any, and do not stop the answer.
Counts(cs, u) ==
    /\ IsList(cs) /\ ~Stops(cs)
    /\ \A st : Fresh(st) =>
          LET r == EncodeChunks(st, cs) IN
          /\ Fresh(r.st) /\ r.st.finished = st.finished /\ r.st.stop = st.stop
          /\ r.st.emittedDelta = st.emittedDelta
          /\ (target # "openai" \/ ~st.finished) => Shows(r.out, <<>>, <<>>) /\ ~CutShown(r.out)
          /\ u # NoUsage => r.st.sawUsage /\ r.st.usage = u

\* Chunks that stop the answer, cut off or not, with the usage u, if any.
Closes(cs, cut, u) ==
    /\ IsList(cs) /\ Stops(cs)
    /\ \A st : Fresh(st) /\ ~st.finished /\ st.stop = None =>
          LET r == EncodeChunks(st, cs) IN
          /\ Fresh(r.st) /\ r.st.emittedDelta = st.emittedDelta
          /\ Shows(r.out, <<>>, <<>>)
          /\ target = "openai" => /\ r.st.finished
                                  /\ CutShown(r.out) <=> cut
                                  /\ u # NoUsage => ReportsShown(r.out, u)
          /\ target # "openai" => /\ ~r.st.finished /\ ~CutShown(r.out)
                                  /\ r.st.stop \in Reasons /\ (r.st.stop \in Cutting <=> cut)
                                  /\ u # NoUsage => r.st.sawUsage /\ r.st.usage = u

\* Chunks of the answer count nothing.
LEMMA CountsNothing == ASSUME NEW cs, Speaks(cs, <<>>, <<>>) PROVE Counts(cs, NoUsage)
  BY DEF Counts, Speaks, Moves, SameEnd, Fresh

\* Behind them, a usage chunk counts.
LEMMA CountsUsage ==
    ASSUME target \in Formats, NEW cs, Speaks(cs, <<>>, <<>>), NEW u
    PROVE  Counts(cs \o <<Usage(u)>>, u)
<1> DEFINE c == Usage(u)
           ds == cs \o <<c>>
<1>0. c.c = "usage"
  BY DEF Usage
<1> HIDE DEF c
<1>1. IsList(ds) /\ ~Stops(ds)
  BY <1>0, StopsMore DEF Speaks
<1>2. ASSUME NEW st, Fresh(st)
      PROVE  LET r == EncodeChunks(st, ds) IN
             /\ Fresh(r.st) /\ r.st.finished = st.finished /\ r.st.stop = st.stop
             /\ r.st.emittedDelta = st.emittedDelta
             /\ (target # "openai" \/ ~st.finished) => Shows(r.out, <<>>, <<>>) /\ ~CutShown(r.out)
             /\ r.st.sawUsage /\ r.st.usage = u
  <2> DEFINE r == EncodeChunks(st, cs)
             n == encode_event(r.st, c)
             q == EncodeChunks(st, ds)
  <2>1. q = [st |-> n.st, out |-> r.out \o n.out]
    <3>1. IsList(cs)
      BY DEF Speaks
    <3>2. q = Followed(r, n)
      BY <3>1, EncodeMore
    <3> HIDE DEF r, n, q
    <3> QED BY <3>2 DEF Followed, Emit
  <2>2. q.st = n.st /\ q.out = r.out \o n.out
    <3> HIDE DEF q, n, r
    <3> QED BY <2>1
  <2>3. Moves(r, st, <<>>, <<>>)
    BY <1>2 DEF Speaks
  <2> HIDE DEF r, q
  <2>4. /\ Fresh(r.st) /\ r.st.finished = st.finished /\ r.st.stop = st.stop
        /\ r.st.emittedDelta = st.emittedDelta /\ Shows(r.out, <<>>, <<>>) /\ ~CutShown(r.out)
    BY <1>2, <2>3 DEF Moves, SameEnd, Fresh
  <2>5. /\ Fresh(n.st) /\ n.st.finished = r.st.finished /\ n.st.stop = r.st.stop
        /\ n.st.emittedDelta = r.st.emittedDelta
        /\ n.st.sawUsage /\ n.st.usage = u
        /\ (target # "openai" \/ ~r.st.finished) => n.out = <<>>
    <3> HIDE DEF n
    <3>1. n = encode_event(r.st, Usage(u)) /\ Fresh(r.st)
      BY <2>4 DEF n, c
    <3> QED BY <3>1, UsageTaken
  <2> HIDE DEF n
  <2>6. IsList(r.out)
    BY <2>4 DEF Shows
  <2>7. (target # "openai" \/ ~st.finished) => q.out = r.out
    BY <2>2, <2>4, <2>5, <2>6, NoneFirst
  <2>8. /\ Fresh(q.st) /\ q.st.finished = st.finished /\ q.st.stop = st.stop
        /\ q.st.emittedDelta = st.emittedDelta
        /\ (target # "openai" \/ ~st.finished) => Shows(q.out, <<>>, <<>>) /\ ~CutShown(q.out)
        /\ q.st.sawUsage /\ q.st.usage = u
    BY <2>2, <2>4, <2>5, <2>7 DEF Fresh
  <2> QED BY <2>8 DEF q
<1> HIDE DEF ds
<1>3. Counts(ds, u)
  BY <1>1, <1>2 DEF Counts
<1> QED BY <1>3 DEF ds, c

\* The reason to stop closes the answer, with the usage counted by then.
LEMMA ClosesAfter ==
    ASSUME target \in Formats, NEW u, NEW cs, Counts(cs, u), NEW c, c.c = "stop", c.reason \in Reasons
    PROVE  Closes(cs \o <<c>>, c.reason \in Cutting, u)
<1> DEFINE ds == cs \o <<c>>
<1>1. IsList(ds) /\ Stops(ds)
  BY StopsMore DEF Counts
<1>2. ASSUME NEW st, Fresh(st), ~st.finished, st.stop = None
      PROVE  LET r == EncodeChunks(st, ds) IN
             /\ Fresh(r.st) /\ r.st.emittedDelta = st.emittedDelta
             /\ Shows(r.out, <<>>, <<>>)
             /\ target = "openai" => /\ r.st.finished
                                     /\ CutShown(r.out) <=> c.reason \in Cutting
                                     /\ u # NoUsage => ReportsShown(r.out, u)
             /\ target # "openai" => /\ ~r.st.finished /\ ~CutShown(r.out)
                                     /\ r.st.stop \in Reasons /\ (r.st.stop \in Cutting <=> c.reason \in Cutting)
                                     /\ u # NoUsage => r.st.sawUsage /\ r.st.usage = u
  <2> DEFINE r == EncodeChunks(st, cs)
             n == encode_event(r.st, c)
             q == EncodeChunks(st, ds)
  <2>1. q = [st |-> n.st, out |-> r.out \o n.out]
    <3>1. IsList(cs)
      BY DEF Counts
    <3>2. q = Followed(r, n)
      BY <3>1, EncodeMore
    <3> HIDE DEF r, n, q
    <3> QED BY <3>2 DEF Followed, Emit
  <2>2. q.st = n.st /\ q.out = r.out \o n.out
    <3> HIDE DEF q, n, r
    <3> QED BY <2>1
  <2>3. /\ Fresh(r.st) /\ ~r.st.finished /\ r.st.stop = None
        /\ r.st.emittedDelta = st.emittedDelta
        /\ Shows(r.out, <<>>, <<>>) /\ ~CutShown(r.out)
        /\ u # NoUsage => r.st.sawUsage /\ r.st.usage = u
    BY <1>2 DEF Counts
  <2> HIDE DEF r, q
  <2>4. CASE target = "openai"
    <3>1. /\ IsState(n.st) /\ ~n.st.errored /\ n.st.emittedDelta = r.st.emittedDelta
          /\ n.st.finished /\ Shows(n.out, <<>>, <<>>)
          /\ CutShown(n.out) <=> c.reason \in Cutting
          /\ r.st.sawUsage => ReportsShown(n.out, r.st.usage)
      BY <2>3, <2>4, StopTold
    <3> HIDE DEF n
    <3>2. Shows(q.out, <<>> \o <<>>, <<>> \o <<>>) /\ (CutShown(q.out) <=> CutShown(r.out) \/ CutShown(n.out))
      <4>1. Shows(r.out, <<>>, <<>>) /\ Shows(n.out, <<>>, <<>>)
        BY <2>3, <3>1
      <4>2. /\ Shows(r.out \o n.out, <<>> \o <<>>, <<>> \o <<>>)
            /\ CutShown(r.out \o n.out) <=> CutShown(r.out) \/ CutShown(n.out)
        BY <4>1, ShowsMore
      <4> QED BY <2>2, <4>2
    <3>3. <<>> \o <<>> = <<>>
      BY NoFragment
    <3>4. u # NoUsage => ReportsShown(n.out, u)
      BY <2>3, <3>1
    <3>5. IsList(r.out) /\ IsList(n.out)
      BY <2>3, <3>1 DEF Shows
    <3>6. u # NoUsage => ReportsShown(q.out, u)
      BY <2>2, <3>4, <3>5, ReportsShownMore
    <3>7. /\ Fresh(q.st) /\ q.st.emittedDelta = st.emittedDelta /\ q.st.finished
      BY <2>2, <2>3, <3>1 DEF Fresh
    <3>8. Shows(q.out, <<>>, <<>>) /\ (CutShown(q.out) <=> c.reason \in Cutting)
      BY <2>3, <3>1, <3>2, <3>3
    <3> QED BY <2>4, <3>6, <3>7, <3>8 DEF q
  <2>5. CASE target # "openai"
    <3>0. target \in {"anthropic", "responses"}
      BY <2>5 DEF Formats
    <3>1. /\ n = [st |-> n.st, out |-> <<>>]
          /\ IsState(n.st) /\ ~n.st.errored
          /\ n.st.finished = r.st.finished /\ n.st.emittedDelta = r.st.emittedDelta
          /\ n.st.sawUsage = r.st.sawUsage /\ n.st.usage = r.st.usage
          /\ n.st.stop = Or(c.reason, r.st.stop)
      BY <2>3, <3>0, StopKept
    <3>2. n.out = <<>>
      BY <3>1
    <3> HIDE DEF n
    <3>3. n.st.stop = c.reason
      BY <2>3, <3>1 DEF Or
    <3>4. IsList(r.out)
      BY <2>3 DEF Shows
    <3>5. q.out = r.out
      BY <2>2, <3>2, <3>4, NoneFirst
    <3>6. /\ Fresh(q.st) /\ q.st.emittedDelta = st.emittedDelta /\ ~q.st.finished
          /\ q.st.stop = c.reason /\ q.st.sawUsage = r.st.sawUsage /\ q.st.usage = r.st.usage
      BY <2>2, <2>3, <3>1, <3>3 DEF Fresh
    <3> QED BY <2>3, <2>5, <3>5, <3>6 DEF q
  <2> QED BY <2>4, <2>5
<1> HIDE DEF ds
<1>3. Closes(ds, c.reason \in Cutting, u)
  BY <1>1, <1>2 DEF Closes
<1> QED BY <1>3 DEF ds

(***************************************************************************)
(* Lists of events without text, however long.                             *)
(***************************************************************************)

QuietNames == {"content_block_start", "content_block_stop", "part.done", "output_item.done",
               "message_stop", "message_start", "created"}
Quiet(e) == "t" \in DOMAIN e /\ e.t \in QuietNames

\* Events without text show nothing, however many they are.
LEMMA QuietList ==
    ASSUME NEW es, IsList(es), \A i \in DOMAIN es : Quiet(es[i])
    PROVE  Shows(es, <<>>, <<>>) /\ ~CutShown(es)
<1> DEFINE fs == Stamped(es)
<1>0. IsList(fs) /\ DOMAIN fs = DOMAIN es
  <2>1. fs = [i \in DOMAIN es |-> fs[i]]
    BY DEF Stamped
  <2> HIDE DEF fs
  <2> QED BY <2>1, ListMap
<1>1. \A i \in DOMAIN fs : fs[i].t \in QuietNames
  BY DEF Stamped, stamp_streamed_response_model, Quiet
<1> HIDE DEF fs
<1>2. \A i \in DOMAIN fs : /\ Adds(fs[i], "text") = <<>> /\ Adds(fs[i], "reasoning") = <<>>
                           /\ ~SaysTruncated(fs[i])
  BY <1>1 DEF Adds, SaysTruncated, QuietNames
<1>3. ASSUME NEW k \in {"text", "reasoning"} PROVE AddsOf(fs, k) = <<>>
  <2> DEFINE t == [i \in DOMAIN fs |-> Adds(fs[i], k)]
             S == {fs[i] : i \in DOMAIN fs}
  <2>1. t = [i \in DOMAIN fs |-> t[i]] /\ \A i \in DOMAIN fs : t[i] = <<>>
    BY <1>2
  <2>2. fs \in Seq(S)
    BY <1>0 DEF IsList
  <2>3. AddsOf(fs, k) = FlattenSeq(t)
    BY DEF AddsOf
  <2> HIDE DEF t, S
  <2> QED BY <2>1, <2>2, <2>3, FlattenNothing
<1>4. <<>> \in Fragments
  BY NoFragment
<1>5. Adding(fs, <<>>, <<>>) /\ ~Cut(fs)
  BY <1>0, <1>2, <1>3, <1>4 DEF Adding, Cut
<1> QED BY <1>5 DEF Shows, CutShown, fs

\* The tools whose item is still open are a list.
LEMMA StartedList ==
    ASSUME NEW st, IsState(st)
    PROVE  /\ \E n \in Nat : DOMAIN A!StartedTools(st) = 1 .. n
           /\ \E n \in Nat : DOMAIN R!StartedTools(st) = 1 .. n
<1> DEFINE S == {ix \in DOMAIN st.tools : st.tools[ix].started}
<1>1. IsFiniteSet(S)
  BY FS_Subset DEF IsState
<1>2. Cardinality(S) \in Nat
  BY <1>1, FS_CardinalityType
<1>3. DOMAIN A!StartedTools(st) = 1 .. A!Cardinality(S)
  BY DEF A!StartedTools, A!InOrder
<1>4. DOMAIN R!StartedTools(st) = 1 .. R!Cardinality(S)
  BY DEF R!StartedTools, R!InOrder
<1>5. A!Cardinality(S) = Cardinality(S) /\ R!Cardinality(S) = Cardinality(S)
  BY DEF A!Cardinality, R!Cardinality, Cardinality
<1> QED BY <1>2, <1>3, <1>4, <1>5

(***************************************************************************)
(* What the encoders send at the end of a stream.                          *)
(***************************************************************************)

\* The blocks of the tools are closed.
LEMMA CloseTools ==
    ASSUME NEW st, IsState(st) PROVE Moves(A!close_tools(st), st, <<>>, <<>>)
<1> DEFINE ixs == A!StartedTools(st)
           s == [st EXCEPT !.tools = [ix \in DOMAIN st.tools |-> [st.tools[ix] EXCEPT !.started = FALSE]]]
           es == [i \in DOMAIN ixs |-> A!BlockStop(st.tools[ixs[i]].ix)]
<1>1. A!close_tools(st) = [st |-> s, out |-> es]
  BY StepsAlike DEF A!close_tools, IsState, StateNames
<1>2. IsState(s) /\ SameEnd(s, st)
  <2> DEFINE f == [ix \in DOMAIN st.tools |-> [st.tools[ix] EXCEPT !.started = FALSE]]
  <2>1. IsFiniteSet(DOMAIN f)
    BY DEF IsState
  <2> HIDE DEF f
  <2> QED BY <2>1 DEF IsState, StateNames, SameEnd
<1>3. PICK n \in Nat : DOMAIN ixs = 1 .. n
  BY StartedList
<1>4. \A i \in DOMAIN es : Quiet(es[i])
  BY DEF Quiet, QuietNames, A!BlockStop
<1>5. DOMAIN es = 1 .. n /\ es = [i \in 1 .. n |-> es[i]]
  BY <1>3
<1> HIDE DEF es, s
<1>6. IsList(es)
  <2> DEFINE X == {es[i] : i \in DOMAIN es}
  <2>1. \A i \in 1 .. n : es[i] \in X
    BY <1>5
  <2> HIDE DEF X
  <2>2. es \in Seq(X)
    BY <1>5, <2>1
  <2> QED BY <2>2, ListOf
<1> QED BY <1>1, <1>2, <1>4, <1>6, QuietList DEF Moves

\* A message without content gets an empty block.
LEMMA EmptyBlock ==
    ASSUME NEW st, IsState(st) PROVE Moves(A!empty_block(st), st, <<>>, <<>>)
<1>1. CASE st.emittedBlock
  <2>1. A!empty_block(st) = [st |-> st, out |-> <<>>]
    BY <1>1, StepsAlike DEF A!empty_block
  <2> QED BY <2>1, MovesNone
<1>2. CASE ~st.emittedBlock
  <2> DEFINE e == A!BlockStart(0, "text", A!None, A!None)
             f == A!BlockStop(0)
  <2>1. A!empty_block(st) = [st |-> st, out |-> <<e, f>>]
    BY <1>2, StepsAlike DEF A!empty_block
  <2>2. Shows(<<e>>, <<>>, <<>>) /\ ~CutShown(<<e>>) /\ Shows(<<f>>, <<>>, <<>>) /\ ~CutShown(<<f>>)
    BY AnthropicBlocks
  <2> HIDE DEF e, f
  <2>3. Shows(<<e, f>>, <<>>, <<>>) /\ ~CutShown(<<e, f>>)
    BY <2>2, QuietPair
  <2> QED BY <2>1, <2>3 DEF Moves, SameEnd
<1> QED BY <1>1, <1>2

\* How a stream is ended: with the reason and the usage the encoder has kept.
EndsAs(r, st) ==
    /\ Shows(r.out, <<>>, <<>>)
    /\ st.stop \in Reasons => (CutShown(r.out) <=> st.stop \in Cutting)
    /\ st.sawUsage => ReportsShown(r.out, st.usage)

EndsBare(r) == Shows(r.out, <<>>, <<>>) /\ ~CutShown(r.out)

\* The reason Anthropic clients are told, unless they have been.
LEMMA EndMessage ==
    ASSUME NEW st, IsState(st)
    PROVE  LET r == A!end_message(st) IN
           /\ st.emittedDelta => EndsBare(r)
           /\ ~st.emittedDelta => EndsAs(r, st)
<1> DEFINE r == A!end_message(st)
           d == A!MessageDelta(A!anthropic_stop_reason(st.stop), A!anthropic_stream_usage(st))
           e == [t |-> "message_stop"]
           es == IF st.emittedDelta THEN <<>> ELSE <<d>>
<1>1. r.out = es \o <<e>>
  BY DEF A!end_message, A!Emit
<1>2. Shows(<<e>>, <<>>, <<>>) /\ ~CutShown(<<e>>)
  <2>1. "t" \in DOMAIN e /\ e.t = "message_stop"
    OBVIOUS
  <2> HIDE DEF e
  <2> QED BY <2>1, QuietEvent
<1>3. IsList(<<e>>)
  BY ListOne
<1>4. CASE st.emittedDelta
  <2> DEFINE f == <<e>>
  <2>1. r.out = <<>> \o f
    BY <1>1, <1>4
  <2> HIDE DEF r, f
  <2>2. r.out = f
    BY <1>3, <2>1, NoneFirst DEF f
  <2> QED BY <1>2, <1>4, <2>2 DEF EndsBare, f, r
<1>5. CASE ~st.emittedDelta
  <2>1. r.out = <<d>> \o <<e>>
    BY <1>1, <1>5
  <2>2. /\ "usage" \in DOMAIN d /\ "model" \notin DOMAIN d /\ d.t = "message_delta"
        /\ d.stop = A!anthropic_stop_reason(st.stop)
        /\ st.sawUsage => d.usage = st.usage
    BY DEF A!MessageDelta, A!anthropic_stream_usage
  <2>3. st.stop \in Reasons => (A!anthropic_stop_reason(st.stop) = "max_tokens" <=> st.stop \in Cutting)
    BY DEF A!anthropic_stop_reason, Reasons, Cutting, None
  <2> HIDE DEF d, e, r
  <2>4. /\ Shows(<<d>>, <<>>, <<>>)
        /\ CutShown(<<d>>) <=> d.stop = "max_tokens"
    <3> DEFINE f == stamp_streamed_response_model(d)
    <3>1. f = d
      BY <2>2 DEF stamp_streamed_response_model
    <3> HIDE DEF f
    <3>2. Adds(f, "text") = <<>> /\ Adds(f, "reasoning") = <<>> /\ (SaysTruncated(f) <=> d.stop = "max_tokens")
      BY <2>2, <3>1 DEF Adds, SaysTruncated
    <3>3. <<>> \in Fragments
      BY NoFragment
    <3> QED BY <3>2, <3>3, ShowsOne DEF f
  <2>5. st.sawUsage => ReportsShown(<<d>>, st.usage)
    BY <2>2, ReportsOne
  <2> DEFINE a == <<d>>
             b == <<e>>
  <2>6. /\ Shows(a, <<>>, <<>>) /\ Shows(b, <<>>, <<>>) /\ IsList(a) /\ IsList(b) /\ ~CutShown(b)
        /\ CutShown(a) <=> d.stop = "max_tokens"
        /\ st.sawUsage => ReportsShown(a, st.usage)
        /\ r.out = a \o b
    BY <1>2, <2>1, <2>4, <2>5 DEF Shows
  <2> HIDE DEF a, b
  <2>7. Shows(r.out, <<>> \o <<>>, <<>> \o <<>>) /\ (CutShown(r.out) <=> CutShown(a) \/ CutShown(b))
    <3>1. Shows(a, <<>>, <<>>) /\ Shows(b, <<>>, <<>>)
      BY <2>6
    <3>2. /\ Shows(a \o b, <<>> \o <<>>, <<>> \o <<>>)
          /\ CutShown(a \o b) <=> CutShown(a) \/ CutShown(b)
      BY <3>1, ShowsMore
    <3> QED BY <2>6, <3>2
  <2>8. <<>> \o <<>> = <<>>
    BY NoFragment
  <2>9. st.sawUsage => ReportsShown(r.out, st.usage)
    BY <2>6, ReportsShownMore
  <2> QED BY <1>5, <2>2, <2>3, <2>6, <2>7, <2>8, <2>9 DEF EndsAs, r
<1> QED BY <1>4, <1>5

\* Quiet events first.
LEMMA EndsAfter ==
    ASSUME NEW r, NEW n, NEW st, Moves(r, st, <<>>, <<>>), Shows(n.out, <<>>, <<>>)
    PROVE  LET q == [st |-> n.st, out |-> r.out \o n.out] IN
           /\ EndsBare(n) => EndsBare(q)
           /\ EndsAs(n, r.st) => EndsAs(q, st)
<1> DEFINE es == r.out \o n.out
           q == [st |-> n.st, out |-> es]
<1>1. Shows(es, <<>> \o <<>>, <<>> \o <<>>) /\ (CutShown(es) <=> CutShown(r.out) \/ CutShown(n.out))
  <2>1. Shows(r.out, <<>>, <<>>)
    BY DEF Moves
  <2> QED BY <2>1, ShowsMore
<1>2. <<>> \o <<>> = <<>>
  BY NoFragment
<1>3. IsList(r.out) /\ IsList(n.out)
  BY DEF Moves, Shows
<1>4. \A u : ReportsShown(n.out, u) => ReportsShown(es, u)
  BY <1>3, ReportsShownMore
<1>5. q.out = es
  OBVIOUS
<1> HIDE DEF es, q
<1> QED BY <1>1, <1>2, <1>4, <1>5 DEF EndsBare, EndsAs, Moves, SameEnd, q, es

(***************************************************************************)
(* finish, for every format.                                               *)
(***************************************************************************)

\* The end of an Anthropic message.
LEMMA AnthropicFinish ==
    ASSUME NEW st, Fresh(st), NEW r, r = A!finish_anthropic_stream(st)
    PROVE  /\ st.finished \/ st.emittedDelta => EndsBare(r)
           /\ ~st.finished /\ ~st.emittedDelta => EndsAs(r, st)
<1>1. CASE st.finished
  <2>1. r.out = <<>>
    BY <1>1 DEF A!finish_anthropic_stream, A!Nothing, A!Emit
  <2> QED BY <1>1, <2>1, ShowsNone DEF EndsBare
<1>2. CASE ~st.finished
  <2> DEFINE c == A!MessageStart(st.model)
             r0 == A!encode_anthropic_stream(st, c)
             n1 == A!close_text_block(r0.st)
             r1 == [st |-> n1.st, out |-> r0.out \o n1.out]
             n2 == A!close_anthropic_reasoning_block(r1.st)
             r2 == [st |-> n2.st, out |-> r1.out \o n2.out]
             n3 == A!close_tools(r2.st)
             r3 == [st |-> n3.st, out |-> r2.out \o n3.out]
             n4 == A!empty_block(r3.st)
             r4 == [st |-> n4.st, out |-> r3.out \o n4.out]
             n5 == A!end_message(r4.st)
  <2>1. r = [st |-> n5.st, out |-> r4.out \o n5.out]
    BY <1>2 DEF A!finish_anthropic_stream, A!AndThen, A!Followed, A!Emit
  <2>2. Moves(r0, st, <<>>, <<>>)
    <3>1. <<>> \in Fragments
      BY NoFragment
    <3>2. c.c = "start"
      BY DEF A!MessageStart
    <3> HIDE DEF c
    <3>3. Talk(c, <<>>, <<>>)
      BY <3>2 DEF Talk
    <3> QED BY <3>1, <3>3, AnthropicTalk DEF Fresh
  <2> HIDE DEF r0
  <2>3. Moves(n1, r0.st, <<>>, <<>>)
    BY <2>2, CloseText DEF Moves
  <2> HIDE DEF n1
  <2>4. Moves(r1, st, <<>>, <<>>)
    BY <2>2, <2>3, MovesOn
  <2> HIDE DEF r1
  <2>5. Moves(n2, r1.st, <<>>, <<>>)
    BY <2>4, CloseReasoning DEF Moves
  <2> HIDE DEF n2
  <2>6. Moves(r2, st, <<>>, <<>>)
    BY <2>4, <2>5, MovesOn
  <2> HIDE DEF r2
  <2>7. Moves(n3, r2.st, <<>>, <<>>)
    BY <2>6, CloseTools DEF Moves
  <2> HIDE DEF n3
  <2>8. Moves(r3, st, <<>>, <<>>)
    BY <2>6, <2>7, MovesOn
  <2> HIDE DEF r3
  <2>9. Moves(n4, r3.st, <<>>, <<>>)
    BY <2>8, EmptyBlock DEF Moves
  <2> HIDE DEF n4
  <2>10. Moves(r4, st, <<>>, <<>>)
    BY <2>8, <2>9, MovesOn
  <2> HIDE DEF r4
  <2>11. IsState(r4.st) /\ (r4.st.emittedDelta <=> st.emittedDelta)
    BY <2>10 DEF Moves, SameEnd
  <2>12. /\ r4.st.emittedDelta => EndsBare(n5)
         /\ ~r4.st.emittedDelta => EndsAs(n5, r4.st)
    BY <2>11, EndMessage
  <2> HIDE DEF n5
  <2>13. Shows(n5.out, <<>>, <<>>)
    BY <2>12 DEF EndsBare, EndsAs
  <2>14. /\ EndsBare(n5) => EndsBare(r)
         /\ EndsAs(n5, r4.st) => EndsAs(r, st)
    BY <2>1, <2>10, <2>13, EndsAfter
  <2> QED BY <1>2, <2>11, <2>12, <2>14
<1> QED BY <1>1, <1>2

\* The end of an item shows nothing, whatever it holds.
LEMMA ItemEnded ==
    ASSUME NEW ix, NEW kind, NEW full
    PROVE  R!Ended(ix, kind, full) \in Seq({e \in {R!PartDone(ix, kind, full), R!ItemDone(ix, kind, full)} : Quiet(e)})
<1> DEFINE e == R!PartDone(ix, kind, full)
           f == R!ItemDone(ix, kind, full)
           X == {d \in {e, f} : Quiet(d)}
<1>1. Quiet(e) /\ Quiet(f)
  BY DEF Quiet, QuietNames, R!PartDone, R!ItemDone
<1>2. e \in X /\ f \in X
  BY <1>1
<1>3. R!Ended(ix, kind, full) \in {<<>>, <<e, f>>}
  BY DEF R!Ended
<1> HIDE DEF e, f, X
<1>4. <<>> \in Seq(X) /\ <<e, f>> \in Seq(X)
  BY <1>2
<1>5. R!Ended(ix, kind, full) \in Seq(X)
  <2> DEFINE s == R!Ended(ix, kind, full)
  <2>1. s = <<>> \/ s = <<e, f>>
    BY <1>3
  <2> HIDE DEF s
  <2>2. s \in Seq(X)
    BY <1>4, <2>1
  <2> QED BY <2>2 DEF s
<1> QED BY <1>5 DEF X, e, f

\* The end of a Responses stream.
LEMMA ResponsesFinish ==
    ASSUME NEW st, Fresh(st), NEW r, r = R!finish_responses_stream(st)
    PROVE  /\ st.finished => EndsBare(r)
           /\ ~st.finished => EndsAs(r, st)
<1>1. CASE st.finished
  <2>1. r.out = <<>>
    BY <1>1 DEF R!finish_responses_stream, R!Nothing, R!Emit
  <2> QED BY <1>1, <2>1, ShowsNone DEF EndsBare
<1>2. CASE ~st.finished
  <2> DEFINE r0 == R!ensure_responses_created(st)
             ixs == R!StartedTools(st)
             tools == [i \in DOMAIN ixs |-> R!Ended(st.tools[ixs[i]].ix, "function_call",
                                                    st.tools[ixs[i]].args)]
             a == R!Ended(st.textIx, "message", st.text)
             b == R!Ended(st.reasoningIx, "reasoning", st.reasoning)
             c == FlattenSeq(tools)
             t == IF st.stop \in {"length", "max_tokens"} THEN "incomplete" ELSE "completed"
             e == [t |-> t, model |-> R!ModelShown(st), output |-> R!FinalItems(st), usage |-> st.usage]
             z == <<e>>
             X == {d \in {a[i] : i \in DOMAIN a} \cup {b[i] : i \in DOMAIN b}
                     \cup UNION {{tools[i][j] : j \in DOMAIN tools[i]} : i \in DOMAIN ixs} : Quiet(d)}
  <2>1. r.out = r0.out \o a \o b \o c \o <<e>>
    BY <1>2 DEF R!finish_responses_stream, R!Emit, R!FlattenSeq, FlattenSeq
  <2>2. Moves(r0, st, <<>>, <<>>)
    BY EnsureCreated DEF Fresh
  <2>3. a \in Seq(X) /\ b \in Seq(X) /\ \A i \in DOMAIN ixs : tools[i] \in Seq(X)
    <3> SUFFICES ASSUME NEW s, s \in {a, b} \/ \E i \in DOMAIN ixs : s = tools[i] PROVE s \in Seq(X)
      OBVIOUS
    <3>1. PICK ix, kind, full : s = R!Ended(ix, kind, full)
      OBVIOUS
    <3> DEFINE Y == {R!PartDone(ix, kind, full), R!ItemDone(ix, kind, full)}
    <3>2. s \in Seq({d \in Y : Quiet(d)})
      BY <3>1, ItemEnded
    <3>3. \A i \in DOMAIN s : Quiet(s[i])
      <4> HIDE DEF Y
      <4> QED BY <3>2
    <3>4. \A i \in DOMAIN s : s[i] \in X
      BY <3>3
    <3> HIDE DEF Y, X, a, b, tools
    <3> QED BY <3>2, <3>4
  <2>4. c \in Seq(X)
    <3>1. PICK k \in Nat : DOMAIN ixs = 1 .. k
      BY StartedList DEF Fresh
    <3>2. tools = [i \in 1 .. k |-> tools[i]] /\ \A i \in 1 .. k : tools[i] \in Seq(X)
      BY <2>3, <3>1
    <3> HIDE DEF tools, X
    <3>3. tools \in Seq(Seq(X))
      BY <3>2
    <3> QED BY <3>3, FlattenType
  <2>5. ASSUME NEW s \in {a, b, c} PROVE Shows(s, <<>>, <<>>) /\ ~CutShown(s)
    <3>1. \A d \in X : Quiet(d)
      OBVIOUS
    <3>2. s \in Seq(X)
      BY <2>3, <2>4
    <3> HIDE DEF X, a, b, c
    <3>3. IsList(s) /\ \A i \in DOMAIN s : Quiet(s[i])
      BY <3>1, <3>2, ListOf
    <3> QED BY <3>3, QuietList
  <2>8. /\ Shows(<<e>>, <<>>, <<>>) /\ (CutShown(<<e>>) <=> st.stop \in Cutting)
        /\ ReportsShown(<<e>>, st.usage)
    <3>1. /\ "usage" \in DOMAIN e /\ e.usage = st.usage /\ e.t \in {"incomplete", "completed"}
          /\ e.t = "incomplete" <=> st.stop \in Cutting
      BY DEF Cutting
    <3> HIDE DEF e
    <3> DEFINE f == stamp_streamed_response_model(e)
    <3>2. f.t = e.t
      BY DEF stamp_streamed_response_model
    <3> HIDE DEF f
    <3>3. Adds(f, "text") = <<>> /\ Adds(f, "reasoning") = <<>> /\ (SaysTruncated(f) <=> e.t = "incomplete")
      BY <3>1, <3>2 DEF Adds, SaysTruncated
    <3>4. <<>> \in Fragments
      BY NoFragment
    <3>5. Shows(<<e>>, <<>>, <<>>) /\ (CutShown(<<e>>) <=> e.t = "incomplete")
      BY <3>3, <3>4, ShowsOne DEF f
    <3>6. ReportsShown(<<e>>, e.usage)
      BY <3>1, ReportsOne
    <3> QED BY <3>1, <3>5, <3>6
  <2>9. (CutShown(z) <=> st.stop \in Cutting) /\ ReportsShown(z, st.usage) /\ Shows(z, <<>>, <<>>)
    BY <2>8
  <2>10. r.out = ((r0.out \o a) \o b) \o c \o z
    BY <2>1
  <2> HIDE DEF a, b, c, z, r0
  <2> DEFINE y == ((r0.out \o a) \o b) \o c
             m == [st |-> r0.st, out |-> y]
             n == [st |-> r0.st, out |-> z]
             q == [st |-> n.st, out |-> m.out \o n.out]
  <2>11. Shows(y, <<>>, <<>>) /\ ~CutShown(y)
    <3> DEFINE y1 == r0.out \o a
               y2 == y1 \o b
    <3>0. <<>> \in Fragments
      BY NoFragment
    <3>1. Shows(y1, <<>>, <<>>) /\ ~CutShown(y1)
      <4>1. Shows(r0.out, <<>>, <<>>) /\ ~CutShown(r0.out)
        BY <2>2 DEF Moves
      <4> QED BY <2>5, <3>0, <4>1, QuietMore
    <3> HIDE DEF y1
    <3>2. Shows(y2, <<>>, <<>>) /\ ~CutShown(y2)
      BY <2>5, <3>0, <3>1, QuietMore
    <3>3. y = y2 \o c
      BY DEF y1
    <3> HIDE DEF y2, y
    <3>4. Shows(y2 \o c, <<>>, <<>>) /\ ~CutShown(y2 \o c)
      BY <2>5, <3>0, <3>2, QuietMore
    <3> QED BY <3>3, <3>4
  <2>12. q.out = r.out
    BY <2>10
  <2> HIDE DEF y
  <2>13. Moves(m, st, <<>>, <<>>)
    BY <2>2, <2>11 DEF Moves
  <2>14. EndsAs(n, m.st) /\ Shows(n.out, <<>>, <<>>)
    BY <2>2, <2>9 DEF EndsAs, Moves, SameEnd
  <2> HIDE DEF m, n
  <2>15. EndsAs(q, st)
    BY <2>13, <2>14, EndsAfter
  <2> HIDE DEF q
  <2>16. EndsAs(r, st)
    BY <2>12, <2>15 DEF EndsAs
  <2> QED BY <1>2, <2>16
<1> QED BY <1>1, <1>2

\* Whatever the client's format.
LEMMA FinishTold ==
    ASSUME target \in Formats, NEW st, Fresh(st), NEW r, r = finish(st)
    PROVE  /\ Shows(r.out, <<>>, <<>>)
           /\ st.finished \/ (target = "anthropic" /\ st.emittedDelta) => EndsBare(r)
           /\ target # "openai" /\ ~st.finished /\ ~st.emittedDelta => EndsAs(r, st)
<1>1. CASE target = "openai"
  <2>1. CASE st.finished \/ ~st.sawStart
    <3>1. r.out = <<>>
      BY <1>1, <2>1 DEF finish, O!finish_openai_chat_stream, O!Nothing, O!Emit
    <3> QED BY <1>1, <3>1, ShowsNone DEF EndsBare
  <2>2. CASE ~(st.finished \/ ~st.sawStart)
    <3> DEFINE e == O!Terminal(st, st.stop)
    <3>1. r.out = <<e>>
      BY <1>1, <2>2 DEF finish, O!finish_openai_chat_stream, O!Emit
    <3>2. DOMAIN e = DOMAIN O!OpenAi(None) /\ e.t = "chunk" /\ e.text = <<>> /\ e.reasoning = <<>>
      BY DEF O!Terminal, O!openai_stream_chunk, O!OpenAi
    <3> HIDE DEF e
    <3>3. e.text \in Fragments /\ e.reasoning \in Fragments
      BY <3>2, NoFragment
    <3>4. Shows(<<e>>, <<>>, <<>>)
      BY <3>2, <3>3, OpenAiChunk
    <3> QED BY <1>1, <2>2, <3>1, <3>4
  <2> QED BY <2>1, <2>2
<1>2. CASE target = "anthropic"
  <2>1. r = A!finish_anthropic_stream(st)
    BY <1>2 DEF finish
  <2> QED BY <1>2, <2>1, AnthropicFinish DEF EndsBare, EndsAs
<1>3. CASE target = "responses"
  <2>1. r = R!finish_responses_stream(st)
    BY <1>3 DEF finish
  <2> QED BY <1>3, <2>1, ResponsesFinish DEF EndsBare, EndsAs
<1> QED BY <1>1, <1>2, <1>3 DEF Formats

(***************************************************************************)
(* decode_openai_chat_stream, put together from its parts.                 *)
(***************************************************************************)

\* The chunks a decoder leads in with, before the first OpenAI chunk.
Lead(st, model) == O!If(~st.sawStart, <<O!MessageStart(IF st.sawStart THEN st.model ELSE O!Or(model, st.model))>>)

\* The start that leads the chunks of a stream says nothing.
LEMMA LeadSpeaks ==
    ASSUME target \in Formats, NEW st, NEW model
    PROVE  Speaks(Lead(st, model), <<>>, <<>>)
<1>1. CASE st.sawStart
  <2>1. Lead(st, model) = <<>>
    BY <1>1 DEF Lead, O!If
  <2> QED BY <2>1, SpeaksNone
<1>2. CASE ~st.sawStart
  <2> DEFINE c == O!MessageStart(IF st.sawStart THEN st.model ELSE O!Or(model, st.model))
  <2>1. Lead(st, model) = <<c>>
    BY <1>2 DEF Lead, O!If
  <2>2. c.c = "start"
    BY DEF O!MessageStart
  <2> HIDE DEF c
  <2>3. Talk(c, <<>>, <<>>)
    BY <2>2 DEF Talk
  <2>4. <<>> \in Fragments
    BY NoFragment
  <2> QED BY <2>1, <2>3, <2>4, SpeaksOne
<1> QED BY <1>1, <1>2

\* An OpenAI chunk decodes to these parts, in this order.
WireTools(e) ==
    [i \in DOMAIN e.tools |->
        O!ToolCallDelta(e.tools[i].ix, e.tools[i].id, e.tools[i].name, e.tools[i].args)]
OpenAiParts(st, e) ==
    Lead(st, e.model)
    \o O!If(e.usage # O!NoUsage, <<O!Usage(e.usage)>>)
    \o O!If(e.text # <<>>, <<O!TextDelta(e.text)>>)
    \o (IF e.details # <<>> THEN <<O!ReasoningDetailsDelta(e.details, e.reasoning)>>
        ELSE O!If(e.reasoning # <<>>, <<O!ReasoningDelta(e.reasoning)>>))
    \o WireTools(e)
    \o O!If(e.finish # O!None, <<O!MessageStop(e.finish)>>)

\* decode_openai_chat_stream puts its parts one after the other.
LEMMA OpenAiDecoded ==
    ASSUME NEW st, IsState(st), NEW e, e.t = "chunk", NEW r, r = O!decode_openai_chat_stream(st, e)
    PROVE  IsState(r.st) /\ r.st.stop = st.stop /\ r.out = OpenAiParts(st, e)
<1> DEFINE usage == e.usage # O!NoUsage
           after == [st EXCEPT !.sawStart = TRUE,
                               !.model = IF st.sawStart THEN @ ELSE O!Or(e.model, @),
                               !.usage = IF usage THEN e.usage ELSE @,
                               !.sawUsage = @ \/ usage]
<1>1. IsState(after) /\ after.stop = st.stop
      /\ after.model = IF st.sawStart THEN st.model ELSE O!Or(e.model, st.model)
  BY DEF IsState, StateNames
<1>2. r.st = after
  BY DEF O!decode_openai_chat_stream, O!Emit
<1>3. r.out = O!If(~st.sawStart, <<O!MessageStart(after.model)>>)
    \o O!If(usage, <<O!Usage(e.usage)>>)
    \o O!If(e.text # <<>>, <<O!TextDelta(e.text)>>)
    \o (IF e.details # <<>> THEN <<O!ReasoningDetailsDelta(e.details, e.reasoning)>>
        ELSE O!If(e.reasoning # <<>>, <<O!ReasoningDelta(e.reasoning)>>))
    \o WireTools(e)
    \o O!If(e.finish # O!None, <<O!MessageStop(e.finish)>>)
  BY DEF O!decode_openai_chat_stream, O!Emit, WireTools
<1> HIDE DEF after
<1> QED BY <1>1, <1>2, <1>3 DEF OpenAiParts, Lead

(***************************************************************************)
(* What an OpenAI upstream says is heard.                                  *)
(***************************************************************************)

\* An event e of the upstream adds x to the text and y to the reasoning: the decoder's step r
\* on it says so, and so does the event itself.
Heard(r, e, st, x, y) ==
    /\ IsState(r.st) /\ r.st.stop = st.stop
    /\ Speaks(r.out, x, y)
    /\ Shows(<<e>>, x, y) /\ ~CutShown(<<e>>)
    /\ e.t \notin {"message_delta", "message_stop"}

\* Joined with nothing, a list is as it was.
LEMMA JoinedOne ==
    ASSUME NEW a, NEW x, IsList(a), IsList(x)
    PROVE  /\ a \o <<>> \o x \o <<>> \o <<>> \o <<>> = a \o x
           /\ a \o <<>> \o <<>> \o x \o <<>> \o <<>> = a \o x
           /\ a \o <<>> \o <<>> \o <<>> \o x \o <<>> = a \o x
           /\ a \o <<>> \o <<>> \o <<>> \o <<>> \o x = a \o x
           /\ a \o x \o <<>> \o <<>> \o <<>> \o <<>> = a \o x
<1> DEFINE s == a \o x
           n == <<>>
<1>1. IsList(s)
  BY ListConcat
<1>2. a \o n = a
  BY NoneFirst
<1> HIDE DEF s
<1>3. s \o n = s
  BY <1>1, NoneFirst
<1> HIDE DEF n
<1>4. /\ a \o n \o x \o n \o n \o n = s
      /\ a \o n \o n \o x \o n \o n = s
      /\ a \o n \o n \o n \o x \o n = s
      /\ a \o n \o n \o n \o n \o x = s
      /\ a \o x \o n \o n \o n \o n = s
  BY <1>2, <1>3, Zenon DEF s
<1> QED BY <1>4 DEF s, n

\* A chunk with one part.
LEMMA OpenAiPart ==
    ASSUME target \in Formats, NEW st, IsState(st), NEW e, e.t = "chunk", DOMAIN e = ChunkNames,
           NEW x \in Fragments, NEW y \in Fragments, e.text = x, e.reasoning = y, e.finish = None,
           NEW r, r = O!decode_openai_chat_stream(st, e),
           NEW c, Talk(c, x, y), r.out = Lead(st, e.model) \o <<c>>, IsState(r.st), r.st.stop = st.stop
    PROVE  Heard(r, e, st, x, y)
<1>1. Speaks(r.out, x, y)
  <2> DEFINE a == Lead(st, e.model)
  <2>1. Speaks(a, <<>>, <<>>)
    BY LeadSpeaks
  <2> HIDE DEF a
  <2>2. Speaks(a \o <<c>>, x, y)
    BY <2>1, SpeaksNext
  <2> QED BY <2>2 DEF a
<1>2. Shows(<<e>>, x, y) /\ ~CutShown(<<e>>)
  <2>1. DOMAIN e = DOMAIN O!OpenAi(None)
    BY DEF O!OpenAi, ChunkNames
  <2> QED BY <2>1, OpenAiChunk DEF None
<1> QED BY <1>1, <1>2 DEF Heard

\* What an OpenAI upstream says.
LEMMA OpenAiHeard ==
    ASSUME target \in Formats, NEW st, IsState(st), NEW f \in Fragments, f # <<>>
    PROVE  /\ \A e, r : e = [Chunk EXCEPT !.text = f] /\ r = O!decode_openai_chat_stream(st, e)
                        => Heard(r, e, st, f, <<>>)
           /\ \A e, r, details : e = [Chunk EXCEPT !.reasoning = f, !.details = details]
                                 /\ r = O!decode_openai_chat_stream(st, e)
                                 => Heard(r, e, st, <<>>, f)
           /\ \A e, r, tool : e = [Chunk EXCEPT !.tools = <<tool>>] /\ r = O!decode_openai_chat_stream(st, e)
                              => Heard(r, e, st, <<>>, <<>>)
<1>0. <<>> \in Fragments
  BY NoFragment
<1> DEFINE a == Lead(st, "upstream")
<1>1. IsList(a)
  BY LeadSpeaks DEF Speaks
<1>2. ASSUME NEW e, NEW r, e = [Chunk EXCEPT !.text = f], r = O!decode_openai_chat_stream(st, e)
      PROVE  Heard(r, e, st, f, <<>>)
  <2> DEFINE c == O!TextDelta(f)
  <2>1. e.t = "chunk" /\ DOMAIN e = ChunkNames /\ e.text = f /\ e.reasoning = <<>> /\ e.finish = O!None
        /\ e.usage = O!NoUsage /\ e.details = <<>> /\ e.tools = <<>> /\ e.model = "upstream"
    BY <1>2 DEF Chunk, O!OpenAi, ChunkNames
  <2>2. WireTools(e) = <<>>
    BY <2>1 DEF WireTools
  <2>0. r = O!decode_openai_chat_stream(st, e)
    BY <1>2
  <2>3. IsState(r.st) /\ r.st.stop = st.stop /\ r.out = OpenAiParts(st, e)
    BY <2>0, <2>1, OpenAiDecoded
  <2>4. r.out = a \o <<>> \o <<c>> \o <<>> \o <<>> \o <<>>
    BY <2>1, <2>2, <2>3 DEF OpenAiParts, O!If
  <2>5. r.out = a \o <<c>>
    <3> DEFINE s == <<c>>
    <3>1. IsList(s)
      BY ListOne
    <3> HIDE DEF a, s
    <3>2. a \o <<>> \o s \o <<>> \o <<>> \o <<>> = a \o s
      BY <1>1, <3>1, JoinedOne
    <3> QED BY <2>4, <3>2 DEF s
  <2>6. Talk(c, f, <<>>)
    BY DEF Talk, O!TextDelta
  <2> HIDE DEF a, c
  <2>7. e.finish = None
    BY <2>1 DEF O!None, None
  <2> QED BY <1>0, <1>2, <2>1, <2>3, <2>5, <2>6, <2>7, OpenAiPart DEF a
<1>3. ASSUME NEW e, NEW r, NEW details, e = [Chunk EXCEPT !.reasoning = f, !.details = details],
             r = O!decode_openai_chat_stream(st, e)
      PROVE  Heard(r, e, st, <<>>, f)
  <2> DEFINE c == IF details # <<>> THEN O!ReasoningDetailsDelta(details, f) ELSE O!ReasoningDelta(f)
  <2>1. e.t = "chunk" /\ DOMAIN e = ChunkNames /\ e.text = <<>> /\ e.reasoning = f /\ e.finish = O!None
        /\ e.usage = O!NoUsage /\ e.details = details /\ e.tools = <<>> /\ e.model = "upstream"
    BY <1>3 DEF Chunk, O!OpenAi, ChunkNames
  <2>2. WireTools(e) = <<>>
    BY <2>1 DEF WireTools
  <2>0. r = O!decode_openai_chat_stream(st, e)
    BY <1>3
  <2>3. IsState(r.st) /\ r.st.stop = st.stop /\ r.out = OpenAiParts(st, e)
    BY <2>0, <2>1, OpenAiDecoded
  <2>4. r.out = a \o <<>> \o <<>> \o <<c>> \o <<>> \o <<>>
    BY <2>1, <2>2, <2>3 DEF OpenAiParts, O!If
  <2>5. r.out = a \o <<c>>
    <3> DEFINE s == <<c>>
    <3>1. IsList(s)
      BY ListOne
    <3> HIDE DEF a, s
    <3>2. a \o <<>> \o <<>> \o s \o <<>> \o <<>> = a \o s
      BY <1>1, <3>1, JoinedOne
    <3> QED BY <2>4, <3>2 DEF s
  <2>6. Talk(c, <<>>, f)
    BY DEF Talk, O!ReasoningDetailsDelta, O!ReasoningDelta
  <2> HIDE DEF a, c
  <2>7. e.finish = None
    BY <2>1 DEF O!None, None
  <2> QED BY <1>0, <1>3, <2>1, <2>3, <2>5, <2>6, <2>7, OpenAiPart DEF a
<1>4. ASSUME NEW e, NEW r, NEW tool, e = [Chunk EXCEPT !.tools = <<tool>>],
             r = O!decode_openai_chat_stream(st, e)
      PROVE  Heard(r, e, st, <<>>, <<>>)
  <2> DEFINE c == O!ToolCallDelta(tool.ix, tool.id, tool.name, tool.args)
  <2>1. e.t = "chunk" /\ DOMAIN e = ChunkNames /\ e.text = <<>> /\ e.reasoning = <<>> /\ e.finish = O!None
        /\ e.usage = O!NoUsage /\ e.details = <<>> /\ e.tools = <<tool>> /\ e.model = "upstream"
    BY <1>4 DEF Chunk, O!OpenAi, ChunkNames
  <2>2. WireTools(e) = <<c>>
    BY <2>1, ListOne DEF WireTools
  <2>0. r = O!decode_openai_chat_stream(st, e)
    BY <1>4
  <2>3. IsState(r.st) /\ r.st.stop = st.stop /\ r.out = OpenAiParts(st, e)
    BY <2>0, <2>1, OpenAiDecoded
  <2>4. r.out = a \o <<>> \o <<>> \o <<>> \o <<c>> \o <<>>
    BY <2>1, <2>2, <2>3 DEF OpenAiParts, O!If
  <2>5. r.out = a \o <<c>>
    <3> DEFINE s == <<c>>
    <3>1. IsList(s)
      BY ListOne
    <3> HIDE DEF a, s
    <3>2. a \o <<>> \o <<>> \o <<>> \o s \o <<>> = a \o s
      BY <1>1, <3>1, JoinedOne
    <3> QED BY <2>4, <3>2 DEF s
  <2>6. Talk(c, <<>>, <<>>)
    BY DEF Talk, O!ToolCallDelta
  <2> HIDE DEF a, c
  <2>7. e.finish = None
    BY <2>1 DEF O!None, None
  <2> QED BY <1>0, <1>4, <2>1, <2>3, <2>5, <2>6, <2>7, OpenAiPart DEF a
<1> QED BY <1>2, <1>3, <1>4

(***************************************************************************)
(* What the upstreams of the other formats say is heard.                   *)
(***************************************************************************)

\* One chunk, or none, from an event shown as x and y.
LEMMA HeardOne ==
    ASSUME target \in Formats, NEW st, IsState(st), NEW e, NEW r, NEW c, IsState(r.st), r.st.stop = st.stop,
           NEW x \in Fragments, NEW y \in Fragments,
           Shows(<<e>>, x, y), ~CutShown(<<e>>), e.t \notin {"message_delta", "message_stop"},
           \/ r.out = <<c>> /\ Talk(c, x, y)
           \/ r.out = <<>> /\ x = <<>> /\ y = <<>>
    PROVE  Heard(r, e, st, x, y)
<1>1. CASE r.out = <<c>> /\ Talk(c, x, y)
  BY <1>1, SpeaksOne DEF Heard
<1>2. CASE r.out = <<>> /\ x = <<>> /\ y = <<>>
  BY <1>2, SpeaksNone DEF Heard
<1> QED BY <1>1, <1>2

\* What an Anthropic upstream says.
LEMMA AnthropicHeard ==
    ASSUME target \in Formats, NEW st, IsState(st), NEW f \in Fragments
    PROVE  /\ \A e, r : e = [t |-> "message_start", model |-> "upstream", usage |-> [in |-> 1, out |-> 0]]
                        /\ r = A!decode_anthropic_stream(st, e) => Heard(r, e, st, <<>>, <<>>)
           /\ \A e, r, ix, kind, id, name :
                 kind \in {"text", "thinking", "tool_use"} /\ e = A!BlockStart(ix, kind, id, name)
                 /\ r = A!decode_anthropic_stream(st, e) => Heard(r, e, st, <<>>, <<>>)
           /\ \A e, r, ix, kind :
                 kind \in {"text", "thinking", "tool_use"} /\ e = A!BlockDelta(ix, kind, f)
                 /\ r = A!decode_anthropic_stream(st, e)
                 => Heard(r, e, st, IF kind = "text" THEN f ELSE <<>>, IF kind = "thinking" THEN f ELSE <<>>)
           /\ \A e, r, ix : e = A!BlockStop(ix) /\ r = A!decode_anthropic_stream(st, e)
                            => Heard(r, e, st, <<>>, <<>>)
<1>0. <<>> \in Fragments
  BY NoFragment
<1>1. ASSUME NEW e, NEW r, e = [t |-> "message_start", model |-> "upstream", usage |-> [in |-> 1, out |-> 0]],
             r = A!decode_anthropic_stream(st, e)
      PROVE  Heard(r, e, st, <<>>, <<>>)
  <2> DEFINE after == A!capture_anthropic_usage([st EXCEPT !.sawStart = TRUE, !.model = A!Or(e.model, @)], e.usage)
             c == A!MessageStart(after.model)
  <2>1. r = [st |-> after, out |-> <<c>>]
    BY <1>1, StepsAlike DEF A!decode_anthropic_stream
  <2>2. r.st = after /\ r.out = <<c>>
    BY <2>1
  <2>3. IsState(after) /\ after.stop = st.stop
    BY DEF IsState, StateNames, A!capture_anthropic_usage
  <2>4. Talk(c, <<>>, <<>>)
    BY DEF Talk, A!MessageStart
  <2> HIDE DEF c, after
  <2>5. "t" \in DOMAIN e /\ e.t = "message_start"
    BY <1>1
  <2>6. Shows(<<e>>, <<>>, <<>>) /\ ~CutShown(<<e>>)
    BY <2>5, QuietEvent
  <2> QED BY <1>0, <2>2, <2>3, <2>4, <2>5, <2>6, HeardOne
<1>2. ASSUME NEW e, NEW r, NEW ix, NEW kind \in {"text", "thinking", "tool_use"}, NEW id, NEW name,
             e = A!BlockStart(ix, kind, id, name), r = A!decode_anthropic_stream(st, e)
      PROVE  Heard(r, e, st, <<>>, <<>>)
  <2> DEFINE c == A!ToolCallDelta(ix, id, name, <<>>)
  <2>1. "t" \in DOMAIN e /\ e.t = "content_block_start" /\ e.kind = kind /\ e.ix = ix /\ e.id = id /\ e.name = name
        /\ e.delta = <<>>
    BY <1>2 DEF A!BlockStart
  <2>2. r = [st |-> st, out |-> A!decode_content(e)]
    BY <1>2, <2>1, StepsAlike DEF A!decode_anthropic_stream
  <2>3. A!decode_content(e) \in {<<>>, <<c>>}
    BY <2>1 DEF A!decode_content
  <2>4. r.st = st /\ (r.out = <<>> \/ r.out = <<c>>)
    BY <2>2, <2>3
  <2>5. Talk(c, <<>>, <<>>)
    BY DEF Talk, A!ToolCallDelta
  <2> HIDE DEF c
  <2>6. Shows(<<e>>, <<>>, <<>>) /\ ~CutShown(<<e>>)
    BY <2>1, QuietEvent
  <2> QED BY <1>0, <2>1, <2>4, <2>5, <2>6, HeardOne
<1>3. ASSUME NEW e, NEW r, NEW ix, NEW kind \in {"text", "thinking", "tool_use"},
             e = A!BlockDelta(ix, kind, f), r = A!decode_anthropic_stream(st, e)
      PROVE  Heard(r, e, st, IF kind = "text" THEN f ELSE <<>>, IF kind = "thinking" THEN f ELSE <<>>)
  <2> DEFINE c == IF kind = "text" THEN A!TextDelta(f) ELSE IF kind = "thinking" THEN A!ReasoningDelta(f)
                  ELSE A!ToolCallDelta(ix, A!None, A!None, f)
             x == IF kind = "text" THEN f ELSE <<>>
             y == IF kind = "thinking" THEN f ELSE <<>>
  <2>1. "t" \in DOMAIN e /\ e.t = "content_block_delta" /\ e.kind = kind /\ e.ix = ix /\ e.delta = f
    BY <1>3 DEF A!BlockDelta
  <2>2. r = [st |-> st, out |-> A!decode_content(e)]
    BY <1>3, <2>1, StepsAlike DEF A!decode_anthropic_stream
  <2>3. A!decode_content(e) = <<c>>
    BY <2>1 DEF A!decode_content
  <2>4. r.st = st /\ r.out = <<c>>
    BY <2>2, <2>3
  <2>5. Talk(c, x, y)
    BY DEF Talk, A!ToolCallDelta, A!TextDelta, A!ReasoningDelta
  <2>6. Shows(<<e>>, x, y) /\ ~CutShown(<<e>>)
    BY <1>3, AnthropicDeltas
  <2>7. x \in Fragments /\ y \in Fragments
    BY <1>0
  <2> HIDE DEF c, x, y
  <2>8. Heard(r, e, st, x, y)
    BY <2>1, <2>4, <2>5, <2>6, <2>7, HeardOne
  <2> QED BY <2>8 DEF x, y
<1>4. ASSUME NEW e, NEW r, NEW ix, e = A!BlockStop(ix), r = A!decode_anthropic_stream(st, e)
      PROVE  Heard(r, e, st, <<>>, <<>>)
  <2>1. "t" \in DOMAIN e /\ e.t = "content_block_stop"
    BY <1>4 DEF A!BlockStop
  <2>2. r = [st |-> st, out |-> <<>>]
    BY <1>4, <2>1, StepsAlike DEF A!decode_anthropic_stream
  <2>3. r.st = st /\ r.out = <<>>
    BY <2>2
  <2>4. Shows(<<e>>, <<>>, <<>>) /\ ~CutShown(<<e>>)
    BY <2>1, QuietEvent
  <2> QED BY <1>0, <2>1, <2>3, <2>4, HeardOne
<1> QED BY <1>1, <1>2, <1>3, <1>4

\* What a Responses upstream says.
LEMMA ResponsesHeard ==
    ASSUME target \in Formats, NEW st, IsState(st), NEW f \in Fragments
    PROVE  /\ \A e, r : e = [t |-> "created", model |-> "upstream", usage |-> [in |-> 1, out |-> 0]]
                        /\ r = R!decode_responses_stream(st, e) => Heard(r, e, st, <<>>, <<>>)
           /\ \A e, r, ix, kind, id, name :
                 e = R!ItemAdded(ix, kind, id, name, <<>>)
                 /\ r = R!decode_responses_stream(st, e) => Heard(r, e, st, <<>>, <<>>)
           /\ \A e, r, ix, kind :
                 kind \in {"message", "reasoning", "function_call"} /\ e = R!Delta(ix, kind, f)
                 /\ r = R!decode_responses_stream(st, e)
                 => Heard(r, e, st, IF kind = "message" THEN f ELSE <<>>, IF kind = "reasoning" THEN f ELSE <<>>)
           /\ \A e, r, ix, kind, full :
                 e = R!ItemDone(ix, kind, full) /\ r = R!decode_responses_stream(st, e)
                 => Heard(r, e, st, <<>>, <<>>)
<1>0. <<>> \in Fragments
  BY NoFragment
<1>1. ASSUME NEW e, NEW r, e = [t |-> "created", model |-> "upstream", usage |-> [in |-> 1, out |-> 0]],
             r = R!decode_responses_stream(st, e)
      PROVE  Heard(r, e, st, <<>>, <<>>)
  <2> DEFINE after == [st EXCEPT !.sawStart = TRUE, !.model = R!Or(e.model, @)]
             c == R!MessageStart(after.model)
  <2>1. r = [st |-> after, out |-> <<c>>]
    BY <1>1, StepsAlike DEF R!decode_responses_stream
  <2>2. r.st = after /\ r.out = <<c>>
    BY <2>1
  <2>3. IsState(after) /\ after.stop = st.stop
    BY DEF IsState, StateNames
  <2>4. Talk(c, <<>>, <<>>)
    BY DEF Talk, R!MessageStart
  <2> HIDE DEF c, after
  <2>5. "t" \in DOMAIN e /\ e.t = "created"
    BY <1>1
  <2>6. Shows(<<e>>, <<>>, <<>>) /\ ~CutShown(<<e>>)
    BY <2>5, QuietEvent
  <2> QED BY <1>0, <2>2, <2>3, <2>4, <2>5, <2>6, HeardOne
<1>2. ASSUME NEW e, NEW r, NEW ix, NEW kind, NEW id, NEW name,
             e = R!ItemAdded(ix, kind, id, name, <<>>), r = R!decode_responses_stream(st, e)
      PROVE  Heard(r, e, st, <<>>, <<>>)
  <2> DEFINE c == R!ToolCallDelta(ix, id, name, <<>>)
  <2>1. "t" \in DOMAIN e /\ e.t = "output_item.added" /\ e.kind = kind /\ e.ix = ix /\ e.id = id /\ e.name = name
        /\ e.full = <<>>
    BY <1>2 DEF R!ItemAdded
  <2>2. r = [st |-> st, out |-> R!decode_responses_output_item_added(e)]
    BY <1>2, <2>1, StepsAlike DEF R!decode_responses_stream
  <2>3. R!decode_responses_output_item_added(e) \in {<<>>, <<c>>}
    BY <2>1 DEF R!decode_responses_output_item_added
  <2>4. r.st = st /\ (r.out = <<>> \/ r.out = <<c>>)
    BY <2>2, <2>3
  <2>5. Talk(c, <<>>, <<>>)
    BY DEF Talk, R!ToolCallDelta
  <2> HIDE DEF c
  <2>6. Shows(<<e>>, <<>>, <<>>) /\ ~CutShown(<<e>>)
    BY <2>1, QuietEvent
  <2> QED BY <1>0, <2>1, <2>4, <2>5, <2>6, HeardOne
<1>3. ASSUME NEW e, NEW r, NEW ix, NEW kind \in {"message", "reasoning", "function_call"},
             e = R!Delta(ix, kind, f), r = R!decode_responses_stream(st, e)
      PROVE  Heard(r, e, st, IF kind = "message" THEN f ELSE <<>>, IF kind = "reasoning" THEN f ELSE <<>>)
  <2> DEFINE c == IF kind = "message" THEN R!TextDelta(f) ELSE IF kind = "reasoning" THEN R!ReasoningDelta(f)
                  ELSE R!ToolCallDelta(ix, R!None, R!None, f)
             x == IF kind = "message" THEN f ELSE <<>>
             y == IF kind = "reasoning" THEN f ELSE <<>>
  <2>1. "t" \in DOMAIN e /\ e.t = "delta" /\ e.kind = kind /\ e.ix = ix /\ e.delta = f
    BY <1>3 DEF R!Delta
  <2>2. r.st = st /\ r.out = <<c>>
    BY <1>3, <2>1 DEF R!decode_responses_stream, R!Emit
  <2>5. Talk(c, x, y)
    BY DEF Talk, R!ToolCallDelta, R!TextDelta, R!ReasoningDelta
  <2>6. Shows(<<e>>, x, y) /\ ~CutShown(<<e>>)
    BY <1>3, ResponsesDeltas
  <2>7. x \in Fragments /\ y \in Fragments
    BY <1>0
  <2> HIDE DEF c, x, y
  <2>8. Heard(r, e, st, x, y)
    BY <2>1, <2>2, <2>5, <2>6, <2>7, HeardOne
  <2> QED BY <2>8 DEF x, y
<1>4. ASSUME NEW e, NEW r, NEW ix, NEW kind, NEW full, e = R!ItemDone(ix, kind, full),
             r = R!decode_responses_stream(st, e)
      PROVE  Heard(r, e, st, <<>>, <<>>)
  <2> DEFINE c == R!ToolCallDelta(ix, R!None, R!None, full)
  <2>1. "t" \in DOMAIN e /\ e.t = "output_item.done" /\ e.kind = kind /\ e.ix = ix /\ e.full = full
    BY <1>4 DEF R!ItemDone
  <2>2. r = [st |-> st, out |-> R!decode_responses_output_item_done(st, e)]
    BY <1>4, <2>1, StepsAlike DEF R!decode_responses_stream
  <2>3. R!decode_responses_output_item_done(st, e) \in {<<>>, <<c>>}
    BY <2>1 DEF R!decode_responses_output_item_done
  <2>4. r.st = st /\ (r.out = <<>> \/ r.out = <<c>>)
    BY <2>2, <2>3
  <2>5. Talk(c, <<>>, <<>>)
    BY DEF Talk, R!ToolCallDelta
  <2> HIDE DEF c
  <2>6. Shows(<<e>>, <<>>, <<>>) /\ ~CutShown(<<e>>)
    BY <2>1, QuietEvent
  <2> QED BY <1>0, <2>1, <2>4, <2>5, <2>6, HeardOne
<1> QED BY <1>1, <1>2, <1>3, <1>4

(***************************************************************************)
(* How an upstream of each format ends its answer.                         *)
(***************************************************************************)

\* An event e of the upstream ends the answer, cut off or not, with the usage u, if any.
Final(r, e, cut, u) ==
    /\ IsState(r.st) /\ Closes(r.out, cut, u)
    /\ Shows(<<e>>, <<>>, <<>>) /\ (CutShown(<<e>>) <=> cut)
    /\ u # NoUsage => ReportsShown(<<e>>, u)

UsageChunk(u) == IF u = NoUsage THEN <<>> ELSE <<Usage(u)>>

\* A usage, if any, and a reason to stop after the chunks a.
LEMMA FinalChunks ==
    ASSUME target \in Formats, NEW a, Speaks(a, <<>>, <<>>), NEW u, NEW c, c.c = "stop", c.reason \in Reasons
    PROVE  Closes(a \o UsageChunk(u) \o <<c>>, c.reason \in Cutting, u)
<1> DEFINE b == a \o UsageChunk(u)
<1>1. Counts(b, u)
  <2>1. CASE u = NoUsage
    <3>1. b = a
      BY <2>1, NoneFirst DEF UsageChunk, Speaks
    <3> HIDE DEF b
    <3> QED BY <2>1, <3>1, CountsNothing
  <2>2. CASE u # NoUsage
    <3>1. b = a \o <<Usage(u)>>
      BY <2>2 DEF UsageChunk
    <3> HIDE DEF b
    <3>2. Counts(a \o <<Usage(u)>>, u)
      BY CountsUsage
    <3> QED BY <3>1, <3>2
  <2> QED BY <2>1, <2>2
<1> HIDE DEF b
<1>2. Closes(b \o <<c>>, c.reason \in Cutting, u)
  BY <1>1, ClosesAfter
<1> QED BY <1>2 DEF b

\* The same with nothing before.
LEMMA FinalOnly ==
    ASSUME target \in Formats, NEW u, NEW c, c.c = "stop", c.reason \in Reasons
    PROVE  Closes(UsageChunk(u) \o <<c>>, c.reason \in Cutting, u)
<1> DEFINE a == UsageChunk(u)
           n == <<>>
<1>1. IsList(a)
  BY ListOne, ListNone DEF UsageChunk
<1>2. Speaks(n, <<>>, <<>>)
  BY SpeaksNone
<1> HIDE DEF n
<1>3. Closes(n \o a \o <<c>>, c.reason \in Cutting, u)
  BY <1>2, FinalChunks
<1> HIDE DEF a
<1>4. n \o a = a
  BY <1>1, NoneFirst DEF n
<1> QED BY <1>3, <1>4 DEF a

\* How an OpenAI upstream ends its answer, and the chunk with the usage that may follow.
LEMMA OpenAiFinal ==
    ASSUME target \in Formats, NEW st, IsState(st), NEW u
    PROVE  /\ \A e, r, stop : stop \in {"length", "stop"} /\ e = [Chunk EXCEPT !.finish = stop, !.usage = u]
                              /\ r = O!decode_openai_chat_stream(st, e) => Final(r, e, stop = "length", u)
           /\ \A e, r : e = [Chunk EXCEPT !.usage = u] /\ r = O!decode_openai_chat_stream(st, e) /\ u # NoUsage
                        => /\ IsState(r.st) /\ Counts(r.out, u)
                           /\ Shows(<<e>>, <<>>, <<>>) /\ ~CutShown(<<e>>) /\ ReportsShown(<<e>>, u)
<1> DEFINE a == Lead(st, "upstream")
<1>0. <<>> \in Fragments
  BY NoFragment
<1>1. IsList(a) /\ Speaks(a, <<>>, <<>>)
  BY LeadSpeaks DEF Speaks
<1>2. ASSUME NEW e, NEW r, NEW stop \in {"length", "stop"}, e = [Chunk EXCEPT !.finish = stop, !.usage = u],
             r = O!decode_openai_chat_stream(st, e)
      PROVE  Final(r, e, stop = "length", u)
  <2> DEFINE c == O!MessageStop(stop)
             b == UsageChunk(u)
             z == <<c>>
  <2>1. e.t = "chunk" /\ DOMAIN e = ChunkNames /\ e.text = <<>> /\ e.reasoning = <<>> /\ e.finish = stop
        /\ e.usage = u /\ e.details = <<>> /\ e.tools = <<>> /\ e.model = "upstream"
    BY <1>2 DEF Chunk, O!OpenAi, ChunkNames
  <2>2. WireTools(e) = <<>>
    BY <2>1 DEF WireTools
  <2>3. r = O!decode_openai_chat_stream(st, e)
    BY <1>2
  <2>4. IsState(r.st) /\ r.out = OpenAiParts(st, e)
    BY <2>1, <2>3, OpenAiDecoded
  <2>5. r.out = a \o b \o <<>> \o <<>> \o <<>> \o z
    BY <2>1, <2>2, <2>4 DEF OpenAiParts, O!If, UsageChunk, O!NoUsage, NoUsage, O!Usage, Usage, O!None
  <2>6. r.out = a \o b \o z
    <3> DEFINE s == a \o b
    <3>1. IsList(b)
      BY ListOne, ListNone DEF UsageChunk
    <3> HIDE DEF a, b, z
    <3>2. IsList(s)
      BY <1>1, <3>1, ListConcat
    <3>3. r.out = s \o <<>> \o <<>> \o <<>> \o z
      BY <2>5
    <3> HIDE DEF s
    <3>4. s \o <<>> = s
      BY <3>2, NoneFirst
    <3>5. r.out = s \o z
      BY <3>3, <3>4
    <3> QED BY <3>5 DEF s
  <2>7. c.c = "stop" /\ c.reason = stop /\ c.reason \in Reasons /\ (c.reason \in Cutting <=> stop = "length")
    BY <1>2 DEF O!MessageStop, Reasons, Cutting
  <2> HIDE DEF a, c
  <2>8. Closes(r.out, c.reason \in Cutting, u)
    BY <1>1, <2>6, <2>7, FinalChunks
  <2>9. Closes(r.out, stop = "length", u)
    BY <2>7, <2>8 DEF Closes
  <2>10. Shows(<<e>>, <<>>, <<>>) /\ (CutShown(<<e>>) <=> stop = "length")
    <3>1. DOMAIN e = DOMAIN O!OpenAi(None)
      BY <2>1 DEF O!OpenAi, ChunkNames
    <3> QED BY <1>0, <2>1, <3>1, OpenAiChunk
  <2>11. ReportsShown(<<e>>, u)
    <3>1. "usage" \in DOMAIN e
      BY <2>1 DEF ChunkNames
    <3> QED BY <2>1, <3>1, ReportsOne
  <2> QED BY <2>4, <2>9, <2>10, <2>11 DEF Final
<1>3. ASSUME NEW e, NEW r, e = [Chunk EXCEPT !.usage = u], r = O!decode_openai_chat_stream(st, e), u # NoUsage
      PROVE  /\ IsState(r.st) /\ Counts(r.out, u)
             /\ Shows(<<e>>, <<>>, <<>>) /\ ~CutShown(<<e>>) /\ ReportsShown(<<e>>, u)
  <2> DEFINE z == <<Usage(u)>>
  <2>1. e.t = "chunk" /\ DOMAIN e = ChunkNames /\ e.text = <<>> /\ e.reasoning = <<>> /\ e.finish = O!None
        /\ e.usage = u /\ e.details = <<>> /\ e.tools = <<>> /\ e.model = "upstream"
    BY <1>3 DEF Chunk, O!OpenAi, ChunkNames
  <2>2. WireTools(e) = <<>>
    BY <2>1 DEF WireTools
  <2>3. r = O!decode_openai_chat_stream(st, e)
    BY <1>3
  <2>4. IsState(r.st) /\ r.out = OpenAiParts(st, e)
    BY <2>1, <2>3, OpenAiDecoded
  <2>5. r.out = a \o z \o <<>> \o <<>> \o <<>> \o <<>>
    BY <1>3, <2>1, <2>2, <2>4 DEF OpenAiParts, O!If, O!NoUsage, NoUsage, O!Usage, Usage, O!None
  <2>6. r.out = a \o z
    <3>1. IsList(z)
      BY ListOne
    <3> HIDE DEF a, z
    <3>2. a \o z \o <<>> \o <<>> \o <<>> \o <<>> = a \o z
      BY <1>1, <3>1, JoinedOne
    <3> QED BY <2>5, <3>2
  <2> HIDE DEF a
  <2>7. Counts(a \o z, u)
    BY <1>1, CountsUsage
  <2>8. Counts(r.out, u)
    BY <2>6, <2>7
  <2>10. Shows(<<e>>, <<>>, <<>>) /\ ~CutShown(<<e>>)
    <3>1. DOMAIN e = DOMAIN O!OpenAi(None) /\ e.finish # "length"
      BY <2>1 DEF O!OpenAi, ChunkNames, O!None
    <3> QED BY <1>0, <2>1, <3>1, OpenAiChunk
  <2>11. ReportsShown(<<e>>, u)
    <3>1. "usage" \in DOMAIN e
      BY <2>1 DEF ChunkNames
    <3> QED BY <2>1, <3>1, ReportsOne
  <2> QED BY <2>4, <2>8, <2>10, <2>11
<1> QED BY <1>2, <1>3

\* How an Anthropic upstream ends its answer.
LEMMA AnthropicFinal ==
    ASSUME target \in Formats, NEW st, IsState(st), NEW u \in Reported, NEW stop \in {"max_tokens", "end_turn"},
           NEW e, e = A!MessageDelta(stop, u), NEW r, r = A!decode_anthropic_stream(st, e)
    PROVE  /\ Final(r, e, stop = "max_tokens", u)
           /\ r.st.stop = stop /\ e.t = "message_delta" /\ e.stop # None
<1> DEFINE used == A!capture_anthropic_usage(st, u)
           s == [used EXCEPT !.stop = stop]
           c == A!MessageStop(stop)
<1>0. <<>> \in Fragments
  BY NoFragment
<1>1. /\ "usage" \in DOMAIN e /\ "model" \notin DOMAIN e /\ e.t = "message_delta"
      /\ e.stop = stop /\ e.usage = u
  BY DEF A!MessageDelta
<1>2. IsState(used) /\ IsState(s) /\ s.stop = stop
  BY DEF IsState, StateNames, A!capture_anthropic_usage
<1>3. u # NoUsage => used.usage = u
  BY DEF IsState, StateNames, A!capture_anthropic_usage, Reported, NoUsage
<1> HIDE DEF used
<1>4. (IF u = A!NoUsage THEN <<>> ELSE <<A!Usage(used.usage)>>) = UsageChunk(u)
  BY <1>3 DEF UsageChunk, A!NoUsage, NoUsage, A!Usage, Usage
<1>5. r.st = s /\ r.out = (IF u = A!NoUsage THEN <<>> ELSE <<A!Usage(used.usage)>>) \o <<c>>
  BY <1>1, StepsAlike DEF A!decode_anthropic_stream, A!Emit, used, A!None
<1>6. c.c = "stop" /\ c.reason = stop /\ c.reason \in Reasons /\ (c.reason \in Cutting <=> stop = "max_tokens")
  BY DEF A!MessageStop, Reasons, Cutting
<1> HIDE DEF c, s
<1>7. Closes(r.out, c.reason \in Cutting, u)
  BY <1>4, <1>5, <1>6, FinalOnly
<1>8. Closes(r.out, stop = "max_tokens", u)
  BY <1>6, <1>7 DEF Closes
<1>9. Shows(<<e>>, <<>>, <<>>) /\ (CutShown(<<e>>) <=> stop = "max_tokens")
  <2> DEFINE f == stamp_streamed_response_model(e)
  <2>1. f = e
    BY <1>1 DEF stamp_streamed_response_model
  <2> HIDE DEF f
  <2>2. Adds(f, "text") = <<>> /\ Adds(f, "reasoning") = <<>> /\ (SaysTruncated(f) <=> stop = "max_tokens")
    BY <1>1, <2>1 DEF Adds, SaysTruncated
  <2> QED BY <1>0, <2>2, ShowsOne DEF f
<1>10. ReportsShown(<<e>>, u)
  BY <1>1, ReportsOne
<1> QED BY <1>1, <1>2, <1>5, <1>8, <1>9, <1>10 DEF Final, None

\* How a Responses upstream ends its answer: a cut-off one comes without its usage.
LEMMA ResponsesFinal ==
    ASSUME target \in Formats, NEW st, IsState(st), NEW u, NEW stop \in {"incomplete", "completed"},
           NEW e, e = [t |-> stop, model |-> "upstream", output |-> <<>>, usage |-> u],
           NEW r, r = R!decode_responses_stream(st, e)
    PROVE  Final(r, e, stop = "incomplete", IF stop = "incomplete" THEN NoUsage ELSE u)
<1> DEFINE c == R!MessageStop(IF stop = "incomplete" THEN "max_tokens" ELSE R!None)
           v == IF stop = "incomplete" THEN NoUsage ELSE u
           s == IF v = NoUsage THEN st ELSE [st EXCEPT !.usage = u, !.sawUsage = TRUE]
           z == <<c>>
<1>0. <<>> \in Fragments
  BY NoFragment
<1>1. "usage" \in DOMAIN e /\ e.t = stop /\ e.usage = u
  OBVIOUS
<1>2. IsState(s)
  BY DEF IsState, StateNames
<1>3. r.st = s /\ r.out = IF v = NoUsage THEN z ELSE <<Usage(v), c>>
  BY DEF R!decode_responses_stream, R!Emit, R!NoUsage, NoUsage, R!Usage, Usage
<1>4. r.out = UsageChunk(v) \o z
  <2>1. IsList(z)
    BY ListOne
  <2>2. CASE v = NoUsage
    <3> HIDE DEF z
    <3>1. <<>> \o z = z
      BY <2>1, NoneFirst
    <3> QED BY <1>3, <2>2, <3>1 DEF UsageChunk
  <2>3. CASE v # NoUsage
    <3>1. <<Usage(v), c>> = <<Usage(v)>> \o <<c>>
      BY ListTwo
    <3> QED BY <1>3, <2>3, <3>1 DEF UsageChunk
  <2> QED BY <2>2, <2>3
<1>6. c.c = "stop" /\ c.reason \in Reasons /\ (c.reason \in Cutting <=> stop = "incomplete")
  BY DEF R!MessageStop, Reasons, Cutting, R!None, None
<1> HIDE DEF c, s, v
<1>7. Closes(r.out, c.reason \in Cutting, v)
  BY <1>4, <1>6, FinalOnly
<1>8. Closes(r.out, stop = "incomplete", v)
  BY <1>6, <1>7 DEF Closes
<1>9. Shows(<<e>>, <<>>, <<>>) /\ (CutShown(<<e>>) <=> stop = "incomplete")
  <2> DEFINE f == stamp_streamed_response_model(e)
  <2>1. f.t = e.t
    BY DEF stamp_streamed_response_model
  <2> HIDE DEF f
  <2>2. Adds(f, "text") = <<>> /\ Adds(f, "reasoning") = <<>> /\ (SaysTruncated(f) <=> stop = "incomplete")
    BY <1>1, <2>1 DEF Adds, SaysTruncated
  <2> QED BY <1>0, <2>2, ShowsOne DEF f
<1>10. v # NoUsage => ReportsShown(<<e>>, v)
  BY <1>1, ReportsOne DEF v
<1>11. Final(r, e, stop = "incomplete", v)
  BY <1>2, <1>3, <1>8, <1>9, <1>10 DEF Final
<1> QED BY <1>11 DEF v

(***************************************************************************)
(* An event on its way to the client: replayed or encoded.                 *)
(***************************************************************************)

\* What a replayed event leaves of the encoder's state.
LEMMA Observed ==
    ASSUME target \in Formats, NEW e, NEW cs, NEW st, NEW s, s = EncodeChunks(st, cs).st, Fresh(s),
           NEW q, q = observe_replayed_event(st, e, cs)
    PROVE  /\ Fresh(q) /\ q.stop = s.stop /\ q.usage = s.usage /\ (q.sawUsage <=> s.sawUsage)
           /\ target = "anthropic" =>
                 /\ q.emittedDelta <=> s.emittedDelta \/ (e.t = "message_delta" /\ e.stop # None)
                 /\ q.finished <=> s.finished \/ e.t = "message_stop"
           /\ target # "anthropic" =>
                 /\ q.emittedDelta <=> s.emittedDelta
                 /\ q.finished <=> s.finished \/ Stops(cs)
<1>0. IsState(s) /\ ~s.errored
  BY DEF Fresh
<1>1. CASE target = "anthropic"
  <2> DEFINE d == s.emittedDelta \/ (e.t = "message_delta" /\ e.stop # None)
             f == s.finished \/ e.t = "message_stop"
  <2>1. q = [s EXCEPT !.emittedDelta = d, !.finished = f]
    BY <1>1 DEF observe_replayed_event, A!observe_anthropic, A!None, None
  <2> HIDE DEF d, f
  <2>2. /\ IsState(q) /\ ~q.errored /\ q.stop = s.stop /\ q.usage = s.usage /\ (q.sawUsage <=> s.sawUsage)
        /\ q.emittedDelta <=> d
        /\ q.finished <=> f
    BY <1>0, <2>1 DEF IsState, StateNames
  <2> QED BY <1>1, <2>2 DEF Fresh, d, f
<1>2. CASE target # "anthropic"
  <2> DEFINE f == s.finished \/ Stops(cs)
  <2>1. q = [s EXCEPT !.finished = f]
    BY <1>2 DEF observe_replayed_event
  <2> HIDE DEF f
  <2>2. /\ IsState(q) /\ ~q.errored /\ q.stop = s.stop /\ q.usage = s.usage /\ (q.sawUsage <=> s.sawUsage)
        /\ q.emittedDelta <=> s.emittedDelta
        /\ q.finished <=> f
    BY <1>0, <2>1 DEF IsState, StateNames
  <2> QED BY <1>2, <2>2 DEF Fresh, f
<1> QED BY <1>1, <1>2

\* What encode_response_stream_event does with an event nobody restored.
Plainly(st, e, cs) ==
    IF source = target THEN [st |-> observe_replayed_event(st, e, cs), out |-> <<e>>]
    ELSE EncodeChunks(st, cs)

\* An event of the client's own format is replayed, another is encoded.
LEMMA Passing ==
    ASSUME ~masked, NEW st, Fresh(st), NEW e, NEW cs
    PROVE  encode_response_stream_event(st, ~masked, e, cs) = Plainly(st, e, cs)
  BY DEF encode_response_stream_event, Emit, Fresh, Plainly

\* Part of the answer.
LEMMA PassedOn ==
    ASSUME target \in Formats, NEW st, Fresh(st), NEW d, NEW e, NEW s0, NEW x, NEW y, Heard(d, e, s0, x, y),
           NEW r, r = Plainly(st, e, d.out)
    PROVE  /\ Fresh(r.st) /\ (r.st.finished <=> st.finished) /\ (r.st.emittedDelta <=> st.emittedDelta)
           /\ r.st.stop = st.stop /\ Shows(r.out, x, y) /\ ~CutShown(r.out)
<1> DEFINE p == EncodeChunks(st, d.out)
<1>1. Moves(p, st, x, y)
  BY DEF Heard, Speaks
<1>2. ~st.errored /\ IsState(st)
  BY DEF Fresh
<1>3. /\ source = target => r.st = observe_replayed_event(st, e, d.out) /\ r.out = <<e>>
      /\ source # target => r = p
  BY DEF Plainly
<1> HIDE DEF p
<1>4. CASE source = target
  <2> DEFINE s == p.st
  <2>1. Fresh(s) /\ s.stop = st.stop /\ (s.finished <=> st.finished) /\ (s.emittedDelta <=> st.emittedDelta)
    BY <1>1, <1>2 DEF Moves, SameEnd, Fresh
  <2>2. s = EncodeChunks(st, d.out).st
    BY DEF p
  <2>3. r.st = observe_replayed_event(st, e, d.out)
    BY <1>3, <1>4
  <2> DEFINE q == r.st
  <2>4. q = observe_replayed_event(st, e, d.out)
    BY <2>3
  <2> HIDE DEF s, q
  <2>5. /\ Fresh(q) /\ q.stop = s.stop
        /\ target = "anthropic" =>
                 /\ q.emittedDelta <=> s.emittedDelta \/ (e.t = "message_delta" /\ e.stop # None)
                 /\ q.finished <=> s.finished \/ e.t = "message_stop"
        /\ target # "anthropic" =>
                 /\ q.emittedDelta <=> s.emittedDelta
                 /\ q.finished <=> s.finished \/ Stops(d.out)
    BY <2>1, <2>2, <2>4, Observed
  <2>6. ~Stops(d.out) /\ e.t # "message_delta" /\ e.t # "message_stop"
    BY DEF Heard, Speaks
  <2>7. Fresh(q) /\ (q.finished <=> st.finished) /\ (q.emittedDelta <=> st.emittedDelta) /\ q.stop = st.stop
    BY <2>1, <2>5, <2>6
  <2> QED BY <1>3, <1>4, <2>7 DEF Heard, q
<1>5. CASE source # target
  <2>1. r = p
    BY <1>3, <1>5
  <2> QED BY <1>1, <1>2, <2>1 DEF Moves, SameEnd, Fresh
<1> QED BY <1>4, <1>5

\* The end of it.
LEMMA PassedLast ==
    ASSUME target \in Formats, source \in Formats, NEW st, Fresh(st), ~st.finished, ~st.emittedDelta, st.stop = None,
           NEW d, NEW e, NEW cut \in BOOLEAN, NEW u, Final(d, e, cut, u),
           source = "anthropic" => e.t = "message_delta" /\ e.stop # None,
           NEW r, r = Plainly(st, e, d.out)
    PROVE  /\ Fresh(r.st) /\ Shows(r.out, <<>>, <<>>)
           /\ source = target \/ target = "openai" =>
                 /\ CutShown(r.out) <=> cut
                 /\ u # NoUsage => ReportsShown(r.out, u)
                 /\ target = "anthropic" => r.st.emittedDelta
                 /\ target # "anthropic" => r.st.finished
           /\ source # target /\ target # "openai" =>
                 /\ ~CutShown(r.out) /\ ~r.st.finished /\ ~r.st.emittedDelta
                 /\ r.st.stop \in Reasons /\ (r.st.stop \in Cutting <=> cut)
                 /\ u # NoUsage => r.st.sawUsage /\ r.st.usage = u
<1> DEFINE p == EncodeChunks(st, d.out)
<1>1. /\ Fresh(p.st) /\ p.st.emittedDelta = st.emittedDelta
      /\ Shows(p.out, <<>>, <<>>)
      /\ target = "openai" => /\ p.st.finished
                              /\ CutShown(p.out) <=> cut
                              /\ u # NoUsage => ReportsShown(p.out, u)
      /\ target # "openai" => /\ ~p.st.finished /\ ~CutShown(p.out)
                              /\ p.st.stop \in Reasons /\ (p.st.stop \in Cutting <=> cut)
                              /\ u # NoUsage => p.st.sawUsage /\ p.st.usage = u
  <2>1. Closes(d.out, cut, u)
    BY DEF Final
  <2> QED BY <2>1 DEF Closes
<1>2. ~st.errored /\ IsState(st)
  BY DEF Fresh
<1>3. /\ source = target => r.st = observe_replayed_event(st, e, d.out) /\ r.out = <<e>>
      /\ source # target => r = p
  BY DEF Plainly
<1> HIDE DEF p
<1>4. CASE source = target
  <2> DEFINE s == p.st
             q == r.st
  <2>1. Fresh(s)
    BY <1>1
  <2>2. s = EncodeChunks(st, d.out).st
    BY DEF p
  <2>4. q = observe_replayed_event(st, e, d.out)
    BY <1>3, <1>4
  <2> HIDE DEF s, q
  <2>5. /\ Fresh(q)
        /\ target = "anthropic" =>
                 /\ q.emittedDelta <=> s.emittedDelta \/ (e.t = "message_delta" /\ e.stop # None)
                 /\ q.finished <=> s.finished \/ e.t = "message_stop"
        /\ target # "anthropic" =>
                 /\ q.emittedDelta <=> s.emittedDelta
                 /\ q.finished <=> s.finished \/ Stops(d.out)
    BY <2>1, <2>2, <2>4, Observed
  <2>6. Stops(d.out)
    BY DEF Final, Closes
  <2>7. /\ Fresh(q) /\ (target = "anthropic" => q.emittedDelta) /\ (target # "anthropic" => q.finished)
    BY <1>4, <2>5, <2>6
  <2>8. r.out = <<e>>
    BY <1>3, <1>4
  <2> QED BY <1>4, <2>7, <2>8 DEF Final, q
<1>5. CASE source # target
  <2>1. r = p
    BY <1>3, <1>5
  <2> QED BY <1>1, <1>2, <1>5, <2>1
<1> QED BY <1>4, <1>5

(***************************************************************************)
(* What may follow the reason to stop.                                     *)
(***************************************************************************)

\* One chunk is encoded.
LEMMA EncodeOne ==
    ASSUME NEW st, NEW c, NEW n, n = encode_event(st, c), IsList(n.out)
    PROVE  EncodeChunks(st, <<c>>).st = n.st /\ EncodeChunks(st, <<c>>).out = n.out
<1> DEFINE b == <<c>>
           a == <<>>
           r == EncodeChunks(st, a)
           m == encode_event(r.st, c)
<1>1. IsList(a)
  BY ListNone
<1>2. IsList(b)
  BY ListOne
<1>3. r = [st |-> st, out |-> <<>>]
  BY EncodeNone
<1>4. r.st = st /\ r.out = <<>>
  BY <1>3
<1>5. EncodeChunks(st, a \o b) = [st |-> m.st, out |-> r.out \o m.out]
  <2>1. EncodeChunks(st, a \o b) = Followed(r, m)
    BY <1>1, EncodeMore
  <2> HIDE DEF r, m, a, b
  <2> QED BY <2>1 DEF Followed, Emit
<1>6. a \o b = b
  <2> HIDE DEF b
  <2> QED BY <1>2, NoneFirst
<1> HIDE DEF r, a
<1>7. m = n
  BY <1>4
<1> HIDE DEF m
<1>8. EncodeChunks(st, b) = [st |-> n.st, out |-> <<>> \o n.out]
  <2> HIDE DEF b
  <2> QED BY <1>4, <1>5, <1>6, <1>7
<1>9. <<>> \o n.out = n.out
  BY NoneFirst
<1>10. EncodeChunks(st, b) = [st |-> n.st, out |-> n.out]
  BY <1>8, <1>9
<1> HIDE DEF b
<1> QED BY <1>10 DEF b

\* message_stop repeats the reason.
LEMMA StopRepeated ==
    ASSUME target \in Formats, source = "anthropic", NEW st, Fresh(st), target = "openai" => st.finished,
           NEW s0, s0.stop \in {"max_tokens", "end_turn"}, IsState(s0),
           NEW e, e = [t |-> "message_stop"], NEW d, d = A!decode_anthropic_stream(s0, e),
           NEW r, r = Plainly(st, e, d.out)
    PROVE  /\ IsState(d.st) /\ d.st = s0 /\ Fresh(r.st) /\ Shows(r.out, <<>>, <<>>) /\ ~CutShown(r.out)
           /\ target = "anthropic" /\ st.emittedDelta => r.st.emittedDelta
           /\ target = "openai" => r.st.finished
           /\ target = "responses" =>
                 /\ (r.st.finished <=> st.finished) /\ (r.st.emittedDelta <=> st.emittedDelta)
                 /\ (r.st.sawUsage <=> st.sawUsage) /\ r.st.usage = st.usage /\ r.st.stop = s0.stop
<1> DEFINE c == A!MessageStop(s0.stop)
           n == encode_event(st, c)
           p == EncodeChunks(st, <<c>>)
<1>1. d.st = s0 /\ d.out = <<c>>
  BY StepsAlike DEF A!decode_anthropic_stream, A!Emit
<1>2. c.c = "stop" /\ c.reason = s0.stop /\ c.reason \in Reasons /\ c.reason # None
  BY DEF A!MessageStop, Reasons, None, Cutting
<1>3. "t" \in DOMAIN e /\ e.t = "message_stop"
  OBVIOUS
<1> HIDE DEF c
<1>4. CASE target = "openai"
  <2>1. n = [st |-> st, out |-> <<>>]
    BY <1>2, <1>4, StopTold
  <2>2. n.st = st /\ n.out = <<>>
    BY <2>1
  <2>3. p.st = st /\ p.out = <<>>
    BY <2>2, ListNone, EncodeOne
  <2>4. r = p
    BY <1>1, <1>4 DEF Plainly
  <2> HIDE DEF p
  <2> QED BY <1>1, <1>4, <2>3, <2>4, ShowsNone
<1>5. CASE target # "openai"
  <2>0. target \in {"anthropic", "responses"}
    BY <1>5 DEF Formats
  <2>1. /\ n = [st |-> n.st, out |-> <<>>]
        /\ IsState(n.st) /\ ~n.st.errored
        /\ n.st.finished = st.finished /\ n.st.emittedDelta = st.emittedDelta
        /\ n.st.sawUsage = st.sawUsage /\ n.st.usage = st.usage
        /\ n.st.stop = Or(c.reason, st.stop)
    BY <1>2, <2>0, StopKept
  <2>2. n.out = <<>> /\ n.st.stop = s0.stop
    <3> HIDE DEF n
    <3> QED BY <1>2, <2>1 DEF Or
  <2>3. p.st = n.st /\ p.out = <<>>
    <3>1. p.st = n.st /\ p.out = n.out
      BY <2>2, ListNone, EncodeOne
    <3> QED BY <2>2, <3>1
  <2> HIDE DEF n, p
  <2>4. /\ Fresh(p.st) /\ (p.st.finished <=> st.finished) /\ (p.st.emittedDelta <=> st.emittedDelta)
        /\ (p.st.sawUsage <=> st.sawUsage) /\ p.st.usage = st.usage /\ p.st.stop = s0.stop
    BY <2>1, <2>2, <2>3 DEF Fresh
  <2>5. CASE target = "responses"
    <3>1. r = p
      BY <1>1, <2>5 DEF Plainly, p
    <3> QED BY <1>1, <2>3, <2>4, <2>5, <3>1, ShowsNone
  <2>6. CASE target = "anthropic"
    <3> DEFINE s == p.st
               q == r.st
    <3>1. q = observe_replayed_event(st, e, <<c>>) /\ r.out = <<e>> /\ s = EncodeChunks(st, <<c>>).st
      BY <1>1, <2>6 DEF Plainly, p
    <3> HIDE DEF s, q
    <3>2. /\ Fresh(q)
          /\ q.emittedDelta <=> s.emittedDelta \/ (e.t = "message_delta" /\ e.stop # None)
      BY <2>4, <2>6, <3>1, Observed DEF s
    <3>3. Shows(<<e>>, <<>>, <<>>) /\ ~CutShown(<<e>>)
      BY <1>3, QuietEvent
    <3>4. st.emittedDelta => q.emittedDelta
      BY <2>4, <3>2 DEF s
    <3> QED BY <1>1, <2>6, <3>1, <3>2, <3>3, <3>4 DEF q
  <2> QED BY <2>0, <2>5, <2>6
<1> QED BY <1>4, <1>5

\* The usage that follows an OpenAI answer.
LEMMA UsagePassed ==
    ASSUME target \in Formats, source = "openai", NEW st, Fresh(st), NEW cs, NEW u, u # NoUsage, Counts(cs, u),
           NEW e, Shows(<<e>>, <<>>, <<>>), ~CutShown(<<e>>), ReportsShown(<<e>>, u),
           NEW r, r = Plainly(st, e, cs)
    PROVE  /\ Fresh(r.st) /\ Shows(r.out, <<>>, <<>>) /\ ~CutShown(r.out)
           /\ target = "openai" => ReportsShown(r.out, u) /\ (st.finished => r.st.finished)
           /\ target # "openai" => /\ (r.st.finished <=> st.finished) /\ (r.st.emittedDelta <=> st.emittedDelta)
                                   /\ r.st.sawUsage /\ r.st.usage = u /\ r.st.stop = st.stop
<1> DEFINE p == EncodeChunks(st, cs)
<1>1. /\ Fresh(p.st) /\ (p.st.finished <=> st.finished) /\ p.st.stop = st.stop
      /\ (p.st.emittedDelta <=> st.emittedDelta) /\ p.st.sawUsage /\ p.st.usage = u
      /\ target # "openai" => Shows(p.out, <<>>, <<>>) /\ ~CutShown(p.out)
  BY DEF Counts
<1>2. CASE target = "openai"
  <2> DEFINE s == p.st
             q == r.st
  <2>1. q = observe_replayed_event(st, e, cs) /\ r.out = <<e>> /\ s = EncodeChunks(st, cs).st
    BY <1>2 DEF Plainly
  <2> HIDE DEF s, q, p
  <2>2. Fresh(q) /\ (q.finished <=> s.finished \/ Stops(cs))
    BY <1>1, <1>2, <2>1, Observed DEF s
  <2>3. st.finished => q.finished
    BY <1>1, <2>2 DEF s
  <2> QED BY <1>2, <2>1, <2>2, <2>3 DEF q
<1>3. CASE target # "openai"
  <2>1. r = p
    BY <1>3 DEF Plainly
  <2> HIDE DEF p
  <2> QED BY <1>1, <1>3, <2>1
<1> QED BY <1>2, <1>3

(***************************************************************************)
(* The inductive invariant of an unmasked stream.                          *)
(***************************************************************************)

SaidNames == {"text", "reasoning", "tools", "stop", "usage", "resent"}
Kinds == {"text", "reasoning", "tool"}
Phases == {"open", "stopped", "ended", "failed", "done"}

StreamTypes ==
    /\ source \in Formats /\ target \in Formats /\ phase \in Phases /\ sent \in Nat /\ held = <<>>
    /\ open = [x \in {"kind", "ix"} |-> open[x]] /\ open.kind \in Kinds \cup {None}
    /\ source = "openai" => open.kind = None
    /\ said = [x \in SaidNames |-> said[x]]
    /\ said.text \in Fragments /\ said.reasoning \in Fragments /\ said.usage \in Reported
    /\ IsState(dec)

\* What the client was told of the end is what the upstream said of it.
Told ==
    /\ said.stop = "truncated" <=> Cut(out)
    /\ said.usage # NoUsage => Reports(out, said.usage)

\* While the upstream has more to say, nothing is said of the end.
Talking ==
    /\ said.stop = None /\ ~Cut(out)
    /\ ~enc.finished /\ ~enc.emittedDelta /\ enc.stop = None

\* A client of the upstream's format, or of OpenAI's, hears of the end at once.
Announces == source = target \/ target = "openai"

Stopped ==
    /\ said.stop \in {"truncated", "end"}
    /\ source = "anthropic" => dec.stop = IF said.stop = "truncated" THEN "max_tokens" ELSE "end_turn"
    /\ Announces => /\ Told
                    /\ target = "anthropic" => enc.emittedDelta
                    /\ target # "anthropic" => enc.finished
    /\ ~Announces => /\ ~Cut(out) /\ ~enc.finished /\ ~enc.emittedDelta /\ enc.stop \in Reasons
                     /\ enc.stop \in Cutting <=> said.stop = "truncated"
                     /\ said.usage # NoUsage => enc.sawUsage /\ enc.usage = said.usage

StreamInv ==
    ~masked =>
        /\ StreamTypes
        /\ Adding(out, said.text, said.reasoning)
        /\ phase \in {"open", "stopped", "ended"} => Fresh(enc)
        /\ phase = "open" => Talking
        /\ phase \in {"stopped", "ended"} => Stopped
        /\ phase = "done" /\ said.stop # None => Told

\* The invariant implies the property.
LEMMA StreamInvMeans == StreamInv => ContentIntact
<1> SUFFICES ASSUME StreamInv PROVE ContentIntact
  OBVIOUS
<1>1. CASE masked
  BY <1>1 DEF ContentIntact, Complete
<1>2. CASE ~masked
  <2>1. ReadOf("text") = said.text /\ ReadOf("reasoning") = said.reasoning
    BY <1>2 DEF StreamInv, Adding, AddsOf, ReadOf
  <2>2. Complete => Told
    BY <1>2 DEF StreamInv, Complete
  <2>3. Told => /\ said.stop = "truncated" <=> \E i \in DOMAIN out : SaysTruncated(out[i])
                /\ said.usage # NoUsage => \E i \in DOMAIN out : SaysUsage(out[i])
    BY DEF Told, Cut, Reports, SaysUsage
  <2> QED BY <2>1, <2>2, <2>3 DEF ContentIntact
<1> QED BY <1>1, <1>2

\* A stream begins with nothing said on either side.
LEMMA StreamInvInit == StreamInit => StreamInv
<1> SUFFICES ASSUME StreamInit PROVE StreamInv
  OBVIOUS
<1>1. IsState(NewState) /\ Fresh(enc)
  <2>1. DOMAIN NewState.tools = {}
    BY DEF NewState
  <2>2. IsFiniteSet({})
    BY FS_EmptySet
  <2>3. DOMAIN NewState = StateNames /\ NewState.tools = <<>> /\ ~NewState.errored
    BY DEF NewState, StateNames
  <2>4. NewState = [x \in StateNames |-> NewState[x]]
    BY DEF NewState, StateNames
  <2>5. IsState(NewState)
    BY <2>1, <2>2, <2>4 DEF IsState
  <2>6. enc = [NewState EXCEPT !.targetModel = Served]
    BY DEF StreamInit
  <2>7. enc.tools = NewState.tools /\ ~enc.errored /\ enc = [x \in StateNames |-> enc[x]]
    BY <2>3, <2>6 DEF StateNames
  <2> QED BY <2>1, <2>2, <2>5, <2>7 DEF IsState, Fresh
<1>2. StreamTypes
  <2>1. NoUsage \in Reported
    BY DEF Reported
  <2> QED BY <1>1, <2>1, NoFragment DEF StreamInit, StreamTypes, NoBlock, SaidNames, Phases, Kinds
<1>3. Adding(out, said.text, said.reasoning) /\ ~Cut(out)
  BY AddingNone DEF StreamInit
<1>4. phase = "open" /\ said.stop = None
  BY DEF StreamInit
<1>5. ~enc.finished /\ ~enc.emittedDelta /\ enc.stop = None
  BY DEF StreamInit, NewState
<1> QED BY <1>1, <1>2, <1>3, <1>4, <1>5 DEF StreamInv, Talking

\* What the client has been sent, with a step of the encoder.
LEMMA Sent ==
    ASSUME NEW os, NEW x \in Fragments, NEW y \in Fragments, Adding(os, x, y),
           NEW es, NEW v \in Fragments, NEW w \in Fragments, Shows(es, v, w)
    PROVE  /\ Adding(os \o Stamped(es), x \o v, y \o w)
           /\ Cut(os \o Stamped(es)) <=> Cut(os) \/ CutShown(es)
           /\ \A u : Reports(os, u) \/ ReportsShown(es, u) => Reports(os \o Stamped(es), u)
           /\ IsList(os \o Stamped(es))
<1> DEFINE fs == Stamped(es)
<1>1. Adding(fs, v, w)
  BY DEF Shows
<1>2. IsList(os) /\ IsList(fs)
  BY <1>1 DEF Adding
<1>3. Cut(fs) <=> CutShown(es)
  BY DEF CutShown
<1>4. \A u : ReportsShown(es, u) <=> Reports(fs, u)
  BY DEF ReportsShown
<1> HIDE DEF fs
<1>5. Adding(os \o fs, x \o v, y \o w) /\ (Cut(os \o fs) <=> Cut(os) \/ Cut(fs))
  BY <1>1, AddingMore
<1>6. \A u : Reports(os, u) \/ Reports(fs, u) => Reports(os \o fs, u)
  BY <1>2, ReportsMore
<1>7. IsList(os \o fs)
  BY <1>2, ListConcat
<1> QED BY <1>3, <1>4, <1>5, <1>6, <1>7 DEF fs

\* An event is delivered.
LEMMA Delivered ==
    ASSUME ~masked, Fresh(enc), NEW e, Deliver(e), NEW d, d = decode_event(dec, e),
           NEW r, r = Plainly(enc, e, d.out)
    PROVE  /\ dec' = d.st /\ enc' = r.st /\ held' = held
           /\ out' = out \o Stamped(r.out) \o (IF r.st.errored THEN Closing ELSE <<>>)
           /\ source' = source /\ target' = target /\ masked' = masked
<1>1. Encode(e, d)
  BY DEF Deliver
<1>2. Restored(d.out) = {[held |-> held, chunks |-> d.out]}
  BY DEF Restored
<1>3. PICK restored \in Restored(d.out) :
          ToClient(d, restored, encode_response_stream_event(enc, ~masked, e, restored.chunks))
  BY <1>1 DEF Encode
<1>4. restored.held = held /\ restored.chunks = d.out
  BY <1>2, <1>3
<1>5. encode_response_stream_event(enc, ~masked, e, d.out) = r
  BY Passing
<1>6. ToClient(d, restored, r)
  BY <1>3, <1>4, <1>5
<1> QED BY <1>4, <1>6 DEF ToClient

(***************************************************************************)
(* Steps that say something, and the step that stops.                      *)
(***************************************************************************)

\* What a step does to what was said before it ended.
SaidOn(x, y) ==
    /\ said' = [z \in SaidNames |-> said'[z]]
    /\ said'.text = said.text \o x /\ said'.reasoning = said.reasoning \o y
    /\ said'.stop = said.stop /\ said'.usage = said.usage

BlockType ==
    /\ open' = [x \in {"kind", "ix"} |-> open'[x]] /\ open'.kind \in Kinds \cup {None}
    /\ source = "openai" => open'.kind = None

\* A part of the answer is delivered.
LEMMA TalkStep ==
    ASSUME StreamInv, ~masked, phase = "open", NEW x \in Fragments, NEW y \in Fragments,
           NEW e, Deliver(e), Heard(decode_event(dec, e), e, dec, x, y),
           SaidOn(x, y), BlockType, phase' = phase, sent' \in Nat
    PROVE  StreamInv'
<1> DEFINE d == decode_event(dec, e)
           r == Plainly(enc, e, d.out)
<1>1. /\ StreamTypes /\ Adding(out, said.text, said.reasoning) /\ Fresh(enc) /\ Talking
  BY DEF StreamInv
<1>2. target \in Formats /\ said.text \in Fragments /\ said.reasoning \in Fragments
  BY <1>1 DEF StreamTypes
<1>3. Heard(d, e, dec, x, y)
  OBVIOUS
<1>4. /\ dec' = d.st /\ enc' = r.st /\ held' = held
      /\ out' = out \o Stamped(r.out) \o (IF r.st.errored THEN Closing ELSE <<>>)
      /\ source' = source /\ target' = target /\ masked' = masked
  BY <1>1, Delivered
<1> HIDE DEF d
<1>5. /\ Fresh(r.st) /\ (r.st.finished <=> enc.finished) /\ (r.st.emittedDelta <=> enc.emittedDelta)
      /\ r.st.stop = enc.stop /\ Shows(r.out, x, y) /\ ~CutShown(r.out)
  BY <1>1, <1>2, <1>3, PassedOn
<1> HIDE DEF r
<1> DEFINE s == out \o Stamped(r.out)
<1>6. /\ Adding(s, said.text \o x, said.reasoning \o y)
      /\ Cut(s) <=> Cut(out) \/ CutShown(r.out)
      /\ IsList(s)
  BY <1>1, <1>2, <1>5, Sent
<1>7. out' = s
  <2>1. out' = s \o <<>>
    BY <1>4, <1>5 DEF Fresh
  <2> HIDE DEF s
  <2> QED BY <1>6, <2>1, NoneFirst
<1> HIDE DEF s
<1>8. StreamTypes'
  <2>1. IsState(dec')
    BY <1>3, <1>4 DEF Heard
  <2>2. said'.text \in Fragments /\ said'.reasoning \in Fragments
    BY <1>2 DEF SaidOn, Fragments
  <2> QED BY <1>1, <1>4, <2>1, <2>2 DEF StreamTypes, SaidOn, BlockType
<1>9. Adding(out', said'.text, said'.reasoning)
  BY <1>6, <1>7 DEF SaidOn
<1>10. Fresh(enc')
  BY <1>4, <1>5
<1>11. Talking'
  <2>1. ~Cut(out') /\ said'.stop = None
    BY <1>1, <1>5, <1>6, <1>7 DEF Talking, SaidOn
  <2>2. ~enc'.finished /\ ~enc'.emittedDelta /\ enc'.stop = None
    BY <1>1, <1>4, <1>5 DEF Talking
  <2> QED BY <2>1, <2>2 DEF Talking
<1>12. said'.stop = None
  BY <1>11 DEF Talking
<1> QED BY <1>8, <1>9, <1>10, <1>11, <1>12 DEF StreamInv

\* The end of the answer is delivered.
LEMMA StopStep ==
    ASSUME StreamInv, ~masked, phase = "open", NEW cut \in BOOLEAN, NEW u \in Reported,
           NEW e, Deliver(e), Final(decode_event(dec, e), e, cut, u),
           source = "anthropic" =>
                /\ decode_event(dec, e).st.stop = IF cut THEN "max_tokens" ELSE "end_turn"
                /\ e.t = "message_delta" /\ e.stop # None,
           said' = [said EXCEPT !.stop = IF cut THEN "truncated" ELSE "end", !.usage = u],
           open' = open, sent' = sent, phase' = "stopped"
    PROVE  StreamInv'
<1> DEFINE d == decode_event(dec, e)
           r == Plainly(enc, e, d.out)
<1>1. /\ StreamTypes /\ Adding(out, said.text, said.reasoning) /\ Fresh(enc) /\ Talking
  BY DEF StreamInv
<1>2. target \in Formats /\ source \in Formats /\ said.text \in Fragments /\ said.reasoning \in Fragments
  BY <1>1 DEF StreamTypes
<1>3. /\ Final(d, e, cut, u)
      /\ source = "anthropic" => d.st.stop = IF cut THEN "max_tokens" ELSE "end_turn"
  OBVIOUS
<1>4. /\ dec' = d.st /\ enc' = r.st /\ held' = held
      /\ out' = out \o Stamped(r.out) \o (IF r.st.errored THEN Closing ELSE <<>>)
      /\ source' = source /\ target' = target /\ masked' = masked
  BY <1>1, Delivered
<1> HIDE DEF d
<1>5. /\ Fresh(r.st) /\ Shows(r.out, <<>>, <<>>)
      /\ source = target \/ target = "openai" =>
                 /\ CutShown(r.out) <=> cut
                 /\ u # NoUsage => ReportsShown(r.out, u)
                 /\ target = "anthropic" => r.st.emittedDelta
                 /\ target # "anthropic" => r.st.finished
      /\ source # target /\ target # "openai" =>
                 /\ ~CutShown(r.out) /\ ~r.st.finished /\ ~r.st.emittedDelta
                 /\ r.st.stop \in Reasons /\ (r.st.stop \in Cutting <=> cut)
                 /\ u # NoUsage => r.st.sawUsage /\ r.st.usage = u
  BY <1>1, <1>2, <1>3, PassedLast DEF Talking
<1> HIDE DEF r
<1> DEFINE s == out \o Stamped(r.out)
<1>0. <<>> \in Fragments /\ said.text \o <<>> = said.text /\ said.reasoning \o <<>> = said.reasoning
  BY <1>2, NoFragment
<1>6. /\ Adding(s, said.text \o <<>>, said.reasoning \o <<>>)
      /\ Cut(s) <=> Cut(out) \/ CutShown(r.out)
      /\ \A w : Reports(out, w) \/ ReportsShown(r.out, w) => Reports(s, w)
      /\ IsList(s)
  BY <1>0, <1>1, <1>2, <1>5, Sent
<1>7. out' = s
  <2>1. out' = s \o <<>>
    BY <1>4, <1>5 DEF Fresh
  <2> HIDE DEF s
  <2> QED BY <1>6, <2>1, NoneFirst
<1> HIDE DEF s
<1>8. /\ said' = [z \in SaidNames |-> said'[z]] /\ said'.text = said.text /\ said'.reasoning = said.reasoning
      /\ said'.stop = (IF cut THEN "truncated" ELSE "end") /\ said'.usage = u
  BY <1>1 DEF StreamTypes, SaidNames
<1>9. StreamTypes'
  <2>1. IsState(dec')
    BY <1>3, <1>4 DEF Final
  <2> QED BY <1>1, <1>4, <1>8, <2>1 DEF StreamTypes, Phases
<1>10. Adding(out', said'.text, said'.reasoning)
  BY <1>0, <1>6, <1>7, <1>8
<1>11. Fresh(enc')
  BY <1>4, <1>5
<1>12. Stopped'
  <2>1. said'.stop \in {"truncated", "end"} /\ (said'.stop = "truncated" <=> cut)
    BY <1>8
  <2>2. source' = "anthropic" => dec'.stop = IF said'.stop = "truncated" THEN "max_tokens" ELSE "end_turn"
    BY <1>3, <1>4, <1>8
  <2>3. Cut(out') <=> CutShown(r.out)
    BY <1>1, <1>6, <1>7 DEF Talking
  <2>4. Announces' => /\ Told'
                      /\ target' = "anthropic" => enc'.emittedDelta
                      /\ target' # "anthropic" => enc'.finished
    <3> SUFFICES ASSUME source = target \/ target = "openai"
                 PROVE  /\ Told'
                        /\ target' = "anthropic" => enc'.emittedDelta
                        /\ target' # "anthropic" => enc'.finished
      BY <1>4 DEF Announces
    <3>1. /\ CutShown(r.out) <=> cut
          /\ u # NoUsage => ReportsShown(r.out, u)
          /\ target = "anthropic" => r.st.emittedDelta
          /\ target # "anthropic" => r.st.finished
      BY <1>5
    <3>2. said'.usage # NoUsage => Reports(out', said'.usage)
      BY <1>6, <1>7, <1>8, <3>1
    <3>3. Told'
      BY <2>1, <2>3, <3>1, <3>2 DEF Told
    <3> QED BY <1>4, <3>1, <3>3
  <2>5. ~Announces' => /\ ~Cut(out') /\ ~enc'.finished /\ ~enc'.emittedDelta /\ enc'.stop \in Reasons
                       /\ enc'.stop \in Cutting <=> said'.stop = "truncated"
                       /\ said'.usage # NoUsage => enc'.sawUsage /\ enc'.usage = said'.usage
    <3> SUFFICES ASSUME source # target /\ target # "openai"
                 PROVE  /\ ~Cut(out') /\ ~enc'.finished /\ ~enc'.emittedDelta /\ enc'.stop \in Reasons
                        /\ enc'.stop \in Cutting <=> said'.stop = "truncated"
                        /\ said'.usage # NoUsage => enc'.sawUsage /\ enc'.usage = said'.usage
      BY <1>4 DEF Announces
    <3>1. /\ ~CutShown(r.out) /\ ~r.st.finished /\ ~r.st.emittedDelta
          /\ r.st.stop \in Reasons /\ (r.st.stop \in Cutting <=> cut)
          /\ u # NoUsage => r.st.sawUsage /\ r.st.usage = u
      BY <1>5
    <3> QED BY <1>4, <1>8, <2>1, <2>3, <3>1
  <2> QED BY <2>1, <2>2, <2>4, <2>5 DEF Stopped
<1> QED BY <1>9, <1>10, <1>11, <1>12 DEF StreamInv

(***************************************************************************)
(* Steps after the reason to stop.                                         *)
(***************************************************************************)

\* An event without text arrives at the client.
LEMMA Arrives ==
    ASSUME ~masked, Fresh(enc), NEW e, Deliver(e), NEW d, d = decode_event(dec, e),
           NEW r, r = Plainly(enc, e, d.out), Fresh(r.st), Shows(r.out, <<>>, <<>>),
           NEW x \in Fragments, NEW y \in Fragments, Adding(out, x, y)
    PROVE  /\ dec' = d.st /\ enc' = r.st /\ held' = held
           /\ source' = source /\ target' = target /\ masked' = masked
           /\ Adding(out', x, y) /\ (Cut(out') <=> Cut(out) \/ CutShown(r.out))
           /\ \A u : Reports(out, u) \/ ReportsShown(r.out, u) => Reports(out', u)
<1>1. /\ dec' = d.st /\ enc' = r.st /\ held' = held
      /\ out' = out \o Stamped(r.out) \o (IF r.st.errored THEN Closing ELSE <<>>)
      /\ source' = source /\ target' = target /\ masked' = masked
  BY Delivered
<1> DEFINE s == out \o Stamped(r.out)
<1>2. <<>> \in Fragments /\ x \o <<>> = x /\ y \o <<>> = y
  BY NoFragment
<1>3. /\ Adding(s, x \o <<>>, y \o <<>>)
      /\ Cut(s) <=> Cut(out) \/ CutShown(r.out)
      /\ \A w : Reports(out, w) \/ ReportsShown(r.out, w) => Reports(s, w)
      /\ IsList(s)
  BY <1>2, Sent
<1>4. out' = s
  <2>1. out' = s \o <<>>
    BY <1>1 DEF Fresh
  <2> HIDE DEF s
  <2> QED BY <1>3, <2>1, NoneFirst
<1> HIDE DEF s
<1> QED BY <1>1, <1>2, <1>3, <1>4

\* message_stop comes after the reason.
LEMMA RepeatStep ==
    ASSUME StreamInv, ~masked, phase = "stopped", source = "anthropic",
           NEW e, e = [t |-> "message_stop"], Deliver(e),
           said' = said, open' = open, sent' = sent, phase' = "ended"
    PROVE  StreamInv'
<1> DEFINE d == decode_event(dec, e)
           r == Plainly(enc, e, d.out)
<1>1. StreamTypes /\ Adding(out, said.text, said.reasoning) /\ Fresh(enc) /\ Stopped
  BY DEF StreamInv
<1>2. target \in Formats /\ said.text \in Fragments /\ said.reasoning \in Fragments /\ IsState(dec)
  BY <1>1 DEF StreamTypes
<1>3. dec.stop \in {"max_tokens", "end_turn"}
  BY <1>1 DEF Stopped
<1>4. target = "openai" => enc.finished
  BY <1>1 DEF Stopped, Announces
<1>5. d = A!decode_anthropic_stream(dec, e)
  BY DEF decode_event
<1>6. Deliver(e) /\ e = [t |-> "message_stop"]
  OBVIOUS
<1> HIDE DEF d
<1>7. r = Plainly(enc, e, d.out)
  OBVIOUS
<1> HIDE DEF r
<1>8. /\ d.st = dec /\ Fresh(r.st) /\ Shows(r.out, <<>>, <<>>) /\ ~CutShown(r.out)
      /\ target = "anthropic" /\ enc.emittedDelta => r.st.emittedDelta
      /\ target = "openai" => r.st.finished
      /\ target = "responses" =>
            /\ (r.st.finished <=> enc.finished) /\ (r.st.emittedDelta <=> enc.emittedDelta)
            /\ (r.st.sawUsage <=> enc.sawUsage) /\ r.st.usage = enc.usage /\ r.st.stop = dec.stop
  BY <1>1, <1>2, <1>3, <1>4, <1>5, <1>6, <1>7, StopRepeated
<1>9. /\ dec' = dec /\ enc' = r.st /\ held' = held
      /\ source' = source /\ target' = target /\ masked' = masked
      /\ Adding(out', said.text, said.reasoning) /\ (Cut(out') <=> Cut(out))
      /\ \A u : Reports(out, u) => Reports(out', u)
  BY <1>1, <1>2, <1>6, <1>7, <1>8, Arrives DEF d
<1>10. StreamTypes'
  BY <1>1, <1>9 DEF StreamTypes, Phases
<1>11. Stopped'
  <2>1. Told => Told'
    BY <1>9 DEF Told
  <2>2. CASE target = "openai"
    BY <1>1, <1>8, <1>9, <2>1, <2>2 DEF Stopped, Announces
  <2>3. CASE target = "anthropic"
    BY <1>1, <1>8, <1>9, <2>1, <2>3 DEF Stopped, Announces
  <2>4. CASE target = "responses"
    <3>1. dec.stop \in Reasons /\ (dec.stop \in Cutting <=> said.stop = "truncated")
      BY <1>1 DEF Stopped, Reasons, Cutting
    <3>2. ~Announces /\ ~Announces'
      BY <1>9, <2>4 DEF Announces
    <3> QED BY <1>1, <1>8, <1>9, <2>4, <3>1, <3>2 DEF Stopped
  <2> QED BY <1>2, <2>2, <2>3, <2>4 DEF Formats
<1> QED BY <1>8, <1>9, <1>10, <1>11 DEF StreamInv

\* The usage comes in a chunk of its own.
LEMMA UsageStep ==
    ASSUME StreamInv, ~masked, phase = "stopped", source = "openai",
           NEW u \in Reported, u # NoUsage, NEW e, e = [Chunk EXCEPT !.usage = u], Deliver(e),
           said' = [said EXCEPT !.usage = u], open' = open, sent' = sent, phase' = "ended"
    PROVE  StreamInv'
<1> DEFINE d == decode_event(dec, e)
           r == Plainly(enc, e, d.out)
<1>1. StreamTypes /\ Adding(out, said.text, said.reasoning) /\ Fresh(enc) /\ Stopped
  BY DEF StreamInv
<1>2. target \in Formats /\ said.text \in Fragments /\ said.reasoning \in Fragments /\ IsState(dec)
  BY <1>1 DEF StreamTypes
<1>3. d = O!decode_openai_chat_stream(dec, e)
  BY DEF decode_event
<1>4. Deliver(e) /\ e = [Chunk EXCEPT !.usage = u]
  OBVIOUS
<1> HIDE DEF d
<1>5. r = Plainly(enc, e, d.out)
  OBVIOUS
<1> HIDE DEF r
<1>6. /\ IsState(d.st) /\ Counts(d.out, u)
      /\ Shows(<<e>>, <<>>, <<>>) /\ ~CutShown(<<e>>) /\ ReportsShown(<<e>>, u)
  <2>1. \A e0, r0 : e0 = [Chunk EXCEPT !.usage = u] /\ r0 = O!decode_openai_chat_stream(dec, e0) /\ u # NoUsage
              => /\ IsState(r0.st) /\ Counts(r0.out, u)
                 /\ Shows(<<e0>>, <<>>, <<>>) /\ ~CutShown(<<e0>>) /\ ReportsShown(<<e0>>, u)
    BY <1>2, OpenAiFinal
  <2> QED BY <1>3, <1>4, <2>1
<1>7. /\ Fresh(r.st) /\ Shows(r.out, <<>>, <<>>) /\ ~CutShown(r.out)
      /\ target = "openai" => ReportsShown(r.out, u) /\ (enc.finished => r.st.finished)
      /\ target # "openai" => /\ (r.st.finished <=> enc.finished) /\ (r.st.emittedDelta <=> enc.emittedDelta)
                              /\ r.st.sawUsage /\ r.st.usage = u /\ r.st.stop = enc.stop
  BY <1>1, <1>2, <1>5, <1>6, UsagePassed
<1>8. /\ dec' = d.st /\ enc' = r.st /\ held' = held
      /\ source' = source /\ target' = target /\ masked' = masked
      /\ Adding(out', said.text, said.reasoning) /\ (Cut(out') <=> Cut(out))
      /\ \A w : Reports(out, w) \/ ReportsShown(r.out, w) => Reports(out', w)
  BY <1>1, <1>2, <1>4, <1>5, <1>7, Arrives DEF d
<1>9. /\ said' = [z \in SaidNames |-> said'[z]] /\ said'.text = said.text /\ said'.reasoning = said.reasoning
      /\ said'.stop = said.stop /\ said'.usage = u
  BY <1>1 DEF StreamTypes, SaidNames
<1>10. StreamTypes'
  BY <1>1, <1>6, <1>8, <1>9 DEF StreamTypes, Phases
<1>11. Stopped'
  <2>1. CASE target = "openai"
    <3>1. Told'
      BY <1>1, <1>7, <1>8, <1>9, <2>1 DEF Told, Stopped, Announces
    <3> QED BY <1>1, <1>7, <1>8, <1>9, <2>1, <3>1 DEF Stopped, Announces
  <2>2. CASE target # "openai"
    BY <1>1, <1>7, <1>8, <1>9, <2>2 DEF Stopped, Announces
  <2> QED BY <2>1, <2>2
<1>12. Adding(out', said'.text, said'.reasoning)
  BY <1>8, <1>9
<1> QED BY <1>7, <1>8, <1>10, <1>11, <1>12 DEF StreamInv

(***************************************************************************)
(* Steps that fail, and the end of the stream.                             *)
(***************************************************************************)

\* An event that says nothing, behind the others.
LEMMA AddingLast ==
    ASSUME NEW os, NEW x \in Fragments, NEW y \in Fragments, Adding(os, x, y),
           NEW e, "t" \in DOMAIN e, e.t \in {"error", "malformed", "[DONE]"}
    PROVE  Adding(os \o <<e>>, x, y) /\ (Cut(os \o <<e>>) <=> Cut(os))
<1>1. Adds(e, "text") = <<>> /\ Adds(e, "reasoning") = <<>> /\ ~SaysTruncated(e)
  BY DEF Adds, SaysTruncated
<1>2. <<>> \in Fragments /\ x \o <<>> = x /\ y \o <<>> = y
  BY NoFragment
<1> DEFINE es == <<e>>
<1>3. Adding(es, <<>>, <<>>) /\ ~Cut(es)
  BY <1>1, <1>2, AddingOne
<1> HIDE DEF es
<1>4. Adding(os \o es, x \o <<>>, y \o <<>>) /\ (Cut(os \o es) <=> Cut(os) \/ Cut(es))
  BY <1>3, AddingMore
<1> QED BY <1>2, <1>3, <1>4 DEF es

\* So does the marker that closes an OpenAI client's stream.
LEMMA AddingClosing ==
    ASSUME NEW os, NEW x \in Fragments, NEW y \in Fragments, Adding(os, x, y)
    PROVE  /\ Adding(os \o Closing, x, y) /\ (Cut(os \o Closing) <=> Cut(os))
           /\ \A u : Reports(os, u) => Reports(os \o Closing, u)
<1>1. CASE target = "openai"
  <2> DEFINE e == [t |-> "[DONE]"]
  <2>1. "t" \in DOMAIN e /\ e.t = "[DONE]"
    OBVIOUS
  <2>2. Closing = <<e>>
    BY <1>1 DEF Closing
  <2> HIDE DEF e
  <2>3. IsList(os) /\ IsList(<<e>>)
    BY ListOne DEF Adding
  <2> DEFINE es == <<e>>
  <2> HIDE DEF es
  <2>4. \A u : Reports(os, u) => Reports(os \o es, u)
    BY <2>3, ReportsMore DEF es
  <2> QED BY <2>1, <2>2, <2>4, AddingLast DEF es
<1>2. CASE target # "openai"
  <2>1. Closing = <<>>
    BY <1>2 DEF Closing
  <2>2. os \o <<>> = os
    BY NoneFirst DEF Adding
  <2> QED BY <2>1, <2>2
<1> QED BY <1>1, <1>2

\* The upstream fails.
LEMMA ErrorStep ==
    ASSUME StreamInv, ~masked, NEW e, e.t \in {"error", "malformed"}, "t" \in DOMAIN e,
           e.t = "malformed" => source # "responses",
           Deliver(e), said' = said, open' = open, sent' = sent, phase' = "failed", phase = "open"
    PROVE  StreamInv'
<1> DEFINE d == decode_event(dec, e)
           r == Plainly(enc, e, d.out)
<1>1. StreamTypes /\ Adding(out, said.text, said.reasoning) /\ Fresh(enc)
  BY DEF StreamInv
<1>2. target \in Formats /\ source \in Formats /\ said.text \in Fragments /\ said.reasoning \in Fragments
  BY <1>1 DEF StreamTypes
<1>3. \E c : d.st = dec /\ d.out = <<c>> /\ c.c \in {"decode_error", "stream_error"}
  <2>1. CASE source = "openai"
    <3>1. e.t = "malformed" => d = [st |-> dec, out |-> <<O!DecodeError>>]
      BY <2>1, StepsAlike DEF decode_event, O!decode_openai_chat_stream
    <3>2. e.t = "error" => d = [st |-> dec, out |-> <<O!StreamError>>]
      BY <2>1, StepsAlike DEF decode_event, O!decode_openai_chat_stream
    <3>3. O!DecodeError.c = "decode_error" /\ O!StreamError.c = "stream_error"
      BY DEF O!DecodeError, O!StreamError
    <3> HIDE DEF d
    <3> QED BY <3>1, <3>2, <3>3
  <2>2. CASE source = "anthropic"
    BY <2>2, StepsAlike DEF decode_event, A!decode_anthropic_stream, A!DecodeError, A!StreamError
  <2>3. CASE source = "responses"
    BY <2>3, StepsAlike DEF decode_event, R!decode_responses_stream, R!StreamError
  <2> QED BY <1>2, <2>1, <2>2, <2>3 DEF Formats
<1>4. PICK c : d.st = dec /\ d.out = <<c>> /\ c.c \in {"decode_error", "stream_error"}
  BY <1>3
<1>5. /\ dec' = d.st /\ held' = held
      /\ out' = out \o Stamped(r.out) \o (IF r.st.errored THEN Closing ELSE <<>>)
      /\ source' = source /\ target' = target /\ masked' = masked
  BY <1>1, Delivered
<1> HIDE DEF d
<1>6. Shows(r.out, <<>>, <<>>)
  <2>1. CASE source = target
    <3>1. r.out = <<e>>
      BY <2>1 DEF Plainly
    <3> HIDE DEF r
    <3> QED BY <3>1, QuietEvent
  <2>2. CASE source # target
    <3> DEFINE n == encode_event(enc, c)
               p == EncodeChunks(enc, <<c>>)
    <3>1. Shows(n.out, <<>>, <<>>)
      BY <1>1, <1>2, <1>4, ErrorTaken
    <3>2. n = encode_event(enc, c)
      OBVIOUS
    <3> HIDE DEF n
    <3>3. p.out = n.out
      BY <3>1, <3>2, EncodeOne DEF Shows
    <3>4. r.out = p.out
      BY <1>4, <2>2 DEF Plainly
    <3> HIDE DEF r, p
    <3> QED BY <3>1, <3>3, <3>4
  <2> QED BY <2>1, <2>2
<1> HIDE DEF r
<1> DEFINE s == out \o Stamped(r.out)
<1>7. <<>> \in Fragments /\ said.text \o <<>> = said.text /\ said.reasoning \o <<>> = said.reasoning
  BY <1>2, NoFragment
<1>8. Adding(s, said.text \o <<>>, said.reasoning \o <<>>) /\ IsList(s)
  BY <1>1, <1>2, <1>6, <1>7, Sent
<1>9. Adding(out', said.text, said.reasoning)
  <2> HIDE DEF s
  <2>1. CASE r.st.errored
    BY <1>2, <1>5, <1>7, <1>8, <2>1, AddingClosing DEF s
  <2>2. CASE ~r.st.errored
    <3>1. s \o <<>> = s
      BY <1>8, NoneFirst
    <3>2. out' = s \o <<>>
      BY <1>5, <2>2 DEF s
    <3> QED BY <1>7, <1>8, <3>1, <3>2
  <2> QED BY <2>1, <2>2
<1>10. StreamTypes'
  BY <1>1, <1>4, <1>5 DEF StreamTypes, Phases
<1> QED BY <1>9, <1>10 DEF StreamInv

\* The connection breaks.
LEMMA BreakStep == ASSUME StreamInv, ~masked, TransportError PROVE StreamInv'
<1>1. StreamTypes /\ Adding(out, said.text, said.reasoning)
  BY DEF StreamInv
<1> DEFINE e == [t |-> "error"]
<1>2. "t" \in DOMAIN e /\ e.t = "error"
  OBVIOUS
<1>3. out' = out \o <<e>>
  <2>1. out' = Append(out, e)
    BY DEF TransportError
  <2>2. IsList(out)
    BY <1>1 DEF Adding
  <2> HIDE DEF e
  <2>3. PICK X : out \in Seq(X) /\ e \in X
    <3> DEFINE X == {out[i] : i \in DOMAIN out} \cup {e}
    <3>1. out \in Seq(X) /\ e \in X
      BY <2>2 DEF IsList
    <3> QED BY <3>1
  <2> QED BY <2>1, <2>3
<1> HIDE DEF e
<1>4. Adding(out', said.text, said.reasoning)
  BY <1>1, <1>2, <1>3, AddingLast DEF StreamTypes
<1>5. StreamTypes' /\ phase' = "failed" /\ said' = said
  BY <1>1 DEF TransportError, StreamTypes, Phases
<1> QED BY <1>4, <1>5 DEF StreamInv

\* The upstream's stream is over.
LEMMA EndStep == ASSUME StreamInv, ~masked, EndOfStream PROVE StreamInv'
<1>1. StreamTypes /\ Adding(out, said.text, said.reasoning) /\ Fresh(enc)
      /\ (phase = "open" => Talking) /\ (phase \in {"stopped", "ended"} => Stopped)
      /\ phase \in {"open", "stopped", "ended"}
  BY DEF StreamInv, EndOfStream
<1>2. target \in Formats /\ said.text \in Fragments /\ said.reasoning \in Fragments /\ held = <<>>
  BY <1>1 DEF StreamTypes
<1> DEFINE r == finish(enc)
           s == out \o Stamped(r.out)
<1>3. r = finish(enc)
  OBVIOUS
<1> HIDE DEF r
<1>4. /\ Shows(r.out, <<>>, <<>>)
      /\ enc.finished \/ (target = "anthropic" /\ enc.emittedDelta) => EndsBare(r)
      /\ target # "openai" /\ ~enc.finished /\ ~enc.emittedDelta => EndsAs(r, enc)
  BY <1>1, <1>2, <1>3, FinishTold
<1>5. out' = s \o Closing
  <2>1. out' = out \o Stamped(<<>> \o r.out) \o Closing
    BY <1>2, <1>3, StepsAlike DEF EndOfStream, AndThen, Followed
  <2>2. <<>> \o r.out = r.out
    BY <1>4, NoneFirst DEF Shows
  <2> QED BY <2>1, <2>2
<1>6. <<>> \in Fragments /\ said.text \o <<>> = said.text /\ said.reasoning \o <<>> = said.reasoning
  BY <1>2, NoFragment
<1>7. /\ Adding(s, said.text \o <<>>, said.reasoning \o <<>>)
      /\ Cut(s) <=> Cut(out) \/ CutShown(r.out)
      /\ \A u : Reports(out, u) \/ ReportsShown(r.out, u) => Reports(s, u)
  BY <1>1, <1>2, <1>4, <1>6, Sent
<1> HIDE DEF s
<1>8. /\ Adding(out', said.text, said.reasoning)
      /\ Cut(out') <=> Cut(out) \/ CutShown(r.out)
      /\ \A u : Reports(out, u) \/ ReportsShown(r.out, u) => Reports(out', u)
  BY <1>2, <1>5, <1>6, <1>7, AddingClosing
<1>9. StreamTypes' /\ phase' = "done" /\ said' = said
  BY <1>1 DEF EndOfStream, StreamTypes, Phases
<1>10. said.stop # None => Told'
  <2> SUFFICES ASSUME said.stop # None PROVE Told'
    OBVIOUS
  <2>1. Stopped
    BY <1>1 DEF Talking
  <2>2. CASE Announces
    <3>1. EndsBare(r)
      BY <1>2, <1>4, <2>1, <2>2 DEF Stopped
    <3> QED BY <1>8, <1>9, <2>1, <2>2, <3>1 DEF Stopped, Told, EndsBare
  <2>3. CASE ~Announces
    <3>1. EndsAs(r, enc)
      BY <1>4, <2>1, <2>3 DEF Stopped, Announces
    <3> QED BY <1>8, <1>9, <2>1, <2>3, <3>1 DEF Stopped, Told, EndsAs
  <2> QED BY <2>2, <2>3
<1> QED BY <1>8, <1>9, <1>10 DEF StreamInv

(***************************************************************************)
(* Actions of any upstream, and those of an OpenAI one.                    *)
(***************************************************************************)

\* Nothing is said that a client reads as text.
LEMMA SaidNothing ==
    ASSUME StreamTypes, said' = [z \in SaidNames |-> said'[z]], said'.text = said.text,
           said'.reasoning = said.reasoning, said'.stop = said.stop, said'.usage = said.usage
    PROVE  SaidOn(<<>>, <<>>)
<1>1. said.text \in Fragments /\ said.reasoning \in Fragments
  BY DEF StreamTypes
<1>2. said.text \o <<>> = said.text /\ said.reasoning \o <<>> = said.reasoning
  BY <1>1, NoFragment
<1> QED BY <1>2 DEF SaidOn

\* The fragment an upstream sends is not empty.
LEMMA FragmentType ==
    ASSUME StreamTypes PROVE Fragment \in Fragments /\ Fragment # <<>> /\ sent + 1 \in Nat
BY DEF StreamTypes, Fragment, Fragments

\* message_start and response.created say nothing.
LEMMA StartStep == ASSUME StreamInv, ~masked, Start PROVE StreamInv'
<1>1. StreamTypes /\ phase = "open" /\ source # "openai"
  BY DEF StreamInv, Start
<1>2. target \in Formats /\ IsState(dec) /\ source \in {"anthropic", "responses"}
  BY <1>1 DEF StreamTypes, Formats
<1> DEFINE e == [t |-> IF source = "anthropic" THEN "message_start" ELSE "created",
                 model |-> "upstream", usage |-> [in |-> 1, out |-> 0]]
           d == decode_event(dec, e)
<1>3. Deliver(e) /\ phase' = phase /\ open' = open /\ sent' = sent /\ said' = said
  BY DEF Start
<1>0. <<>> \in Fragments
  BY NoFragment
<1>4. Heard(d, e, dec, <<>>, <<>>)
  <2>1. CASE source = "anthropic"
    <3>1. d = A!decode_anthropic_stream(dec, e)
      BY <2>1 DEF decode_event
    <3>2. e = [t |-> "message_start", model |-> "upstream", usage |-> [in |-> 1, out |-> 0]]
      BY <2>1
    <3> HIDE DEF d, e
    <3> QED BY <1>0, <1>2, <3>1, <3>2, AnthropicHeard
  <2>2. CASE source = "responses"
    <3>1. d = R!decode_responses_stream(dec, e)
      BY <2>2 DEF decode_event
    <3>2. e = [t |-> "created", model |-> "upstream", usage |-> [in |-> 1, out |-> 0]]
      BY <2>2
    <3> HIDE DEF d, e
    <3> QED BY <1>0, <1>2, <3>1, <3>2, ResponsesHeard
  <2> QED BY <1>2, <2>1, <2>2
<1> HIDE DEF e
<1>5. SaidOn(<<>>, <<>>)
  BY <1>1, <1>3, SaidNothing DEF StreamTypes
<1>6. BlockType /\ sent' \in Nat
  BY <1>1, <1>3 DEF BlockType, StreamTypes
<1> QED BY <1>0, <1>1, <1>3, <1>4, <1>5, <1>6, TalkStep

\* A part of the answer of an OpenAI upstream.
LEMMA PartStep ==
    ASSUME StreamInv, ~masked, phase = "open", source = "openai", NEW x \in Fragments, NEW y \in Fragments,
           NEW e, Deliver(e), Heard(O!decode_openai_chat_stream(dec, e), e, dec, x, y), SaidOn(x, y),
           sent' = sent + 1, phase' = phase, open' = open
    PROVE  StreamInv'
<1>1. StreamTypes
  BY DEF StreamInv
<1>2. Heard(decode_event(dec, e), e, dec, x, y)
  BY DEF decode_event
<1>3. BlockType /\ sent' \in Nat
  BY <1>1 DEF BlockType, StreamTypes
<1> QED BY <1>2, <1>3, TalkStep

\* Text, reasoning, a tool call or its arguments, in a chunk of an OpenAI upstream.
LEMMA OpenAiStep == ASSUME StreamInv, ~masked, OpenAiSays PROVE StreamInv'
<1>1. StreamTypes /\ phase = "open" /\ source = "openai" /\ sent' = sent + 1 /\ phase' = phase /\ open' = open
  BY DEF StreamInv, OpenAiSays, Ready
<1>2. target \in Formats /\ IsState(dec) /\ said.text \in Fragments /\ said.reasoning \in Fragments
      /\ said = [z \in SaidNames |-> said[z]]
  BY <1>1 DEF StreamTypes
<1>3. Fragment \in Fragments /\ Fragment # <<>>
  BY <1>1, FragmentType
<1>4. <<>> \in Fragments /\ said.text \o <<>> = said.text /\ said.reasoning \o <<>> = said.reasoning
  BY <1>2, NoFragment
<1>5. CASE Deliver([Chunk EXCEPT !.text = Fragment]) /\ said' = SaidMore("text", 0, Fragment)
  <2> DEFINE e == [Chunk EXCEPT !.text = Fragment]
             d == O!decode_openai_chat_stream(dec, e)
  <2>1. Deliver(e) /\ e = [Chunk EXCEPT !.text = Fragment]
    BY <1>5
  <2>2. SaidOn(Fragment, <<>>)
    BY <1>2, <1>4, <1>5 DEF SaidOn, SaidMore, SaidNames
  <2> HIDE DEF e
  <2>3. d = O!decode_openai_chat_stream(dec, e)
    OBVIOUS
  <2> HIDE DEF d
  <2>4. Heard(d, e, dec, Fragment, <<>>)
    BY <1>2, <1>3, <2>1, <2>3, OpenAiHeard
  <2> QED BY <1>1, <1>3, <1>4, <2>1, <2>2, <2>4, PartStep DEF d
<1>6. CASE /\ \E details \in {<<>>, <<"detail">>} :
                 Deliver([Chunk EXCEPT !.reasoning = Fragment, !.details = details])
           /\ said' = SaidMore("reasoning", 0, Fragment)
  <2>0. PICK details : Deliver([Chunk EXCEPT !.reasoning = Fragment, !.details = details])
    BY <1>6
  <2> DEFINE e == [Chunk EXCEPT !.reasoning = Fragment, !.details = details]
             d == O!decode_openai_chat_stream(dec, e)
  <2>1. Deliver(e) /\ e = [Chunk EXCEPT !.reasoning = Fragment, !.details = details]
    BY <2>0
  <2>2. SaidOn(<<>>, Fragment)
    BY <1>2, <1>4, <1>6 DEF SaidOn, SaidMore, SaidNames
  <2> HIDE DEF e
  <2>3. d = O!decode_openai_chat_stream(dec, e)
    OBVIOUS
  <2> HIDE DEF d
  <2>4. Heard(d, e, dec, <<>>, Fragment)
    BY <1>2, <1>3, <2>1, <2>3, OpenAiHeard
  <2> QED BY <1>1, <1>3, <1>4, <2>1, <2>2, <2>4, PartStep DEF d
<1>7. ASSUME NEW tool, Deliver([Chunk EXCEPT !.tools = <<tool>>]),
             said' = [said EXCEPT !.tools = said'.tools]
      PROVE  StreamInv'
  <2> DEFINE e == [Chunk EXCEPT !.tools = <<tool>>]
             d == O!decode_openai_chat_stream(dec, e)
  <2>1. Deliver(e) /\ e = [Chunk EXCEPT !.tools = <<tool>>]
    BY <1>7
  <2>2. SaidOn(<<>>, <<>>)
    <3> DEFINE tools == said'.tools
    <3>0. said' = [said EXCEPT !.tools = tools]
      BY <1>7
    <3> HIDE DEF tools
    <3>1. /\ said' = [z \in SaidNames |-> said'[z]] /\ said'.text = said.text
          /\ said'.reasoning = said.reasoning /\ said'.stop = said.stop /\ said'.usage = said.usage
      BY <1>2, <3>0 DEF SaidNames
    <3> QED BY <1>1, <3>1, SaidNothing
  <2> HIDE DEF e
  <2>3. d = O!decode_openai_chat_stream(dec, e)
    OBVIOUS
  <2> HIDE DEF d
  <2>4. Heard(d, e, dec, <<>>, <<>>)
    BY <1>2, <1>3, <2>1, <2>3, OpenAiHeard
  <2> QED BY <1>1, <1>4, <2>1, <2>2, <2>4, PartStep DEF d
<1>8. CASE \E tool \in DOMAIN said.tools :
              /\ Deliver([Chunk EXCEPT !.tools =
                     <<[ix |-> tool - 1, id |-> None, name |-> None, args |-> Fragment]>>])
              /\ said' = SaidMore("tool", tool, Fragment)
  <2>1. PICK tool \in DOMAIN said.tools :
              /\ Deliver([Chunk EXCEPT !.tools =
                     <<[ix |-> tool - 1, id |-> None, name |-> None, args |-> Fragment]>>])
              /\ said' = SaidMore("tool", tool, Fragment)
    BY <1>8
  <2>2. said' = [said EXCEPT !.tools = said'.tools]
    BY <1>2, <2>1 DEF SaidMore, SaidNames
  <2> QED BY <1>7, <2>1, <2>2
<1>9. CASE /\ Deliver([Chunk EXCEPT !.tools =
                 <<[ix |-> Len(said.tools), id |-> "call", name |-> "fn", args |-> <<>>]>>])
           /\ said' = [said EXCEPT !.tools = Append(@, [name |-> "fn", args |-> <<>>])]
  <2>1. said' = [said EXCEPT !.tools = said'.tools]
    BY <1>2, <1>9 DEF SaidNames
  <2> QED BY <1>7, <1>9, <2>1
<1>10. \/ Deliver([Chunk EXCEPT !.text = Fragment]) /\ said' = SaidMore("text", 0, Fragment)
       \/ /\ \E details \in {<<>>, <<"detail">>} :
                Deliver([Chunk EXCEPT !.reasoning = Fragment, !.details = details])
          /\ said' = SaidMore("reasoning", 0, Fragment)
       \/ \E tool \in DOMAIN said.tools :
             /\ Deliver([Chunk EXCEPT !.tools =
                    <<[ix |-> tool - 1, id |-> None, name |-> None, args |-> Fragment]>>])
             /\ said' = SaidMore("tool", tool, Fragment)
       \/ /\ Deliver([Chunk EXCEPT !.tools =
                <<[ix |-> Len(said.tools), id |-> "call", name |-> "fn", args |-> <<>>]>>])
          /\ said' = [said EXCEPT !.tools = Append(@, [name |-> "fn", args |-> <<>>])]
  BY DEF OpenAiSays
<1> QED BY <1>5, <1>6, <1>8, <1>9, <1>10

(***************************************************************************)
(* Actions of an upstream that sends blocks or items.                      *)
(***************************************************************************)

\* A part of the answer of an upstream that sends blocks or items.
LEMMA BlockStep ==
    ASSUME StreamInv, ~masked, phase = "open", source \in {"anthropic", "responses"},
           NEW x \in Fragments, NEW y \in Fragments, NEW e, Deliver(e),
           source = "anthropic" => Heard(A!decode_anthropic_stream(dec, e), e, dec, x, y),
           source = "responses" => Heard(R!decode_responses_stream(dec, e), e, dec, x, y),
           SaidOn(x, y), sent' \in Nat, phase' = phase, BlockType
    PROVE  StreamInv'
<1>1. CASE source = "anthropic"
  <2>1. Heard(decode_event(dec, e), e, dec, x, y)
    BY <1>1 DEF decode_event
  <2> QED BY <2>1, TalkStep
<1>2. CASE source = "responses"
  <2>1. Heard(decode_event(dec, e), e, dec, x, y)
    BY <1>2 DEF decode_event
  <2> QED BY <2>1, TalkStep
<1> QED BY <1>1, <1>2

\* The kinds of block in the words of each format, told apart.
LEMMA Words ==
    ASSUME NEW kind \in Kinds
    PROVE  /\ source = "anthropic" => /\ Word(kind) \in {"text", "thinking", "tool_use"}
                                      /\ Word(kind) = "text" <=> kind = "text"
                                      /\ Word(kind) = "thinking" <=> kind = "reasoning"
           /\ source = "responses" => /\ Word(kind) \in {"message", "reasoning", "function_call"}
                                      /\ Word(kind) = "message" <=> kind = "text"
                                      /\ Word(kind) = "reasoning" <=> kind = "reasoning"
BY DEF Word, Kinds

\* A block or item is opened: no text yet.
LEMMA OpenStep ==
    ASSUME StreamInv, ~masked, NEW kind \in Kinds, OpenBlock(kind) PROVE StreamInv'
<1>1. StreamTypes /\ phase = "open" /\ source # "openai" /\ sent' = sent + 1 /\ phase' = phase
      /\ open' = [kind |-> kind, ix |-> open.ix + 1]
  BY DEF StreamInv, OpenBlock, Ready
<1>2. target \in Formats /\ IsState(dec) /\ source \in {"anthropic", "responses"} /\ sent' \in Nat
      /\ said = [z \in SaidNames |-> said[z]]
  BY <1>1 DEF StreamTypes, Formats
<1>3. PICK ix, id, name : Deliver(IF source = "anthropic" THEN A!BlockStart(ix, Word(kind), id, name)
                                  ELSE R!ItemAdded(ix, Word(kind), id, name, <<>>))
  BY Zenon DEF OpenBlock
<1> DEFINE e == IF source = "anthropic" THEN A!BlockStart(ix, Word(kind), id, name)
                ELSE R!ItemAdded(ix, Word(kind), id, name, <<>>)
<1>4. Deliver(e)
  BY <1>3
<1>5. <<>> \in Fragments
  BY NoFragment
<1>6. SaidOn(<<>>, <<>>)
  <2>1. said' = [z \in SaidNames |-> said'[z]] /\ said'.text = said.text
        /\ said'.reasoning = said.reasoning /\ said'.stop = said.stop /\ said'.usage = said.usage
    BY <1>2 DEF OpenBlock, SaidNames
  <2> QED BY <1>1, <2>1, SaidNothing
<1>7. BlockType
  BY <1>1 DEF BlockType
<1>8. source = "anthropic" => e = A!BlockStart(ix, Word(kind), id, name)
  OBVIOUS
<1>9. source = "responses" => e = R!ItemAdded(ix, Word(kind), id, name, <<>>)
  OBVIOUS
<1> HIDE DEF e
<1>10. source = "anthropic" => Heard(A!decode_anthropic_stream(dec, e), e, dec, <<>>, <<>>)
  <2> SUFFICES ASSUME source = "anthropic" PROVE Heard(A!decode_anthropic_stream(dec, e), e, dec, <<>>, <<>>)
    OBVIOUS
  <2> DEFINE w == Word(kind)
             d == A!decode_anthropic_stream(dec, e)
  <2>1. w \in {"text", "thinking", "tool_use"} /\ e = A!BlockStart(ix, w, id, name) /\ d = A!decode_anthropic_stream(dec, e)
    BY <1>8, Words
  <2> HIDE DEF w, d
  <2> QED BY <1>2, <1>5, <2>1, AnthropicHeard DEF d
<1>11. source = "responses" => Heard(R!decode_responses_stream(dec, e), e, dec, <<>>, <<>>)
  <2> SUFFICES ASSUME source = "responses" PROVE Heard(R!decode_responses_stream(dec, e), e, dec, <<>>, <<>>)
    OBVIOUS
  <2> DEFINE w == Word(kind)
             d == R!decode_responses_stream(dec, e)
  <2>1. e = R!ItemAdded(ix, w, id, name, <<>>) /\ d = R!decode_responses_stream(dec, e)
    BY <1>9
  <2> HIDE DEF w, d
  <2> QED BY <1>2, <1>5, <2>1, ResponsesHeard DEF d
<1> QED BY <1>1, <1>2, <1>4, <1>5, <1>6, <1>7, <1>10, <1>11, BlockStep

\* A delta of the open block or item.
LEMMA MoreStep ==
    ASSUME StreamInv, ~masked, SayMore PROVE StreamInv'
<1>1. StreamTypes /\ phase = "open" /\ sent' = sent + 1 /\ phase' = phase /\ open' = open
      /\ open.kind # None /\ said' = SaidMore(open.kind, Len(said.tools), Fragment)
  BY DEF StreamInv, SayMore, Ready
<1>2. target \in Formats /\ IsState(dec) /\ sent' \in Nat /\ source \in {"anthropic", "responses"} /\ open.kind \in Kinds
      /\ said = [z \in SaidNames |-> said[z]] /\ said.text \in Fragments /\ said.reasoning \in Fragments
  BY <1>1 DEF StreamTypes, Formats
<1> DEFINE e == IF source = "anthropic" THEN A!BlockDelta(open.ix, Word(open.kind), Fragment)
                ELSE R!Delta(open.ix, Word(open.kind), Fragment)
           x == IF open.kind = "text" THEN Fragment ELSE <<>>
           y == IF open.kind = "reasoning" THEN Fragment ELSE <<>>
<1>3. Deliver(e)
  BY DEF SayMore
<1>4. Fragment \in Fragments /\ <<>> \in Fragments
  BY <1>1, FragmentType, NoFragment
<1>5. x \in Fragments /\ y \in Fragments
  BY <1>4
<1>6. SaidOn(x, y)
  <2>1. said.text \o <<>> = said.text /\ said.reasoning \o <<>> = said.reasoning
    BY <1>2, NoFragment
  <2>2. CASE open.kind = "text"
    BY <1>1, <1>2, <2>1, <2>2 DEF SaidMore, SaidOn, SaidNames
  <2>3. CASE open.kind = "reasoning"
    BY <1>1, <1>2, <2>1, <2>3 DEF SaidMore, SaidOn, SaidNames
  <2>4. CASE open.kind = "tool"
    <3>1. said' = [said EXCEPT !.tools = said'.tools]
      BY <1>1, <1>2, <2>4 DEF SaidMore, SaidNames
    <3> DEFINE tools == said'.tools
    <3>2. said' = [said EXCEPT !.tools = tools]
      BY <3>1
    <3> HIDE DEF tools
    <3> QED BY <1>2, <2>1, <2>4, <3>2 DEF SaidOn, SaidNames
  <2> QED BY <1>2, <2>2, <2>3, <2>4 DEF Kinds
<1>7. BlockType
  BY <1>1 DEF BlockType, StreamTypes
<1>8. source = "anthropic" => e = A!BlockDelta(open.ix, Word(open.kind), Fragment)
  OBVIOUS
<1>9. source = "responses" => e = R!Delta(open.ix, Word(open.kind), Fragment)
  OBVIOUS
<1> HIDE DEF e
<1>10. source = "anthropic" => Heard(A!decode_anthropic_stream(dec, e), e, dec, x, y)
  <2> SUFFICES ASSUME source = "anthropic" PROVE Heard(A!decode_anthropic_stream(dec, e), e, dec, x, y)
    OBVIOUS
  <2> DEFINE w == Word(open.kind)
             d == A!decode_anthropic_stream(dec, e)
  <2>1. /\ w \in {"text", "thinking", "tool_use"} /\ e = A!BlockDelta(open.ix, w, Fragment)
        /\ d = A!decode_anthropic_stream(dec, e)
        /\ w = "text" <=> open.kind = "text"
        /\ w = "thinking" <=> open.kind = "reasoning"
    BY <1>2, <1>8, Words
  <2> HIDE DEF w, d
  <2>2. Heard(d, e, dec, IF w = "text" THEN Fragment ELSE <<>>, IF w = "thinking" THEN Fragment ELSE <<>>)
    BY <1>2, <1>4, <2>1, AnthropicHeard
  <2>3. (IF w = "text" THEN Fragment ELSE <<>>) = x /\ (IF w = "thinking" THEN Fragment ELSE <<>>) = y
    BY <2>1
  <2> HIDE DEF x, y
  <2> QED BY <2>2, <2>3 DEF d
<1>11. source = "responses" => Heard(R!decode_responses_stream(dec, e), e, dec, x, y)
  <2> SUFFICES ASSUME source = "responses" PROVE Heard(R!decode_responses_stream(dec, e), e, dec, x, y)
    OBVIOUS
  <2> DEFINE w == Word(open.kind)
             d == R!decode_responses_stream(dec, e)
  <2>1. /\ w \in {"message", "reasoning", "function_call"} /\ e = R!Delta(open.ix, w, Fragment)
        /\ d = R!decode_responses_stream(dec, e)
        /\ w = "message" <=> open.kind = "text"
        /\ w = "reasoning" <=> open.kind = "reasoning"
    BY <1>2, <1>9, Words
  <2> HIDE DEF w, d
  <2>2. Heard(d, e, dec, IF w = "message" THEN Fragment ELSE <<>>, IF w = "reasoning" THEN Fragment ELSE <<>>)
    BY <1>2, <1>4, <2>1, ResponsesHeard
  <2>3. (IF w = "message" THEN Fragment ELSE <<>>) = x /\ (IF w = "reasoning" THEN Fragment ELSE <<>>) = y
    BY <2>1
  <2> HIDE DEF x, y
  <2> QED BY <2>2, <2>3 DEF d
<1> HIDE DEF x, y
<1> QED BY <1>1, <1>2, <1>3, <1>5, <1>6, <1>7, <1>10, <1>11, BlockStep

(***************************************************************************)
(* Every action keeps the invariant, so no word of a stream is lost.       *)
(***************************************************************************)

\* A block or item is closed: its text was in the deltas.
LEMMA CloseStep ==
    ASSUME StreamInv, ~masked, CloseBlock PROVE StreamInv'
<1>1. StreamTypes /\ phase = "open" /\ sent' = sent /\ phase' = phase
      /\ open' = [open EXCEPT !.kind = None] /\ open.kind # None
  BY DEF StreamInv, CloseBlock, Ready
<1>2. target \in Formats /\ IsState(dec) /\ sent' \in Nat /\ source \in {"anthropic", "responses"}
      /\ said = [z \in SaidNames |-> said[z]] /\ open = [x \in {"kind", "ix"} |-> open[x]]
  BY <1>1 DEF StreamTypes, Formats
<1>3. PICK full : Deliver(IF source = "anthropic" THEN A!BlockStop(open.ix)
                          ELSE R!ItemDone(open.ix, Word(open.kind), full))
  BY Zenon DEF CloseBlock
<1>4. PICK tools, resent : said' = [said EXCEPT !.tools = tools, !.resent = resent]
  BY Zenon DEF CloseBlock
<1> DEFINE e == IF source = "anthropic" THEN A!BlockStop(open.ix)
                ELSE R!ItemDone(open.ix, Word(open.kind), full)
<1>5. Deliver(e)
  BY <1>3
<1>6. <<>> \in Fragments
  BY NoFragment
<1>7. SaidOn(<<>>, <<>>)
  <2>1. said' = [z \in SaidNames |-> said'[z]] /\ said'.text = said.text
        /\ said'.reasoning = said.reasoning /\ said'.stop = said.stop /\ said'.usage = said.usage
    BY <1>2, <1>4 DEF SaidNames
  <2> QED BY <1>1, <2>1, SaidNothing
<1>8. BlockType
  BY <1>1, <1>2 DEF BlockType
<1>9. source = "anthropic" => e = A!BlockStop(open.ix)
  OBVIOUS
<1>10. source = "responses" => e = R!ItemDone(open.ix, Word(open.kind), full)
  OBVIOUS
<1> HIDE DEF e
<1>11. source = "anthropic" => Heard(A!decode_anthropic_stream(dec, e), e, dec, <<>>, <<>>)
  <2> SUFFICES ASSUME source = "anthropic" PROVE Heard(A!decode_anthropic_stream(dec, e), e, dec, <<>>, <<>>)
    OBVIOUS
  <2> DEFINE d == A!decode_anthropic_stream(dec, e)
  <2>1. e = A!BlockStop(open.ix) /\ d = A!decode_anthropic_stream(dec, e)
    BY <1>9
  <2> HIDE DEF d
  <2> QED BY <1>2, <1>6, <2>1, AnthropicHeard DEF d
<1>12. source = "responses" => Heard(R!decode_responses_stream(dec, e), e, dec, <<>>, <<>>)
  <2> SUFFICES ASSUME source = "responses" PROVE Heard(R!decode_responses_stream(dec, e), e, dec, <<>>, <<>>)
    OBVIOUS
  <2> DEFINE w == Word(open.kind)
             d == R!decode_responses_stream(dec, e)
  <2>1. e = R!ItemDone(open.ix, w, full) /\ d = R!decode_responses_stream(dec, e)
    BY <1>10
  <2> HIDE DEF w, d
  <2> QED BY <1>2, <1>6, <2>1, ResponsesHeard DEF d
<1> QED BY <1>1, <1>2, <1>5, <1>6, <1>7, <1>8, <1>11, <1>12, BlockStep

\* The event with the reason to stop, in each format.
LEMMA EndingStep ==
    ASSUME StreamInv, ~masked, NEW truncated \in BOOLEAN, NEW usage \in Reported, Stop(truncated, usage)
    PROVE  StreamInv'
<1>1. StreamTypes /\ phase = "open" /\ sent' = sent /\ phase' = "stopped" /\ open' = open
      /\ said' = [said EXCEPT !.stop = IF truncated THEN "truncated" ELSE "end",
                              !.usage = IF source = "responses" /\ truncated THEN NoUsage ELSE usage]
  BY DEF StreamInv, Stop, Ready
<1>2. target \in Formats /\ IsState(dec) /\ source \in Formats
  BY <1>1 DEF StreamTypes
<1>3. CASE source = "openai"
  <2> DEFINE stop == IF truncated THEN "length" ELSE "stop"
             e == [Chunk EXCEPT !.finish = stop, !.usage = usage]
             d == decode_event(dec, e)
  <2>1. Deliver(e)
    BY <1>3 DEF Stop
  <2>2. stop \in {"length", "stop"} /\ (stop = "length" <=> truncated)
    OBVIOUS
  <2>3. d = O!decode_openai_chat_stream(dec, e)
    BY <1>3 DEF decode_event
  <2> HIDE DEF stop
  <2>4. e = [Chunk EXCEPT !.finish = stop, !.usage = usage]
    OBVIOUS
  <2> HIDE DEF e, d
  <2>5. Final(d, e, stop = "length", usage)
    BY <1>2, <2>2, <2>3, <2>4, OpenAiFinal
  <2>6. Final(d, e, truncated, usage)
    BY <2>2, <2>5 DEF Final
  <2>7. said' = [said EXCEPT !.stop = IF truncated THEN "truncated" ELSE "end", !.usage = usage]
    BY <1>1, <1>3
  <2> QED BY <1>1, <1>3, <2>1, <2>6, <2>7, StopStep DEF d
<1>4. CASE source = "anthropic"
  <2> DEFINE stop == IF truncated THEN "max_tokens" ELSE "end_turn"
             e == A!MessageDelta(stop, usage)
             d == decode_event(dec, e)
  <2>1. Deliver(e)
    BY <1>4 DEF Stop
  <2>2. stop \in {"max_tokens", "end_turn"} /\ (stop = "max_tokens" <=> truncated)
    OBVIOUS
  <2>3. d = A!decode_anthropic_stream(dec, e)
    BY <1>4 DEF decode_event
  <2>8. stop = IF truncated THEN "max_tokens" ELSE "end_turn"
    OBVIOUS
  <2> HIDE DEF stop
  <2>4. e = A!MessageDelta(stop, usage)
    OBVIOUS
  <2> HIDE DEF e, d
  <2>5. /\ Final(d, e, stop = "max_tokens", usage)
        /\ d.st.stop = stop /\ e.t = "message_delta" /\ e.stop # None
    BY <1>2, <2>2, <2>3, <2>4, AnthropicFinal
  <2>6. Final(d, e, truncated, usage)
    BY <2>2, <2>5 DEF Final
  <2>7. said' = [said EXCEPT !.stop = IF truncated THEN "truncated" ELSE "end", !.usage = usage]
    BY <1>1, <1>4
  <2>9. d.st.stop = IF truncated THEN "max_tokens" ELSE "end_turn"
    BY <2>5, <2>8
  <2> QED BY <1>1, <1>4, <2>1, <2>5, <2>6, <2>7, <2>9, StopStep DEF d
<1>5. CASE source = "responses"
  <2> DEFINE stop == IF truncated THEN "incomplete" ELSE "completed"
             e == [t |-> stop, model |-> "upstream", output |-> <<>>, usage |-> usage]
             d == decode_event(dec, e)
             u == IF truncated THEN NoUsage ELSE usage
  <2>1. Deliver(e)
    BY <1>5 DEF Stop
  <2>2. stop \in {"incomplete", "completed"} /\ (stop = "incomplete" <=> truncated)
    OBVIOUS
  <2>3. d = R!decode_responses_stream(dec, e)
    BY <1>5 DEF decode_event
  <2> HIDE DEF stop
  <2>4. e = [t |-> stop, model |-> "upstream", output |-> <<>>, usage |-> usage]
    OBVIOUS
  <2> HIDE DEF e, d
  <2>5. Final(d, e, stop = "incomplete", IF stop = "incomplete" THEN NoUsage ELSE usage)
    BY <1>2, <2>2, <2>3, <2>4, ResponsesFinal
  <2>6. Final(d, e, truncated, u)
    <3>1. (IF stop = "incomplete" THEN NoUsage ELSE usage) = u
      BY <2>2
    <3> HIDE DEF u
    <3>2. Final(d, e, stop = "incomplete", u)
      BY <2>5, <3>1
    <3> QED BY <2>2, <3>2 DEF Final
  <2>7. said' = [said EXCEPT !.stop = IF truncated THEN "truncated" ELSE "end", !.usage = u]
    BY <1>1, <1>5
  <2>8. u \in Reported
    BY DEF Reported
  <2> HIDE DEF u
  <2> QED BY <1>1, <1>5, <2>1, <2>6, <2>7, <2>8, StopStep DEF d
<1> QED BY <1>2, <1>3, <1>4, <1>5 DEF Formats

\* What follows the reason to stop.
LEMMA AfterStep == ASSUME StreamInv, ~masked, AfterStop PROVE StreamInv'
<1>1. phase = "stopped" /\ phase' = "ended" /\ open' = open /\ sent' = sent
  BY DEF AfterStop
<1>2. CASE source = "anthropic" /\ Deliver([t |-> "message_stop"]) /\ UNCHANGED said
  <2> DEFINE e == [t |-> "message_stop"]
  <2>1. Deliver(e) /\ e = [t |-> "message_stop"]
    BY <1>2
  <2> HIDE DEF e
  <2> QED BY <1>1, <1>2, <2>1, RepeatStep
<1>3. CASE /\ source = "openai" /\ Deliver([Chunk EXCEPT !.usage = [in |-> 1, out |-> 2]])
           /\ said' = [said EXCEPT !.usage = [in |-> 1, out |-> 2]]
  <2> DEFINE u == [in |-> 1, out |-> 2]
             e == [Chunk EXCEPT !.usage = u]
  <2>1. u \in Reported /\ u # NoUsage
    BY DEF Reported, NoUsage
  <2>2. Deliver(e) /\ said' = [said EXCEPT !.usage = u]
    BY <1>3
  <2> HIDE DEF u
  <2>3. e = [Chunk EXCEPT !.usage = u]
    OBVIOUS
  <2> HIDE DEF e
  <2> QED BY <1>1, <1>3, <2>1, <2>2, <2>3, UsageStep
<1> QED BY <1>2, <1>3 DEF AfterStop

\* An error event, or a frame that is no event.
LEMMA FailStep == ASSUME StreamInv, ~masked, ErrorEvent PROVE StreamInv'
<1>1. PICK t \in {"error"} \cup (IF source = "responses" THEN {} ELSE {"malformed"}) : Deliver([t |-> t])
  BY DEF ErrorEvent
<1>2. phase = "open" /\ phase' = "failed" /\ open' = open /\ sent' = sent /\ said' = said
  BY DEF ErrorEvent, Ready
<1> DEFINE e == [t |-> t]
<1>3. /\ e.t \in {"error", "malformed"} /\ "t" \in DOMAIN e /\ Deliver(e)
      /\ e.t = "malformed" => source # "responses"
  BY <1>1
<1> HIDE DEF e
<1> QED BY <1>2, <1>3, ErrorStep

\* A masked stream stays masked: what this invariant says is of the others.
LEMMA StaysMasked == ASSUME StreamNext PROVE masked' = masked
<1>1. \A e : Deliver(e) => masked' = masked
  BY DEF Deliver, Encode, ToClient
<1>2. \A kind : OpenBlock(kind) => masked' = masked
  BY <1>1, Zenon DEF OpenBlock
<1>3. \A truncated, usage : Stop(truncated, usage) => masked' = masked
  BY <1>1, Zenon DEF Stop
<1>4. Start \/ SayMore \/ CloseBlock => masked' = masked
  BY <1>1, Zenon DEF Start, SayMore, CloseBlock
<1>5. OpenAiSays => masked' = masked
  BY <1>1, Zenon DEF OpenAiSays
<1>6. AfterStop \/ ErrorEvent => masked' = masked
  BY <1>1, Zenon DEF AfterStop, ErrorEvent
<1>7. TransportError \/ EndOfStream => masked' = masked
  BY DEF TransportError, EndOfStream
<1> QED BY <1>2, <1>3, <1>4, <1>5, <1>6, <1>7 DEF StreamNext

\* Every action keeps the invariant.
LEMMA StreamStep == StreamInv /\ [StreamNext]_streamVars => StreamInv'
<1> SUFFICES ASSUME StreamInv, [StreamNext]_streamVars PROVE StreamInv'
  OBVIOUS
<1>1. CASE UNCHANGED streamVars
  BY <1>1 DEF StreamInv, StreamTypes, Adding, AddsOf, Cut, Talking, Stopped, Announces, Told, Reports, streamVars
<1>2. CASE StreamNext /\ masked
  BY <1>2, StaysMasked DEF StreamInv
<1>3. CASE StreamNext /\ ~masked
  <2>1. ASSUME NEW kind \in {"text", "reasoning", "tool"}, OpenBlock(kind) PROVE StreamInv'
    BY <1>3, <2>1, OpenStep DEF Kinds
  <2>2. ASSUME NEW truncated \in BOOLEAN, NEW usage \in Reported, Stop(truncated, usage) PROVE StreamInv'
    BY <1>3, <2>2, EndingStep
  <2> QED BY <1>3, <2>1, <2>2, StartStep, OpenAiStep, MoreStep, CloseStep, AfterStep, FailStep,
             BreakStep, EndStep DEF StreamNext
<1> QED BY <1>1, <1>2, <1>3

\* In every format, for streams of any length: the text and the reasoning of an unmasked
\* stream reach the client as the upstream sent them, and so do its end and its usage.
THEOREM NoWordIsLost == StreamSpec => []ContentIntact
<1>1. StreamSpec => []StreamInv
  BY StreamInvInit, StreamStep, PTL DEF StreamSpec
<1> QED BY <1>1, StreamInvMeans, PTL

=============================================================================
