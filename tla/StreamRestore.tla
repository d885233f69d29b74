---------------------------- MODULE StreamRestore ----------------------------
(***************************************************************************)
(* One streamed response on its way back through StreamRestorer            *)
(* (restore.rs, and the stream restore_response wraps in engine.rs).  The  *)
(* upstream cuts its text into fragments wherever it likes; the restorer   *)
(* puts secrets back and holds the end of a fragment that may be the start *)
(* of a placeholder.  One restorer serves every channel of the response:   *)
(* text, reasoning, the arguments of each tool call.                       *)
(***************************************************************************)
EXTENDS Placeholders

CONSTANTS
  Channel,       \* the channels the response uses
  TextChannel,   \* the one a TextDelta of index 0 goes to
  Texts,         \* texts an upstream may send on a channel
  map,           \* the restore map: placeholder -> secret, both texts
  MaxFragment    \* bound: the longest fragment

ASSUME ChannelAssumption == TextChannel \in Channel

VARIABLES
  text,      \* what the upstream is going to send on each channel
  pos,       \* how much of it it has sent
  leftover,  \* StreamRestorer.leftover
  got,       \* what the client was sent on each channel
  status     \* "open", "stopped" (MessageStop passed), "ended", "failed"

restoreVars == <<text, pos, leftover, got, status>>

-----------------------------------------------------------------------------
(* restore_text: replace_all over PATTERN with the map. *)

\* The ends of the placeholders that start at i.
EndsAt(t, i) == {j \in i .. Len(t) : IsPlaceholder(SubSeq(t, i, j))}

restore_text(t) ==
  LET from[i \in 1 .. Len(t) + 1] ==
        IF i > Len(t) THEN <<>>
        ELSE IF EndsAt(t, i) = {} THEN <<t[i]>> \o from[i + 1]
        ELSE LET j == Max(EndsAt(t, i))
                 p == SubSeq(t, i, j)
             IN (IF p \in DOMAIN map THEN map[p] ELSE p) \o from[j + 1]
  IN from[1]

sentOn(c) == SubSeq(text[c], 1, pos[c])

-----------------------------------------------------------------------------
(* The stream. *)

RestoreInit ==
  /\ text \in [Channel -> Texts]
  /\ pos = [c \in Channel |-> 0]
  /\ leftover = <<>>
  /\ got = [c \in Channel |-> <<>>]
  /\ status = "open"

\* Mutant of push: the fragment is restored without what was held.
push_Alone(fragment) ==
  LET restored == restore_text(fragment)
      split == Len(restored) - partial_suffix_len(restored)
  IN [ready |-> SubSeq(restored, 1, split),
      leftover |-> SubSeq(restored, split + 1, Len(restored))]

\* StreamRestorer::push: what may go out, and what is kept.
push(fragment) ==
  LET restored == restore_text(leftover \o fragment)
      split == Len(restored) - partial_suffix_len(restored)
  IN [ready |-> SubSeq(restored, 1, split),
      leftover |-> SubSeq(restored, split + 1, Len(restored))]

\* A delta of channel c with the next n symbols.
Delta(c, n) ==
  /\ status = "open"
  /\ pos[c] + n <= Len(text[c])
  /\ LET pushed == push(SubSeq(text[c], pos[c] + 1, pos[c] + n)) IN
       /\ got' = [got EXCEPT ![c] = @ \o pushed.ready]
       /\ leftover' = pushed.leftover
  /\ pos' = [pos EXCEPT ![c] = @ + n]
  /\ UNCHANGED <<text, status>>

\* MessageStop, like every chunk without text, passes through.
StopPasses ==
  /\ status = "open"
  /\ status' = "stopped"
  /\ UNCHANGED <<text, pos, leftover, got>>

\* Mutant of End: the leftover is not flushed.
End_NoFlush ==
  /\ status \in {"open", "stopped"}
  /\ status' = "ended"
  /\ UNCHANGED <<text, pos, leftover, got>>

\* The upstream stream ends: finish, and a last TextDelta if it is not empty.
End ==
  /\ status \in {"open", "stopped"}
  /\ got' = [got EXCEPT ![TextChannel] = @ \o restore_text(leftover)]
  /\ leftover' = <<>>
  /\ status' = "ended"
  /\ UNCHANGED <<text, pos>>

\* An error item: it is passed on and nothing follows it.
Fail ==
  /\ status \in {"open", "stopped"}
  /\ status' = "failed"
  /\ UNCHANGED <<text, pos, leftover, got>>

RestoreNext ==
  \/ \E c \in Channel, n \in 1 .. MaxFragment : Delta(c, n)
  \/ StopPasses \/ End \/ Fail

RestoreSpec == RestoreInit /\ [][RestoreNext]_restoreVars

-----------------------------------------------------------------------------
(* Properties. *)

\* Cutting a response into fragments does not show: once the stream has ended,
\* each channel reads exactly as the buffered response would (restore_agg), for
\* placeholders that fit the window partial_suffix_len holds back.
StreamedAsBuffered ==
  status = "ended" => \A c \in Channel : got[c] = restore_text(sentOn(c))

\* The restorer holds back, and an upstream error loses, at most one window's
\* worth of text, and that is all: sent and held are together the restored text.
OnlyLeftoverWithheld ==
  status # "ended" =>
    \A c \in Channel : got[c] \o leftover = restore_text(sentOn(c))

-----------------------------------------------------------------------------
(* What the documentation says, and the code does not do. *)

\* appliance/README.md:44: placeholders are substituted "including when a stream
\* splits a placeholder across chunks".
SplitRestored ==
  status = "ended" =>
    \A c \in Channel : \A p \in DOMAIN map :
      \A i, j \in 1 .. pos[c] :
        i <= j /\ SubSeq(text[c], i, j) = p =>
          \E k, l \in DOMAIN got[c] : SubSeq(got[c], k, l) = map[p]

=============================================================================
