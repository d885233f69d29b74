---------------------------- MODULE Placeholders ----------------------------
(***************************************************************************)
(* The text of placeholders (placeholders.rs): how a kind becomes a slug,  *)
(* what a placeholder looks like, which text the restore pattern matches,  *)
(* and which end of a text might still grow into a placeholder.            *)
(*                                                                         *)
(* A text is a sequence of symbols: "_", "MC", the letters of Letter, the  *)
(* digests of Digest (twelve hex digits as one symbol, which the pattern's *)
(* letter class matches too), and anything else, which the pattern never   *)
(* matches.                                                                *)
(***************************************************************************)
EXTENDS Integers, SequencesExt

CONSTANTS
  Letter,    \* stands for [a-z0-9]
  Digest,    \* the digests that occur
  Window     \* the longest end of a text that is held back

ASSUME LetterAssumption == Letter # {} /\ "_" \notin Letter \cup Digest

Alnum == Letter \cup Digest
PREFIX == <<"_", "_", "MC", "_">>
SUFFIX == <<"_", "_">>
data == <<CHOOSE a \in Letter : TRUE>>   \* sanitize_kind's slug for no slug

\* Mutant of sanitize_kind: separators are escaped, not collapsed.
sanitize_kind_Escape(kind) ==
  LET step(out, c) == IF c \in Alnum THEN Append(out, c) ELSE out \o <<"_">> \o data
  IN FoldLeft(step, <<>>, kind)

\* Letters are kept; anything else becomes one "_" between letters.
Cleaned(out, c) ==
  IF c \in Alnum THEN Append(out, c)
  ELSE IF out # <<>> /\ Last(out) # "_" THEN Append(out, "_") ELSE out
sanitize_kind(kind) ==
  LET clean[n \in 0 .. Len(kind)] == IF n = 0 THEN <<>> ELSE Cleaned(clean[n - 1], kind[n])
      out == clean[Len(kind)]
  IN IF out = <<>> THEN data ELSE out

\* mint, the keyed digest given.
mint(kind, digest) == PREFIX \o sanitize_kind(kind) \o <<"_", digest>> \o SUFFIX

\* [a-z0-9]+(?:_[a-z0-9]+)*
IsSlug(s) ==
  /\ s # <<>> /\ s[1] # "_" /\ Last(s) # "_"
  /\ \A i \in DOMAIN s : s[i] \in Alnum \cup {"_"}
  /\ \A i \in 1 .. Len(s) - 1 : ~(s[i] = "_" /\ s[i + 1] = "_")

\* s as a whole matches PATTERN.
IsPlaceholder(s) ==
  /\ Len(s) >= Len(PREFIX) + 3 + Len(SUFFIX)
  /\ IsPrefix(PREFIX, s) /\ IsSuffix(SUFFIX, s)
  /\ s[Len(s) - 2] \in Digest /\ s[Len(s) - 3] = "_"
  /\ IsSlug(SubSeq(s, Len(PREFIX) + 1, Len(s) - 4))

\* s may be the start of a placeholder.
is_potential_partial(s) ==
  \/ s # <<>> /\ Len(s) < Len(PREFIX) /\ IsPrefix(s, PREFIX)
  \/ /\ IsPrefix(PREFIX, s)
     /\ \A i \in DOMAIN s : s[i] \in Alnum \cup {"_", "MC"}
     /\ ~IsSuffix(SUFFIX, s)

\* The length of the longest end of t, within the window, that is one.
partial_suffix_len(t) ==
  LET held == {n \in 1 .. Len(t) :
                 n <= Window /\ is_potential_partial(SubSeq(t, Len(t) - n + 1, Len(t)))}
  IN IF held = {} THEN 0 ELSE Max(held)

-----------------------------------------------------------------------------
(* Properties of the kinds an operator may configure. *)

\* A slug is its own slug.  placeholder_for keys the session's map by the slug
\* it computed and hands mint that slug, which mint sanitizes again: were it to
\* change, two findings could share a map entry and not a placeholder.
SlugStable(kind) == sanitize_kind(sanitize_kind(kind)) = sanitize_kind(kind)

\* placeholders.rs:16: PATTERN is the "Regex matching a complete placeholder",
\* and so matches whatever mint makes, for every kind.
KindRestorable(kind) == \A d \in Digest : IsPlaceholder(mint(kind, d))

=============================================================================
