-------------------------- MODULE PlaceholderKinds --------------------------
(***************************************************************************)
(* The kinds an operator may configure for the detectors, grown one symbol *)
(* at a time: any text over the letters, the separator and whatever else.  *)
(***************************************************************************)
EXTENDS Placeholders

CONSTANTS
  Symbol,    \* the symbols of a kind
  MaxLen     \* bound: the longest kind

VARIABLE kind

KindInit == kind = <<>>
Grow == Len(kind) < MaxLen /\ \E c \in Symbol : kind' = Append(kind, c)
KindSpec == KindInit /\ [][Grow]_kind

\* The slug of every kind is its own slug (SlugStable): placeholder_for and mint
\* agree on it.
SlugsStable == SlugStable(kind)
\* Whatever mint makes of a kind is matched by PATTERN (KindRestorable).
KindsRestorable == KindRestorable(kind)
=============================================================================
