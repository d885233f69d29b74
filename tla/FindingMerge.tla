---------------------------- MODULE FindingMerge ----------------------------
(***************************************************************************)
(* How the findings of several detectors become the spans to replace       *)
(* (crates/maskclaw/src/detect).  A text is Length positions; what a       *)
(* detector reports is a set of spans of it, disjoint for one detector and *)
(* overlapping across detectors.  A value on the allowlist is, here, a     *)
(* span that holds it.                                                     *)
(***************************************************************************)
EXTENDS Naturals, FiniteSets

CONSTANTS Length,      \* bytes in the text
          Detector,    \* 1 .. n, in the order compile_detectors lists them
          Placed,      \* the sets of placeholder spans the text may hold
          Allowed      \* the sets of spans that may hold an allowlisted value

Span == {s \in (0 .. Length) \X (0 .. Length) : s[1] < s[2]}
Finding == [start : 0 .. Length, end : 0 .. Length, by : Detector]

ASSUME MergeAssumption ==
    /\ Length \in Nat
    /\ Detector \subseteq Nat
    /\ \A p \in Placed \cup Allowed : p \subseteq Span

VARIABLES found,     \* the findings of every detector
          placed,    \* placeholders already in the text
          allowed,   \* allowlisted spans
          left,      \* findings the loop has not reached
          kept,      \* findings it kept
          last_end   \* where the last of them ends

mergeVars == <<found, placed, allowed, left, kept, last_end>>

Apart(s, t) == s[2] <= t[1] \/ t[2] <= s[1]
At(f) == <<f.start, f.end>>

\* What one detector reports: matches of find_iter never overlap.
detect(d) ==
    {[start |-> s[1], end |-> s[2], by |-> d] : s \in Span}
Reports(d) ==
    {r \in SUBSET detect(d) : \A f, g \in r : f # g => Apart(At(f), At(g))}

overlaps_placeholder(f) == \E p \in placed : ~Apart(At(f), p)
Retained(f) == At(f) \notin allowed /\ ~overlaps_placeholder(f)

len(f) == f.end - f.start

Before(f, g) ==
    \/ f.start < g.start
    \/ f.start = g.start /\ len(f) > len(g)
    \/ f.start = g.start /\ len(f) = len(g) /\ f.by < g.by

MergeInit ==
    /\ \E report \in [Detector -> UNION {Reports(d) : d \in Detector}] :
          /\ \A d \in Detector : report[d] \in Reports(d)
          /\ found = UNION {report[d] : d \in Detector}
    /\ placed \in Placed
    /\ allowed \in Allowed
    /\ left = {f \in found : Retained(f)}
    /\ kept = {}
    /\ last_end = 0

Clear_Touches(f) == f.start + 1 >= last_end
\* Behind everything kept; that it is a range of the text, which the code asks here as well,
\* is true of every finding reported
Clear(f) == f.start >= last_end

Keep ==
    \E f \in left :
        /\ \A g \in left \ {f} : Before(f, g)
        /\ Clear(f)
        /\ left' = left \ {f}
        /\ kept' = kept \cup {f}
        /\ last_end' = f.end
        /\ UNCHANGED <<found, placed, allowed>>

Drop ==
    \E f \in left :
        /\ \A g \in left \ {f} : Before(f, g)
        /\ ~Clear(f)
        /\ left' = left \ {f}
        /\ UNCHANGED <<found, placed, allowed, kept, last_end>>

MergeNext == Keep \/ Drop

MergeSpec == MergeInit /\ [][MergeNext]_mergeVars

-----------------------------------------------------------------------------
MergeTypeOK ==
    /\ found \subseteq Finding
    /\ left \subseteq found
    /\ kept \subseteq found
    /\ last_end \in 0 .. Length

\* No byte is replaced twice: what is kept is pairwise apart and apart from every placeholder
\* that is in the text already, so the splices of scrub_string never cut one another.
Disjoint ==
    \A f \in kept :
        /\ \A g \in kept : f # g => Apart(At(f), At(g))
        /\ ~overlaps_placeholder(f)

\* merge_findings drops nothing for nothing: at the end, every finding that is neither
\* allowlisted nor inside a placeholder is kept, or gave way to a kept one that overlaps it and
\* starts earlier, or starts there too and is longer, or is an earlier detector's equal match.
DroppedOnlyForKept ==
    left = {} =>
        \A f \in found : Retained(f) /\ f \notin kept =>
            \E g \in kept :
                /\ ~Apart(At(f), At(g))
                /\ g.start < f.start \/ (g.start = f.start /\ len(g) >= len(f))

\* What scrub_string relies on: the findings it splices do not cut one another, and no
\* secret was given up without one.
MergeSound == Disjoint /\ DroppedOnlyForKept
=============================================================================
