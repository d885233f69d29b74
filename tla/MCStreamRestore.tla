-------------------------- MODULE MCStreamRestore --------------------------
(* StreamRestore for TLC: texts put together from a few pieces. *)
EXTENDS StreamRestore

CONSTANTS Slug, Pieces

MCPlaceholder == mint(Slug, "d")
MCMap == (MCPlaceholder :> <<"s">>)

\* What a model may write: the session's placeholder, another session's, the
\* start of one, and symbols that are or are not part of one.
Piece == {MCPlaceholder, mint(Slug, "e"), PREFIX, <<"_">>, <<"a">>, <<" ">>}
MCText == {FlattenSeq(s) : s \in BoundedSeq(Piece, Pieces)}
MCSlug == <<"a">>
=============================================================================
