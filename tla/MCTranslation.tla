---------------------------- MODULE MCTranslation ----------------------------
(***************************************************************************)
(* Everything that rewrites what a client sends and receives, for TLC: the *)
(* restorer of a stream, the placeholder slugs it relies on, and the three *)
(* translations between wire formats.  They share no state, so one run     *)
(* checks them side by side: `part' is the one that moves, the others stay *)
(* where they start.                                                       *)
(***************************************************************************)
EXTENDS MCStreamRestore, PlaceholderKinds, StreamTranslation, RequestTranslation,
        ResponseTranslation

VARIABLE part

OneReply == [thinks |-> FALSE, speaks |-> TRUE, calls |-> 0, stop |-> "done"]
OneUsage == [input |-> 1, cached |-> Unreported, created |-> Unreported, output |-> 1]

Parts == {"restore", "slugs", "stream", "request", "reply"}

\* A part that does not move starts in one of its initial states.
TranslationInit ==
    /\ part \in Parts
    /\ KindInit
    /\ RestoreInit /\ (part # "restore" => text = [c \in Channel |-> <<>>])
    /\ StreamInit /\ (part # "stream" => source = "openai" /\ target = "openai" /\ ~masked)
    /\ RequestInit /\ (part # "request" => client = "openai_chat")
    /\ ReplyInit /\ (part # "reply" => reply = OneReply /\ usage = OneUsage)

TranslationNext ==
    \/ /\ part = "restore" /\ RestoreNext
       /\ UNCHANGED <<part, kind, streamVars, requestVars, replyVars>>
    \/ /\ part = "slugs" /\ Grow
       /\ UNCHANGED <<part, restoreVars, streamVars, requestVars, replyVars>>
    \/ /\ part = "stream" /\ StreamNext
       /\ UNCHANGED <<part, restoreVars, kind, requestVars, replyVars>>
    \/ /\ part = "request" /\ RequestNext
       /\ UNCHANGED <<part, restoreVars, kind, streamVars, replyVars>>
    \/ /\ part = "reply" /\ ReplyNext
       /\ UNCHANGED <<part, restoreVars, kind, streamVars, requestVars>>

TranslationSpec ==
    TranslationInit
    /\ [][TranslationNext]_<<part, restoreVars, kind, streamVars, requestVars, replyVars>>

=============================================================================
