----------------------------- MODULE MCMasking -----------------------------
(***************************************************************************)
(* For TLC: the engine three times over the same variables, each time with *)
(* the constants its questions need.  part says which.  "restore" follows  *)
(* placeholders through sessions of both kinds, for longer, and nobody     *)
(* reads the stats.  "stats" has one session that can expire, and a reader *)
(* of the stats page.  "policy" has opaque tokens and no expiry.  In the   *)
(* last two what is unmaskable is to go to a local route, which is         *)
(* registered in "stats" and not in "policy".                              *)
(***************************************************************************)
EXTENDS MCMaskEngine

CONSTANTS token, glued   \* a token that stands alone, and one with a placeholder in it

VARIABLE part

Stats == INSTANCE MaskEngine
           WITH Key <- SessionId, MaxAnon <- 0, MaxTime <- 2, MaxRecords <- 2,
                Critical <- MCCritical, ForceLocal <- "on_unmaskable",
                LocalRouteSet <- TRUE, LocalRouteRegistered <- TRUE, SnapshotMax <- 1

Policy == INSTANCE MaskEngine
            WITH Key <- SessionId, MaxAnon <- 0, MaxTime <- 0, MaxRecords <- 1,
                 HighEntropy <- {token, glued}, Glued <- {glued}, Critical <- MCCritical,
                 ForceLocal <- "on_unmaskable",
                 LocalRouteSet <- TRUE, LocalRouteRegistered <- FALSE, SnapshotMax <- 1

MaskingInit == part \in {"restore", "stats", "policy"} /\ Init

MaskingNext ==
  \/ part = "restore" /\ Next /\ UNCHANGED part
  \/ part = "stats" /\ Stats!Next /\ UNCHANGED part
  \/ part = "policy" /\ Policy!Next /\ UNCHANGED part

MaskingSpec == MaskingInit /\ [][MaskingNext]_<<part, vars>>
============================================================================
