------------------------------ MODULE Requests ------------------------------
(***************************************************************************)
(* The requests a router serves and the sessions they belong to, as the    *)
(* routing algorithms share them (libsy/src/core/algorithm.rs Request,     *)
(* algorithms/fall_through.rs).                                            *)
(***************************************************************************)
CONSTANTS Request, Session,
          None    \* no value: a request's missing session, a lock's missing holder
=============================================================================
