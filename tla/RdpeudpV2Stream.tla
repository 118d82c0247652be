-------------------------- MODULE RdpeudpV2Stream ---------------------------
(***************************************************************************)
(* What RdpeudpV2 promises its applications: two ordered streams.          *)
(***************************************************************************)
EXTENDS RdpeudpV2

\* The connection implements the two ordered streams of RdpeudpStream.
Stream == INSTANCE RdpeudpStream
            WITH open <- [p \in Side |-> state[p] = "Established"]

ImplementsStream == Stream!Spec
=============================================================================
