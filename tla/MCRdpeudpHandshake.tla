------------------------- MODULE MCRdpeudpHandshake -------------------------
(***************************************************************************)
(* Small instances of RdpeudpHandshake.                                    *)
(***************************************************************************)
EXTENDS RdpeudpHandshake

UnequalMtus == [p \in Side |-> IF p = "Client" THEN 2 ELSE 1]
=============================================================================
