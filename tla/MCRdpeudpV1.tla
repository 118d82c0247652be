---------------------------- MODULE MCRdpeudpV1 -----------------------------
(***************************************************************************)
(* Instances of RdpeudpV1 for TLC.                                         *)
(***************************************************************************)
EXTENDS RdpeudpV1

PerSide(client, server) == [p \in Side |-> IF p = "Client" THEN client ELSE server]

\* With Modulus 16 the second packet of a side is the one whose wire value
\* wraps to zero.
NearWrap == PerSide(14, 14)

SmallWindows == PerSide(2, 2)

TwoOneWay == PerSide(2, 0)

FaultBounds(lose, duplicate, early) ==
  [f \in Fault |-> CASE f = "Lose" -> lose
                     [] f = "Duplicate" -> duplicate
                     [] f = "Early" -> early]

LossAndEarly == FaultBounds(1, 0, 1)
=============================================================================
