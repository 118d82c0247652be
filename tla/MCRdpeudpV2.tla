----------------------------- MODULE MCRdpeudpV2 ----------------------------
(***************************************************************************)
(* Instances of RdpeudpV2 for TLC.                                         *)
(***************************************************************************)
EXTENDS RdpeudpV2Stream

PerSide(client, server) == [p \in Side |-> IF p = "Client" THEN client ELSE server]

\* Windows of 2 make both ends of the send and of the receive window matter
\* with two or three packets.  A sender whose window is larger than its
\* peer's can overrun it.
SmallWindows  == PerSide(2, 2)
UnevenWindows == PerSide(3, 2)

\* With Modulus 16 the second packet of a side is the one whose wire value
\* wraps to zero.
NearWrap == PerSide(14, 14)

TwoOneWay   == PerSide(2, 0)
ThreeAndOne == PerSide(3, 1)

FaultBounds(lose, duplicate, early) ==
  [f \in Fault |-> CASE f = "Lose" -> lose
                     [] f = "Duplicate" -> duplicate
                     [] f = "Early" -> early]

OneOfEach == FaultBounds(1, 1, 1)
OneLoss   == FaultBounds(1, 0, 0)

\* Two chunks one way meet every fault; more of them, and chunks both ways,
\* only a loss.
Bounded ==
  \/ accepted["Client"] <= 2 /\ accepted["Server"] = 0
  \/ faults["Duplicate"] = 0 /\ faults["Early"] = 0

SafetySpec == Init /\ [][Next /\ Bounded']_vars
=============================================================================
