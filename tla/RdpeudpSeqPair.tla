--------------------------- MODULE RdpeudpSeqPair ---------------------------
(***************************************************************************)
(* The two reconstruction algorithms of RdpeudpSeq against their meaning,  *)
(* over numbers that cross the wrap several times.  The state is a number  *)
(* and the reference it is reconstructed from; a step moves one of the     *)
(* two, the way a sender's number and a receiver's reference advance.      *)
(***************************************************************************)
EXTENDS RdpeudpSeq

CONSTANT MaxNumber    \* bound on the numbers explored

VARIABLES full, reference

vars == <<full, reference>>

Init == full = 0 /\ reference = 0

AdvanceSender   == full < MaxNumber /\ full' = full + 1 /\ UNCHANGED reference
AdvanceReceiver == reference < MaxNumber /\ reference' = reference + 1 /\ UNCHANGED full

Next == AdvanceSender \/ AdvanceReceiver

Spec == Init /\ [][Next]_vars

\* Both algorithms return what they should for these two numbers.
PairMatches == ClosestMatch(full, reference, 0 .. (MaxNumber + Modulus))
=============================================================================
