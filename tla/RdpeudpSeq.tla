----------------------------- MODULE RdpeudpSeq -----------------------------
(***************************************************************************)
(* Truncation of 64-bit sequence numbers and timestamps to their wire      *)
(* width, and their reconstruction from a nearby reference                 *)
(* (ironrdp-rdpeudp, src/seq.rs).                                          *)
(*                                                                         *)
(* The code has three instances of the same idea: 16-bit DataSeqNum and    *)
(* ChannelSeqNum, 24-bit timestamps (both with the algorithm of            *)
(* Reconstruct) and 32-bit Source sequence numbers (ReconstructNearest).   *)
(* Modulus stands for 2^16, 2^24 and 2^32.                                 *)
(***************************************************************************)
EXTENDS Integers

CONSTANT Modulus

\* The wire fields are whole numbers of bits, so the range is even.
ASSUME ModulusAssumption == Modulus \in Nat \ {0} /\ Modulus % 2 = 0

HalfRange == Modulus \div 2

Truncate(full) == full % Modulus

\* The reference's upper bits with the lower bits taken from the wire.
Candidate(wire, reference) == (reference \div Modulus) * Modulus + wire

\* Mutant: the candidate below is taken even when there is none.
ReconstructBelowZero(wire, reference) ==
  LET candidate == Candidate(wire, reference)
  IN  IF candidate > reference
      THEN IF candidate - reference > HalfRange THEN candidate - Modulus ELSE candidate
      ELSE IF reference - candidate > HalfRange THEN candidate + Modulus ELSE candidate

\* reconstruct_seq and reconstruct_timestamp: one comparison picks the
\* candidate or its neighbour; 64-bit values never go below zero.
Reconstruct(wire, reference) ==
  LET candidate == Candidate(wire, reference)
  IN  IF candidate > reference
      THEN IF candidate - reference > HalfRange /\ candidate >= Modulus
           THEN candidate - Modulus
           ELSE candidate
      ELSE IF reference - candidate > HalfRange
           THEN candidate + Modulus
           ELSE candidate

AbsDiff(a, b) == IF a >= b THEN a - b ELSE b - a

\* reconstruct_seq32: the nearest of three candidates, the lowest on a tie
\* (min_by_key returns the first minimum).
ReconstructNearest(wire, reference) ==
  LET candidate == Candidate(wire, reference)
      options == { c \in {candidate - Modulus, candidate, candidate + Modulus} : c >= 0 }
      nearest == { c \in options : \A o \in options :
                     AbsDiff(c, reference) <= AbsDiff(o, reference) }
  IN  CHOOSE c \in nearest : \A o \in nearest : c <= o

\* The two numbers are close enough for the wire form to identify one from
\* the other.
Near(full, reference) == AbsDiff(full, reference) < HalfRange

\* A number within half the wire range of the reference survives the trip
\* through its wire form, in both algorithms (seq.rs: "the active window is
\* at most 32767 packets, well within 16-bit range").
RoundTrip(full, reference) ==
  Near(full, reference) =>
    /\ Reconstruct(Truncate(full), reference) = full
    /\ ReconstructNearest(Truncate(full), reference) = full

\* And in general reconstruct_seq's single comparison really returns the 64-bit value
\* closest to the reference whose low bits match, near zero and at the exact
\* half range included, and differs from the three-candidate search of
\* reconstruct_seq32 only in how it breaks that tie.
ClosestMatch(full, reference, Others) ==
  LET result == Reconstruct(Truncate(full), reference)
  IN  /\ RoundTrip(full, reference)
      /\ result >= 0 /\ Truncate(result) = Truncate(full)
      /\ \A other \in Others :
            Truncate(other) = Truncate(full) =>
              AbsDiff(result, reference) <= AbsDiff(other, reference)
      /\ \/ result = ReconstructNearest(Truncate(full), reference)
         \/ AbsDiff(result, reference) = HalfRange
=============================================================================
