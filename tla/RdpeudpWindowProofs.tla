------------------------ MODULE RdpeudpWindowProofs -------------------------
(***************************************************************************)
(* What the operators of the send and the receive window guarantee for     *)
(* every window, stated as lemmas for the proofs about the protocols that  *)
(* use them.                                                               *)
(***************************************************************************)
EXTENDS Sequences, RdpeudpSeq, RdpeudpSendWindow, RdpeudpRecvWindow, TLAPS

USE ZenonT(5), SMTT(40), ZenonT(30), SMTT(41)

-----------------------------------------------------------------------------
(* Sequence numbers *)

\* Splitting a number at the wire width: what "& !0xFFFF" and "& 0xFFFF"
\* keep and drop in seq.rs.
LEMMA SplitAtModulus ==
  ASSUME NEW x \in Nat
  PROVE  /\ x \div Modulus \in Nat
         /\ Truncate(x) \in 0 .. (Modulus - 1)
         /\ x = (x \div Modulus) * Modulus + Truncate(x)
BY ModulusAssumption, Z3T(30) DEF Truncate

\* Different multiples of the range are at least the range apart.
LEMMA MultiplesApart ==
  ASSUME NEW a \in Nat, NEW b \in Nat, a > b
  PROVE  /\ a * Modulus >= b * Modulus + Modulus
         /\ a # b + 1 => a * Modulus >= b * Modulus + 2 * Modulus
         /\ a = b + 1 => a * Modulus = b * Modulus + Modulus
BY ModulusAssumption, Z3T(30)

LEMMA HalfRangeValue == HalfRange \in Nat /\ 2 * HalfRange = Modulus
BY ModulusAssumption, Z3T(30) DEF HalfRange

\* reconstruct_seq and reconstruct_timestamp invert truncation for every
\* number less than half the range away from the reference.
THEOREM ReconstructTruncate ==
  ASSUME NEW full \in Nat, NEW reference \in Nat, Near(full, reference)
  PROVE  Reconstruct(Truncate(full), reference) = full
<1> DEFINE p == full \div Modulus
           q == reference \div Modulus
           P == p * Modulus
           Q == q * Modulus
           w == Truncate(full)
           r == Truncate(reference)
           h == HalfRange
<1>1. /\ p \in Nat /\ w \in 0 .. (Modulus - 1) /\ full = P + w
      /\ q \in Nat /\ r \in 0 .. (Modulus - 1) /\ reference = Q + r
  BY SplitAtModulus
<1>2. /\ Modulus \in Nat /\ h \in Nat /\ 2 * h = Modulus
      /\ P \in Nat /\ Q \in Nat
  BY <1>1, ModulusAssumption, HalfRangeValue
<1>3. full - reference < h /\ reference - full < h
  BY <1>1, <1>2 DEF Near, AbsDiff
<1>4. \/ p = q
      \/ p = q + 1 /\ P = Q + Modulus
      \/ q = p + 1 /\ Q = P + Modulus
  <2>1. CASE p > q
    BY <2>1, <1>1, <1>2, <1>3, MultiplesApart
  <2>2. CASE q > p
    BY <2>2, <1>1, <1>2, <1>3, MultiplesApart
  <2>. QED  BY <2>1, <2>2, <1>1
<1>5. Candidate(w, reference) = Q + w
  BY DEF Candidate
<1>. HIDE DEF p, q, P, Q, w, r, h
<1>6. P >= 0
  BY <1>2
<1>. QED
  <2>1. CASE p = q
    <3>1. P = Q
      BY <2>1 DEF P, Q
    <3>. QED  BY <3>1, <1>1, <1>2, <1>3, <1>5 DEF Reconstruct, h, w
  <2>2. CASE p = q + 1 /\ P = Q + Modulus
    BY <2>2, <1>1, <1>2, <1>3, <1>5 DEF Reconstruct, h, w
  <2>3. CASE q = p + 1 /\ Q = P + Modulus
    BY <2>3, <1>1, <1>2, <1>3, <1>5, <1>6 DEF Reconstruct, h, w
  <2>. QED  BY <1>4, <2>1, <2>2, <2>3

\* Numbers with the same wire value differ by multiples of the range.
LEMMA SplitUnique ==
  ASSUME NEW k \in Nat, NEW w \in 0 .. (Modulus - 1)
  PROVE  Truncate(k * Modulus + w) = w
<1> DEFINE x == k * Modulus + w
           j == x \div Modulus
           K == k * Modulus
           J == j * Modulus
           v == Truncate(x)
<1>1. Modulus \in Nat \ {0} /\ K \in Nat /\ x = K + w
  BY ModulusAssumption, Z3T(30)
<1>2. x \in Nat
  BY <1>1, SMTT(40)
<1>3. j \in Nat /\ v \in 0 .. (Modulus - 1) /\ x = J + v
  BY <1>2, SplitAtModulus
<1>4. J \in Nat
  BY <1>3, <1>1, Z3T(30)
<1>5. k > j => K >= J + Modulus
  BY <1>3, MultiplesApart
<1>6. j > k => J >= K + Modulus
  BY <1>3, MultiplesApart
<1>7. k = j => K = J
  OBVIOUS
<1>. HIDE DEF x, j, K, J, v
<1>. QED  BY <1>1, <1>3, <1>4, <1>5, <1>6, <1>7, SMTT(40) DEF v, x, K

\* What reconstruct_seq32 chooses from.
Options(wire, reference) ==
  LET candidate == Candidate(wire, reference)
  IN  { c \in {candidate - Modulus, candidate, candidate + Modulus} : c >= 0 }

\* It returns an option that is closer to the reference than the others.
LEMMA NearestOption ==
  ASSUME NEW wire \in Nat, NEW reference \in Nat, Options(wire, reference) \subseteq Int,
         NEW best \in Options(wire, reference),
         \A o \in Options(wire, reference) :
           o # best => AbsDiff(best, reference) < AbsDiff(o, reference)
  PROVE  ReconstructNearest(wire, reference) = best
<1> DEFINE options == Options(wire, reference)
           nearest == { c \in options : \A o \in options :
                          AbsDiff(c, reference) <= AbsDiff(o, reference) }
<1>1. ReconstructNearest(wire, reference) = CHOOSE c \in nearest : \A o \in nearest : c <= o
  BY DEF ReconstructNearest, Options
<1>. HIDE DEF options
<1>2. /\ options \subseteq Int /\ best \in options
      /\ \A o \in options : o # best => AbsDiff(best, reference) < AbsDiff(o, reference)
  BY DEF options
<1>3. \A o \in options : AbsDiff(o, reference) \in Int
  BY <1>2, SMTT(40) DEF AbsDiff
<1>4. nearest = {best}
  <2>1. \A o \in options : AbsDiff(best, reference) <= AbsDiff(o, reference)
    BY <1>2, <1>3, SMTT(40)
  <2>2. \A c \in options : AbsDiff(c, reference) <= AbsDiff(best, reference) => c = best
    BY <1>2, <1>3, SMTT(40)
  <2>. QED  BY <2>1, <2>2, <1>2, Zenon
<1>5. best <= best
  BY <1>2, SMTT(40)
<1>. HIDE DEF nearest
<1>6. \A c : c \in nearest /\ (\A o \in nearest : c <= o) <=> c = best
  BY <1>4, <1>5, Zenon
<1>. QED  BY <1>1, <1>6, Zenon

\* reconstruct_seq32 inverts truncation likewise: the other candidates are at
\* least half the range away.
THEOREM NearestTruncate ==
  ASSUME NEW full \in Nat, NEW reference \in Nat, Near(full, reference)
  PROVE  ReconstructNearest(Truncate(full), reference) = full
<1> DEFINE p == full \div Modulus
           q == reference \div Modulus
           P == p * Modulus
           Q == q * Modulus
           w == Truncate(full)
           r == Truncate(reference)
           h == HalfRange
<1>1. /\ p \in Nat /\ w \in 0 .. (Modulus - 1) /\ full = P + w
      /\ q \in Nat /\ r \in 0 .. (Modulus - 1) /\ reference = Q + r
  BY SplitAtModulus
<1>2. /\ Modulus \in Nat /\ h \in Nat /\ 2 * h = Modulus
      /\ P \in Nat /\ Q \in Nat
  BY <1>1, ModulusAssumption, HalfRangeValue
<1>3. full - reference < h /\ reference - full < h
  BY <1>1, <1>2 DEF Near, AbsDiff
<1>4. \/ p = q
      \/ p = q + 1 /\ P = Q + Modulus
      \/ q = p + 1 /\ Q = P + Modulus
  <2>1. CASE p > q
    BY <2>1, <1>1, <1>2, <1>3, MultiplesApart
  <2>2. CASE q > p
    BY <2>2, <1>1, <1>2, <1>3, MultiplesApart
  <2>. QED  BY <2>1, <2>2, <1>1
<1> DEFINE C == Candidate(w, reference)
<1>5. C = Q + w /\ Options(w, reference) = { c \in {C - Modulus, C, C + Modulus} : c >= 0 }
  BY DEF Options, Candidate
<1>6. p = q => P = Q
  OBVIOUS
<1>. HIDE DEF p, q, P, Q, w, r, h, C
<1>7. full \in Options(w, reference) /\ Options(w, reference) \subseteq Int
  BY <1>1, <1>2, <1>4, <1>5, <1>6, SMTT(40)
<1>8. \A o \in Options(w, reference) :
        o # full => AbsDiff(full, reference) < AbsDiff(o, reference)
  BY <1>1, <1>2, <1>3, <1>4, <1>5, <1>6, SMTT(40) DEF AbsDiff
<1>9. w \in Nat
  BY <1>1, <1>2, SMTT(40)
<1>10. ReconstructNearest(w, reference) = full
  BY <1>7, <1>8, <1>9, NearestOption
<1>. QED  BY <1>10 DEF w

\* A number survives the trip through its wire form wherever it is near, and
\* in general reconstruct_seq and reconstruct_timestamp return the number
\* closest to the reference among all with the wire value they are given, also
\* near zero and at the exact half range, where alone they may differ from
\* reconstruct_seq32.
THEOREM ReconstructClosest ==
  ASSUME NEW full \in Nat, NEW reference \in Nat
  PROVE  ClosestMatch(full, reference, Nat)
<1> DEFINE q == reference \div Modulus
           Q == q * Modulus
           w == Truncate(full)
           r == Truncate(reference)
           h == HalfRange
           result == Reconstruct(w, reference)
<1>1. /\ w \in 0 .. (Modulus - 1)
      /\ q \in Nat /\ r \in 0 .. (Modulus - 1) /\ reference = Q + r
  BY SplitAtModulus
<1>2. Modulus \in Nat \ {0} /\ h \in Nat /\ 2 * h = Modulus /\ Q \in Nat
  BY <1>1, ModulusAssumption, HalfRangeValue
<1> DEFINE C == Candidate(w, reference)
<1>3. /\ C = Q + w
      /\ result = IF C > reference
                  THEN IF C - reference > h /\ C >= Modulus THEN C - Modulus ELSE C
                  ELSE IF reference - C > h THEN C + Modulus ELSE C
      /\ Options(w, reference) = { c \in {C - Modulus, C, C + Modulus} : c >= 0 }
  BY DEF Reconstruct, Candidate, Options
<1>4. q = 0 => Q = 0
  BY <1>2, SMTT(40)
<1>5. q # 0 => q - 1 \in Nat /\ Q >= Modulus /\ (q - 1) * Modulus = Q - Modulus
  BY <1>1, <1>2, Z3T(30)
<1>6. q + 1 \in Nat /\ (q + 1) * Modulus = Q + Modulus
  BY <1>1, <1>2, Z3T(30)
<1>7. /\ Truncate(Q + w) = w /\ Truncate(Q + w + Modulus) = w
      /\ q # 0 => Truncate(Q + w - Modulus) = w
  <2>1. Truncate(Q + w) = w
    BY <1>1, SplitUnique
  <2>2. Truncate((q + 1) * Modulus + w) = w
    BY <1>1, <1>6, SplitUnique
  <2>3. q # 0 => Truncate((q - 1) * Modulus + w) = w
    BY <1>1, <1>5, SplitUnique
  <2>4. Q + Modulus + w = Q + w + Modulus /\ Q - Modulus + w = Q + w - Modulus
    BY <1>1, <1>2, SMTT(40)
  <2>. QED  BY <2>1, <2>2, <2>3, <2>4, <1>5, <1>6
<1>8. ASSUME NEW other \in Nat, Truncate(other) = w
      PROVE  AbsDiff(result, reference) <= AbsDiff(other, reference)
  <2> DEFINE o == other \div Modulus
             O == o * Modulus
  <2>1. o \in Nat /\ other = O + w
    BY <1>8, SplitAtModulus
  <2>2. O \in Nat
    BY <2>1, <1>2, Z3T(30)
  <2>3. o = q => O = Q
    OBVIOUS
  <2>4. /\ o > q => O >= Q + Modulus
        /\ q > o => Q >= O + Modulus
    BY <2>1, <1>1, MultiplesApart
  <2>. HIDE DEF o, O, q, Q, w, r, h, C, result
  <2>. QED  BY <2>1, <2>2, <2>3, <2>4, <1>1, <1>2, <1>3, <1>4, SMTT(40) DEF AbsDiff
<1>. HIDE DEF q, Q, w, r, h, C, result
<1>9. result >= 0 /\ Truncate(result) = w
  BY <1>1, <1>2, <1>3, <1>4, <1>7, SMTT(40)
<1> DEFINE closest == /\ result >= 0 /\ Truncate(result) = w
                      /\ \A other \in Nat : Truncate(other) = w =>
                           AbsDiff(result, reference) <= AbsDiff(other, reference)
                      /\ result = ReconstructNearest(w, reference) \/ AbsDiff(result, reference) = h
<1>10. ASSUME AbsDiff(result, reference) # h PROVE closest
  <2>1. result \in Options(w, reference) /\ Options(w, reference) \subseteq Int /\ w \in Nat
    BY <1>1, <1>2, <1>3, <1>4, <1>5, SMTT(40)
  <2>2. \A o \in Options(w, reference) :
          o # result => AbsDiff(result, reference) < AbsDiff(o, reference)
    BY <1>1, <1>2, <1>3, <1>4, <1>10, SMTT(40) DEF AbsDiff
  <2>3. ReconstructNearest(w, reference) = result
    BY <2>1, <2>2, NearestOption
  <2>. QED  BY <2>3, <1>8, <1>9
<1>11. ASSUME AbsDiff(result, reference) = h PROVE closest
  BY <1>8, <1>9, <1>11
<1>12. closest
  BY <1>10, <1>11
<1>13. RoundTrip(full, reference)
  BY ReconstructTruncate, NearestTruncate DEF RoundTrip
<1>. QED  BY <1>12, <1>13 DEF ClosestMatch, w, h, result

-----------------------------------------------------------------------------
(* What the proofs take from the library of finite sets and well-founded     *)
(* orders: a hypothesis of the lemmas, which RdpeudpV2Proofs and              *)
(* RdpeudpV1Proofs discharge (FoundationsHold).                               *)

NaturalsWellOrdered == \A S \in SUBSET Nat : S # {} => \E x \in S : \A y \in S : x <= y

IntervalsFinite ==
  \A a, b \in Nat :
    /\ IsFiniteSet(a .. (b - 1))
    /\ a <= b => Cardinality(a .. (b - 1)) = b - a
    /\ \A S \in SUBSET (a .. (b - 1)) : Cardinality(S) \in Nat

Foundations == NaturalsWellOrdered /\ IntervalsFinite

-----------------------------------------------------------------------------
(* Least elements *)

\* Min picks the least element of a nonempty set of naturals.
LEMMA MinProperty ==
  ASSUME Foundations, NEW S \in SUBSET Nat, S # {}
  PROVE  Min(S) \in S /\ \A y \in S : Min(S) <= y
BY DEF Min, Foundations, NaturalsWellOrdered

\* The oldest entry alone, or none, is closed downwards among the entries.
LEMMA OldestProperty ==
  ASSUME Foundations, NEW S \in SUBSET Nat, NEW oldest,
         S = {} => oldest = {}, S # {} => oldest = {Min(S)}
  PROVE  oldest \in SUBSET S /\ \A l \in oldest : \A d \in S : d <= l => d \in oldest
<1>1. CASE S = {}
  BY <1>1
<1>2. CASE S # {}
  <2> DEFINE least == Min(S)
  <2>1. least \in S /\ least \in Nat /\ \A y \in S : least <= y /\ y \in Nat
    BY <1>2, MinProperty
  <2>2. oldest = {least}
    BY <1>2
  <2>. HIDE DEF least
  <2>3. \A d \in S : d <= least => d = least
    BY ONLY <2>1, SMTT(40), SMTT(41)
  <2>. QED  BY <2>1, <2>2, <2>3
<1>. QED  BY <1>1, <1>2

\* FirstMissing finds the first gap of a bounded set: it is not in the set,
\* everything from the start up to it is.
LEMMA FirstMissingProperty ==
  ASSUME Foundations, NEW S \in SUBSET Nat, NEW start \in Nat, NEW bound \in Nat,
         \A s \in S : s < bound
  PROVE  /\ FirstMissing(start, S) \in Nat
         /\ FirstMissing(start, S) >= start
         /\ FirstMissing(start, S) \notin S
         /\ \A n \in start .. (FirstMissing(start, S) - 1) : n \in S
<1> DEFINE missing == {n \in Nat : n >= start /\ n \notin S}
<1>1. missing # {}
  <2>1. start + bound \in missing
    OBVIOUS
  <2>. QED  BY <2>1
<1>2. PICK first \in missing : \A n \in missing : first <= n
  BY <1>1 DEF Foundations, NaturalsWellOrdered
<1>3. \A n \in start .. (first - 1) : n \in S
  BY <1>2
<1>4. first \in {start} \cup {s + 1 : s \in S}
  <2>1. CASE first > start
    <3>1. first - 1 \in S
      BY <2>1, <1>3
    <3>. QED  BY <3>1
  <2>2. CASE first = start
    BY <2>2
  <2>. QED  BY <2>1, <2>2
<1>. HIDE DEF missing
<1>5. first \in Nat /\ first >= start /\ first \notin S
  BY DEF missing
<1>6. \E n \in {start} \cup {s + 1 : s \in S} :
        n >= start /\ n \notin S /\ \A m \in start .. (n - 1) : m \in S
  BY <1>3, <1>4, <1>5
<1>7. /\ FirstMissing(start, S) \in {start} \cup {s + 1 : s \in S}
      /\ FirstMissing(start, S) >= start /\ FirstMissing(start, S) \notin S
      /\ \A m \in start .. (FirstMissing(start, S) - 1) : m \in S
  BY <1>6 DEF FirstMissing
<1>. QED  BY <1>7

-----------------------------------------------------------------------------
(* Send window *)

\* The lowest unresolved number is a natural no greater than the next one.
LEMMA LowestInRange ==
  ASSUME Foundations, NEW window, NEW next \in Nat, DOMAIN window \subseteq 0 .. (next - 1)
  PROVE  /\ LowestUnacknowledged(window, next) \in 0 .. next
         /\ \A d \in DOMAIN window : LowestUnacknowledged(window, next) <= d
         /\ DOMAIN window # {} => LowestUnacknowledged(window, next) \in DOMAIN window
<1>1. CASE DOMAIN window = {}
  BY <1>1 DEF LowestUnacknowledged
<1>2. CASE DOMAIN window # {}
  <2>1. DOMAIN window \in SUBSET Nat
    OBVIOUS
  <2>2. Min(DOMAIN window) \in DOMAIN window /\ \A d \in DOMAIN window : Min(DOMAIN window) <= d
    BY <1>2, <2>1, MinProperty
  <2>. QED  BY <1>2, <2>2 DEF LowestUnacknowledged
<1>. QED  BY <1>1, <1>2

\* advance_window restores contiguity when every number above an unresolved
\* one is still there, and drops resolved entries only.
LEMMA AdvanceWindowProperty ==
  ASSUME Foundations, NEW window, NEW next \in Nat, DOMAIN window \subseteq 0 .. (next - 1),
         \A p \in Pending(window) : \A d \in p .. (next - 1) : d \in DOMAIN window
  PROVE  LET advanced == AdvanceWindow(window)
             low == LowestUnacknowledged(advanced, next)
         IN  /\ Contiguous(advanced, next)
             /\ Pending(advanced) = Pending(window)
             /\ DOMAIN advanced \subseteq DOMAIN window
             /\ \A d \in DOMAIN advanced : advanced[d] = window[d]
             /\ \A d \in DOMAIN window \ DOMAIN advanced : d < low
<1> DEFINE advanced == AdvanceWindow(window)
           kept == {d \in DOMAIN window : \E p \in Pending(window) : p <= d}
           low == LowestUnacknowledged(advanced, next)
<1>1. DOMAIN advanced = kept /\ \A d \in kept : advanced[d] = window[d]
  BY DEF AdvanceWindow, Restrict
<1>2. Pending(window) \subseteq kept
  BY DEF Pending
<1>3. Pending(advanced) = Pending(window)
  BY <1>1, <1>2 DEF Pending
<1>. HIDE DEF advanced
<1>4. /\ low \in 0 .. next /\ \A d \in kept : low <= d
      /\ kept # {} => low \in kept
  BY <1>1, LowestInRange
<1>5. kept = {} => low = next
  BY <1>1 DEF LowestUnacknowledged
<1>6. ASSUME low < next  PROVE low \in Pending(advanced)
  <2>1. low \in kept
    BY <1>4, <1>5, <1>6
  <2>2. PICK p \in Pending(window) : p <= low
    BY <2>1
  <2>3. p \in kept /\ p \in Nat
    BY <1>2, <2>2 DEF Pending
  <2>4. p = low
    BY <1>4, <2>2, <2>3
  <2>. QED  BY <1>3, <2>4
<1>7. kept = low .. (next - 1)
  <2>1. ASSUME NEW d \in low .. (next - 1)  PROVE d \in kept
    <3>1. low \in Pending(window)
      BY <1>3, <1>4, <1>6, <2>1
    <3>2. d \in DOMAIN window
      BY <3>1, <2>1
    <3>. QED  BY <1>4, <3>1, <3>2, <2>1
  <2>2. ASSUME NEW d \in kept  PROVE d \in low .. (next - 1)
    BY <1>4, <2>2
  <2>. QED  BY <2>1, <2>2
<1>8. \A d \in DOMAIN window \ kept : d < low
  <2>1. ASSUME NEW d \in DOMAIN window, d \notin kept  PROVE d < low
    <3>1. d \in 0 .. (next - 1)
      BY <2>1
    <3>. QED  BY <1>4, <1>7, <3>1, <2>1
  <2>. QED  BY <2>1
<1>9. Contiguous(advanced, next)
  BY <1>1, <1>4, <1>6, <1>7 DEF Contiguous
<1>10. QED  BY <1>1, <1>3, <1>8, <1>9 DEF advanced

\* A contiguous window lies within the numbers assigned so far.
LEMMA ContiguousRange ==
  ASSUME NEW window, NEW next \in Nat, Contiguous(window, next)
  PROVE  /\ DOMAIN window \subseteq 0 .. (next - 1)
         /\ LowestUnacknowledged(window, next) \in 0 .. next
         /\ \A d \in DOMAIN window : LowestUnacknowledged(window, next) <= d
BY DEF Contiguous

\* Acknowledging pending packets keeps a window contiguous, resolves exactly
\* those packets and moves the front forward only.
LEMMA MarkReceivedProperty ==
  ASSUME Foundations, NEW window, NEW next \in Nat, Contiguous(window, next),
         \A d \in DOMAIN window : window[d] \in EntryType,
         NEW acked \in SUBSET Pending(window)
  PROVE  LET marked == MarkReceived(window, acked)
         IN  /\ Contiguous(marked, next)
             /\ Pending(marked) = Pending(window) \ acked
             /\ LowestUnacknowledged(window, next) <= LowestUnacknowledged(marked, next)
             /\ DOMAIN marked \subseteq DOMAIN window
             /\ \A d \in DOMAIN marked :
                  /\ marked[d] \in EntryType
                  /\ marked[d].channel_seq = window[d].channel_seq
                  /\ marked[d].data = window[d].data
<1> DEFINE flagged == [d \in DOMAIN window |->
                         IF d \in acked THEN [window[d] EXCEPT !.state = "Received"]
                                        ELSE window[d]]
           marked == AdvanceWindow(flagged)
           low == LowestUnacknowledged(window, next)
           new == LowestUnacknowledged(marked, next)
<1>1. DOMAIN flagged = DOMAIN window
  OBVIOUS
<1>2. ASSUME NEW d \in DOMAIN window
      PROVE  /\ flagged[d] \in EntryType
             /\ flagged[d].channel_seq = window[d].channel_seq
             /\ flagged[d].data = window[d].data
             /\ flagged[d].state = IF d \in acked THEN "Received" ELSE window[d].state
  BY <1>2 DEF EntryType
<1>. HIDE DEF flagged
<1>3. Pending(flagged) = Pending(window) \ acked
  BY <1>1, <1>2 DEF Pending
<1>4. DOMAIN window = low .. (next - 1) /\ low \in 0 .. next
  BY DEF Contiguous
<1>5. \A p \in Pending(flagged) : \A d \in p .. (next - 1) : d \in DOMAIN flagged
  BY <1>1, <1>3, <1>4 DEF Pending
<1>. HIDE DEF low
<1>6. DOMAIN flagged \subseteq 0 .. (next - 1)
  BY <1>1, <1>4
<1>7. /\ Contiguous(marked, next)
      /\ Pending(marked) = Pending(flagged)
      /\ DOMAIN marked \subseteq DOMAIN flagged
      /\ \A d \in DOMAIN marked : marked[d] = flagged[d]
  BY <1>5, <1>6, AdvanceWindowProperty
<1>. HIDE DEF marked
<1>8. new \in 0 .. next /\ DOMAIN marked = new .. (next - 1)
  BY <1>7 DEF Contiguous
<1>. HIDE DEF new
<1>9. low <= new
  <2>1. CASE new = next
    BY <2>1, <1>4
  <2>2. CASE new < next
    BY <2>2, <1>1, <1>4, <1>7, <1>8
  <2>. QED  BY <1>8, <2>1, <2>2
<1>10. marked = MarkReceived(window, acked)
  BY DEF marked, flagged, MarkReceived
<1>. QED  BY <1>1, <1>2, <1>3, <1>7, <1>9, <1>10 DEF low, new

\* Declaring lost pending packets from the front keeps a window contiguous,
\* removes exactly those packets and moves the front past them.
LEMMA MarkLostProperty ==
  ASSUME Foundations, NEW window, NEW next \in Nat, Contiguous(window, next),
         NEW lost \in SUBSET Pending(window),
         \A l \in lost : \A p \in Pending(window) : p <= l => p \in lost
  PROVE  LET left == MarkLost(window, lost)
         IN  /\ Contiguous(left, next)
             /\ Pending(left) = Pending(window) \ lost
             /\ LowestUnacknowledged(window, next) <= LowestUnacknowledged(left, next)
             /\ DOMAIN left \subseteq DOMAIN window
             /\ \A d \in DOMAIN left : left[d] = window[d]
             /\ \A d \in lost : d < LowestUnacknowledged(left, next)
<1> DEFINE rest == Restrict(window, DOMAIN window \ lost)
           left == AdvanceWindow(rest)
           low == LowestUnacknowledged(window, next)
           new == LowestUnacknowledged(left, next)
<1>1. DOMAIN rest = DOMAIN window \ lost /\ \A d \in DOMAIN rest : rest[d] = window[d]
  BY DEF Restrict
<1>. HIDE DEF rest
<1>2. Pending(rest) = Pending(window) \ lost
  BY <1>1 DEF Pending
<1>3. DOMAIN window = low .. (next - 1) /\ low \in 0 .. next
  BY DEF Contiguous
<1>. HIDE DEF low
<1>4. \A p \in Pending(rest) : \A d \in p .. (next - 1) : d \in DOMAIN rest
  <2>1. ASSUME NEW p \in Pending(rest), NEW d \in p .. (next - 1)  PROVE d \in DOMAIN rest
    <3>1. p \in Pending(window) /\ p \notin lost /\ p \in low .. (next - 1)
      BY <1>2, <1>3 DEF Pending
    <3>2. d \in DOMAIN window
      BY <1>3, <3>1
    <3>3. d \notin lost
      BY <3>1
    <3>. QED  BY <1>1, <3>2, <3>3
  <2>. QED  BY <2>1
<1>5. DOMAIN rest \subseteq 0 .. (next - 1)
  BY <1>1, <1>3
<1>6. /\ Contiguous(left, next)
      /\ Pending(left) = Pending(rest)
      /\ DOMAIN left \subseteq DOMAIN rest
      /\ \A d \in DOMAIN left : left[d] = rest[d]
  BY <1>4, <1>5, AdvanceWindowProperty
<1>. HIDE DEF left
<1>7. new \in 0 .. next /\ DOMAIN left = new .. (next - 1)
  BY <1>6 DEF Contiguous
<1>8. left = MarkLost(window, lost)
  BY DEF left, rest, MarkLost
<1>. HIDE DEF new
<1>9. low <= new
  <2>1. CASE new = next
    BY <2>1, <1>3
  <2>2. CASE new < next
    BY <2>2, <1>1, <1>3, <1>6, <1>7
  <2>. QED  BY <1>7, <2>1, <2>2
<1>10. \A d \in lost : d < new
  <2>1. ASSUME NEW d \in lost  PROVE d < new
    <3>1. d \in low .. (next - 1) /\ d \notin DOMAIN left
      BY <1>1, <1>3, <1>6 DEF Pending
    <3>. QED  BY <1>3, <1>7, <3>1
  <2>. QED  BY <2>1
<1>. QED  BY <1>1, <1>2, <1>6, <1>8, <1>9, <1>10 DEF low, new

\* Pushing the next number keeps a window contiguous and its front in place.
Extends(window, next, c, data, pushed) ==
  /\ Contiguous(pushed, next + 1)
  /\ Pending(pushed) = Pending(window) \cup {next}
  /\ LowestUnacknowledged(pushed, next + 1) = LowestUnacknowledged(window, next)
  /\ DOMAIN pushed = DOMAIN window \cup {next}
  /\ pushed[next] = [channel_seq |-> c, data |-> data, state |-> "Pending"]
  /\ \A d \in DOMAIN window : pushed[d] = window[d]

LEMMA PushProperty ==
  ASSUME Foundations, NEW window, NEW next \in Nat, Contiguous(window, next), NEW c \in Nat, NEW data \in Nat
  PROVE  Extends(window, next, c, data, Push(window, next, c, data))
<1> DEFINE pushed == Push(window, next, c, data)
           low == LowestUnacknowledged(window, next)
           new == LowestUnacknowledged(pushed, next + 1)
<1>1. DOMAIN window = low .. (next - 1) /\ low \in 0 .. next /\ (low < next => low \in Pending(window))
  BY DEF Contiguous
<1>2. next \notin DOMAIN window
  BY <1>1
<1>3. /\ DOMAIN pushed = DOMAIN window \cup {next}
      /\ pushed[next] = [channel_seq |-> c, data |-> data, state |-> "Pending"]
      /\ \A d \in DOMAIN window : pushed[d] = window[d]
  BY <1>2 DEF Push
<1>. HIDE DEF pushed
<1>4. Pending(pushed) = Pending(window) \cup {next}
  BY <1>2, <1>3 DEF Pending
<1>. HIDE DEF low
<1>5. DOMAIN pushed \subseteq 0 .. ((next + 1) - 1)
  BY <1>1, <1>3
<1>6. new \in DOMAIN pushed /\ \A d \in DOMAIN pushed : new <= d
  <2>1. next + 1 \in Nat /\ DOMAIN pushed # {}
    BY <1>3
  <2>. QED  BY ONLY Foundations, <1>5, <2>1, LowestInRange
<1>. HIDE DEF new
<1>7. low \in DOMAIN pushed /\ \A d \in DOMAIN pushed : low <= d
  BY <1>1, <1>3
<1>8. new = low
  BY <1>5, <1>6, <1>7
<1>9. low \in Pending(pushed)
  BY <1>1, <1>4
<1>10. DOMAIN pushed = low .. ((next + 1) - 1)
  BY <1>1, <1>3
<1>11. /\ new \in 0 .. (next + 1) /\ DOMAIN pushed = new .. ((next + 1) - 1)
       /\ new \in Pending(pushed)
  BY <1>1, <1>8, <1>9, <1>10
<1>12. Contiguous(pushed, next + 1)
  BY <1>11 DEF Contiguous, new
<1>. QED  BY <1>3, <1>4, <1>8, <1>12 DEF Extends, pushed, low, new

\* The loss detector picks pending packets, from the oldest on.
LEMMA DetectLostProperty ==
  ASSUME NEW window, DOMAIN window \subseteq Nat, NEW aged \in Int
  PROVE  /\ DetectLost(window, aged) \in SUBSET Pending(window)
         /\ \A l \in DetectLost(window, aged) : \A p \in Pending(window) :
              p <= l => p \in DetectLost(window, aged)
<1> DEFINE overdue == {d \in Pending(window) :
                         \/ d < aged
                         \/ \E acked \in Received(window) : acked - d >= ReorderThreshold}
<1>1. DetectLost(window, aged) = {d \in Pending(window) : \E o \in overdue : d <= o}
  BY DEF DetectLost
<1>2. overdue \subseteq Nat /\ Pending(window) \subseteq Nat
  BY DEF Pending
<1>. HIDE DEF overdue
<1>. QED  BY <1>1, <1>2

\* Every packet of lost brings a chunk the queue does not hold yet.
OwnChunks(queue, window, lost) ==
  /\ \A d, e \in lost : window[d].channel_seq = window[e].channel_seq => d = e
  /\ \A d \in lost : \A e \in DOMAIN queue : window[d].channel_seq # queue[e].channel_seq
  /\ lost \cap DOMAIN queue = {}

\* longer is queue and the packets of lost.
Queues(longer, queue, window, lost) ==
  /\ DOMAIN longer = DOMAIN queue \cup lost
  /\ \A d \in DOMAIN queue : longer[d] = queue[d]
  /\ \A d \in lost : longer[d] = [channel_seq |-> window[d].channel_seq, data |-> window[d].data]

\* Lost packets with chunks of their own join the queue under their numbers.
LEMMA EnqueueProperty ==
  ASSUME NEW queue, NEW window, NEW lost \in SUBSET Nat, OwnChunks(queue, window, lost)
  PROVE  Queues(Enqueue(queue, window, lost), queue, window, lost)
<1> DEFINE added == {d \in lost :
                       /\ window[d].channel_seq \notin QueuedChannels(queue)
                       /\ \A e \in lost : e < d => window[e].channel_seq # window[d].channel_seq}
<1>1. added = lost
  <2>1. ASSUME NEW d \in lost, NEW e \in lost, e < d
        PROVE  window[e].channel_seq # window[d].channel_seq
    <3>1. e # d
      BY <2>1
    <3>. QED  BY <3>1 DEF OwnChunks
  <2>. QED  BY <2>1 DEF QueuedChannels, OwnChunks
<1>2. Enqueue(queue, window, lost) =
        [d \in DOMAIN queue \cup added |->
           IF d \in DOMAIN queue
           THEN queue[d]
           ELSE [channel_seq |-> window[d].channel_seq, data |-> window[d].data]]
  BY DEF Enqueue
<1>. QED  BY <1>1, <1>2 DEF Queues, OwnChunks

\* The congestion window never shrinks below its minimum.
LEMMA CongestionTyped ==
  ASSUME NEW cc \in CongestionType, NEW n \in Nat, NEW lost, NEW largest \in Nat
  PROVE  OnAck(cc, n) \in CongestionType /\ OnLoss(cc, lost, largest) \in CongestionType
<1>1. OnAck(cc, n) \in CongestionType
  <2>1. CASE n = 0
    BY <2>1 DEF OnAck
  <2>2. CASE n > 0 /\ InSlowStart(cc)
    <3> DEFINE grown == [cc EXCEPT !.window = cc.window + n,
                           !.bytes_acked = IF cc.ssthresh # NoSeq /\ cc.window + n >= cc.ssthresh
                                           THEN 0 ELSE @]
    <3>1. OnAck(cc, n) = grown
      BY <2>2, n # 0 DEF OnAck
    <3>2. cc.window + n \in Nat \ 0 .. (MinWindow - 1)
      BY SendWindowAssumption DEF CongestionType
    <3>3. grown \in CongestionType
      BY <3>2 DEF CongestionType
    <3>. QED  BY <3>1, <3>3
  <2>3. CASE n > 0 /\ ~InSlowStart(cc)
    <3> DEFINE acked == cc.bytes_acked + n
               wider == [cc EXCEPT !.bytes_acked = acked - cc.window, !.window = @ + 1]
               same == [cc EXCEPT !.bytes_acked = acked]
    <3>1. OnAck(cc, n) = IF acked >= cc.window THEN wider ELSE same
      BY <2>3, n # 0 DEF OnAck
    <3>2. acked \in Nat /\ cc.window + 1 \in Nat \ 0 .. (MinWindow - 1)
      BY SendWindowAssumption DEF CongestionType
    <3>3. acked >= cc.window => acked - cc.window \in Nat
      BY <3>2 DEF CongestionType
    <3>. HIDE DEF acked
    <3>4. same \in CongestionType /\ (acked >= cc.window => wider \in CongestionType)
      BY <3>2, <3>3 DEF CongestionType
    <3>. QED  BY <3>1, <3>4
  <2>. QED  BY <2>1, <2>2, <2>3
<1>2. OnLoss(cc, lost, largest) \in CongestionType
  <2> DEFINE pair == {cc.window \div 2, MinWindow}
  <2>1. cc.window \div 2 \in Nat /\ MinWindow \in Nat
    BY SendWindowAssumption DEF CongestionType
  <2>2. \E x \in pair : \A y \in pair : x >= y
    BY <2>1
  <2>3. Max(pair) \in pair /\ \A y \in pair : Max(pair) >= y
    BY <2>2 DEF Max
  <2>4. Max(pair) \in Nat \ 0 .. (MinWindow - 1)
    BY <2>1, <2>3
  <2>. HIDE DEF pair
  <2>5. [window |-> Max(pair), ssthresh |-> Max(pair), bytes_acked |-> 0,
         recovery_seq |-> largest] \in CongestionType
    BY <2>4 DEF CongestionType, SeqNums
  <2>. QED  BY <2>5 DEF OnLoss, pair
<1>. QED  BY <1>1, <1>2

-----------------------------------------------------------------------------
(* Receive window *)

\* advance_base moves the base forward only and forgets what is below it.
LEMMA AdvanceBaseProperty ==
  ASSUME NEW rw, RecvWindowOK(rw), \A d \in rw.received : d >= rw.base_seq, NEW newBase \in Nat
  PROVE  LET moved == AdvanceBase(rw, newBase)
         IN  /\ RecvWindowOK(moved)
             /\ moved.base_seq = IF newBase <= rw.base_seq THEN rw.base_seq ELSE newBase
             /\ moved.received = {d \in rw.received : d >= moved.base_seq}
             /\ moved.highest_seq = rw.highest_seq
             /\ moved.next_channel_seq = rw.next_channel_seq
             /\ moved.reorder_buf = rw.reorder_buf
<1>1. CASE newBase <= rw.base_seq
  <2>1. AdvanceBase(rw, newBase) = rw
    BY <1>1 DEF AdvanceBase
  <2>. QED  BY <1>1, <2>1
<1>2. CASE ~(newBase <= rw.base_seq)
  <2>1. AdvanceBase(rw, newBase) =
          [rw EXCEPT !.base_seq = newBase, !.received = {d \in rw.received : d >= newBase}]
    BY <1>2 DEF AdvanceBase
  <2>. QED  BY <1>2, <2>1 DEF RecvWindowOK
<1>. QED  BY <1>1, <1>2

\* release_acknowledged moves the base over received slots only, and past the
\* highest one when there is no gap.
LEMMA ReleaseProperty ==
  ASSUME Foundations, NEW rw, RecvWindowOK(rw),
         \A d \in rw.received : d >= rw.base_seq /\ d <= rw.highest_seq,
         rw.base_seq <= rw.highest_seq => rw.highest_seq \in rw.received
  PROVE  LET left == ReleaseAcknowledged(rw)
         IN  /\ RecvWindowOK(left)
             /\ left.base_seq \in Nat /\ rw.base_seq <= left.base_seq
             /\ \A d \in Nat : d < left.base_seq => d < rw.base_seq \/ d \in rw.received
             /\ left.received = {d \in rw.received : d >= left.base_seq}
             /\ left.highest_seq = rw.highest_seq
             /\ left.next_channel_seq = rw.next_channel_seq
             /\ left.reorder_buf = rw.reorder_buf
             /\ rw.base_seq <= rw.highest_seq => left.base_seq <= rw.highest_seq + 1
             /\ ~(rw.base_seq <= rw.highest_seq) => left.base_seq = rw.base_seq
             /\ ~HasGaps(rw) => rw.highest_seq < left.base_seq
<1> DEFINE first == FirstMissing(rw.base_seq, rw.received)
           left == ReleaseAcknowledged(rw)
<1>1. rw.received \in SUBSET Nat /\ rw.base_seq \in Nat /\ rw.highest_seq \in Nat
  BY DEF RecvWindowOK
<1>2. rw.highest_seq + 1 \in Nat /\ \A d \in rw.received : d < rw.highest_seq + 1
  BY <1>1
<1>3. /\ first \in Nat /\ first >= rw.base_seq /\ first \notin rw.received
      /\ \A d \in rw.base_seq .. (first - 1) : d \in rw.received
  BY ONLY Foundations, <1>1, <1>2, FirstMissingProperty
<1>. HIDE DEF first
<1>4. /\ RecvWindowOK(left)
      /\ left.base_seq = IF first <= rw.base_seq THEN rw.base_seq ELSE first
      /\ left.received = {d \in rw.received : d >= left.base_seq}
      /\ left.highest_seq = rw.highest_seq
      /\ left.next_channel_seq = rw.next_channel_seq
      /\ left.reorder_buf = rw.reorder_buf
  BY <1>3, AdvanceBaseProperty DEF ReleaseAcknowledged, first
<1>. HIDE DEF left
<1>5. left.base_seq = first
  BY <1>1, <1>3, <1>4
<1>6. rw.base_seq <= rw.highest_seq => first <= rw.highest_seq + 1
  <2>1. first > rw.base_seq => first - 1 \in rw.received
    BY <1>1, <1>3
  <2>. QED  BY <1>1, <1>2, <1>3, <2>1
<1>7. ~(rw.base_seq <= rw.highest_seq) => first = rw.base_seq
  <2>1. first > rw.base_seq => rw.base_seq \in rw.received
    BY <1>1, <1>3
  <2>. QED  BY <1>1, <1>2, <1>3, <2>1
<1>8. ~HasGaps(rw) => rw.highest_seq < first
  <2>1. CASE rw.base_seq <= rw.highest_seq
    <3>1. ~HasGaps(rw) => \A d \in rw.base_seq .. rw.highest_seq : d \in rw.received
      BY <2>1 DEF HasGaps
    <3>. QED  BY <1>1, <1>3, <3>1
  <2>2. CASE ~(rw.base_seq <= rw.highest_seq)
    BY <1>1, <1>3, <2>2
  <2>. QED  BY <2>1, <2>2
<1>9. \A d \in Nat : d < first => d < rw.base_seq \/ d \in rw.received
  BY <1>1, <1>3
<1>. QED  BY <1>3, <1>4, <1>5, <1>6, <1>7, <1>8, <1>9 DEF left

\* receive fills one slot and, unless the chunk was delivered, the reorder
\* buffer.
Fills(rw, d, c, data, filled) ==
  /\ RecvWindowOK(filled)
  /\ filled.base_seq = rw.base_seq
  /\ filled.received = rw.received \cup {d}
  /\ filled.highest_seq = IF rw.highest_seq >= d THEN rw.highest_seq ELSE d
  /\ filled.next_channel_seq = rw.next_channel_seq
  /\ \A e : e \in DOMAIN filled.reorder_buf <=>
              e \in DOMAIN rw.reorder_buf \/ (e = c /\ ~(c < rw.next_channel_seq))
  /\ \A e \in DOMAIN filled.reorder_buf :
       filled.reorder_buf[e] = IF e = c /\ ~(c < rw.next_channel_seq)
                               THEN data ELSE rw.reorder_buf[e]

LEMMA ReceiveProperty ==
  ASSUME NEW rw, RecvWindowOK(rw), NEW d \in Nat, NEW c \in Nat, NEW data \in Nat
  PROVE  Fills(rw, d, c, data, Receive(rw, d, c, data))
<1> DEFINE top == Max({rw.highest_seq, d})
           buf == IF c < rw.next_channel_seq
                  THEN rw.reorder_buf
                  ELSE [e \in DOMAIN rw.reorder_buf \cup {c} |->
                          IF e = c THEN data ELSE rw.reorder_buf[e]]
<1>1. Receive(rw, d, c, data) =
        [rw EXCEPT !.received = rw.received \cup {d}, !.highest_seq = top, !.reorder_buf = buf]
  BY DEF Receive, RecvWindowOK
<1>2. top = IF rw.highest_seq >= d THEN rw.highest_seq ELSE d
  <2>1. \E x \in {rw.highest_seq, d} : \A y \in {rw.highest_seq, d} : x >= y
    BY DEF RecvWindowOK
  <2>2. top \in {rw.highest_seq, d} /\ \A y \in {rw.highest_seq, d} : top >= y
    BY <2>1 DEF Max
  <2>. QED  BY <2>2 DEF RecvWindowOK
<1>3. /\ \A e : e \in DOMAIN buf <=> e \in DOMAIN rw.reorder_buf \/ (e = c /\ ~(c < rw.next_channel_seq))
      /\ \A e \in DOMAIN buf : buf[e] = IF e = c /\ ~(c < rw.next_channel_seq)
                                        THEN data ELSE rw.reorder_buf[e]
  OBVIOUS
<1>. HIDE DEF top, buf
<1>4. top \in Nat /\ DOMAIN buf \subseteq Nat /\ \A e \in DOMAIN buf : buf[e] \in Nat
  BY <1>2, <1>3 DEF RecvWindowOK
<1>. QED  BY <1>1, <1>2, <1>3, <1>4 DEF Fills, RecvWindowOK

\* drain_ordered hands over the chunks from the next one up to the first
\* missing one, and keeps the others.
LEMMA DrainProperty ==
  ASSUME Foundations, NEW rw, RecvWindowOK(rw), NEW bound \in Nat,
         \A c \in DOMAIN rw.reorder_buf : c < bound
  PROVE  LET left == DrainOrdered(rw)
             end == DrainEnd(rw)
         IN  /\ RecvWindowOK(left)
             /\ end \in Nat /\ rw.next_channel_seq <= end
             /\ rw.next_channel_seq <= bound => end <= bound
             /\ \A c \in rw.next_channel_seq .. (end - 1) : c \in DOMAIN rw.reorder_buf
             /\ end \notin DOMAIN rw.reorder_buf
             /\ left.next_channel_seq = end
             /\ left.base_seq = rw.base_seq
             /\ left.received = rw.received
             /\ left.highest_seq = rw.highest_seq
             /\ DOMAIN left.reorder_buf = {c \in DOMAIN rw.reorder_buf : c >= end}
             /\ \A c \in DOMAIN left.reorder_buf : left.reorder_buf[c] = rw.reorder_buf[c]
<1> DEFINE end == DrainEnd(rw)
           buf == Restrict(rw.reorder_buf, {c \in DOMAIN rw.reorder_buf : c >= end})
<1>1. DOMAIN rw.reorder_buf \in SUBSET Nat /\ rw.next_channel_seq \in Nat
  BY DEF RecvWindowOK
<1>2. /\ end \in Nat /\ end >= rw.next_channel_seq /\ end \notin DOMAIN rw.reorder_buf
      /\ \A c \in rw.next_channel_seq .. (end - 1) : c \in DOMAIN rw.reorder_buf
  BY <1>1, FirstMissingProperty DEF DrainEnd
<1>3. DrainOrdered(rw) = [rw EXCEPT !.next_channel_seq = end, !.reorder_buf = buf]
  BY DEF DrainOrdered, RecvWindowOK
<1>. HIDE DEF end
<1>4. /\ DOMAIN buf = {c \in DOMAIN rw.reorder_buf : c >= end}
      /\ \A c \in DOMAIN buf : buf[c] = rw.reorder_buf[c]
  BY DEF Restrict
<1>. HIDE DEF buf
<1>5. rw.next_channel_seq <= bound => end <= bound
  <2>1. end > rw.next_channel_seq => end - 1 \in DOMAIN rw.reorder_buf
    BY <1>1, <1>2
  <2>. QED  BY <1>1, <1>2, <2>1
<1>. QED  BY <1>2, <1>3, <1>4, <1>5 DEF RecvWindowOK, end

-----------------------------------------------------------------------------
(* Sequences *)

\* The length of a sequence is a natural number.
LEMMA SeqLength ==
  ASSUME NEW s \in Seq(Nat)
  PROVE  Len(s) \in Nat
BY SMTT(40)

\* A nonempty sequence loses its first element to Tail.
LEMMA SeqTail ==
  ASSUME NEW s \in Seq(Nat), s # <<>>
  PROVE  /\ Len(s) \in Nat \ {0}
         /\ Tail(s) \in Seq(Nat) /\ Len(Tail(s)) = Len(s) - 1
         /\ \A i \in 1 .. Len(Tail(s)) : Tail(s)[i] = s[i + 1]
BY SMTT(40)

\* Concatenation with a run of n numbers.
LEMMA ConcatRun ==
  ASSUME NEW s \in Seq(Nat), NEW n \in Nat, NEW t \in [1 .. n -> Nat]
  PROVE  /\ s \o t \in Seq(Nat) /\ Len(s \o t) = Len(s) + n
         /\ \A i \in 1 .. (Len(s) + n) : (s \o t)[i] = IF i <= Len(s) THEN s[i] ELSE t[i - Len(s)]
<1>1. t \in Seq(Nat) /\ Len(t) = n
  BY SMTT(40)
<1>2. Len(s) \in Nat /\ s \o t \in Seq(Nat) /\ Len(s \o t) = Len(s) + n
  BY <1>1, SMTT(40)
<1>3. ASSUME NEW i \in 1 .. (Len(s) + n), i <= Len(s)  PROVE (s \o t)[i] = s[i]
  BY <1>1, <1>2, <1>3, SMTT(40)
<1>4. ASSUME NEW i \in 1 .. (Len(s) + n), ~ (i <= Len(s))
      PROVE  (s \o t)[i] = t[i - Len(s)]
  BY <1>1, <1>2, <1>4, SMTT(40)
<1>. QED  BY <1>2, <1>3, <1>4

\* Appending the numbers that follow keeps a sequence counting from a start.
LEMMA CountOn ==
  ASSUME NEW start \in Int,
         NEW s \in Seq(Nat), \A i \in 1 .. Len(s) : s[i] = start + i,
         NEW n \in Nat, NEW t \in [1 .. n -> Nat], \A i \in 1 .. n : t[i] = start + Len(s) + i
  PROVE  /\ s \o t \in Seq(Nat) /\ Len(s \o t) = Len(s) + n
         /\ \A i \in 1 .. Len(s \o t) : (s \o t)[i] = start + i
<1>1. /\ s \o t \in Seq(Nat) /\ Len(s \o t) = Len(s) + n
      /\ \A i \in 1 .. (Len(s) + n) : (s \o t)[i] = IF i <= Len(s) THEN s[i] ELSE t[i - Len(s)]
  BY ConcatRun
<1>2. ASSUME NEW i \in 1 .. (Len(s) + n)  PROVE (s \o t)[i] = start + i
  <2>1. Len(s) \in Nat
    BY SeqLength
  <2>2. CASE i <= Len(s)
    BY <2>1, <2>2, <1>1, <1>2, SMTT(40)
  <2>3. CASE ~(i <= Len(s))
    <3>1. i - Len(s) \in 1 .. n
      BY <2>1, <2>3, <1>2, SMTT(40)
    <3>2. (s \o t)[i] = start + Len(s) + (i - Len(s))
      BY <2>3, <3>1, <1>1, <1>2
    <3>. QED  BY <2>1, <3>2, <1>2, SMTT(40)
  <2>. QED  BY <2>2, <2>3
<1>. QED  BY <1>1, <1>2

\* Sequences of the same length with the same elements are the same.
LEMMA SameSequence ==
  ASSUME NEW s \in Seq(Nat), NEW t \in Seq(Nat), Len(s) = Len(t),
         \A i \in 1 .. Len(t) : s[i] = t[i]
  PROVE  s = t
<1>1. /\ s = [i \in 1 .. Len(s) |-> s[i]]
      /\ t = [i \in 1 .. Len(t) |-> t[i]]
  BY SMTT(40)
<1>2. [i \in 1 .. Len(s) |-> s[i]] = [i \in 1 .. Len(t) |-> t[i]]
  BY Zenon
<1>. QED  BY ONLY <1>1, <1>2, Zenon

\* A sequence that counts from 1 is any shorter one with the numbers that
\* follow appended to it.
LEMMA CountingSequence ==
  ASSUME NEW s \in Seq(Nat), \A i \in 1 .. Len(s) : s[i] = i,
         NEW t \in Seq(Nat), \A i \in 1 .. Len(t) : t[i] = i, Len(s) <= Len(t)
  PROVE  t = s \o [i \in 1 .. (Len(t) - Len(s)) |-> Len(s) + i]
<1> DEFINE n == Len(t) - Len(s)
           run == [i \in 1 .. n |-> Len(s) + i]
<1>1. Len(s) \in Nat /\ Len(t) \in Nat /\ n \in Nat
  BY SeqLength, SMTT(40)
<1>2. run \in [1 .. n -> Nat] /\ \A i \in 1 .. n : run[i] = 0 + Len(s) + i
  BY <1>1, SMTT(40)
<1>3. 0 \in Int /\ \A i \in 1 .. Len(s) : s[i] = 0 + i
  BY <1>1, SMTT(40)
<1>. HIDE DEF run
<1>4. /\ s \o run \in Seq(Nat) /\ Len(s \o run) = Len(s) + n
      /\ \A i \in 1 .. Len(s \o run) : (s \o run)[i] = 0 + i
  <2>. HIDE DEF n
  <2>. QED  BY ONLY <1>1, <1>2, <1>3, CountOn, Zenon
<1>5. Len(s \o run) = Len(t)
  BY <1>1, <1>4, SMTT(40)
<1>6. \A i \in 1 .. Len(t) : (s \o run)[i] = t[i]
  BY <1>1, <1>4, <1>5, SMTT(40)
<1>7. s \o run = t
  <2>1. t \in Seq(Nat) /\ s \o run \in Seq(Nat)
    BY <1>4
  <2>. QED  BY ONLY <2>1, <1>5, <1>6, SameSequence, Zenon
<1>. QED  BY <1>7 DEF run
=============================================================================
