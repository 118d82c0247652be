----------------------------- MODULE UnitProofs -----------------------------
(***************************************************************************)
(* Proofs for the components that stand on their own, for every value of   *)
(* their constants: the reassembly of dynamic channel messages (Dvc), the  *)
(* chunks of static channel messages (Svc), the set of static channels     *)
(* (Set), and the requests and answers of the clipboard (Clip).            *)
(***************************************************************************)
EXTENDS Naturals, Sequences, TLAPS

CONSTANTS MaxDataSize, MaxMessageSize, MessageLens, MaxMessages, Deviating

VARIABLES sent, wire, delivered,
          side, open, failed, total_size, data, decompression_failed, desynchronized

USE ZenonT(5), SMTT(40), ZenonT(30), SMTT(41)

-----------------------------------------------------------------------------
(* Sequences and numbers *)

\* A product grows with its first factor.
LEMMA TimesMonotone ==
  ASSUME NEW a \in Nat, NEW b \in Nat, NEW d \in Nat, a <= b
  PROVE  a * d \in Nat /\ b * d \in Nat /\ a * d <= b * d
  BY SMT

\* The quotient rounded up is the first multiple that reaches the number.
LEMMA RoundedUp ==
  ASSUME NEW len \in Nat \ {0}, NEW d \in Nat \ {0}, NEW k \in Nat \ {0}
  PROVE  /\ (len + d - 1) \div d \in Nat \ {0}
         /\ k < (len + d - 1) \div d <=> k * d < len
<1> DEFINE q == (len + d - 1) \div d
<1>1. q \in Nat /\ d * q <= len + d - 1 /\ len + d - 1 < d * q + d
  BY SMT
<1> HIDE DEF q
<1>2. CASE k < q
  <2>1. (k + 1) * d <= q * d
    BY <1>1, <1>2, TimesMonotone
  <2> QED BY <1>1, <1>2, <2>1, SMT
<1>3. CASE ~(k < q)
  <2>1. q * d <= k * d
    BY <1>1, <1>3, TimesMonotone
  <2> QED BY <1>1, <1>3, <2>1, SMT
<1>4. q # 0
  BY <1>1, SMT
<1> QED BY <1>1, <1>2, <1>3, <1>4 DEF q

\* Two sequences are the same when their elements are.
LEMMA SameSequence ==
  ASSUME NEW S, NEW a \in Seq(S), NEW b \in Seq(S), Len(a) = Len(b),
         \A i \in 1 .. Len(a) : a[i] = b[i]
  PROVE  a = b
  OBVIOUS

\* A piece of a sequence.
LEMMA PieceOf ==
  ASSUME NEW S, NEW s \in Seq(S), NEW a \in Nat, NEW b \in Nat, a <= b, b <= Len(s)
  PROVE  /\ SubSeq(s, a + 1, b) \in Seq(S)
         /\ Len(SubSeq(s, a + 1, b)) = b - a
         /\ \A i \in 1 .. (b - a) : SubSeq(s, a + 1, b)[i] = s[a + i]
  OBVIOUS

\* Two adjacent pieces from the start are one, and the piece up to the end is all.
LEMMA PiecesJoin ==
  ASSUME NEW S, NEW s \in Seq(S), NEW a \in Nat, NEW b \in Nat, a <= b, b <= Len(s)
  PROVE  SubSeq(s, 1, a) \o SubSeq(s, a + 1, b) = SubSeq(s, 1, b)
<1> DEFINE one == SubSeq(s, 1, a)
           two == SubSeq(s, a + 1, b)
           all == SubSeq(s, 1, b)
<1>0. 0 + 1 = 1 /\ a - 0 = a /\ b - 0 = b /\ a <= Len(s)
  OBVIOUS
<1>1. one \in Seq(S) /\ Len(one) = a /\ \A i \in 1 .. a : one[i] = s[i]
  <2>1. \A i \in 1 .. a : 0 + i = i
    OBVIOUS
  <2>2. /\ SubSeq(s, 0 + 1, a) \in Seq(S) /\ Len(SubSeq(s, 0 + 1, a)) = a - 0
        /\ \A i \in 1 .. (a - 0) : SubSeq(s, 0 + 1, a)[i] = s[0 + i]
    BY <1>0, PieceOf
  <2> QED BY <1>0, <2>1, <2>2
<1>2. two \in Seq(S) /\ Len(two) = b - a /\ \A i \in 1 .. (b - a) : two[i] = s[a + i]
  BY PieceOf
<1>3. all \in Seq(S) /\ Len(all) = b /\ \A i \in 1 .. b : all[i] = s[i]
  OBVIOUS
<1> HIDE DEF one, two, all
<1>4. one \o two \in Seq(S) /\ Len(one \o two) = b
  BY <1>1, <1>2
<1>5. ASSUME NEW i \in 1 .. b PROVE (one \o two)[i] = all[i]
  <2>1. all[i] = s[i]
    BY <1>3
  <2>2. CASE i <= a
    <3>1. (one \o two)[i] = one[i]
      BY <1>1, <1>2, <2>2
    <3> QED BY <1>1, <2>1, <2>2, <3>1
  <2>3. CASE ~(i <= a)
    <3>1. (one \o two)[i] = two[i - a] /\ i - a \in 1 .. (b - a) /\ a + (i - a) = i
      BY <1>1, <1>2, <2>3
    <3> QED BY <1>2, <2>1, <3>1
  <2> QED BY <2>2, <2>3
<1>6. one \o two = all
  BY <1>3, <1>4, <1>5, SameSequence
<1> QED BY <1>6 DEF one, two, all

\* A sequence is the piece from its first to its last element.
LEMMA WholePiece ==
  ASSUME NEW S, NEW s \in Seq(S)
  PROVE  SubSeq(s, 1, Len(s)) = s
  OBVIOUS

\* How many pieces of size d a message of length len makes, and the kth.
CutCount(len, d) == IF len = 0 THEN 1 ELSE (len + d - 1) \div d
Cut(s, d, k) == SubSeq(s, (k - 1) * d + 1, IF k * d < Len(s) THEN k * d ELSE Len(s))

LEMMA CutCountProperty ==
  ASSUME NEW len \in Nat, NEW d \in Nat \ {0}, NEW k \in Nat \ {0}
  PROVE  /\ CutCount(len, d) \in Nat \ {0}
         /\ k < CutCount(len, d) <=> k * d < len
<1>1. CASE len = 0
  BY <1>1, TimesMonotone DEF CutCount
<1>2. CASE len # 0
  BY <1>2, RoundedUp DEF CutCount
<1> QED BY <1>1, <1>2

\* The kth piece goes from where those before it end, and none but the last
\* is short.
LEMMA CutProperty ==
  ASSUME NEW S, NEW s \in Seq(S), NEW d \in Nat \ {0}, NEW k \in 1 .. CutCount(Len(s), d)
  PROVE  LET lo == (k - 1) * d
             hi == IF k * d < Len(s) THEN k * d ELSE Len(s)
         IN  /\ lo \in Nat /\ hi \in Nat /\ lo <= hi /\ hi <= Len(s)
             /\ k = 1 => lo = 0
             /\ k > 1 => d < Len(s)
             /\ k * d < Len(s) <=> k < CutCount(Len(s), d)
             /\ Cut(s, d, k) \in Seq(S) /\ Len(Cut(s, d, k)) = hi - lo
             /\ SubSeq(s, 1, lo) \o Cut(s, d, k) = SubSeq(s, 1, hi)
             /\ SubSeq(s, 1, Len(s)) = s
<1> DEFINE len == Len(s)
           lo == (k - 1) * d
           step == k * d
           hi == IF step < len THEN step ELSE len
<1>1. len \in Nat /\ CutCount(len, d) \in Nat /\ k \in Nat \ {0} /\ k - 1 \in Nat
  <2>1. len \in Nat /\ 1 \in Nat \ {0}
    OBVIOUS
  <2>2. CutCount(len, d) \in Nat
    BY <2>1, CutCountProperty
  <2> QED BY <2>1, <2>2
<1>2. lo \in Nat /\ step \in Nat /\ lo <= step /\ (k = 1 => lo = 0) /\ (k > 1 => d <= lo)
  <2>1. lo \in Nat /\ step \in Nat /\ lo <= step
    BY <1>1, TimesMonotone
  <2>2. k > 1 => 1 * d <= lo
    BY <1>1, TimesMonotone
  <2> QED BY <1>1, <2>1, <2>2
<1>3. step < len <=> k < CutCount(len, d)
  BY <1>1, CutCountProperty
<1>4. k > 1 => lo < len
  <2> SUFFICES ASSUME k > 1 PROVE lo < len
    OBVIOUS
  <2>1. k - 1 \in Nat \ {0} /\ k - 1 < CutCount(len, d)
    BY <1>1
  <2> HIDE DEF len
  <2> QED BY <1>1, <2>1, CutCountProperty
<1> HIDE DEF lo, step
<1>5. hi \in Nat /\ lo <= hi /\ hi <= len /\ (k > 1 => d < len)
  BY <1>1, <1>2, <1>4
<1>7. Cut(s, d, k) = SubSeq(s, lo + 1, hi)
  BY DEF Cut, lo, step
<1> HIDE DEF hi
<1>8. SubSeq(s, lo + 1, hi) \in Seq(S) /\ Len(SubSeq(s, lo + 1, hi)) = hi - lo
  BY <1>2, <1>5, PieceOf
<1>9. SubSeq(s, 1, lo) \o SubSeq(s, lo + 1, hi) = SubSeq(s, 1, hi)
  BY <1>2, <1>5, PiecesJoin
<1>10. SubSeq(s, 1, len) = s
  BY WholePiece
<1> QED BY <1>2, <1>3, <1>5, <1>7, <1>8, <1>9, <1>10 DEF hi, lo, step

\* A sequence that has one element more.
LEMMA GrownSequence ==
  ASSUME NEW S, NEW a \in Seq(S), NEW b \in Seq(S), NEW n \in Nat,
         Len(b) = n, Len(a) = n + 1, \A i \in 1 .. n : a[i] = b[i]
  PROVE  a = Append(b, a[n + 1])
<1> DEFINE x == a[n + 1]
           c == Append(b, x)
<1>1. x \in S
  OBVIOUS
<1> HIDE DEF x
<1>2. c \in Seq(S) /\ Len(c) = n + 1 /\ c[n + 1] = x /\ \A i \in 1 .. n : c[i] = b[i]
  BY <1>1
<1> HIDE DEF c
<1>3. \A i \in 1 .. n + 1 : a[i] = c[i]
  BY <1>2 DEF x
<1>4. a = c
  BY <1>2, <1>3, SameSequence
<1> QED BY <1>4 DEF c, x

(***************************************************************************)
(* The units on their way, pdus, are the last ones of messages each cut    *)
(* into one or more, cut[m] being those of message m: the ith is the       *)
(* part[i]th of message msg[i].  The place after the last is the start of  *)
(* the message to come.                                                    *)
(***************************************************************************)
InFlight(pdus, cut, msg, part) ==
  /\ msg \in [1 .. Len(pdus) + 1 -> Nat] /\ part \in [1 .. Len(pdus) + 1 -> Nat]
  /\ \A i \in 1 .. Len(pdus) :
       /\ msg[i] \in 1 .. Len(cut) /\ part[i] \in 1 .. Len(cut[msg[i]])
       /\ pdus[i] = cut[msg[i]][part[i]]
       /\ part[i] < Len(cut[msg[i]]) => msg[i + 1] = msg[i] /\ part[i + 1] = part[i] + 1
       /\ part[i] = Len(cut[msg[i]]) => msg[i + 1] = msg[i] + 1 /\ part[i + 1] = 1
  /\ msg[Len(pdus) + 1] = Len(cut) + 1 /\ part[Len(pdus) + 1] = 1

\* A message sent goes to the end.
LEMMA InFlightGrows ==
  ASSUME NEW S, NEW pdus \in Seq(S), NEW cut \in Seq(Seq(S)), NEW msg, NEW part,
         InFlight(pdus, cut, msg, part), NEW unit \in Seq(S), Len(unit) # 0
  PROVE  \E m, p : /\ InFlight(pdus \o unit, Append(cut, unit), m, p)
                   /\ m[1] = msg[1] /\ p[1] = part[1]
<1> DEFINE n == Len(pdus)
           u == Len(unit)
           all == pdus \o unit
           cuts == Append(cut, unit)
           m == [i \in 1 .. n + u + 1 |-> IF i <= n THEN msg[i]
                                          ELSE IF i <= n + u THEN Len(cut) + 1 ELSE Len(cut) + 2]
           p == [i \in 1 .. n + u + 1 |-> IF i <= n THEN part[i] ELSE IF i <= n + u THEN i - n ELSE 1]
<1>1. n \in Nat /\ u \in Nat \ {0} /\ Len(cut) \in Nat
  OBVIOUS
<1>2. /\ all \in Seq(S) /\ Len(all) = n + u
      /\ \A i \in 1 .. n : all[i] = pdus[i]
      /\ \A i \in n + 1 .. n + u : all[i] = unit[i - n]
  BY <1>1
<1>3. /\ Len(cuts) = Len(cut) + 1 /\ cuts[Len(cut) + 1] = unit
      /\ \A j \in 1 .. Len(cut) : cuts[j] = cut[j]
  OBVIOUS
<1>4. /\ msg \in [1 .. n + 1 -> Nat] /\ part \in [1 .. n + 1 -> Nat]
      /\ msg[n + 1] = Len(cut) + 1 /\ part[n + 1] = 1
      /\ \A i \in 1 .. n :
           /\ msg[i] \in 1 .. Len(cut) /\ part[i] \in 1 .. Len(cut[msg[i]])
           /\ pdus[i] = cut[msg[i]][part[i]]
           /\ part[i] < Len(cut[msg[i]]) => msg[i + 1] = msg[i] /\ part[i + 1] = part[i] + 1
           /\ part[i] = Len(cut[msg[i]]) => msg[i + 1] = msg[i] + 1 /\ part[i + 1] = 1
  BY DEF InFlight
<1> HIDE DEF n, u, all, cuts
<1>5. m \in [1 .. n + u + 1 -> Nat] /\ p \in [1 .. n + u + 1 -> Nat]
  BY <1>1, <1>4
<1>6. /\ \A i \in 1 .. n + 1 : m[i] = msg[i] /\ p[i] = part[i]
      /\ \A i \in n + 1 .. n + u : m[i] = Len(cut) + 1 /\ p[i] = i - n
      /\ m[n + u + 1] = Len(cut) + 2 /\ p[n + u + 1] = 1
  BY <1>1, <1>4
<1> HIDE DEF m, p
<1>7. ASSUME NEW i \in 1 .. n + u
      PROVE  /\ m[i] \in 1 .. Len(cuts) /\ p[i] \in 1 .. Len(cuts[m[i]])
             /\ all[i] = cuts[m[i]][p[i]]
             /\ p[i] < Len(cuts[m[i]]) => m[i + 1] = m[i] /\ p[i + 1] = p[i] + 1
             /\ p[i] = Len(cuts[m[i]]) => m[i + 1] = m[i] + 1 /\ p[i + 1] = 1
  <2>1. CASE i \in 1 .. n
    <3>1. i \in 1 .. n + 1 /\ i + 1 \in 1 .. n + 1
      BY <1>1, <2>1
    <3>2. m[i] = msg[i] /\ p[i] = part[i] /\ m[i + 1] = msg[i + 1] /\ p[i + 1] = part[i + 1]
      BY <1>6, <3>1
    <3>3. m[i] \in 1 .. Len(cuts) /\ cuts[m[i]] = cut[msg[i]]
      BY <1>1, <1>3, <1>4, <2>1, <3>2
    <3> QED BY <1>2, <1>4, <2>1, <3>2, <3>3
  <2>2. CASE i \in n + 1 .. n + u
    <3>1. m[i] = Len(cut) + 1 /\ p[i] = i - n /\ cuts[m[i]] = unit /\ all[i] = unit[i - n]
      BY <1>2, <1>3, <1>6, <2>2
    <3>2. CASE i = n + u
      <4>1. p[i] = Len(cuts[m[i]]) /\ p[i] \in 1 .. Len(cuts[m[i]])
        BY <1>1, <3>1, <3>2 DEF u
      <4>2. m[i + 1] = m[i] + 1 /\ p[i + 1] = 1
        BY <1>1, <1>6, <3>1, <3>2
      <4> QED BY <1>1, <1>3, <3>1, <4>1, <4>2
    <3>3. CASE i # n + u
      <4>1. i + 1 \in n + 1 .. n + u
        BY <1>1, <2>2, <3>3
      <4>2. m[i + 1] = Len(cut) + 1 /\ p[i + 1] = (i + 1) - n
        BY <1>6, <4>1
      <4>3. p[i] < Len(cuts[m[i]]) /\ p[i] \in 1 .. Len(cuts[m[i]]) /\ (i + 1) - n = i - n + 1
        BY <1>1, <2>2, <3>1, <3>3 DEF u
      <4> QED BY <1>1, <1>3, <3>1, <4>2, <4>3
    <3> QED BY <3>2, <3>3
  <2> QED BY <1>1, <2>1, <2>2
<1>8. InFlight(all, cuts, m, p)
  BY <1>1, <1>2, <1>3, <1>5, <1>6, <1>7 DEF InFlight
<1>9. m[1] = msg[1] /\ p[1] = part[1]
  BY <1>1, <1>6
<1> QED BY <1>8, <1>9 DEF all, cuts

\* The first is taken off.
LEMMA InFlightShrinks ==
  ASSUME NEW S, NEW pdus \in Seq(S), NEW cut \in Seq(Seq(S)), NEW msg, NEW part,
         InFlight(pdus, cut, msg, part), pdus # <<>>
  PROVE  \E m, p : /\ InFlight(Tail(pdus), cut, m, p)
                   /\ m[1] = msg[2] /\ p[1] = part[2]
<1> DEFINE n == Len(pdus)
           rest == Tail(pdus)
           m == [i \in 1 .. n |-> msg[i + 1]]
           p == [i \in 1 .. n |-> part[i + 1]]
<1>1. n \in Nat \ {0} /\ Len(rest) = n - 1 /\ \A i \in 1 .. n - 1 : rest[i] = pdus[i + 1]
  OBVIOUS
<1>2. /\ msg \in [1 .. n + 1 -> Nat] /\ part \in [1 .. n + 1 -> Nat]
      /\ msg[n + 1] = Len(cut) + 1 /\ part[n + 1] = 1
      /\ \A i \in 1 .. n :
           /\ msg[i] \in 1 .. Len(cut) /\ part[i] \in 1 .. Len(cut[msg[i]])
           /\ pdus[i] = cut[msg[i]][part[i]]
           /\ part[i] < Len(cut[msg[i]]) => msg[i + 1] = msg[i] /\ part[i + 1] = part[i] + 1
           /\ part[i] = Len(cut[msg[i]]) => msg[i + 1] = msg[i] + 1 /\ part[i + 1] = 1
  BY DEF InFlight
<1> HIDE DEF n, rest
<1>3. m \in [1 .. n -> Nat] /\ p \in [1 .. n -> Nat]
  BY <1>1, <1>2
<1>4. \A i \in 1 .. n : m[i] = msg[i + 1] /\ p[i] = part[i + 1]
  OBVIOUS
<1> HIDE DEF m, p
<1>5. ASSUME NEW i \in 1 .. n - 1
      PROVE  /\ m[i] \in 1 .. Len(cut) /\ p[i] \in 1 .. Len(cut[m[i]])
             /\ rest[i] = cut[m[i]][p[i]]
             /\ p[i] < Len(cut[m[i]]) => m[i + 1] = m[i] /\ p[i + 1] = p[i] + 1
             /\ p[i] = Len(cut[m[i]]) => m[i + 1] = m[i] + 1 /\ p[i + 1] = 1
  <2>1. i \in 1 .. n /\ i + 1 \in 1 .. n
    BY <1>1
  <2>2. m[i] = msg[i + 1] /\ p[i] = part[i + 1] /\ m[i + 1] = msg[i + 1 + 1] /\ p[i + 1] = part[i + 1 + 1]
    BY <1>4, <2>1
  <2> QED BY <1>1, <1>2, <2>1, <2>2
<1>6. InFlight(rest, cut, m, p)
  BY <1>1, <1>2, <1>3, <1>4, <1>5 DEF InFlight
<1>7. m[1] = msg[2] /\ p[1] = part[2]
  BY <1>1, <1>4
<1> QED BY <1>6, <1>7 DEF rest

-----------------------------------------------------------------------------
(* Dynamic channel messages *)

Dvc == INSTANCE DvcReassembly

\* Sizes are numbers, and a PDU has room for data.
DvcSizes ==
  /\ MaxDataSize \in Nat \ {0} /\ MaxMessageSize \in Nat
  /\ MessageLens \subseteq Nat /\ MaxMessages \in Nat

DvcBytes == Seq(Nat \X Nat)
DvcPdus == [first : BOOLEAN, length : Nat, compressed : BOOLEAN, bytes : DvcBytes]

DvcTypes ==
  /\ sent \in Seq(Nat) /\ wire \in Seq(DvcPdus) /\ delivered \in Seq(DvcBytes)
  /\ side \in {"client", "server"} /\ open \in BOOLEAN /\ failed \in BOOLEAN
  /\ total_size \in Nat /\ data \in DvcBytes
  /\ decompression_failed \in BOOLEAN /\ desynchronized \in BOOLEAN

\* A block lost to the history has been noticed: decompress set the flag.
DvcInv ==
  /\ DvcTypes
  /\ Dvc!LimitsKept
  /\ desynchronized => decompression_failed

\* A message is a sequence of bytes as long as it says.
LEMMA DvcMessage ==
  ASSUME NEW m \in Nat, NEW len \in Nat
  PROVE  Dvc!Message(m, len) \in DvcBytes /\ Len(Dvc!Message(m, len)) = len
  BY DEF Dvc!Message, DvcBytes

\* The number of PDUs is what the length takes.
LEMMA DvcPduCount ==
  ASSUME DvcSizes, NEW len \in Nat, NEW k \in Nat \ {0}
  PROVE  /\ Dvc!PduCount(len) \in Nat \ {0}
         /\ k < Dvc!PduCount(len) <=> k * MaxDataSize < len
  BY CutCountProperty DEF Dvc!PduCount, CutCount, DvcSizes

\* What the kth PDU of a message holds.
DvcPart(m, len, k) == Cut(Dvc!Message(m, len), MaxDataSize, k)

\* The bytes of the kth PDU: from where the PDUs before it end, and none but
\* the last is short.
LEMMA DvcPartProperty ==
  ASSUME DvcSizes, NEW m \in Nat, NEW len \in Nat, NEW k \in 1 .. Dvc!PduCount(len)
  PROVE  LET lo == (k - 1) * MaxDataSize
             hi == IF k * MaxDataSize < len THEN k * MaxDataSize ELSE len
         IN  /\ lo \in Nat /\ hi \in Nat /\ lo <= hi /\ hi <= len
             /\ k = 1 => lo = 0
             /\ k > 1 => MaxDataSize < len
             /\ k * MaxDataSize < len <=> k < Dvc!PduCount(len)
             /\ DvcPart(m, len, k) \in DvcBytes /\ Len(DvcPart(m, len, k)) = hi - lo
             /\ SubSeq(Dvc!Message(m, len), 1, lo) \o DvcPart(m, len, k) = SubSeq(Dvc!Message(m, len), 1, hi)
             /\ SubSeq(Dvc!Message(m, len), 1, len) = Dvc!Message(m, len)
<1> DEFINE message == Dvc!Message(m, len)
<1>1. message \in DvcBytes /\ Len(message) = len
  BY DvcMessage
<1>2. Dvc!PduCount(len) = CutCount(len, MaxDataSize)
  BY DEF Dvc!PduCount, CutCount
<1>3. DvcPart(m, len, k) = Cut(message, MaxDataSize, k) /\ MaxDataSize \in Nat \ {0}
  BY DEF DvcPart, DvcSizes
<1> HIDE DEF message
<1>4. k \in 1 .. CutCount(Len(message), MaxDataSize) /\ message \in Seq(Nat \X Nat)
  BY <1>1, <1>2 DEF DvcBytes
<1> DEFINE lo == (k - 1) * MaxDataSize
           hi == IF k * MaxDataSize < Len(message) THEN k * MaxDataSize ELSE Len(message)
           piece == Cut(message, MaxDataSize, k)
<1>5. /\ lo \in Nat /\ hi \in Nat /\ lo <= hi /\ hi <= Len(message)
      /\ k = 1 => lo = 0
      /\ k > 1 => MaxDataSize < Len(message)
      /\ k * MaxDataSize < Len(message) <=> k < CutCount(Len(message), MaxDataSize)
      /\ piece \in Seq(Nat \X Nat) /\ Len(piece) = hi - lo
      /\ SubSeq(message, 1, lo) \o piece = SubSeq(message, 1, hi)
      /\ SubSeq(message, 1, Len(message)) = message
  BY <1>3, <1>4, CutProperty
<1> QED BY <1>1, <1>2, <1>3, <1>5, Zenon DEF DvcBytes, message

\* Encode makes PDUs, one after the other.
LEMMA DvcEncode ==
  ASSUME DvcSizes, NEW m \in Nat, NEW len \in Nat
  PROVE  /\ Dvc!Encode(m, len) \in Seq(DvcPdus)
         /\ Len(Dvc!Encode(m, len)) = Dvc!PduCount(len)
         /\ \A k \in 1 .. Dvc!PduCount(len) :
              Dvc!Encode(m, len)[k] =
                [first |-> MaxDataSize < len /\ k = 1,
                 length |-> IF MaxDataSize < len /\ k = 1 THEN len ELSE 0,
                 compressed |-> FALSE, bytes |-> DvcPart(m, len, k)]
<1> DEFINE count == Dvc!PduCount(len)
<1>1. count \in Nat
  BY DvcPduCount
<1>2. ASSUME NEW k \in 1 .. count
      PROVE  /\ DvcPart(m, len, k) \in DvcBytes
             /\ Dvc!Encode(m, len)[k] =
                [first |-> MaxDataSize < len /\ k = 1,
                 length |-> IF MaxDataSize < len /\ k = 1 THEN len ELSE 0,
                 compressed |-> FALSE, bytes |-> DvcPart(m, len, k)]
  <2>1. DvcPart(m, len, k) \in DvcBytes
    BY DvcPartProperty
  <2>2. Dvc!Encode(m, len)[k] =
          IF MaxDataSize < len /\ k = 1 THEN Dvc!DataFirstPdu(len, DvcPart(m, len, k))
          ELSE Dvc!DataPdu(DvcPart(m, len, k))
    BY <1>1, DvcMessage DEF Dvc!Encode, Dvc!NeedsSplitting, DvcPart, Cut
  <2> QED BY <2>1, <2>2 DEF Dvc!DataFirstPdu, Dvc!DataPdu
<1>3. Dvc!Encode(m, len) = [k \in 1 .. count |-> Dvc!Encode(m, len)[k]]
  BY <1>1 DEF Dvc!Encode
<1>4. ASSUME NEW k \in 1 .. count PROVE Dvc!Encode(m, len)[k] \in DvcPdus
  <2> DEFINE first == MaxDataSize < len /\ k = 1
             length == IF MaxDataSize < len /\ k = 1 THEN len ELSE 0
  <2>1. first \in BOOLEAN /\ length \in Nat
    OBVIOUS
  <2> HIDE DEF first, length
  <2>2. [first |-> first, length |-> length, compressed |-> FALSE, bytes |-> DvcPart(m, len, k)]
        \in DvcPdus
    BY <1>2, <2>1 DEF DvcPdus
  <2> QED BY <1>2, <2>2 DEF first, length
<1> HIDE DEF count
<1>5. Dvc!Encode(m, len) \in Seq(DvcPdus) /\ Len(Dvc!Encode(m, len)) = count
  BY <1>1, <1>3, <1>4, SMTT(40)
<1> QED BY <1>2, <1>5 DEF count

\* Sending leaves what was received alone.
LEMMA DvcSendKeeps ==
  ASSUME DvcSizes, DvcInv, NEW len \in MessageLens, Dvc!Send(len)
  PROVE  DvcInv'
<1>1. len \in Nat /\ Len(sent) + 1 \in Nat
  BY DEF DvcSizes, DvcInv, DvcTypes
<1>2. Dvc!Encode(Len(sent) + 1, len) \in Seq(DvcPdus)
  BY <1>1, DvcEncode
<1>3. sent' \in Seq(Nat) /\ wire' \in Seq(DvcPdus)
  BY <1>1, <1>2 DEF DvcInv, DvcTypes, Dvc!Send
<1> QED BY <1>3 DEF DvcInv, DvcTypes, Dvc!LimitsKept, Dvc!Send

LEMMA DvcSendDeviatingKeeps ==
  ASSUME DvcSizes, DvcInv, NEW pdu \in Dvc!Pdus, Dvc!SendDeviating(pdu)
  PROVE  DvcInv'
<1>1. PICK n \in MessageLens : pdu.bytes = Dvc!Message(Len(sent) + 1, n)
  BY DEF Dvc!Pdus
<1>2. pdu.bytes \in DvcBytes
  BY <1>1, DvcMessage DEF DvcInv, DvcTypes, DvcSizes
<1>3. pdu \in DvcPdus
  BY <1>2 DEF Dvc!Pdus, DvcPdus, DvcSizes
<1>4. sent' \in Seq(Nat) /\ wire' \in Seq(DvcPdus)
  BY <1>2, <1>3 DEF DvcInv, DvcTypes, DvcBytes, Dvc!SendDeviating
<1> QED BY <1>4 DEF DvcInv, DvcTypes, Dvc!LimitsKept, Dvc!SendDeviating

\* A message that is within the limit, or the server's, may complete.
LEMMA DvcCompletesKeeps ==
  ASSUME DvcSizes, DvcInv, NEW message \in DvcBytes, Dvc!Completes(message),
         side = "client" => Len(message) <= MaxMessageSize
  PROVE  /\ open' \in BOOLEAN /\ failed' \in BOOLEAN
         /\ total_size' \in Nat /\ data' \in DvcBytes /\ delivered' \in Seq(DvcBytes)
         /\ Dvc!LimitsKept'
<1> USE DEF DvcInv, DvcTypes, Dvc!NoSize
<1>1. total_size' = 0 /\ data' = <<>> /\ open' \in BOOLEAN /\ failed' \in BOOLEAN
  BY DEF Dvc!Completes, Dvc!Closes, Dvc!NothingPending
<1>2. CASE delivered' = delivered
  BY <1>1, <1>2 DEF DvcBytes, Dvc!LimitsKept
<1>3. CASE delivered' = Append(delivered, message) /\ Len(message) <= MaxMessageSize
  <2>1. delivered' \in Seq(DvcBytes)
    BY <1>3
  <2>2. \A i \in 1 .. Len(delivered') : Len(delivered'[i]) <= MaxMessageSize
    BY <1>3 DEF Dvc!LimitsKept
  <2> QED BY <1>1, <2>1, <2>2 DEF DvcBytes, Dvc!LimitsKept
<1>4. Len(message) \in Nat
  BY DEF DvcBytes
<1>5. Len(message) <= MaxMessageSize \/ MaxMessageSize < Len(message)
  BY <1>4 DEF DvcSizes
<1> QED BY <1>2, <1>3, <1>5 DEF Dvc!Completes, Dvc!Closes

\* Whatever CompleteData makes of a PDU whose length the server has let pass.
LEMMA DvcCompleteDataKeeps ==
  ASSUME DvcSizes, DvcInv, NEW pdu \in DvcPdus, ~Dvc!DeclaredTooLong(pdu), Dvc!CompleteData(pdu)
  PROVE  /\ open' \in BOOLEAN /\ failed' \in BOOLEAN
         /\ total_size' \in Nat /\ data' \in DvcBytes /\ delivered' \in Seq(DvcBytes)
         /\ Dvc!LimitsKept'
<1> USE DEF DvcInv, DvcTypes, Dvc!NoSize
<1> DEFINE bytes == pdu.bytes
           length == pdu.length
           size == Len(data) + Len(bytes)
<1>1. bytes \in DvcBytes /\ Len(bytes) \in Nat /\ length \in Nat /\ pdu.first \in BOOLEAN
  BY DEF DvcPdus, DvcBytes
<1>2. data \in DvcBytes /\ Len(data) \in Nat /\ size \in Nat
  BY <1>1 DEF DvcBytes
<1>3. data \o bytes \in DvcBytes /\ Len(data \o bytes) = size
  BY <1>1, <1>2 DEF DvcBytes
<1>4. side # "server" => side = "client"
  OBVIOUS
<1> HIDE DEF bytes, length, size
<1>5. CASE Dvc!Fails /\ (Dvc!NothingPending \/ UNCHANGED <<total_size, data>>)
  <2>1. /\ open' = open /\ failed' = TRUE /\ delivered' = delivered
        /\ (total_size' = 0 /\ data' = <<>>) \/ (total_size' = total_size /\ data' = data)
    BY <1>5, Zenon DEF Dvc!Fails, Dvc!NothingPending
  <2>2. open' \in BOOLEAN /\ failed' \in BOOLEAN /\ delivered' \in Seq(DvcBytes)
    BY <2>1
  <2>3. CASE total_size' = 0 /\ data' = <<>>
    BY <2>1, <2>2, <2>3 DEF DvcBytes, Dvc!LimitsKept
  <2>4. CASE total_size' = total_size /\ data' = data
    BY <2>1, <2>2, <2>4 DEF Dvc!LimitsKept
  <2> QED BY <2>1, <2>3, <2>4
<1>6. CASE /\ UNCHANGED <<open, failed, delivered>>
           /\ total_size' \in Nat /\ data' \in DvcBytes /\ Len(data') < total_size'
           /\ total_size' <= MaxMessageSize
  <2>1. total_size' # 0
    BY <1>6 DEF DvcBytes
  <2> QED BY <1>6, <2>1 DEF Dvc!LimitsKept
<1>7. CASE pdu.first
  <2>1. Dvc!ProcessDataFirst(length, bytes)
    BY <1>7 DEF Dvc!CompleteData, bytes, length
  <2>2. CASE Dvc!TooLong(length) \/ length < Len(bytes)
    BY <1>5, <2>1, <2>2 DEF Dvc!ProcessDataFirst
  <2>3. CASE ~Dvc!TooLong(length) /\ ~(length < Len(bytes))
    <3>1. length <= MaxMessageSize
      BY <1>1, <1>4, <1>7, <2>3 DEF Dvc!TooLong, Dvc!DeclaredTooLong, DvcSizes, length
    <3>2. CASE length = Len(bytes)
      BY <1>1, <2>1, <2>3, <3>1, <3>2, DvcCompletesKeeps DEF Dvc!ProcessDataFirst
    <3>3. CASE length # Len(bytes)
      BY <1>1, <1>6, <2>1, <2>3, <3>1, <3>3 DEF Dvc!ProcessDataFirst
    <3> QED BY <3>2, <3>3
  <2> QED BY <2>2, <2>3
<1>8. CASE ~pdu.first
  <2>1. Dvc!ProcessDataBlock(bytes)
    BY <1>8 DEF Dvc!CompleteData, bytes
  <2>2. CASE total_size = 0
    <3>1. CASE Dvc!TooLong(Len(bytes))
      BY <1>5, <2>1, <2>2, <3>1 DEF Dvc!ProcessDataBlock
    <3>2. CASE ~Dvc!TooLong(Len(bytes))
      <4>1. Dvc!Completes(bytes)
        BY <2>1, <2>2, <3>2 DEF Dvc!ProcessDataBlock
      <4>2. side = "client" => Len(bytes) <= MaxMessageSize
        BY <1>1, <3>2 DEF Dvc!TooLong, DvcSizes
      <4> QED BY <1>1, <4>1, <4>2, DvcCompletesKeeps
    <3> QED BY <3>1, <3>2
  <2>3. CASE total_size # 0
    <3>1. total_size \in Nat /\ total_size <= MaxMessageSize
      BY <2>3 DEF Dvc!LimitsKept
    <3>2. CASE size < total_size
      <4>1. Len(data) + Len(bytes) < total_size /\ ~(Len(data) + Len(bytes) > total_size)
            /\ Len(data) + Len(bytes) # total_size
        BY <1>2, <3>1, <3>2 DEF size
      <4>2. data' = data \o bytes /\ UNCHANGED <<total_size, open, failed, delivered>>
        BY <2>1, <2>3, <4>1 DEF Dvc!ProcessDataBlock
      <4> QED BY <1>3, <1>6, <3>1, <3>2, <4>2
    <3>3. CASE size = total_size
      <4>1. Len(data) + Len(bytes) = total_size /\ ~(Len(data) + Len(bytes) < total_size)
            /\ ~(Len(data) + Len(bytes) > total_size)
        BY <1>2, <3>1, <3>3 DEF size
      <4>2. Dvc!Completes(data \o bytes)
        BY <2>1, <2>3, <4>1 DEF Dvc!ProcessDataBlock
      <4> QED BY <1>3, <3>1, <3>3, <4>2, DvcCompletesKeeps
    <3>4. CASE size > total_size
      <4>1. Len(data) + Len(bytes) > total_size /\ ~(Len(data) + Len(bytes) < total_size)
            /\ Len(data) + Len(bytes) # total_size
        BY <1>2, <3>1, <3>4 DEF size
      <4>2. Dvc!Fails /\ Dvc!NothingPending
        BY <2>1, <2>3, <4>1 DEF Dvc!ProcessDataBlock
      <4> QED BY <1>5, <4>2
    <3> QED BY <1>2, <3>1, <3>2, <3>3, <3>4
  <2> QED BY <2>2, <2>3
<1> QED BY <1>1, <1>7, <1>8

\* process_data of either side, decompress included.
LEMMA DvcProcessKeeps ==
  ASSUME DvcSizes, DvcInv, NEW ok \in BOOLEAN, Dvc!Process(ok)
  PROVE  DvcInv'
<1> DEFINE pdu == Head(wire)
<1>1. pdu \in DvcPdus /\ wire' \in Seq(DvcPdus) /\ UNCHANGED <<side, sent>>
  BY DEF DvcInv, DvcTypes, Dvc!Process
<1> HIDE DEF pdu
<1>2. SUFFICES /\ open' \in BOOLEAN /\ failed' \in BOOLEAN
               /\ total_size' \in Nat /\ data' \in DvcBytes /\ delivered' \in Seq(DvcBytes)
               /\ Dvc!LimitsKept'
               /\ decompression_failed' \in BOOLEAN /\ desynchronized' \in BOOLEAN
               /\ desynchronized' => decompression_failed'
  BY <1>1 DEF DvcInv, DvcTypes
<1>3. CASE ~open
  <2>1. UNCHANGED <<open, failed, total_size, data, decompression_failed, desynchronized, delivered>>
    BY <1>3 DEF Dvc!Process
  <2> QED BY <2>1 DEF DvcInv, DvcTypes, Dvc!LimitsKept
<1>4. CASE open /\ Dvc!DeclaredTooLong(pdu)
  <2>1. Dvc!Closes /\ UNCHANGED <<decompression_failed, desynchronized>>
    BY <1>4 DEF Dvc!Process, pdu
  <2>2. /\ open' = FALSE /\ failed' = failed /\ total_size' = 0 /\ data' = <<>> /\ delivered' = delivered
        /\ decompression_failed' = decompression_failed /\ desynchronized' = desynchronized
    BY <2>1 DEF Dvc!Closes, Dvc!NothingPending, Dvc!NoSize
  <2>3. data' \in DvcBytes
    BY <2>2 DEF DvcBytes
  <2> QED BY <2>2, <2>3 DEF DvcInv, DvcTypes, Dvc!LimitsKept, Dvc!NoSize
<1>5. CASE open /\ ~Dvc!DeclaredTooLong(pdu) /\ Dvc!CompleteData(pdu)
           /\ UNCHANGED <<decompression_failed, desynchronized>>
  <2>1. /\ decompression_failed' \in BOOLEAN /\ desynchronized' \in BOOLEAN
        /\ desynchronized' => decompression_failed'
    BY <1>5 DEF DvcInv, DvcTypes
  <2> QED BY <1>1, <1>5, <2>1, DvcCompleteDataKeeps
<1>6. CASE open /\ ~Dvc!DeclaredTooLong(pdu) /\ pdu.compressed /\ ~(ok /\ ~decompression_failed)
  <2>1. /\ Dvc!Fails /\ decompression_failed' = TRUE /\ UNCHANGED <<total_size, data>>
        /\ desynchronized' = (desynchronized \/ ~ok)
    BY <1>6 DEF Dvc!Process, Dvc!Decompress, pdu
  <2>2. UNCHANGED <<open, total_size, data, delivered>> /\ failed' \in BOOLEAN
    BY <2>1 DEF Dvc!Fails
  <2>3. decompression_failed' \in BOOLEAN /\ desynchronized' \in BOOLEAN
    BY <2>1
  <2> QED BY <2>1, <2>2, <2>3 DEF DvcInv, DvcTypes, Dvc!LimitsKept
<1>7. CASE open /\ ~Dvc!DeclaredTooLong(pdu) /\ pdu.compressed /\ ok /\ ~decompression_failed
  <2>1. Dvc!CompleteData(pdu) /\ UNCHANGED decompression_failed /\ desynchronized' = (desynchronized \/ ~ok)
    BY <1>7 DEF Dvc!Process, Dvc!Decompress, pdu
  <2>2. UNCHANGED desynchronized
    BY <1>7, <2>1 DEF DvcInv, DvcTypes
  <2> QED BY <1>5, <1>7, <2>1, <2>2
<1>8. CASE open /\ ~Dvc!DeclaredTooLong(pdu) /\ ~pdu.compressed
  BY <1>5, <1>8 DEF Dvc!Process, pdu
<1> QED BY <1>3, <1>4, <1>6, <1>7, <1>8

LEMMA DvcInvStarts ==
  ASSUME DvcSizes, Dvc!Init
  PROVE  DvcInv
<1>1. DvcTypes
  <2>1. sent = <<>> /\ wire = <<>> /\ delivered = <<>> /\ data = <<>> /\ total_size = 0
    BY DEF Dvc!Init, Dvc!NoSize
  <2>2. sent \in Seq(Nat) /\ wire \in Seq(DvcPdus) /\ delivered \in Seq(DvcBytes) /\ data \in DvcBytes
    BY <2>1 DEF DvcBytes
  <2>3. total_size \in Nat
    BY <2>1
  <2> QED BY <2>2, <2>3, Zenon DEF DvcTypes, Dvc!Init
<1>2. Dvc!LimitsKept
  BY DEF Dvc!Init, Dvc!LimitsKept, Dvc!NoSize
<1> QED BY <1>1, <1>2 DEF DvcInv, Dvc!Init

LEMMA DvcInvKept ==
  ASSUME DvcSizes, DvcInv, [Dvc!Next]_(Dvc!vars)
  PROVE  DvcInv'
<1>1. CASE UNCHANGED Dvc!vars
  BY <1>1 DEF DvcInv, DvcTypes, Dvc!vars, Dvc!LimitsKept
<1>2. CASE Dvc!Next
  BY <1>2, DvcSendKeeps, DvcSendDeviatingKeeps, DvcProcessKeeps DEF Dvc!Next
<1> QED BY <1>1, <1>2

\* CompleteData keeps no more of a message than was declared and than the
\* limit, and nothing between messages, whatever a peer sends.
THEOREM DvcLimitsKept ==
  ASSUME DvcSizes
  PROVE  Dvc!Spec => []Dvc!LimitsKept
<1>1. Dvc!Init => DvcInv
  BY DvcInvStarts
<1>2. DvcInv /\ [Dvc!Next]_(Dvc!vars) => DvcInv'
  BY DvcInvKept
<1>3. DvcInv => Dvc!LimitsKept
  BY DEF DvcInv
<1> QED BY <1>1, <1>2, <1>3, PTL DEF Dvc!Spec

\* Nothing is decompressed with a history that has lost a block (decompress).
THEOREM DvcNothingStale ==
  ASSUME DvcSizes
  PROVE  Dvc!Spec => [][Dvc!NothingStale]_(Dvc!vars)
<1>1. Dvc!Init => DvcInv
  BY DvcInvStarts
<1>2. DvcInv /\ [Dvc!Next]_(Dvc!vars) => DvcInv'
  BY DvcInvKept
<1>3. DvcInv /\ [Dvc!Next]_(Dvc!vars) => [Dvc!NothingStale]_(Dvc!vars)
  <2> SUFFICES ASSUME DvcInv, Dvc!Next, desynchronized, Head(wire).compressed
               PROVE  UNCHANGED <<delivered, data>> \/ ~open'
    BY DEF Dvc!NothingStale
  <2>1. decompression_failed
    BY DEF DvcInv
  <2>2. ASSUME NEW len \in MessageLens, Dvc!Send(len) PROVE UNCHANGED <<delivered, data>>
    BY <2>2 DEF Dvc!Send
  <2>3. ASSUME NEW pdu \in Dvc!Pdus, Dvc!SendDeviating(pdu) PROVE UNCHANGED <<delivered, data>>
    BY <2>3 DEF Dvc!SendDeviating
  <2>4. ASSUME NEW ok \in BOOLEAN, Dvc!Process(ok) PROVE UNCHANGED <<delivered, data>> \/ ~open'
    <3>1. CASE ~open
      BY <2>4, <3>1 DEF Dvc!Process
    <3>2. CASE open /\ Dvc!DeclaredTooLong(Head(wire))
      BY <2>4, <3>2 DEF Dvc!Process, Dvc!Closes
    <3>3. CASE open /\ ~Dvc!DeclaredTooLong(Head(wire))
      BY <2>1, <2>4, <3>3 DEF Dvc!Process, Dvc!Decompress, Dvc!Fails
    <3> QED BY <3>1, <3>2, <3>3
  <2> QED BY <2>2, <2>3, <2>4 DEF Dvc!Next
<1> QED BY <1>1, <1>2, <1>3, PTL DEF Dvc!Spec

\* The PDUs of each message.
DvcCut(lens) == [m \in 1 .. Len(lens) |-> Dvc!Encode(m, lens[m])]

LEMMA DvcCutTyped ==
  ASSUME DvcSizes, NEW lens \in Seq(Nat)
  PROVE  /\ DvcCut(lens) \in Seq(Seq(DvcPdus)) /\ Len(DvcCut(lens)) = Len(lens)
         /\ \A m \in 1 .. Len(lens) : /\ DvcCut(lens)[m] = Dvc!Encode(m, lens[m])
                                      /\ Len(DvcCut(lens)[m]) = Dvc!PduCount(lens[m])
<1>1. Len(lens) \in Nat /\ \A m \in 1 .. Len(lens) : m \in Nat /\ lens[m] \in Nat
  OBVIOUS
<1>2. \A m \in 1 .. Len(lens) : /\ Dvc!Encode(m, lens[m]) \in Seq(DvcPdus)
                                /\ Len(Dvc!Encode(m, lens[m])) = Dvc!PduCount(lens[m])
  BY <1>1, DvcEncode
<1> DEFINE encoded(m) == Dvc!Encode(m, lens[m])
<1>3. \A m \in 1 .. Len(lens) : encoded(m) \in Seq(DvcPdus)
  BY <1>2
<1>4. DvcCut(lens) = [m \in 1 .. Len(lens) |-> encoded(m)]
  BY DEF DvcCut
<1> HIDE DEF encoded
<1>5. DvcCut(lens) \in Seq(Seq(DvcPdus)) /\ Len(DvcCut(lens)) = Len(lens)
  BY <1>1, <1>3, <1>4, SMTT(40)
<1>6. \A m \in 1 .. Len(lens) : DvcCut(lens)[m] = encoded(m)
  BY <1>4
<1> QED BY <1>2, <1>5, <1>6 DEF encoded

LEMMA DvcCutGrows ==
  ASSUME DvcSizes, NEW lens \in Seq(Nat), NEW len \in Nat
  PROVE  DvcCut(Append(lens, len)) = Append(DvcCut(lens), Dvc!Encode(Len(lens) + 1, len))
<1> DEFINE longer == Append(lens, len)
           n == Len(lens)
           unit == Dvc!Encode(n + 1, len)
           a == DvcCut(longer)
           b == DvcCut(lens)
<1>1. longer \in Seq(Nat) /\ n \in Nat /\ Len(longer) = n + 1 /\ longer[n + 1] = len
      /\ \A m \in 1 .. n : longer[m] = lens[m]
  OBVIOUS
<1> HIDE DEF longer, n
<1>2. /\ a \in Seq(Seq(DvcPdus)) /\ Len(a) = n + 1
      /\ \A m \in 1 .. n + 1 : a[m] = Dvc!Encode(m, longer[m])
  BY <1>1, DvcCutTyped
<1>3. /\ b \in Seq(Seq(DvcPdus)) /\ Len(b) = n
      /\ \A m \in 1 .. n : b[m] = Dvc!Encode(m, lens[m])
  BY DvcCutTyped DEF n
<1>4. a[n + 1] = unit /\ \A m \in 1 .. n : a[m] = b[m]
  BY <1>1, <1>2, <1>3
<1> HIDE DEF unit, a, b
<1>5. a = Append(b, a[n + 1])
  BY <1>1, <1>2, <1>3, <1>4, GrownSequence
<1> QED BY <1>4, <1>5 DEF a, b, longer, unit, n

\* What becomes of the kth PDU of message m where it is the next: the message
\* turns out too long, is complete, or has come as far as this PDU.
LEMMA DvcPduTaken ==
  ASSUME DvcSizes, DvcInv, NEW m \in Nat, NEW len \in Nat, NEW k \in 1 .. Dvc!PduCount(len), NEW pdu,
         pdu = Dvc!Encode(m, len)[k],
         k = 1 => total_size = 0,
         k > 1 => /\ total_size = len
                  /\ data = SubSeq(Dvc!Message(m, len), 1, (k - 1) * MaxDataSize),
         IF Dvc!DeclaredTooLong(pdu) THEN Dvc!Closes ELSE Dvc!CompleteData(pdu)
  PROVE  \/ /\ MaxMessageSize < len /\ delivered' = delivered /\ (failed' \/ ~open')
            /\ side = "server" => failed' = failed
         \/ /\ k = Dvc!PduCount(len) /\ delivered' = Append(delivered, Dvc!Message(m, len))
            /\ total_size' = 0 /\ UNCHANGED <<open, failed>>
         \/ /\ k < Dvc!PduCount(len) /\ total_size' = len
            /\ data' = SubSeq(Dvc!Message(m, len), 1, k * MaxDataSize)
            /\ UNCHANGED <<open, failed, delivered>>
<1> DEFINE lo == (k - 1) * MaxDataSize
           hi == IF k * MaxDataSize < len THEN k * MaxDataSize ELSE len
           message == Dvc!Message(m, len)
           bytes == DvcPart(m, len, k)
           last == k = Dvc!PduCount(len)
<1>1. /\ lo \in Nat /\ hi \in Nat /\ lo <= hi /\ hi <= len
      /\ k = 1 => lo = 0
      /\ k > 1 => MaxDataSize < len
      /\ bytes \in DvcBytes /\ Len(bytes) = hi - lo
      /\ SubSeq(message, 1, lo) \o bytes = SubSeq(message, 1, hi)
      /\ SubSeq(message, 1, len) = message
  BY DvcPartProperty
<1>2. message \in DvcBytes /\ Len(message) = len
  BY DvcMessage
<1>3. /\ pdu.first <=> (MaxDataSize < len /\ k = 1)
      /\ pdu.first => pdu.length = len
      /\ pdu.bytes = bytes
  <2> DEFINE first == MaxDataSize < len /\ k = 1
             length == IF MaxDataSize < len /\ k = 1 THEN len ELSE 0
  <2>1. pdu = [first |-> first, length |-> length, compressed |-> FALSE, bytes |-> bytes]
    BY DvcEncode
  <2>2. first => length = len
    OBVIOUS
  <2> HIDE DEF first, length
  <2>3. pdu.first = first /\ pdu.length = length /\ pdu.bytes = bytes
    BY <2>1
  <2> QED BY <2>2, <2>3 DEF first
<1>4. k \in Nat \ {0} /\ Dvc!PduCount(len) \in Nat /\ k * MaxDataSize \in Nat
  BY DvcPduCount, TimesMonotone DEF DvcSizes
<1>5. /\ last => hi = len
      /\ ~last => k < Dvc!PduCount(len) /\ hi = k * MaxDataSize /\ hi < len
  <2>1. k * MaxDataSize < len <=> k < Dvc!PduCount(len)
    BY DvcPartProperty
  <2> QED BY <1>4, <2>1
<1>6. /\ side = "server" \/ side = "client"
      /\ MaxMessageSize \in Nat /\ MaxDataSize \in Nat \ {0}
  BY DEF DvcInv, DvcTypes, DvcSizes
<1> HIDE DEF lo, hi, bytes, message, last
<1>7. CASE /\ MaxMessageSize < len
           /\ Dvc!Closes \/ (Dvc!Fails /\ side = "client")
  <2>1. delivered' = delivered /\ (failed' \/ ~open') /\ (side = "server" => failed' = failed)
    BY <1>7 DEF Dvc!Closes, Dvc!Fails
  <2> QED BY <1>7, <2>1
<1>8. CASE last /\ Dvc!Completes(message)
  <2>1. CASE side = "server" /\ MaxMessageSize < len
    BY <1>2, <1>7, <1>8, <2>1 DEF Dvc!Completes
  <2>2. CASE ~(side = "server" /\ MaxMessageSize < len)
    <3>1. delivered' = Append(delivered, message) /\ total_size' = 0 /\ UNCHANGED <<open, failed>>
      BY <1>2, <1>8, <2>2 DEF Dvc!Completes, Dvc!NothingPending, Dvc!NoSize
    <3> QED BY <1>8, <3>1 DEF last, message
  <2> QED BY <2>1, <2>2
<1>9. CASE ~last /\ total_size' = len /\ data' = SubSeq(message, 1, hi) /\ UNCHANGED <<open, failed, delivered>>
  BY <1>5, <1>9 DEF message
<1>10. CASE Dvc!DeclaredTooLong(pdu)
  <2>1. Dvc!Closes /\ MaxMessageSize < len
    BY <1>3, <1>10 DEF Dvc!DeclaredTooLong
  <2> QED BY <1>7, <2>1
<1>11. CASE ~Dvc!DeclaredTooLong(pdu) /\ pdu.first
  <2>1. Dvc!ProcessDataFirst(len, bytes) /\ k = 1 /\ MaxDataSize < len
    BY <1>3, <1>11 DEF Dvc!CompleteData
  <2>2. lo = 0 /\ Len(bytes) = MaxDataSize /\ ~last /\ hi = MaxDataSize
    BY <1>1, <1>4, <1>5, <1>6, <2>1 DEF hi
  <2>3. bytes = SubSeq(message, 1, hi)
    <3>1. SubSeq(message, 1, 0) = <<>>
      BY <1>2 DEF DvcBytes
    <3>2. <<>> \o bytes = bytes
      BY <1>1 DEF DvcBytes
    <3> QED BY <1>1, <2>2, <3>1, <3>2
  <2>4. CASE Dvc!TooLong(len)
    <3>1. Dvc!Fails
      BY <2>1, <2>4 DEF Dvc!ProcessDataFirst
    <3> QED BY <1>7, <2>4, <3>1 DEF Dvc!TooLong
  <2>5. CASE ~Dvc!TooLong(len)
    <3>1. ~(len < Len(bytes)) /\ len # Len(bytes)
      BY <1>6, <2>1, <2>2
    <3>2. total_size' = len /\ data' = bytes /\ UNCHANGED <<open, failed, delivered>>
      BY <2>1, <2>5, <3>1 DEF Dvc!ProcessDataFirst
    <3> QED BY <1>9, <2>2, <2>3, <3>2
  <2> QED BY <2>4, <2>5
<1>12. CASE ~Dvc!DeclaredTooLong(pdu) /\ ~pdu.first /\ k = 1
  <2>1. Dvc!ProcessDataBlock(bytes) /\ total_size = Dvc!NoSize
    BY <1>3, <1>12 DEF Dvc!CompleteData, Dvc!NoSize
  <2>2. lo = 0 /\ hi = len /\ last
    BY <1>1, <1>3, <1>4, <1>5, <1>6, <1>12 DEF hi
  <2>3. bytes = message
    <3>1. SubSeq(message, 1, 0) = <<>>
      BY <1>2 DEF DvcBytes
    <3>2. <<>> \o bytes = bytes
      BY <1>1 DEF DvcBytes
    <3> QED BY <1>1, <2>2, <3>1, <3>2
  <2>4. CASE Dvc!TooLong(len)
    <3>1. Dvc!Fails
      BY <1>2, <2>1, <2>3, <2>4 DEF Dvc!ProcessDataBlock
    <3> QED BY <1>7, <2>4, <3>1 DEF Dvc!TooLong
  <2>5. CASE ~Dvc!TooLong(len)
    <3>1. Dvc!Completes(message)
      BY <1>2, <2>1, <2>3, <2>5 DEF Dvc!ProcessDataBlock
    <3> QED BY <1>8, <2>2, <3>1
  <2> QED BY <2>4, <2>5
<1>13. CASE ~Dvc!DeclaredTooLong(pdu) /\ ~pdu.first /\ k > 1
  <2>1. Dvc!ProcessDataBlock(bytes) /\ total_size = len /\ data = SubSeq(message, 1, lo)
    BY <1>3, <1>13 DEF Dvc!CompleteData, lo, message
  <2>2. len # Dvc!NoSize
    BY <1>1, <1>6, <1>13 DEF Dvc!NoSize
  <2>3. Len(data) = lo /\ data \o bytes = SubSeq(message, 1, hi)
    BY <1>1, <1>2, <2>1 DEF DvcBytes
  <2>4. Len(data) + Len(bytes) = hi
    BY <1>1, <2>3
  <2>5. CASE last
    <3>1. hi = len /\ ~(hi < len) /\ ~(hi > len)
      BY <1>5, <2>5
    <3>2. Dvc!Completes(data \o bytes)
      BY <2>1, <2>2, <2>4, <3>1 DEF Dvc!ProcessDataBlock
    <3>3. data \o bytes = message
      BY <1>1, <2>3, <3>1
    <3> QED BY <1>8, <2>5, <3>2, <3>3
  <2>6. CASE ~last
    <3>1. hi < len /\ hi # len /\ ~(hi > len)
      BY <1>1, <1>5, <2>6
    <3>2. data' = data \o bytes /\ UNCHANGED <<total_size, open, failed, delivered>>
      BY <2>1, <2>2, <2>4, <3>1 DEF Dvc!ProcessDataBlock
    <3> QED BY <1>9, <2>1, <2>3, <2>6, <3>2
  <2> QED BY <2>5, <2>6
<1> QED BY <1>4, <1>10, <1>11, <1>12, <1>13

\* The PDUs on their way go on where the receiver is: at the start of a
\* message, or in one whose first PDUs it has put together.
DvcReceiving(msg, part) ==
  /\ InFlight(wire, DvcCut(sent), msg, part)
  /\ msg[1] = Len(delivered) + 1
  /\ part[1] = 1 => total_size = 0
  /\ part[1] > 1 => /\ total_size = sent[msg[1]]
                    /\ data = SubSeq(Dvc!Message(msg[1], sent[msg[1]]), 1, (part[1] - 1) * MaxDataSize)

\* With a peer of this code base: a receiver that goes on is in step with the
\* sender, and one that does not has met a message over the limit.
DvcStream ==
  /\ DvcInv
  /\ \A i \in 1 .. Len(delivered) : i \in 1 .. Len(sent) /\ delivered[i] = Dvc!Message(i, sent[i])
  /\ side = "server" => ~failed
  /\ failed \/ ~open => ~Dvc!WithinLimit
  /\ ~failed /\ open => \E msg, part : DvcReceiving(msg, part)

LEMMA DvcStreamStarts ==
  ASSUME DvcSizes, Dvc!Init
  PROVE  DvcStream
<1> DEFINE one == [i \in 1 .. 1 |-> 1]
<1>1. DvcInv
  BY DvcInvStarts
<1>2. wire = <<>> /\ sent = <<>> /\ delivered = <<>> /\ total_size = 0 /\ failed = FALSE /\ open = TRUE
  BY DEF Dvc!Init, Dvc!NoSize
<1>3. DvcCut(sent) \in Seq(Seq(DvcPdus)) /\ Len(DvcCut(sent)) = 0
  <2>1. sent \in Seq(Nat) /\ Len(sent) = 0
    BY <1>2
  <2> QED BY <2>1, DvcCutTyped
<1>4. one \in [1 .. 1 -> Nat] /\ one[1] = 1
  OBVIOUS
<1> HIDE DEF one
<1>5. InFlight(wire, DvcCut(sent), one, one)
  BY <1>2, <1>3, <1>4 DEF InFlight
<1>6. DvcReceiving(one, one)
  BY <1>2, <1>4, <1>5 DEF DvcReceiving
<1>7. \E msg, part : DvcReceiving(msg, part)
  BY <1>6
<1>8. \A i \in 1 .. Len(delivered) : i \in 1 .. Len(sent) /\ delivered[i] = Dvc!Message(i, sent[i])
  BY <1>2
<1> QED BY <1>1, <1>2, <1>7, <1>8 DEF DvcStream

LEMMA DvcStreamSends ==
  ASSUME DvcSizes, DvcStream, NEW len \in MessageLens, Dvc!Send(len)
  PROVE  DvcStream'
<1> DEFINE unit == Dvc!Encode(Len(sent) + 1, len)
<1>1. DvcInv'
  BY DvcSendKeeps DEF DvcStream
<1>2. /\ sent \in Seq(Nat) /\ wire \in Seq(DvcPdus) /\ Len(sent) \in Nat /\ len \in Nat
      /\ delivered \in Seq(DvcBytes)
  BY DEF DvcStream, DvcInv, DvcTypes, DvcSizes
<1>3. /\ sent' = Append(sent, len) /\ wire' = wire \o unit
      /\ UNCHANGED <<side, open, failed, total_size, data, delivered>>
  BY DEF Dvc!Send
<1>4. Len(sent') = Len(sent) + 1 /\ \A i \in 1 .. Len(sent) : i \in 1 .. Len(sent') /\ sent'[i] = sent[i]
  BY <1>2, <1>3
<1>5. unit \in Seq(DvcPdus) /\ Len(unit) # 0
  <2>1. Len(sent) + 1 \in Nat /\ 1 \in Nat \ {0}
    BY <1>2
  <2>2. Dvc!PduCount(len) # 0
    BY <1>2, <2>1, DvcPduCount
  <2> QED BY <1>2, <2>1, <2>2, DvcEncode
<1> HIDE DEF unit
<1>6. ASSUME ~failed, open
      PROVE  \E msg, part : DvcReceiving(msg, part)'
  <2>1. PICK msg, part : DvcReceiving(msg, part)
    BY <1>6 DEF DvcStream
  <2>2. DvcCut(sent) \in Seq(Seq(DvcPdus)) /\ Len(DvcCut(sent)) = Len(sent)
    BY <1>2, DvcCutTyped
  <2>3. PICK m, p : /\ InFlight(wire \o unit, Append(DvcCut(sent), unit), m, p)
                    /\ m[1] = msg[1] /\ p[1] = part[1]
    BY <1>2, <1>5, <2>1, <2>2, InFlightGrows DEF DvcReceiving
  <2>4. DvcCut(sent)' = Append(DvcCut(sent), unit)
    BY <1>2, <1>3, DvcCutGrows DEF unit
  <2>5. InFlight(wire, DvcCut(sent), m, p)'
    BY <1>3, <2>3, <2>4
  <2>6. part[1] > 1 => msg[1] \in 1 .. Len(sent)
    BY <1>2, <2>1, <2>2 DEF DvcReceiving, InFlight
  <2>7. part[1] > 1 => sent'[msg[1]] = sent[msg[1]]
    BY <1>4, <2>6
  <2>8. DvcReceiving(m, p)'
    BY <1>3, <2>1, <2>3, <2>5, <2>7 DEF DvcReceiving
  <2> QED BY <2>8
<1>7. (\A i \in 1 .. Len(delivered) : i \in 1 .. Len(sent) /\ delivered[i] = Dvc!Message(i, sent[i]))'
  <2> SUFFICES ASSUME NEW i \in 1 .. Len(delivered)
               PROVE  i \in 1 .. Len(sent') /\ delivered[i] = Dvc!Message(i, sent'[i])
    BY <1>3
  <2>1. i \in 1 .. Len(sent) /\ delivered[i] = Dvc!Message(i, sent[i])
    BY DEF DvcStream
  <2> QED BY <1>4, <2>1
<1>8. ~Dvc!WithinLimit => ~Dvc!WithinLimit'
  BY <1>4 DEF Dvc!WithinLimit
<1>9. (failed \/ ~open => ~Dvc!WithinLimit)' /\ (side = "server" => ~failed)'
  BY <1>3, <1>8 DEF DvcStream
<1>10. (~failed /\ open => \E msg, part : DvcReceiving(msg, part))'
  BY <1>3, <1>6
<1> QED BY <1>1, <1>7, <1>9, <1>10 DEF DvcStream

LEMMA DvcStreamProcesses ==
  ASSUME DvcSizes, Deviating = FALSE, DvcStream, NEW ok \in BOOLEAN, Dvc!Process(ok)
  PROVE  DvcStream'
<1>1. DvcInv /\ DvcInv'
  BY DvcProcessKeeps DEF DvcStream
<1>2. wire' = Tail(wire) /\ wire # <<>> /\ ~failed /\ UNCHANGED <<side, sent>>
  BY DEF Dvc!Process
<1>3. /\ sent \in Seq(Nat) /\ wire \in Seq(DvcPdus) /\ Len(sent) \in Nat /\ delivered \in Seq(DvcBytes)
      /\ side \in {"client", "server"} /\ open' \in BOOLEAN /\ failed' \in BOOLEAN
  BY <1>1 DEF DvcInv, DvcTypes
<1>4. ~Dvc!WithinLimit => ~Dvc!WithinLimit'
  BY <1>2 DEF Dvc!WithinLimit
<1>5. CASE ~open
  <2>1. UNCHANGED <<open, failed, delivered>>
    BY <1>5 DEF Dvc!Process
  <2> QED BY <1>1, <1>2, <1>4, <1>5, <2>1 DEF DvcStream
<1>6. CASE open
  <2>1. PICK msg, part : DvcReceiving(msg, part)
    BY <1>2, <1>6 DEF DvcStream
  <2> DEFINE m == msg[1]
             k == part[1]
             len == sent[m]
             pdu == Head(wire)
  <2>2. DvcCut(sent) \in Seq(Seq(DvcPdus)) /\ Len(DvcCut(sent)) = Len(sent)
        /\ \A j \in 1 .. Len(sent) : /\ DvcCut(sent)[j] = Dvc!Encode(j, sent[j])
                                     /\ Len(DvcCut(sent)[j]) = Dvc!PduCount(sent[j])
    BY <1>3, DvcCutTyped
  <2>3. Len(wire) \in Nat \ {0} /\ pdu = wire[1]
    BY <1>2, <1>3
  <2>4. /\ m \in 1 .. Len(sent) /\ k \in 1 .. Len(DvcCut(sent)[m]) /\ wire[1] = DvcCut(sent)[m][k]
        /\ k < Len(DvcCut(sent)[m]) => msg[2] = m /\ part[2] = k + 1
        /\ k = Len(DvcCut(sent)[m]) => msg[2] = m + 1 /\ part[2] = 1
    <3>1. 1 \in 1 .. Len(wire) /\ 1 + 1 = 2
      BY <2>3
    <3>2. InFlight(wire, DvcCut(sent), msg, part)
      BY <2>1 DEF DvcReceiving
    <3> QED BY <2>2, <3>1, <3>2 DEF InFlight
  <2>5. /\ m \in Nat /\ len \in Nat /\ k \in 1 .. Dvc!PduCount(len) /\ pdu = Dvc!Encode(m, len)[k]
        /\ k < Dvc!PduCount(len) => msg[2] = m /\ part[2] = k + 1
        /\ k = Dvc!PduCount(len) => msg[2] = m + 1 /\ part[2] = 1
        /\ m = Len(delivered) + 1
    BY <1>3, <2>1, <2>2, <2>3, <2>4 DEF DvcReceiving
  <2>6. /\ k = 1 => total_size = 0
        /\ k > 1 => total_size = len /\ data = SubSeq(Dvc!Message(m, len), 1, (k - 1) * MaxDataSize)
    BY <2>1 DEF DvcReceiving
  <2>7. ~pdu.compressed
    <3> DEFINE first == MaxDataSize < len /\ k = 1
               length == IF MaxDataSize < len /\ k = 1 THEN len ELSE 0
               bytes == DvcPart(m, len, k)
    <3>1. pdu = [first |-> first, length |-> length, compressed |-> FALSE, bytes |-> bytes]
      BY <2>5, DvcEncode
    <3> HIDE DEF first, length, bytes, pdu
    <3> QED BY <3>1
  <2>8. IF Dvc!DeclaredTooLong(pdu) THEN Dvc!Closes ELSE Dvc!CompleteData(pdu)
    BY <1>6, <2>7 DEF Dvc!Process
  <2>9. PICK q, r : InFlight(Tail(wire), DvcCut(sent), q, r) /\ q[1] = msg[2] /\ r[1] = part[2]
    BY <1>2, <1>3, <2>1, <2>2, InFlightShrinks DEF DvcReceiving
  <2>10. InFlight(wire, DvcCut(sent), q, r)'
    BY <1>2, <2>9
  <2> HIDE DEF m, k, len, pdu
  <2>11. \/ /\ MaxMessageSize < len /\ delivered' = delivered /\ (failed' \/ ~open')
            /\ side = "server" => failed' = failed
         \/ /\ k = Dvc!PduCount(len) /\ delivered' = Append(delivered, Dvc!Message(m, len))
            /\ total_size' = 0 /\ UNCHANGED <<open, failed>>
         \/ /\ k < Dvc!PduCount(len) /\ total_size' = len
            /\ data' = SubSeq(Dvc!Message(m, len), 1, k * MaxDataSize)
            /\ UNCHANGED <<open, failed, delivered>>
    BY <1>1, <2>5, <2>6, <2>8, DvcPduTaken
  <2>12. CASE /\ MaxMessageSize < len /\ delivered' = delivered /\ (failed' \/ ~open')
              /\ side = "server" => failed' = failed
    <3>1. ~Dvc!WithinLimit'
      <4>1. m \in 1 .. Len(sent) /\ ~(sent[m] <= MaxMessageSize)
        BY <2>4, <2>5, <2>12 DEF DvcSizes, len, m
      <4> QED BY <1>2, <4>1 DEF Dvc!WithinLimit
    <3>2. (\A i \in 1 .. Len(delivered) : i \in 1 .. Len(sent) /\ delivered[i] = Dvc!Message(i, sent[i]))'
      BY <1>2, <2>12 DEF DvcStream
    <3> QED BY <1>1, <1>2, <2>12, <3>1, <3>2 DEF DvcStream
  <2>13. CASE /\ k = Dvc!PduCount(len) /\ delivered' = Append(delivered, Dvc!Message(m, len))
              /\ total_size' = 0 /\ UNCHANGED <<open, failed>>
    <3>1. DvcReceiving(q, r)'
      BY <1>3, <2>5, <2>9, <2>10, <2>13 DEF DvcReceiving
    <3>2. (\A i \in 1 .. Len(delivered) : i \in 1 .. Len(sent) /\ delivered[i] = Dvc!Message(i, sent[i]))'
      BY <1>2, <1>3, <2>4, <2>5, <2>13 DEF DvcStream, len, m
    <3> QED BY <1>1, <1>2, <1>6, <2>13, <3>1, <3>2 DEF DvcStream
  <2>14. CASE /\ k < Dvc!PduCount(len) /\ total_size' = len
              /\ data' = SubSeq(Dvc!Message(m, len), 1, k * MaxDataSize)
              /\ UNCHANGED <<open, failed, delivered>>
    <3>1. q[1] = m /\ r[1] = k + 1 /\ k \in Nat /\ (k + 1) - 1 = k /\ k + 1 # 1 /\ sent'[m] = len
      BY <1>2, <2>5, <2>9, <2>14 DEF len
    <3>2. DvcReceiving(q, r)'
      BY <2>5, <2>10, <2>14, <3>1 DEF DvcReceiving
    <3>3. (\A i \in 1 .. Len(delivered) : i \in 1 .. Len(sent) /\ delivered[i] = Dvc!Message(i, sent[i]))'
      BY <1>2, <2>14 DEF DvcStream
    <3> QED BY <1>1, <1>2, <1>6, <2>14, <3>2, <3>3 DEF DvcStream
  <2> QED BY <2>11, <2>12, <2>13, <2>14
<1> QED BY <1>5, <1>6

\* What encode_dvc_messages splits, CompleteData puts together, whole and in
\* order, for any sizes; a message over the limit closes only its channel at
\* the server.
THEOREM DvcMessagesIntact ==
  ASSUME DvcSizes, Deviating = FALSE
  PROVE  Dvc!Spec => []Dvc!MessagesIntact
<1>1. Dvc!Init => DvcStream
  BY DvcStreamStarts
<1>2. DvcStream /\ [Dvc!Next]_(Dvc!vars) => DvcStream'
  <2> SUFFICES ASSUME DvcStream, [Dvc!Next]_(Dvc!vars) PROVE DvcStream'
    OBVIOUS
  <2>1. CASE UNCHANGED Dvc!vars
    <3>1. DvcInv'
      BY <2>1, DvcInvKept DEF DvcStream
    <3>2. UNCHANGED <<side, sent, wire, open, failed, total_size, data, delivered>>
      BY <2>1 DEF Dvc!vars
    <3> QED BY <3>1, <3>2 DEF DvcStream, DvcReceiving, Dvc!WithinLimit
  <2>2. ASSUME NEW len \in MessageLens, Dvc!Send(len) PROVE DvcStream'
    BY <2>2, DvcStreamSends
  <2>3. ASSUME NEW pdu \in Dvc!Pdus, Dvc!SendDeviating(pdu) PROVE DvcStream'
    BY <2>3 DEF Dvc!SendDeviating
  <2>4. ASSUME NEW ok \in BOOLEAN, Dvc!Process(ok) PROVE DvcStream'
    BY <2>4, DvcStreamProcesses
  <2> QED BY <2>1, <2>2, <2>3, <2>4 DEF Dvc!Next
<1>3. DvcStream => Dvc!MessagesIntact
  <2> SUFFICES ASSUME DvcStream PROVE Dvc!MessagesIntact
    OBVIOUS
  <2>1. ASSUME Dvc!WithinLimit PROVE ~failed /\ open
    BY <2>1 DEF DvcStream
  <2>2. ASSUME Dvc!WithinLimit, wire = <<>> PROVE Len(delivered) = Len(sent)
    <3>1. PICK msg, part : DvcReceiving(msg, part)
      BY <2>1, <2>2 DEF DvcStream
    <3>2. sent \in Seq(Nat) /\ delivered \in Seq(DvcBytes)
      BY DEF DvcStream, DvcInv, DvcTypes
    <3>3. Len(DvcCut(sent)) = Len(sent)
      BY <3>2, DvcCutTyped
    <3>4. msg[1] = Len(sent) + 1 /\ msg[1] = Len(delivered) + 1
      BY <2>2, <3>1, <3>3 DEF DvcReceiving, InFlight
    <3> QED BY <3>2, <3>4
  <2>3. Dvc!Reassembled
    BY <2>1, <2>2 DEF DvcStream, Dvc!Reassembled
  <2> QED BY <2>3 DEF DvcStream, Dvc!MessagesIntact, Dvc!OversizeClosesOnly
<1> QED BY <1>1, <1>2, <1>3, PTL DEF Dvc!Spec

-----------------------------------------------------------------------------
(* Static channel messages *)

CONSTANTS MaxChunkLen, MaxContext, Returning

VARIABLES context, chunked_pdu, expected_length, received_length, message_context,
          refused, unchanged, accepted, newest

Svc == INSTANCE SvcChunks

\* Sizes are numbers, and a chunk has room for data.
SvcSizes ==
  /\ MaxChunkLen \in Nat \ {0} /\ MaxMessageSize \in Nat
  /\ MessageLens \subseteq Nat /\ MaxMessages \in Nat /\ MaxContext \in Nat

SvcBytes == Seq(Nat \X Nat)
SvcChunk == [first : BOOLEAN, last : BOOLEAN, length : Nat, compressed : BOOLEAN, bytes : SvcBytes]

SvcTypes ==
  /\ sent \in Seq(Nat) /\ wire \in Seq(SvcChunk)
  /\ delivered \in Seq([context : Nat, bytes : SvcBytes])
  /\ context \in Nat /\ message_context \in Nat /\ newest \in Nat
  /\ chunked_pdu \in SvcBytes /\ expected_length \in Nat /\ received_length \in Nat /\ accepted \in Nat
  /\ refused \in BOOLEAN /\ unchanged \in BOOLEAN

SvcInv == SvcTypes /\ Svc!LimitsKept

LEMMA SvcNoLength ==
  ASSUME SvcSizes
  PROVE  Svc!NoLength \in Nat /\ MaxMessageSize < Svc!NoLength
<1>1. MaxChunkLen * MaxMessages \in Nat
  BY DEF SvcSizes
<1> QED BY <1>1 DEF Svc!NoLength, SvcSizes

LEMMA SvcMessage ==
  ASSUME NEW m \in Nat, NEW len \in Nat
  PROVE  Svc!Message(m, len) \in SvcBytes /\ Len(Svc!Message(m, len)) = len
  BY DEF Svc!Message, SvcBytes

LEMMA SvcChunkCount ==
  ASSUME SvcSizes, NEW len \in Nat, NEW k \in Nat \ {0}
  PROVE  /\ Svc!ChunkCount(len) \in Nat \ {0}
         /\ k < Svc!ChunkCount(len) <=> k * MaxChunkLen < len
  BY CutCountProperty DEF Svc!ChunkCount, CutCount, SvcSizes

\* What the kth chunk of a message holds.
SvcPart(m, len, k) == Cut(Svc!Message(m, len), MaxChunkLen, k)

LEMMA SvcPartProperty ==
  ASSUME SvcSizes, NEW m \in Nat, NEW len \in Nat, NEW k \in 1 .. Svc!ChunkCount(len)
  PROVE  LET lo == (k - 1) * MaxChunkLen
             hi == IF k * MaxChunkLen < len THEN k * MaxChunkLen ELSE len
         IN  /\ lo \in Nat /\ hi \in Nat /\ lo <= hi /\ hi <= len
             /\ k = 1 => lo = 0
             /\ k > 1 => MaxChunkLen < len
             /\ k * MaxChunkLen < len <=> k < Svc!ChunkCount(len)
             /\ SvcPart(m, len, k) \in SvcBytes /\ Len(SvcPart(m, len, k)) = hi - lo
             /\ SubSeq(Svc!Message(m, len), 1, lo) \o SvcPart(m, len, k) = SubSeq(Svc!Message(m, len), 1, hi)
             /\ SubSeq(Svc!Message(m, len), 1, len) = Svc!Message(m, len)
<1> DEFINE message == Svc!Message(m, len)
<1>1. message \in SvcBytes /\ Len(message) = len
  BY SvcMessage
<1>2. Svc!ChunkCount(len) = CutCount(len, MaxChunkLen)
  BY DEF Svc!ChunkCount, CutCount
<1>3. SvcPart(m, len, k) = Cut(message, MaxChunkLen, k) /\ MaxChunkLen \in Nat \ {0}
  BY DEF SvcPart, SvcSizes
<1> HIDE DEF message
<1>4. k \in 1 .. CutCount(Len(message), MaxChunkLen) /\ message \in Seq(Nat \X Nat)
  BY <1>1, <1>2 DEF SvcBytes
<1> DEFINE lo == (k - 1) * MaxChunkLen
           hi == IF k * MaxChunkLen < Len(message) THEN k * MaxChunkLen ELSE Len(message)
           piece == Cut(message, MaxChunkLen, k)
<1>5. /\ lo \in Nat /\ hi \in Nat /\ lo <= hi /\ hi <= Len(message)
      /\ k = 1 => lo = 0
      /\ k > 1 => MaxChunkLen < Len(message)
      /\ k * MaxChunkLen < Len(message) <=> k < CutCount(Len(message), MaxChunkLen)
      /\ piece \in Seq(Nat \X Nat) /\ Len(piece) = hi - lo
      /\ SubSeq(message, 1, lo) \o piece = SubSeq(message, 1, hi)
      /\ SubSeq(message, 1, Len(message)) = message
  BY <1>3, <1>4, CutProperty
<1> QED BY <1>1, <1>2, <1>3, <1>5, Zenon DEF SvcBytes, message

\* Chunkify makes chunks, one after the other.
LEMMA SvcChunkOf ==
  ASSUME SvcSizes, NEW m \in Nat, NEW len \in Nat, NEW k \in 1 .. Svc!ChunkCount(len),
         NEW chunk, chunk = Svc!Chunkify(m, len)[k]
  PROVE  /\ chunk \in SvcChunk
         /\ chunk.first <=> k = 1
         /\ chunk.last <=> k = Svc!ChunkCount(len)
         /\ chunk.length = len /\ ~chunk.compressed /\ chunk.bytes = SvcPart(m, len, k)
<1> DEFINE first == k = 1
           last == k = Svc!ChunkCount(len)
           bytes == SvcPart(m, len, k)
           it == Svc!Chunk(first, last, len, FALSE, bytes)
<1>1. first \in BOOLEAN /\ last \in BOOLEAN /\ FALSE \in BOOLEAN
  OBVIOUS
<1>2. bytes \in SvcBytes
  BY SvcPartProperty
<1>3. chunk = it
  BY SvcMessage DEF Svc!Chunkify, SvcPart, Cut
<1> HIDE DEF first, last, bytes
<1>4. /\ it \in SvcChunk /\ it.first = first /\ it.last = last
      /\ it.length = len /\ it.compressed = FALSE /\ it.bytes = bytes
  BY <1>1, <1>2 DEF Svc!Chunk, SvcChunk
<1> HIDE DEF it
<1> QED BY <1>3, <1>4, Zenon DEF first, last, bytes

LEMMA SvcChunkify ==
  ASSUME SvcSizes, NEW m \in Nat, NEW len \in Nat
  PROVE  /\ Svc!Chunkify(m, len) \in Seq(SvcChunk)
         /\ Len(Svc!Chunkify(m, len)) = Svc!ChunkCount(len)
<1> DEFINE count == Svc!ChunkCount(len)
           all == Svc!Chunkify(m, len)
<1>1. count \in Nat
  BY SvcChunkCount
<1>2. \A k \in 1 .. count : all[k] \in SvcChunk
  BY SvcChunkOf
<1>3. all = [k \in 1 .. count |-> all[k]]
  BY <1>1 DEF Svc!Chunkify
<1> HIDE DEF count, all
<1>4. all \in Seq(SvcChunk) /\ Len(all) = count
  BY <1>1, <1>2, <1>3, SMTT(40)
<1> QED BY <1>4 DEF count, all

LEMMA SvcSendKeeps ==
  ASSUME SvcSizes, SvcInv, NEW len \in MessageLens, Svc!Send(len)
  PROVE  SvcInv'
<1>1. len \in Nat /\ Len(sent) + 1 \in Nat
  BY DEF SvcSizes, SvcInv, SvcTypes
<1>2. Svc!Chunkify(Len(sent) + 1, len) \in Seq(SvcChunk)
  BY <1>1, SvcChunkify
<1>3. sent' \in Seq(Nat) /\ wire' \in Seq(SvcChunk)
  BY <1>1, <1>2 DEF SvcInv, SvcTypes, Svc!Send
<1>4. UNCHANGED <<context, chunked_pdu, expected_length, received_length,
                  message_context, delivered, refused, unchanged, accepted, newest>>
  BY DEF Svc!Send
<1> QED BY <1>3, <1>4 DEF SvcInv, SvcTypes, Svc!LimitsKept, Svc!Bounded, Svc!CleanSlate, Svc!InSequence

LEMMA SvcSendDeviatingKeeps ==
  ASSUME SvcSizes, SvcInv, NEW first \in BOOLEAN, NEW last \in BOOLEAN, NEW compressed \in BOOLEAN,
         NEW length \in MessageLens, NEW n \in MessageLens,
         Svc!SendDeviating(Svc!Chunk(first, last, length, compressed, Svc!Message(Len(sent) + 1, n)))
  PROVE  SvcInv'
<1> DEFINE bytes == Svc!Message(Len(sent) + 1, n)
           chunk == Svc!Chunk(first, last, length, compressed, bytes)
<1>1. bytes \in SvcBytes /\ length \in Nat
  BY SvcMessage DEF SvcSizes, SvcInv, SvcTypes
<1> HIDE DEF bytes
<1>2. chunk \in SvcChunk /\ chunk.bytes = bytes
  BY <1>1 DEF Svc!Chunk, SvcChunk
<1>3. sent' = Append(sent, Len(chunk.bytes)) /\ wire' = Append(wire, chunk)
      /\ UNCHANGED <<context, chunked_pdu, expected_length, received_length,
                     message_context, delivered, refused, unchanged, accepted, newest>>
  BY DEF Svc!SendDeviating, bytes
<1> HIDE DEF chunk
<1>4. sent' \in Seq(Nat) /\ wire' \in Seq(SvcChunk)
  BY <1>1, <1>2, <1>3 DEF SvcInv, SvcTypes, SvcBytes
<1> QED BY <1>3, <1>4 DEF SvcInv, SvcTypes, Svc!LimitsKept, Svc!Bounded, Svc!CleanSlate, Svc!InSequence

LEMMA SvcChangeKeeps ==
  ASSUME SvcSizes, SvcInv, NEW c \in Svc!None .. MaxContext, Svc!ChangeContext(c)
  PROVE  SvcInv'
<1>1. c \in Nat /\ context' = c /\ newest' \in {c, newest} /\ unchanged' = FALSE
      /\ UNCHANGED <<sent, wire, chunked_pdu, expected_length, received_length,
                     message_context, delivered, refused, accepted>>
  BY DEF Svc!ChangeContext, Svc!None, SvcSizes
<1> QED BY <1>1 DEF SvcInv, SvcTypes, Svc!LimitsKept, Svc!Bounded, Svc!CleanSlate, Svc!InSequence

\* What the four outcomes of dechunkify do to the sequence under way.
LEMMA SvcDechunkifyKeeps ==
  ASSUME SvcSizes, SvcInv, Svc!Dechunkify
  PROVE  SvcInv'
<1> DEFINE chunk == Head(wire)
           total == received_length + Len(chunk.bytes)
<1> USE DEF SvcInv, SvcTypes
<1>1. /\ wire # <<>> /\ wire' = Tail(wire) /\ UNCHANGED <<sent, context, newest>>
      /\ accepted' = (IF expected_length' = Svc!NoLength THEN 0 ELSE accepted + Len(chunk.bytes))
      /\ unchanged' = (chunk.first \/ unchanged)
  BY DEF Svc!Dechunkify
<1>2. chunk \in SvcChunk /\ wire' \in Seq(SvcChunk)
  BY <1>1
<1>3. /\ chunk.bytes \in SvcBytes /\ Len(chunk.bytes) \in Nat /\ chunk.length \in Nat
      /\ Len(chunked_pdu) \in Nat
  BY <1>2 DEF SvcChunk, SvcBytes
<1>4. unchanged' \in BOOLEAN
  BY <1>1, Zenon
<1> DEFINE fits == ~Svc!TooLong(chunk) /\ ~(chunk.length < Svc!Total(chunk))
<1>5. \/ Svc!Refuses
      \/ Svc!Unfragmented(chunk) /\ Svc!TakesUnfragmented(chunk)
      \/ fits /\ Svc!TakesFragment(chunk)
  BY DEF Svc!Dechunkify
<1> HIDE DEF chunk
<1>6. total \in Nat /\ Svc!Total(chunk) = total
  BY <1>3 DEF Svc!Total
<1>7. Svc!NoLength \in Nat /\ MaxMessageSize < Svc!NoLength /\ MaxMessageSize \in Nat
  BY SvcNoLength DEF SvcSizes
<1>8. SUFFICES /\ refused' \in BOOLEAN /\ delivered' \in Seq([context : Nat, bytes : SvcBytes])
               /\ message_context' \in Nat /\ chunked_pdu' \in SvcBytes
               /\ expected_length' \in Nat /\ received_length' \in Nat /\ accepted' \in Nat
               /\ Svc!LimitsKept'
  BY <1>1, <1>2, <1>4
<1>9. ASSUME expected_length' = Svc!NoLength, received_length' = 0, message_context' = 0, chunked_pdu' = <<>>
      PROVE  /\ message_context' \in Nat /\ chunked_pdu' \in SvcBytes
             /\ expected_length' \in Nat /\ received_length' \in Nat /\ accepted' \in Nat
             /\ Svc!LimitsKept'
  <2>1. chunked_pdu' \in SvcBytes /\ Len(chunked_pdu') = 0
    BY <1>9 DEF SvcBytes
  <2>2. accepted' = 0 /\ ~Svc!InSequence'
    BY <1>1, <1>9 DEF Svc!InSequence
  <2> QED BY <1>7, <1>9, <2>1, <2>2 DEF Svc!LimitsKept, Svc!Bounded, Svc!CleanSlate, Svc!None
<1> DEFINE Records == [context : Nat, bytes : SvcBytes]
<1>10. ASSUME NEW c \in Nat, NEW b \in SvcBytes,
              delivered' = delivered \/ delivered' = Append(delivered, [context |-> c, bytes |-> b])
       PROVE  delivered' \in Seq(Records)
  <2> DEFINE rec == [context |-> c, bytes |-> b]
  <2>1. rec \in Records
    OBVIOUS
  <2> HIDE DEF rec
  <2>2. delivered' = delivered \/ delivered' = Append(delivered, rec)
    BY <1>10 DEF rec
  <2>3. delivered \in Seq(Records)
    OBVIOUS
  <2> HIDE DEF Records
  <2> QED BY <2>1, <2>2, <2>3
<1>11. CASE Svc!Refuses
  BY <1>9, <1>11 DEF Svc!Refuses, Svc!None
<1>12. CASE Svc!Unfragmented(chunk) /\ Svc!TakesUnfragmented(chunk)
  <2>1. expected_length = Svc!NoLength /\ received_length = 0 /\ message_context = 0 /\ chunked_pdu = <<>>
    BY <1>12 DEF Svc!Unfragmented, Svc!LimitsKept, Svc!CleanSlate, Svc!InSequence, Svc!None
  <2>2. UNCHANGED <<chunked_pdu, expected_length, received_length, message_context>>
    BY <1>12 DEF Svc!TakesUnfragmented
  <2>3. refused' \in BOOLEAN
    <3>1. refused' = (~chunk.compressed /\ Len(chunk.bytes) # chunk.length)
      BY <1>12 DEF Svc!TakesUnfragmented
    <3> QED BY <3>1, Zenon
  <2>4. \/ delivered' = delivered
        \/ delivered' = Append(delivered, [context |-> context, bytes |-> chunk.bytes])
    BY <1>12 DEF Svc!TakesUnfragmented
  <2>5. delivered' \in Seq([context : Nat, bytes : SvcBytes])
    BY <1>3, <1>10, <2>4
  <2> QED BY <1>9, <2>1, <2>2, <2>3, <2>5
<1>13. CASE fits /\ Svc!TakesFragment(chunk)
  <2> DEFINE for == Svc!KeptFor(chunk)
             kept == IF for = Svc!None THEN <<>> ELSE chunked_pdu \o chunk.bytes
  <2>1. for \in Nat
    BY DEF Svc!KeptFor, Svc!None
  <2>2. kept \in SvcBytes /\ Len(kept) \in Nat /\ Len(kept) <= Len(chunked_pdu) + Len(chunk.bytes)
    BY <1>3 DEF SvcBytes
  <2>3. /\ refused' = FALSE
        /\ chunk.last => /\ delivered' = delivered \/ delivered' = Append(delivered, [context |-> for, bytes |-> kept])
                         /\ expected_length' = Svc!NoLength /\ received_length' = 0
                         /\ message_context' = Svc!None /\ chunked_pdu' = <<>>
        /\ ~chunk.last => /\ expected_length' = chunk.length /\ received_length' = Svc!Total(chunk)
                          /\ message_context' = for /\ chunked_pdu' = kept
                          /\ delivered' = delivered
    BY <1>13 DEF Svc!TakesFragment
  <2>4. for = Svc!None => kept = <<>>
    OBVIOUS
  <2> HIDE DEF for, kept
  <2>5. CASE chunk.last
    <3>1. delivered' \in Seq([context : Nat, bytes : SvcBytes])
      BY <1>10, <2>1, <2>2, <2>3, <2>5
    <3> QED BY <1>9, <2>3, <2>5, <3>1 DEF Svc!None
  <2>6. CASE ~chunk.last
    <3>1. chunk.length <= MaxMessageSize /\ total <= chunk.length
      BY <1>3, <1>6, <1>7, <1>13 DEF Svc!TooLong
    <3>2. expected_length' # Svc!NoLength /\ accepted' = accepted + Len(chunk.bytes)
      BY <1>1, <1>3, <1>7, <2>3, <2>6, <3>1
    <3>3. received_length' = accepted' /\ Len(chunked_pdu') <= accepted'
      BY <1>3, <1>6, <2>2, <2>3, <2>6, <3>2 DEF Svc!LimitsKept, Svc!Bounded
    <3>4. Svc!LimitsKept'
      BY <1>6, <2>3, <2>4, <2>6, <3>1, <3>2, <3>3
         DEF Svc!LimitsKept, Svc!Bounded, Svc!CleanSlate, Svc!InSequence
    <3>5. accepted' \in Nat
      BY <1>3, <3>2
    <3>6. refused' \in BOOLEAN /\ delivered' \in Seq(Records)
      BY <2>3, <2>6, Zenon
    <3> QED BY <1>3, <1>6, <2>1, <2>2, <2>3, <2>6, <3>4, <3>5, <3>6
  <2> QED BY <2>5, <2>6
<1> QED BY <1>5, <1>11, <1>12, <1>13

LEMMA SvcInvStarts ==
  ASSUME SvcSizes, Svc!Init
  PROVE  SvcInv
<1>1. sent = <<>> /\ wire = <<>> /\ delivered = <<>> /\ chunked_pdu = <<>> /\ context = 1 /\ newest = 1
      /\ expected_length = Svc!NoLength /\ received_length = 0 /\ message_context = 0 /\ accepted = 0
  BY DEF Svc!Init, Svc!None
<1>2. sent \in Seq(Nat) /\ wire \in Seq(SvcChunk) /\ delivered \in Seq([context : Nat, bytes : SvcBytes])
      /\ chunked_pdu \in SvcBytes /\ Len(chunked_pdu) = 0
  BY <1>1 DEF SvcBytes
<1>3. refused \in BOOLEAN /\ unchanged \in BOOLEAN
  BY Zenon DEF Svc!Init
<1>4. SvcTypes
  BY <1>1, <1>2, <1>3, SvcNoLength DEF SvcTypes
<1>5. Svc!LimitsKept
  BY <1>1, <1>2 DEF Svc!LimitsKept, Svc!Bounded, Svc!CleanSlate, Svc!InSequence, Svc!None
<1> QED BY <1>4, <1>5 DEF SvcInv

LEMMA SvcInvKept ==
  ASSUME SvcSizes, SvcInv, [Svc!Next]_(Svc!vars)
  PROVE  SvcInv'
<1>1. CASE UNCHANGED Svc!vars
  BY <1>1 DEF SvcInv, SvcTypes, Svc!vars, Svc!LimitsKept, Svc!Bounded, Svc!CleanSlate, Svc!InSequence
<1>2. CASE Svc!Next
  BY <1>2, SvcSendKeeps, SvcSendDeviatingKeeps, SvcDechunkifyKeeps, SvcChangeKeeps DEF Svc!Next
<1> QED BY <1>1, <1>2

\* dechunkify counts every byte it accepts of a message, keeps no more than
\* was declared and than the limit, and leaves nothing of one message to the
\* next, whatever a peer sends.
THEOREM SvcLimitsKept ==
  ASSUME SvcSizes
  PROVE  Svc!Spec => []Svc!LimitsKept
<1>1. Svc!Init => SvcInv
  BY SvcInvStarts
<1>2. SvcInv /\ [Svc!Next]_(Svc!vars) => SvcInv'
  BY SvcInvKept
<1>3. SvcInv => Svc!LimitsKept
  BY DEF SvcInv
<1> QED BY <1>1, <1>2, <1>3, PTL DEF Svc!Spec

\* A recipient that was changed is not the one the message was begun for.
SvcFresh ==
  /\ message_context <= newest /\ context <= newest /\ 1 <= newest
  /\ ~unchanged => message_context = 0 \/ message_context # context

LEMMA SvcFreshKept ==
  ASSUME SvcSizes, Returning = FALSE, SvcInv, SvcFresh, [Svc!Next]_(Svc!vars)
  PROVE  SvcFresh'
<1> USE DEF SvcInv, SvcTypes
<1>1. CASE UNCHANGED Svc!vars
  BY <1>1 DEF SvcFresh, Svc!vars
<1>2. ASSUME NEW len \in MessageLens, Svc!Send(len) PROVE SvcFresh'
  BY <1>2 DEF Svc!Send, SvcFresh
<1>3. ASSUME NEW chunk, Svc!SendDeviating(chunk) PROVE SvcFresh'
  BY <1>3 DEF Svc!SendDeviating, SvcFresh
<1>4. ASSUME NEW c \in Svc!None .. MaxContext, Svc!ChangeContext(c) PROVE SvcFresh'
  <2>1. /\ c \in Nat /\ (c = 0 \/ c > newest) /\ context' = c /\ unchanged' = FALSE
        /\ newest' = (IF c > newest THEN c ELSE newest) /\ message_context' = message_context
    BY <1>4 DEF Svc!ChangeContext, Svc!None, SvcSizes
  <2> QED BY <2>1 DEF SvcFresh
<1>5. CASE Svc!Dechunkify
  <2> DEFINE chunk == Head(wire)
  <2>1. UNCHANGED <<context, newest>> /\ unchanged' = (chunk.first \/ unchanged)
    BY <1>5 DEF Svc!Dechunkify
  <2>2. \/ message_context' = 0
        \/ message_context' = message_context
        \/ chunk.first /\ message_context' = context
    <3>1. \/ Svc!Refuses \/ Svc!TakesUnfragmented(chunk) \/ Svc!TakesFragment(chunk)
      BY <1>5 DEF Svc!Dechunkify
    <3> HIDE DEF chunk
    <3>2. CASE Svc!Refuses
      BY <3>2 DEF Svc!Refuses, Svc!None
    <3>3. CASE Svc!TakesUnfragmented(chunk)
      BY <3>3 DEF Svc!TakesUnfragmented
    <3>4. CASE Svc!TakesFragment(chunk)
      <4>1. message_context' \in {Svc!None, Svc!KeptFor(chunk)}
        BY <3>4 DEF Svc!TakesFragment
      <4> QED BY <4>1 DEF Svc!KeptFor, Svc!None
    <3> QED BY <3>1, <3>2, <3>3, <3>4
  <2> HIDE DEF chunk
  <2>3. (message_context <= newest /\ context <= newest /\ 1 <= newest)'
    BY <2>1, <2>2 DEF SvcFresh
  <2>4. CASE chunk.first
    <3>1. unchanged'
      BY <2>1, <2>4, Zenon
    <3> QED BY <2>3, <3>1 DEF SvcFresh
  <2>5. CASE ~chunk.first
    <3>1. ~unchanged' => ~unchanged
      BY <2>1, Zenon
    <3>2. ~unchanged' => (message_context = 0 \/ message_context # context)'
      BY <2>1, <2>2, <2>5, <3>1 DEF SvcFresh
    <3> QED BY <2>3, <3>2 DEF SvcFresh
  <2> QED BY <2>4, <2>5
<1> QED BY <1>1, <1>2, <1>3, <1>4, <1>5 DEF Svc!Next

\* A message during which the recipient changed reaches none, as long as no
\* recipient returns (message_context).
THEOREM SvcNothingStale ==
  ASSUME SvcSizes, Returning = FALSE
  PROVE  Svc!Spec => [][Svc!NothingStale]_(Svc!vars)
<1>1. Svc!Init => SvcInv /\ SvcFresh
  <2> SUFFICES ASSUME Svc!Init PROVE SvcInv /\ SvcFresh
    OBVIOUS
  <2>1. message_context = 0 /\ context = 1 /\ newest = 1
    BY DEF Svc!Init, Svc!None
  <2> QED BY <2>1, SvcInvStarts DEF SvcFresh
<1>2. SvcInv /\ SvcFresh /\ [Svc!Next]_(Svc!vars) => (SvcInv /\ SvcFresh)'
  BY SvcInvKept, SvcFreshKept
<1>3. SvcInv /\ SvcFresh /\ [Svc!Next]_(Svc!vars) => [Svc!NothingStale]_(Svc!vars)
  <2> SUFFICES ASSUME SvcInv, SvcFresh, Svc!Next, delivered' # delivered
               PROVE  unchanged \/ Head(wire).first \/ Svc!Unfragmented(Head(wire))
    BY DEF Svc!NothingStale
  <2> DEFINE chunk == Head(wire)
  <2>1. Svc!Dechunkify
    BY DEF Svc!Next, Svc!Send, Svc!SendDeviating, Svc!ChangeContext
  <2>2. \/ Svc!Unfragmented(chunk)
        \/ Svc!TakesFragment(chunk)
    BY <2>1 DEF Svc!Dechunkify, Svc!Refuses
  <2> HIDE DEF chunk
  <2>3. CASE Svc!TakesFragment(chunk) /\ ~chunk.first
    <3>1. Svc!KeptFor(chunk) # Svc!None
      BY <2>3 DEF Svc!TakesFragment
    <3>2. message_context = context /\ message_context # 0
      BY <2>3, <3>1 DEF Svc!KeptFor, Svc!None
    <3> QED BY <3>2 DEF SvcFresh
  <2> QED BY <2>2, <2>3 DEF chunk
<1> QED BY <1>1, <1>2, <1>3, PTL DEF Svc!Spec

\* The chunks of each message.
SvcCut(lens) == [m \in 1 .. Len(lens) |-> Svc!Chunkify(m, lens[m])]

LEMMA SvcCutTyped ==
  ASSUME SvcSizes, NEW lens \in Seq(Nat)
  PROVE  /\ SvcCut(lens) \in Seq(Seq(SvcChunk)) /\ Len(SvcCut(lens)) = Len(lens)
         /\ \A m \in 1 .. Len(lens) : /\ SvcCut(lens)[m] = Svc!Chunkify(m, lens[m])
                                      /\ Len(SvcCut(lens)[m]) = Svc!ChunkCount(lens[m])
<1>1. Len(lens) \in Nat /\ \A m \in 1 .. Len(lens) : m \in Nat /\ lens[m] \in Nat
  OBVIOUS
<1>2. \A m \in 1 .. Len(lens) : /\ Svc!Chunkify(m, lens[m]) \in Seq(SvcChunk)
                                /\ Len(Svc!Chunkify(m, lens[m])) = Svc!ChunkCount(lens[m])
  BY <1>1, SvcChunkify
<1> DEFINE chunks(m) == Svc!Chunkify(m, lens[m])
<1>3. \A m \in 1 .. Len(lens) : chunks(m) \in Seq(SvcChunk)
  BY <1>2
<1>4. SvcCut(lens) = [m \in 1 .. Len(lens) |-> chunks(m)]
  BY DEF SvcCut
<1> HIDE DEF chunks
<1>5. SvcCut(lens) \in Seq(Seq(SvcChunk)) /\ Len(SvcCut(lens)) = Len(lens)
  BY <1>1, <1>3, <1>4, SMTT(40)
<1>6. \A m \in 1 .. Len(lens) : SvcCut(lens)[m] = chunks(m)
  BY <1>4
<1> QED BY <1>2, <1>5, <1>6 DEF chunks

LEMMA SvcCutGrows ==
  ASSUME SvcSizes, NEW lens \in Seq(Nat), NEW len \in Nat
  PROVE  SvcCut(Append(lens, len)) = Append(SvcCut(lens), Svc!Chunkify(Len(lens) + 1, len))
<1> DEFINE longer == Append(lens, len)
           n == Len(lens)
           unit == Svc!Chunkify(n + 1, len)
           a == SvcCut(longer)
           b == SvcCut(lens)
<1>1. longer \in Seq(Nat) /\ n \in Nat /\ Len(longer) = n + 1 /\ longer[n + 1] = len
      /\ \A m \in 1 .. n : longer[m] = lens[m]
  OBVIOUS
<1> HIDE DEF longer, n
<1>2. /\ a \in Seq(Seq(SvcChunk)) /\ Len(a) = n + 1
      /\ \A m \in 1 .. n + 1 : a[m] = Svc!Chunkify(m, longer[m])
  BY <1>1, SvcCutTyped
<1>3. /\ b \in Seq(Seq(SvcChunk)) /\ Len(b) = n
      /\ \A m \in 1 .. n : b[m] = Svc!Chunkify(m, lens[m])
  BY SvcCutTyped DEF n
<1>4. a[n + 1] = unit /\ \A m \in 1 .. n : a[m] = b[m]
  BY <1>1, <1>2, <1>3
<1> HIDE DEF unit, a, b
<1>5. a = Append(b, a[n + 1])
  BY <1>1, <1>2, <1>3, <1>4, GrownSequence
<1> QED BY <1>4, <1>5 DEF a, b, longer, unit, n

\* The receiver has the message up to its kth chunk, or keeps nothing of it.
SvcAwaits(m, len, k) ==
  /\ k = 1 => expected_length = Svc!NoLength
  /\ k > 1 => /\ expected_length = len /\ received_length = (k - 1) * MaxChunkLen
              /\ message_context # 0 =>
                   chunked_pdu = SubSeq(Svc!Message(m, len), 1, (k - 1) * MaxChunkLen)

\* No check refuses the kth chunk of a message, and what is kept with it is
\* the message up to its end.
SvcFitting(chunk, m, len, k) ==
  LET hi == IF k * MaxChunkLen < len THEN k * MaxChunkLen ELSE len
  IN  /\ ~Svc!TooLong(chunk) /\ ~Svc!Unfragmented(chunk) /\ ~Svc!Misplaced(chunk)
      /\ ~(MaxMessageSize < Svc!Total(chunk)) /\ ~(chunk.length < Svc!Total(chunk))
      /\ ~Svc!Ending(chunk)
      /\ chunk.first <=> k = 1
      /\ chunk.last <=> k = Svc!ChunkCount(len)
      /\ chunk.length = len /\ Svc!Total(chunk) = hi
      /\ Svc!KeptFor(chunk) # 0 =>
           chunked_pdu \o chunk.bytes = SubSeq(Svc!Message(m, len), 1, hi)

LEMMA SvcChunkFits ==
  ASSUME SvcSizes, SvcInv, NEW m \in Nat, NEW len \in Nat, len <= MaxMessageSize,
         NEW k \in 1 .. Svc!ChunkCount(len), NEW chunk, chunk = Svc!Chunkify(m, len)[k],
         SvcAwaits(m, len, k)
  PROVE  SvcFitting(chunk, m, len, k)
<1> DEFINE lo == (k - 1) * MaxChunkLen
           hi == IF k * MaxChunkLen < len THEN k * MaxChunkLen ELSE len
           message == Svc!Message(m, len)
           bytes == SvcPart(m, len, k)
           last == k = Svc!ChunkCount(len)
<1>1. /\ lo \in Nat /\ hi \in Nat /\ lo <= hi /\ hi <= len
      /\ k = 1 => lo = 0
      /\ bytes \in SvcBytes /\ Len(bytes) = hi - lo
      /\ SubSeq(message, 1, lo) \o bytes = SubSeq(message, 1, hi)
  BY SvcPartProperty
<1>2. message \in SvcBytes /\ Len(message) = len
  BY SvcMessage
<1>3. /\ chunk.first <=> k = 1
      /\ chunk.last <=> last
      /\ chunk.length = len /\ ~chunk.compressed /\ chunk.bytes = bytes
  BY SvcChunkOf
<1>4. k \in Nat \ {0} /\ Svc!ChunkCount(len) \in Nat /\ k * MaxChunkLen \in Nat
  BY SvcChunkCount, TimesMonotone DEF SvcSizes
<1>5. last => hi = len
  <2>1. k * MaxChunkLen < len <=> k < Svc!ChunkCount(len)
    BY SvcPartProperty
  <2> QED BY <1>4, <2>1
<1>6. MaxMessageSize \in Nat /\ Svc!NoLength \in Nat /\ MaxMessageSize < Svc!NoLength
  BY SvcNoLength DEF SvcSizes
<1>7. k = 1 => received_length = 0 /\ chunked_pdu = <<>> /\ lo = 0 /\ expected_length = Svc!NoLength
  BY <1>1 DEF SvcAwaits, SvcInv, Svc!LimitsKept, Svc!CleanSlate, Svc!InSequence
<1>8. k # 1 => k > 1 /\ expected_length = len /\ received_length = lo
  BY <1>4 DEF SvcAwaits
<1>9. k # 1 /\ message_context # 0 => chunked_pdu = SubSeq(message, 1, lo)
  BY <1>4 DEF SvcAwaits
<1> HIDE DEF lo, hi, message, bytes, last
<1>10. Svc!Total(chunk) = hi
  BY <1>1, <1>3, <1>7, <1>8 DEF Svc!Total
<1>11. ~Svc!TooLong(chunk)
  BY <1>1, <1>3, <1>6 DEF Svc!TooLong
<1>12. ~Svc!Unfragmented(chunk) /\ ~Svc!Misplaced(chunk)
  <2>1. CASE k = 1
    BY <1>3, <1>7, <2>1 DEF Svc!Unfragmented, Svc!Misplaced, Svc!InSequence
  <2>2. CASE k # 1
    BY <1>3, <1>6, <1>8, <2>2 DEF Svc!Unfragmented, Svc!Misplaced, Svc!InSequence
  <2> QED BY <2>1, <2>2
<1>13. ~(MaxMessageSize < Svc!Total(chunk)) /\ ~(chunk.length < Svc!Total(chunk))
  BY <1>1, <1>3, <1>6, <1>10
<1>14. ~Svc!Ending(chunk)
  BY <1>3, <1>5, <1>10 DEF Svc!Ending
<1>15. ASSUME Svc!KeptFor(chunk) # 0
       PROVE  chunked_pdu \o chunk.bytes = SubSeq(message, 1, hi)
  <2>1. CASE k = 1
    <3>1. SubSeq(message, 1, 0) = <<>>
      BY <1>2 DEF SvcBytes
    <3> QED BY <1>1, <1>3, <1>7, <2>1, <3>1
  <2>2. CASE k # 1
    <3>1. message_context # 0
      BY <1>3, <1>15, <2>2 DEF Svc!KeptFor, Svc!None
    <3> QED BY <1>1, <1>3, <1>9, <2>2, <3>1
  <2> QED BY <2>1, <2>2
<1> QED BY <1>3, <1>10, <1>11, <1>12, <1>13, <1>14, <1>15 DEF SvcFitting, hi, message, last

\* The chunks on their way go on where the receiver is.  It keeps all that has
\* come of the message, or nothing; the first recipient has missed none.
SvcReceiving(msg, part) ==
  /\ InFlight(wire, SvcCut(sent), msg, part)
  /\ SvcAwaits(msg[1], sent[msg[1]], part[1])
  /\ part[1] > 1 /\ context = 1 => message_context = 1
  /\ context = 1 => Len(delivered) = msg[1] - 1
  /\ \A i \in 1 .. Len(delivered) :
       delivered[i].bytes # <<>> => delivered[i].bytes[1][1] \in 1 .. msg[1] - 1

\* Every message sent fits the limit, as max_message_size of both ends has it.
SvcFits == \A len \in MessageLens : len <= MaxMessageSize

SvcStream ==
  /\ SvcInv /\ 1 <= newest /\ refused = FALSE
  /\ \A i \in 1 .. Len(sent) : sent[i] <= MaxMessageSize
  /\ Svc!Intact
  /\ \E msg, part : SvcReceiving(msg, part)

LEMMA SvcStreamStarts ==
  ASSUME SvcSizes, Svc!Init
  PROVE  SvcStream
<1> DEFINE one == [i \in 1 .. 1 |-> 1]
<1>1. SvcInv
  BY SvcInvStarts
<1>2. /\ wire = <<>> /\ sent = <<>> /\ delivered = <<>> /\ expected_length = Svc!NoLength
      /\ refused = FALSE /\ newest = 1
  BY DEF Svc!Init
<1>3. Len(SvcCut(sent)) = 0 /\ Len(wire) = 0 /\ Len(delivered) = 0 /\ Len(sent) = 0
  <2>1. sent \in Seq(Nat) /\ Len(sent) = 0
    BY <1>2
  <2> QED BY <1>2, <2>1, SvcCutTyped
<1>4. one \in [1 .. 1 -> Nat] /\ one[1] = 1
  OBVIOUS
<1> HIDE DEF one
<1>5. InFlight(wire, SvcCut(sent), one, one)
  BY <1>3, <1>4 DEF InFlight
<1>6. SvcReceiving(one, one)
  BY <1>2, <1>3, <1>4, <1>5 DEF SvcReceiving, SvcAwaits
<1>7. Svc!Intact
  BY <1>3 DEF Svc!Intact
<1> QED BY <1>1, <1>2, <1>3, <1>6, <1>7 DEF SvcStream

\* The messages delivered so far are below the one under way.
LEMMA SvcPlace ==
  ASSUME SvcSizes, SvcInv, NEW msg, NEW part, SvcReceiving(msg, part)
  PROVE  /\ msg[1] \in Nat \ {0} /\ msg[1] <= Len(sent) + 1 /\ part[1] \in Nat \ {0}
         /\ wire # <<>> \/ part[1] > 1 => msg[1] \in 1 .. Len(sent)
<1>1. sent \in Seq(Nat) /\ wire \in Seq(SvcChunk) /\ Len(sent) \in Nat /\ Len(wire) \in Nat
  BY DEF SvcInv, SvcTypes
<1>2. Len(SvcCut(sent)) = Len(sent)
  BY <1>1, SvcCutTyped
<1>3. InFlight(wire, SvcCut(sent), msg, part)
  BY DEF SvcReceiving
<1>4. CASE Len(wire) = 0
  BY <1>1, <1>2, <1>3, <1>4 DEF InFlight
<1>5. CASE Len(wire) # 0
  <2>1. 1 \in 1 .. Len(wire)
    BY <1>1, <1>5
  <2>2. msg[1] \in 1 .. Len(sent) /\ part[1] \in 1 .. Len(SvcCut(sent)[msg[1]]) /\ part[1] \in Nat
    BY <1>1, <1>2, <1>3, <2>1 DEF InFlight
  <2> QED BY <1>1, <2>2
<1> QED BY <1>4, <1>5

LEMMA SvcStreamSends ==
  ASSUME SvcSizes, SvcFits, SvcStream, NEW len \in MessageLens, Svc!Send(len)
  PROVE  SvcStream'
<1> DEFINE unit == Svc!Chunkify(Len(sent) + 1, len)
<1>1. SvcInv /\ SvcInv'
  BY SvcSendKeeps DEF SvcStream
<1>2. /\ sent \in Seq(Nat) /\ wire \in Seq(SvcChunk) /\ Len(sent) \in Nat /\ len \in Nat /\ len <= MaxMessageSize
  BY <1>1 DEF SvcInv, SvcTypes, SvcSizes, SvcFits
<1>3. /\ sent' = Append(sent, len) /\ wire' = wire \o unit
      /\ UNCHANGED <<context, chunked_pdu, expected_length, received_length,
                     message_context, delivered, refused, newest>>
  BY DEF Svc!Send
<1>4. /\ Len(sent') = Len(sent) + 1 /\ sent'[Len(sent) + 1] = len
      /\ \A i \in 1 .. Len(sent) : i \in 1 .. Len(sent') /\ sent'[i] = sent[i]
  BY <1>2, <1>3
<1>5. unit \in Seq(SvcChunk) /\ Len(unit) # 0
  <2>1. Len(sent) + 1 \in Nat /\ 1 \in Nat \ {0}
    BY <1>2
  <2>2. Svc!ChunkCount(len) # 0
    BY <1>2, <2>1, SvcChunkCount
  <2> QED BY <1>2, <2>1, <2>2, SvcChunkify
<1> HIDE DEF unit
<1>6. PICK msg, part : SvcReceiving(msg, part)
  BY DEF SvcStream
<1>7. /\ msg[1] \in Nat \ {0} /\ msg[1] <= Len(sent) + 1 /\ part[1] \in Nat \ {0}
      /\ part[1] > 1 => msg[1] \in 1 .. Len(sent)
  BY <1>1, <1>6, SvcPlace
<1>8. \E m, p : SvcReceiving(m, p)'
  <2>1. SvcCut(sent) \in Seq(Seq(SvcChunk))
    BY <1>2, SvcCutTyped
  <2>2. PICK m, p : /\ InFlight(wire \o unit, Append(SvcCut(sent), unit), m, p)
                    /\ m[1] = msg[1] /\ p[1] = part[1]
    BY <1>2, <1>5, <1>6, <2>1, InFlightGrows DEF SvcReceiving
  <2>3. SvcCut(sent)' = Append(SvcCut(sent), unit)
    BY <1>2, <1>3, SvcCutGrows DEF unit
  <2>4. InFlight(wire, SvcCut(sent), m, p)'
    BY <1>3, <2>2, <2>3
  <2>5. part[1] > 1 => sent'[msg[1]] = sent[msg[1]]
    BY <1>4, <1>7
  <2>6. SvcReceiving(m, p)'
    BY <1>3, <1>6, <2>2, <2>4, <2>5 DEF SvcReceiving, SvcAwaits
  <2> QED BY <2>6
<1>9. (\A i \in 1 .. Len(sent) : sent[i] <= MaxMessageSize)'
  BY <1>2, <1>4 DEF SvcStream
<1>10. Svc!Intact'
  <2> SUFFICES ASSUME NEW i \in 1 .. Len(delivered), delivered[i].bytes # <<>>
               PROVE  /\ delivered[i].bytes = Svc!Message(delivered[i].bytes[1][1], sent'[delivered[i].bytes[1][1]])
                      /\ \A j \in 1 .. (i - 1) : delivered[j].bytes # <<>> =>
                           delivered[j].bytes[1][1] < delivered[i].bytes[1][1]
    BY <1>3 DEF Svc!Intact
  <2> DEFINE it == delivered[i].bytes
             n == it[1][1]
  <2>1. n \in 1 .. msg[1] - 1
    BY <1>6 DEF SvcReceiving
  <2>2. sent'[n] = sent[n]
    <3>1. n \in 1 .. Len(sent)
      BY <1>2, <1>7, <2>1
    <3> QED BY <1>4, <3>1
  <2>3. /\ it = Svc!Message(n, sent[n])
        /\ \A j \in 1 .. (i - 1) : delivered[j].bytes # <<>> => delivered[j].bytes[1][1] < n
    BY DEF SvcStream, Svc!Intact
  <2> QED BY <2>2, <2>3
<1>11. (1 <= newest /\ refused = FALSE)'
  BY <1>3 DEF SvcStream
<1> QED BY <1>1, <1>8, <1>9, <1>10, <1>11 DEF SvcStream

LEMMA SvcStreamChanges ==
  ASSUME SvcSizes, Returning = FALSE, SvcStream, NEW c \in Svc!None .. MaxContext, Svc!ChangeContext(c)
  PROVE  SvcStream'
<1>1. SvcInv /\ SvcInv' /\ newest \in Nat
  BY SvcChangeKeeps DEF SvcStream, SvcInv, SvcTypes
<1>2. /\ c \in Nat /\ (c = 0 \/ c > newest) /\ context' = c
      /\ newest' = (IF c > newest THEN c ELSE newest)
      /\ UNCHANGED <<sent, wire, chunked_pdu, expected_length, received_length,
                     message_context, delivered, refused>>
  BY DEF Svc!ChangeContext, Svc!None, SvcSizes
<1>3. context' # 1 /\ 1 <= newest'
  BY <1>1, <1>2 DEF SvcStream
<1>4. PICK msg, part : SvcReceiving(msg, part)
  BY DEF SvcStream
<1>5. SvcReceiving(msg, part)'
  BY <1>2, <1>3, <1>4 DEF SvcReceiving, SvcAwaits
<1>6. (\A i \in 1 .. Len(sent) : sent[i] <= MaxMessageSize)' /\ (refused = FALSE)'
  BY <1>2 DEF SvcStream
<1>7. Svc!Intact'
  BY <1>2 DEF SvcStream, Svc!Intact
<1> QED BY <1>1, <1>3, <1>5, <1>6, <1>7 DEF SvcStream

\* The last chunk of a message hands it to its recipient, if it still has one;
\* any other is kept for it.
LEMMA SvcChunkTaken ==
  ASSUME SvcSizes, SvcInv, Svc!Dechunkify,
         NEW m \in Nat, NEW len \in Nat, len <= MaxMessageSize,
         NEW k \in 1 .. Svc!ChunkCount(len), Head(wire) = Svc!Chunkify(m, len)[k],
         SvcAwaits(m, len, k), k > 1 /\ context = 1 => message_context = 1
  PROVE  \E kept : /\ context = 1 => kept = 1
                   /\ refused' = FALSE
                   /\ \/ /\ k = Svc!ChunkCount(len) /\ expected_length' = Svc!NoLength
                         /\ \/ kept = 0 /\ delivered' = delivered
                            \/ kept # 0 /\ delivered' = Append(delivered, [context |-> kept, bytes |-> Svc!Message(m, len)])
                      \/ /\ k < Svc!ChunkCount(len) /\ delivered' = delivered
                         /\ expected_length' = len /\ received_length' = k * MaxChunkLen
                         /\ message_context' = kept
                         /\ kept # 0 => chunked_pdu' = SubSeq(Svc!Message(m, len), 1, k * MaxChunkLen)
<1> DEFINE chunk == Head(wire)
           kept == Svc!KeptFor(chunk)
           hi == IF k * MaxChunkLen < len THEN k * MaxChunkLen ELSE len
           count == Svc!ChunkCount(len)
           message == Svc!Message(m, len)
<1>1. /\ ~Svc!TooLong(chunk) /\ ~Svc!Unfragmented(chunk) /\ ~Svc!Misplaced(chunk)
      /\ ~(MaxMessageSize < Svc!Total(chunk)) /\ ~(chunk.length < Svc!Total(chunk))
      /\ ~Svc!Ending(chunk)
      /\ chunk.first <=> k = 1
      /\ chunk.last <=> k = count
      /\ chunk.length = len /\ Svc!Total(chunk) = hi
      /\ kept # 0 => chunked_pdu \o chunk.bytes = SubSeq(message, 1, hi)
  <2>1. SvcFitting(chunk, m, len, k)
    BY SvcChunkFits
  <2> QED BY <2>1 DEF SvcFitting
<1>2. Svc!TakesFragment(chunk)
  <2>1. IF Svc!TooLong(chunk) THEN Svc!Refuses
        ELSE IF Svc!Unfragmented(chunk) THEN Svc!TakesUnfragmented(chunk)
        ELSE IF \/ Svc!Misplaced(chunk) \/ MaxMessageSize < Svc!Total(chunk)
                \/ chunk.length < Svc!Total(chunk) \/ Svc!Ending(chunk)
        THEN Svc!Refuses
        ELSE Svc!TakesFragment(chunk)
    BY DEF Svc!Dechunkify
  <2> QED BY ONLY <1>1, <2>1
<1>3. context = 1 => kept = 1
  <2>1. k = 1 \/ k > 1
    BY SvcChunkCount
  <2> QED BY <1>1, <2>1 DEF Svc!KeptFor
<1>4. /\ k * MaxChunkLen < len <=> k < count
      /\ SubSeq(message, 1, len) = message
  BY SvcPartProperty
<1>5. k \in Nat /\ count \in Nat /\ 1 \in Nat \ {0} /\ k <= count
  BY SvcChunkCount
<1>6. Svc!None = 0
  BY DEF Svc!None
<1> HIDE DEF kept, message, chunk
<1>7. CASE k = count
  <2>1. hi = len
    BY <1>4, <1>5, <1>7
  <2>2. refused' = FALSE /\ expected_length' = Svc!NoLength
    BY <1>1, <1>2, <1>7 DEF Svc!TakesFragment
  <2>3. \/ kept = 0 /\ delivered' = delivered
        \/ kept # 0 /\ delivered' = Append(delivered, [context |-> kept, bytes |-> message])
    <3>1. CASE kept = 0
      BY <1>1, <1>2, <1>6, <1>7, <3>1 DEF Svc!TakesFragment, kept
    <3>2. CASE kept # 0
      <4>1. chunked_pdu \o chunk.bytes = message
        BY <1>1, <1>4, <2>1, <3>2
      <4>2. delivered' = Append(delivered, [context |-> kept, bytes |-> chunked_pdu \o chunk.bytes])
        BY <1>1, <1>2, <1>6, <1>7, <3>2 DEF Svc!TakesFragment, kept
      <4> QED BY <3>2, <4>1, <4>2
    <3> QED BY <3>1, <3>2
  <2> QED BY <1>3, <1>7, <2>2, <2>3 DEF message
<1>8. CASE k # count
  <2>1. k < count /\ hi = k * MaxChunkLen
    BY <1>4, <1>5, <1>8
  <2>2. /\ refused' = FALSE /\ delivered' = delivered
        /\ expected_length' = len /\ received_length' = hi /\ message_context' = kept
        /\ chunked_pdu' = IF kept = 0 THEN <<>> ELSE chunked_pdu \o chunk.bytes
    BY <1>1, <1>2, <1>6, <1>8 DEF Svc!TakesFragment, kept
  <2>3. kept # 0 => chunked_pdu' = SubSeq(message, 1, hi)
    BY <1>1, <2>2
  <2> QED BY <1>3, <2>1, <2>2, <2>3 DEF message
<1> QED BY <1>7, <1>8

LEMMA SvcStreamDechunkifies ==
  ASSUME SvcSizes, SvcStream, Svc!Dechunkify
  PROVE  SvcStream'
<1>1. SvcInv /\ SvcInv'
  BY SvcDechunkifyKeeps DEF SvcStream
<1>2. wire' = Tail(wire) /\ wire # <<>> /\ UNCHANGED <<sent, context, newest>>
  BY DEF Svc!Dechunkify
<1>3. /\ sent \in Seq(Nat) /\ wire \in Seq(SvcChunk) /\ Len(sent) \in Nat
      /\ delivered \in Seq([context : Nat, bytes : SvcBytes]) /\ Len(delivered) \in Nat
  BY <1>1 DEF SvcInv, SvcTypes
<1>4. PICK msg, part : SvcReceiving(msg, part)
  BY DEF SvcStream
<1> DEFINE m == msg[1]
           k == part[1]
           len == sent[m]
<1>5. SvcCut(sent) \in Seq(Seq(SvcChunk)) /\ Len(SvcCut(sent)) = Len(sent)
      /\ \A j \in 1 .. Len(sent) : /\ SvcCut(sent)[j] = Svc!Chunkify(j, sent[j])
                                   /\ Len(SvcCut(sent)[j]) = Svc!ChunkCount(sent[j])
  BY <1>3, SvcCutTyped
<1>6. Len(wire) \in Nat \ {0} /\ Head(wire) = wire[1]
  BY <1>2, <1>3
<1>7. /\ m \in 1 .. Len(sent) /\ k \in 1 .. Len(SvcCut(sent)[m]) /\ wire[1] = SvcCut(sent)[m][k]
      /\ k < Len(SvcCut(sent)[m]) => msg[2] = m /\ part[2] = k + 1
      /\ k = Len(SvcCut(sent)[m]) => msg[2] = m + 1 /\ part[2] = 1
  <2>1. 1 \in 1 .. Len(wire) /\ 1 + 1 = 2
    BY <1>6
  <2>2. InFlight(wire, SvcCut(sent), msg, part)
    BY <1>4 DEF SvcReceiving
  <2> QED BY <1>5, <2>1, <2>2 DEF InFlight
<1>8. /\ m \in Nat \ {0} /\ len \in Nat /\ len <= MaxMessageSize
      /\ k \in 1 .. Svc!ChunkCount(len) /\ Head(wire) = Svc!Chunkify(m, len)[k]
      /\ k < Svc!ChunkCount(len) => msg[2] = m /\ part[2] = k + 1
      /\ k = Svc!ChunkCount(len) => msg[2] = m + 1 /\ part[2] = 1
  <2>1. m \in Nat \ {0} /\ len \in Nat
    BY <1>3, <1>7
  <2>2. len <= MaxMessageSize
    BY <1>7 DEF SvcStream
  <2>3. SvcCut(sent)[m] = Svc!Chunkify(m, len) /\ Len(SvcCut(sent)[m]) = Svc!ChunkCount(len)
    BY <1>5, <1>7
  <2> QED BY <1>6, <1>7, <2>1, <2>2, <2>3
<1>9. /\ SvcAwaits(m, len, k) /\ (k > 1 /\ context = 1 => message_context = 1)
      /\ context = 1 => Len(delivered) = m - 1
      /\ \A i \in 1 .. Len(delivered) : delivered[i].bytes # <<>> => delivered[i].bytes[1][1] \in 1 .. m - 1
  BY <1>4 DEF SvcReceiving
<1>10. PICK q, r : InFlight(Tail(wire), SvcCut(sent), q, r) /\ q[1] = msg[2] /\ r[1] = part[2]
  BY <1>2, <1>3, <1>4, <1>5, InFlightShrinks DEF SvcReceiving
<1>11. InFlight(wire, SvcCut(sent), q, r)'
  BY <1>2, <1>10
<1> HIDE DEF m, k, len
<1>12. m \in Nat /\ len' = len
  BY <1>2, <1>8 DEF len
<1>13. PICK kept : /\ context = 1 => kept = 1
                   /\ refused' = FALSE
                   /\ \/ /\ k = Svc!ChunkCount(len) /\ expected_length' = Svc!NoLength
                         /\ \/ kept = 0 /\ delivered' = delivered
                            \/ kept # 0 /\ delivered' = Append(delivered, [context |-> kept, bytes |-> Svc!Message(m, len)])
                      \/ /\ k < Svc!ChunkCount(len) /\ delivered' = delivered
                         /\ expected_length' = len /\ received_length' = k * MaxChunkLen
                         /\ message_context' = kept
                         /\ kept # 0 => chunked_pdu' = SubSeq(Svc!Message(m, len), 1, k * MaxChunkLen)
  BY <1>1, <1>8, <1>9, <1>12, SvcChunkTaken
<1>14. (1 <= newest /\ \A i \in 1 .. Len(sent) : sent[i] <= MaxMessageSize)'
  BY <1>2 DEF SvcStream
<1>15. SUFFICES Svc!Intact' /\ SvcReceiving(q, r)'
  BY <1>1, <1>13, <1>14 DEF SvcStream
<1>16. CASE k < Svc!ChunkCount(len) /\ delivered' = delivered
  <2>1. /\ q[1] = m /\ r[1] = k + 1 /\ k \in Nat /\ (k + 1) - 1 = k /\ k + 1 # 1 /\ sent'[m] = len
        /\ k # Svc!ChunkCount(len)
    BY <1>2, <1>8, <1>10, <1>16, SvcChunkCount DEF len
  <2>2. SvcReceiving(q, r)'
    BY <1>2, <1>9, <1>11, <1>13, <1>16, <2>1 DEF SvcReceiving, SvcAwaits
  <2>3. Svc!Intact'
    BY <1>2, <1>16 DEF SvcStream, Svc!Intact
  <2> QED BY <2>2, <2>3
<1>17. CASE k = Svc!ChunkCount(len) /\ kept = 0 /\ delivered' = delivered /\ expected_length' = Svc!NoLength
  <2>1. q[1] = m + 1 /\ r[1] = 1 /\ context' # 1 /\ (m + 1) - 1 = m
    BY <1>2, <1>8, <1>10, <1>13, <1>17
  <2>2. \A i \in 1 .. Len(delivered) : delivered[i].bytes # <<>> => delivered[i].bytes[1][1] \in 1 .. m
    BY <1>8, <1>9
  <2>3. SvcReceiving(q, r)'
    BY <1>11, <1>17, <2>1, <2>2 DEF SvcReceiving, SvcAwaits
  <2>4. Svc!Intact'
    BY <1>2, <1>17 DEF SvcStream, Svc!Intact
  <2> QED BY <2>3, <2>4
<1>18. CASE /\ k = Svc!ChunkCount(len) /\ expected_length' = Svc!NoLength
            /\ delivered' = Append(delivered, [context |-> kept, bytes |-> Svc!Message(m, len)])
  <2> DEFINE message == Svc!Message(m, len)
             n == Len(delivered) + 1
  <2>1. q[1] = m + 1 /\ r[1] = 1 /\ (m + 1) - 1 = m
    BY <1>8, <1>10, <1>18
  <2>2. message # <<>> => message[1][1] = m /\ message = Svc!Message(m, sent[m])
    BY <1>8 DEF Svc!Message, len
  <2> HIDE DEF message
  <2>3. /\ Len(delivered') = n /\ n - 1 = Len(delivered)
        /\ \A i \in 1 .. n - 1 : delivered'[i] = delivered[i]
        /\ delivered'[n] = [context |-> kept, bytes |-> message]
    BY <1>3, <1>18 DEF message
  <2>4. delivered'[n].bytes = message
    BY <2>3
  <2>5. \A i \in 1 .. n : i = n \/ i \in 1 .. n - 1
    BY <1>3
  <2> HIDE DEF n
  <2>6. \A i \in 1 .. n : delivered'[i].bytes # <<>> => delivered'[i].bytes[1][1] \in 1 .. m
    BY <1>8, <1>9, <2>2, <2>3, <2>4, <2>5
  <2>7. SvcReceiving(q, r)'
    <3>1. context' = 1 => Len(delivered') = (m + 1) - 1
      BY <1>2, <1>3, <1>8, <1>9, <2>3 DEF n
    <3> QED BY <1>11, <1>18, <2>1, <2>3, <2>6, <3>1 DEF SvcReceiving, SvcAwaits
  <2>8. Svc!Intact'
    <3>1. ASSUME NEW i \in 1 .. n, delivered'[i].bytes # <<>>
          PROVE  LET bytes == delivered'[i].bytes
                 IN  /\ bytes = Svc!Message(bytes[1][1], sent'[bytes[1][1]])
                     /\ \A j \in 1 .. (i - 1) : delivered'[j].bytes # <<>> => delivered'[j].bytes[1][1] < bytes[1][1]
      <4>1. CASE i = n
        <5>1. delivered'[i].bytes = message /\ message[1][1] = m /\ message = Svc!Message(m, sent'[m])
          BY <1>2, <2>2, <2>4, <3>1, <4>1
        <5>2. \A j \in 1 .. (i - 1) : delivered'[j].bytes # <<>> => delivered'[j].bytes[1][1] < m
          BY <1>8, <1>9, <2>3, <4>1
        <5> QED BY <5>1, <5>2
      <4>2. CASE i # n
        <5>1. i \in 1 .. n - 1 /\ \A j \in 1 .. (i - 1) : j \in 1 .. n - 1
          BY <1>3, <2>5, <4>2 DEF n
        <5>2. delivered'[i] = delivered[i] /\ i \in 1 .. Len(delivered)
              /\ \A j \in 1 .. (i - 1) : delivered'[j] = delivered[j]
          BY <2>3, <5>1
        <5> QED BY <1>2, <3>1, <5>2 DEF SvcStream, Svc!Intact
      <4> QED BY <4>1, <4>2
    <3> QED BY <2>3, <3>1 DEF Svc!Intact
  <2> QED BY <2>7, <2>8
<1> QED BY <1>13, <1>16, <1>17, <1>18

\* What chunkify_one cuts, dechunkify puts together, whole and in order, for
\* any sizes: no chunk of this crate's is refused, no message is mixed with
\* another, and the first recipient misses none, whatever recipients follow.
THEOREM SvcMessagesIntact ==
  ASSUME SvcSizes, SvcFits, Deviating = FALSE, Returning = FALSE
  PROVE  Svc!Spec => []Svc!MessagesIntact
<1>1. Svc!Init => SvcStream
  BY SvcStreamStarts
<1>2. SvcStream /\ [Svc!Next]_(Svc!vars) => SvcStream'
  <2> SUFFICES ASSUME SvcStream, [Svc!Next]_(Svc!vars) PROVE SvcStream'
    OBVIOUS
  <2>1. CASE UNCHANGED Svc!vars
    <3>1. SvcInv'
      BY <2>1, SvcInvKept DEF SvcStream
    <3>2. UNCHANGED <<sent, wire, context, chunked_pdu, expected_length, received_length,
                      message_context, delivered, refused, newest>>
      BY <2>1 DEF Svc!vars
    <3> QED BY <3>1, <3>2 DEF SvcStream, SvcReceiving, SvcAwaits, Svc!Intact
  <2>2. ASSUME NEW len \in MessageLens, Svc!Send(len) PROVE SvcStream'
    BY <2>2, SvcStreamSends
  <2>3. ASSUME NEW chunk, Svc!SendDeviating(chunk) PROVE SvcStream'
    BY <2>3 DEF Svc!SendDeviating
  <2>4. CASE Svc!Dechunkify
    BY <2>4, SvcStreamDechunkifies
  <2>5. ASSUME NEW c \in Svc!None .. MaxContext, Svc!ChangeContext(c) PROVE SvcStream'
    BY <2>5, SvcStreamChanges
  <2> QED BY <2>1, <2>2, <2>3, <2>4, <2>5 DEF Svc!Next
<1>3. SvcStream => Svc!MessagesIntact
  <2> SUFFICES ASSUME SvcStream PROVE Svc!MessagesIntact
    OBVIOUS
  <2>1. ASSUME wire = <<>>, context = 1 PROVE Len(delivered) = Len(sent)
    <3>1. PICK msg, part : SvcReceiving(msg, part)
      BY DEF SvcStream
    <3>2. sent \in Seq(Nat) /\ Len(sent) \in Nat
      BY DEF SvcStream, SvcInv, SvcTypes
    <3>3. Len(SvcCut(sent)) = Len(sent)
      BY <3>2, SvcCutTyped
    <3>4. msg[1] = Len(sent) + 1 /\ Len(delivered) = msg[1] - 1
      BY <2>1, <3>1, <3>3 DEF SvcReceiving, InFlight
    <3> QED BY <3>2, <3>4
  <2> QED BY <2>1 DEF SvcStream, Svc!MessagesIntact, Svc!OwnChunksAccepted, Svc!AllDelivered
<1> QED BY <1>1, <1>2, <1>3, PTL DEF Svc!Spec

-----------------------------------------------------------------------------
(* The set of static channels *)

CONSTANTS Types, Ids, MaxStatic, MaxKey, MaxProcessors

VARIABLES channels, to_channel_id, to_channel_key, next_dynamic_key, made, handed

Set == INSTANCE StaticChannelSet

\* The keys handed out are below the counter.
SetHandedBelow ==
  /\ next_dynamic_key \in Nat
  /\ \A h \in handed : \E n \in Nat : n < next_dynamic_key /\ h[1] = Set!Dynamic(n)

SetInv == Set!InverseMaps /\ Set!DynamicKeysUnique /\ SetHandedBelow

\* Keys of types and keys made at run time differ, and the latter by their numbers.
LEMMA SetKeysDiffer ==
  /\ \A t, n : Set!Typed(t) # Set!Dynamic(n)
  /\ \A m, n : Set!Dynamic(m) = Set!Dynamic(n) => m = n
  BY DEF Set!Typed, Set!Dynamic

\* detach_channel_id keeps the maps inverse, also when the channel goes.
LEMMA SetDetaches ==
  ASSUME Set!InverseMaps, NEW key, Set!Detaches(key), DOMAIN channels \ {key} \subseteq DOMAIN channels'
  PROVE  Set!InverseMaps'
<1>1. DOMAIN to_channel_id' = DOMAIN to_channel_id \ {key}
      /\ \A k \in DOMAIN to_channel_id \ {key} : to_channel_id'[k] = to_channel_id[k]
  BY DEF Set!Detaches, Set!Without, Set!Restrict
<1>2. CASE key \in DOMAIN to_channel_id
  <2>1. /\ DOMAIN to_channel_key' = DOMAIN to_channel_key \ {to_channel_id[key]}
        /\ \A id \in DOMAIN to_channel_key \ {to_channel_id[key]} :
             to_channel_key'[id] = to_channel_key[id]
    BY <1>2 DEF Set!Detaches, Set!Without, Set!Restrict
  <2>2. ASSUME NEW k \in DOMAIN to_channel_id'
        PROVE  to_channel_id'[k] \in DOMAIN to_channel_key' /\ to_channel_key'[to_channel_id'[k]] = k
    <3>1. k \in DOMAIN to_channel_id /\ k # key /\ to_channel_id'[k] = to_channel_id[k]
      BY <1>1
    <3>2. to_channel_id[k] # to_channel_id[key]
      BY <1>2, <3>1 DEF Set!InverseMaps
    <3> QED BY <2>1, <3>1, <3>2 DEF Set!InverseMaps
  <2>3. ASSUME NEW id \in DOMAIN to_channel_key'
        PROVE  to_channel_key'[id] \in DOMAIN to_channel_id' /\ to_channel_id'[to_channel_key'[id]] = id
    <3>1. id \in DOMAIN to_channel_key /\ id # to_channel_id[key] /\ to_channel_key'[id] = to_channel_key[id]
      BY <2>1
    <3> QED BY <1>1, <3>1 DEF Set!InverseMaps
  <2> QED BY <1>1, <2>2, <2>3 DEF Set!InverseMaps
<1>3. CASE key \notin DOMAIN to_channel_id
  <2>1. to_channel_key' = to_channel_key
    BY <1>3 DEF Set!Detaches
  <2> QED BY <1>1, <1>3, <2>1 DEF Set!InverseMaps
<1> QED BY <1>2, <1>3

\* The maps are inverse after attach_channel_id_by_key.
LEMMA SetAttaches ==
  ASSUME Set!InverseMaps, NEW key, NEW id, Set!AttachChannelIdByKey(key, id)
  PROVE  Set!InverseMaps'
<1> DEFINE f == IF id \in DOMAIN to_channel_key THEN Set!Without(to_channel_id, {to_channel_key[id]})
                ELSE to_channel_id
           g == IF key \in DOMAIN to_channel_id THEN Set!Without(to_channel_key, {to_channel_id[key]})
                ELSE to_channel_key
<1>1. to_channel_id' = Set!With(f, key, id) /\ to_channel_key' = Set!With(g, id, key)
      /\ channels' = channels /\ key \in DOMAIN channels
  BY DEF Set!AttachChannelIdByKey
<1>2. /\ \A k : k \in DOMAIN f <=> k \in DOMAIN to_channel_id
                                  /\ ~(id \in DOMAIN to_channel_key /\ k = to_channel_key[id])
      /\ \A k \in DOMAIN f : f[k] = to_channel_id[k]
  <2>1. CASE id \in DOMAIN to_channel_key
    BY <2>1 DEF Set!Without, Set!Restrict
  <2> QED BY <2>1
<1>3. /\ \A i : i \in DOMAIN g <=> i \in DOMAIN to_channel_key
                                  /\ ~(key \in DOMAIN to_channel_id /\ i = to_channel_id[key])
      /\ \A i \in DOMAIN g : g[i] = to_channel_key[i]
  <2>1. CASE key \in DOMAIN to_channel_id
    BY <2>1 DEF Set!Without, Set!Restrict
  <2> QED BY <2>1
<1> HIDE DEF f, g
<1>4. /\ DOMAIN to_channel_id' = DOMAIN f \cup {key}
      /\ to_channel_id'[key] = id
      /\ \A k \in DOMAIN f : k # key => to_channel_id'[k] = f[k]
  BY <1>1 DEF Set!With
<1>5. /\ DOMAIN to_channel_key' = DOMAIN g \cup {id}
      /\ to_channel_key'[id] = key
      /\ \A i \in DOMAIN g : i # id => to_channel_key'[i] = g[i]
  BY <1>1 DEF Set!With
<1>6. DOMAIN to_channel_id' \subseteq DOMAIN channels'
  BY <1>1, <1>2, <1>4 DEF Set!InverseMaps
<1>7. ASSUME NEW k \in DOMAIN to_channel_id'
      PROVE  to_channel_id'[k] \in DOMAIN to_channel_key' /\ to_channel_key'[to_channel_id'[k]] = k
  <2>1. CASE k = key
    BY <2>1, <1>4, <1>5
  <2>2. CASE k # key
    <3>1. k \in DOMAIN f /\ to_channel_id'[k] = to_channel_id[k]
      BY <2>2, <1>2, <1>4
    <3>2. to_channel_id[k] \in DOMAIN to_channel_key /\ to_channel_key[to_channel_id[k]] = k
      BY <3>1, <1>2 DEF Set!InverseMaps
    <3>3. to_channel_id[k] # id
      BY <3>1, <3>2, <1>2
    <3>4. to_channel_id[k] \in DOMAIN g
      BY <2>2, <3>1, <3>2, <1>3 DEF Set!InverseMaps
    <3> QED BY <3>1, <3>2, <3>3, <3>4, <1>3, <1>5
  <2> QED BY <2>1, <2>2
<1>8. ASSUME NEW i \in DOMAIN to_channel_key'
      PROVE  to_channel_key'[i] \in DOMAIN to_channel_id' /\ to_channel_id'[to_channel_key'[i]] = i
  <2>1. CASE i = id
    BY <2>1, <1>4, <1>5
  <2>2. CASE i # id
    <3>1. i \in DOMAIN g /\ to_channel_key'[i] = to_channel_key[i]
      BY <2>2, <1>3, <1>5
    <3>2. to_channel_key[i] \in DOMAIN to_channel_id /\ to_channel_id[to_channel_key[i]] = i
      BY <3>1, <1>3 DEF Set!InverseMaps
    <3>3. to_channel_key[i] # key
      BY <3>1, <3>2, <1>3
    <3>4. to_channel_key[i] \in DOMAIN f
      BY <2>2, <3>1, <3>2, <1>2 DEF Set!InverseMaps
    <3> QED BY <3>1, <3>2, <3>3, <3>4, <1>2, <1>4
  <2> QED BY <2>1, <2>2
<1> QED BY <1>6, <1>7, <1>8 DEF Set!InverseMaps

\* The empty set satisfies the invariant.
LEMMA SetInvStarts == Set!Init => SetInv
  BY DEF Set!Init, Set!Empty, SetInv, Set!InverseMaps, Set!DynamicKeysUnique, SetHandedBelow

\* Every operation of the set keeps the invariant.
LEMMA SetInvKept == SetInv /\ [Set!Next]_(Set!vars) => SetInv'
<1> SUFFICES ASSUME SetInv, [Set!Next]_(Set!vars) PROVE SetInv'
  OBVIOUS
<1> USE DEF SetInv
<1>1. ASSUME NEW t \in Types, Set!Insert(t) PROVE SetInv'
  <2>1. /\ DOMAIN channels \subseteq DOMAIN channels'
        /\ \A k \in DOMAIN channels' : k # Set!Typed(t) => k \in DOMAIN channels /\ channels'[k] = channels[k]
    BY <1>1 DEF Set!Insert, Set!With
  <2>2. Set!InverseMaps'
    BY <1>1, <2>1 DEF Set!Insert, Set!InverseMaps
  <2>3. SetHandedBelow'
    BY <1>1 DEF Set!Insert, SetHandedBelow
  <2>4. Set!DynamicKeysUnique'
    BY <1>1, <2>1, SetKeysDiffer DEF Set!Insert, SetHandedBelow, Set!DynamicKeysUnique
  <2> QED BY <2>2, <2>3, <2>4
<1>2. ASSUME NEW t \in Types, Set!RemoveByTypeId(t) PROVE SetInv'
  <2>1. /\ DOMAIN channels' = DOMAIN channels \ {Set!Typed(t)}
        /\ \A k \in DOMAIN channels' : channels'[k] = channels[k]
    BY <1>2 DEF Set!RemoveByTypeId, Set!Without, Set!Restrict
  <2>2. Set!Detaches(Set!Typed(t))
    BY <1>2 DEF Set!RemoveByTypeId
  <2>3. Set!InverseMaps'
    BY <2>1, <2>2, SetDetaches
  <2>4. SetHandedBelow' /\ Set!DynamicKeysUnique'
    BY <1>2, <2>1 DEF Set!RemoveByTypeId, SetHandedBelow, Set!DynamicKeysUnique
  <2> QED BY <2>3, <2>4
<1>3. ASSUME NEW t \in Types, Set!DetachChannelId(t) PROVE SetInv'
  <2>1. channels' = channels /\ Set!Detaches(Set!Typed(t))
    BY <1>3 DEF Set!DetachChannelId
  <2>2. Set!InverseMaps'
    BY <2>1, SetDetaches
  <2>3. SetHandedBelow' /\ Set!DynamicKeysUnique'
    BY <1>3 DEF Set!DetachChannelId, SetHandedBelow, Set!DynamicKeysUnique
  <2> QED BY <2>2, <2>3
<1>4. CASE Set!InsertDynamic
  <2>1. CASE Set!Full \/ next_dynamic_key = MaxKey
    BY <1>4, <2>1 DEF Set!InsertDynamic, Set!InverseMaps, SetHandedBelow, Set!DynamicKeysUnique
  <2>2. CASE ~(Set!Full \/ next_dynamic_key = MaxKey)
    <3> DEFINE k == Set!Dynamic(next_dynamic_key)
    <3>1. /\ channels' = Set!With(channels, k, made')
          /\ next_dynamic_key' = next_dynamic_key + 1
          /\ handed' = handed \cup {<<k, made'>>}
          /\ UNCHANGED <<to_channel_id, to_channel_key>>
      BY <1>4, <2>2 DEF Set!InsertDynamic
    <3>2. /\ DOMAIN channels' = DOMAIN channels \cup {k}
          /\ channels'[k] = made'
          /\ \A z \in DOMAIN channels : z # k => channels'[z] = channels[z]
      BY <3>1 DEF Set!With
    <3>3. Set!InverseMaps'
      BY <3>1, <3>2 DEF Set!InverseMaps
    <3>4. SetHandedBelow'
      <4>1. next_dynamic_key \in Nat /\ next_dynamic_key' \in Nat
        BY <3>1 DEF SetHandedBelow
      <4>2. ASSUME NEW h \in handed' PROVE \E n \in Nat : n < next_dynamic_key' /\ h[1] = Set!Dynamic(n)
        <5>1. CASE h \in handed
          BY <5>1, <4>1, <3>1 DEF SetHandedBelow
        <5>2. CASE h = <<k, made'>>
          BY <5>2, <4>1, <3>1
        <5> QED BY <5>1, <5>2, <3>1
      <4> QED BY <4>1, <4>2 DEF SetHandedBelow
    <3>5. \A h \in handed : h[1] # k
      BY SetKeysDiffer DEF SetHandedBelow
    <3>6. Set!DynamicKeysUnique'
      BY <3>1, <3>2, <3>5 DEF Set!DynamicKeysUnique
    <3> QED BY <3>3, <3>4, <3>6
  <2> QED BY <2>1, <2>2
<1>5. ASSUME NEW key \in Set!Keys, NEW id \in Ids, Set!AttachChannelIdByKey(key, id) PROVE SetInv'
  <2>1. Set!InverseMaps'
    BY <1>5, SetAttaches
  <2>2. SetHandedBelow' /\ Set!DynamicKeysUnique'
    BY <1>5 DEF Set!AttachChannelIdByKey, SetHandedBelow, Set!DynamicKeysUnique
  <2> QED BY <2>1, <2>2
<1>6. CASE Set!Clear
  BY <1>6 DEF Set!Clear, Set!Empty, Set!InverseMaps, SetHandedBelow, Set!DynamicKeysUnique
<1>7. CASE UNCHANGED Set!vars
  BY <1>7 DEF Set!vars, Set!InverseMaps, SetHandedBelow, Set!DynamicKeysUnique
<1> QED BY <1>1, <1>2, <1>3, <1>4, <1>5, <1>6, <1>7 DEF Set!Next

\* The maps of StaticChannelSet are inverse, and a key of insert_dynamic
\* stands for one processor only, in every reachable state, for any types, ids
\* and limits.
THEOREM SetConsistent == Set!Spec => []Set!ChannelSetConsistent
<1>1. SetInv => Set!ChannelSetConsistent
  BY DEF SetInv, Set!ChannelSetConsistent
<1> QED BY <1>1, SetInvStarts, SetInvKept, PTL DEF Set!Spec

-----------------------------------------------------------------------------
(* The clipboard's requests for file contents *)

CONSTANTS Flags, Copiers, Pasters, Rejecting, Formats, MaxCopies, MaxPastes, MaxRequests, IdSpace,
          MAX_OUTGOING_LOCKS, MAX_LOCKED_FILE_LISTS, MAX_PENDING_FORMAT_DATA_REQUESTS,
          MAX_PENDING_FILE_REQUESTS

VARIABLES ends, pdus, tally

Clip == INSTANCE Cliprdr

\* An end waits only for what it has asked for, and a new stream id is new.
ClipAsked(s, requests) ==
  /\ {"sent", "answers"} \subseteq DOMAIN s
  /\ s.sent \subseteq DOMAIN s.answers
  /\ DOMAIN s.answers \subseteq 1 .. requests
  /\ \A stream \in DOMAIN s.answers : s.answers[stream] = IF stream \in s.sent THEN 0 ELSE 1

ClipInv ==
  /\ tally \in [copies : Nat, pastes : Nat, requests : Nat]
  /\ DOMAIN ends = Clip!End
  /\ \A e \in Clip!End : ClipAsked(ends[e], tally.requests)

LEMMA ClipInvStarts ==
  ASSUME Clip!Init
  PROVE  ClipInv
<1>1. ends = [e \in Clip!End |-> Clip!Start(e)] /\ tally = [copies |-> 0, pastes |-> 0, requests |-> 0]
  BY DEF Clip!Init
<1>2. tally \in [copies : Nat, pastes : Nat, requests : Nat] /\ DOMAIN ends = Clip!End
  BY <1>1
<1>3. ASSUME NEW e \in Clip!End PROVE ClipAsked(ends[e], tally.requests)
  <2>1. /\ {"sent", "answers"} \subseteq DOMAIN Clip!Start(e)
        /\ Clip!Start(e).sent = {} /\ Clip!Start(e).answers = Clip!Nothing
    BY DEF Clip!Start
  <2>2. DOMAIN Clip!Nothing = {}
    BY DEF Clip!Nothing
  <2> QED BY <1>1, <2>1, <2>2 DEF ClipAsked
<1> QED BY <1>2, <1>3 DEF ClipInv

\* What becomes of one end leaves the other alone.
LEMMA ClipBecomes ==
  ASSUME ClipInv, NEW e \in Clip!End, NEW new, Clip!Becomes(e, new),
         tally' \in [copies : Nat, pastes : Nat, requests : Nat],
         tally.requests <= tally'.requests,
         ClipAsked(new, tally'.requests)
  PROVE  ClipInv'
<1>1. ends' = [ends EXCEPT ![e] = new]
  BY DEF Clip!Becomes
<1>2. DOMAIN ends' = Clip!End
  BY <1>1 DEF ClipInv
<1>3. ASSUME NEW d \in Clip!End PROVE ClipAsked(ends'[d], tally'.requests)
  <2>1. CASE d = e
    BY <1>1, <2>1 DEF ClipInv
  <2>2. CASE d # e
    <3>1. ends'[d] = ends[d]
      BY <1>1, <2>2 DEF ClipInv
    <3>2. tally.requests \in Nat /\ tally'.requests \in Nat
      BY DEF ClipInv
    <3>3. 1 .. tally.requests \subseteq 1 .. tally'.requests
      BY <3>2
    <3> QED BY <3>1, <3>3 DEF ClipInv, ClipAsked
  <2> QED BY <2>1, <2>2
<1> QED BY <1>2, <1>3 DEF ClipInv

\* A step that touches neither the requests nor their answers.
LEMMA ClipLeaves ==
  ASSUME ClipInv, NEW e \in Clip!End, NEW new, Clip!Becomes(e, new),
         {"sent", "answers"} \subseteq DOMAIN new,
         new.sent = ends[e].sent, new.answers = ends[e].answers,
         tally' \in [copies : Nat, pastes : Nat, requests : Nat],
         tally'.requests = tally.requests
  PROVE  ClipInv'
<1>1. ClipAsked(ends[e], tally'.requests)
  BY DEF ClipInv
<1>2. ClipAsked(new, tally'.requests)
  BY <1>1 DEF ClipAsked
<1>3. tally.requests <= tally'.requests
  BY DEF ClipInv
<1> QED BY <1>2, <1>3, ClipBecomes

\* A step that gives a response to some of those that wait for one.
LEMMA ClipAnswers ==
  ASSUME ClipInv, NEW e \in Clip!End, NEW new, NEW streams, Clip!Becomes(e, new),
         streams \subseteq ends[e].sent,
         {"sent", "answers"} \subseteq DOMAIN new,
         new.sent = ends[e].sent \ streams,
         new.answers = Clip!Answered(ends[e].answers, streams),
         UNCHANGED tally
  PROVE  ClipInv'
<1> DEFINE old == ends[e].answers
<1>1. ClipAsked(ends[e], tally.requests)
  BY DEF ClipInv
<1>2. /\ DOMAIN new.answers = DOMAIN old
      /\ \A s \in DOMAIN old : new.answers[s] = IF s \in streams THEN old[s] + 1 ELSE old[s]
  BY DEF Clip!Answered
<1>3. ASSUME NEW s \in DOMAIN old PROVE new.answers[s] = IF s \in new.sent THEN 0 ELSE 1
  <2>1. old[s] = IF s \in ends[e].sent THEN 0 ELSE 1
    BY <1>1 DEF ClipAsked
  <2>2. CASE s \in streams
    BY <1>2, <2>1, <2>2
  <2>3. CASE s \notin streams
    BY <1>2, <2>1, <2>3
  <2> QED BY <2>2, <2>3
<1>4. ClipAsked(new, tally.requests)
  BY <1>1, <1>2, <1>3 DEF ClipAsked
<1>5. tally' \in [copies : Nat, pastes : Nat, requests : Nat] /\ tally.requests <= tally'.requests
      /\ ClipAsked(new, tally'.requests)
  BY <1>4 DEF ClipInv
<1> QED BY <1>5, ClipBecomes

\* A request has a stream id of its own; one that is refused is answered at once.
LEMMA ClipRequests ==
  ASSUME ClipInv, NEW e \in Clip!End, NEW rejected, NEW new, Clip!Becomes(e, new),
         tally' = [tally EXCEPT !.requests = @ + 1],
         {"sent", "answers"} \subseteq DOMAIN new,
         new.sent = IF rejected THEN ends[e].sent ELSE ends[e].sent \cup {tally'.requests},
         new.answers = [i \in DOMAIN ends[e].answers \cup {tally'.requests} |->
                          IF i # tally'.requests THEN ends[e].answers[i] ELSE IF rejected THEN 1 ELSE 0]
  PROVE  ClipInv'
<1> DEFINE old == ends[e].answers
           stream == tally'.requests
           before == tally.requests
<1>1. before \in Nat /\ stream = before + 1 /\ tally' \in [copies : Nat, pastes : Nat, requests : Nat]
  BY DEF ClipInv
<1>2. ClipAsked(ends[e], before)
  BY DEF ClipInv
<1> HIDE DEF stream, before
<1>3. stream \notin DOMAIN old /\ DOMAIN old \cup {stream} \subseteq 1 .. stream
  BY <1>1, <1>2 DEF ClipAsked
<1>4. /\ new.sent = IF rejected THEN ends[e].sent ELSE ends[e].sent \cup {stream}
      /\ new.answers = [i \in DOMAIN old \cup {stream} |->
                          IF i # stream THEN old[i] ELSE IF rejected THEN 1 ELSE 0]
  BY DEF stream
<1>5. DOMAIN new.answers = DOMAIN old \cup {stream} /\ new.sent \subseteq DOMAIN old \cup {stream}
  BY <1>2, <1>4 DEF ClipAsked
<1>6. ASSUME NEW i \in DOMAIN old \cup {stream}
      PROVE  new.answers[i] = IF i \in new.sent THEN 0 ELSE 1
  <2>1. CASE i = stream
    <3>1. stream \notin ends[e].sent
      BY <1>2, <1>3 DEF ClipAsked
    <3>2. new.answers[stream] = IF rejected THEN 1 ELSE 0
      BY <1>4
    <3> QED BY <1>4, <2>1, <3>1, <3>2
  <2>2. CASE i # stream
    <3>1. new.answers[i] = old[i] /\ i \in DOMAIN old /\ (i \in new.sent <=> i \in ends[e].sent)
      BY <1>4, <1>6, <2>2
    <3> QED BY <1>2, <3>1 DEF ClipAsked
  <2> QED BY <2>1, <2>2
<1>7. ClipAsked(new, stream)
  BY <1>3, <1>5, <1>6 DEF ClipAsked
<1>8. before <= stream
  BY <1>1
<1> QED BY <1>1, <1>7, <1>8, ClipBecomes DEF stream, before

\* expire_all_locks and send_lock have nothing to do with the requests.
LEMMA ClipLocks ==
  ASSUME NEW s, {"sent", "answers"} \subseteq DOMAIN s
  PROVE  /\ {"sent", "answers"} \subseteq DOMAIN Clip!ExpireAllLocks(s)
         /\ Clip!ExpireAllLocks(s).sent = s.sent /\ Clip!ExpireAllLocks(s).answers = s.answers
         /\ {"sent", "answers"} \subseteq DOMAIN Clip!SendLock(s)
         /\ Clip!SendLock(s).sent = s.sent /\ Clip!SendLock(s).answers = s.answers
<1>1. /\ {"sent", "answers"} \subseteq DOMAIN Clip!ExpireAllLocks(s)
      /\ Clip!ExpireAllLocks(s).sent = s.sent /\ Clip!ExpireAllLocks(s).answers = s.answers
  BY DEF Clip!ExpireAllLocks
<1>2. CASE s.state = "Ready" /\ "LOCK" \in s.caps /\ Clip!Cardinality(DOMAIN s.locks) < MAX_OUTGOING_LOCKS
  <2> DEFINE id == Clip!GenerateClipDataId(s)
             locks == [i \in DOMAIN s.locks \cup {id} |-> IF i = id THEN "Active" ELSE s.locks[i]]
             next == (id % IdSpace) + 1
  <2>1. Clip!SendLock(s) = [s EXCEPT !.current = id, !.next = next, !.locks = locks]
    BY <1>2 DEF Clip!SendLock
  <2> HIDE DEF id, locks, next
  <2> QED BY <1>1, <2>1
<1>3. CASE ~(s.state = "Ready" /\ "LOCK" \in s.caps /\ Clip!Cardinality(DOMAIN s.locks) < MAX_OUTGOING_LOCKS)
  <2>1. Clip!SendLock(s) = s
    BY <1>3 DEF Clip!SendLock
  <2> QED BY <1>1, <2>1
<1> QED BY <1>2, <1>3

LEMMA ClipFormatList ==
  ASSUME ClipInv, NEW e \in Clip!End, Clip!HandleFormatList(e)
  PROVE  ClipInv'
<1> DEFINE s == ends[e]
           list == Head(pdus[e]).list
           state == IF e = "Server" THEN "Ready" ELSE s.state
           ready == [s EXCEPT !.state = state]
           expired == Clip!ExpireAllLocks(ready)
           offered == expired.offered \cup (IF list # 0 THEN {"files", "drop"} ELSE {"text"})
           changed == [expired EXCEPT !.remote = 0, !.files = list # 0, !.offered = offered]
           new == IF list # 0 THEN Clip!SendLock(changed) ELSE changed
<1>1. Clip!Becomes(e, new) /\ UNCHANGED tally
  BY DEF Clip!HandleFormatList
<1>2. {"sent", "answers"} \subseteq DOMAIN s
  BY DEF ClipInv, ClipAsked
<1> HIDE DEF s
<1>3. {"sent", "answers"} \subseteq DOMAIN ready /\ ready.sent = s.sent /\ ready.answers = s.answers
  BY <1>2
<1> HIDE DEF ready
<1>4. {"sent", "answers"} \subseteq DOMAIN expired /\ expired.sent = s.sent /\ expired.answers = s.answers
  BY <1>3, ClipLocks
<1> HIDE DEF expired, offered
<1>5. {"sent", "answers"} \subseteq DOMAIN changed /\ changed.sent = s.sent /\ changed.answers = s.answers
  BY <1>4
<1> HIDE DEF changed
<1>6. {"sent", "answers"} \subseteq DOMAIN new /\ new.sent = s.sent /\ new.answers = s.answers
  BY <1>5, ClipLocks
<1> HIDE DEF new
<1>7. tally' \in [copies : Nat, pastes : Nat, requests : Nat] /\ tally'.requests = tally.requests
  BY <1>1 DEF ClipInv
<1> QED BY <1>1, <1>6, <1>7, ClipLeaves DEF s

\* Copies, pastes, locks and what an end serves leave its own requests alone.
LEMMA ClipRest ==
  ASSUME ClipInv, NEW e \in Clip!End,
         \/ Clip!HandleCapabilities(e) \/ Clip!HandleMonitorReady(e) \/ Clip!InitiateCopy(e)
         \/ Clip!InitiateFileCopy(e) \/ Clip!RejectFormatList(e) \/ Clip!InitiatePaste(e)
         \/ Clip!HandleFormatDataRequest(e) \/ Clip!SubmitFormatData(e) \/ Clip!HandleFormatDataResponse(e)
         \/ Clip!HandleLock(e) \/ Clip!HandleUnlock(e) \/ Clip!HandleFileContentsRequest(e)
         \/ Clip!SubmitFileContents(e)
  PROVE  ClipInv'
<1> DEFINE s == ends[e]
           same(new) == {"sent", "answers"} \subseteq DOMAIN new /\ new.sent = s.sent /\ new.answers = s.answers
<1>1. {"sent", "answers"} \subseteq DOMAIN s
  BY DEF ClipInv, ClipAsked
<1>2. /\ tally' \in [copies : Nat, pastes : Nat, requests : Nat]
      /\ tally'.requests = tally.requests
  <2>1. \/ UNCHANGED tally \/ tally' = [tally EXCEPT !.copies = @ + 1]
        \/ tally' = [tally EXCEPT !.pastes = @ + 1]
    BY DEF Clip!HandleCapabilities, Clip!HandleMonitorReady, Clip!InitiateCopy, Clip!InitiateFileCopy,
           Clip!RejectFormatList, Clip!InitiatePaste, Clip!HandleFormatDataRequest, Clip!SubmitFormatData,
           Clip!HandleFormatDataResponse, Clip!HandleLock, Clip!HandleUnlock,
           Clip!HandleFileContentsRequest, Clip!SubmitFileContents
  <2> QED BY <2>1 DEF ClipInv
<1>3. ASSUME UNCHANGED ends PROVE ClipInv'
  BY <1>2, <1>3 DEF ClipInv
<1>4. ASSUME NEW new, Clip!Becomes(e, new), same(new) PROVE ClipInv'
  BY <1>2, <1>4, ClipLeaves
<1>5. SUFFICES UNCHANGED ends \/ \E new : Clip!Becomes(e, new) /\ same(new)
  BY <1>3, <1>4
<1> HIDE DEF same
<1>6. CASE Clip!HandleCapabilities(e)
  <2> DEFINE new == [s EXCEPT !.caps = @ \cap Head(pdus[e]).flags]
  <2>1. Clip!Becomes(e, new)
    BY <1>6 DEF Clip!HandleCapabilities
  <2>2. same(new)
    BY <1>1 DEF same
  <2> QED BY <2>1, <2>2
<1>7. CASE Clip!HandleMonitorReady(e)
  <2> DEFINE new == [s EXCEPT !.owes = TRUE]
  <2>1. Clip!Becomes(e, new)
    BY <1>7 DEF Clip!HandleMonitorReady
  <2>2. same(new)
    BY <1>1 DEF same
  <2> QED BY <2>1, <2>2
<1>8. CASE Clip!InitiateCopy(e)
  <2> DEFINE new == [s EXCEPT !.local = 0, !.owes = FALSE]
  <2>1. Clip!Becomes(e, new)
    BY <1>8 DEF Clip!InitiateCopy
  <2>2. same(new)
    BY <1>1 DEF same
  <2> QED BY <2>1, <2>2
<1>9. CASE Clip!InitiateFileCopy(e)
  <2> DEFINE new == [s EXCEPT !.local = tally.copies + 1, !.locks = Clip!Nothing, !.current = 0,
                       !.snaps = IF s.locks = Clip!Nothing THEN @ ELSE Clip!Nothing]
  <2>1. Clip!Becomes(e, new)
    BY <1>9 DEF Clip!InitiateFileCopy
  <2>2. same(new)
    BY <1>1 DEF same
  <2> QED BY <2>1, <2>2
<1>10. CASE Clip!RejectFormatList(e)
  BY <1>10 DEF Clip!RejectFormatList
<1>11. CASE Clip!InitiatePaste(e)
  <2> DEFINE new(item) == [s EXCEPT !.pending = Append(@, item)]
  <2>1. UNCHANGED ends \/ \E item : Clip!Becomes(e, new(item))
    BY <1>11 DEF Clip!InitiatePaste
  <2>2. \A item : same(new(item))
    BY <1>1 DEF same
  <2> QED BY <2>1, <2>2
<1>12. CASE Clip!HandleFormatDataRequest(e)
  <2> DEFINE new == [s EXCEPT !.asked = Append(@, Head(pdus[e]).n)]
  <2>1. UNCHANGED ends \/ Clip!Becomes(e, new)
    BY <1>12 DEF Clip!HandleFormatDataRequest
  <2>2. same(new)
    BY <1>1 DEF same
  <2> QED BY <2>1, <2>2
<1>13. CASE Clip!SubmitFormatData(e)
  <2> DEFINE new == [s EXCEPT !.asked = Tail(@)]
  <2>1. Clip!Becomes(e, new)
    BY <1>13 DEF Clip!SubmitFormatData
  <2>2. same(new)
    BY <1>1 DEF same
  <2> QED BY <2>1, <2>2
<1>14. CASE Clip!HandleFormatDataResponse(e)
  <2> DEFINE list == Head(pdus[e]).list
             taken == [s EXCEPT !.pending = Tail(@)]
             full == /\ s.current \notin DOMAIN s.snaps
                     /\ Clip!Cardinality(DOMAIN s.snaps) >= MAX_LOCKED_FILE_LISTS
             snaps == IF s.current = 0 \/ full THEN taken.snaps
                      ELSE [id \in DOMAIN taken.snaps \cup {s.current} |->
                              IF id = s.current THEN list ELSE taken.snaps[id]]
             shown == taken.shown \cup {[list |-> list, lock |-> s.current]}
             kept == [taken EXCEPT !.remote = list, !.snaps = snaps, !.shown = shown]
  <2>1. Clip!Becomes(e, kept) \/ Clip!Becomes(e, s) \/ Clip!Becomes(e, taken)
    <3> DEFINE new == IF s.pending # <<>> /\ Head(s.pending).is_file_list /\ list # 0 THEN kept
                      ELSE IF s.pending = <<>> THEN s ELSE taken
    <3>1. Clip!Becomes(e, new)
      BY <1>14 DEF Clip!HandleFormatDataResponse
    <3>2. new = kept \/ new = s \/ new = taken
      BY ONLY TRUE
    <3> HIDE DEF new, kept, taken, s
    <3> QED BY <3>1, <3>2
  <2> HIDE DEF snaps, shown
  <2>2. same(taken) /\ same(s)
    BY <1>1 DEF same
  <2> HIDE DEF taken
  <2>3. same(kept)
    BY <2>2 DEF same
  <2> QED BY <2>1, <2>2, <2>3
<1>15. CASE Clip!HandleLock(e)
  <2> DEFINE new(order, locked) == [s EXCEPT !.order = order, !.locked = locked]
  <2>1. Clip!Becomes(e, s) \/ \E order, locked : Clip!Becomes(e, new(order, locked))
    BY <1>15 DEF Clip!HandleLock
  <2>2. same(s) /\ \A order, locked : same(new(order, locked))
    BY <1>1 DEF same
  <2> QED BY <2>1, <2>2
<1>16. CASE Clip!HandleUnlock(e)
  <2> DEFINE new(order, locked) == [s EXCEPT !.locked = locked, !.order = order]
  <2>1. \E order, locked : Clip!Becomes(e, new(order, locked))
    BY <1>16 DEF Clip!HandleUnlock
  <2>2. \A order, locked : same(new(order, locked))
    BY <1>1 DEF same
  <2> QED BY <2>1, <2>2
<1>17. CASE Clip!HandleFileContentsRequest(e)
  <2> DEFINE new == [s EXCEPT !.serving = @ \cup {Head(pdus[e]).stream}]
  <2>1. UNCHANGED ends \/ Clip!Becomes(e, new)
    BY <1>17 DEF Clip!HandleFileContentsRequest
  <2>2. same(new)
    BY <1>1 DEF same
  <2> QED BY <2>1, <2>2
<1>18. CASE Clip!SubmitFileContents(e)
  <2> DEFINE new(stream) == [s EXCEPT !.serving = @ \ {stream}]
  <2>1. \E stream : Clip!Becomes(e, new(stream))
    BY <1>18 DEF Clip!SubmitFileContents
  <2>2. \A stream : same(new(stream))
    BY <1>1 DEF same
  <2> QED BY <2>1, <2>2
<1> QED BY <1>6, <1>7, <1>8, <1>9, <1>10, <1>11, <1>12, <1>13, <1>14, <1>15, <1>16, <1>17, <1>18

\* A rejected list, a response and a timeout answer some requests that wait.
LEMMA ClipResponds ==
  ASSUME ClipInv, NEW e \in Clip!End,
         \/ Clip!HandleFormatListResponse(e) \/ Clip!HandleFileContentsResponse(e) \/ Clip!DriveTimeouts(e)
  PROVE  ClipInv'
<1> DEFINE s == ends[e]
<1>1. {"sent", "answers"} \subseteq DOMAIN s
  BY DEF ClipInv, ClipAsked
<1>2. UNCHANGED tally
  BY DEF Clip!HandleFormatListResponse, Clip!HandleFileContentsResponse, Clip!DriveTimeouts
<1>3. CASE Clip!HandleFormatListResponse(e)
  <2> DEFINE accepted_ == [s EXCEPT !.state = IF e = "Client" THEN "Ready" ELSE @]
             rejected == [s EXCEPT !.local = 0, !.sent = {}, !.answers = Clip!Answered(@, s.sent)]
  <2>1. Clip!Becomes(e, accepted_) \/ Clip!Becomes(e, rejected)
    BY <1>3 DEF Clip!HandleFormatListResponse
  <2>2. CASE Clip!Becomes(e, accepted_)
    <3>1. /\ {"sent", "answers"} \subseteq DOMAIN accepted_
          /\ accepted_.sent = s.sent /\ accepted_.answers = s.answers
      BY <1>1
    <3>2. tally' \in [copies : Nat, pastes : Nat, requests : Nat] /\ tally'.requests = tally.requests
      BY <1>2 DEF ClipInv
    <3> HIDE DEF accepted_
    <3> QED BY <2>2, <3>1, <3>2, ClipLeaves
  <2>3. CASE Clip!Becomes(e, rejected)
    <3>1. /\ {"sent", "answers"} \subseteq DOMAIN rejected
          /\ rejected.sent = s.sent \ s.sent /\ rejected.answers = Clip!Answered(s.answers, s.sent)
      BY <1>1
    <3> HIDE DEF rejected
    <3> QED BY <1>2, <2>3, <3>1, ClipAnswers
  <2> QED BY <2>1, <2>2, <2>3
<1>4. CASE Clip!HandleFileContentsResponse(e)
  <2> DEFINE streams == s.sent \cap {Head(pdus[e]).stream}
             new == [s EXCEPT !.sent = @ \ {Head(pdus[e]).stream}, !.answers = Clip!Answered(@, streams)]
  <2>1. Clip!Becomes(e, new)
    BY <1>4 DEF Clip!HandleFileContentsResponse
  <2>2. /\ {"sent", "answers"} \subseteq DOMAIN new
        /\ new.sent = s.sent \ streams /\ new.answers = Clip!Answered(s.answers, streams)
    BY <1>1
  <2>3. streams \subseteq s.sent
    OBVIOUS
  <2> HIDE DEF new, streams
  <2> QED BY <1>2, <2>1, <2>2, <2>3, ClipAnswers
<1>5. CASE Clip!DriveTimeouts(e)
  <2> DEFINE new(ids, stale) ==
               [s EXCEPT !.locks = [i \in DOMAIN @ \ ids |-> @[i]],
                         !.snaps = [i \in DOMAIN @ \ ids |-> @[i]],
                         !.current = IF @ \in ids THEN 0 ELSE @,
                         !.sent = @ \ stale, !.answers = Clip!Answered(@, stale)]
  <2>1. PICK ids, stale : stale \subseteq s.sent /\ Clip!Becomes(e, new(ids, stale))
    BY <1>5 DEF Clip!DriveTimeouts
  <2> DEFINE it == new(ids, stale)
  <2>2. /\ {"sent", "answers"} \subseteq DOMAIN it
        /\ it.sent = s.sent \ stale /\ it.answers = Clip!Answered(s.answers, stale)
    BY <1>1
  <2>3. Clip!Becomes(e, it)
    BY <2>1
  <2> HIDE DEF it
  <2> QED BY <1>2, <2>1, <2>2, <2>3, ClipAnswers
<1> QED BY <1>3, <1>4, <1>5

LEMMA ClipInvKept ==
  ASSUME ClipInv, [Clip!Next]_(Clip!vars)
  PROVE  ClipInv'
<1>1. CASE UNCHANGED Clip!vars
  BY <1>1 DEF Clip!vars, ClipInv
<1>2. ASSUME NEW e \in Clip!End, Clip!RequestFileContents(e) PROVE ClipInv'
  <2> DEFINE s == ends[e]
             stream == tally'.requests
             new(rejected) ==
               [s EXCEPT !.sent = IF rejected THEN @ ELSE @ \cup {stream},
                         !.answers = [i \in DOMAIN @ \cup {stream} |->
                                        IF i # stream THEN @[i] ELSE IF rejected THEN 1 ELSE 0]]
  <2>1. tally' = [tally EXCEPT !.requests = @ + 1]
    BY <1>2 DEF Clip!RequestFileContents
  <2>2. PICK rejected : Clip!Becomes(e, new(rejected))
    <3> DEFINE lock(named) == IF named = 0 THEN s.current ELSE named
               list(named) == IF lock(named) \in DOMAIN s.snaps THEN s.snaps[lock(named)] ELSE s.remote
               refuses(named, index) ==
                 \/ s.state # "Ready" \/ "FILES" \notin s.caps
                 \/ list(named) # 0 /\ index > Clip!Size(list(named))
                 \/ Clip!Cardinality(s.sent) >= MAX_PENDING_FILE_REQUESTS
               sends(named, index) ==
                 IF refuses(named, index) THEN UNCHANGED pdus
                 ELSE Clip!Sends(e, <<[t |-> "FileContentsRequest", stream |-> stream,
                                       lock |-> lock(named), index |-> index]>>)
    <3>1. \E known \in s.shown : \E named \in {known.lock, 0}, index \in 1 .. Clip!Size(known.list) :
            Clip!Becomes(e, new(refuses(named, index))) /\ sends(named, index)
      BY <1>2 DEF Clip!RequestFileContents
    <3> HIDE DEF refuses, new, sends
    <3> QED BY <3>1
  <2>3. {"sent", "answers"} \subseteq DOMAIN s
    BY DEF ClipInv, ClipAsked
  <2> DEFINE it == new(rejected)
  <2>4. /\ {"sent", "answers"} \subseteq DOMAIN it
        /\ it.sent = IF rejected THEN s.sent ELSE s.sent \cup {stream}
        /\ it.answers = [i \in DOMAIN s.answers \cup {stream} |->
                           IF i # stream THEN s.answers[i] ELSE IF rejected THEN 1 ELSE 0]
    BY <2>3
  <2>5. Clip!Becomes(e, it)
    BY <2>2
  <2> HIDE DEF it
  <2> QED BY <1>2, <2>1, <2>4, <2>5, ClipRequests
<1> QED BY <1>1, <1>2, ClipFormatList, ClipRest, ClipResponds DEF Clip!Next

\* Every request for file contents gets one answer and never a second, in
\* whatever order responses, timeouts, refusals and rejected lists come, for
\* any limits, formats and numbers of copies, pastes and downloads.
THEOREM ClipAnsweredOnce == Clip!Spec => []Clip!AnsweredOnce
<1>1. Clip!Init => ClipInv
  BY ClipInvStarts
<1>2. ClipInv /\ [Clip!Next]_(Clip!vars) => ClipInv'
  BY ClipInvKept
<1>3. ClipInv => Clip!AnsweredOnce
  BY DEF ClipInv, ClipAsked, Clip!AnsweredOnce
<1> QED BY <1>1, <1>2, <1>3, PTL DEF Clip!Spec

=============================================================================
