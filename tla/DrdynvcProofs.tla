---------------------------- MODULE DrdynvcProofs ---------------------------
(***************************************************************************)
(* Proofs for the creation and closing of dynamic channels, for every      *)
(* value of the constants.  The invariant says, of each channel id, what   *)
(* may be under way about it given what both ends know.                    *)
(***************************************************************************)
EXTENDS Drdynvc, TLAPS

USE ZenonT(5), SMTT(40), ZenonT(30), SMTT(41)

-----------------------------------------------------------------------------
(* What the PDUs under way say about one channel *)

\* Two sequences are the same when their elements are.
LEMMA SameSequence ==
  ASSUME NEW S, NEW a \in Seq(S), NEW b \in Seq(S), Len(a) = Len(b),
         \A i \in 1 .. Len(a) : a[i] = b[i]
  PROVE  a = b
  OBVIOUS

DynPdu ==
  [t : {"Caps", "CapsResponse", "SoftSyncResponse", "MultitransportResponse"}]
  \cup [t : {"Create"}, id : Nat, name : Names]
  \cup [t : {"CreateResponse"}, id : Nat, ok : BOOLEAN]
  \cup [t : {"Close"}, id : Nat]
  \cup [t : {"Data"}, id : Nat, n : Nat]
  \cup [t : {"SoftSyncRequest"}, ids : SUBSET Nat]

Creations(id) == [t : {"Create"}, id : {id}, name : Names]
Accepted(id) == [t |-> "CreateResponse", id |-> id, ok |-> TRUE]
Refused(id) == [t |-> "CreateResponse", id |-> id, ok |-> FALSE]
Closing(id) == [t |-> "Close", id |-> id]

\* A queue holds a PDU of a set, at most one of them, or a PDU behind all of them.
Carries(q, A) == \E i \in 1 .. Len(q) : q[i] \in A
CarriesOnce(q, A) == \A i, j \in 1 .. Len(q) : q[i] \in A /\ q[j] \in A => i = j
CarriesBehind(q, A, b) ==
  \E j \in 1 .. Len(q) : q[j] = b /\ \A i \in 1 .. Len(q) : q[i] \in A => i < j

\* A queue whose first PDU is taken.
LEMMA TakenCarries ==
  ASSUME NEW M, NEW q \in Seq(M), q # <<>>, NEW A
  PROVE  /\ Carries(q, A) <=> Head(q) \in A \/ Carries(Tail(q), A)
         /\ CarriesOnce(q, A) => /\ CarriesOnce(Tail(q), A)
                                 /\ Head(q) \in A => ~Carries(Tail(q), A)
         /\ \A b : CarriesBehind(q, A, b) /\ Carries(q, A) => CarriesBehind(Tail(q), A, b)
<1>1. /\ Len(q) \in Nat \ {0} /\ Len(Tail(q)) = Len(q) - 1 /\ Head(q) = q[1]
      /\ \A i \in 1 .. (Len(q) - 1) : Tail(q)[i] = q[i + 1]
  BY SMT
<1>2. \A i \in 1 .. Len(q) : i # 1 => i - 1 \in 1 .. Len(Tail(q)) /\ Tail(q)[i - 1] = q[i]
  BY <1>1, SMT
<1>3. \A i \in 1 .. Len(Tail(q)) : i + 1 \in 1 .. Len(q) /\ i + 1 # 1 /\ q[i + 1] = Tail(q)[i]
  BY <1>1, SMT
<1>4. 1 \in 1 .. Len(q)
  BY <1>1, SMT
<1>5. Carries(q, A) <=> Head(q) \in A \/ Carries(Tail(q), A)
  <2>1. ASSUME Carries(q, A) PROVE Head(q) \in A \/ Carries(Tail(q), A)
    BY <1>1, <1>2, <2>1 DEF Carries
  <2>2. Head(q) \in A => Carries(q, A)
    BY <1>1, <1>4 DEF Carries
  <2>3. Carries(Tail(q), A) => Carries(q, A)
    BY <1>3 DEF Carries
  <2> QED BY <2>1, <2>2, <2>3
<1>6. ASSUME CarriesOnce(q, A)
      PROVE  CarriesOnce(Tail(q), A) /\ (Head(q) \in A => ~Carries(Tail(q), A))
  BY <1>1, <1>3, <1>4, <1>6, SMT DEF CarriesOnce, Carries
<1>7. ASSUME NEW b, CarriesBehind(q, A, b), Carries(q, A)
      PROVE  CarriesBehind(Tail(q), A, b)
  <2>1. PICK j \in 1 .. Len(q) : q[j] = b /\ \A i \in 1 .. Len(q) : q[i] \in A => i < j
    BY <1>7 DEF CarriesBehind
  <2>2. PICK k \in 1 .. Len(q) : q[k] \in A
    BY <1>7 DEF Carries
  <2>3. j # 1
    BY <1>1, <2>1, <2>2, SMT
  <2>4. j - 1 \in 1 .. Len(Tail(q)) /\ Tail(q)[j - 1] = b
    BY <1>2, <2>1, <2>3
  <2>5. \A i \in 1 .. Len(Tail(q)) : Tail(q)[i] \in A => i < j - 1
    BY <1>1, <1>3, <2>1, SMT
  <2> QED BY <2>4, <2>5 DEF CarriesBehind
<1> QED BY <1>5, <1>6, <1>7

\* A queue to which PDUs are added.
LEMMA SentCarries ==
  ASSUME NEW M, NEW q \in Seq(M), NEW s \in Seq(M), NEW A
  PROVE  /\ Carries(q \o s, A) <=> Carries(q, A) \/ Carries(s, A)
         /\ CarriesOnce(q, A) /\ CarriesOnce(s, A) /\ ~(Carries(q, A) /\ Carries(s, A))
              => CarriesOnce(q \o s, A)
         /\ \A b : CarriesBehind(q, A, b) /\ ~Carries(s, A) => CarriesBehind(q \o s, A, b)
<1> DEFINE r == q \o s
<1>1. /\ Len(q) \in Nat /\ Len(s) \in Nat /\ Len(r) = Len(q) + Len(s)
      /\ \A i \in 1 .. Len(q) : r[i] = q[i]
      /\ \A i \in 1 .. Len(s) : r[Len(q) + i] = s[i]
  OBVIOUS
<1>2. \A i \in 1 .. Len(q) : i \in 1 .. Len(r) /\ r[i] = q[i]
  BY <1>1, SMT
<1>3. \A i \in 1 .. Len(s) : Len(q) + i \in 1 .. Len(r) /\ r[Len(q) + i] = s[i]
  BY <1>1, SMT
<1>4. \A i \in 1 .. Len(r) : i \in 1 .. Len(q) \/ (i - Len(q) \in 1 .. Len(s) /\ r[i] = s[i - Len(q)])
  BY <1>1, SMT
<1> HIDE DEF r
<1>5. Carries(r, A) <=> Carries(q, A) \/ Carries(s, A)
  <2>1. ASSUME Carries(r, A) PROVE Carries(q, A) \/ Carries(s, A)
    BY <1>2, <1>4, <2>1 DEF Carries
  <2>2. Carries(q, A) => Carries(r, A)
    BY <1>2 DEF Carries
  <2>3. Carries(s, A) => Carries(r, A)
    BY <1>3 DEF Carries
  <2> QED BY <2>1, <2>2, <2>3
<1>6. ASSUME CarriesOnce(q, A), CarriesOnce(s, A), ~(Carries(q, A) /\ Carries(s, A))
      PROVE  CarriesOnce(r, A)
  <2> SUFFICES ASSUME NEW i \in 1 .. Len(r), NEW j \in 1 .. Len(r), r[i] \in A, r[j] \in A
               PROVE  i = j
    BY DEF CarriesOnce
  <2>1. CASE Carries(q, A)
    <3>1. i \in 1 .. Len(q) /\ j \in 1 .. Len(q)
      BY <1>4, <1>6, <2>1 DEF Carries
    <3> QED BY <1>2, <1>6, <3>1 DEF CarriesOnce
  <2>2. CASE ~Carries(q, A)
    <3>1. i \notin 1 .. Len(q) /\ j \notin 1 .. Len(q)
      BY <1>2, <2>2 DEF Carries
    <3>2. i - Len(q) = j - Len(q)
      BY <1>4, <1>6, <3>1 DEF CarriesOnce
    <3> QED BY <1>1, <3>2, SMT
  <2> QED BY <2>1, <2>2
<1>7. ASSUME NEW b, CarriesBehind(q, A, b), ~Carries(s, A)
      PROVE  CarriesBehind(r, A, b)
  <2>1. PICK j \in 1 .. Len(q) : q[j] = b /\ \A i \in 1 .. Len(q) : q[i] \in A => i < j
    BY <1>7 DEF CarriesBehind
  <2>2. \A i \in 1 .. Len(r) : r[i] \in A => i \in 1 .. Len(q) /\ q[i] \in A
    BY <1>2, <1>4, <1>7 DEF Carries
  <2> QED BY <1>2, <2>1, <2>2 DEF CarriesBehind
<1> QED BY <1>5, <1>6, <1>7 DEF r

\* What a queue of one or no PDU holds, and a PDU added last.
LEMMA ShortCarries ==
  ASSUME NEW M, NEW b \in M, NEW A
  PROVE  /\ Carries(<<b>>, A) <=> b \in A
         /\ CarriesOnce(<<b>>, A)
         /\ ~Carries(<<>>, A) /\ CarriesOnce(<<>>, A)
         /\ \A q \in Seq(M) : b \notin A => CarriesBehind(q \o <<b>>, A, b)
<1>1. (Carries(<<b>>, A) <=> b \in A) /\ CarriesOnce(<<b>>, A)
  BY SMT DEF Carries, CarriesOnce
<1>2. ~Carries(<<>>, A) /\ CarriesOnce(<<>>, A)
  BY SMT DEF Carries, CarriesOnce
<1>3. ASSUME NEW q \in Seq(M), b \notin A
      PROVE  CarriesBehind(q \o <<b>>, A, b)
  <2> DEFINE r == q \o <<b>>
  <2>1. Len(q) \in Nat /\ Len(r) = Len(q) + 1 /\ r[Len(q) + 1] = b
    BY SMT
  <2> HIDE DEF r
  <2>2. Len(q) + 1 \in 1 .. Len(r) /\ \A i \in 1 .. Len(r) : r[i] \in A => i < Len(q) + 1
    BY <1>3, <2>1, SMT
  <2>3. CarriesBehind(r, A, b)
    BY <2>1, <2>2 DEF CarriesBehind
  <2> QED BY <2>3 DEF r
<1> QED BY <1>1, <1>2, <1>3

\* The PDUs that concern one channel are told apart by their kind.
LEMMA DynKinds ==
  ASSUME NEW id \in Nat
  PROVE  /\ Accepted(id) \in DynPdu /\ Refused(id) \in DynPdu /\ Closing(id) \in DynPdu
         /\ Accepted(id) # Refused(id) /\ Accepted(id) # Closing(id) /\ Refused(id) # Closing(id)
         /\ Accepted(id) \notin Creations(id) /\ Refused(id) \notin Creations(id)
         /\ Closing(id) \notin Creations(id) /\ Creations(id) \subseteq DynPdu
<1>1. /\ Accepted(id).t = "CreateResponse" /\ Accepted(id).ok = TRUE
      /\ Refused(id).t = "CreateResponse" /\ Refused(id).ok = FALSE /\ Closing(id).t = "Close"
  BY DEF Accepted, Refused, Closing
<1>2. Accepted(id) # Refused(id) /\ Accepted(id) # Closing(id) /\ Refused(id) # Closing(id)
  BY <1>1
<1>3. \A m \in Creations(id) : m.t = "Create" /\ m \in DynPdu
  BY DEF Creations, DynPdu
<1>4. Accepted(id) \in DynPdu /\ Refused(id) \in DynPdu /\ Closing(id) \in DynPdu
  BY DEF Accepted, Refused, Closing, DynPdu
<1> QED BY <1>1, <1>2, <1>3, <1>4

\* What the two ends know of channel id, and what is under way about it: C and
\* S are the PDUs on their way to the client and to the server, act the
\* client's channels, st the channel's state at the server, next the server's
\* next id.
View(id, C, S, act, st, next) ==
  /\ next <= id => st = "Absent"
  /\ CarriesOnce(C, Creations(id))
  /\ Carries(C, Creations(id)) =>
       /\ id < next /\ st \in {"Creation", "Absent"} /\ id \notin act
       /\ ~Carries(S, {Accepted(id)}) /\ ~Carries(S, {Refused(id)}) /\ ~Carries(S, {Closing(id)})
  /\ id \in act =>
       /\ id < next /\ st \in {"Creation", "Opened", "Absent"}
       /\ ~Carries(S, {Refused(id)}) /\ ~Carries(S, {Closing(id)})
  /\ Carries(S, {Accepted(id)}) \/ Carries(S, {Refused(id)}) \/ Carries(S, {Closing(id)}) =>
       id < next /\ st # "Pending"
  /\ id \in act /\ st = "Creation" => Carries(S, {Accepted(id)})
  /\ id \in act /\ st = "Absent" => Carries(C, {Closing(id)})
  /\ id \notin act /\ st = "Opened" => Carries(S, {Closing(id)}) \/ "Client" \in TunneledCloses
  /\ id \notin act /\ st = "Creation" /\ Carries(S, {Accepted(id)}) =>
       CarriesBehind(S, {Accepted(id)}, Closing(id)) \/ "Client" \in TunneledCloses
  /\ st = "Absent" /\ Carries(C, Creations(id)) => CarriesBehind(C, Creations(id), Closing(id))

\* A PDU says nothing about a channel.
Inert(m, id) ==
  /\ m \notin Creations(id)
  /\ m # Accepted(id) /\ m # Refused(id) /\ m # Closing(id)

\* Where a queue is taken from, for the sets that concern one channel.
LEMMA DynTaken ==
  ASSUME NEW q \in Seq(DynPdu), q # <<>>, NEW A
  PROVE  /\ Tail(q) \in Seq(DynPdu)
         /\ Carries(q, A) <=> Head(q) \in A \/ Carries(Tail(q), A)
         /\ CarriesOnce(q, A) => CarriesOnce(Tail(q), A)
         /\ CarriesOnce(q, A) /\ Head(q) \in A => ~Carries(Tail(q), A)
         /\ \A b : CarriesBehind(q, A, b) /\ Carries(q, A) => CarriesBehind(Tail(q), A, b)
<1>1. Tail(q) \in Seq(DynPdu)
  BY SMT
<1> QED BY <1>1, TakenCarries, Zenon

\* A queue is taken from by the client, for the sets of channel id.
LEMMA ViewTaken ==
  ASSUME NEW id \in Nat, NEW C \in Seq(DynPdu), NEW S \in Seq(DynPdu), NEW act, NEW st,
         NEW next \in Nat, View(id, C, S, act, st, next), C # <<>>, Inert(Head(C), id)
  PROVE  View(id, Tail(C), S, act, st, next)
<1>1. /\ Carries(C, Creations(id)) <=> Carries(Tail(C), Creations(id))
      /\ Carries(C, {Closing(id)}) <=> Carries(Tail(C), {Closing(id)})
      /\ CarriesOnce(C, Creations(id)) => CarriesOnce(Tail(C), Creations(id))
      /\ CarriesBehind(C, Creations(id), Closing(id)) /\ Carries(C, Creations(id))
           => CarriesBehind(Tail(C), Creations(id), Closing(id))
  BY DynTaken, Zenon DEF Inert
<1> QED BY <1>1, Zenon DEF View

\* PDUs are added to a queue.
LEMMA DynSent ==
  ASSUME NEW q \in Seq(DynPdu), NEW s \in Seq(DynPdu), NEW A
  PROVE  /\ q \o s \in Seq(DynPdu)
         /\ Carries(q \o s, A) <=> Carries(q, A) \/ Carries(s, A)
         /\ CarriesOnce(q, A) /\ CarriesOnce(s, A) /\ ~(Carries(q, A) /\ Carries(s, A))
              => CarriesOnce(q \o s, A)
         /\ CarriesOnce(q, A) /\ ~Carries(s, A) => CarriesOnce(q \o s, A)
         /\ \A b : CarriesBehind(q, A, b) /\ ~Carries(s, A) => CarriesBehind(q \o s, A, b)
<1>1. q \o s \in Seq(DynPdu)
  BY SMT
<1>2. ~Carries(s, A) => CarriesOnce(s, A)
  BY DEF Carries, CarriesOnce
<1> QED BY <1>1, <1>2, SentCarries, Zenon

\* One PDU is added to a queue.
LEMMA DynSentOne ==
  ASSUME NEW q \in Seq(DynPdu), NEW b \in DynPdu, NEW A
  PROVE  /\ q \o <<b>> \in Seq(DynPdu)
         /\ Carries(q \o <<b>>, A) <=> Carries(q, A) \/ b \in A
         /\ CarriesOnce(q, A) /\ ~Carries(q, A) => CarriesOnce(q \o <<b>>, A)
         /\ CarriesOnce(q, A) /\ b \notin A => CarriesOnce(q \o <<b>>, A)
         /\ \A x : CarriesBehind(q, A, x) /\ b \notin A => CarriesBehind(q \o <<b>>, A, x)
         /\ b \notin A => CarriesBehind(q \o <<b>>, A, b)
<1>1. <<b>> \in Seq(DynPdu)
  BY SMT
<1>2. (Carries(<<b>>, A) <=> b \in A) /\ CarriesOnce(<<b>>, A)
  BY ShortCarries, Zenon
<1>3. b \notin A => CarriesBehind(q \o <<b>>, A, b)
  BY ShortCarries, Zenon
<1> QED BY <1>1, <1>2, <1>3, DynSent, Zenon

\* PDUs that say nothing about a channel.
Silent(s, id) ==
  /\ ~Carries(s, Creations(id))
  /\ ~Carries(s, {Accepted(id)}) /\ ~Carries(s, {Refused(id)}) /\ ~Carries(s, {Closing(id)})

\* The server sends PDUs that create no channel id.
LEMMA ViewToClient ==
  ASSUME NEW id \in Nat, NEW C \in Seq(DynPdu), NEW S \in Seq(DynPdu), NEW act, NEW st,
         NEW next \in Nat, View(id, C, S, act, st, next),
         NEW s \in Seq(DynPdu), ~Carries(s, Creations(id))
  PROVE  View(id, C \o s, S, act, st, next)
<1>1. /\ Carries(C \o s, Creations(id)) <=> Carries(C, Creations(id))
      /\ Carries(C, {Closing(id)}) => Carries(C \o s, {Closing(id)})
      /\ CarriesOnce(C, Creations(id)) => CarriesOnce(C \o s, Creations(id))
      /\ CarriesBehind(C, Creations(id), Closing(id)) => CarriesBehind(C \o s, Creations(id), Closing(id))
  BY DynSent, Zenon
<1> QED BY <1>1, Zenon DEF View


\* The server takes a PDU that says nothing about the channel.
LEMMA ViewTakenAtServer ==
  ASSUME NEW id \in Nat, NEW C \in Seq(DynPdu), NEW S \in Seq(DynPdu), NEW act, NEW st,
         NEW next \in Nat, View(id, C, S, act, st, next),
         S # <<>>, Inert(Head(S), id)
  PROVE  View(id, C, Tail(S), act, st, next)
<1>1. /\ Carries(S, {Accepted(id)}) <=> Carries(Tail(S), {Accepted(id)})
      /\ Carries(S, {Refused(id)}) <=> Carries(Tail(S), {Refused(id)})
      /\ Carries(S, {Closing(id)}) <=> Carries(Tail(S), {Closing(id)})
      /\ CarriesBehind(S, {Accepted(id)}, Closing(id)) /\ Carries(S, {Accepted(id)})
           => CarriesBehind(Tail(S), {Accepted(id)}, Closing(id))
  BY DynTaken, Zenon DEF Inert
<1> QED BY <1>1, Zenon DEF View


\* The client sends PDUs that say nothing about the channel.
LEMMA ViewToServer ==
  ASSUME NEW id \in Nat, NEW C \in Seq(DynPdu), NEW S \in Seq(DynPdu), NEW act, NEW st,
         NEW next \in Nat, View(id, C, S, act, st, next),
         NEW s \in Seq(DynPdu), Silent(s, id)
  PROVE  View(id, C, S \o s, act, st, next)
<1>1. /\ Carries(S \o s, {Accepted(id)}) <=> Carries(S, {Accepted(id)})
      /\ Carries(S \o s, {Refused(id)}) <=> Carries(S, {Refused(id)})
      /\ Carries(S \o s, {Closing(id)}) <=> Carries(S, {Closing(id)})
      /\ CarriesBehind(S, {Accepted(id)}, Closing(id)) => CarriesBehind(S \o s, {Accepted(id)}, Closing(id))
  BY DynSent, Zenon DEF Silent
<1> QED BY <1>1, Zenon DEF View


\* Other channels come and go, and the next id grows.
LEMMA ViewOfOther ==
  ASSUME NEW id \in Nat, NEW C \in Seq(DynPdu), NEW S \in Seq(DynPdu), NEW act, NEW st,
         NEW next \in Nat, View(id, C, S, act, st, next),
         NEW act2, id \in act <=> id \in act2, NEW next2 \in Nat, next <= next2
  PROVE  View(id, C, S, act2, st, next2)
<1>1. (next2 <= id => next <= id) /\ (id < next => id < next2)
  BY SMT
<1> QED BY <1>1, Zenon DEF View


\* The client creates the channel.
LEMMA ViewAccepts ==
  ASSUME NEW id \in Nat, NEW C \in Seq(DynPdu), NEW S \in Seq(DynPdu), NEW act, NEW st,
         NEW next \in Nat, View(id, C, S, act, st, next),
         C # <<>>, Head(C) \in Creations(id)
  PROVE  View(id, Tail(C), S \o <<Accepted(id)>>, act \cup {id}, st, next)
<1>1. /\ Carries(C, Creations(id)) /\ ~Carries(Tail(C), Creations(id))
      /\ CarriesOnce(Tail(C), Creations(id))
      /\ Carries(C, {Closing(id)}) => Carries(Tail(C), {Closing(id)})
      /\ CarriesBehind(C, Creations(id), Closing(id)) => Carries(Tail(C), {Closing(id)})
  <2>1. Head(C) \notin {Closing(id)} /\ Closing(id) \notin Creations(id)
    BY DynKinds, Zenon
  <2>2. CarriesOnce(C, Creations(id))
    BY Zenon DEF View
  <2>3. CarriesBehind(C, Creations(id), Closing(id)) => Carries(C, {Closing(id)})
    BY DEF CarriesBehind, Carries
  <2> QED BY <2>1, <2>2, <2>3, DynTaken, Zenon
<1>2. /\ Carries(S \o <<Accepted(id)>>, {Accepted(id)}) <=> Carries(S, {Accepted(id)}) \/ Accepted(id) = Accepted(id)
      /\ Carries(S \o <<Accepted(id)>>, {Refused(id)}) <=> Carries(S, {Refused(id)}) \/ Accepted(id) = Refused(id)
      /\ Carries(S \o <<Accepted(id)>>, {Closing(id)}) <=> Carries(S, {Closing(id)}) \/ Accepted(id) = Closing(id)
  BY DynKinds, DynSentOne, Zenon
<1>3. Accepted(id) # Refused(id) /\ Accepted(id) # Closing(id)
  BY DynKinds, Zenon
<1>4. id < next /\ st \in {"Creation", "Absent"} /\ st # "Pending" /\ id \in act \cup {id}
  BY <1>1 DEF View
<1> QED BY <1>1, <1>2, <1>3, <1>4, Zenon DEF View


\* The client refuses to create the channel.
LEMMA ViewRefuses ==
  ASSUME NEW id \in Nat, NEW C \in Seq(DynPdu), NEW S \in Seq(DynPdu), NEW act, NEW st,
         NEW next \in Nat, View(id, C, S, act, st, next),
         C # <<>>, Head(C) \in Creations(id)
  PROVE  View(id, Tail(C), S \o <<Refused(id)>>, act, st, next)
<1>1. /\ Carries(C, Creations(id)) /\ ~Carries(Tail(C), Creations(id))
      /\ CarriesOnce(Tail(C), Creations(id))
      /\ Carries(C, {Closing(id)}) => Carries(Tail(C), {Closing(id)})
      /\ CarriesBehind(C, Creations(id), Closing(id)) => Carries(Tail(C), {Closing(id)})
  <2>1. Head(C) \notin {Closing(id)} /\ Closing(id) \notin Creations(id)
    BY DynKinds, Zenon
  <2>2. CarriesOnce(C, Creations(id))
    BY Zenon DEF View
  <2>3. CarriesBehind(C, Creations(id), Closing(id)) => Carries(C, {Closing(id)})
    BY DEF CarriesBehind, Carries
  <2> QED BY <2>1, <2>2, <2>3, DynTaken, Zenon
<1>2. /\ Carries(S \o <<Refused(id)>>, {Accepted(id)}) <=> Carries(S, {Accepted(id)}) \/ Refused(id) = Accepted(id)
      /\ Carries(S \o <<Refused(id)>>, {Refused(id)}) <=> Carries(S, {Refused(id)}) \/ Refused(id) = Refused(id)
      /\ Carries(S \o <<Refused(id)>>, {Closing(id)}) <=> Carries(S, {Closing(id)}) \/ Refused(id) = Closing(id)
  BY DynKinds, DynSentOne, Zenon
<1>3. Refused(id) # Accepted(id) /\ Refused(id) # Closing(id)
  BY DynKinds, Zenon
<1>4. id < next /\ st \in {"Creation", "Absent"} /\ st # "Pending" /\ st # "Opened" /\ id \notin act
  BY <1>1 DEF View
<1> QED BY <1>1, <1>2, <1>3, <1>4, Zenon DEF View

\* The client closes a channel it has, over TCP.
LEMMA ViewCloses ==
  ASSUME NEW id \in Nat, NEW C \in Seq(DynPdu), NEW S \in Seq(DynPdu), NEW act, NEW st,
         NEW next \in Nat, View(id, C, S, act, st, next),
         id \in act
  PROVE  View(id, C, S \o <<Closing(id)>>, act \ {id}, st, next)
<1>2. /\ Carries(S \o <<Closing(id)>>, {Accepted(id)}) <=> Carries(S, {Accepted(id)}) \/ Closing(id) = Accepted(id)
      /\ Carries(S \o <<Closing(id)>>, {Refused(id)}) <=> Carries(S, {Refused(id)}) \/ Closing(id) = Refused(id)
      /\ Carries(S \o <<Closing(id)>>, {Closing(id)}) <=> Carries(S, {Closing(id)}) \/ Closing(id) = Closing(id)
  BY DynKinds, DynSentOne, Zenon
<1>3. Closing(id) # Accepted(id) /\ Closing(id) # Refused(id)
  BY DynKinds, Zenon
<1>4. CarriesBehind(S \o <<Closing(id)>>, {Accepted(id)}, Closing(id))
  <2>1. Closing(id) \in DynPdu /\ Closing(id) \notin {Accepted(id)}
    BY <1>3, DynKinds, Zenon
  <2> QED BY <2>1, DynSentOne, Zenon
<1>5. /\ ~Carries(C, Creations(id)) /\ id < next /\ st \in {"Creation", "Opened", "Absent"}
      /\ st # "Pending" /\ id \notin act \ {id}
  BY DEF View
<1> QED BY <1>2, <1>3, <1>4, <1>5, Zenon DEF View


\* The client closes a channel it has, over the tunnel.
LEMMA ViewClosesTunneled ==
  ASSUME NEW id \in Nat, NEW C \in Seq(DynPdu), NEW S \in Seq(DynPdu), NEW act, NEW st,
         NEW next \in Nat, View(id, C, S, act, st, next),
         id \in act, "Client" \in TunneledCloses
  PROVE  View(id, C, S, act \ {id}, st, next)
<1>1. ~Carries(C, Creations(id)) /\ id \notin act \ {id}
  BY DEF View
<1> QED BY <1>1, Zenon DEF View


\* The client takes a Close of the channel when it has none.
LEMMA ViewUnknownClose ==
  ASSUME NEW id \in Nat, NEW C \in Seq(DynPdu), NEW S \in Seq(DynPdu), NEW act, NEW st,
         NEW next \in Nat, View(id, C, S, act, st, next),
         C # <<>>, Head(C) = Closing(id), id \notin act
  PROVE  View(id, Tail(C), S, act, st, next)
<1>1. Head(C) \notin Creations(id)
  BY DynKinds, Zenon
<1>2. /\ Carries(C, Creations(id)) <=> Carries(Tail(C), Creations(id))
      /\ CarriesOnce(C, Creations(id)) => CarriesOnce(Tail(C), Creations(id))
      /\ CarriesBehind(C, Creations(id), Closing(id)) /\ Carries(C, Creations(id))
           => CarriesBehind(Tail(C), Creations(id), Closing(id))
  BY <1>1, DynTaken, Zenon
<1> QED BY <1>2, Zenon DEF View


\* The client takes a Close of a channel it has.
LEMMA ViewClosed ==
  ASSUME NEW id \in Nat, NEW C \in Seq(DynPdu), NEW S \in Seq(DynPdu), NEW act, NEW st,
         NEW next \in Nat, View(id, C, S, act, st, next),
         C # <<>>, Head(C) = Closing(id), id \in act
  PROVE  View(id, Tail(C), S \o <<Closing(id)>>, act \ {id}, st, next)
<1>1. S \o <<Closing(id)>> \in Seq(DynPdu)
  BY DynKinds, DynSentOne, Zenon
<1>2. View(id, C, S \o <<Closing(id)>>, act \ {id}, st, next)
  BY ViewCloses, Zenon
<1>3. id \notin act \ {id}
  OBVIOUS
<1> QED BY <1>1, <1>2, <1>3, ViewUnknownClose, Zenon


\* The server asks for a channel that it made or that was pending.
LEMMA ViewAsks ==
  ASSUME NEW id \in Nat, NEW C \in Seq(DynPdu), NEW S \in Seq(DynPdu), NEW act, NEW st,
         NEW next \in Nat, View(id, C, S, act, st, next),
         NEW s \in Seq(DynPdu), CarriesOnce(s, Creations(id)), NEW next2 \in Nat, next <= next2, id < next2,
         st = "Pending" \/ next <= id
  PROVE  View(id, C \o s, S, act, "Creation", next2)
<1>1. /\ ~Carries(C, Creations(id)) /\ id \notin act
      /\ ~Carries(S, {Accepted(id)}) /\ ~Carries(S, {Refused(id)}) /\ ~Carries(S, {Closing(id)})
  <2>1. CASE st = "Pending"
    BY <2>1 DEF View
  <2>2. CASE next <= id
    <3>1. ~(id < next)
      BY <2>2, SMT
    <3> QED BY <3>1, Zenon DEF View
  <2> QED BY <2>1, <2>2
<1>2. CarriesOnce(C \o s, Creations(id))
  BY <1>1, DynSent, Zenon DEF View
<1>3. ~(next2 <= id)
  BY SMT
<1>4. "Creation" \in {"Creation", "Absent"} /\ "Creation" # "Opened" /\ "Creation" # "Absent" /\ "Creation" # "Pending"
  OBVIOUS
<1> QED BY <1>1, <1>2, <1>3, <1>4, Zenon DEF View


\* The server takes the answer to a creation it waits for.
LEMMA ViewAnswered ==
  ASSUME NEW id \in Nat, NEW C \in Seq(DynPdu), NEW S \in Seq(DynPdu), NEW act, NEW st,
         NEW next \in Nat, View(id, C, S, act, st, next),
         S # <<>>, st = "Creation", NEW st2,
         \/ Head(S) = Accepted(id) /\ st2 = "Opened"
         \/ Head(S) = Refused(id) /\ st2 = "CreationFailed"
  PROVE  View(id, C, Tail(S), act, st2, next)
<1>1. /\ Carries(S, {Accepted(id)}) <=> Head(S) = Accepted(id) \/ Carries(Tail(S), {Accepted(id)})
      /\ Carries(S, {Refused(id)}) <=> Head(S) = Refused(id) \/ Carries(Tail(S), {Refused(id)})
      /\ Carries(S, {Closing(id)}) <=> Head(S) = Closing(id) \/ Carries(Tail(S), {Closing(id)})
      /\ CarriesBehind(S, {Accepted(id)}, Closing(id)) /\ Carries(S, {Accepted(id)})
           => CarriesBehind(Tail(S), {Accepted(id)}, Closing(id))
  BY DynTaken, Zenon
<1>2. /\ Accepted(id) # Closing(id) /\ Refused(id) # Closing(id)
      /\ st # "Absent" /\ st2 # "Absent" /\ st2 # "Pending" /\ st2 # "Creation"
  BY DynKinds
<1>3. ~(next <= id) /\ ~Carries(C, Creations(id))
  BY <1>1, <1>2 DEF View
<1>4. CASE Head(S) = Accepted(id) /\ st2 = "Opened"
  <2>1. CarriesBehind(S, {Accepted(id)}, Closing(id)) => Carries(S, {Closing(id)})
    BY DEF CarriesBehind, Carries
  <2>2. id \notin act => Carries(Tail(S), {Closing(id)}) \/ "Client" \in TunneledCloses
    BY <1>1, <1>2, <1>4, <2>1, Zenon DEF View
  <2>3. st2 \in {"Creation", "Opened", "Absent"}
    BY <1>4
  <2> QED BY <1>1, <1>2, <1>3, <2>2, <2>3, Zenon DEF View
<1>5. CASE Head(S) = Refused(id) /\ st2 = "CreationFailed"
  <2>1. id \notin act /\ st2 # "Opened"
    BY <1>1, <1>5 DEF View
  <2> QED BY <1>1, <1>2, <1>3, <2>1, Zenon DEF View
<1> QED BY <1>4, <1>5


\* The server takes an answer it does not wait for.
LEMMA ViewUnasked ==
  ASSUME NEW id \in Nat, NEW C \in Seq(DynPdu), NEW S \in Seq(DynPdu), NEW act, NEW st,
         NEW next \in Nat, View(id, C, S, act, st, next),
         S # <<>>, st # "Creation", Head(S) \in {Accepted(id), Refused(id)}
  PROVE  View(id, C, Tail(S), act, st, next)
<1>1. /\ Carries(S, {Accepted(id)}) <=> Head(S) = Accepted(id) \/ Carries(Tail(S), {Accepted(id)})
      /\ Carries(S, {Refused(id)}) <=> Head(S) = Refused(id) \/ Carries(Tail(S), {Refused(id)})
      /\ Carries(S, {Closing(id)}) <=> Head(S) = Closing(id) \/ Carries(Tail(S), {Closing(id)})
      /\ CarriesBehind(S, {Accepted(id)}, Closing(id)) /\ Carries(S, {Accepted(id)})
           => CarriesBehind(Tail(S), {Accepted(id)}, Closing(id))
  BY DynTaken, Zenon
<1>2. Head(S) # Closing(id)
  BY DynKinds
<1> QED BY <1>1, <1>2, Zenon DEF View


\* The server takes a Close of the channel.
LEMMA ViewDropped ==
  ASSUME NEW id \in Nat, NEW C \in Seq(DynPdu), NEW S \in Seq(DynPdu), NEW act, NEW st,
         NEW next \in Nat, View(id, C, S, act, st, next),
         S # <<>>, Head(S) = Closing(id)
  PROVE  View(id, C, Tail(S), act, "Absent", next)
<1>1. /\ Carries(S, {Accepted(id)}) <=> Head(S) = Accepted(id) \/ Carries(Tail(S), {Accepted(id)})
      /\ Carries(S, {Refused(id)}) <=> Head(S) = Refused(id) \/ Carries(Tail(S), {Refused(id)})
      /\ Carries(S, {Closing(id)}) <=> Head(S) = Closing(id) \/ Carries(Tail(S), {Closing(id)})
      /\ CarriesBehind(S, {Accepted(id)}, Closing(id)) /\ Carries(S, {Accepted(id)})
           => CarriesBehind(Tail(S), {Accepted(id)}, Closing(id))
  BY DynTaken, Zenon
<1>2. /\ ~Carries(C, Creations(id)) /\ id \notin act /\ id < next
      /\ "Absent" # "Opened" /\ "Absent" # "Creation" /\ "Absent" # "Pending"
  BY <1>1 DEF View
<1> QED BY <1>1, <1>2, Zenon DEF View


\* The server closes a channel the client may have or be asked for.
LEMMA ViewWithdrawn ==
  ASSUME NEW id \in Nat, NEW C \in Seq(DynPdu), NEW S \in Seq(DynPdu), NEW act, NEW st,
         NEW next \in Nat, View(id, C, S, act, st, next)
  PROVE  View(id, C \o <<Closing(id)>>, S, act, "Absent", next)
<1>1. Closing(id) \in DynPdu /\ Closing(id) \notin Creations(id)
  BY DynKinds, Zenon
<1>2. /\ Carries(C \o <<Closing(id)>>, Creations(id)) <=> Carries(C, Creations(id))
      /\ Carries(C \o <<Closing(id)>>, {Closing(id)})
      /\ CarriesOnce(C, Creations(id)) => CarriesOnce(C \o <<Closing(id)>>, Creations(id))
      /\ CarriesBehind(C \o <<Closing(id)>>, Creations(id), Closing(id))
  BY <1>1, DynSentOne, Zenon
<1>3. /\ "Absent" \in {"Creation", "Absent"} /\ "Absent" \in {"Creation", "Opened", "Absent"}
      /\ "Absent" # "Opened" /\ "Absent" # "Creation" /\ "Absent" # "Pending"
  OBVIOUS
<1> QED BY <1>2, <1>3, Zenon DEF View


\* The server closes a channel it never asked for or that was refused.
LEMMA ViewWithdrawnUnseen ==
  ASSUME NEW id \in Nat, NEW C \in Seq(DynPdu), NEW S \in Seq(DynPdu), NEW act, NEW st,
         NEW next \in Nat, View(id, C, S, act, st, next),
         st \in {"Pending", "CreationFailed"}
  PROVE  View(id, C, S, act, "Absent", next)
<1>1. /\ ~Carries(C, Creations(id)) /\ id \notin act
      /\ "Absent" # "Opened" /\ "Absent" # "Creation" /\ "Absent" # "Pending"
  BY DEF View
<1> QED BY <1>1, Zenon DEF View

\* What a PDU says by its kind, and about which channel.
LEMMA DynForms ==
  ASSUME NEW m \in DynPdu
  PROVE  /\ m.t = "Create" => /\ m.id \in Nat /\ m.name \in Names /\ m \in Creations(m.id)
                              /\ \A id \in Nat : id # m.id => Inert(m, id)
         /\ m.t = "CreateResponse" => /\ m.id \in Nat
                                      /\ m = Accepted(m.id) \/ m = Refused(m.id)
                                      /\ \A id \in Nat : id # m.id => Inert(m, id)
         /\ m.t = "Close" => /\ m.id \in Nat /\ m = Closing(m.id)
                             /\ \A id \in Nat : id # m.id => Inert(m, id)
         /\ m.t \notin {"Create", "CreateResponse", "Close"} => \A id \in Nat : Inert(m, id)
         /\ m.t = "Data" => m.id \in Nat
<1>1. \A id : /\ \A x \in Creations(id) : x.t = "Create" /\ x.id = id
              /\ Accepted(id).t = "CreateResponse" /\ Accepted(id).id = id
              /\ Refused(id).t = "CreateResponse" /\ Refused(id).id = id
              /\ Closing(id).t = "Close" /\ Closing(id).id = id
  BY DEF Creations, Accepted, Refused, Closing
<1>2. \A id \in Nat : /\ m.t \notin {"Create", "CreateResponse", "Close"} => Inert(m, id)
                      /\ id # m.id => Inert(m, id)
  BY <1>1 DEF Inert
<1>3. m.t = "Create" => m \in [t : {"Create"}, id : Nat, name : Names]
  BY DEF DynPdu
<1>4. m.t = "CreateResponse" => m \in [t : {"CreateResponse"}, id : Nat, ok : BOOLEAN]
  BY DEF DynPdu
<1>5. m.t = "Close" => m \in [t : {"Close"}, id : Nat]
  BY DEF DynPdu
<1>6. m.t = "Data" => m.id \in Nat
  BY DEF DynPdu
<1>7. m.t = "Create" => m.id \in Nat /\ m.name \in Names /\ m \in Creations(m.id)
  BY <1>3 DEF Creations
<1>8. m.t = "CreateResponse" => /\ m.id \in Nat
                                /\ m = Accepted(m.id) \/ m = Refused(m.id)
  <2>1. m.t = "CreateResponse" => m = IF m.ok THEN Accepted(m.id) ELSE Refused(m.id)
    BY <1>4 DEF Accepted, Refused
  <2>2. m.t = "CreateResponse" => m.id \in Nat
    BY <1>4
  <2> QED BY <2>1, <2>2
<1>9. m.t = "Close" => m.id \in Nat /\ m = Closing(m.id)
  BY <1>5 DEF Closing
<1> QED BY <1>2, <1>6, <1>7, <1>8, <1>9

\* PDUs that say nothing about any channel.
AllInert(s) == \A i \in 1 .. Len(s) : \A id \in Nat : Inert(s[i], id)

\* They are silent about each.
LEMMA InertSilent ==
  ASSUME NEW s, AllInert(s), NEW id \in Nat
  PROVE  Silent(s, id)
  BY DEF AllInert, Silent, Carries, Inert

\* A processor registered once is parked or serves one channel, by the
\* client's channels and the parked names.
Serving(act, name) == {id \in DOMAIN act : act[id] = name}
OnceKept(act, idle) ==
  \A name \in OnceNames :
    IF name \in idle THEN Serving(act, name) = {} ELSE \E id \in DOMAIN act : Serving(act, name) = {id}

Opening(act, id, name) == [x \in DOMAIN act \cup {id} |-> IF x = id THEN name ELSE act[x]]

\* A channel whose id is new takes its processor.
LEMMA OnceStarts ==
  ASSUME NEW act, NEW idle, OnceKept(act, idle), idle \subseteq OnceNames, NEW id, id \notin DOMAIN act,
         NEW name \in FactoryNames \cup idle, OnceNames \cap FactoryNames = {}
  PROVE  OnceKept(Opening(act, id, name), idle \ {name})
<1> DEFINE act2 == Opening(act, id, name)
<1>1. /\ DOMAIN act2 = DOMAIN act \cup {id} /\ act2[id] = name
      /\ \A x \in DOMAIN act : act2[x] = act[x]
  BY DEF Opening
<1> HIDE DEF act2
<1> SUFFICES ASSUME NEW other \in OnceNames
             PROVE  IF other \in idle \ {name} THEN Serving(act2, other) = {}
                    ELSE \E x \in DOMAIN act2 : Serving(act2, other) = {x}
  BY DEF OnceKept, act2
<1>2. CASE other = name
  <2>1. name \in idle /\ Serving(act, name) = {}
    BY <1>2 DEF OnceKept
  <2>2. Serving(act2, name) = {id}
    BY <1>1, <2>1 DEF Serving
  <2> QED BY <1>1, <1>2, <2>2
<1>3. CASE other # name
  <2>1. Serving(act2, other) = Serving(act, other)
    BY <1>1, <1>3 DEF Serving
  <2> QED BY <1>1, <1>3, <2>1 DEF OnceKept
<1> QED BY <1>2, <1>3

\* A channel that is removed gives its processor back.
LEMMA OnceRemoved ==
  ASSUME NEW act, NEW idle, OnceKept(act, idle), NEW id \in DOMAIN act
  PROVE  OnceKept([x \in DOMAIN act \ {id} |-> act[x]], idle \cup ({act[id]} \cap OnceNames))
<1> DEFINE act2 == [x \in DOMAIN act \ {id} |-> act[x]]
           idle2 == idle \cup ({act[id]} \cap OnceNames)
<1>1. DOMAIN act2 = DOMAIN act \ {id} /\ \A x \in DOMAIN act2 : act2[x] = act[x]
  OBVIOUS
<1> HIDE DEF act2
<1> SUFFICES ASSUME NEW other \in OnceNames
             PROVE  IF other \in idle2 THEN Serving(act2, other) = {}
                    ELSE \E x \in DOMAIN act2 : Serving(act2, other) = {x}
  BY DEF OnceKept, act2
<1>2. CASE other = act[id]
  <2>1. id \in Serving(act, other)
    BY <1>2 DEF Serving
  <2>2. PICK x \in DOMAIN act : Serving(act, other) = {x}
    BY <2>1 DEF OnceKept
  <2>3. Serving(act2, other) = {}
    BY <1>1, <2>1, <2>2 DEF Serving
  <2>4. other \in idle2
    BY <1>2
  <2> QED BY <2>3, <2>4
<1>3. CASE other # act[id]
  <2>1. Serving(act2, other) = Serving(act, other)
    BY <1>1, <1>3 DEF Serving
  <2>2. other \in idle2 <=> other \in idle
    BY <1>3
  <2>3. \A x \in DOMAIN act : Serving(act, other) = {x} => x \in DOMAIN act2
    <3> SUFFICES ASSUME NEW x \in DOMAIN act, Serving(act, other) = {x}
                 PROVE  x \in DOMAIN act2
      OBVIOUS
    <3>1. act[x] = other
      BY DEF Serving
    <3> QED BY <1>1, <1>3, <3>1
  <2> QED BY <2>1, <2>2, <2>3 DEF OnceKept
<1> QED BY <1>2, <1>3

\* Removing a channel that is not there changes nothing.
LEMMA OnceWithout ==
  ASSUME NEW act, NEW idle, OnceKept(act, idle), NEW id, id \notin DOMAIN act
  PROVE  OnceKept([x \in DOMAIN act \ {id} |-> act[x]], idle)
<1> DEFINE act2 == [x \in DOMAIN act \ {id} |-> act[x]]
<1>1. DOMAIN act2 = DOMAIN act /\ \A x \in DOMAIN act : act2[x] = act[x]
  OBVIOUS
<1> HIDE DEF act2
<1>2. \A name : Serving(act2, name) = Serving(act, name)
  BY <1>1 DEF Serving
<1>3. OnceKept(act2, idle)
  BY <1>1, <1>2 DEF OnceKept
<1> QED BY <1>3 DEF act2

\* A PDU about one channel says nothing about another.
LEMMA DynOther ==
  ASSUME NEW k \in Nat, NEW id \in Nat, id # k
  PROVE  /\ Inert(Accepted(k), id) /\ Inert(Refused(k), id) /\ Inert(Closing(k), id)
         /\ \A m \in Creations(k) : Inert(m, id)
<1>1. \A x : /\ Accepted(x).t = "CreateResponse" /\ Accepted(x).id = x
             /\ Refused(x).t = "CreateResponse" /\ Refused(x).id = x
             /\ Closing(x).t = "Close" /\ Closing(x).id = x
             /\ \A m \in Creations(x) : m.t = "Create" /\ m.id = x
  BY DEF Accepted, Refused, Closing, Creations
<1> QED BY <1>1 DEF Inert

\* One inert PDU is silent.
LEMMA SilentOne ==
  ASSUME NEW m \in DynPdu, NEW id, Inert(m, id)
  PROVE  Silent(<<m>>, id) /\ <<m>> \in Seq(DynPdu)
<1>1. \A A : Carries(<<m>>, A) <=> m \in A
  BY ShortCarries, Zenon
<1>2. <<m>> \in Seq(DynPdu)
  OBVIOUS
<1> QED BY <1>1, <1>2 DEF Silent, Inert

\* An answer that may follow another.
LEMMA DynAppended ==
  ASSUME NEW q \in Seq(DynPdu), NEW first \in Seq(DynPdu), NEW m \in DynPdu
  PROVE  q \o Append(first, m) = (q \o first) \o <<m>> /\ Append(first, m) \in Seq(DynPdu)
<1> DEFINE a == Append(first, m)
           l == q \o a
           f == q \o first
           r == f \o <<m>>
<1>1. /\ a \in Seq(DynPdu) /\ Len(a) = Len(first) + 1 /\ a[Len(first) + 1] = m
      /\ \A i \in 1 .. Len(first) : a[i] = first[i]
  OBVIOUS
<1>2. /\ f \in Seq(DynPdu) /\ Len(f) = Len(q) + Len(first)
      /\ \A i \in 1 .. Len(q) : f[i] = q[i]
      /\ \A i \in 1 .. Len(first) : f[Len(q) + i] = first[i]
  OBVIOUS
<1> HIDE DEF a, f
<1>3. /\ l \in Seq(DynPdu) /\ Len(l) = Len(q) + Len(a)
      /\ \A i \in 1 .. Len(q) : l[i] = q[i]
      /\ \A i \in 1 .. Len(a) : l[Len(q) + i] = a[i]
  BY <1>1
<1>4. /\ r \in Seq(DynPdu) /\ Len(r) = Len(f) + 1 /\ r[Len(f) + 1] = m
      /\ \A i \in 1 .. Len(f) : r[i] = f[i]
  BY <1>2
<1> HIDE DEF l, r
<1>5. ASSUME NEW i \in 1 .. Len(l) PROVE l[i] = r[i]
  <2>1. CASE i <= Len(q)
    BY <1>2, <1>3, <1>4, <2>1
  <2>2. CASE ~(i <= Len(q)) /\ i # Len(l)
    <3> DEFINE j == i - Len(q)
    <3>1. j \in 1 .. Len(first) /\ i = Len(q) + j /\ j \in 1 .. Len(a) /\ i \in 1 .. Len(f)
      BY <1>1, <1>2, <1>3, <2>2
    <3> HIDE DEF j
    <3> QED BY <1>1, <1>2, <1>3, <1>4, <3>1
  <2>3. CASE i = Len(l)
    <3>1. i = Len(q) + (Len(first) + 1) /\ Len(first) + 1 \in 1 .. Len(a) /\ i = Len(f) + 1
      BY <1>1, <1>2, <1>3, <2>3
    <3> QED BY <1>1, <1>3, <1>4, <3>1
  <2> QED BY <2>1, <2>2, <2>3
<1>6. l = r
  <2>1. Len(l) = Len(r)
    BY <1>1, <1>2, <1>3, <1>4
  <2> QED BY <1>3, <1>4, <1>5, <2>1, SameSequence
<1> QED BY <1>1, <1>6 DEF a, l, f, r

\* The views of all channels, where only channel k is touched: the PDU the
\* client takes and the one it sends are about k.
LEMMA ViewsOfOthers ==
  ASSUME NEW k \in Nat, NEW id \in Nat, id # k, NEW C \in Seq(DynPdu), NEW S \in Seq(DynPdu), NEW act, NEW st,
         NEW next \in Nat, View(id, C, S, act, st, next), NEW act2, id \in act <=> id \in act2
  PROVE  /\ C # <<>> /\ Inert(Head(C), id) => View(id, Tail(C), S, act2, st, next)
         /\ \A m \in DynPdu : Inert(m, id) => /\ View(id, C, S \o <<m>>, act2, st, next)
                                              /\ View(id, C \o <<m>>, S, act2, st, next)
         /\ \A m \in DynPdu : Inert(m, id) /\ C # <<>> /\ Inert(Head(C), id)
              => View(id, Tail(C), S \o <<m>>, act2, st, next)
<1>1. View(id, C, S, act2, st, next)
  <2>1. next <= next
    OBVIOUS
  <2> QED BY <2>1, ViewOfOther, Zenon
<1>2. C # <<>> /\ Inert(Head(C), id) => View(id, Tail(C), S, act2, st, next) /\ Tail(C) \in Seq(DynPdu)
  BY <1>1, ViewTaken, DynTaken, Zenon
<1>3. \A m \in DynPdu : Inert(m, id) =>
         Silent(<<m>>, id) /\ <<m>> \in Seq(DynPdu) /\ ~Carries(<<m>>, Creations(id))
  BY SilentOne, Zenon DEF Silent
<1>4. \A m \in DynPdu : Inert(m, id) => /\ View(id, C, S \o <<m>>, act2, st, next)
                                        /\ View(id, C \o <<m>>, S, act2, st, next)
  BY <1>1, <1>3, ViewToServer, ViewToClient, Zenon
<1>5. \A m \in DynPdu : Inert(m, id) /\ C # <<>> /\ Inert(Head(C), id)
         => View(id, Tail(C), S \o <<m>>, act2, st, next)
  BY <1>2, <1>3, ViewToServer, Zenon
<1> QED BY <1>2, <1>4, <1>5, Zenon

\* The numbers are numbers, a name is registered in one way, and the server's
\* channels have names.
DynSizes ==
  /\ MaxChannels \in Nat
  /\ OnceNames \cap FactoryNames = {}
  /\ Registered \in Seq(Names)

\* The modules assume as much.
LEMMA DynSizesHold == DynSizes
  BY WireAssumption, RegisteredAssumption DEF DynSizes

DynEnds == {"Client", "Server"}
DynTcp == [DynEnds -> Seq(DynPdu)]
DynState(id) == IF id \in DOMAIN channels THEN channels[id].state ELSE "Absent"

DynTypes ==
  /\ tcp \in DynTcp
  /\ sent \in [DynEnds -> [Ids -> Nat]]
  /\ next_channel_id \in Nat
  /\ DOMAIN channels \subseteq Nat
  /\ \A id \in DOMAIN channels : channels[id] \in [name : Names, state : ChannelState]
  /\ parked \subseteq OnceNames

DynViews ==
  \A id \in Nat : View(id, tcp["Client"], tcp["Server"], DOMAIN active, DynState(id), next_channel_id)

\* The inductive invariant: the two ends' views of every channel fit what is
\* under way, and the once-registered processors are kept.
DynInv == DynTypes /\ DOMAIN active \subseteq Nat /\ DynViews /\ OnceKept(active, parked)

\* What an exchange does to the two directions.
LEMMA DynPaths ==
  ASSUME NEW path \in DynTcp, NEW s \in Seq(DynPdu)
  PROVE  /\ path["Client"] \in Seq(DynPdu) /\ path["Server"] \in Seq(DynPdu)
         /\ Sends(path, "Client", s) \in DynTcp
         /\ Sends(path, "Client", s)["Client"] = path["Client"]
         /\ Sends(path, "Client", s)["Server"] = path["Server"] \o s
         /\ Sends(path, "Server", s) \in DynTcp
         /\ Sends(path, "Server", s)["Client"] = path["Client"] \o s
         /\ Sends(path, "Server", s)["Server"] = path["Server"]
<1>1. Other("Client") = "Server" /\ Other("Server") = "Client"
  BY DEF Other, End
<1>2. path["Client"] \in Seq(DynPdu) /\ path["Server"] \in Seq(DynPdu)
  BY DEF DynTcp, DynEnds
<1>3. path["Client"] \o s \in Seq(DynPdu) /\ path["Server"] \o s \in Seq(DynPdu)
  BY <1>2, DynSent
<1>4. /\ Sends(path, "Client", s) = [path EXCEPT !["Server"] = path["Server"] \o s]
      /\ Sends(path, "Server", s) = [path EXCEPT !["Client"] = path["Client"] \o s]
  BY <1>1 DEF Sends
<1> QED BY <1>2, <1>3, <1>4 DEF DynTcp, DynEnds

LEMMA DynExchanged ==
  ASSUME NEW path \in DynTcp, NEW s \in Seq(DynPdu)
  PROVE  /\ path["Client"] # <<>> =>
              /\ Exchanges(path, "Client", s) \in DynTcp
              /\ Exchanges(path, "Client", s)["Client"] = Tail(path["Client"])
              /\ Exchanges(path, "Client", s)["Server"] = path["Server"] \o s
         /\ path["Server"] # <<>> =>
              /\ Exchanges(path, "Server", s) \in DynTcp
              /\ Exchanges(path, "Server", s)["Client"] = path["Client"] \o s
              /\ Exchanges(path, "Server", s)["Server"] = Tail(path["Server"])
<1>1. Other("Client") = "Server" /\ Other("Server") = "Client"
  BY DEF Other, End
<1>2. path["Client"] \in Seq(DynPdu) /\ path["Server"] \in Seq(DynPdu)
  BY DEF DynTcp, DynEnds
<1>3. path["Client"] \o s \in Seq(DynPdu) /\ path["Server"] \o s \in Seq(DynPdu)
  BY <1>2, DynSent
<1>4. /\ path["Client"] # <<>> => Tail(path["Client"]) \in Seq(DynPdu)
      /\ path["Server"] # <<>> => Tail(path["Server"]) \in Seq(DynPdu)
  BY <1>2, DynTaken
<1>5. /\ Exchanges(path, "Client", s)
           = [path EXCEPT !["Client"] = Tail(path["Client"]), !["Server"] = path["Server"] \o s]
      /\ Exchanges(path, "Server", s)
           = [path EXCEPT !["Server"] = Tail(path["Server"]), !["Client"] = path["Client"] \o s]
  <2>1. /\ Exchanges(path, "Client", s)
             = [path EXCEPT !["Client"] = Tail(@), !["Server"] = @ \o s]
        /\ Exchanges(path, "Server", s)
             = [path EXCEPT !["Server"] = Tail(@), !["Client"] = @ \o s]
    BY <1>1 DEF Exchanges
  <2> QED BY <2>1 DEF DynTcp, DynEnds
<1> QED BY <1>2, <1>3, <1>4, <1>5 DEF DynTcp, DynEnds

\* A step that says nothing about any channel: what is taken and what is sent
\* are inert, and the tables stay.
LEMMA DynInertStep ==
  ASSUME DynInv, UNCHANGED <<active, parked, channels, next_channel_id>>,
         sent' \in [DynEnds -> [Ids -> Nat]], NEW s \in Seq(DynPdu), AllInert(s),
         \/ tcp' = tcp
         \/ /\ tcp["Client"] # <<>> /\ \A id \in Nat : Inert(Head(tcp["Client"]), id)
            /\ tcp' = Exchanges(tcp, "Client", s)
         \/ /\ tcp["Server"] # <<>> /\ \A id \in Nat : Inert(Head(tcp["Server"]), id)
            /\ tcp' = Exchanges(tcp, "Server", s)
         \/ tcp' = Sends(tcp, "Client", s)
         \/ tcp' = Sends(tcp, "Server", s)
  PROVE  DynInv'
<1> DEFINE C == tcp["Client"]
           S == tcp["Server"]
           V(id, c, d) == View(id, c, d, DOMAIN active, DynState(id), next_channel_id)
<1>0. tcp \in DynTcp /\ next_channel_id \in Nat
  BY DEF DynInv, DynTypes
<1>1. C \in Seq(DynPdu) /\ S \in Seq(DynPdu)
  BY <1>0, DynPaths
<1>2. \A id \in Nat : V(id, C, S)
  BY DEF DynInv, DynViews
<1>3. \A id \in Nat : Silent(s, id) /\ ~Carries(s, Creations(id))
  BY InertSilent, Zenon DEF Silent
<1>4. tcp' \in DynTcp /\ \A id \in Nat : V(id, tcp'["Client"], tcp'["Server"])
  <2>1. CASE tcp' = tcp
    BY <1>0, <1>2, <2>1
  <2>2. CASE /\ C # <<>> /\ \A id \in Nat : Inert(Head(C), id)
             /\ tcp' = Exchanges(tcp, "Client", s)
    <3>1. tcp' \in DynTcp /\ tcp'["Client"] = Tail(C) /\ tcp'["Server"] = S \o s
      BY <1>0, <2>2, DynExchanged
    <3>2. Tail(C) \in Seq(DynPdu)
      BY <1>1, <2>2, DynTaken
    <3> HIDE DEF C, S
    <3>3. \A id \in Nat : V(id, Tail(C), S)
      BY <1>0, <1>1, <1>2, <2>2, ViewTaken, Zenon
    <3>4. \A id \in Nat : V(id, Tail(C), S \o s)
      BY <1>0, <1>1, <1>3, <3>2, <3>3, ViewToServer, Zenon
    <3> QED BY <3>1, <3>4
  <2>3. CASE /\ S # <<>> /\ \A id \in Nat : Inert(Head(S), id)
             /\ tcp' = Exchanges(tcp, "Server", s)
    <3>1. tcp' \in DynTcp /\ tcp'["Client"] = C \o s /\ tcp'["Server"] = Tail(S)
      BY <1>0, <2>3, DynExchanged
    <3>2. Tail(S) \in Seq(DynPdu)
      BY <1>1, <2>3, DynTaken
    <3> HIDE DEF C, S
    <3>3. \A id \in Nat : V(id, C, Tail(S))
      BY <1>0, <1>1, <1>2, <2>3, ViewTakenAtServer, Zenon
    <3>4. \A id \in Nat : V(id, C \o s, Tail(S))
      BY <1>0, <1>1, <1>3, <3>2, <3>3, ViewToClient, Zenon
    <3> QED BY <3>1, <3>4
  <2>4. CASE tcp' = Sends(tcp, "Client", s)
    <3>1. tcp' \in DynTcp /\ tcp'["Client"] = C /\ tcp'["Server"] = S \o s
      BY <1>0, <2>4, DynPaths
    <3> HIDE DEF C, S
    <3>2. \A id \in Nat : V(id, C, S \o s)
      BY <1>0, <1>1, <1>2, <1>3, ViewToServer, Zenon
    <3> QED BY <3>1, <3>2
  <2>5. CASE tcp' = Sends(tcp, "Server", s)
    <3>1. tcp' \in DynTcp /\ tcp'["Client"] = C \o s /\ tcp'["Server"] = S
      BY <1>0, <2>5, DynPaths
    <3> HIDE DEF C, S
    <3>2. \A id \in Nat : V(id, C \o s, S)
      BY <1>0, <1>1, <1>2, <1>3, ViewToClient, Zenon
    <3> QED BY <3>1, <3>2
  <2> QED BY <2>1, <2>2, <2>3, <2>4, <2>5
<1>5. DynViews'
  BY <1>4 DEF DynViews, DynState
<1>6. DynTypes'
  BY <1>4 DEF DynInv, DynTypes
<1> QED BY <1>5, <1>6 DEF DynInv

\* One PDU that opens, answers and closes nothing, and none at all.
LEMMA DynInertOne ==
  /\ \A m \in DynPdu : m.t \notin {"Create", "CreateResponse", "Close"} =>
       <<m>> \in Seq(DynPdu) /\ AllInert(<<m>>)
  /\ <<>> \in Seq(DynPdu) /\ AllInert(<<>>)
<1>1. ASSUME NEW m \in DynPdu, m.t \notin {"Create", "CreateResponse", "Close"}
      PROVE  <<m>> \in Seq(DynPdu) /\ AllInert(<<m>>)
  <2>1. \A id \in Nat : Inert(m, id)
    BY <1>1, DynForms
  <2> QED BY <2>1 DEF AllInert
<1>2. <<>> \in Seq(DynPdu) /\ AllInert(<<>>)
  BY DEF AllInert
<1> QED BY <1>1, <1>2

\* The answers without contents are PDUs.
LEMMA DynBare ==
  ASSUME NEW t \in {"Caps", "CapsResponse", "SoftSyncResponse", "MultitransportResponse"}
  PROVE  <<Bare(t)>> \in Seq(DynPdu) /\ AllInert(<<Bare(t)>>)
<1>1. Bare(t) \in DynPdu /\ Bare(t).t = t
  BY DEF Bare, DynPdu
<1> QED BY <1>1, DynInertOne

\* The client drops the PDU it fails on.
LEMMA DynDropped ==
  ASSUME tcp \in DynTcp
  PROVE  [tcp EXCEPT !["Client"] = Tail(@)] = Exchanges(tcp, "Client", <<>>)
<1>1. Other("Client") = "Server"
  BY DEF Other, End
<1>2. tcp["Server"] \o <<>> = tcp["Server"]
  BY DEF DynTcp, DynEnds
<1>3. Exchanges(tcp, "Client", <<>>) = [tcp EXCEPT !["Client"] = Tail(@), !["Server"] = @ \o <<>>]
  BY <1>1 DEF Exchanges
<1> QED BY <1>2, <1>3 DEF DynTcp, DynEnds

\* The PDUs the two ends take, by kind.
LEMMA DynTakes ==
  ASSUME DynInv, NEW t
  PROVE  /\ ClientTakes(t) => /\ tcp["Client"] # <<>> /\ Head(tcp["Client"]) \in DynPdu
                              /\ Head(tcp["Client"]).t = t
         /\ ServerTakes(t) => /\ tcp["Server"] # <<>> /\ Head(tcp["Server"]) \in DynPdu
                              /\ Head(tcp["Server"]).t = t
<1>1. tcp["Client"] \in Seq(DynPdu) /\ tcp["Server"] \in Seq(DynPdu)
  BY DynPaths, DynInertOne DEF DynInv, DynTypes
<1>2. \A q \in Seq(DynPdu) : q # <<>> => Head(q) \in DynPdu
  OBVIOUS
<1> QED BY <1>1, <1>2 DEF ClientTakes, ServerTakes

\* The kinds that open, answer and close nothing.
LEMMA DynTakesInert ==
  ASSUME DynInv, NEW t \in {"Caps", "CapsResponse", "SoftSyncRequest", "SoftSyncResponse",
                           "MultitransportResponse", "Data"}
  PROVE  /\ ClientTakes(t) => tcp["Client"] # <<>> /\ \A id \in Nat : Inert(Head(tcp["Client"]), id)
         /\ ServerTakes(t) => tcp["Server"] # <<>> /\ \A id \in Nat : Inert(Head(tcp["Server"]), id)
<1>1. \A m \in DynPdu : m.t = t => \A id \in Nat : Inert(m, id)
  <2>1. t \notin {"Create", "CreateResponse", "Close"}
    OBVIOUS
  <2> QED BY <2>1, DynForms, Zenon
<1> QED BY <1>1, DynTakes, Zenon

\* The handlers of the client that open and close nothing.
LEMMA DynClientInert ==
  ASSUME DynInv, UNCHANGED serverVars,
         \/ ClientCapabilities \/ ClientData \/ ClientSoftSyncRequest
         \/ ClientTunnelData \/ ClientEnableTunnel
  PROVE  DynInv'
<1>0. UNCHANGED <<channels, next_channel_id>>
  BY DEF serverVars
<1>1. tcp \in DynTcp /\ sent \in [DynEnds -> [Ids -> Nat]]
  BY DEF DynInv, DynTypes
<1>3. CASE ClientCapabilities
  <2>1. /\ tcp' = Exchanges(tcp, "Client", <<Bare("CapsResponse")>>)
        /\ UNCHANGED <<active, parked, sent>> /\ ClientTakes("Caps")
    BY <1>3 DEF ClientCapabilities, channelVars
  <2>2. tcp["Client"] # <<>> /\ \A id \in Nat : Inert(Head(tcp["Client"]), id)
    BY <2>1, DynTakesInert
  <2> QED BY <1>0, <1>1, <2>1, <2>2, DynBare, DynInertStep
<1>4. ASSUME ClientFails, tcp["Client"] # <<>>, \A id \in Nat : Inert(Head(tcp["Client"]), id)
      PROVE  DynInv'
  <2>1. tcp' = Exchanges(tcp, "Client", <<>>) /\ UNCHANGED <<active, parked, sent>>
    BY <1>1, <1>4, DynDropped DEF ClientFails, channelVars
  <2> QED BY <1>0, <1>1, <1>4, <2>1, DynInertOne, DynInertStep
<1>5. CASE ClientData
  <2>1. tcp["Client"] # <<>> /\ \A id \in Nat : Inert(Head(tcp["Client"]), id)
    BY <1>5, DynTakesInert DEF ClientData
  <2>2. \/ ClientFails
        \/ tcp' = Exchanges(tcp, "Client", <<>>) /\ UNCHANGED <<active, parked, sent>>
    BY <1>5 DEF ClientData, clientVars
  <2> QED BY <1>0, <1>1, <1>4, <2>1, <2>2, DynInertOne, DynInertStep
<1>6. CASE ClientSoftSyncRequest
  <2>1. tcp["Client"] # <<>> /\ \A id \in Nat : Inert(Head(tcp["Client"]), id)
    BY <1>6, DynTakesInert DEF ClientSoftSyncRequest
  <2>2. \/ ClientFails
        \/ /\ tcp' = Exchanges(tcp, "Client", <<Bare("SoftSyncResponse")>>)
           /\ UNCHANGED <<active, parked, sent>>
    BY <1>6 DEF ClientSoftSyncRequest, channelVars
  <2> QED BY <1>0, <1>1, <1>4, <2>1, <2>2, DynBare, DynInertStep
<1>7. CASE ClientTunnelData
  <2>1. tcp' = tcp /\ UNCHANGED <<active, parked, sent>>
    BY <1>7 DEF ClientTunnelData, channelVars
  <2> QED BY <1>0, <1>1, <2>1, DynInertOne, DynInertStep
<1>8. CASE ClientEnableTunnel
  <2>1. /\ tcp' = Sends(tcp, "Client", <<Bare("MultitransportResponse")>>)
        /\ UNCHANGED <<active, parked, sent>>
    BY <1>8 DEF ClientEnableTunnel, channelVars
  <2> QED BY <1>0, <1>1, <2>1, DynBare, DynInertStep
<1> QED BY <1>3, <1>5, <1>6, <1>7, <1>8

\* The handlers of the server that open and close nothing.
LEMMA DynServerInert ==
  ASSUME DynInv, UNCHANGED clientVars,
         \/ ServerData \/ ServerSoftSyncResponse \/ ServerMultitransportResponse
         \/ ServerTunnel \/ \E ids \in SUBSET DOMAIN channels : ServerRequestReliableUdp(ids)
  PROVE  DynInv'
<1>0. UNCHANGED <<active, parked>>
  BY DEF clientVars
<1>1. tcp \in DynTcp /\ sent \in [DynEnds -> [Ids -> Nat]]
  BY DEF DynInv, DynTypes
<1>3. ASSUME tcp' = Exchanges(tcp, "Server", <<>>), UNCHANGED <<channels, next_channel_id, sent>>,
             tcp["Server"] # <<>>, \A id \in Nat : Inert(Head(tcp["Server"]), id)
      PROVE  DynInv'
  BY <1>0, <1>1, <1>3, DynInertOne, DynInertStep
<1>4. CASE ServerData
  <2>1. tcp["Server"] # <<>> /\ \A id \in Nat : Inert(Head(tcp["Server"]), id)
    BY <1>4, DynTakesInert DEF ServerData
  <2>2. tcp' = Exchanges(tcp, "Server", <<>>) /\ UNCHANGED <<channels, next_channel_id, sent>>
    BY <1>4 DEF ServerData, ServerFails, ServerAnswers, serverVars
  <2> QED BY <1>3, <2>1, <2>2
<1>5. CASE ServerSoftSyncResponse
  <2>1. tcp["Server"] # <<>> /\ \A id \in Nat : Inert(Head(tcp["Server"]), id)
    BY <1>5, DynTakesInert DEF ServerSoftSyncResponse
  <2>2. tcp' = Exchanges(tcp, "Server", <<>>) /\ UNCHANGED <<channels, next_channel_id, sent>>
    BY <1>5 DEF ServerSoftSyncResponse, ServerFails, ServerAnswers
  <2> QED BY <1>3, <2>1, <2>2
<1>6. CASE ServerMultitransportResponse
  <2>1. tcp["Server"] # <<>> /\ \A id \in Nat : Inert(Head(tcp["Server"]), id)
    BY <1>6, DynTakesInert DEF ServerMultitransportResponse
  <2>2. tcp' = Exchanges(tcp, "Server", <<>>) /\ UNCHANGED <<channels, next_channel_id, sent>>
    BY <1>6 DEF ServerMultitransportResponse, ServerAnswers
  <2> QED BY <1>3, <2>1, <2>2
<1>7. CASE ServerTunnel
  <2>1. tcp' = tcp /\ UNCHANGED <<channels, next_channel_id, sent>>
    BY <1>7 DEF ServerTunnel
  <2> QED BY <1>0, <1>1, <2>1, DynInertOne, DynInertStep
<1>8. ASSUME NEW ids \in SUBSET DOMAIN channels, ServerRequestReliableUdp(ids)
      PROVE  DynInv'
  <2> DEFINE m == [t |-> "SoftSyncRequest", ids |-> ids]
  <2>1. tcp' = Sends(tcp, "Server", <<m>>) /\ UNCHANGED <<channels, next_channel_id, sent>>
    BY <1>8 DEF ServerRequestReliableUdp
  <2>2. m \in DynPdu /\ m.t \notin {"Create", "CreateResponse", "Close"}
    BY DEF DynPdu, DynInv, DynTypes
  <2> HIDE DEF m
  <2>3. <<m>> \in Seq(DynPdu) /\ AllInert(<<m>>)
    BY <2>2, DynInertOne
  <2> QED BY <1>0, <1>1, <2>1, <2>3, DynInertStep
<1> QED BY <1>4, <1>5, <1>6, <1>7, <1>8

\* Messages on either route.
LEMMA DynSends ==
  ASSUME DynSizes, DynInv, NEW e \in DynEnds, NEW id \in Ids, NEW routed, SendsData(e, id, routed),
         UNCHANGED <<active, parked, channels, next_channel_id>>
  PROVE  DynInv'
<1> DEFINE m == DataPdu(id, sent[e][id] + 1)
<1>1. tcp \in DynTcp /\ sent \in [DynEnds -> [Ids -> Nat]] /\ id \in Nat
  BY DEF DynInv, DynTypes, DynSizes, Ids
<1>2. tcp' = tcp \/ tcp' = Sends(tcp, e, <<m>>)
  BY DEF SendsData
<1>3. sent' = [sent EXCEPT ![e][id] = @ + 1]
  BY DEF SendsData
<1>4. sent' \in [DynEnds -> [Ids -> Nat]] /\ sent[e][id] + 1 \in Nat
  BY <1>1, <1>3
<1>5. m \in DynPdu /\ m.t \notin {"Create", "CreateResponse", "Close"}
  BY <1>1, <1>4 DEF DynPdu, DataPdu
<1> HIDE DEF m
<1>6. <<m>> \in Seq(DynPdu) /\ AllInert(<<m>>)
  BY <1>5, DynInertOne
<1> QED BY <1>2, <1>4, <1>6, DynInertStep DEF DynEnds

\* A step of the client, which leaves the server's tables alone.
LEMMA DynClientStep ==
  ASSUME DynInv, UNCHANGED <<channels, next_channel_id, sent>>,
         tcp' \in DynTcp, DOMAIN active' \subseteq Nat, parked' \subseteq OnceNames, OnceKept(active', parked'),
         \A id \in Nat : View(id, tcp'["Client"], tcp'["Server"], DOMAIN active', DynState(id), next_channel_id)
  PROVE  DynInv'
<1>1. DynViews'
  BY DEF DynViews, DynState
<1>2. DynTypes'
  BY DEF DynInv, DynTypes
<1> QED BY <1>1, <1>2 DEF DynInv

\* process_create.
LEMMA DynClientCreates ==
  ASSUME DynSizes, DynInv, ClientCreate, UNCHANGED serverVars
  PROVE  DynInv'
<1> DEFINE C == tcp["Client"]
           S == tcp["Server"]
           k == Head(C).id
           name == Head(C).name
           first == IF cap_handshake_done THEN <<>> ELSE <<Bare("CapsResponse")>>
           S1 == S \o first
           V(id, c, d, act) == View(id, c, d, act, DynState(id), next_channel_id)
<1>0. UNCHANGED <<channels, next_channel_id>>
  BY DEF serverVars
<1>1. /\ tcp \in DynTcp /\ next_channel_id \in Nat /\ C \in Seq(DynPdu) /\ S \in Seq(DynPdu)
      /\ DOMAIN active \subseteq Nat /\ parked \subseteq OnceNames /\ OnceKept(active, parked)
  BY DynPaths, DynInertOne DEF DynInv, DynTypes
<1>2. C # <<>> /\ Head(C) \in DynPdu /\ k \in Nat /\ Head(C) \in Creations(k)
  <2>1. C # <<>> /\ Head(C) \in DynPdu /\ Head(C).t = "Create"
    BY DynTakes DEF ClientCreate
  <2> QED BY <2>1, DynForms
<1>3. first \in Seq(DynPdu) /\ AllInert(first)
  BY DynBare, DynInertOne
<1>4. /\ CreateResponse(k, TRUE) = Accepted(k) /\ CreateResponse(k, FALSE) = Refused(k)
      /\ Accepted(k) \in DynPdu /\ Refused(k) \in DynPdu
  BY <1>2, DynKinds DEF CreateResponse, Accepted, Refused
<1>5. \/ /\ name \in FactoryNames \/ name \in parked
         /\ active' = With(active, k, name) /\ parked' = parked \ {name}
         /\ tcp' = Exchanges(tcp, "Client", Append(first, Accepted(k)))
      \/ /\ active' = Without(active, {k}) /\ parked' = parked
         /\ tcp' = Exchanges(tcp, "Client", Append(first, Refused(k)))
      \/ /\ active' = active /\ parked' = parked
         /\ tcp' = Exchanges(tcp, "Client", Append(first, Refused(k)))
  BY <1>4 DEF ClientCreate, FromTcp, HasProcessor, Starts, StartFails, channelVars
<1>6. sent' = sent
  BY DEF ClientCreate
<1>7. \A id \in Nat : V(id, C, S, DOMAIN active)
  BY DEF DynInv, DynViews
<1> HIDE DEF first, C, S, k, name
<1>8. S1 \in Seq(DynPdu) /\ \A id \in Nat : V(id, C, S1, DOMAIN active)
  <2>1. \A id \in Nat : Silent(first, id)
    BY <1>3, InertSilent, Zenon
  <2> QED BY <1>1, <1>3, <1>7, <2>1, ViewToServer, DynSent, Zenon
<1>9. /\ Append(first, Accepted(k)) \in Seq(DynPdu) /\ S \o Append(first, Accepted(k)) = S1 \o <<Accepted(k)>>
      /\ Append(first, Refused(k)) \in Seq(DynPdu) /\ S \o Append(first, Refused(k)) = S1 \o <<Refused(k)>>
  BY <1>1, <1>3, <1>4, DynAppended
<1> HIDE DEF S1
<1>10. k \notin DOMAIN active
  <2>1. Carries(C, Creations(k))
    BY <1>1, <1>2, DynTaken, Zenon
  <2> QED BY <1>2, <1>7, <2>1, Zenon DEF View
<1>11. \A id \in Nat : id # k => /\ Inert(Head(C), id) /\ Inert(Accepted(k), id) /\ Inert(Refused(k), id)
  BY <1>2, DynOther, Zenon
<1>12. ASSUME NEW act, act \ {k} = DOMAIN active, NEW m \in DynPdu, \A id \in Nat : id # k => Inert(m, id)
       PROVE  \A id \in Nat : id # k => V(id, Tail(C), S1 \o <<m>>, act)
  <2> SUFFICES ASSUME NEW id \in Nat, id # k PROVE V(id, Tail(C), S1 \o <<m>>, act)
    OBVIOUS
  <2>1. id \in DOMAIN active <=> id \in act
    BY <1>12
  <2>2. Inert(m, id) /\ Inert(Head(C), id) /\ V(id, C, S1, DOMAIN active)
    BY <1>8, <1>11, <1>12
  <2> QED BY <1>1, <1>2, <1>8, <2>1, <2>2, ViewsOfOthers, Zenon
<1>13. ASSUME active' = With(active, k, name), parked' = parked \ {name}, name \in FactoryNames \/ name \in parked,
              tcp' = Exchanges(tcp, "Client", Append(first, Accepted(k)))
       PROVE  DynInv'
  <2>1. tcp' \in DynTcp /\ tcp'["Client"] = Tail(C) /\ tcp'["Server"] = S1 \o <<Accepted(k)>>
    BY <1>1, <1>2, <1>9, <1>13, DynExchanged DEF C, S
  <2>2. active' = Opening(active, k, name)
    BY <1>13 DEF With, Opening
  <2>3. DOMAIN active' = DOMAIN active \cup {k}
    BY <2>2 DEF Opening
  <2>4. OnceKept(active', parked')
    <3>1. OnceNames \cap FactoryNames = {} /\ name \in FactoryNames \cup parked
      BY <1>13 DEF DynSizes
    <3>2. OnceKept(Opening(active, k, name), parked \ {name})
      BY <1>1, <1>10, <1>13, <3>1, OnceStarts, Zenon
    <3> QED BY <1>13, <2>2, <3>2, Zenon
  <2>5. V(k, Tail(C), S1 \o <<Accepted(k)>>, DOMAIN active \cup {k})
    BY <1>1, <1>2, <1>8, ViewAccepts, Zenon
  <2>6. \A id \in Nat : id # k => V(id, Tail(C), S1 \o <<Accepted(k)>>, DOMAIN active \cup {k})
    <3>1. (DOMAIN active \cup {k}) \ {k} = DOMAIN active
      BY <1>10
    <3> QED BY <1>4, <1>11, <1>12, <3>1
  <2>7. \A id \in Nat : V(id, tcp'["Client"], tcp'["Server"], DOMAIN active')
    BY <2>1, <2>3, <2>5, <2>6
  <2>8. DOMAIN active' \subseteq Nat /\ parked' \subseteq OnceNames
    BY <1>1, <1>2, <1>13, <2>3
  <2> QED BY <1>0, <1>6, <2>1, <2>4, <2>7, <2>8, DynClientStep
<1>14. ASSUME active' = Without(active, {k}) \/ active' = active, parked' = parked,
              tcp' = Exchanges(tcp, "Client", Append(first, Refused(k)))
       PROVE  DynInv'
  <2>1. tcp' \in DynTcp /\ tcp'["Client"] = Tail(C) /\ tcp'["Server"] = S1 \o <<Refused(k)>>
    BY <1>1, <1>2, <1>9, <1>14, DynExchanged DEF C, S
  <2>2. active' = [x \in DOMAIN active \ {k} |-> active[x]] \/ active' = active
    BY <1>14 DEF Without
  <2>3. DOMAIN active' = DOMAIN active
    BY <1>10, <2>2
  <2>4. OnceKept(active', parked')
    <3>1. OnceKept([x \in DOMAIN active \ {k} |-> active[x]], parked)
      BY <1>1, <1>10, OnceWithout, Zenon
    <3> QED BY <1>1, <1>14, <2>2, <3>1
  <2>5. V(k, Tail(C), S1 \o <<Refused(k)>>, DOMAIN active)
    BY <1>1, <1>2, <1>8, ViewRefuses, Zenon
  <2>6. \A id \in Nat : id # k => V(id, Tail(C), S1 \o <<Refused(k)>>, DOMAIN active)
    <3>1. DOMAIN active \ {k} = DOMAIN active
      BY <1>10
    <3> QED BY <1>4, <1>11, <1>12, <3>1
  <2>7. \A id \in Nat : V(id, tcp'["Client"], tcp'["Server"], DOMAIN active')
    BY <2>1, <2>3, <2>5, <2>6
  <2>8. DOMAIN active' \subseteq Nat /\ parked' \subseteq OnceNames
    BY <1>1, <1>14, <2>3
  <2> QED BY <1>0, <1>6, <2>1, <2>4, <2>7, <2>8, DynClientStep
<1> QED BY <1>5, <1>13, <1>14

\* process_close, and close_channel_batch on either route.
LEMMA DynClientCloses ==
  ASSUME DynInv, UNCHANGED serverVars,
         \/ ClientProcessClose
         \/ \E id \in Nat : (id \in tunnel_channels => "Client" \in TunneledCloses) /\ ClientClose(id)
  PROVE  DynInv'
<1> DEFINE C == tcp["Client"]
           S == tcp["Server"]
           act == DOMAIN active
           V(id, c, d, a) == View(id, c, d, a, DynState(id), next_channel_id)
<1>0. UNCHANGED <<channels, next_channel_id>>
  BY DEF serverVars
<1>1. /\ tcp \in DynTcp /\ next_channel_id \in Nat /\ C \in Seq(DynPdu) /\ S \in Seq(DynPdu)
      /\ act \subseteq Nat /\ parked \subseteq OnceNames /\ OnceKept(active, parked)
  BY DynPaths, DynInertOne DEF DynInv, DynTypes
<1>2. \A id \in Nat : V(id, C, S, act)
  BY DEF DynInv, DynViews
<1>3. ASSUME NEW k \in act, RemoveByChannelId(k)
      PROVE  /\ DOMAIN active' = act \ {k} /\ DOMAIN active' \subseteq Nat
             /\ parked' \subseteq OnceNames /\ OnceKept(active', parked')
  <2>1. /\ active' = [x \in DOMAIN active \ {k} |-> active[x]]
        /\ parked' = parked \cup ({active[k]} \cap OnceNames)
    BY <1>3 DEF RemoveByChannelId, Without
  <2>2. OnceKept(active', parked')
    BY <1>1, <2>1, OnceRemoved
  <2> QED BY <1>1, <2>1, <2>2
<1>4. ASSUME NEW k \in Nat
      PROVE  /\ Closing(k) \in DynPdu /\ <<Closing(k)>> \in Seq(DynPdu)
             /\ ClosePdu(k) = Closing(k) /\ \A id \in Nat : id # k => Inert(Closing(k), id)
  BY DynKinds, DynOther DEF ClosePdu, Closing
<1>5. \A k : \A id \in Nat : id # k => (id \in act <=> id \in act \ {k})
  OBVIOUS
<1>6. CASE ClientProcessClose
  <2> DEFINE k == Head(C).id
  <2>1. C # <<>> /\ k \in Nat /\ Head(C) = Closing(k)
    <3>1. C # <<>> /\ Head(C) \in DynPdu /\ Head(C).t = "Close"
      BY <1>6, DynTakes DEF ClientProcessClose
    <3> QED BY <3>1, DynForms
  <2>2. /\ sent' = sent
        /\ IF k \in act THEN RemoveByChannelId(k) /\ tcp' = Exchanges(tcp, "Client", <<ClosePdu(k)>>)
           ELSE active' = active /\ parked' = parked /\ tcp' = Exchanges(tcp, "Client", <<>>)
    BY <1>6 DEF ClientProcessClose, FromTcp, channelVars
  <2> HIDE DEF k
  <2>3. \A id \in Nat : id # k => Inert(Head(C), id)
    BY <1>4, <2>1
  <2>4. CASE k \in act
    <3>1. tcp' \in DynTcp /\ tcp'["Client"] = Tail(C) /\ tcp'["Server"] = S \o <<Closing(k)>>
      <4>1. tcp' = Exchanges(tcp, "Client", <<Closing(k)>>) /\ <<Closing(k)>> \in Seq(DynPdu)
        BY <1>4, <2>1, <2>2, <2>4
      <4> QED BY <1>1, <2>1, <4>1, DynExchanged
    <3> HIDE DEF C, S, act
    <3>2. V(k, Tail(C), S \o <<Closing(k)>>, act \ {k})
      BY <1>1, <1>2, <2>1, <2>4, ViewClosed, Zenon
    <3>3. \A id \in Nat : id # k => V(id, Tail(C), S \o <<Closing(k)>>, act \ {k})
      BY <1>1, <1>2, <1>4, <1>5, <2>1, <2>3, ViewsOfOthers, Zenon
    <3>4. \A id \in Nat : V(id, tcp'["Client"], tcp'["Server"], DOMAIN active')
      BY <1>3, <2>2, <2>4, <3>1, <3>2, <3>3
    <3> QED BY <1>0, <1>3, <2>2, <2>4, <3>1, <3>4, DynClientStep
  <2>5. CASE k \notin act
    <3>1. tcp' \in DynTcp /\ tcp'["Client"] = Tail(C) /\ tcp'["Server"] = S \o <<>> /\ S \o <<>> = S
      <4>1. tcp' = Exchanges(tcp, "Client", <<>>) /\ <<>> \in Seq(DynPdu) /\ S \o <<>> = S
        BY <1>1, <2>2, <2>5
      <4> QED BY <1>1, <2>1, <4>1, DynExchanged
    <3> HIDE DEF C, S, act
    <3>2. V(k, Tail(C), S, act)
      BY <1>1, <1>2, <2>1, <2>5, ViewUnknownClose, Zenon
    <3>3. \A id \in Nat : id # k => V(id, Tail(C), S, act)
      BY <1>1, <1>2, <2>1, <2>3, ViewTaken, Zenon
    <3>4. \A id \in Nat : V(id, tcp'["Client"], tcp'["Server"], DOMAIN active')
      BY <2>2, <2>5, <3>1, <3>2, <3>3 DEF act
    <3> QED BY <1>0, <1>1, <2>2, <2>5, <3>1, <3>4, DynClientStep DEF act
  <2> QED BY <2>4, <2>5
<1>7. ASSUME NEW k \in Nat, k \in tunnel_channels => "Client" \in TunneledCloses, ClientClose(k)
      PROVE  DynInv'
  <2>1. /\ k \in act /\ RemoveByChannelId(k) /\ sent' = sent
        /\ IF k \in tunnel_channels THEN tcp' = tcp ELSE tcp' = Sends(tcp, "Client", <<ClosePdu(k)>>)
    BY <1>7 DEF ClientClose
  <2>2. CASE k \in tunnel_channels
    <3> HIDE DEF C, S, act
    <3>1. V(k, C, S, act \ {k})
      BY <1>1, <1>2, <1>7, <2>1, <2>2, ViewClosesTunneled, Zenon
    <3>2. \A id \in Nat : id # k => V(id, C, S, act \ {k})
      <4>1. next_channel_id <= next_channel_id
        BY <1>1
      <4> QED BY <1>1, <1>2, <1>5, <4>1, ViewOfOther, Zenon
    <3>3. \A id \in Nat : V(id, tcp'["Client"], tcp'["Server"], DOMAIN active')
      BY <1>3, <2>1, <2>2, <3>1, <3>2 DEF C, S
    <3> QED BY <1>0, <1>1, <1>3, <2>1, <2>2, <3>3, DynClientStep
  <2>3. CASE k \notin tunnel_channels
    <3>1. tcp' \in DynTcp /\ tcp'["Client"] = C /\ tcp'["Server"] = S \o <<Closing(k)>>
      <4>1. tcp' = Sends(tcp, "Client", <<Closing(k)>>) /\ <<Closing(k)>> \in Seq(DynPdu)
        BY <1>4, <2>1, <2>3
      <4> QED BY <1>1, <4>1, DynPaths
    <3> HIDE DEF C, S, act
    <3>2. V(k, C, S \o <<Closing(k)>>, act \ {k})
      BY <1>1, <1>2, <2>1, ViewCloses, Zenon
    <3>3. \A id \in Nat : id # k => V(id, C, S \o <<Closing(k)>>, act \ {k})
      BY <1>1, <1>2, <1>4, <1>5, <1>7, ViewsOfOthers, Zenon
    <3>4. \A id \in Nat : V(id, tcp'["Client"], tcp'["Server"], DOMAIN active')
      BY <1>3, <2>1, <3>1, <3>2, <3>3
    <3> QED BY <1>0, <1>3, <2>1, <3>1, <3>4, DynClientStep
  <2> QED BY <2>2, <2>3
<1> QED BY <1>6, <1>7

\* A step of the server, which leaves the client's tables alone.
LEMMA DynServerStep ==
  ASSUME DynInv, UNCHANGED <<active, parked, sent>>, tcp' \in DynTcp, next_channel_id' \in Nat,
         DOMAIN channels' \subseteq Nat,
         \A id \in DOMAIN channels' : channels'[id] \in [name : Names, state : ChannelState],
         \A id \in Nat : View(id, tcp'["Client"], tcp'["Server"], DOMAIN active, DynState(id)', next_channel_id')
  PROVE  DynInv'
<1>1. DynViews'
  BY DEF DynViews, DynState
<1>2. DynTypes'
  BY DEF DynInv, DynTypes
<1> QED BY <1>1, <1>2 DEF DynInv

\* The server's table and the states it holds.
LEMMA DynTable ==
  ASSUME DynInv
  PROVE  /\ tcp \in DynTcp /\ tcp["Client"] \in Seq(DynPdu) /\ tcp["Server"] \in Seq(DynPdu)
         /\ next_channel_id \in Nat /\ DOMAIN channels \subseteq Nat
         /\ \A id \in DOMAIN channels : /\ channels[id] \in [name : Names, state : ChannelState]
                                        /\ channels[id].state # "Absent"
         /\ \A id \in Nat : View(id, tcp["Client"], tcp["Server"], DOMAIN active, DynState(id), next_channel_id)
<1>1. /\ tcp \in DynTcp /\ next_channel_id \in Nat /\ DOMAIN channels \subseteq Nat
      /\ \A id \in DOMAIN channels : channels[id] \in [name : Names, state : ChannelState]
  BY DEF DynInv, DynTypes
<1>2. \A id \in DOMAIN channels : channels[id].state # "Absent"
  BY <1>1 DEF ChannelState
<1>3. tcp["Client"] \in Seq(DynPdu) /\ tcp["Server"] \in Seq(DynPdu)
  BY <1>1, DynPaths, DynInertOne
<1> QED BY <1>1, <1>2, <1>3 DEF DynInv, DynViews

\* The Create arm of process: the answer to a creation.
LEMMA DynServerAnswered ==
  ASSUME DynInv, ServerCreateResponse, UNCHANGED clientVars
  PROVE  DynInv'
<1> DEFINE C == tcp["Client"]
           S == tcp["Server"]
           m == Head(S)
           k == m.id
           st2 == IF m.ok THEN "Opened" ELSE "CreationFailed"
           V(id, c, d, st) == View(id, c, d, DOMAIN active, st, next_channel_id)
<1>0. UNCHANGED <<active, parked>>
  BY DEF clientVars
<1>1. /\ tcp \in DynTcp /\ C \in Seq(DynPdu) /\ S \in Seq(DynPdu)
      /\ next_channel_id \in Nat /\ DOMAIN channels \subseteq Nat
      /\ \A id \in DOMAIN channels : /\ channels[id] \in [name : Names, state : ChannelState]
                                     /\ channels[id].state # "Absent"
      /\ \A id \in Nat : V(id, C, S, DynState(id))
  BY DynTable
<1>2. /\ S # <<>> /\ k \in Nat /\ (m = Accepted(k) \/ m = Refused(k))
      /\ \A id \in Nat : id # k => Inert(m, id)
  <2>1. S # <<>> /\ m \in DynPdu /\ m.t = "CreateResponse"
    BY DynTakes DEF ServerCreateResponse
  <2> QED BY <2>1, DynForms
<1>3. /\ tcp' = Exchanges(tcp, "Server", <<>>) /\ UNCHANGED <<sent, next_channel_id>>
      /\ \/ channels' = channels /\ DynState(k) # "Creation"
         \/ /\ channels' = [channels EXCEPT ![k].state = st2]
            /\ k \in DOMAIN channels /\ DynState(k) = "Creation"
  BY DEF ServerCreateResponse, ServerFails, ServerAnswers, FromClient, IsRetired,
         InState, DynState
<1>4. tcp' \in DynTcp /\ tcp'["Client"] = C /\ tcp'["Server"] = Tail(S)
  <2>1. C \o <<>> = C /\ <<>> \in Seq(DynPdu)
    BY <1>1
  <2> QED BY <1>1, <1>2, <1>3, <2>1, DynExchanged
<1> HIDE DEF C, S, m
<1>5. \A id \in Nat : id # k => V(id, C, Tail(S), DynState(id))
  BY <1>1, <1>2, ViewTakenAtServer, Zenon DEF m
<1>6. CASE channels' = channels /\ DynState(k) # "Creation"
  <2>1. m \in {Accepted(k), Refused(k)}
    BY <1>2
  <2>2. V(k, C, Tail(S), DynState(k))
    BY <1>1, <1>2, <1>6, <2>1, ViewUnasked, Zenon DEF m
  <2>3. \A id \in Nat : V(id, tcp'["Client"], tcp'["Server"], DynState(id)')
    BY <1>4, <1>5, <1>6, <2>2 DEF DynState
  <2> QED BY <1>0, <1>1, <1>3, <1>4, <1>6, <2>3, DynServerStep
<1>7. CASE /\ channels' = [channels EXCEPT ![k].state = st2]
           /\ k \in DOMAIN channels /\ DynState(k) = "Creation"
  <2>1. \/ m = Accepted(k) /\ st2 = "Opened"
        \/ m = Refused(k) /\ st2 = "CreationFailed"
    <3> HIDE DEF k
    <3>1. m = Accepted(k) => st2 = "Opened"
      BY SMT DEF Accepted
    <3>2. m = Refused(k) => st2 = "CreationFailed"
      BY SMT DEF Refused
    <3> HIDE DEF st2
    <3> QED BY <1>2, <3>1, <3>2, Zenon
  <2>2. V(k, C, Tail(S), st2)
    BY <1>1, <1>2, <1>7, <2>1, ViewAnswered, Zenon DEF m
  <2>3. st2 \in ChannelState
    BY DEF ChannelState
  <2> HIDE DEF st2
  <2>4. /\ DOMAIN channels' = DOMAIN channels
        /\ \A id \in DOMAIN channels : id # k => channels'[id] = channels[id]
        /\ channels'[k] = [channels[k] EXCEPT !.state = st2]
    BY <1>7
  <2>5. channels'[k] \in [name : Names, state : ChannelState] /\ channels'[k].state = st2
    BY <1>1, <1>7, <2>3, <2>4
  <2>6. \A id \in Nat : DynState(id)' = IF id = k THEN st2 ELSE DynState(id)
    BY <1>7, <2>4, <2>5 DEF DynState
  <2>7. \A id \in Nat : V(id, tcp'["Client"], tcp'["Server"], DynState(id)')
    BY <1>4, <1>5, <2>2, <2>6
  <2>8. \A id \in DOMAIN channels' : channels'[id] \in [name : Names, state : ChannelState]
    BY <1>1, <2>4, <2>5
  <2> QED BY <1>0, <1>1, <1>3, <1>4, <2>4, <2>7, <2>8, DynServerStep
<1> QED BY <1>3, <1>6, <1>7

\* The Close arm of process, and close_channel.
LEMMA DynServerCloses ==
  ASSUME DynInv, UNCHANGED clientVars,
         ServerProcessClose \/ \E id \in Nat : ServerClose(id)
  PROVE  DynInv'
<1> DEFINE C == tcp["Client"]
           S == tcp["Server"]
           V(id, c, d, st) == View(id, c, d, DOMAIN active, st, next_channel_id)
<1>0. UNCHANGED <<active, parked>>
  BY DEF clientVars
<1>1. /\ tcp \in DynTcp /\ C \in Seq(DynPdu) /\ S \in Seq(DynPdu)
      /\ next_channel_id \in Nat /\ DOMAIN channels \subseteq Nat
      /\ \A id \in DOMAIN channels : /\ channels[id] \in [name : Names, state : ChannelState]
                                     /\ channels[id].state # "Absent"
      /\ \A id \in Nat : V(id, C, S, DynState(id))
  BY DynTable
<1>2. ASSUME NEW k \in Nat
      PROVE  /\ Closing(k) \in DynPdu /\ <<Closing(k)>> \in Seq(DynPdu)
             /\ ClosePdu(k) = Closing(k) /\ \A id \in Nat : id # k => Inert(Closing(k), id)
  BY DynKinds, DynOther DEF ClosePdu, Closing
<1>3. ASSUME NEW k \in Nat, channels' = Dropping(k), UNCHANGED <<sent, next_channel_id>>, tcp' \in DynTcp,
             V(k, tcp'["Client"], tcp'["Server"], "Absent"),
             \A id \in Nat : id # k => V(id, tcp'["Client"], tcp'["Server"], DynState(id))
      PROVE  DynInv'
  <2>1. DOMAIN channels' = DOMAIN channels \ {k} /\ \A id \in DOMAIN channels' : channels'[id] = channels[id]
    BY <1>3 DEF Dropping
  <2>2. \A id \in Nat : DynState(id)' = IF id = k THEN "Absent" ELSE DynState(id)
    BY <2>1 DEF DynState
  <2>3. \A id \in Nat : V(id, tcp'["Client"], tcp'["Server"], DynState(id)')
    BY <1>3, <2>2
  <2>4. DOMAIN channels' \subseteq Nat
    BY <1>1, <2>1
  <2>5. \A id \in DOMAIN channels' : channels'[id] \in [name : Names, state : ChannelState]
    BY <1>1, <2>1
  <2> QED BY <1>0, <1>1, <1>3, <2>3, <2>4, <2>5, DynServerStep
<1>4. CASE ServerProcessClose
  <2> DEFINE k == Head(S).id
  <2>1. S # <<>> /\ k \in Nat /\ Head(S) = Closing(k) /\ \A id \in Nat : id # k => Inert(Head(S), id)
    <3>1. S # <<>> /\ Head(S) \in DynPdu /\ Head(S).t = "Close"
      BY <1>4, DynTakes DEF ServerProcessClose
    <3> QED BY <3>1, DynForms
  <2>2. /\ channels' = Dropping(k) /\ tcp' = Exchanges(tcp, "Server", <<>>)
        /\ UNCHANGED <<sent, next_channel_id>>
    BY <1>4 DEF ServerProcessClose, ServerAnswers, FromClient
  <2>3. tcp' \in DynTcp /\ tcp'["Client"] = C /\ tcp'["Server"] = Tail(S)
    <3>1. C \o <<>> = C /\ <<>> \in Seq(DynPdu)
      BY <1>1
    <3> QED BY <1>1, <2>1, <2>2, <3>1, DynExchanged
  <2> HIDE DEF C, S, k
  <2>4. V(k, C, Tail(S), "Absent")
    BY <1>1, <2>1, ViewDropped, Zenon
  <2>5. \A id \in Nat : id # k => V(id, C, Tail(S), DynState(id))
    BY <1>1, <2>1, ViewTakenAtServer, Zenon
  <2> QED BY <1>3, <2>1, <2>2, <2>3, <2>4, <2>5
<1>5. ASSUME NEW k \in Nat, ServerClose(k) PROVE DynInv'
  <2>1. /\ channels' = Dropping(k) /\ UNCHANGED <<sent, next_channel_id>> /\ DynState(k) = channels[k].state
        /\ tcp' = IF channels[k].state \in {"Pending", "CreationFailed"} THEN tcp
                  ELSE Sends(tcp, "Server", <<ClosePdu(k)>>)
    BY <1>5 DEF ServerClose, DynState
  <2>2. CASE channels[k].state \in {"Pending", "CreationFailed"}
    <3>1. tcp' = tcp
      BY <2>1, <2>2
    <3> HIDE DEF C, S
    <3>2. V(k, C, S, "Absent")
      BY <1>1, <2>1, <2>2, ViewWithdrawnUnseen, Zenon
    <3> QED BY <1>1, <1>3, <2>1, <3>1, <3>2 DEF C, S
  <2>3. CASE channels[k].state \notin {"Pending", "CreationFailed"}
    <3>1. tcp' \in DynTcp /\ tcp'["Client"] = C \o <<Closing(k)>> /\ tcp'["Server"] = S
      <4>1. tcp' = Sends(tcp, "Server", <<Closing(k)>>) /\ <<Closing(k)>> \in Seq(DynPdu)
        BY <1>2, <2>1, <2>3
      <4> QED BY <1>1, <4>1, DynPaths
    <3> HIDE DEF C, S
    <3>2. V(k, C \o <<Closing(k)>>, S, "Absent")
      BY <1>1, ViewWithdrawn, Zenon
    <3>3. \A id \in Nat : id # k => V(id, C \o <<Closing(k)>>, S, DynState(id))
      BY <1>1, <1>2, <1>5, ViewsOfOthers, Zenon
    <3> QED BY <1>3, <2>1, <3>1, <3>2, <3>3
  <2> QED BY <2>2, <2>3
<1> QED BY <1>4, <1>5

\* create_channel.
LEMMA DynServerCreates ==
  ASSUME DynInv, UNCHANGED clientVars, NEW name \in Names, ServerCreate(name)
  PROVE  DynInv'
<1> DEFINE C == tcp["Client"]
           S == tcp["Server"]
           k == next_channel_id
           m == Create(k, name)
           V(id, c, st, next) == View(id, c, S, DOMAIN active, st, next)
<1>0. UNCHANGED <<active, parked>>
  BY DEF clientVars
<1>1. /\ tcp \in DynTcp /\ C \in Seq(DynPdu) /\ S \in Seq(DynPdu) /\ k \in Nat /\ DOMAIN channels \subseteq Nat
      /\ \A id \in DOMAIN channels : channels[id] \in [name : Names, state : ChannelState]
      /\ \A id \in Nat : V(id, C, DynState(id), k)
  BY DynTable
<1>2. /\ tcp' = Sends(tcp, "Server", <<m>>) /\ next_channel_id' = k + 1 /\ sent' = sent
      /\ channels' = [id \in DOMAIN channels \cup {k} |->
                        IF id = k THEN [name |-> name, state |-> "Creation"] ELSE channels[id]]
  BY DEF ServerCreate
<1>3. m \in Creations(k) /\ m \in DynPdu
  BY <1>1 DEF Create, Creations, DynPdu
<1>4. k + 1 \in Nat /\ k <= k + 1 /\ k < k + 1 /\ k <= k
  BY <1>1
<1>5. /\ <<m>> \in Seq(DynPdu) /\ CarriesOnce(<<m>>, Creations(k))
      /\ \A id \in Nat : id # k => Inert(m, id) /\ ~Carries(<<m>>, Creations(id))
  <2>1. <<m>> \in Seq(DynPdu)
    BY <1>3
  <2>2. CarriesOnce(<<m>>, Creations(k)) /\ \A id : Carries(<<m>>, Creations(id)) <=> m \in Creations(id)
    BY <1>3, ShortCarries, Zenon
  <2>3. \A id \in Nat : id # k => Inert(m, id)
    BY <1>1, <1>3, DynOther, Zenon
  <2> QED BY <2>1, <2>2, <2>3 DEF Inert
<1>6. tcp' \in DynTcp /\ tcp'["Client"] = C \o <<m>> /\ tcp'["Server"] = S
  BY <1>1, <1>2, <1>5, DynPaths
<1> HIDE DEF C, S, k, m
<1>7. V(k, C \o <<m>>, "Creation", k + 1)
  BY <1>1, <1>4, <1>5, ViewAsks, Zenon
<1>8. \A id \in Nat : id # k => V(id, C \o <<m>>, DynState(id), k + 1)
  <2>1. \A id \in Nat : id # k => V(id, C \o <<m>>, DynState(id), k)
    BY <1>1, <1>5, ViewToClient, Zenon
  <2>2. C \o <<m>> \in Seq(DynPdu)
    BY <1>1, <1>3, DynSentOne, Zenon
  <2> QED BY <1>1, <1>4, <2>1, <2>2, ViewOfOther, Zenon
<1>9. /\ DOMAIN channels' = DOMAIN channels \cup {k}
      /\ channels'[k] = [name |-> name, state |-> "Creation"]
      /\ \A id \in DOMAIN channels : id # k => channels'[id] = channels[id]
  BY <1>2
<1>10. channels'[k] \in [name : Names, state : ChannelState] /\ channels'[k].state = "Creation"
  BY <1>9 DEF ChannelState
<1>11. \A id \in Nat : DynState(id)' = IF id = k THEN "Creation" ELSE DynState(id)
  BY <1>9, <1>10 DEF DynState
<1>12. \A id \in Nat : View(id, tcp'["Client"], tcp'["Server"], DOMAIN active, DynState(id)', next_channel_id')
  BY <1>2, <1>6, <1>7, <1>8, <1>11
<1>13. /\ DOMAIN channels' \subseteq Nat /\ next_channel_id' \in Nat
       /\ \A id \in DOMAIN channels' : channels'[id] \in [name : Names, state : ChannelState]
  BY <1>1, <1>2, <1>4, <1>9, <1>10
<1> QED BY <1>0, <1>2, <1>6, <1>12, <1>13, DynServerStep

\* The Capabilities arm of process: the creations of all pending channels.
LEMMA DynServerReady ==
  ASSUME DynInv, UNCHANGED clientVars, ServerCapabilities
  PROVE  DynInv'
<1> DEFINE C == tcp["Client"]
           S == tcp["Server"]
           pending == {id \in DOMAIN channels : channels[id].state = "Pending"}
           V(id, c, d, st) == View(id, c, d, DOMAIN active, st, next_channel_id)
<1>0. UNCHANGED <<active, parked>>
  BY DEF clientVars
<1>1. /\ tcp \in DynTcp /\ C \in Seq(DynPdu) /\ S \in Seq(DynPdu)
      /\ next_channel_id \in Nat /\ DOMAIN channels \subseteq Nat
      /\ \A id \in DOMAIN channels : /\ channels[id] \in [name : Names, state : ChannelState]
                                     /\ channels[id].state # "Absent"
      /\ \A id \in Nat : V(id, C, S, DynState(id))
  BY DynTable
<1>2. S # <<>> /\ \A id \in Nat : Inert(Head(S), id)
  BY DynTakesInert DEF ServerCapabilities
<1>3. PICK order \in Ascending(pending) :
        tcp' = Exchanges(tcp, "Server", [i \in DOMAIN order |-> Create(order[i], channels[order[i]].name)])
  BY DEF ServerCapabilities, ServerAnswers
<1>4. /\ UNCHANGED <<sent, next_channel_id>>
      /\ channels' = [id \in DOMAIN channels |->
                        IF id \in pending THEN [channels[id] EXCEPT !.state = "Creation"] ELSE channels[id]]
  BY DEF ServerCapabilities
<1> DEFINE s == [i \in DOMAIN order |-> Create(order[i], channels[order[i]].name)]
<1>5. PICK n \in Nat : /\ order \in [1 .. n -> pending]
                       /\ \A i, j \in 1 .. n : i < j => order[i] < order[j]
  BY DEF Ascending
<1>6. /\ s \in Seq(DynPdu) /\ Len(s) = n
      /\ \A i \in 1 .. n : s[i] \in Creations(order[i]) /\ order[i] \in pending /\ order[i] \in Nat
  <2>1. \A i \in 1 .. n : order[i] \in pending /\ order[i] \in Nat /\ channels[order[i]].name \in Names
    BY <1>1, <1>5
  <2>2. \A i \in 1 .. n : Create(order[i], channels[order[i]].name) \in Creations(order[i])
    BY <2>1 DEF Create, Creations
  <2>3. \A i \in 1 .. n : Create(order[i], channels[order[i]].name) \in DynPdu
    BY <2>1 DEF Create, DynPdu
  <2>4. s = [i \in 1 .. n |-> Create(order[i], channels[order[i]].name)]
    BY <1>5
  <2>5. s \in Seq(DynPdu) /\ Len(s) = n
    BY <1>5, <2>3, <2>4
  <2> QED BY <2>1, <2>2, <2>4, <2>5
<1>7. tcp' \in DynTcp /\ tcp'["Client"] = C \o s /\ tcp'["Server"] = Tail(S)
  BY <1>1, <1>2, <1>3, <1>6, DynExchanged
<1> HIDE DEF C, S, s, pending
<1>8. \A i \in 1 .. Len(s) : \A id \in Nat : s[i] \in Creations(id) => id = order[i]
  BY <1>6 DEF Creations
<1>9. \A id \in Nat : CarriesOnce(s, Creations(id)) /\ (id \notin pending => ~Carries(s, Creations(id)))
  <2> SUFFICES ASSUME NEW id \in Nat
               PROVE  CarriesOnce(s, Creations(id)) /\ (id \notin pending => ~Carries(s, Creations(id)))
    OBVIOUS
  <2>1. \A i, j \in 1 .. n : order[i] = order[j] => i = j
    BY <1>5, <1>6
  <2>2. CarriesOnce(s, Creations(id))
    BY <1>6, <1>8, <2>1 DEF CarriesOnce
  <2>3. id \notin pending => ~Carries(s, Creations(id))
    BY <1>6, <1>8 DEF Carries
  <2> QED BY <2>2, <2>3
<1>10. Tail(S) \in Seq(DynPdu) /\ \A id \in Nat : V(id, C, Tail(S), DynState(id))
  BY <1>1, <1>2, ViewTakenAtServer, DynTaken, Zenon
<1>11. \A id \in Nat : id \in pending =>
         DynState(id) = "Pending" /\ id < next_channel_id /\ next_channel_id <= next_channel_id
  <2>1. \A id \in Nat : id \in pending => DynState(id) = "Pending"
    BY DEF pending, DynState
  <2>2. \A id \in Nat : id \in pending => ~(next_channel_id <= id)
    BY <1>1, <2>1 DEF View
  <2> QED BY <1>1, <2>1, <2>2
<1>12. \A id \in Nat : id \in pending => V(id, C \o s, Tail(S), "Creation")
  BY <1>1, <1>6, <1>9, <1>10, <1>11, ViewAsks, Zenon
<1>13. \A id \in Nat : id \notin pending => V(id, C \o s, Tail(S), DynState(id))
  BY <1>1, <1>6, <1>9, <1>10, ViewToClient, Zenon
<1>14. /\ DOMAIN channels' = DOMAIN channels
       /\ \A id \in DOMAIN channels : /\ id \notin pending => channels'[id] = channels[id]
                                      /\ id \in pending => channels'[id] = [channels[id] EXCEPT !.state = "Creation"]
  BY <1>4
<1>15. \A id \in DOMAIN channels : /\ channels'[id] \in [name : Names, state : ChannelState]
                                   /\ id \in pending => channels'[id].state = "Creation"
  BY <1>1, <1>14 DEF ChannelState
<1>16. \A id \in Nat : DynState(id)' = IF id \in pending THEN "Creation" ELSE DynState(id)
  <2>1. pending \subseteq DOMAIN channels
    BY DEF pending
  <2> QED BY <1>14, <1>15, <2>1 DEF DynState
<1>17. \A id \in Nat : V(id, tcp'["Client"], tcp'["Server"], DynState(id)')
  BY <1>7, <1>12, <1>13, <1>16
<1> QED BY <1>0, <1>1, <1>4, <1>7, <1>14, <1>15, <1>17, DynServerStep

\* Every step keeps the invariant.
LEMMA DynStep ==
  ASSUME DynSizes, DynInv, [Next]_vars
  PROVE  DynInv'
<1>1. Ids \subseteq Nat 
  BY DEF DynSizes, Ids
<1>2. CASE ClientStep /\ UNCHANGED serverVars
  <2>1. CASE ClientProcess \/ ClientEnableTunnel
    BY <1>2, <2>1, DynClientInert, DynClientCreates, DynClientCloses DEF ClientProcess
  <2>2. ASSUME NEW id \in Ids, ClientSend(id) PROVE DynInv'
    <3>1. /\ SendsData("Client", id, id \in tunnel_channels)
          /\ UNCHANGED <<active, parked, channels, next_channel_id>>
      BY <1>2, <2>2 DEF ClientSend, clientVars, serverVars
    <3> QED BY <3>1, DynSends DEF DynEnds
  <2>3. CASE \E id \in Ids : (id \in tunnel_channels => "Client" \in TunneledCloses) /\ ClientClose(id)
    BY <1>1, <1>2, <2>3, DynClientCloses
  <2> QED BY <1>2, <2>1, <2>2, <2>3 DEF ClientStep
<1>3. CASE ServerStep /\ UNCHANGED clientVars
  <2>1. CASE ServerProcess
    BY <1>3, <2>1, DynServerInert, DynServerAnswered, DynServerCloses, DynServerReady DEF ServerProcess
  <2>2. CASE \E name \in Names : ServerCreate(name)
    BY <1>1, <1>3, <2>2, DynServerCreates
  <2>3. CASE \E ids \in SUBSET DOMAIN channels : ServerRequestReliableUdp(ids)
    BY <1>3, <2>3, DynServerInert
  <2>4. ASSUME NEW id \in Ids, ServerSend(id) PROVE DynInv'
    <3>1. /\ SendsData("Server", id, id \in outgoing_tunnel_channels)
          /\ UNCHANGED <<active, parked, channels, next_channel_id>>
      BY <1>3, <2>4 DEF ServerSend, clientVars, serverVars
    <3> QED BY <3>1, DynSends DEF DynEnds
  <2>5. CASE \E id \in Ids : /\ id \in outgoing_tunnel_channels => "Server" \in TunneledCloses
                             /\ ServerClose(id)
    BY <1>1, <1>3, <2>5, DynServerCloses
  <2> QED BY <1>3, <2>1, <2>2, <2>3, <2>4, <2>5 DEF ServerStep
<1>4. CASE UNCHANGED vars
  <2>1. UNCHANGED <<tcp, sent, active, parked, channels, next_channel_id>>
    BY <1>4 DEF vars, wireVars, clientVars, serverVars
  <2>2. sent' \in [DynEnds -> [Ids -> Nat]]
    BY <2>1 DEF DynInv, DynTypes
  <2> QED BY <2>1, <2>2, DynInertOne, DynInertStep
<1> QED BY <1>2, <1>3, <1>4 DEF Next

\* It holds at first: the registered channels are pending and only the
\* Capabilities Request is under way.
LEMMA DynStart ==
  ASSUME DynSizes, Init
  PROVE  DynInv
<1>1. /\ tcp = [e \in End |-> IF e = "Client" THEN <<Bare("Caps")>> ELSE <<>>]
      /\ sent = [e \in End |-> [id \in Ids |-> 0]]
      /\ active = <<>> /\ parked = OnceNames /\ next_channel_id = Len(Registered)
      /\ channels = [id \in 0 .. (Len(Registered) - 1) |-> [name |-> Registered[id + 1], state |-> "Pending"]]
  BY DEF Init, ServerInit, WireInit, ClientInit
<1>2. /\ tcp \in DynTcp /\ tcp["Client"] = <<Bare("Caps")>> /\ tcp["Server"] = <<>>
  <2>1. <<Bare("Caps")>> \in Seq(DynPdu) /\ <<>> \in Seq(DynPdu)
    BY DynBare, DynInertOne
  <2> QED BY <1>1, <2>1 DEF DynTcp, DynEnds, End
<1>3. sent \in [DynEnds -> [Ids -> Nat]]
  BY <1>1 DEF DynEnds, End
<1>4. Len(Registered) \in Nat /\ DOMAIN active = {}
  BY <1>1 DEF DynSizes
<1>5. DOMAIN channels = 0 .. (Len(Registered) - 1)
  BY <1>1
<1>6. \A id \in DOMAIN channels : /\ channels[id] \in [name : Names, state : ChannelState]
                                  /\ channels[id].state = "Pending"
  <2> SUFFICES ASSUME NEW id \in DOMAIN channels
               PROVE  /\ channels[id] \in [name : Names, state : ChannelState]
                      /\ channels[id].state = "Pending"
    OBVIOUS
  <2>1. id + 1 \in 1 .. Len(Registered)
    BY <1>4, <1>5
  <2>2. Registered[id + 1] \in Names
    BY <2>1 DEF DynSizes
  <2>3. channels[id] = [name |-> Registered[id + 1], state |-> "Pending"]
    BY <1>1, <1>5
  <2> QED BY <2>2, <2>3 DEF ChannelState
<1>7. DynTypes
  <2>1. DOMAIN channels \subseteq Nat
    BY <1>4, <1>5
  <2> QED BY <1>1, <1>2, <1>3, <1>4, <1>6, <2>1 DEF DynTypes
<1>8. DynViews
  <2> SUFFICES ASSUME NEW id \in Nat
               PROVE  View(id, tcp["Client"], tcp["Server"], DOMAIN active, DynState(id), next_channel_id)
    BY DEF DynViews
  <2>1. ~Carries(tcp["Client"], Creations(id)) /\ CarriesOnce(tcp["Client"], Creations(id))
    <3>1. AllInert(<<Bare("Caps")>>)
      BY DynBare
    <3>2. ~Carries(tcp["Client"], Creations(id))
      BY <1>2, <3>1, InertSilent, Zenon DEF Silent
    <3> QED BY <3>2 DEF Carries, CarriesOnce
  <2>2. \A A : ~Carries(tcp["Server"], A)
    BY <1>2 DEF Carries
  <2>3. DynState(id) = "Pending" \/ DynState(id) = "Absent"
    BY <1>6 DEF DynState
  <2>4. next_channel_id <= id => DynState(id) = "Absent"
    BY <1>1, <1>4, <1>5 DEF DynState
  <2> QED BY <1>4, <2>1, <2>2, <2>3, <2>4 DEF View
<1>9. OnceKept(active, parked)
  BY <1>1, <1>4 DEF OnceKept, Serving
<1> QED BY <1>4, <1>7, <1>8, <1>9 DEF DynInv

\* Once nothing is under way the server's opened channels are the client's.
LEMMA DynAgree ==
  ASSUME DynInv, "Client" \notin TunneledCloses
  PROVE  ViewsAgree
<1> SUFFICES ASSUME Quiet
             PROVE  {id \in DOMAIN channels : channels[id].state = "Opened"} = DOMAIN active
  BY DEF ViewsAgree
<1>1. tcp["Client"] = <<>> /\ tcp["Server"] = <<>>
  BY DEF Quiet, End
<1>2. \A A : ~Carries(tcp["Client"], A) /\ ~Carries(tcp["Server"], A)
  BY <1>1 DEF Carries
<1>3. \A id \in Nat : DynState(id) = "Opened" <=> id \in DOMAIN active
  <2> SUFFICES ASSUME NEW id \in Nat PROVE DynState(id) = "Opened" <=> id \in DOMAIN active
    OBVIOUS
  <2>1. View(id, tcp["Client"], tcp["Server"], DOMAIN active, DynState(id), next_channel_id)
    BY DynTable
  <2> QED BY <1>2, <2>1 DEF View
<1>4. DOMAIN active \subseteq Nat /\ DOMAIN channels \subseteq Nat
  BY DEF DynInv, DynTypes
<1>5. \A id \in Nat : DynState(id) = "Opened" <=> id \in DOMAIN channels /\ channels[id].state = "Opened"
  BY DEF DynState
<1> QED BY <1>3, <1>4, <1>5

\* For any channels, names and limits, the processor of a channel registered
\* once is parked or serves exactly one channel, wherever either end closes
\* (try_create_channel, remove_by_channel_id).
THEOREM DynOnceKept == Spec => []OnceProcessorKept
<1>1. Init => DynInv
  BY DynStart, DynSizesHold
<1>2. DynInv /\ [Next]_vars => DynInv'
  BY DynStep, DynSizesHold
<1>3. DynInv => OnceProcessorKept
  BY DEF DynInv, OnceKept, Serving, OnceProcessorKept
<1> QED BY <1>1, <1>2, <1>3, PTL DEF Spec

\* For any channels, names and limits, when nothing is under way both ends have
\* the same channels open, if the client closes no channel over the tunnel,
\* where the server refuses it (process_create, process_close, close_channel).
THEOREM DynViewsAgree ==
  ASSUME "Client" \notin TunneledCloses
  PROVE  Spec => []ViewsAgree
<1>1. Init => DynInv
  BY DynStart, DynSizesHold
<1>2. DynInv /\ [Next]_vars => DynInv'
  BY DynStep, DynSizesHold
<1>3. DynInv => ViewsAgree
  BY DynAgree
<1> QED BY <1>1, <1>2, <1>3, PTL DEF Spec
=============================================================================
