----------------------- MODULE RdpeudpHandshakeProofs -----------------------
(***************************************************************************)
(* The safety properties of RdpeudpHandshake for every retransmission      *)
(* limit, every MTU, every version offered, any queue length and any       *)
(* number of losses and repetitions.                                       *)
(*                                                                         *)
(* None of the properties is inductive.  The strengthening says where each *)
(* datagram comes from (Justified), wherever it is: in the network, queued *)
(* or kept for retransmission.                                             *)
(***************************************************************************)
EXTENDS RdpeudpHandshake, TLAPS

USE ZenonT(5), SMTT(40)

-----------------------------------------------------------------------------
(* The inductive invariant *)

\* What accept settles on, and handle_syn_ack is told.
Settled == [version |-> Negotiate(offer_version), mtu |-> NegotiatedMtu]

TypeInv ==
  /\ offer_version \in OfferVersions /\ cookie_matches \in BOOLEAN
  /\ state \in [Side -> {"Listen", "SynSent", "SynReceived", "Established", "Closed"}]
  /\ state["Client"] \notin {"Listen", "SynReceived"} /\ state["Server"] # "SynSent"
  /\ params \in [Side -> {NoParams, Settled}]
  /\ outbox \in [Side -> Seq(Datagrams)]
  /\ handshake_datagram \in [Side -> Datagrams \cup {NoDatagram}]
  /\ handshake_retransmits \in [Side -> Nat]
  /\ timers \in [Side -> SUBSET Timer]
  /\ events \in [Side -> Seq({"Connected", "ConnectionClosed"})]
  /\ copies \in [Side -> Nat] /\ sampled \in [Side -> Nat]
  /\ network \in SUBSET Datagrams

\* How a datagram can have come about.
Justified(m) ==
  \/ m = Syn
  \/ m \in {FinalAck, Datagram("Client", "Data", NoVersion)} /\ Connected("Client")
  \/ m = SynAck(Negotiate(offer_version)) /\ state["Server"] # "Listen"
  \/ m = Datagram("Server", "Data", NoVersion)

Provenance ==
  /\ \A m \in network : Justified(m)
  /\ \A p \in Side : \A i \in DOMAIN outbox[p] : Justified(outbox[p][i]) /\ outbox[p][i].src = p
  /\ \A p \in Side : handshake_datagram[p] # NoDatagram =>
       Justified(handshake_datagram[p]) /\ handshake_datagram[p].src = p

Agreed ==
  /\ state["Server"] # "Listen" => params["Server"] = Settled
  /\ Connected("Client") => params["Client"] = Settled /\ state["Server"] # "Listen"
  /\ state["Client"] = "Established" => Connected("Client")
  /\ Connected("Server") => Connected("Client")
  /\ state["Server"] = "Listen" => outbox["Server"] = <<>>

Timed ==
  /\ WaitingIsTimed
  /\ \A p \in Side : state[p] \in {"Closed", "Listen"} => timers[p] = {}

\* Every copy of the SYN is sent or queued, one at first and one for every
\* retransmission counted.
Counted ==
  /\ state["Client"] = "SynSent" =>
       copies["Client"] + Len(outbox["Client"]) <= 1 + handshake_retransmits["Client"]
  /\ sampled["Client"] <= 1

Inv == TypeInv /\ Provenance /\ Agreed /\ Timed /\ Counted

-----------------------------------------------------------------------------
(* Lemmas *)

LEMMA SideProperty ==
  /\ Side = {"Client", "Server"}
  /\ Peer("Client") = "Server" /\ Peer("Server") = "Client"
BY DEF Side, Peer

\* The version settled on is one the client offered, and MS-RDPEUDP2 needs the cookie.
LEMMA NegotiateProperty ==
  ASSUME offer_version \in OfferVersions, cookie_matches \in BOOLEAN
  PROVE  /\ Negotiate(offer_version) \in Version
         /\ Negotiate(offer_version) \in 1 .. offer_version
         /\ UsesV2WireFormat(Negotiate(offer_version)) => cookie_matches
BY HandshakeAssumption, SMTT(40) DEF Negotiate, Version, UsesV2WireFormat

\* The datagrams the two sides make.
LEMMA DatagramProperty ==
  ASSUME offer_version \in OfferVersions, cookie_matches \in BOOLEAN
  PROVE  /\ Syn \in Datagrams /\ Syn.src = "Client" /\ Syn.kind = "Syn"
         /\ Syn.version = offer_version
         /\ FinalAck \in Datagrams /\ FinalAck.src = "Client" /\ FinalAck.kind = "Ack"
         /\ LET s == SynAck(Negotiate(offer_version))
            IN  s \in Datagrams /\ s.src = "Server" /\ s.kind = "SynAck"
                /\ s.version = Negotiate(offer_version)
         /\ \A p \in Side : LET d == Datagram(p, "Data", NoVersion)
                            IN  d \in Datagrams /\ d.src = p /\ d.kind = "Data"
         /\ NoDatagram.kind = "none" /\ NoDatagram \notin Datagrams
<1>1. Negotiate(offer_version) \in Version /\ offer_version \in Version
  BY NegotiateProperty, HandshakeAssumption
<1>. QED  BY <1>1 DEF Syn, FinalAck, SynAck, Datagram, Datagrams, NoDatagram, Side, NoVersion

\* The smaller of two numbers.
LEMMA MinProperty ==
  ASSUME NEW a \in Nat, NEW b \in Nat
  PROVE  Min({a, b}) \in Nat /\ Min({a, b}) <= a
<1>1. \E x \in {a, b} : \A y \in {a, b} : x <= y
  <2>1. CASE a <= b
    BY <2>1, SMTT(40)
  <2>2. CASE b <= a
    BY <2>2, SMTT(40)
  <2>. QED  BY <2>1, <2>2, SMTT(40)
<1>2. Min({a, b}) \in {a, b} /\ \A y \in {a, b} : Min({a, b}) <= y
  BY <1>1 DEF Min
<1>. QED  BY <1>2

\* What a queue holds after a datagram is added or taken.
LEMMA QueueProperty ==
  ASSUME NEW S, NEW s \in Seq(S), NEW x \in S
  PROVE  /\ Append(s, x) \in Seq(S) /\ Len(Append(s, x)) = Len(s) + 1
         /\ \A i \in DOMAIN Append(s, x) :
              (i \in DOMAIN s /\ Append(s, x)[i] = s[i]) \/ Append(s, x)[i] = x
         /\ \A i \in DOMAIN s : i \in DOMAIN Append(s, x) /\ Append(s, x)[i] = s[i]
         /\ \E i \in DOMAIN Append(s, x) : Append(s, x)[i] = x
         /\ s # <<>> =>
              /\ 1 \in DOMAIN s /\ Head(s) = s[1] /\ Head(s) \in S
              /\ Tail(s) \in Seq(S) /\ Len(Tail(s)) = Len(s) - 1
              /\ \A i \in DOMAIN Tail(s) : i + 1 \in DOMAIN s /\ Tail(s)[i] = s[i + 1]
<1>1. Len(s) + 1 \in DOMAIN Append(s, x) /\ Append(s, x)[Len(s) + 1] = x
  BY SMTT(40)
<1>. QED  BY <1>1, SMTT(40)

\* An event raised stays raised, and only the other two may be added.
LEMMA EventProperty ==
  ASSUME TypeInv, NEW p \in Side, NEW e \in {"Connected", "ConnectionClosed"},
         events' = [events EXCEPT ![p] = Append(@, e)]
  PROVE  /\ events' \in [Side -> Seq({"Connected", "ConnectionClosed"})]
         /\ \A q \in Side : Connected(q)' <=> (Connected(q) \/ (q = p /\ e = "Connected"))
<1>1. /\ events \in [Side -> Seq({"Connected", "ConnectionClosed"})]
      /\ events[p] \in Seq({"Connected", "ConnectionClosed"})
  BY DEF TypeInv
<1>2. events'[p] = Append(events[p], e) /\ \A q \in Side : q # p => events'[q] = events[q]
  BY <1>1
<1>3. events' \in [Side -> Seq({"Connected", "ConnectionClosed"})]
  BY <1>1, SMTT(40)
<1>4. Connected(p)' <=> (Connected(p) \/ e = "Connected")
  BY <1>1, <1>2, QueueProperty, SMTT(40) DEF Connected
<1>. QED  BY <1>2, <1>3, <1>4 DEF Connected
\* A datagram that had a reason to exist goes on having it.
LEMMA JustifiedPersists ==
  ASSUME NEW m, Justified(m), UNCHANGED <<offer_version, cookie_matches>>,
         Connected("Client") => Connected("Client")',
         state["Server"] # "Listen" => state'["Server"] # "Listen"
  PROVE  Justified(m)'
<1>1. Syn' = Syn /\ Negotiate(offer_version)' = Negotiate(offer_version)
  BY DEF Syn, Negotiate
<1>. QED  BY <1>1 DEF Justified

\* Provenance is kept by a step after which every datagram was there before
\* or is justified.
LEMMA ProvenanceStep ==
  ASSUME TypeInv, Provenance, UNCHANGED <<offer_version, cookie_matches>>,
         Connected("Client") => Connected("Client")',
         state["Server"] # "Listen" => state'["Server"] # "Listen",
         \A m \in network' : m \in network \/ Justified(m)',
         \A p \in Side : \A i \in DOMAIN outbox'[p] :
           \/ \E j \in DOMAIN outbox[p] : outbox'[p][i] = outbox[p][j]
           \/ Justified(outbox[p][i])' /\ outbox'[p][i].src = p,
         \A p \in Side :
           \/ handshake_datagram'[p] \in {handshake_datagram[p], NoDatagram}
           \/ Justified(handshake_datagram[p])' /\ handshake_datagram'[p].src = p
  PROVE  Provenance'
<1>1. \A m \in network' : Justified(m)'
  BY JustifiedPersists DEF Provenance
<1>2. ASSUME NEW p \in Side, NEW i \in DOMAIN outbox'[p]
      PROVE  Justified(outbox[p][i])' /\ outbox'[p][i].src = p
  BY <1>2, JustifiedPersists, SMTT(40) DEF Provenance
<1>3. ASSUME NEW p \in Side, handshake_datagram'[p] # NoDatagram
      PROVE  Justified(handshake_datagram[p])' /\ handshake_datagram'[p].src = p
  BY <1>3, JustifiedPersists DEF Provenance
<1>. QED  BY <1>1, <1>2, <1>3 DEF Provenance

\* The properties follow from the invariant.
LEMMA Consequences ==
  ASSUME Inv
  PROVE  ClientConnectsFirst /\ SidesAgree /\ WaitingIsTimed /\ ClientSampleUnambiguous
<1>1. ClientConnectsFirst /\ WaitingIsTimed /\ ClientSampleUnambiguous
  BY DEF Inv, Agreed, Timed, Counted, ClientConnectsFirst, ClientSampleUnambiguous
<1>2. SidesAgree
  BY NegotiateProperty, SMTT(40) DEF Inv, TypeInv, Agreed, SidesAgree, Settled
<1>. QED  BY <1>1, <1>2

\* connect and a listening server.
LEMMA InitialState ==
  ASSUME Init
  PROVE  Inv
<1>1. offer_version \in OfferVersions /\ cookie_matches \in BOOLEAN
  BY DEF Init
<1>2. Syn \in Datagrams /\ Syn.src = "Client"
  BY <1>1, DatagramProperty
<1>3. ~Connected("Client") /\ ~Connected("Server")
  BY SideProperty, SMTT(40) DEF Init, Connected
<1>4. TypeInv
  <2>1. <<Syn>> \in Seq(Datagrams) /\ <<>> \in Seq(Datagrams)
    BY <1>2, SMTT(40)
  <2>2. <<>> \in Seq({"Connected", "ConnectionClosed"})
    BY SMTT(40)
  <2>. QED  BY <2>1, <2>2, <1>2 DEF Init, TypeInv, Side, Timer
<1>5. Provenance
  BY <1>2, SMTT(40) DEF Init, Provenance, Justified, Side
<1>6. Agreed /\ Timed
  BY <1>2, <1>3, <1>1, DatagramProperty DEF Init, Agreed, Timed, WaitingIsTimed, Handshaking, Side
<1>7. Counted
  BY SideProperty, SMTT(40) DEF Init, Counted
<1>. QED  BY <1>4, <1>5, <1>6, <1>7 DEF Inv

-----------------------------------------------------------------------------
(* poll_transmit *)

\* Sending a queued handshake datagram.
LEMMA PollHandshakeStep ==
  ASSUME Inv, NEW p \in Side, PollHandshake(p)
  PROVE  Inv'
<1> USE DEF Inv
<1>1. /\ outbox[p] \in Seq(Datagrams) /\ outbox[p] # <<>>
      /\ Head(outbox[p]) \in Datagrams /\ Tail(outbox[p]) \in Seq(Datagrams)
      /\ Len(Tail(outbox[p])) = Len(outbox[p]) - 1 /\ Len(outbox[p]) \in Nat
  BY QueueProperty, SMTT(40) DEF PollHandshake, TypeInv
<1>2. Justified(Head(outbox[p]))
  BY <1>1, QueueProperty, SMTT(40) DEF Provenance
<1>3. /\ UNCHANGED <<offer_version, cookie_matches, state, params, handshake_datagram,
                     handshake_retransmits, events, sampled>>
      /\ network' = network \cup {Head(outbox[p])}
      /\ timers' = [timers EXCEPT ![p] = @ \cup {"KeepAlive"}]
      /\ outbox' = [outbox EXCEPT ![p] = Tail(@)]
      /\ state[p] # "Closed"
  BY DEF PollHandshake, Transmit, config
<1>4. \A q \in Side : Connected(q)' <=> Connected(q)
  BY <1>3 DEF Connected
<1>5. copies'["Client"] \in Nat /\ copies'["Client"] <= copies["Client"] + 1
      /\ (p # "Client" => copies'["Client"] = copies["Client"])
      /\ copies' \in [Side -> Nat]
  <2>1. copies \in [Side -> Nat] /\ copies[p] + 1 \in Nat /\ MaxCopies \in Nat
    BY HandshakeAssumption, SMTT(40) DEF TypeInv, MaxCopies
  <2>2. Min({copies[p] + 1, MaxCopies}) \in Nat /\ Min({copies[p] + 1, MaxCopies}) <= copies[p] + 1
    BY <2>1, MinProperty
  <2>. QED  BY <2>1, <2>2, SideProperty, SMTT(40) DEF PollHandshake
<1>6. TypeInv'
  BY <1>1, <1>3, <1>5 DEF TypeInv, Timer, Settled, Negotiate
<1>7. Provenance'
  <2>1. \A m \in network' : m \in network \/ Justified(m)'
    BY <1>2, <1>3, <1>4, SideProperty, JustifiedPersists
  <2>2. \A q \in Side : \A i \in DOMAIN outbox'[q] :
          \E j \in DOMAIN outbox[q] : outbox'[q][i] = outbox[q][j]
    BY <1>1, <1>3, QueueProperty, SMTT(40) DEF TypeInv
  <2>. QED  BY <2>1, <2>2, <1>3, <1>4, SideProperty, ProvenanceStep
<1>8. Agreed'
  BY <1>1, <1>3, <1>4, SideProperty DEF Agreed, Settled, Negotiate, TypeInv
<1>9. Timed'
  <2>1. state[p] # "Listen"
    BY <1>1, SideProperty DEF Agreed, TypeInv
  <2>. QED  BY <1>3, <2>1 DEF Timed, WaitingIsTimed, Handshaking, TypeInv
<1>10. Counted'
  BY <1>1, <1>3, <1>5, SideProperty, SMTT(40) DEF Counted, TypeInv
<1>. QED  BY <1>6, <1>7, <1>8, <1>9, <1>10
\* Sending data, which only an established side does.
LEMMA PollDataStep ==
  ASSUME Inv, NEW p \in Side, PollData(p)
  PROVE  Inv'
<1> USE DEF Inv
<1>1. /\ UNCHANGED <<offer_version, cookie_matches, state, params, outbox, handshake_datagram,
                     handshake_retransmits, events, copies, sampled>>
      /\ network' = network \cup {Datagram(p, "Data", NoVersion)}
      /\ timers' = [timers EXCEPT ![p] = @ \cup {"KeepAlive"}]
      /\ state[p] = "Established"
  BY DEF PollData, Transmit, config
<1>2. \A q \in Side : Connected(q)' <=> Connected(q)
  BY <1>1 DEF Connected
<1>3. Datagram(p, "Data", NoVersion) \in Datagrams
  BY DatagramProperty DEF TypeInv
<1>4. TypeInv'
  BY <1>1, <1>3 DEF TypeInv, Timer, Settled, Negotiate
<1>5. Provenance'
  <2>1. Justified(Datagram(p, "Data", NoVersion))
    BY <1>1, SideProperty DEF Justified, Agreed
  <2>2. \A m \in network' : m \in network \/ Justified(m)'
    BY <2>1, <1>1, <1>2, SideProperty, JustifiedPersists
  <2>. QED  BY <2>2, <1>1, <1>2, SideProperty, ProvenanceStep
<1>6. Agreed'
  BY <1>1, <1>2, SideProperty DEF Agreed, Settled, Negotiate
<1>7. Timed' /\ Counted'
  BY <1>1 DEF Timed, WaitingIsTimed, Handshaking, Counted, TypeInv
<1>. QED  BY <1>4, <1>5, <1>6, <1>7

-----------------------------------------------------------------------------
(* handle_datagram *)

\* The version a SYN+ACK carries is the one settled on.
LEMMA SynAckProperty ==
  ASSUME Inv, NEW m, Justified(m), m.kind = "SynAck"
  PROVE  m.version = Negotiate(offer_version) /\ state["Server"] # "Listen"
BY DatagramProperty, SideProperty DEF Inv, TypeInv, Justified

\* A server is created from a SYN.
LEMMA AcceptStep ==
  ASSUME Inv, NEW m \in network, Accept(m), network' \subseteq network
  PROVE  Inv'
<1> USE DEF Inv
<1> DEFINE s == SynAck(Negotiate(offer_version))
<1>1. Justified(m) /\ m.kind = "Syn"
  BY DEF Provenance, Accept
<1>2. m.version = offer_version
  BY <1>1, DatagramProperty, SideProperty DEF TypeInv, Justified
<1>3. /\ UNCHANGED <<offer_version, cookie_matches, events, sampled>>
      /\ state["Server"] = "Listen" /\ state' = [state EXCEPT !["Server"] = "SynReceived"]
      /\ params' = [params EXCEPT !["Server"] = Settled]
      /\ outbox' = [outbox EXCEPT !["Server"] = Append(@, s)]
      /\ handshake_datagram' = [handshake_datagram EXCEPT !["Server"] = s]
      /\ handshake_retransmits' = [handshake_retransmits EXCEPT !["Server"] = 0]
      /\ copies' = [copies EXCEPT !["Server"] = 0]
      /\ timers' = [timers EXCEPT !["Server"] = {"Retransmit", "Idle"}]
  BY <1>2 DEF Accept, EnqueueHandshake, config, Settled
<1>4. s \in Datagrams /\ s.src = "Server" /\ s # NoDatagram
  BY DatagramProperty DEF TypeInv
<1>5. \A q \in Side : Connected(q)' <=> Connected(q)
  BY <1>3 DEF Connected
<1>6. outbox["Server"] \in Seq(Datagrams) /\ Append(outbox["Server"], s) \in Seq(Datagrams)
  BY <1>4, SideProperty, QueueProperty, SMTT(40) DEF TypeInv
<1>7. TypeInv'
  <2> HIDE DEF s
  <2>. QED  BY <1>3, <1>4, <1>6, SideProperty DEF TypeInv, Timer, Settled, Negotiate
<1>8. \A x : x = s => Justified(x)'
  <2>1. state'["Server"] # "Listen" /\ Negotiate(offer_version)' = Negotiate(offer_version)
    BY <1>3, SideProperty DEF TypeInv, Negotiate
  <2>. QED  BY <2>1 DEF Justified
<1>9. Provenance'
  <2> HIDE DEF s
  <2>1. state'["Server"] # "Listen"
    BY <1>3, SideProperty DEF TypeInv
  <2>2. ASSUME NEW q \in Side, NEW i \in DOMAIN outbox'[q]
        PROVE  \/ \E j \in DOMAIN outbox[q] : outbox'[q][i] = outbox[q][j]
               \/ Justified(outbox[q][i])' /\ outbox'[q][i].src = q
    <3>1. CASE q = "Server"
      <4>1. outbox'[q] = Append(outbox[q], s)
        BY <1>3, <3>1, SideProperty DEF TypeInv
      <4>2. (i \in DOMAIN outbox[q] /\ outbox'[q][i] = outbox[q][i]) \/ outbox'[q][i] = s
        BY <4>1, <3>1, <1>4, <1>6, QueueProperty, SMTT(40)
      <4>. QED  BY <4>2, <3>1, <1>4, <1>8
    <3>2. CASE q # "Server"
      BY <1>3, <3>2, SideProperty DEF TypeInv
    <3>. QED  BY <3>1, <3>2
  <2>3. ASSUME NEW q \in Side
        PROVE  \/ handshake_datagram'[q] \in {handshake_datagram[q], NoDatagram}
               \/ Justified(handshake_datagram[q])' /\ handshake_datagram'[q].src = q
    <3>1. q = "Server" => handshake_datagram'[q] = s
      BY <1>3, SideProperty DEF TypeInv
    <3>2. q # "Server" => handshake_datagram'[q] = handshake_datagram[q]
      BY <1>3, SideProperty DEF TypeInv
    <3>. QED  BY <3>1, <3>2, <1>4, <1>8
  <2>. QED  BY <2>1, <2>2, <2>3, <1>3, <1>5, SideProperty, ProvenanceStep
<1>10. Agreed'
  BY <1>3, <1>5, SideProperty DEF Agreed, Settled, Negotiate, TypeInv
<1>11. Timed'
  <2> HIDE DEF s
  <2>. QED  BY <1>3, <1>4, SideProperty DEF Timed, WaitingIsTimed, Handshaking, TypeInv
<1>12. Counted'
  <2> HIDE DEF s
  <2>. QED  BY <1>3, SideProperty DEF Counted, TypeInv
<1>. QED  BY <1>7, <1>9, <1>10, <1>11, <1>12

\* The client takes the SYN+ACK.
LEMMA HandleSynAckStep ==
  ASSUME Inv, NEW m \in network, HandleSynAck(m), network' \subseteq network
  PROVE  Inv'
<1> USE DEF Inv
<1>1. Justified(m) /\ m.kind = "SynAck"
  BY DEF Provenance, HandleSynAck
<1>2. m.version = Negotiate(offer_version) /\ state["Server"] # "Listen"
  BY <1>1, SynAckProperty
<1>3. /\ UNCHANGED <<offer_version, cookie_matches>>
      /\ state["Client"] = "SynSent" /\ state' = [state EXCEPT !["Client"] = "Established"]
      /\ params' = [params EXCEPT !["Client"] = Settled]
      /\ outbox' = [outbox EXCEPT !["Client"] = Append(@, FinalAck)]
      /\ handshake_datagram' = [handshake_datagram EXCEPT !["Client"] = FinalAck]
      /\ handshake_retransmits' = [handshake_retransmits EXCEPT !["Client"] = 0]
      /\ copies' = [copies EXCEPT !["Client"] = 0]
      /\ timers' = [timers EXCEPT !["Client"] = (@ \ {"Retransmit"}) \cup {"Idle", "KeepAlive"}]
      /\ events' = [events EXCEPT !["Client"] = Append(@, "Connected")]
  BY <1>2 DEF HandleSynAck, EnqueueHandshake, Establish, config, Settled
<1>4. FinalAck \in Datagrams /\ FinalAck.src = "Client" /\ FinalAck # NoDatagram
  BY DatagramProperty DEF TypeInv
<1>5. /\ events' \in [Side -> Seq({"Connected", "ConnectionClosed"})]
      /\ Connected("Client")' /\ (Connected("Server")' <=> Connected("Server"))
  BY <1>3, SideProperty, EventProperty
<1>6. outbox["Client"] \in Seq(Datagrams) /\ Append(outbox["Client"], FinalAck) \in Seq(Datagrams)
  BY <1>4, SideProperty, QueueProperty DEF TypeInv
<1>7. sampled' \in [Side -> Nat] /\ sampled'["Client"] <= 1
  <2>1. /\ sampled' = [sampled EXCEPT !["Client"] =
                         IF handshake_retransmits["Client"] = 0 THEN copies["Client"] ELSE @]
        /\ sampled \in [Side -> Nat] /\ copies \in [Side -> Nat] /\ outbox["Client"] \in Seq(Datagrams)
        /\ "Client" \in Side /\ Len(outbox["Client"]) \in Nat
    BY SideProperty, SMTT(40) DEF HandleSynAck, SampleRtt, TypeInv
  <2>2. handshake_retransmits["Client"] = 0 => copies["Client"] <= 1
    BY <1>3, <2>1, SMTT(40) DEF Counted
  <2>. QED  BY <2>1, <2>2 DEF Counted
<1>8. TypeInv'
  BY <1>3, <1>4, <1>5, <1>6, <1>7, SideProperty DEF TypeInv, Timer, Settled, Negotiate
<1>9. Justified(FinalAck)'
  BY <1>5 DEF Justified
<1>10. Provenance'
  <2>1. state'["Server"] # "Listen"
    BY <1>2, <1>3, SideProperty DEF TypeInv
  <2>2. ASSUME NEW q \in Side, NEW i \in DOMAIN outbox'[q]
        PROVE  \/ \E j \in DOMAIN outbox[q] : outbox'[q][i] = outbox[q][j]
               \/ Justified(outbox[q][i])' /\ outbox'[q][i].src = q
    <3>1. CASE q = "Client"
      <4>1. outbox'[q] = Append(outbox[q], FinalAck)
        BY <1>3, <3>1, SideProperty DEF TypeInv
      <4>2. (i \in DOMAIN outbox[q] /\ outbox'[q][i] = outbox[q][i]) \/ outbox'[q][i] = FinalAck
        BY <4>1, <3>1, <1>4, <1>6, QueueProperty, SMTT(40)
      <4>. QED  BY <4>2, <3>1, <1>4, <1>9
    <3>2. CASE q # "Client"
      BY <1>3, <3>2, SideProperty DEF TypeInv
    <3>. QED  BY <3>1, <3>2
  <2>3. ASSUME NEW q \in Side
        PROVE  \/ handshake_datagram'[q] \in {handshake_datagram[q], NoDatagram}
               \/ Justified(handshake_datagram[q])' /\ handshake_datagram'[q].src = q
    <3>1. q = "Client" => handshake_datagram'[q] = FinalAck
      BY <1>3, SideProperty DEF TypeInv
    <3>2. q # "Client" => handshake_datagram'[q] = handshake_datagram[q]
      BY <1>3, SideProperty DEF TypeInv
    <3>. QED  BY <3>1, <3>2, <1>4, <1>9
  <2>. QED  BY <2>1, <2>2, <2>3, <1>3, <1>5, SideProperty, ProvenanceStep
<1>11. Agreed'
  BY <1>2, <1>3, <1>5, SideProperty DEF Agreed, Settled, Negotiate, TypeInv
<1>12. Timed'
  BY <1>3, <1>4, SideProperty DEF Timed, WaitingIsTimed, Handshaking, TypeInv
<1>13. Counted'
  BY <1>3, <1>7, SideProperty DEF Counted, TypeInv
<1>. QED  BY <1>8, <1>10, <1>11, <1>12, <1>13
\* The server takes an acknowledgement: a client only sends one when connected.
LEMMA HandleFinalAckStep ==
  ASSUME Inv, NEW m \in network, m.src = "Client", HandleFinalAck(m), network' \subseteq network
  PROVE  Inv'
<1> USE DEF Inv
<1>1. Connected("Client")
  <2>1. Justified(m) /\ m.kind \in {"Ack", "Data"}
    BY DEF Provenance, HandleFinalAck, Acknowledges
  <2>. QED  BY <2>1, DatagramProperty, SideProperty DEF TypeInv, Justified
<1>2. /\ UNCHANGED <<offer_version, cookie_matches, params, outbox, handshake_retransmits, copies>>
      /\ state["Server"] = "SynReceived" /\ state' = [state EXCEPT !["Server"] = "Established"]
      /\ handshake_datagram' = [handshake_datagram EXCEPT !["Server"] = NoDatagram]
      /\ timers' = [timers EXCEPT !["Server"] = (@ \ {"Retransmit"}) \cup {"Idle", "KeepAlive"}]
      /\ events' = [events EXCEPT !["Server"] = Append(@, "Connected")]
      /\ sampled' = [sampled EXCEPT !["Server"] =
                       IF handshake_retransmits["Server"] = 0 THEN copies["Server"] ELSE @]
  BY DEF HandleFinalAck, Establish, SampleRtt, config
<1>3. /\ events' \in [Side -> Seq({"Connected", "ConnectionClosed"})]
      /\ Connected("Client")'
  BY <1>1, <1>2, SideProperty, EventProperty
<1>4. TypeInv'
  BY <1>2, <1>3, SideProperty DEF TypeInv, Timer, Settled, Negotiate
<1>5. Provenance'
  <2>1. state'["Server"] # "Listen"
    BY <1>2, SideProperty DEF TypeInv
  <2>2. \A q \in Side : handshake_datagram'[q] \in {handshake_datagram[q], NoDatagram}
    BY <1>2, SideProperty DEF TypeInv
  <2>. QED  BY <2>1, <2>2, <1>2, <1>3, ProvenanceStep
<1>6. Agreed'
  BY <1>1, <1>2, <1>3, SideProperty DEF Agreed, Settled, Negotiate, TypeInv
<1>7. Timed'
  BY <1>2, SideProperty DEF Timed, WaitingIsTimed, Handshaking, TypeInv
<1>8. Counted'
  BY <1>2, SideProperty DEF Counted, TypeInv
<1>. QED  BY <1>4, <1>5, <1>6, <1>7, <1>8

\* What resend_handshake_datagram leaves in the queue.
LEMMA ResendProperty ==
  ASSUME Inv, NEW p \in Side, Resend(p)
  PROVE  /\ outbox' \in [Side -> Seq(Datagrams)]
         /\ \A q \in Side : q # p => outbox'[q] = outbox[q]
         /\ Len(outbox'[p]) <= Len(outbox[p]) + 1
         /\ \A q \in Side : \A i \in DOMAIN outbox'[q] :
              \/ \E j \in DOMAIN outbox[q] : outbox'[q][i] = outbox[q][j]
              \/ q = p /\ handshake_datagram[p] # NoDatagram
                 /\ outbox'[q][i] = handshake_datagram[p]
<1> DEFINE d == handshake_datagram[p]
<1>1. outbox \in [Side -> Seq(Datagrams)] /\ outbox[p] \in Seq(Datagrams)
  BY DEF Inv, TypeInv
<1>2. CASE d = NoDatagram
  <2>1. outbox' = [outbox EXCEPT ![p] = outbox[p]]
    BY <1>2 DEF Resend
  <2>2. outbox' = outbox
    BY <2>1, <1>1
  <2>. QED  BY <2>2, <1>1, SMTT(40)
<1>3. CASE d # NoDatagram
  <2>1. d \in Datagrams
    BY <1>3 DEF Inv, TypeInv
  <2>2. outbox' = [outbox EXCEPT ![p] = Append(outbox[p], d)]
    BY <1>3 DEF Resend
  <2>3. outbox'[p] = Append(outbox[p], d) /\ \A q \in Side : q # p => outbox'[q] = outbox[q]
    BY <2>2, <1>1
  <2>4. Append(outbox[p], d) \in Seq(Datagrams) /\ Len(Append(outbox[p], d)) = Len(outbox[p]) + 1
        /\ \A i \in DOMAIN Append(outbox[p], d) :
             \/ i \in DOMAIN outbox[p] /\ Append(outbox[p], d)[i] = outbox[p][i]
             \/ Append(outbox[p], d)[i] = d
    BY <1>1, <2>1, QueueProperty, SMTT(40)
  <2>5. outbox' \in [Side -> Seq(Datagrams)]
    BY <2>2, <2>4, <1>1
  <2>6. Len(outbox'[p]) <= Len(outbox[p]) + 1
    BY <2>3, <2>4, <1>1, SMTT(40)
  <2>. QED  BY <2>3, <2>4, <2>5, <2>6, <1>3
<1>. QED  BY <1>2, <1>3

\* What Provenance needs of a queue after a step that may resend.
LEMMA ResendJustified ==
  ASSUME Inv, NEW p \in Side, Resend(p) \/ UNCHANGED outbox,
         UNCHANGED <<offer_version, cookie_matches, handshake_datagram>>,
         Connected("Client") => Connected("Client")',
         state["Server"] # "Listen" => state'["Server"] # "Listen"
  PROVE  \A q \in Side : \A i \in DOMAIN outbox'[q] :
           \/ \E j \in DOMAIN outbox[q] : outbox'[q][i] = outbox[q][j]
           \/ Justified(outbox[q][i])' /\ outbox'[q][i].src = q
<1>1. ASSUME NEW q \in Side, handshake_datagram[q] # NoDatagram
      PROVE  Justified(handshake_datagram[q])' /\ handshake_datagram'[q].src = q
  BY <1>1, JustifiedPersists DEF Inv, Provenance
<1>2. CASE Resend(p)
  BY <1>1, <1>2, ResendProperty, SMTT(40)
<1>3. CASE UNCHANGED outbox
  BY <1>3
<1>. QED  BY <1>2, <1>3

\* A repeated datagram of the peer is answered with our own.
LEMMA HandleRepeatedStep ==
  ASSUME Inv, NEW p \in Side, NEW m \in network, HandleRepeated(p, m), network' \subseteq network
  PROVE  Inv'
<1> USE DEF Inv
<1>1. /\ UNCHANGED <<offer_version, cookie_matches, state, params, handshake_datagram,
                     handshake_retransmits, events, copies, sampled>>
      /\ \/ p = "Server" /\ state[p] = "SynReceived"
         \/ p = "Client" /\ state[p] = "Established"
      /\ timers' = [timers EXCEPT ![p] = @ \cup {"Idle"}]
      /\ Resend(p)
  BY DEF HandleRepeated, IdleReset, config
<1>2. \A q \in Side : Connected(q)' <=> Connected(q)
  BY <1>1 DEF Connected
<1>3. TypeInv'
  BY <1>1, ResendProperty DEF TypeInv, Timer, Settled, Negotiate
<1>4. Provenance'
  <2>1. \A q \in Side : \A i \in DOMAIN outbox'[q] :
          \/ \E j \in DOMAIN outbox[q] : outbox'[q][i] = outbox[q][j]
          \/ Justified(outbox[q][i])' /\ outbox'[q][i].src = q
    BY <1>1, <1>2, SideProperty, ResendJustified
  <2>. QED  BY <2>1, <1>1, <1>2, SideProperty, ProvenanceStep
<1>5. Agreed'
  BY <1>1, <1>2, ResendProperty, SideProperty DEF Agreed, Settled, Negotiate
<1>6. Timed'
  BY <1>1 DEF Timed, WaitingIsTimed, Handshaking, TypeInv
<1>7. Counted'
  BY <1>1, ResendProperty, SideProperty DEF Counted
<1>. QED  BY <1>3, <1>4, <1>5, <1>6, <1>7

\* A datagram that changes nothing, or only the idle timer.
LEMMA HandleOtherStep ==
  ASSUME Inv, NEW p \in Side, NEW m, HandleOther(p, m) \/ Discard(p, m), network' \subseteq network
  PROVE  Inv'
<1> USE DEF Inv
<1>1. UNCHANGED <<offer_version, cookie_matches, state, params, outbox, handshake_datagram,
                  handshake_retransmits, events, copies, sampled>>
  BY DEF HandleOther, Discard, config
<1>2. /\ timers' \in [Side -> SUBSET Timer]
      /\ \A q \in Side : timers[q] \subseteq timers'[q]
      /\ \A q \in Side : state[q] \in {"Listen", "Closed"} => timers'[q] = timers[q]
  <2>1. CASE HandleOther(p, m)
    <3>1. timers' = [timers EXCEPT ![p] = @ \cup {"Idle"}] /\ state[p] \notin {"Listen", "Closed"}
      BY <2>1 DEF HandleOther, IdleReset
    <3>. QED  BY <3>1 DEF TypeInv, Timer
  <2>2. CASE Discard(p, m)
    BY <2>2 DEF Discard, TypeInv
  <2>. QED  BY <2>1, <2>2
<1>3. \A q \in Side : Connected(q)' <=> Connected(q)
  BY <1>1 DEF Connected
<1>4. TypeInv'
  BY <1>1, <1>2 DEF TypeInv, Settled, Negotiate
<1>5. Provenance'
  BY <1>1, <1>3, SideProperty, ProvenanceStep
<1>6. Agreed'
  BY <1>1, <1>3, SideProperty DEF Agreed, Settled, Negotiate
<1>7. Timed'
  BY <1>1, <1>2 DEF Timed, WaitingIsTimed, Handshaking
<1>8. Counted'
  BY <1>1 DEF Counted
<1>. QED  BY <1>4, <1>5, <1>6, <1>7, <1>8

\* handle_datagram.
LEMMA HandleStep ==
  ASSUME Inv, NEW p \in Side, NEW m \in network, Handle(p, m), network' \subseteq network
  PROVE  Inv'
<1>1. m.src = Peer(p)
  BY DEF Handle
<1>2. CASE p = "Server" /\ Accept(m)
  BY <1>2, AcceptStep
<1>3. CASE p = "Server" /\ HandleFinalAck(m)
  BY <1>1, <1>3, SideProperty, HandleFinalAckStep
<1>4. CASE p = "Client" /\ HandleSynAck(m)
  BY <1>4, HandleSynAckStep
<1>5. CASE HandleRepeated(p, m)
  BY <1>5, HandleRepeatedStep
<1>6. CASE HandleOther(p, m) \/ Discard(p, m)
  BY <1>6, HandleOtherStep
<1>. QED  BY <1>2, <1>3, <1>4, <1>5, <1>6 DEF Handle
-----------------------------------------------------------------------------
(* handle_timeout, close and the network *)

\* A connection that becomes Closed, with or without a last datagram queued.
LEMMA ClosingStep ==
  ASSUME Inv, NEW p \in Side, state[p] \notin {"Closed", "Listen"},
         state' = [state EXCEPT ![p] = "Closed"], timers' = [timers EXCEPT ![p] = {}],
         events' = [events EXCEPT ![p] = Append(@, "ConnectionClosed")],
         Resend(p) \/ UNCHANGED outbox,
         handshake_retransmits' \in [Side -> Nat],
         p = "Server" => handshake_retransmits'["Client"] = handshake_retransmits["Client"],
         UNCHANGED <<config, params, handshake_datagram, copies, sampled, network>>
  PROVE  Inv'
<1> USE DEF Inv
<1>1. UNCHANGED <<offer_version, cookie_matches>>
  BY DEF config
<1>2. /\ events' \in [Side -> Seq({"Connected", "ConnectionClosed"})]
      /\ \A q \in Side : Connected(q)' <=> Connected(q)
  BY EventProperty
<1>3. \A q \in Side : state'[q] = IF q = p THEN "Closed" ELSE state[q]
  BY DEF TypeInv
<1>4. /\ outbox' \in [Side -> Seq(Datagrams)]
      /\ \A q \in Side : q # p => outbox'[q] = outbox[q]
  BY ResendProperty DEF TypeInv
<1>5. TypeInv'
  BY <1>1, <1>2, <1>4, SideProperty DEF TypeInv, Settled, Negotiate
<1>6. Provenance'
  <2>1. state["Server"] # "Listen" => state'["Server"] # "Listen"
    BY <1>3, SideProperty, SMTT(40)
  <2>2. \A q \in Side : \A i \in DOMAIN outbox'[q] :
          \/ \E j \in DOMAIN outbox[q] : outbox'[q][i] = outbox[q][j]
          \/ Justified(outbox[q][i])' /\ outbox'[q][i].src = q
    BY <1>1, <1>2, <2>1, SideProperty, ResendJustified
  <2>. QED  BY <1>1, <1>2, <2>1, <2>2, SideProperty, ProvenanceStep
<1>7. Agreed'
  BY <1>1, <1>2, <1>3, <1>4, SideProperty, SMTT(40) DEF Agreed, Settled, Negotiate
<1>8. Timed'
  BY <1>3 DEF Timed, WaitingIsTimed, Handshaking, TypeInv
<1>9. Counted'
  BY <1>3, <1>4, SideProperty, SMTT(40) DEF Counted
<1>. QED  BY <1>5, <1>6, <1>7, <1>8, <1>9

\* A timeout that does not close: the datagram may be sent again.
LEMMA RetransmitStep ==
  ASSUME Inv, NEW p \in Side, Resend(p),
         handshake_retransmits' = [handshake_retransmits EXCEPT ![p] = @ + 1],
         state[p] # "Listen",
         UNCHANGED <<config, state, params, handshake_datagram, timers, events, copies, sampled,
                     network>>
  PROVE  Inv'
<1> USE DEF Inv
<1>1. UNCHANGED <<offer_version, cookie_matches>>
  BY DEF config
<1>2. \A q \in Side : Connected(q)' <=> Connected(q)
  BY DEF Connected
<1>3. TypeInv'
  BY <1>1, ResendProperty, SMTT(40) DEF TypeInv, Settled, Negotiate
<1>4. Provenance'
  <2>1. \A q \in Side : \A i \in DOMAIN outbox'[q] :
          \/ \E j \in DOMAIN outbox[q] : outbox'[q][i] = outbox[q][j]
          \/ Justified(outbox[q][i])' /\ outbox'[q][i].src = q
    BY <1>1, <1>2, SideProperty, ResendJustified
  <2>. QED  BY <2>1, <1>1, <1>2, SideProperty, ProvenanceStep
<1>5. Agreed'
  BY <1>1, <1>2, ResendProperty, SideProperty DEF Agreed, Settled, Negotiate
<1>6. Timed'
  BY DEF Timed, WaitingIsTimed, Handshaking
<1>7. Counted'
  <2>1. outbox' \in [Side -> Seq(Datagrams)] /\ outbox \in [Side -> Seq(Datagrams)]
    BY ResendProperty DEF TypeInv
  <2>2. /\ Len(outbox'["Client"]) \in Nat /\ Len(outbox["Client"]) \in Nat
        /\ copies["Client"] \in Nat /\ handshake_retransmits["Client"] \in Nat
    BY <2>1, SideProperty, SMTT(40) DEF TypeInv
  <2>3. CASE p = "Client"
    BY <2>2, <2>3, ResendProperty, SideProperty, SMTT(40) DEF Counted, TypeInv
  <2>4. CASE p # "Client"
    BY <2>4, ResendProperty, SideProperty DEF Counted, TypeInv
  <2>. QED  BY <2>3, <2>4
<1>. QED  BY <1>3, <1>4, <1>5, <1>6, <1>7
\* A step that changes only what the invariant does not speak about, or takes
\* datagrams from the network.
LEMMA LossStep ==
  ASSUME Inv, network' \subseteq network,
         UNCHANGED <<config, state, params, outbox, handshake_datagram, handshake_retransmits,
                     timers, events, copies, sampled>>
  PROVE  Inv'
<1> USE DEF Inv
<1>1. UNCHANGED <<offer_version, cookie_matches>>
  BY DEF config
<1>2. \A q \in Side : Connected(q)' <=> Connected(q)
  BY DEF Connected
<1>3. TypeInv'
  BY <1>1 DEF TypeInv, Settled, Negotiate
<1>4. Provenance'
  BY <1>1, <1>2, SideProperty, ProvenanceStep
<1>5. Agreed' /\ Timed' /\ Counted'
  BY <1>1, <1>2, SideProperty
     DEF Agreed, Settled, Negotiate, Timed, WaitingIsTimed, Handshaking, Counted
<1>. QED  BY <1>3, <1>4, <1>5

\* handle_timeout.
LEMMA HandleTimeoutStep ==
  ASSUME Inv, NEW p \in Side, NEW expired, HandleTimeout(p, expired)
  PROVE  Inv'
<1> DEFINE handshake == "Retransmit" \in expired /\ Handshaking(p)
           closes    == (handshake /\ GivesUp(p)) \/ "Idle" \in expired
           resends   == handshake /\ ~GivesUp(p)
<1>1. /\ state[p] \notin {"Closed", "Listen"}
      /\ IF resends THEN Resend(p) ELSE UNCHANGED outbox
      /\ handshake_retransmits' = [handshake_retransmits EXCEPT ![p] = IF resends THEN @ + 1 ELSE @]
      /\ state' = [state EXCEPT ![p] = IF closes THEN "Closed" ELSE @]
      /\ timers' = [timers EXCEPT ![p] = IF closes THEN {} ELSE @]
      /\ events' = [events EXCEPT ![p] = IF closes THEN Append(@, "ConnectionClosed") ELSE @]
      /\ UNCHANGED <<config, params, handshake_datagram, copies, sampled, network, losses>>
  BY DEF HandleTimeout
<1> HIDE DEF handshake, closes, resends
<1>2. /\ handshake_retransmits \in [Side -> Nat] /\ DOMAIN state = Side /\ DOMAIN timers = Side
      /\ DOMAIN events = Side /\ state = [q \in Side |-> state[q]]
      /\ timers = [q \in Side |-> timers[q]] /\ events = [q \in Side |-> events[q]]
  BY DEF Inv, TypeInv
<1>3. CASE closes
  <2>1. /\ handshake_retransmits' \in [Side -> Nat]
        /\ p = "Server" => handshake_retransmits'["Client"] = handshake_retransmits["Client"]
    BY <1>1, <1>2, SideProperty, SMTT(40)
  <2>2. /\ state' = [state EXCEPT ![p] = "Closed"] /\ timers' = [timers EXCEPT ![p] = {}]
        /\ events' = [events EXCEPT ![p] = Append(@, "ConnectionClosed")]
        /\ Resend(p) \/ UNCHANGED outbox
    BY <1>1, <1>3
  <2>. QED  BY <2>1, <2>2, <1>1, ClosingStep
<1>4. CASE ~closes
  <2>1. UNCHANGED <<state, timers, events>>
    BY <1>1, <1>2, <1>4
  <2>2. CASE resends
    <3>1. Resend(p) /\ handshake_retransmits' = [handshake_retransmits EXCEPT ![p] = @ + 1]
      BY <1>1, <2>2
    <3>. QED  BY <3>1, <2>1, <1>1, RetransmitStep
  <2>3. CASE ~resends
    <3>1. UNCHANGED <<outbox, handshake_retransmits>>
      BY <1>1, <1>2, <2>3
    <3>. QED  BY <3>1, <2>1, <1>1, LossStep
  <2>. QED  BY <2>2, <2>3
<1>. QED  BY <1>3, <1>4

\* close.
LEMMA CloseStep ==
  ASSUME Inv, NEW p \in Side, Close(p)
  PROVE  Inv'
<1>1. /\ handshake_retransmits' \in [Side -> Nat]
      /\ handshake_retransmits'["Client"] = handshake_retransmits["Client"]
  BY DEF Close, Inv, TypeInv
<1>. QED  BY <1>1, ClosingStep DEF Close

-----------------------------------------------------------------------------
(* The theorems *)

\* Every step is one of poll_transmit, handle_datagram, handle_timeout and
\* close, or loses a datagram.
LEMMA StepForms ==
  ASSUME Next
  PROVE  \/ \E p \in Side : PollHandshake(p) \/ PollData(p) \/ Close(p)
         \/ \E p \in Side : \E m \in network : Handle(p, m) /\ network' \subseteq network
         \/ \E p \in Side : \E expired : HandleTimeout(p, expired)
         \/ \E m \in network : Vanish(m)
<1>1. CASE RoughNext
  BY <1>1 DEF RoughNext, HandleDatagram
<1>2. CASE CalmNext
  BY <1>2 DEF CalmNext
<1>. QED  BY <1>1, <1>2 DEF Next

\* Every step keeps the invariant.
LEMMA InductiveStep ==
  ASSUME Inv, [Next]_vars
  PROVE  Inv'
<1>1. CASE \E p \in Side : PollHandshake(p) \/ PollData(p) \/ Close(p)
  BY <1>1, PollHandshakeStep, PollDataStep, CloseStep
<1>2. CASE \E p \in Side : \E m \in network : Handle(p, m) /\ network' \subseteq network
  BY <1>2, HandleStep
<1>3. CASE \E p \in Side : \E expired : HandleTimeout(p, expired)
  BY <1>3, HandleTimeoutStep
<1>4. CASE \E m \in network : Vanish(m)
  BY <1>4, LossStep DEF Vanish
<1>5. CASE UNCHANGED vars
  BY <1>5, LossStep DEF vars
<1>. QED  BY <1>1, <1>2, <1>3, <1>4, <1>5, StepForms

\* Where every datagram comes from, what the sides have settled on and which
\* timers they have armed, in every reachable state.
THEOREM HandshakeInvariant == Spec => []Inv
<1>1. Init => Inv
  BY InitialState
<1>2. Inv /\ [Next]_vars => Inv'
  BY InductiveStep
<1>. QED  BY <1>1, <1>2, PTL DEF Spec

\* The server reports the connection only after the client has
\* (handle_final_ack, handle_syn_ack).
THEOREM ClientIsFirst == Spec => []ClientConnectsFirst
<1>1. Inv => ClientConnectsFirst
  BY Consequences
<1>. QED  BY <1>1, HandshakeInvariant, PTL

\* Sides that got through the handshake use the same version and MTU, the
\* version is one the client offered, and MS-RDPEUDP2 needs the cookie
\* (accept, handle_syn_ack).
THEOREM AgreementHolds == Spec => []SidesAgree
<1>1. Inv => SidesAgree
  BY Consequences
<1>. QED  BY <1>1, HandshakeInvariant, PTL

\* A side that waits for an answer has its timer armed and a datagram to
\* repeat (enqueue_handshake, handle_timeout).
THEOREM WaitingStaysTimed == Spec => []WaitingIsTimed
<1>1. Inv => WaitingIsTimed
  BY Consequences
<1>. QED  BY <1>1, HandshakeInvariant, PTL

\* The client's RTT sample is never taken from a SYN sent more than once
\* (sample_handshake_rtt).
THEOREM SampleStaysUnambiguous == Spec => []ClientSampleUnambiguous
<1>1. Inv => ClientSampleUnambiguous
  BY Consequences
<1>. QED  BY <1>1, HandshakeInvariant, PTL

\* Nothing changes a closed side, and its timers go with it.
LEMMA ClosedStep ==
  ASSUME Inv, [Next]_vars
  PROVE  ClosedStays
<1>1. \A p \in Side : state'[p] = "Closed" => timers'[p] = {}
  BY InductiveStep DEF Inv, Timed
<1>2. SUFFICES ASSUME NEW p \in Side, state[p] = "Closed"
               PROVE  /\ state'[p] = "Closed" /\ events'[p] = events[p]
                      /\ \A m \in network' \ network : m.src # p
  BY <1>1, <1>2 DEF ClosedStays
<1>3. /\ state \in [Side -> {"Listen", "SynSent", "SynReceived", "Established", "Closed"}]
      /\ events \in [Side -> Seq({"Connected", "ConnectionClosed"})]
      /\ outbox \in [Side -> Seq(Datagrams)]
  BY DEF Inv, TypeInv
<1>4. ASSUME NEW q \in Side, PollHandshake(q) \/ PollData(q)
      PROVE  UNCHANGED <<state, events>> /\ \A m \in network' \ network : m.src # p
  <2>1. q # p
    BY <1>2, <1>4 DEF PollHandshake, PollData
  <2>2. CASE PollHandshake(q)
    <3>1. 1 \in DOMAIN outbox[q] /\ Head(outbox[q]) = outbox[q][1]
      BY <2>2, <1>3, QueueProperty, SMTT(40) DEF PollHandshake
    <3>2. Head(outbox[q]).src = q
      BY <3>1, SMTT(40) DEF Inv, Provenance
    <3>. QED  BY <2>1, <2>2, <3>2 DEF PollHandshake, Transmit
  <2>3. CASE PollData(q)
    <3>1. Datagram(q, "Data", NoVersion).src = q
      BY DEF Datagram
    <3>. QED  BY <2>1, <2>3, <3>1 DEF PollData, Transmit
  <2>. QED  BY <1>4, <2>2, <2>3
<1>5. ASSUME NEW q \in Side, NEW m \in network, Handle(q, m), network' \subseteq network
      PROVE  state'[p] = "Closed" /\ events'[p] = events[p]
  <2>1. CASE q = "Server" /\ Accept(m)
    BY <1>2, <1>3, <2>1, SideProperty DEF Accept
  <2>2. CASE q = "Server" /\ HandleFinalAck(m)
    BY <1>2, <1>3, <2>2, SideProperty DEF HandleFinalAck, Establish
  <2>3. CASE q = "Client" /\ HandleSynAck(m)
    BY <1>2, <1>3, <2>3, SideProperty DEF HandleSynAck, Establish
  <2>4. CASE HandleRepeated(q, m) \/ HandleOther(q, m) \/ Discard(q, m)
    BY <1>2, <2>4 DEF HandleRepeated, HandleOther, Discard
  <2>. QED  BY <1>5, <2>1, <2>2, <2>3, <2>4 DEF Handle
<1>6. ASSUME NEW q \in Side, Close(q) \/ \E expired : HandleTimeout(q, expired)
      PROVE  state'[p] = "Closed" /\ events'[p] = events[p] /\ network' = network
  <2>1. q # p
    BY <1>2, <1>6 DEF Close, HandleTimeout
  <2>. QED  BY <1>2, <1>3, <1>6, <2>1 DEF Close, HandleTimeout
<1>7. ASSUME NEW m \in network, Vanish(m)
      PROVE  UNCHANGED <<state, events>> /\ network' \subseteq network
  BY <1>7 DEF Vanish
<1>8. CASE UNCHANGED vars
  BY <1>2, <1>8 DEF vars
<1>. QED  BY <1>2, <1>4, <1>5, <1>6, <1>7, <1>8, StepForms

\* A closed connection stays closed and silent, with no timer armed.
THEOREM ClosedConnectionsStay == Spec => ClosedIsFinal
<1>1. Inv /\ [Next]_vars => [ClosedStays]_vars
  BY ClosedStep
<1>. QED  BY <1>1, HandshakeInvariant, PTL DEF Spec, ClosedIsFinal
=============================================================================
