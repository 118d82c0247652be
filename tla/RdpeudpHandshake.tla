-------------------------- MODULE RdpeudpHandshake --------------------------
(***************************************************************************)
(* The MS-RDPEUDP three-way handshake between two RdpeudpConnections       *)
(* (ironrdp-rdpeudp, connection.rs): connect and accept, the SYN, SYN+ACK  *)
(* and final ACK with their retransmissions, version and MTU negotiation,  *)
(* the lifecycle timers and close.                                         *)
(*                                                                         *)
(* Data transfer is reduced to datagrams of kind "Data", which an          *)
(* established side may send at any time.  The network is a set: a         *)
(* datagram in it may be delivered again and again, out of order, or never.*)
(***************************************************************************)
EXTENDS Integers, Sequences, FiniteSetsExt

CONSTANTS
  OfferVersions,     \* the versions a client may be configured to offer
  RetransmitLimit,   \* HANDSHAKE_RETRANSMIT_LIMIT, 5 in the code
  Mtu,               \* per side, min(upstream_mtu, downstream_mtu)
  MaxOutbox,         \* bound on the queue the peer's repetitions fill
  MaxLosses          \* bound on the losses of CalmNext

Side == {"Client", "Server"}
Peer(p) == IF p = "Client" THEN "Server" ELSE "Client"

\* UdpVersion: 1 and 2 select the MS-RDPEUDP data transfer, 3 MS-RDPEUDP2.
Version == 1 .. 3
UsesV2WireFormat(version) == version = 3

ASSUME HandshakeAssumption ==
  /\ OfferVersions \subseteq Version
  /\ RetransmitLimit \in Nat \ {0}
  /\ Mtu \in [Side -> Nat]
  /\ MaxOutbox \in Nat \ {0} /\ MaxLosses \in Nat

Timer == {"Retransmit", "AckDelay", "Idle", "KeepAlive"}

\* A datagram says who sent it; version is what a SYN offers and a SYN+ACK
\* selects.
NoVersion == 0
Datagram(p, kind, version) == [src |-> p, kind |-> kind, version |-> version]
Datagrams == [src : Side, kind : {"Syn", "SynAck", "Ack", "Data"}, version : Version \cup {NoVersion}]
NoDatagram == [src |-> "none", kind |-> "none", version |-> NoVersion]

NoParams == [version |-> NoVersion, mtu |-> 0]

VARIABLES
  offer_version,          \* the client's ConnectionConfig::offer_version
  cookie_matches,         \* whether the two cookie hashes agree
  calm,                   \* whether the network is the mild one of CalmNext
  state,                  \* "Listen" stands for a server not created yet
  params,                 \* NegotiatedParams
  outbox,                 \* pending_transmits
  handshake_datagram,
  handshake_retransmits,
  timers,                 \* the armed timers
  events,                 \* the lifecycle events raised, in order
  copies,                 \* history: copies of handshake_datagram sent so far
  sampled,                \* history: copies sent of the datagram whose answer
                          \* gave the first RTT sample, 0 without a sample
  network, losses

config == <<offer_version, cookie_matches, calm>>
vars == <<config, state, params, outbox, handshake_datagram, handshake_retransmits, timers,
          events, copies, sampled, network, losses>>

Handshaking(p) == state[p] \in {"SynSent", "SynReceived"}

-----------------------------------------------------------------------------
Syn == Datagram("Client", "Syn", offer_version)
SynAck(version) == Datagram("Server", "SynAck", version)
FinalAck == Datagram("Client", "Ack", NoVersion)

\* connect: the client has queued its SYN; no datagram has reached the server.
Init ==
  /\ offer_version \in OfferVersions /\ cookie_matches \in BOOLEAN /\ calm \in BOOLEAN
  /\ state = [p \in Side |-> IF p = "Client" THEN "SynSent" ELSE "Listen"]
  /\ params = [p \in Side |-> NoParams]
  /\ outbox = [p \in Side |-> IF p = "Client" THEN <<Syn>> ELSE <<>>]
  /\ handshake_datagram = [p \in Side |-> IF p = "Client" THEN Syn ELSE NoDatagram]
  /\ handshake_retransmits = [p \in Side |-> 0]
  /\ timers = [p \in Side |-> IF p = "Client" THEN {"Retransmit", "Idle"} ELSE {}]
  /\ events = [p \in Side |-> <<>>]
  /\ copies = [p \in Side |-> 0]
  /\ sampled = [p \in Side |-> 0]
  /\ network = {} /\ losses = 0

\* enqueue_handshake: queue a datagram and keep it for retransmission.
EnqueueHandshake(p, datagram) ==
  /\ outbox' = [outbox EXCEPT ![p] = Append(@, datagram)]
  /\ handshake_datagram' = [handshake_datagram EXCEPT ![p] = datagram]
  /\ handshake_retransmits' = [handshake_retransmits EXCEPT ![p] = 0]
  /\ copies' = [copies EXCEPT ![p] = 0]

\* The version accept settles on: the offer, except that a version 3 SYN with
\* the wrong hash is answered with version 2.
Negotiate(offered) == IF offered = 3 /\ ~cookie_matches THEN 2 ELSE offered

NegotiatedMtu == Min({Mtu[p] : p \in Side})

\* accept: the server is created from a SYN.
Accept(m) ==
  /\ state["Server"] = "Listen" /\ m.kind = "Syn"
  /\ state' = [state EXCEPT !["Server"] = "SynReceived"]
  /\ params' = [params EXCEPT !["Server"] = [version |-> Negotiate(m.version),
                                             mtu |-> NegotiatedMtu]]
  /\ EnqueueHandshake("Server", SynAck(Negotiate(m.version)))
  /\ timers' = [timers EXCEPT !["Server"] = {"Retransmit", "Idle"}]
  /\ UNCHANGED <<config, events, sampled>>

-----------------------------------------------------------------------------
(* poll_transmit *)

\* Copies beyond the ones a timer can cause are not told apart.
MaxCopies == RetransmitLimit + 2

Transmit(p, datagram) ==
  /\ network' = network \cup {datagram}
  /\ timers' = [timers EXCEPT ![p] = @ \cup {"KeepAlive"}]

\* Mutant: what is queued goes out even when closed.
PollHandshakeWhenClosed(p) ==
  /\ outbox[p] # <<>>
  /\ Transmit(p, Head(outbox[p]))
  /\ outbox' = [outbox EXCEPT ![p] = Tail(@)]
  /\ copies' = [copies EXCEPT ![p] = IF Head(outbox[p]) = handshake_datagram[p]
                                     THEN Min({@ + 1, MaxCopies}) ELSE @]
  /\ UNCHANGED <<config, state, params, handshake_datagram, handshake_retransmits, events,
                 sampled, losses>>

\* Queued handshake datagrams go first, in every state but Closed.
PollHandshake(p) ==
  /\ state[p] # "Closed"
  /\ outbox[p] # <<>>
  /\ Transmit(p, Head(outbox[p]))
  /\ outbox' = [outbox EXCEPT ![p] = Tail(@)]
  /\ copies' = [copies EXCEPT ![p] = IF Head(outbox[p]) = handshake_datagram[p]
                                     THEN Min({@ + 1, MaxCopies}) ELSE @]
  /\ UNCHANGED <<config, state, params, handshake_datagram, handshake_retransmits, events,
                 sampled, losses>>

PollData(p) ==
  /\ state[p] = "Established"
  /\ outbox[p] = <<>>
  /\ Transmit(p, Datagram(p, "Data", NoVersion))
  /\ UNCHANGED <<config, state, params, outbox, handshake_datagram, handshake_retransmits,
                 events, copies, sampled, losses>>

-----------------------------------------------------------------------------
(* handle_datagram *)

\* Mutant: an established client repeats nothing.
ResendHandshaking(p) ==
  outbox' = [outbox EXCEPT ![p] = IF ~Handshaking(p) THEN @
                                  ELSE Append(@, handshake_datagram[p])]

\* resend_handshake_datagram, when there is one.
Resend(p) ==
  outbox' = [outbox EXCEPT ![p] = IF handshake_datagram[p] = NoDatagram THEN @
                                  ELSE Append(@, handshake_datagram[p])]

\* Mutant: the retransmissions are not looked at.
SampleRttAlways(p) ==
  sampled' = [sampled EXCEPT ![p] = copies[p]]

\* sample_handshake_rtt.
SampleRtt(p) ==
  sampled' = [sampled EXCEPT ![p] = IF handshake_retransmits[p] = 0 THEN copies[p] ELSE @]

\* Mutant: the idle timer is cleared with the retransmit timer.
EstablishWithoutIdle(p) ==
  /\ state' = [state EXCEPT ![p] = "Established"]
  /\ timers' = [timers EXCEPT ![p] = {"KeepAlive"}]
  /\ events' = [events EXCEPT ![p] = Append(@, "Connected")]

\* transition_to_established; the retransmit timer is cleared and the idle
\* timer was set for the datagram being handled.
Establish(p) ==
  /\ state' = [state EXCEPT ![p] = "Established"]
  /\ timers' = [timers EXCEPT ![p] = (@ \ {"Retransmit"}) \cup {"Idle", "KeepAlive"}]
  /\ events' = [events EXCEPT ![p] = Append(@, "Connected")]

IdleReset(p) == timers' = [timers EXCEPT ![p] = @ \cup {"Idle"}]

\* Mutant: the client goes by its own offer.
HandleSynAckAsOffered(m) ==
  /\ state["Client"] = "SynSent" /\ m.kind = "SynAck"
  /\ m.version <= offer_version
  /\ params' = [params EXCEPT !["Client"] = [version |-> offer_version, mtu |-> NegotiatedMtu]]
  /\ SampleRtt("Client")
  /\ EnqueueHandshake("Client", FinalAck)
  /\ Establish("Client")
  /\ UNCHANGED config

\* handle_syn_ack on what a server sends.
HandleSynAck(m) ==
  /\ state["Client"] = "SynSent" /\ m.kind = "SynAck"
  /\ m.version <= offer_version
  /\ params' = [params EXCEPT !["Client"] = [version |-> m.version, mtu |-> NegotiatedMtu]]
  /\ SampleRtt("Client")
  /\ EnqueueHandshake("Client", FinalAck)
  /\ Establish("Client")
  /\ UNCHANGED config

\* Mutant: the ACK flag is not looked at.
AcknowledgesAnything(m) == m.kind \in {"Syn", "Ack", "Data"}

\* What completes the handshake for a server in SynReceived: the ACK flag is
\* all handle_final_ack looks at, and the version 1 and 2 data datagrams have
\* it.  An MS-RDPEUDP2 packet does not parse as one that does.
Acknowledges(m) ==
  m.kind = "Ack" \/ (m.kind = "Data" /\ ~UsesV2WireFormat(params["Server"].version))

\* handle_final_ack, on an acknowledgement: the server has nothing left to
\* repeat.
HandleFinalAck(m) ==
  /\ state["Server"] = "SynReceived" /\ Acknowledges(m)
  /\ SampleRtt("Server")
  /\ Establish("Server")
  /\ handshake_datagram' = [handshake_datagram EXCEPT !["Server"] = NoDatagram]
  /\ UNCHANGED <<config, params, outbox, handshake_retransmits, copies>>

\* The peer repeats what our own handshake datagram answers, so ours went
\* missing (handle_final_ack, is_repeated_syn_ack).
HandleRepeated(p, m) ==
  /\ \/ p = "Server" /\ state[p] = "SynReceived" /\ m.kind = "Syn"
     \/ p = "Client" /\ state[p] = "Established" /\ m.kind = "SynAck"
  /\ Len(outbox[p]) < MaxOutbox
  /\ Resend(p)
  /\ IdleReset(p)
  /\ UNCHANGED <<config, state, params, handshake_datagram, handshake_retransmits, events,
                 copies, sampled>>

\* Everything else is an error or left to the data transfer.
HandleOther(p, m) ==
  /\ state[p] # "Listen"
  /\ \/ state[p] = "SynReceived" /\ m.kind = "Data" /\ ~Acknowledges(m)
     \/ state[p] = "Established" /\ ~(p = "Client" /\ m.kind = "SynAck")
  /\ IdleReset(p)
  /\ UNCHANGED <<config, state, params, outbox, handshake_datagram, handshake_retransmits,
                 events, copies, sampled>>

\* handle_datagram on a closed connection, and a listener on anything but a SYN.
Discard(p, m) ==
  /\ state[p] = "Closed" \/ (state[p] = "Listen" /\ m.kind # "Syn")
  /\ UNCHANGED <<config, state, params, outbox, handshake_datagram, handshake_retransmits,
                 timers, events, copies, sampled>>

Handle(p, m) ==
  /\ m.src = Peer(p)
  /\ \/ p = "Server" /\ (Accept(m) \/ HandleFinalAck(m))
     \/ p = "Client" /\ HandleSynAck(m)
     \/ HandleRepeated(p, m) \/ HandleOther(p, m) \/ Discard(p, m)
  /\ UNCHANGED losses

\* A delivered datagram leaves the network or stays for another delivery.
HandleDatagram(p, m) == Handle(p, m) /\ (network' = network \ {m} \/ UNCHANGED network)

-----------------------------------------------------------------------------
(* handle_timeout and close *)

\* retransmit_handshake's choice.
GivesUp(p) == handshake_retransmits[p] >= RetransmitLimit

\* Mutant: the keep-alive handler runs after a close.
HandleTimeoutRunsOn(p, expired) ==
  LET handshake == "Retransmit" \in expired /\ Handshaking(p)
      closes    == (handshake /\ GivesUp(p)) \/ "Idle" \in expired
      resends   == handshake /\ ~GivesUp(p)
  IN  /\ state[p] \notin {"Closed", "Listen"}
      /\ expired # {} /\ expired \subseteq timers[p]
      /\ IF resends THEN Resend(p) ELSE UNCHANGED outbox
      /\ handshake_retransmits' = [handshake_retransmits EXCEPT ![p] = IF resends THEN @ + 1 ELSE @]
      /\ state' = [state EXCEPT ![p] = IF closes THEN "Closed" ELSE @]
      /\ timers' = [timers EXCEPT ![p] = IF closes THEN expired \cap {"KeepAlive"} ELSE @]
      /\ events' = [events EXCEPT ![p] = IF closes THEN Append(@, "ConnectionClosed") ELSE @]
      /\ UNCHANGED <<config, params, handshake_datagram, copies, sampled, network, losses>>

\* Mutant: the retransmit timer is not armed again.
HandleTimeoutOnce(p, expired) ==
  LET handshake == "Retransmit" \in expired /\ Handshaking(p)
      closes    == (handshake /\ GivesUp(p)) \/ "Idle" \in expired
      resends   == handshake /\ ~GivesUp(p)
  IN  /\ state[p] \notin {"Closed", "Listen"}
      /\ expired # {} /\ expired \subseteq timers[p]
      /\ IF resends THEN Resend(p) ELSE UNCHANGED outbox
      /\ handshake_retransmits' = [handshake_retransmits EXCEPT ![p] = IF resends THEN @ + 1 ELSE @]
      /\ state' = [state EXCEPT ![p] = IF closes THEN "Closed" ELSE @]
      /\ timers' = [timers EXCEPT ![p] = IF closes THEN {} ELSE @ \ (expired \cap {"Retransmit"})]
      /\ events' = [events EXCEPT ![p] = IF closes THEN Append(@, "ConnectionClosed") ELSE @]
      /\ UNCHANGED <<config, params, handshake_datagram, copies, sampled, network, losses>>

\* The expired timers in the order Retransmit, Idle, KeepAlive; once one of
\* them closes the connection, the others do not run.
HandleTimeout(p, expired) ==
  LET handshake == "Retransmit" \in expired /\ Handshaking(p)
      closes    == (handshake /\ GivesUp(p)) \/ "Idle" \in expired
      resends   == handshake /\ ~GivesUp(p)
  IN  /\ state[p] \notin {"Closed", "Listen"}
      /\ expired # {} /\ expired \subseteq timers[p]
      /\ IF resends THEN Resend(p) ELSE UNCHANGED outbox
      /\ handshake_retransmits' = [handshake_retransmits EXCEPT ![p] = IF resends THEN @ + 1 ELSE @]
      /\ state' = [state EXCEPT ![p] = IF closes THEN "Closed" ELSE @]
      /\ timers' = [timers EXCEPT ![p] = IF closes THEN {} ELSE @]
      /\ events' = [events EXCEPT ![p] = IF closes THEN Append(@, "ConnectionClosed") ELSE @]
      /\ UNCHANGED <<config, params, handshake_datagram, copies, sampled, network, losses>>

Close(p) ==
  /\ state[p] \notin {"Closed", "Listen"}
  /\ state' = [state EXCEPT ![p] = "Closed"]
  /\ timers' = [timers EXCEPT ![p] = {}]
  /\ events' = [events EXCEPT ![p] = Append(@, "ConnectionClosed")]
  /\ UNCHANGED <<config, params, outbox, handshake_datagram, handshake_retransmits, copies,
                 sampled, network, losses>>

Vanish(m) ==
  /\ network' = network \ {m}
  /\ UNCHANGED <<config, state, params, outbox, handshake_datagram, handshake_retransmits, timers,
                 events, copies, sampled>>

-----------------------------------------------------------------------------
RoughNext ==
  /\ ~calm
  /\ \/ \E p \in Side :
          \/ PollHandshake(p) \/ PollData(p)
          \/ \E m \in network : HandleDatagram(p, m)
          \/ \E expired \in SUBSET Timer : HandleTimeout(p, expired)
          \/ Close(p)
     \/ \E m \in network : Vanish(m) /\ UNCHANGED losses

\* The handshake on its own: few losses, every datagram delivered once,
\* deadlines well above the round trip, and nobody closing.
Quiet == network = {} /\ \A p \in Side : outbox[p] = <<>>

CalmNext ==
  /\ calm
  /\ \/ \E p \in Side :
          \/ PollHandshake(p)
          \/ \E m \in network : Handle(p, m) /\ network' = network \ {m}
          \/ Quiet /\ HandleTimeout(p, {"Retransmit"})
     \/ \E m \in network : losses < MaxLosses /\ Vanish(m) /\ losses' = losses + 1

Next == RoughNext \/ CalmNext

\* A calm run goes on while anything is left to do.
Spec == Init /\ [][Next]_vars /\ WF_vars(CalmNext)

\* The peer is gone and nothing of it is left on the way.
Silent(p) == state[Peer(p)] = "Closed" /\ \A m \in network : m.src # Peer(p)

\* In any other run the driver polls and wakes up for its deadlines, the
\* network does not hold on to a side's datagrams for good, and the idle
\* deadline is reached when the peer is silent.
FairSpec ==
  /\ Spec
  /\ \A p \in Side :
       /\ WF_vars(~calm /\ \E m \in network : m.src = p /\ Vanish(m) /\ UNCHANGED losses)
       /\ WF_vars(~calm /\ PollHandshake(p))
       /\ WF_vars(~calm /\ HandleTimeout(p, {"Retransmit"}))
       /\ WF_vars(~calm /\ Silent(p) /\ HandleTimeout(p, {"Idle"}))

-----------------------------------------------------------------------------
(* Properties *)

Connected(p) == "Connected" \in {events[p][i] : i \in DOMAIN events[p]}

\* The server reports the connection only after the client has: however
\* datagrams are repeated and delayed, handle_final_ack is reached by nothing
\* a client sends before its handle_syn_ack succeeded.
ClientConnectsFirst == Connected("Server") => Connected("Client")

\* Two sides that both got through the handshake use the same version and the
\* same MTU, the version is one the client offered, and MS-RDPEUDP2 is used
\* only with a confirmed cookie (accept, handle_syn_ack).
SidesAgree ==
  Connected("Client") =>
    /\ params["Client"] = params["Server"]
    /\ params["Client"].version \in 1 .. offer_version
    /\ UsesV2WireFormat(params["Client"].version) => cookie_matches

\* A connection that waits for an answer always has the retransmit timer
\* armed and a datagram to retransmit, and one that is alive has the idle
\* timer armed: it cannot be forgotten.
WaitingIsTimed ==
  \A p \in Side :
    /\ Handshaking(p) => "Retransmit" \in timers[p] /\ handshake_datagram[p] # NoDatagram
    /\ state[p] \notin {"Listen", "Closed"} => "Idle" \in timers[p]

\* Once closed, a connection stays closed, raises no event, puts nothing on
\* the wire and has no timer left, which handle_timeout would never service:
\* whatever arrives, expires with another timer or is still queued.
ClosedStays ==
  \A p \in Side :
    /\ state[p] = "Closed" =>
         /\ state'[p] = "Closed" /\ events'[p] = events[p]
         /\ \A m \in network' \ network : m.src # p
    /\ state'[p] = "Closed" => timers'[p] = {}

\* ClosedStays of every step.
ClosedIsFinal == [][ClosedStays]_vars

\* The client's first RTT sample is never taken from a SYN of which several
\* copies were sent (sample_handshake_rtt, before enqueue_final_ack resets the
\* count).
ClientSampleUnambiguous == sampled["Client"] <= 1

\* The same for both sides, as the comment on sample_handshake_rtt says of
\* the function: no sample is taken when the datagram was retransmitted.
SamplesUnambiguous == \A p \in Side : sampled[p] <= 1

\* Neither side waits for the handshake for ever: it is established or, when
\* the retransmissions are used up, closed.
HandshakeEnds == \A p \in Side : Handshaking(p) ~> ~Handshaking(p)

\* A side whose peer has closed (nothing on the wire says so) closes too.
HalfOpenEnds ==
  \A p \in Side : (state[p] = "Established" /\ state[Peer(p)] = "Closed") ~> state[p] = "Closed"

\* In a calm run with no more losses than HANDSHAKE_RETRANSMIT_LIMIT, wherever they fall,
\* both sides become established: a lost final ACK, which nothing
\* acknowledges, is made good by the server repeating its SYN+ACK.
BothEstablish == calm => <>(\A p \in Side : state[p] = "Established")
=============================================================================
