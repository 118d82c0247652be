----------------------------- MODULE RdpeudpV1 ------------------------------
(***************************************************************************)
(* MS-RDPEUDP version 1 and 2 data transfer between two established        *)
(* RdpeudpConnections (connection.rs, "MS-RDPEUDP version 1/2 data         *)
(* transfer").  The connection, its windows, timers and calls are those of *)
(* RdpeudpV2; the differences are what this module adds.  There is one     *)
(* Source sequence space, so a retransmission carries the number of the    *)
(* original; every datagram acknowledges, with a vector that walks down    *)
(* from the highest number seen; and every AckOfAcksInterval-th datagram   *)
(* carries an AckOfAcks.  The send window still keys its entries by a      *)
(* DataSeqNum of its own, which never reaches the wire.                    *)
(*                                                                         *)
(* No connection of this crate sets the Congestion Notification flag, so   *)
(* the reaction to it is left out, as are the flags that only steer the    *)
(* RTT estimate.                                                           *)
(***************************************************************************)
EXTENDS RdpeudpV2

CONSTANTS
  V1VectorMaxElements,  \* V1_ACK_VECTOR_MAX_ELEMENTS, 32 in the code
  V1VectorMaxRun,       \* V1AckVectorElement::MAX_LENGTH + 1, 64
  AckOfAcksInterval,    \* V1_ACK_OF_ACKS_INTERVAL, 20 in the code
  MaxTransmissions      \* bound on the data packets of a side

ASSUME V1Assumption ==
  /\ V1VectorMaxElements \in Nat \ {0} /\ V1VectorMaxRun \in Nat \ {0}
  /\ AckOfAcksInterval \in Nat \ {0} /\ MaxTransmissions \in Nat

VARIABLE since_ack_of_acks   \* v1_since_ack_of_acks, per side

v1vars == <<vars, since_ack_of_acks>>

V1Init ==
  /\ state = [p \in Side |-> "Established"]
  /\ accepted = [p \in Side |-> 0]
  /\ send_buffer = [p \in Side |-> <<>>]
  /\ send_window = [p \in Side |-> EmptyWindow]
  /\ next_data_seq = [p \in Side |-> InitialSeq[p] + 1]
  /\ next_channel_seq = [p \in Side |-> InitialSeq[p] + 1]
  /\ retransmit_queue = [p \in Side |-> EmptyWindow]
  /\ congestion = [p \in Side |-> NewCongestionControl]
  /\ pending_ack_of_acks = [p \in Side |-> NoSeq]
  /\ recv_window = [p \in Side |-> NewRecvWindow(InitialSeq[Peer(p)] + 1,
                                                 InitialSeq[Peer(p)] + 1)]
  /\ ack_pending = [p \in Side |-> FALSE]
  /\ timers = [p \in Side |-> {"Idle", "KeepAlive"}]
  /\ delivered = [p \in Side |-> <<>>]
  /\ network = {}
  /\ faults = [f \in Fault |-> 0]
  /\ since_ack_of_acks = [p \in Side |-> 0]

-----------------------------------------------------------------------------
(* Datagrams *)

\* build_v1_ack_parts: elements start where the state changes and after every
\* V1VectorMaxRun slots of a run, counted from the top of the window down.
ElementStart(rw, slot) ==
  \E last \in slot .. rw.highest_seq :
    /\ \A d \in slot .. last : d \in rw.received <=> slot \in rw.received
    /\ last = rw.highest_seq \/ ((last + 1) \in rw.received <=> slot \notin rw.received)
    /\ (last - slot) % V1VectorMaxRun = 0

\* The slots the vector has room for: the upper end of the window, or just
\* the highest number seen when no slot is in use.
ReportedSlots(rw) ==
  IF rw.received = {}
  THEN {rw.highest_seq}
  ELSE {slot \in rw.base_seq .. rw.highest_seq :
          Cardinality({d \in slot .. rw.highest_seq : ElementStart(rw, d)}) <= V1VectorMaxElements}

\* Mutant: every slot down to the last one reported was received.
ReceivedOffsetsWithHoles(rw) == {rw.highest_seq - d : d \in ReportedSlots(rw)}

\* The distances from the highest number that the vector reports as received.
ReceivedOffsets(rw) ==
  {rw.highest_seq - d : d \in {s \in ReportedSlots(rw) : rw.received = {} \/ s \in rw.received}}

\* What take_v1_ack_of_acks reports, with the window of the moment the
\* datagram is built.
Cumulative(p, window) ==
  LET waiting == {window[d].channel_seq : d \in Pending(window)}
  IN  (IF waiting = {} THEN next_channel_seq'[p] ELSE Min(waiting)) - 1

AckOfAcksDue(p) == since_ack_of_acks[p] + 1 >= AckOfAcksInterval

Datagram(p, window, sourceSeq, data) ==
  [src |-> p, source_ack |-> recv_window[p].highest_seq,
   received |-> ReceivedOffsets(recv_window[p]),
   ack_of_acks |-> IF AckOfAcksDue(p) THEN Cumulative(p, window) ELSE NoSeq,
   source_seq |-> sourceSeq, data |-> data]

\* take_v1_ack_of_acks counts, finish_v1_acknowledgement commits.
Transmits(p, datagram, armed) ==
  /\ network' = network \cup {datagram}
  /\ since_ack_of_acks' = [since_ack_of_acks EXCEPT ![p] = IF AckOfAcksDue(p) THEN 0 ELSE @ + 1]
  /\ CommitAcknowledgement(p)
  /\ timers' = [timers EXCEPT ![p] = (@ \ {"AckDelay"}) \cup armed]

-----------------------------------------------------------------------------
(* poll_transmit *)

TransmitSource(p, sourceSeq, data) ==
  /\ next_data_seq[p] <= InitialSeq[p] + MaxTransmissions
  /\ send_window' = [send_window EXCEPT ![p] = Push(@, next_data_seq[p], sourceSeq, data)]
  /\ next_data_seq' = [next_data_seq EXCEPT ![p] = @ + 1]
  /\ Transmits(p, Datagram(p, send_window'[p], sourceSeq, data), {"Retransmit", "KeepAlive"})

\* Mutant: a retransmission takes a fresh Source number.
V1RetransmitAsNewData(p) ==
  /\ state[p] = "Established"
  /\ CanRetransmit(p)
  /\ next_channel_seq' = [next_channel_seq EXCEPT ![p] = @ + 1]
  /\ TransmitSource(p, next_channel_seq[p], QueueFront(retransmit_queue[p]).data)
  /\ retransmit_queue' = [retransmit_queue EXCEPT ![p] = Dequeue(@)]
  /\ UNCHANGED <<state, accepted, send_buffer, congestion, pending_ack_of_acks,
                 delivered, faults>>

V1Retransmit(p) ==
  /\ state[p] = "Established"
  /\ CanRetransmit(p)
  /\ UNCHANGED <<state, accepted, send_buffer, next_channel_seq, congestion,
                 pending_ack_of_acks, delivered, faults>>
  /\ LET entry == QueueFront(retransmit_queue[p])
     IN  TransmitSource(p, entry.channel_seq, entry.data)
  /\ retransmit_queue' = [retransmit_queue EXCEPT ![p] = Dequeue(@)]

V1SendNewData(p) ==
  /\ state[p] = "Established"
  /\ ~CanRetransmit(p) /\ CanSendNewData(p)
  /\ next_channel_seq' = [next_channel_seq EXCEPT ![p] = @ + 1]
  /\ TransmitSource(p, next_channel_seq[p], Head(send_buffer[p]))
  /\ send_buffer' = [send_buffer EXCEPT ![p] = Tail(@)]
  /\ UNCHANGED <<state, accepted, retransmit_queue, congestion, pending_ack_of_acks,
                 delivered, faults>>

V1SendAck(p) ==
  /\ state[p] = "Established"
  /\ ~CanRetransmit(p) /\ ~CanSendNewData(p) /\ ack_pending[p]
  /\ UNCHANGED <<state, sendVars, delivered, faults>>
  /\ Transmits(p, Datagram(p, send_window[p], NoSeq, NoData), {"KeepAlive"})

V1PollTransmit(p) == V1Retransmit(p) \/ V1SendNewData(p) \/ V1SendAck(p)

-----------------------------------------------------------------------------
(* handle_datagram *)

V1OnWire(full, reference) == ReconstructNearest(Truncate(full), reference)

V1Fresh(p, m) ==
  /\ Near(m.source_ack, next_channel_seq[p] - 1)
  /\ m.ack_of_acks # NoSeq => Near(m.ack_of_acks, recv_window[p].highest_seq)
  /\ m.source_seq # NoSeq => Near(m.source_seq, recv_window[p].highest_seq)

\* Mutant: an element of length n is taken for n + 1 packets.
V1AckedLongRuns(p, m) ==
  LET highest == V1OnWire(m.source_ack, next_channel_seq[p] - 1)
  IN  {d \in Pending(send_window[p]) :
         \E offset \in m.received : highest - send_window[p][d].channel_seq \in {offset, offset + 1}}

\* The pending packets whose Source number the vector reports as received.
V1Acked(p, m) ==
  LET highest == V1OnWire(m.source_ack, next_channel_seq[p] - 1)
  IN  {d \in Pending(send_window[p]) : highest - send_window[p][d].channel_seq \in m.received}

\* process_v1_acknowledgement.
ProcessV1Acknowledgement(p, m, agedBelow) ==
  LET acked  == V1Acked(p, m)
      window == MarkReceived(send_window[p], acked)
      lost   == DetectLost(window, agedBelow)
  IN  /\ DeclareLost(p, window, OnAck(congestion[p], Cardinality(acked)), lost)
      /\ pending_ack_of_acks' = [pending_ack_of_acks EXCEPT ![p] = Advertised(p, window, lost)]
      /\ UNCHANGED <<accepted, send_buffer, next_data_seq, next_channel_seq>>

\* process_v1_ack_of_acks: one ahead of the received data is dropped.
V1AfterAckOfAcks(p, m) ==
  LET rw    == recv_window[p]
      reset == V1OnWire(m.ack_of_acks, rw.highest_seq)
  IN  IF m.ack_of_acks = NoSeq \/ reset > rw.highest_seq THEN rw ELSE AdvanceBase(rw, reset + 1)

SourceSeq(p, m) == V1OnWire(m.source_seq, recv_window[p].highest_seq)

V1IsNew(p, m) ==
  /\ m.source_seq # NoSeq
  /\ Accepts(V1AfterAckOfAcks(p, m), SourceSeq(p, m), SourceSeq(p, m), Window[p])

\* process_v1_data.
ProcessV1Data(p, m) ==
  LET rw     == V1AfterAckOfAcks(p, m)
      filled == Receive(rw, SourceSeq(p, m), SourceSeq(p, m), m.data)
  IN  IF V1IsNew(p, m)
      THEN /\ recv_window' = [recv_window EXCEPT ![p] = DrainOrdered(filled)]
           /\ delivered' = [delivered EXCEPT ![p] = @ \o Drained(filled)]
           /\ ack_pending' = [ack_pending EXCEPT ![p] = TRUE]
      ELSE /\ recv_window' = [recv_window EXCEPT ![p] = rw]
           /\ UNCHANGED <<delivered, ack_pending>>

V1HandleDatagram(p, m) ==
  /\ m.src = Peer(p)
  /\ state[p] = "Established"
  /\ V1Fresh(p, m)
  /\ \/ ProcessV1Acknowledgement(p, m, NoSeq) /\ Arrives(m)
     \/ /\ \E d \in Pending(send_window[p]) : ProcessV1Acknowledgement(p, m, d + 1)
        /\ network' = network \ {m} /\ Occurs("Early")
  /\ ProcessV1Data(p, m)
  /\ timers' = [timers EXCEPT
                  ![p] = (@ \ {"Retransmit"})
                         \cup RetransmitTimer(send_window'[p], retransmit_queue'[p])
                         \cup {"Idle"} \cup (IF V1IsNew(p, m) THEN {"AckDelay"} ELSE {})]
  /\ UNCHANGED <<state, since_ack_of_acks>>

-----------------------------------------------------------------------------
V1Next ==
  \/ \E p \in Side :
       \/ V1PollTransmit(p)
       \/ \E m \in network : V1HandleDatagram(p, m)
       \/ /\ \/ \E n \in 1 .. MaxChunks[p] : Send(p, n)
             \/ \E m \in network : DropOnClosed(p, m)
             \/ \E expired \in SUBSET Timer : HandleTimeout(p, expired)
             \/ Close(p)
          /\ UNCHANGED since_ack_of_acks
  \/ \E m \in network : Lose(m) /\ UNCHANGED since_ack_of_acks

V1Spec == V1Init /\ [][V1Next]_v1vars

-----------------------------------------------------------------------------
(* Properties *)

V1First(p) == InitialSeq[p] + 1

\* Every chunk given a Source number is at the peer or is waiting, in one
\* place only, for an acknowledgement or to be sent again
\* (process_v1_acknowledgement, declare_lost, try_retransmit).
V1NoChunkForgotten ==
  \A p \in Side : \A c \in V1First(p) .. (next_channel_seq[p] - 1) :
    /\ AtPeer(p, c) \/ PendingUnder(p, c) # {} \/ QueuedUnder(p, c) # {}
    /\ \A d, e \in PendingUnder(p, c) \cup QueuedUnder(p, c) : d = e

\* A vector in flight reports only packets its sender holds, however its
\* window has moved and wherever the vector was cut (build_v1_ack_parts).
V1AcksTruthful ==
  \A m \in network : \A offset \in m.received :
    m.source_ack - offset >= V1First(Peer(m.src)) => AtPeer(Peer(m.src), m.source_ack - offset)

=============================================================================
