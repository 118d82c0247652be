------------------------------ MODULE RdpeudpV2 -----------------------------
(***************************************************************************)
(* MS-RDPEUDP2 data transfer between two established RdpeudpConnections    *)
(* (ironrdp-rdpeudp, connection.rs): the calls a driver makes on each side *)
(* (send, poll_transmit, handle_datagram, handle_timeout, close) and a     *)
(* network that loses, duplicates and reorders datagrams.                  *)
(*                                                                         *)
(* Time is abstracted.  An armed timer may expire at any moment and a      *)
(* packet may be older than the loss detector's threshold at any moment;   *)
(* unless the connection is quiet, such an expiry is early and counts      *)
(* against MaxFaults.  Packets carry full sequence numbers; the receiver   *)
(* sees them through truncation and reconstruction.                        *)
(***************************************************************************)
EXTENDS Integers, Sequences, FiniteSets,
        RdpeudpSeq, RdpeudpSendWindow, RdpeudpRecvWindow

CONSTANTS
  Window,             \* per side, 1 << log_window_size
  InitialSeq,         \* per side, the initial sequence number of its SYN
  SendBufferMultiple, \* SEND_BUFFER_WINDOW_MULTIPLE, 8 in the code
  MaxChunks,          \* per side, bound on the chunks the application sends
  MaxFaults           \* per kind of fault, bound on its occurrences

Side == {"Client", "Server"}
Peer(p) == IF p = "Client" THEN "Server" ELSE "Client"

\* The order of the constants is the order expired timers are handled in.
Timer == {"Retransmit", "AckDelay", "Idle", "KeepAlive"}

Fault == {"Lose", "Duplicate", "Early"}

ASSUME V2Assumption ==
  /\ Window \in [Side -> Nat \ {0}]
  /\ InitialSeq \in [Side -> Nat]
  /\ SendBufferMultiple \in Nat \ {0}
  /\ MaxChunks \in [Side -> Nat]
  /\ MaxFaults \in [Fault -> Nat]

\* ChannelSeqNums are numbered from 1 in MS-RDPEUDP2.
FirstChannelSeq == 1

VARIABLES
  state,             \* per side, "Established" or "Closed"
  accepted,          \* history: chunks send() has accepted
  send_buffer,       \* chunks not yet given a sequence number
  send_window,       \* DataSeqNum -> entry
  next_data_seq,
  next_channel_seq,
  retransmit_queue,  \* ReliabilityController
  congestion,
  pending_ack_of_acks,
  recv_window,
  ack_pending,
  timers,            \* the armed timers
  delivered,         \* history: DataReceived events, in order
  network,           \* datagrams in flight
  faults             \* occurrences of each fault so far

sendVars == <<accepted, send_buffer, send_window, next_data_seq, next_channel_seq,
              retransmit_queue, congestion, pending_ack_of_acks>>
recvVars == <<recv_window, ack_pending, delivered>>
vars == <<state, sendVars, recvVars, timers, network, faults>>

-----------------------------------------------------------------------------
(* Packets *)

NoAck == [kind |-> "None", seq |-> NoSeq, received |-> {}]

\* A chunk is named by its position in the stream the application sent;
\* zero is the absence of a payload.
NoData == 0

\* Mutant: the highest number received, whatever is missing below it.
AcknowledgeOverGaps(p) ==
  [kind |-> "Cumulative", seq |-> recv_window[p].highest_seq, received |-> {}]

Acknowledgement(p) ==
  LET rw == recv_window[p]
  IN  IF HasGaps(rw)
      THEN [kind |-> "Vector", seq |-> rw.base_seq, received |-> AckVectorOffsets(rw)]
      ELSE [kind |-> "Cumulative", seq |-> rw.highest_seq, received |-> {}]

\* Mutant: data packets do not carry the AckOfAcks.
DataPacketWithoutAckOfAcks(p, dataSeq, channelSeq, data) ==
  [src |-> p, ack |-> IF ack_pending[p] THEN Acknowledgement(p) ELSE NoAck,
   ack_of_acks |-> NoSeq,
   data_seq |-> dataSeq, channel_seq |-> channelSeq, data |-> data]

DataPacket(p, dataSeq, channelSeq, data) ==
  [src |-> p, ack |-> IF ack_pending[p] THEN Acknowledgement(p) ELSE NoAck,
   ack_of_acks |-> pending_ack_of_acks[p],
   data_seq |-> dataSeq, channel_seq |-> channelSeq, data |-> data]

AckPacket(p) ==
  [src |-> p, ack |-> Acknowledgement(p), ack_of_acks |-> pending_ack_of_acks[p],
   data_seq |-> NoSeq, channel_seq |-> NoSeq, data |-> NoData]

-----------------------------------------------------------------------------
Init ==
  /\ state = [p \in Side |-> "Established"]
  /\ accepted = [p \in Side |-> 0]
  /\ send_buffer = [p \in Side |-> <<>>]
  /\ send_window = [p \in Side |-> EmptyWindow]
  /\ next_data_seq = [p \in Side |-> InitialSeq[p] + 1]
  /\ next_channel_seq = [p \in Side |-> FirstChannelSeq]
  /\ retransmit_queue = [p \in Side |-> EmptyWindow]
  /\ congestion = [p \in Side |-> NewCongestionControl]
  /\ pending_ack_of_acks = [p \in Side |-> NoSeq]
  /\ recv_window = [p \in Side |-> NewRecvWindow(InitialSeq[Peer(p)] + 1, FirstChannelSeq)]
  /\ ack_pending = [p \in Side |-> FALSE]
  /\ timers = [p \in Side |-> {"Idle", "KeepAlive"}]
  /\ delivered = [p \in Side |-> <<>>]
  /\ network = {}
  /\ faults = [f \in Fault |-> 0]

-----------------------------------------------------------------------------
\* send: all the chunks of one call, or none (SendBufferFull).
Send(p, n) ==
  /\ state[p] = "Established"
  /\ accepted[p] + n <= MaxChunks[p]
  /\ Len(send_buffer[p]) + n <= SendBufferMultiple * Window[p]
  /\ accepted' = [accepted EXCEPT ![p] = @ + n]
  /\ send_buffer' = [send_buffer EXCEPT ![p] = @ \o [i \in 1 .. n |-> accepted[p] + i]]
  /\ UNCHANGED <<state, send_window, next_data_seq, next_channel_seq, retransmit_queue,
                 congestion, pending_ack_of_acks, recvVars, timers, network, faults>>

-----------------------------------------------------------------------------
(* poll_transmit *)

\* Both kinds of data wait for the congestion window and for the send window.
MayTransmit(p) ==
  /\ BytesInFlight(send_window[p]) < congestion[p].window
  /\ HasCapacity(send_window[p], Window[p])

CanRetransmit(p) == DOMAIN retransmit_queue[p] # {} /\ MayTransmit(p)
CanSendNewData(p) == send_buffer[p] # <<>> /\ MayTransmit(p)

\* commit_acknowledgement, and what the callers clear, once a packet carries
\* the acknowledgement.
CommitAcknowledgement(p) ==
  /\ recv_window' = [recv_window EXCEPT ![p] = ReleaseAcknowledged(@)]
  /\ ack_pending' = [ack_pending EXCEPT ![p] = FALSE]

\* Mutant: the retransmit timer is left to the acknowledgements.
TransmitDataUntimed(p, channelSeq, data) ==
  /\ send_window' = [send_window EXCEPT ![p] = Push(@, next_data_seq[p], channelSeq, data)]
  /\ next_data_seq' = [next_data_seq EXCEPT ![p] = @ + 1]
  /\ network' = network \cup {DataPacket(p, next_data_seq[p], channelSeq, data)}
  /\ IF ack_pending[p] THEN CommitAcknowledgement(p) ELSE UNCHANGED <<recv_window, ack_pending>>
  /\ timers' = [timers EXCEPT ![p] = (IF ack_pending[p] THEN @ \ {"AckDelay"} ELSE @)
                                       \cup {"KeepAlive"}]

\* build_data_packet under a fresh DataSeqNum.
TransmitData(p, channelSeq, data) ==
  /\ send_window' = [send_window EXCEPT ![p] = Push(@, next_data_seq[p], channelSeq, data)]
  /\ next_data_seq' = [next_data_seq EXCEPT ![p] = @ + 1]
  /\ network' = network \cup {DataPacket(p, next_data_seq[p], channelSeq, data)}
  /\ IF ack_pending[p] THEN CommitAcknowledgement(p) ELSE UNCHANGED <<recv_window, ack_pending>>
  /\ timers' = [timers EXCEPT ![p] = (IF ack_pending[p] THEN @ \ {"AckDelay"} ELSE @)
                                       \cup {"Retransmit", "KeepAlive"}]

\* Mutant: a retransmission takes a fresh ChannelSeqNum too.
RetransmitAsNewData(p) ==
  /\ state[p] = "Established"
  /\ CanRetransmit(p)
  /\ TransmitData(p, next_channel_seq[p], QueueFront(retransmit_queue[p]).data)
  /\ retransmit_queue' = [retransmit_queue EXCEPT ![p] = Dequeue(@)]
  /\ next_channel_seq' = [next_channel_seq EXCEPT ![p] = @ + 1]
  /\ UNCHANGED <<state, accepted, send_buffer, congestion,
                 pending_ack_of_acks, delivered, faults>>

Retransmit(p) ==
  /\ state[p] = "Established"
  /\ CanRetransmit(p)
  /\ LET entry == QueueFront(retransmit_queue[p])
     IN  TransmitData(p, entry.channel_seq, entry.data)
  /\ retransmit_queue' = [retransmit_queue EXCEPT ![p] = Dequeue(@)]
  /\ UNCHANGED <<state, accepted, send_buffer, next_channel_seq, congestion,
                 pending_ack_of_acks, delivered, faults>>

SendNewData(p) ==
  /\ state[p] = "Established"
  /\ ~CanRetransmit(p) /\ CanSendNewData(p)
  /\ TransmitData(p, next_channel_seq[p], Head(send_buffer[p]))
  /\ send_buffer' = [send_buffer EXCEPT ![p] = Tail(@)]
  /\ next_channel_seq' = [next_channel_seq EXCEPT ![p] = @ + 1]
  /\ UNCHANGED <<state, accepted, retransmit_queue, congestion, pending_ack_of_acks,
                 delivered, faults>>

SendAck(p) ==
  /\ state[p] = "Established"
  /\ ~CanRetransmit(p) /\ ~CanSendNewData(p) /\ ack_pending[p]
  /\ network' = network \cup {AckPacket(p)}
  /\ CommitAcknowledgement(p)
  /\ timers' = [timers EXCEPT ![p] = (@ \ {"AckDelay"}) \cup {"KeepAlive"}]
  /\ UNCHANGED <<state, sendVars, delivered, faults>>

PollTransmit(p) == Retransmit(p) \/ SendNewData(p) \/ SendAck(p)

-----------------------------------------------------------------------------
(* Faults *)

Occurs(fault) ==
  /\ faults[fault] < MaxFaults[fault]
  /\ faults' = [faults EXCEPT ![fault] = @ + 1]

Lose(m) ==
  /\ Occurs("Lose")
  /\ network' = network \ {m}
  /\ UNCHANGED <<state, sendVars, recvVars, timers>>

\* A datagram that arrives leaves the network, or stays for another arrival.
Arrives(m) ==
  \/ network' = network \ {m} /\ UNCHANGED faults
  \/ UNCHANGED network /\ Occurs("Duplicate")

-----------------------------------------------------------------------------
(* handle_datagram *)

\* The largest number a side has sent, the reference for what its peer
\* acknowledges.
LargestSent(p) == next_data_seq[p] - 1

OnWire(full, reference) == Reconstruct(Truncate(full), reference)

\* No datagram is delayed until half the range of a sequence number has been
\* used up since (a lifetime the network is assumed to enforce).
Fresh(p, m) ==
  /\ m.ack.kind # "None" => Near(m.ack.seq, LargestSent(p))
  /\ m.ack_of_acks # NoSeq => Near(m.ack_of_acks, recv_window[p].highest_seq)
  /\ m.data_seq # NoSeq => /\ Near(m.data_seq, recv_window[p].highest_seq)
                           /\ Near(m.channel_seq, recv_window[p].next_channel_seq)

\* The number an acknowledgement reports: the highest one received for the
\* cumulative form, the base of the window for a vector.
Reported(p, m) == OnWire(m.ack.seq, LargestSent(p))

\* A cumulative acknowledgement of a number never assigned is ignored.
AckIgnored(p, m) ==
  \/ m.ack.kind = "None"
  \/ m.ack.kind = "Cumulative" /\ Reported(p, m) >= next_data_seq[p]

\* Mutant: the cumulative number is read as the next one expected.
AckedOneTooMany(p, m) ==
  IF m.ack.kind = "Cumulative"
  THEN {d \in Pending(send_window[p]) : d <= Reported(p, m) + 1}
  ELSE {d \in Pending(send_window[p]) : d - Reported(p, m) \in m.ack.received}

Acked(p, m) ==
  IF m.ack.kind = "Cumulative"
  THEN {d \in Pending(send_window[p]) : d <= Reported(p, m)}
  ELSE {d \in Pending(send_window[p]) : d - Reported(p, m) \in m.ack.received}

\* Mutant: what waits in the queue is not outstanding.
RetransmitTimerIgnoringQueue(window, queue) ==
  IF Pending(window) # {} THEN {"Retransmit"} ELSE {}

\* update_retransmit_timer: armed exactly while something is outstanding.
RetransmitTimer(window, queue) ==
  IF Pending(window) # {} \/ DOMAIN queue # {} THEN {"Retransmit"} ELSE {}

\* declare_lost for every packet of lost, given the window they are in and
\* the congestion state so far; the AckOfAcks to advertise is left to the
\* callers.
DeclareLost(p, window, cc, lost) ==
  /\ send_window' = [send_window EXCEPT ![p] = MarkLost(window, lost)]
  /\ retransmit_queue' = [retransmit_queue EXCEPT ![p] = Enqueue(@, window, lost)]
  /\ congestion' = [congestion EXCEPT ![p] = OnLoss(cc, lost, LargestSent(p))]

\* Mutant: a loss settles everything sent so far.
AdvertisedAllSent(p, window, lost) ==
  IF lost = {} THEN pending_ack_of_acks[p] ELSE next_data_seq[p]

Advertised(p, window, lost) ==
  IF lost = {} THEN pending_ack_of_acks[p]
               ELSE LowestUnacknowledged(MarkLost(window, lost), next_data_seq[p])

\* Mutant: any acknowledgement stops the AckOfAcks.
ProcessAckRetiringAlways(p, m, agedBelow) ==
  LET acked  == Acked(p, m)
      window == MarkReceived(send_window[p], acked)
      lost   == DetectLost(window, agedBelow)
  IN  /\ DeclareLost(p, window, OnAck(congestion[p], Cardinality(acked)), lost)
      /\ pending_ack_of_acks' = [pending_ack_of_acks EXCEPT ![p] = NoSeq]
      /\ UNCHANGED <<accepted, send_buffer, next_data_seq, next_channel_seq>>

\* process_ack and process_ack_vector: resolve, grow the window, detect
\* losses, then stop advertising an AckOfAcks the peer has moved past.
ProcessAck(p, m, agedBelow) ==
  LET acked  == Acked(p, m)
      window == MarkReceived(send_window[p], acked)
      lost   == DetectLost(window, agedBelow)
      advertised == Advertised(p, window, lost)
  IN  /\ DeclareLost(p, window, OnAck(congestion[p], Cardinality(acked)), lost)
      /\ pending_ack_of_acks' = [pending_ack_of_acks EXCEPT
                                   ![p] = IF Reported(p, m) > advertised THEN NoSeq ELSE advertised]
      /\ UNCHANGED <<accepted, send_buffer, next_data_seq, next_channel_seq>>

\* process_ack_of_acks: the base moves before the packet's own data is seen.
RecvAfterAckOfAcks(p, m) ==
  IF m.ack_of_acks = NoSeq
  THEN recv_window[p]
  ELSE AdvanceBase(recv_window[p], OnWire(m.ack_of_acks, recv_window[p].highest_seq))

\* The numbers of m as the receiver reconstructs them.
DataSeq(p, m)    == OnWire(m.data_seq, recv_window[p].highest_seq)
ChannelSeq(p, m) == OnWire(m.channel_seq, recv_window[p].next_channel_seq)

IsNew(p, m) ==
  /\ m.data_seq # NoSeq
  /\ Accepts(RecvAfterAckOfAcks(p, m), DataSeq(p, m), ChannelSeq(p, m), Window[p])

\* process_data.
ProcessData(p, m) ==
  LET rw     == RecvAfterAckOfAcks(p, m)
      filled == Receive(rw, DataSeq(p, m), ChannelSeq(p, m), m.data)
  IN  IF IsNew(p, m)
      THEN /\ recv_window' = [recv_window EXCEPT ![p] = DrainOrdered(filled)]
           /\ delivered' = [delivered EXCEPT ![p] = @ \o Drained(filled)]
           /\ ack_pending' = [ack_pending EXCEPT ![p] = TRUE]
      ELSE /\ recv_window' = [recv_window EXCEPT ![p] = rw]
           /\ UNCHANGED <<delivered, ack_pending>>

HandleDatagram(p, m) ==
  /\ m.src = Peer(p)
  /\ state[p] = "Established"
  /\ Fresh(p, m)
  /\ \/ AckIgnored(p, m) /\ UNCHANGED sendVars /\ Arrives(m)
     \/ ~AckIgnored(p, m) /\ ProcessAck(p, m, NoSeq) /\ Arrives(m)
     \* some packets are past the time threshold although m is only now here
     \/ /\ ~AckIgnored(p, m)
        /\ \E d \in Pending(send_window[p]) : ProcessAck(p, m, d + 1)
        /\ network' = network \ {m} /\ Occurs("Early")
  /\ ProcessData(p, m)
  /\ timers' = [timers EXCEPT
                  ![p] = (IF AckIgnored(p, m) THEN @
                          ELSE (@ \ {"Retransmit"})
                                 \cup RetransmitTimer(send_window'[p], retransmit_queue'[p]))
                         \cup {"Idle"} \cup (IF IsNew(p, m) THEN {"AckDelay"} ELSE {})]
  /\ UNCHANGED state

\* A closed connection answers with an error and keeps nothing.
DropOnClosed(p, m) ==
  /\ m.src = Peer(p)
  /\ state[p] = "Closed"
  /\ network' = network \ {m}
  /\ UNCHANGED <<state, sendVars, recvVars, timers, faults>>

-----------------------------------------------------------------------------
(* handle_timeout and close *)

\* handle_retransmit_timeout: the oldest unacknowledged packet is lost.
OnRetransmitTimeout(p) ==
  LET pending == Pending(send_window[p])
      lost    == IF pending = {} THEN {} ELSE {Min(pending)}
  IN  /\ DeclareLost(p, send_window[p], congestion[p], lost)
      /\ pending_ack_of_acks' = [pending_ack_of_acks EXCEPT
                                   ![p] = Advertised(p, send_window[p], lost)]
      /\ UNCHANGED <<accepted, send_buffer, next_data_seq, next_channel_seq>>

\* Nothing is on its way between two live sides, nor about to be: what is
\* still unacknowledged stays so until a timer expires.
Quiet == network = {} /\ \A q \in Side : state[q] = "Established" /\ ~ack_pending[q]

\* The expired timers are handled in the order of the enumeration; the idle
\* timer closes the connection and keeps the keep-alive from running.
HandleTimeout(p, expired) ==
  /\ state[p] = "Established"
  /\ expired # {} /\ expired \subseteq timers[p]
  /\ IF Quiet THEN UNCHANGED faults ELSE Occurs("Early")
  /\ IF "Retransmit" \in expired THEN OnRetransmitTimeout(p) ELSE UNCHANGED sendVars
  /\ ack_pending' = [ack_pending EXCEPT
                       ![p] = \/ @
                              \/ "AckDelay" \in expired
                              \/ "KeepAlive" \in expired /\ "Idle" \notin expired]
  /\ state' = [state EXCEPT ![p] = IF "Idle" \in expired THEN "Closed" ELSE @]
  /\ timers' = [timers EXCEPT
                  ![p] = IF "Idle" \in expired THEN {}
                         ELSE (@ \ (expired \cap {"Retransmit", "AckDelay"}))
                              \cup (IF "Retransmit" \in expired
                                    THEN RetransmitTimer(send_window'[p], retransmit_queue'[p])
                                    ELSE {})]
  /\ UNCHANGED <<recv_window, delivered, network>>

Close(p) ==
  /\ state[p] = "Established"
  /\ state' = [state EXCEPT ![p] = "Closed"]
  /\ timers' = [timers EXCEPT ![p] = {}]
  /\ UNCHANGED <<sendVars, recvVars, network, faults>>

-----------------------------------------------------------------------------
Next ==
  \/ \E p \in Side :
       \/ \E n \in 1 .. MaxChunks[p] : Send(p, n)
       \/ PollTransmit(p)
       \/ \E m \in network : HandleDatagram(p, m) \/ DropOnClosed(p, m)
       \/ \E expired \in SUBSET Timer : HandleTimeout(p, expired)
       \/ Close(p)
  \/ \E m \in network : Lose(m)

Spec == Init /\ [][Next]_vars

\* The driver polls for packets, hands over what arrives and calls back when
\* a deadline passes.  A retransmit deadline is not moved by the keep-alives
\* and late datagrams in between, so it is reached again and again.
Fairness ==
  \A p \in Side :
    /\ WF_vars(PollTransmit(p))
    /\ WF_vars(\E m \in network : HandleDatagram(p, m))
    /\ SF_vars(HandleTimeout(p, {"Retransmit"}))

FairSpec == Spec /\ Fairness

-----------------------------------------------------------------------------
(* Properties *)

AckType == [kind : {"None", "Cumulative", "Vector"}, seq : SeqNums, received : SUBSET Nat]

PacketType ==
  [src : Side, ack : AckType, ack_of_acks : SeqNums,
   data_seq : SeqNums, channel_seq : SeqNums, data : Nat]

TypeOK ==
  /\ state \in [Side -> {"Established", "Closed"}]
  /\ accepted \in [Side -> Nat]
  /\ send_buffer \in [Side -> Seq(Nat)]
  /\ next_data_seq \in [Side -> Nat \ {0}]
  /\ next_channel_seq \in [Side -> Nat]
  /\ congestion \in [Side -> CongestionType]
  /\ pending_ack_of_acks \in [Side -> SeqNums]
  /\ ack_pending \in [Side -> BOOLEAN]
  /\ timers \in [Side -> SUBSET Timer]
  /\ delivered \in [Side -> Seq(Nat)]
  /\ network \subseteq PacketType
  /\ faults \in [Fault -> Nat]
  /\ DOMAIN send_window = Side /\ DOMAIN retransmit_queue = Side /\ DOMAIN recv_window = Side
  /\ \A p \in Side :
       /\ DOMAIN send_window[p] \subseteq Nat
       /\ \A d \in DOMAIN send_window[p] : send_window[p][d] \in EntryType
       /\ DOMAIN retransmit_queue[p] \subseteq Nat
       /\ \A d \in DOMAIN retransmit_queue[p] : retransmit_queue[p][d] \in QueueEntryType
       /\ RecvWindowOK(recv_window[p])

\* What the peer's application gets is what this side's application sent,
\* in order, without loss, repetition or invention (send, process_data).
InOrderDelivery ==
  \A p \in Side :
    /\ Len(delivered[Peer(p)]) <= accepted[p]
    /\ \A i \in 1 .. Len(delivered[Peer(p)]) : delivered[Peer(p)][i] = i

\* Where a ChannelSeqNum of p can be: at the peer, waiting for an
\* acknowledgement, or waiting to be sent again.
AtPeer(p, c) ==
  \/ c < recv_window[Peer(p)].next_channel_seq
  \/ c \in DOMAIN recv_window[Peer(p)].reorder_buf
PendingUnder(p, c) == {d \in Pending(send_window[p]) : send_window[p][d].channel_seq = c}
QueuedUnder(p, c) == {d \in DOMAIN retransmit_queue[p] : retransmit_queue[p][d].channel_seq = c}

\* Every chunk given a ChannelSeqNum is at the peer or will be sent again, and
\* it is waiting in one place only (process_ack, process_ack_vector,
\* declare_lost, try_retransmit).
ChunksKept(p) ==
  \A c \in FirstChannelSeq .. (next_channel_seq[p] - 1) :
    /\ AtPeer(p, c) \/ PendingUnder(p, c) # {} \/ QueuedUnder(p, c) # {}
    /\ \A d, e \in PendingUnder(p, c) \cup QueuedUnder(p, c) : d = e

NoChunkForgotten == \A p \in Side : ChunksKept(p)

\* The lowest number still unresolved.
Low(p) == LowestUnacknowledged(send_window[p], next_data_seq[p])

\* The window holds consecutive numbers up to the last one assigned and
\* starts with an unresolved one: losses are only ever declared from its
\* front, so one slot of it is never worth more than one sequence number
\* (LossDetector::detect, mark_lost, advance_window).
WindowBounded(p) ==
  /\ Contiguous(send_window[p], next_data_seq[p])
  /\ next_data_seq[p] - Low(p) <= Window[p]

WindowContiguous == \A p \in Side : WindowBounded(p)

\* The packets an acknowledgement says were received.
Claims(m, d) ==
  \/ m.ack.kind = "Cumulative" /\ d <= m.ack.seq
  \/ m.ack.kind = "Vector" /\ d - m.ack.seq \in m.ack.received

\* No acknowledgement in flight makes its receiver forget a chunk that the
\* acknowledging side does not hold, however late it arrives: a cumulative
\* one is never sent over a hole that matters (build_acknowledgement).
AcksTruthful ==
  \A m \in network : LET p == Peer(m.src) IN
    \A d \in Pending(send_window[p]) :
      Claims(m, d) => AtPeer(p, send_window[p][d].channel_seq)

\* An AckOfAcks never makes the peer's window skip a packet that is still
\* being waited for (declare_lost, process_ack_of_acks).
BehindWindow(p) ==
  /\ pending_ack_of_acks[p] <= Low(p)
  /\ \A m \in network : m.src = p => m.ack_of_acks <= Low(p)

AckOfAcksBehindWindow == \A p \in Side : BehindWindow(p)

\* The peer of p has the packet numbered d or has been told not to wait for it.
Got(p, d) ==
  d < recv_window[Peer(p)].base_seq \/ d \in recv_window[Peer(p)].received

\* A packet the peer never got and the sender gave up under its number keeps
\* being covered by the AckOfAcks until the peer's window is past it: if the
\* payload were retired sooner, the hole would stay for good
\* (retire_ack_of_acks).
HolesCovered(p) ==
  \A d \in 0 .. (Low(p) - 1) : Got(p, d) \/ pending_ack_of_acks[p] > d

HolesAdvertised == \A p \in Side : HolesCovered(p)

\* The receive side never outgrows its window, in slots or in chunks held
\* for reordering, although the chunk that completes the order is always
\* taken (receive, occupy_slot).
ReceiverBounded ==
  \A p \in Side :
    /\ Cardinality(DOMAIN recv_window[p].reorder_buf) <= Window[p]
    /\ recv_window[p].next_channel_seq \notin DOMAIN recv_window[p].reorder_buf
    /\ recv_window[p].received \subseteq
         recv_window[p].base_seq .. (recv_window[p].base_seq + Window[p] - 1)

\* Something outstanding always has a timer that will come back to it, and a
\* closed connection has none that nobody would serve
\* (update_retransmit_timer, handle_timeout, poll_transmit).
TimersServeWork ==
  \A p \in Side :
    IF state[p] = "Established"
    THEN Pending(send_window[p]) # {} \/ DOMAIN retransmit_queue[p] # {} => "Retransmit" \in timers[p]
    ELSE timers[p] = {}

-----------------------------------------------------------------------------
(* The inductive invariant behind the safety properties, for the stream from *)
(* p to its peer.                                                            *)

\* Chunk c travels as ChannelSeqNum c, wherever the sender holds it.
SenderNumbering(p) ==
  LET given == FirstChannelSeq .. (next_channel_seq[p] - 1)
  IN  /\ next_channel_seq[p] >= FirstChannelSeq
      /\ \A d \in DOMAIN send_window[p] :
           /\ send_window[p][d].channel_seq \in given
           /\ send_window[p][d].data = send_window[p][d].channel_seq
      /\ \A d \in DOMAIN retransmit_queue[p] :
           /\ d < Low(p)
           /\ retransmit_queue[p][d].channel_seq \in given
           /\ retransmit_queue[p][d].data = retransmit_queue[p][d].channel_seq
      /\ accepted[p] = next_channel_seq[p] - 1 + Len(send_buffer[p])
      /\ \A i \in 1 .. Len(send_buffer[p]) : send_buffer[p][i] = next_channel_seq[p] - 1 + i

\* What the peer holds of the stream, in slots and in chunks.
ReceiverNumbering(p) ==
  LET q  == Peer(p)
      rw == recv_window[q]
  IN  /\ rw.next_channel_seq \in FirstChannelSeq .. next_channel_seq[p]
      /\ \A c \in DOMAIN rw.reorder_buf :
           /\ c \in (rw.next_channel_seq + 1) .. (next_channel_seq[p] - 1)
           /\ rw.reorder_buf[c] = c
      /\ Len(delivered[q]) = rw.next_channel_seq - 1
      /\ \A i \in 1 .. Len(delivered[q]) : delivered[q][i] = i
      /\ rw.base_seq <= next_data_seq[p] /\ rw.highest_seq < next_data_seq[p]
      /\ \A d \in rw.received : d >= rw.base_seq /\ d <= rw.highest_seq
      /\ rw.base_seq <= rw.highest_seq => rw.highest_seq \in rw.received

\* What the sender believes the peer has, the peer has.
Agreement(p) ==
  \A d \in DOMAIN send_window[p] :
    IF d \in Pending(send_window[p])
    THEN Got(p, d) => AtPeer(p, send_window[p][d].channel_seq)
    ELSE Got(p, d)

\* Data in flight names a chunk, and the one its number stands for.
DataInFlight(p) ==
  \A m \in network : m.src = p /\ m.data_seq # NoSeq =>
    /\ m.data_seq < next_data_seq[p]
    /\ m.channel_seq \in FirstChannelSeq .. (next_channel_seq[p] - 1)
    /\ m.data = m.channel_seq
    /\ m.data_seq \in DOMAIN send_window[p] =>
         m.channel_seq = send_window[p][m.data_seq].channel_seq

\* An acknowledgement in flight to p lags behind the window it was built from.
AcksInFlight(p) ==
  LET base == recv_window[Peer(p)].base_seq
  IN  \A m \in network : m.src = Peer(p) =>
        /\ m.ack.kind = "Cumulative" => m.ack.seq \in Nat /\ m.ack.seq < base
        /\ m.ack.kind = "Vector" =>
             /\ m.ack.seq \in Nat /\ m.ack.seq <= base
             /\ \A o \in m.ack.received : Got(p, m.ack.seq + o)

\* The whole of it, inductive together with TypeOK.
StreamInv(p) ==
  /\ ChunksKept(p) /\ WindowBounded(p) /\ BehindWindow(p) /\ HolesCovered(p)
  /\ SenderNumbering(p) /\ ReceiverNumbering(p) /\ Agreement(p)
  /\ DataInFlight(p) /\ AcksInFlight(p)

StreamsInv == \A p \in Side : StreamInv(p)

\* The inductive invariant: the types of the variables (new_established,
\* process_ack, declare_lost and process_data keep them) and both streams.
IndInv == TypeOK /\ StreamsInv

-----------------------------------------------------------------------------
SomeSideClosed == \E q \in Side : state[q] = "Closed"

\* After the last loss everything sent is delivered, unless a side closes.
EverythingDelivered ==
  \A p \in Side :
    Len(delivered[Peer(p)]) < accepted[p] ~>
      (Len(delivered[Peer(p)]) = accepted[p] \/ SomeSideClosed)

\* ... and the sender learns of it: retransmission comes to an end.
EverythingResolved ==
  \A p \in Side :
    Pending(send_window[p]) # {} \/ DOMAIN retransmit_queue[p] # {} ~>
      (DOMAIN send_window[p] = {} /\ DOMAIN retransmit_queue[p] = {}) \/ SomeSideClosed
=============================================================================
