-------------------------- MODULE RdpeudpV1Proofs ---------------------------
(***************************************************************************)
(* The safety properties of RdpeudpV1 for every window size, sequence      *)
(* number width, vector size, number of chunks and number of faults: every *)
(* action keeps the invariant of RdpeudpV1Lemmas, the invariant gives the  *)
(* properties, and every step is a step of the two ordered streams.        *)
(***************************************************************************)
EXTENDS RdpeudpV1Lemmas, RdpeudpV2Stream, TLAPS

USE ZenonT(5), SMTT(40), ZenonT(30), SMTT(41)

-----------------------------------------------------------------------------
(* Steps *)

\* The invariant of both streams is that of a side's and its peer's.
LEMMA BothEnds ==
  ASSUME NEW x \in Side
  PROVE  /\ V1Inv => Types /\ V1StreamInv(x) /\ V1StreamInv(Peer(x))
         /\ Types' /\ V1StreamInv(x)' /\ V1StreamInv(Peer(x))' => V1Inv'
BY PeerProperty DEF V1Inv

\* A step that leaves both ends alone and adds no datagram keeps the invariant.
LEMMA QuietStep ==
  ASSUME V1Inv, UNCHANGED <<accepted, send_buffer, send_window, next_data_seq, next_channel_seq,
                            retransmit_queue, recv_window, delivered>>,
         network' \subseteq network
  PROVE  V1Inv'
<1>1. Types'
  BY DEF V1Inv, Types
<1>2. ASSUME NEW p \in Side  PROVE V1StreamInv(p)'
  <2>1. SendingSame(p) /\ ReceivingSame(Peer(p))
    BY DEF SendingSame, ReceivingSame
  <2>. QED  BY <2>1, StreamUntouched DEF V1Inv
<1>. QED  BY <1>1, <1>2 DEF V1Inv

\* The keys of a contiguous window are numbers.
LEMMA PendingNat ==
  ASSUME NEW window, NEW next \in Nat, Contiguous(window, next)
  PROVE  Pending(window) \subseteq Nat
BY SMTT(40), SMTT(41) DEF Pending, Contiguous

\* Before anything is acknowledged the window has no entry of the set.
LEMMA NothingMarked ==
  ASSUME NEW x \in Side, Contiguous(send_window[x], next_data_seq[x]), Low(x) \in Nat,
         Low(x) = LowestUnacknowledged(send_window[x], next_data_seq[x]),
         \A d \in DOMAIN send_window[x] : send_window[x][d] \in EntryType
  PROVE  Marked(x, send_window[x], {})
BY SMTT(40), SMTT(41) DEF Marked

\* send appends chunks that count on.
LEMMA V1SendStep ==
  ASSUME V1Inv, NEW x \in Side, NEW n \in 1 .. MaxChunks[x], Send(x, n)
  PROVE  V1Inv'
<1> DEFINE y == Peer(x)
           start == next_channel_seq[x] - V1First(x)
           buf == send_buffer[x]
           t == [i \in 1 .. n |-> accepted[x] + i]
<1>1. /\ Types /\ V1StreamInv(x) /\ V1StreamInv(y) /\ y \in Side /\ y # x
  BY BothEnds, PeerProperty
<1>2. /\ UNCHANGED <<send_window, next_data_seq, next_channel_seq, retransmit_queue, recv_window, delivered, network>>
      /\ accepted' = [accepted EXCEPT ![x] = @ + n]
      /\ send_buffer' = [send_buffer EXCEPT ![x] = @ \o t]
  BY DEF Send, recvVars
<1>3. /\ buf \in Seq(Nat) /\ Len(buf) \in Nat /\ accepted[x] \in Nat /\ n \in Nat
      /\ next_channel_seq[x] \in Nat /\ V1First(x) \in Nat
      /\ accepted[x] = start + Len(buf) /\ \A i \in 1 .. Len(buf) : buf[i] = start + i
  <2>1. n \in Nat
    BY V2Assumption, SMTT(40), SMTT(41)
  <2>. QED  BY <1>1, <2>1, FirstNumber, SeqLength DEF Types, V1StreamInv, Sending
<1>4. /\ accepted'[x] = accepted[x] + n /\ send_buffer'[x] = buf \o t
      /\ accepted'[y] = accepted[y] /\ send_buffer'[y] = send_buffer[y]
  BY <1>1, <1>2 DEF Types
<1>5. start \in Int /\ t \in [1 .. n -> Nat] /\ \A i \in 1 .. n : t[i] = start + Len(buf) + i
  <2>1. start \in Int
    BY ONLY <1>3, SMTT(40), SMTT(41) DEF start
  <2>2. ASSUME NEW i \in 1 .. n  PROVE accepted[x] + i \in Nat /\ t[i] = accepted[x] + i
    BY ONLY <1>3, <2>2, SMTT(40), SMTT(41) DEF t
  <2>3. t \in [1 .. n -> Nat]
    BY <2>2
  <2>. QED  BY <1>3, <2>1, <2>2, <2>3
<1>. HIDE DEF start, t
<1>6. /\ buf \o t \in Seq(Nat) /\ Len(buf \o t) = Len(buf) + n
      /\ \A i \in 1 .. Len(buf \o t) : (buf \o t)[i] = start + i
  <2>1. buf \in Seq(Nat) /\ n \in Nat /\ \A i \in 1 .. Len(buf) : buf[i] = start + i
    BY <1>3
  <2>. HIDE DEF buf
  <2>. QED  BY ONLY <1>5, <2>1, CountOn, Zenon
<1>7. accepted[x] + n = start + Len(buf \o t)
  BY ONLY <1>3, <1>5, <1>6, SMTT(40), SMTT(41)
<1>8. Types'
  <2>1. accepted[x] + n \in Nat
    BY ONLY <1>3, SMTT(40), SMTT(41)
  <2>2. accepted' \in [Side -> Nat] /\ send_buffer' \in [Side -> Seq(Nat)]
    BY <1>1, <1>2, <1>6, <2>1 DEF Types
  <2>. QED  BY <1>1, <1>2, <2>2 DEF Types
<1>9. ReceivingSame(x) /\ ReceivingSame(y) /\ SendingSame(y)
  BY <1>2, <1>4 DEF ReceivingSame, SendingSame
<1>10. V1StreamInv(y)'
  BY <1>1, <1>2, <1>9, StreamUntouched, PeerProperty
<1>11. V1StreamInv(x)'
  <2>1. next_channel_seq'[x] \in Nat /\ next_channel_seq[x] <= next_channel_seq'[x]
    BY ONLY <1>2, <1>3, SMTT(40), SMTT(41)
  <2>2. Receiving(x)' /\ Holds(x) /\ \A c : AtPeer(x, c)' <=> AtPeer(x, c)
    BY <2>1, <1>1, <1>9, ReceivingStays DEF V1StreamInv
  <2>3. InFlight(x)'
    BY <2>1, <2>2, <1>1, <1>2, FlightStays DEF V1StreamInv
  <2>4. Kept(x)'
    <3>1. Given(x)' = Given(x) /\ Kept(x)
      BY <1>1, <1>2 DEF V1StreamInv, Given, V1First
    <3>2. \A c : PendingUnder(x, c)' = PendingUnder(x, c) /\ QueuedUnder(x, c)' = QueuedUnder(x, c)
      BY <1>2 DEF PendingUnder, QueuedUnder, Pending
    <3>3. \A c \in Given(x)' : AtPeer(x, c)' \/ PendingUnder(x, c)' # {} \/ QueuedUnder(x, c)' # {}
      BY ONLY <2>2, <3>1, <3>2, Zenon DEF Kept
    <3>4. \A c \in Given(x)' : \A d, e \in PendingUnder(x, c)' \cup QueuedUnder(x, c)' : d = e
      BY ONLY <3>1, <3>2, Zenon DEF Kept
    <3>. QED  BY ONLY <3>3, <3>4, Zenon DEF Kept
  <2>5. start' = start /\ start = next_channel_seq[x] - V1First(x)
    BY <1>2 DEF start, V1First
  <2>6. Sending(x)'
    BY <2>5, <1>1, <1>2, <1>4, <1>6, <1>7 DEF V1StreamInv, Sending, Carries, Given, V1First, Low
  <2>. QED  BY <2>2, <2>3, <2>4, <2>6 DEF V1StreamInv
<1>. QED  BY <1>8, <1>10, <1>11, BothEnds

\* The packets lost to a retransmit timeout are resolved like any others.
LEMMA V1TimeoutStep ==
  ASSUME Foundations, V1Inv, NEW x \in Side, NEW expired \in SUBSET Timer, HandleTimeout(x, expired)
  PROVE  V1Inv'
<1> DEFINE y == Peer(x)
           pending == Pending(send_window[x])
           lost == IF pending = {} THEN {} ELSE {Min(pending)}
<1>1. Types /\ V1StreamInv(x) /\ V1StreamInv(y) /\ y \in Side /\ y # x
  BY BothEnds, PeerProperty
<1>2. /\ UNCHANGED <<recv_window, delivered, network>>
      /\ OnRetransmitTimeout(x) \/ UNCHANGED sendVars
  BY DEF HandleTimeout
<1>3. CASE UNCHANGED sendVars
  <2>1. UNCHANGED <<accepted, send_buffer, send_window, next_data_seq, next_channel_seq,
                    retransmit_queue, recv_window, delivered>>
    BY <1>2, <1>3 DEF sendVars
  <2>. QED  BY <1>2, <2>1, QuietStep
<1>4. CASE OnRetransmitTimeout(x)
  <2>1. /\ DeclareLost(x, send_window[x], congestion[x], lost)
        /\ UNCHANGED <<accepted, send_buffer, next_data_seq, next_channel_seq>>
    BY <1>4 DEF OnRetransmitTimeout
  <2>2. Contiguous(send_window[x], next_data_seq[x]) /\ next_data_seq[x] \in Nat
    BY <1>1 DEF Types, V1StreamInv, Sending
  <2>3. pending \subseteq Nat
    BY <2>2, PendingNat
  <2>4. /\ lost \in SUBSET pending
        /\ \A l \in lost : \A d \in pending : d <= l => d \in lost
    <3>1. (pending = {} => lost = {}) /\ (pending # {} => lost = {Min(pending)})
      OBVIOUS
    <3>. HIDE DEF lost, pending
    <3>. QED  BY ONLY Foundations, <3>1, <2>3, OldestProperty, Zenon
  <2>. HIDE DEF lost
  <2>5. Marked(x, send_window[x], {})
    <3>1. Low(x) \in Nat /\ Low(x) = LowestUnacknowledged(send_window[x], next_data_seq[x])
      BY <2>2 DEF Contiguous, Low
    <3>2. \A d \in DOMAIN send_window[x] : send_window[x][d] \in EntryType
      BY <1>1 DEF V1StreamInv, Sending
    <3>. QED  BY <3>1, <3>2, <2>2, NothingMarked
  <2>6. {} \in SUBSET Pending(send_window[x]) /\ lost \in SUBSET Pending(send_window[x])
    BY <2>4
  <2>7. /\ Moved(x, {}, lost) /\ lost \subseteq Pending(send_window[x]) \ {}
        /\ DOMAIN send_window' = Side /\ DOMAIN retransmit_queue' = Side
    BY <1>1, <2>1, <2>4, <2>5, <2>6, LossesMove DEF V1StreamInv
  <2>8. ReceivingSame(x) /\ ReceivingSame(y)
    BY <1>2 DEF ReceivingSame
  <2>9. /\ \A d \in {} : AtPeer(x, send_window[x][d].channel_seq)
        /\ next_data_seq'[x] = next_data_seq[x] /\ next_channel_seq'[x] = next_channel_seq[x]
        /\ accepted'[x] = accepted[x] /\ send_buffer'[x] = send_buffer[x]
        /\ network' \subseteq network /\ {} \subseteq Pending(send_window[x])
    BY <1>2, <2>1
  <2>10. V1StreamInv(x)'
    BY <1>1, <2>7, <2>8, <2>9, StreamResolves
  <2>11. SendingSame(y)
    BY <1>1, <2>1 DEF DeclareLost, SendingSame, Types
  <2>12. V1StreamInv(y)'
    BY <1>1, <1>2, <2>8, <2>11, StreamUntouched, PeerProperty
  <2>13. Types'
    BY <1>1, <1>2, <2>1, <2>7 DEF Types
  <2>. QED  BY <2>10, <2>12, <2>13, BothEnds
<1>. QED  BY <1>2, <1>3, <1>4

\* A well-formed datagram of x, with the acknowledgement of the moment.
IsDatagram(m, x, c, v) ==
  /\ m \in V1PacketType /\ m.src = x /\ m.source_seq = c /\ m.data = v
  /\ m.source_ack = recv_window[x].highest_seq
  /\ m.received = ReceivedOffsets(recv_window[x])

\* The datagrams that are built are well formed: the AckOfAcks it may carry is a number below
\* every Source number that is waited for.
LEMMA DatagramTyped ==
  ASSUME Foundations, NEW x \in Side, Types, Receiving(Peer(x)),
         NEW window, NEW c \in SeqNums, NEW v \in Nat,
         \A d \in Pending(window) : window[d].channel_seq \in Nat \ {0},
         next_channel_seq'[x] \in Nat \ {0}
  PROVE  IsDatagram(Datagram(x, window, c, v), x, c, v)
<1> DEFINE waiting == {window[d].channel_seq : d \in Pending(window)}
<1>1. Peer(x) \in Side /\ Peer(Peer(x)) = x
  BY PeerProperty
<1>2. ReceivedOffsets(recv_window[x]) \subseteq Nat
  <2>1. ReceivedOffsets(recv_window[Peer(Peer(x))]) \subseteq Nat
    BY <1>1, VectorBuilt
  <2>. QED  BY <1>1, <2>1
<1>3. recv_window[x].highest_seq \in Nat
  BY DEF Types, RecvWindowOK
<1>4. Cumulative(x, window) \in Nat
  <2>1. waiting \subseteq Nat \ {0}
    OBVIOUS
  <2>2. waiting # {} => Min(waiting) \in Nat \ {0}
    <3>. HIDE DEF waiting
    <3>1. waiting \subseteq Nat
      BY <2>1
    <3>. QED  BY <2>1, <3>1, MinProperty
  <2>3. Cumulative(x, window) = (IF waiting = {} THEN next_channel_seq'[x] ELSE Min(waiting)) - 1
    BY DEF Cumulative
  <2>. HIDE DEF waiting
  <2>. QED  BY ONLY <2>2, <2>3, next_channel_seq'[x] \in Nat \ {0}, SMTT(40), SMTT(41)
<1>5. (IF AckOfAcksDue(x) THEN Cumulative(x, window) ELSE NoSeq) \in SeqNums
  BY <1>4 DEF SeqNums
<1>. QED  BY <1>2, <1>3, <1>5 DEF IsDatagram, Datagram, V1PacketType

\* Sending data touches both streams: the sender's own by the packet, the
\* other one by the acknowledgement it carries.
LEMMA V1TransmitStep ==
  ASSUME Foundations, V1Inv, NEW x \in Side, NEW c, NEW v, TransmitSource(x, c, v),
         FromQueue(x, c, v) \/ FromBuffer(x, c, v), UNCHANGED <<accepted, delivered>>,
         next_channel_seq' \in [Side -> Nat], send_buffer' \in [Side -> Seq(Nat)],
         DOMAIN retransmit_queue' = Side,
         \A p \in Side : p # x => /\ retransmit_queue'[p] = retransmit_queue[p]
                                  /\ next_channel_seq'[p] = next_channel_seq[p]
                                  /\ send_buffer'[p] = send_buffer[p]
  PROVE  V1Inv'
<1> DEFINE y == Peer(x)
           m == Datagram(x, send_window'[x], c, v)
<1>1. /\ Types /\ V1StreamInv(x) /\ V1StreamInv(y) /\ y \in Side /\ y # x /\ Peer(y) = x
      /\ Sending(x)
  BY BothEnds, PeerProperty DEF V1StreamInv
<1>2. /\ send_window' = [send_window EXCEPT ![x] = Push(@, next_data_seq[x], c, v)]
      /\ next_data_seq' = [next_data_seq EXCEPT ![x] = @ + 1]
      /\ network' = network \cup {m}
      /\ recv_window' = [recv_window EXCEPT ![x] = ReleaseAcknowledged(@)]
  BY DEF TransmitSource, Transmits, CommitAcknowledgement
<1>3. /\ send_window'[x] = Push(send_window[x], next_data_seq[x], c, v)
      /\ next_data_seq'[x] = next_data_seq[x] + 1 /\ next_data_seq' \in [Side -> Nat]
      /\ recv_window'[x] = ReleaseAcknowledged(recv_window[x])
      /\ recv_window'[y] = recv_window[y] /\ send_window'[y] = send_window[y]
      /\ next_data_seq'[y] = next_data_seq[y]
      /\ DOMAIN send_window' = Side /\ DOMAIN recv_window' = Side
  <2>1. next_data_seq[x] + 1 \in Nat
    <3>1. next_data_seq[x] \in Nat
      BY <1>1 DEF Types
    <3>. QED  BY ONLY <3>1, SMTT(40), SMTT(41)
  <2>. QED  BY <1>1, <1>2, <2>1 DEF Types
<1>4. accepted'[x] = accepted[x] /\ ReceivingSame(y) /\ SendingSame(y) /\ delivered'[x] = delivered[x]
  BY <1>1, <1>3 DEF ReceivingSame, SendingSame
<1>5. /\ c \in Nat /\ v \in Nat /\ next_channel_seq'[x] >= V1First(x)
      /\ V1First(x) \in Nat /\ V1First(x) = InitialSeq[x] + 1 /\ InitialSeq[x] \in Nat
  BY <1>1, SentNumber, FirstNumber
<1>6. Sending(x)'
  BY <1>1, <1>3, <1>4, SendingSent
<1>7. m \in V1PacketType /\ m.src = x /\ m.source_seq = c /\ m.data = v
      /\ m.source_ack = recv_window[x].highest_seq /\ m.received = ReceivedOffsets(recv_window[x])
  <2>1. next_channel_seq'[x] \in Nat /\ next_channel_seq'[x] \in Nat \ {0}
    <3>1. next_channel_seq'[x] \in Nat
      OBVIOUS
    <3>. QED  BY ONLY <3>1, <1>5, SMTT(40), SMTT(41)
  <2>2. ASSUME NEW d \in Pending(send_window'[x])
        PROVE  send_window'[x][d].channel_seq \in Nat \ {0}
    <3>1. d \in DOMAIN send_window'[x]
      BY DEF Pending
    <3>2. send_window'[x][d].channel_seq \in Given(x)'
      BY <1>6, <3>1 DEF Sending, Carries
    <3>3. Given(x)' = V1First(x) .. (next_channel_seq'[x] - 1)
      BY DEF Given, V1First
    <3>. QED  BY ONLY <1>5, <2>1, <3>2, <3>3, SMTT(40), SMTT(41)
  <2>3. Receiving(Peer(x)) /\ c \in SeqNums
    BY <1>1, <1>5 DEF V1StreamInv, SeqNums
  <2> DEFINE window == send_window'[x]
  <2>4. \A d \in Pending(window) : window[d].channel_seq \in Nat \ {0}
    BY <2>2
  <2>. HIDE DEF window
  <2>5. Types /\ v \in Nat
    BY <1>1, <1>5
  <2>6. IsDatagram(Datagram(x, window, c, v), x, c, v)
    BY <2>1, <2>3, <2>4, <2>5, DatagramTyped
  <2>. QED  BY <2>6 DEF IsDatagram, window
<1>. HIDE DEF m
<1>8. V1StreamInv(x)'
  BY <1>1, <1>2, <1>3, <1>4, <1>7, StreamSends
<1>9. V1StreamInv(y)' /\ RecvWindowOK(recv_window'[x])
  <2>. HIDE DEF y
  <2>1. V1StreamInv(y)' /\ RecvWindowOK(recv_window'[Peer(y)])
    BY <1>1, <1>2, <1>3, <1>4, <1>7, StreamAnswered
  <2>. QED  BY <2>1, <1>1
<1>10. Types'
  <2>1. RecvWindowOK(recv_window'[y])
    BY <1>1, <1>3 DEF Types
  <2>2. \A p \in Side : RecvWindowOK(recv_window'[p])
    BY <2>1, <1>9, PeerProperty
  <2>3. network' \subseteq V1PacketType
    BY <1>1, <1>2, <1>7 DEF Types
  <2>. QED  BY <1>1, <1>3, <2>2, <2>3 DEF Types
<1>. QED  BY <1>8, <1>9, <1>10, BothEnds

\* try_retransmit sends the front of the queue under its old number.
LEMMA V1RetransmitStep ==
  ASSUME Foundations, V1Inv, NEW x \in Side, V1Retransmit(x)
  PROVE  V1Inv'
<1> DEFINE front == Min(DOMAIN retransmit_queue[x])
           c == retransmit_queue[x][front].channel_seq
           v == retransmit_queue[x][front].data
<1>1. Types
  BY DEF V1Inv
<1>2. /\ DOMAIN retransmit_queue[x] # {} /\ TransmitSource(x, c, v)
      /\ retransmit_queue' = [retransmit_queue EXCEPT ![x] = Dequeue(@)]
      /\ UNCHANGED <<accepted, send_buffer, next_channel_seq, delivered>>
  BY DEF V1Retransmit, CanRetransmit, QueueFront
<1>3. /\ DOMAIN retransmit_queue' = Side /\ retransmit_queue'[x] = Dequeue(retransmit_queue[x])
      /\ \A p \in Side : p # x => retransmit_queue'[p] = retransmit_queue[p]
      /\ next_channel_seq' \in [Side -> Nat] /\ send_buffer' \in [Side -> Seq(Nat)]
  BY <1>1, <1>2 DEF Types
<1>4. FromQueue(x, c, v)
  BY <1>2, <1>3 DEF FromQueue
<1>. HIDE DEF c, v
<1>. QED  BY <1>2, <1>3, <1>4, V1TransmitStep

\* try_send_new_data sends the front of the buffer under the next number.
LEMMA V1SendNewDataStep ==
  ASSUME Foundations, V1Inv, NEW x \in Side, V1SendNewData(x)
  PROVE  V1Inv'
<1> DEFINE c == next_channel_seq[x]
           v == Head(send_buffer[x])
<1>1. Types
  BY DEF V1Inv
<1>2. /\ send_buffer[x] # <<>> /\ TransmitSource(x, c, v)
      /\ send_buffer' = [send_buffer EXCEPT ![x] = Tail(@)]
      /\ next_channel_seq' = [next_channel_seq EXCEPT ![x] = @ + 1]
      /\ UNCHANGED <<accepted, retransmit_queue, delivered>>
  BY DEF V1SendNewData, CanSendNewData
<1>3. Tail(send_buffer[x]) \in Seq(Nat) /\ next_channel_seq[x] + 1 \in Nat
  <2>1. send_buffer[x] \in Seq(Nat) /\ next_channel_seq[x] \in Nat
    BY <1>1 DEF Types
  <2>2. next_channel_seq[x] + 1 \in Nat
    BY ONLY <2>1, SMTT(40), SMTT(41)
  <2>. QED  BY <1>2, <2>1, <2>2, SeqTail
<1>4. /\ DOMAIN retransmit_queue' = Side
      /\ next_channel_seq'[x] = next_channel_seq[x] + 1 /\ send_buffer'[x] = Tail(send_buffer[x])
      /\ next_channel_seq' \in [Side -> Nat] /\ send_buffer' \in [Side -> Seq(Nat)]
      /\ \A p \in Side : p # x => /\ retransmit_queue'[p] = retransmit_queue[p]
                                  /\ next_channel_seq'[p] = next_channel_seq[p]
                                  /\ send_buffer'[p] = send_buffer[p]
  BY <1>1, <1>2, <1>3 DEF Types
<1>5. FromBuffer(x, c, v)
  BY <1>2, <1>4 DEF FromBuffer
<1>. HIDE DEF c, v
<1>. QED  BY <1>2, <1>4, <1>5, V1TransmitStep

\* A standalone acknowledgement.
LEMMA V1SendAckStep ==
  ASSUME Foundations, V1Inv, NEW x \in Side, V1SendAck(x)
  PROVE  V1Inv'
<1> DEFINE y == Peer(x)
           m == Datagram(x, send_window[x], NoSeq, NoData)
<1>1. /\ Types /\ V1StreamInv(x) /\ V1StreamInv(y) /\ y \in Side /\ y # x /\ Peer(y) = x
  BY BothEnds, PeerProperty
<1>2. /\ network' = network \cup {m}
      /\ recv_window' = [recv_window EXCEPT ![x] = ReleaseAcknowledged(@)]
      /\ UNCHANGED <<accepted, send_buffer, send_window, next_data_seq, next_channel_seq,
                     retransmit_queue, delivered>>
  BY DEF V1SendAck, Transmits, CommitAcknowledgement, sendVars
<1>3. /\ m \in V1PacketType /\ m.src = x /\ m.source_seq = NoSeq
      /\ m.source_ack = recv_window[x].highest_seq /\ m.received = ReceivedOffsets(recv_window[x])
  <2>1. /\ next_channel_seq[x] \in Nat /\ next_channel_seq[x] >= V1First(x)
        /\ V1First(x) \in Nat /\ V1First(x) = InitialSeq[x] + 1 /\ InitialSeq[x] \in Nat
    BY <1>1, FirstNumber DEF Types, V1StreamInv, Sending
  <2>2. next_channel_seq'[x] \in Nat \ {0}
    BY ONLY <1>2, <2>1, SMTT(40), SMTT(41)
  <2>3. ASSUME NEW d \in Pending(send_window[x])
        PROVE  send_window[x][d].channel_seq \in Nat \ {0}
    <3>1. send_window[x][d].channel_seq \in Given(x)
      BY <1>1 DEF Pending, V1StreamInv, Sending, Carries
    <3>. QED  BY ONLY <2>1, <3>1, SMTT(40), SMTT(41) DEF Given
  <2>4. Receiving(Peer(x)) /\ NoSeq \in SeqNums /\ NoData \in Nat /\ Types
    BY <1>1 DEF V1StreamInv, SeqNums, NoData
  <2>5. IsDatagram(Datagram(x, send_window[x], NoSeq, NoData), x, NoSeq, NoData)
    <3>. HIDE DEF NoSeq, NoData
    <3>. QED  BY <2>2, <2>3, <2>4, DatagramTyped
  <2>. QED  BY <2>5 DEF IsDatagram
<1>. HIDE DEF m
<1>4. /\ recv_window'[y] = recv_window[y] /\ DOMAIN recv_window' = Side
      /\ recv_window'[x] = ReleaseAcknowledged(recv_window[x])
  BY <1>1, <1>2 DEF Types
<1>5. /\ SendingSame(x) /\ SendingSame(y) /\ ReceivingSame(Peer(x))
      /\ delivered'[x] = delivered[x]
  BY <1>2, <1>4 DEF SendingSame, ReceivingSame
<1>6. V1StreamInv(x)'
  <2>1. ASSUME NEW k \in network', k \notin network
        PROVE  DataTrue(x, k)' /\ VectorTrue(x, k)'
    <3>1. k.src = x /\ k.source_seq = NoSeq
      BY <2>1, <1>2, <1>3
    <3>. QED  BY <3>1, <1>1 DEF DataTrue, VectorTrue
  <2>. QED  BY <2>1, <1>1, <1>5, StreamUntouched
<1>7. V1StreamInv(y)' /\ RecvWindowOK(recv_window'[x])
  <2>. HIDE DEF y
  <2>1. V1StreamInv(y)' /\ RecvWindowOK(recv_window'[Peer(y)])
    BY <1>1, <1>2, <1>3, <1>4, <1>5, StreamAnswered
  <2>. QED  BY <2>1, <1>1
<1>8. Types'
  <2>1. RecvWindowOK(recv_window'[y])
    BY <1>1, <1>4 DEF Types
  <2>2. \A p \in Side : RecvWindowOK(recv_window'[p])
    BY <2>1, <1>7, PeerProperty
  <2>3. network' \subseteq V1PacketType
    BY <1>1, <1>2, <1>3 DEF Types
  <2>. QED  BY <1>1, <1>2, <1>4, <2>2, <2>3 DEF Types
<1>. QED  BY <1>6, <1>7, <1>8, BothEnds

\* handle_datagram resolves packets of its own stream and takes data from
\* the other one.
LEMMA V1HandleDatagramStep ==
  ASSUME Foundations, V1Inv, NEW x \in Side, NEW m \in network, V1HandleDatagram(x, m)
  PROVE  V1Inv' /\ Len(delivered[x]) <= Len(delivered'[x])
<1> DEFINE y == Peer(x)
<1>1. Types /\ V1StreamInv(x) /\ V1StreamInv(y) /\ y \in Side /\ y # x /\ Peer(y) = x
  BY BothEnds, PeerProperty
<1>2. m.src = y /\ V1Fresh(x, m) /\ ProcessV1Data(x, m)
  BY DEF V1HandleDatagram
<1>3. PICK aged \in Int : ProcessV1Acknowledgement(x, m, aged)
  <2>1. Pending(send_window[x]) \subseteq Nat
    <3>1. Contiguous(send_window[x], next_data_seq[x]) /\ next_data_seq[x] \in Nat
      BY <1>1 DEF Types, V1StreamInv, Sending
    <3>. QED  BY <3>1, PendingNat
  <2>2. NoSeq \in Int /\ \A d \in Pending(send_window[x]) : d + 1 \in Int
    BY ONLY <2>1, SMTT(40), SMTT(41) DEF NoSeq
  <2>. HIDE DEF NoSeq
  <2>. QED  BY <2>2 DEF V1HandleDatagram
<1>4. network' \subseteq network
  BY DEF V1HandleDatagram, Arrives
<1>5. /\ UNCHANGED <<accepted, send_buffer, next_data_seq, next_channel_seq>>
      /\ send_window'[y] = send_window[y] /\ retransmit_queue'[y] = retransmit_queue[y]
  BY <1>1, <1>3 DEF ProcessV1Acknowledgement, DeclareLost, Types
<1>6. /\ recv_window' = [recv_window EXCEPT ![x] = recv_window'[x]]
      /\ delivered' = [delivered EXCEPT ![x] = delivered'[x]]
  BY <1>1, <1>2 DEF ProcessV1Data, Types
<1>7. SendingSame(y) /\ ReceivingSame(y) /\ DOMAIN recv_window' = Side
  BY <1>1, <1>5, <1>6 DEF SendingSame, ReceivingSame, Types
<1>8. V1StreamInv(x)' /\ DOMAIN send_window' = Side /\ DOMAIN retransmit_queue' = Side
  BY <1>1, <1>2, <1>3, <1>4, <1>7, AcknowledgementStep
<1>9. /\ V1StreamInv(y)' /\ RecvWindowOK(recv_window'[x]) /\ delivered'[x] \in Seq(Nat)
      /\ Len(delivered[x]) <= Len(delivered'[x])
  <2>. HIDE DEF y
  <2>1. /\ V1StreamInv(y)' /\ RecvWindowOK(recv_window'[Peer(y)])
        /\ delivered'[Peer(y)] \in Seq(Nat) /\ Len(delivered[Peer(y)]) <= Len(delivered'[Peer(y)])
    BY <1>1, <1>2, <1>4, <1>7, StreamTakes
  <2>. QED  BY <2>1, <1>1
<1>10. Types'
  <2>1. RecvWindowOK(recv_window'[y])
    BY <1>1, <1>7 DEF Types, ReceivingSame
  <2>2. \A p \in Side : RecvWindowOK(recv_window'[p])
    BY <2>1, <1>9, PeerProperty
  <2>3. delivered' \in [Side -> Seq(Nat)]
    BY <1>1, <1>6, <1>9 DEF Types
  <2>4. network' \subseteq V1PacketType
    BY <1>1, <1>4 DEF Types
  <2>. QED  BY <2>2, <2>3, <2>4, <1>1, <1>5, <1>7, <1>8 DEF Types
<1>. QED  BY <1>8, <1>9, <1>10, BothEnds

-----------------------------------------------------------------------------
(* The invariant and its consequences *)

\* A fresh receive window.
LEMMA FreshWindow ==
  ASSUME NEW n \in Nat, n - 1 \in Nat
  PROVE  /\ RecvWindowOK(NewRecvWindow(n, n)) /\ NewRecvWindow(n, n).base_seq = n
         /\ NewRecvWindow(n, n).highest_seq = n - 1 /\ NewRecvWindow(n, n).received = {}
         /\ NewRecvWindow(n, n).next_channel_seq = n /\ DOMAIN NewRecvWindow(n, n).reorder_buf = {}
BY SMTT(40), SMTT(41) DEF NewRecvWindow, RecvWindowOK

\* A fresh connection satisfies the invariant.
LEMMA V1InitialState ==
  ASSUME V1Init
  PROVE  V1Inv
<1>1. DOMAIN EmptyWindow = {} /\ Pending(EmptyWindow) = {}
  BY DEF EmptyWindow, Pending
<1>2. InitialSeq \in [Side -> Nat] /\ \A p \in Side : InitialSeq[p] \in Nat
  BY V2Assumption
<1>3. ASSUME NEW p \in Side
      PROVE  /\ RecvWindowOK(recv_window[Peer(p)])
             /\ recv_window[Peer(p)].base_seq = InitialSeq[p] + 1
             /\ recv_window[Peer(p)].highest_seq = InitialSeq[p]
             /\ recv_window[Peer(p)].received = {}
             /\ recv_window[Peer(p)].next_channel_seq = InitialSeq[p] + 1
             /\ DOMAIN recv_window[Peer(p)].reorder_buf = {}
  <2>1. Peer(p) \in Side /\ Peer(Peer(p)) = p
    BY PeerProperty
  <2>2. recv_window[Peer(p)] = NewRecvWindow(InitialSeq[p] + 1, InitialSeq[p] + 1)
    BY <2>1 DEF V1Init
  <2>3. InitialSeq[p] + 1 \in Nat /\ InitialSeq[p] \in Nat /\ (InitialSeq[p] + 1) - 1 = InitialSeq[p]
    BY ONLY <1>2, SMTT(40), SMTT(41)
  <2> DEFINE n == InitialSeq[p] + 1
  <2>4. n \in Nat /\ n - 1 \in Nat
    BY <2>3
  <2>. HIDE DEF n
  <2>5. /\ RecvWindowOK(NewRecvWindow(n, n)) /\ NewRecvWindow(n, n).base_seq = n
        /\ NewRecvWindow(n, n).highest_seq = n - 1 /\ NewRecvWindow(n, n).received = {}
        /\ NewRecvWindow(n, n).next_channel_seq = n /\ DOMAIN NewRecvWindow(n, n).reorder_buf = {}
    BY ONLY <2>4, FreshWindow, Zenon
  <2>. QED  BY <2>2, <2>3, <2>5 DEF n
<1>4. Types
  <2>1. /\ accepted \in [Side -> Nat] /\ next_data_seq \in [Side -> Nat]
        /\ next_channel_seq \in [Side -> Nat]
    <3>1. /\ accepted = [p \in Side |-> 0] /\ next_data_seq = [p \in Side |-> InitialSeq[p] + 1]
          /\ next_channel_seq = [p \in Side |-> InitialSeq[p] + 1]
      BY DEF V1Init
    <3>2. 0 \in Nat /\ \A p \in Side : InitialSeq[p] + 1 \in Nat
      BY ONLY <1>2, SMTT(40), SMTT(41)
    <3>. QED  BY <3>1, <3>2
  <2>2. send_buffer \in [Side -> Seq(Nat)] /\ delivered \in [Side -> Seq(Nat)]
    <3>1. send_buffer = [p \in Side |-> <<>>] /\ delivered = [p \in Side |-> <<>>]
      BY DEF V1Init
    <3>2. <<>> \in Seq(Nat)
      BY ONLY SMTT(40), SMTT(41)
    <3>. QED  BY <3>1, <3>2
  <2>3. /\ DOMAIN send_window = Side /\ DOMAIN retransmit_queue = Side
        /\ DOMAIN recv_window = Side /\ network = {}
    BY DEF V1Init
  <2>4. \A p \in Side : RecvWindowOK(recv_window[p])
    BY <1>3, PeerProperty
  <2>. QED  BY <2>1, <2>2, <2>3, <2>4 DEF Types
<1>5. ASSUME NEW p \in Side  PROVE V1StreamInv(p)
  <2>1. /\ V1First(p) = InitialSeq[p] + 1 /\ next_channel_seq[p] = InitialSeq[p] + 1
        /\ send_window[p] = EmptyWindow /\ retransmit_queue[p] = EmptyWindow
        /\ accepted[p] = 0 /\ send_buffer[p] = <<>> /\ next_data_seq[p] = InitialSeq[p] + 1
        /\ delivered[Peer(p)] = <<>> /\ network = {}
    BY PeerProperty DEF V1Init, V1First
  <2>2. Given(p) = {} /\ InitialSeq[p] \in Nat
    BY ONLY <1>2, <2>1, SMTT(40), SMTT(41) DEF Given
  <2>3. Sending(p)
    <3>1. LowestUnacknowledged(EmptyWindow, InitialSeq[p] + 1) = InitialSeq[p] + 1
      BY <1>1 DEF LowestUnacknowledged
    <3>2. Contiguous(EmptyWindow, InitialSeq[p] + 1)
      BY ONLY <1>1, <2>2, <3>1, SMTT(40), SMTT(41) DEF Contiguous
    <3>3. Len(send_buffer[p]) = 0
      BY ONLY <2>1, SMTT(40), SMTT(41)
    <3>4. /\ next_channel_seq[p] >= V1First(p)
          /\ accepted[p] = (next_channel_seq[p] - V1First(p)) + Len(send_buffer[p])
          /\ 1 .. Len(send_buffer[p]) = {}
      BY ONLY <2>1, <2>2, <3>3, SMTT(40), SMTT(41)
    <3>. QED  BY <1>1, <2>1, <3>2, <3>4 DEF Sending
  <2>4. Kept(p)
    BY <2>2 DEF Kept
  <2>5. Receiving(p)
    <3>1. Len(delivered[Peer(p)]) = 0
      BY ONLY <2>1, SMTT(40), SMTT(41)
    <3> DEFINE rw == recv_window[Peer(p)]
    <3>2. /\ rw.base_seq = InitialSeq[p] + 1 /\ rw.highest_seq = InitialSeq[p]
          /\ rw.received = {} /\ rw.next_channel_seq = InitialSeq[p] + 1 /\ DOMAIN rw.reorder_buf = {}
      BY <1>3
    <3>. HIDE DEF rw
    <3>3. /\ rw.next_channel_seq \in V1First(p) .. next_channel_seq[p]
          /\ Len(delivered[Peer(p)]) = rw.next_channel_seq - V1First(p)
          /\ 1 .. Len(delivered[Peer(p)]) = {}
      BY ONLY <3>1, <3>2, <2>1, <2>2, SMTT(40), SMTT(41)
    <3>4. ~(rw.base_seq <= rw.highest_seq) /\ ~(rw.highest_seq >= V1First(p))
      BY ONLY <3>2, <2>1, <2>2, SMTT(40), SMTT(41)
    <3>. QED  BY <3>2, <3>3, <3>4 DEF Receiving, rw
  <2>6. InFlight(p)
    BY <2>1 DEF InFlight
  <2>. QED  BY <2>3, <2>4, <2>5, <2>6 DEF V1StreamInv
<1>. QED  BY <1>4, <1>5 DEF V1Inv

\* Every step keeps the invariant.
LEMMA V1Step ==
  ASSUME Foundations, V1Inv, [V1Next]_v1vars
  PROVE  V1Inv'
<1>1. ASSUME NEW x \in Side, V1PollTransmit(x)  PROVE V1Inv'
  BY <1>1, V1RetransmitStep, V1SendNewDataStep, V1SendAckStep DEF V1PollTransmit
<1>2. ASSUME NEW x \in Side, NEW m \in network, DropOnClosed(x, m)  PROVE V1Inv'
  BY <1>2, QuietStep DEF DropOnClosed, sendVars, recvVars
<1>3. ASSUME NEW x \in Side, Close(x)  PROVE V1Inv'
  BY <1>3, QuietStep DEF Close, sendVars, recvVars
<1>4. CASE UNCHANGED v1vars
  BY <1>4, QuietStep DEF v1vars, vars, sendVars, recvVars
<1>5. ASSUME NEW m \in network, Lose(m)  PROVE V1Inv'
  BY <1>5, QuietStep DEF Lose, sendVars, recvVars
<1>6. CASE V1Next
  BY <1>1, <1>2, <1>3, <1>5, <1>6, V1SendStep, V1HandleDatagramStep, V1TimeoutStep DEF V1Next
<1>. QED  BY <1>4, <1>6

\* The invariant gives delivery in order.
LEMMA V1Delivers ==
  ASSUME V1Inv
  PROVE  InOrderDelivery
<1>1. ASSUME NEW p \in Side
      PROVE  /\ Len(delivered[Peer(p)]) <= accepted[p]
             /\ \A i \in 1 .. Len(delivered[Peer(p)]) : delivered[Peer(p)][i] = i
  <2> DEFINE got == delivered[Peer(p)]
             rw  == recv_window[Peer(p)]
  <2>1. /\ Len(got) = rw.next_channel_seq - V1First(p)
        /\ rw.next_channel_seq \in V1First(p) .. next_channel_seq[p]
        /\ \A i \in 1 .. Len(got) : got[i] = i
    BY DEF V1Inv, V1StreamInv, Receiving
  <2>2. /\ accepted[p] = (next_channel_seq[p] - V1First(p)) + Len(send_buffer[p])
        /\ next_channel_seq[p] \in Nat /\ V1First(p) \in Nat /\ Len(send_buffer[p]) \in Nat
    BY FirstNumber, SeqLength DEF V1Inv, V1StreamInv, Sending, Types
  <2>. HIDE DEF got, rw
  <2>3. Len(got) <= accepted[p]
    BY <2>1, <2>2, SMTT(40), SMTT(41)
  <2>. QED  BY <2>1, <2>3 DEF got
<1>. QED  BY <1>1 DEF InOrderDelivery

-----------------------------------------------------------------------------
(* The two streams *)

\* A connection is established or closed.
StateOK == state \in [Side -> {"Established", "Closed"}]

LEMMA V1StateStep ==
  ASSUME StateOK, [V1Next]_v1vars
  PROVE  StateOK'
<1>1. CASE UNCHANGED state
  BY <1>1 DEF StateOK
<1>2. ASSUME NEW x \in Side, V1PollTransmit(x) \/ \E m \in network : V1HandleDatagram(x, m)
      PROVE  UNCHANGED state
  BY <1>2 DEF V1PollTransmit, V1Retransmit, V1SendNewData, V1SendAck, V1HandleDatagram
<1>3. ASSUME NEW x \in Side, (\E n \in 1 .. MaxChunks[x] : Send(x, n)) \/ \E m \in network : DropOnClosed(x, m)
      PROVE  UNCHANGED state
  BY <1>3 DEF Send, DropOnClosed
<1>4. ASSUME NEW x \in Side, (\E expired \in SUBSET Timer : HandleTimeout(x, expired)) \/ Close(x)
      PROVE  StateOK'
  BY <1>4 DEF HandleTimeout, Close, StateOK
<1>5. ASSUME NEW m \in network, Lose(m)  PROVE UNCHANGED state
  BY <1>5 DEF Lose
<1>6. CASE UNCHANGED v1vars
  BY <1>6 DEF v1vars, vars, StateOK
<1>. QED  BY <1>1, <1>2, <1>3, <1>4, <1>5, <1>6 DEF V1Next

LEMMA V1StreamStarts ==
  ASSUME V1Init
  PROVE  Stream!Init
BY DEF V1Init, Stream!Init

\* handle_datagram delivers the next chunks of the stream, or none.
LEMMA V1StreamDelivers ==
  ASSUME Foundations, V1Inv, V1Inv', NEW x \in Side, NEW m \in network, V1HandleDatagram(x, m)
  PROVE  \/ UNCHANGED Stream!vars
         \/ \E n \in 1 .. accepted[Peer(x)] : Stream!Deliver(x, n)
<1> DEFINE s == delivered[x]
           t == delivered'[x]
           n == Len(t) - Len(s)
<1>1. state[x] = "Established" /\ UNCHANGED <<state, accepted>>
  BY DEF V1HandleDatagram, ProcessV1Acknowledgement
<1>2. accepted \in [Side -> Nat] /\ delivered \in [Side -> Seq(Nat)] /\ delivered' \in [Side -> Seq(Nat)]
  BY DEF V1Inv, Types
<1>3. delivered' = [delivered EXCEPT ![x] = t]
  BY <1>2 DEF V1HandleDatagram, ProcessV1Data
<1>4. Len(s) <= Len(t)
  BY V1HandleDatagramStep
<1>5. InOrderDelivery /\ InOrderDelivery'
  <2>1. InOrderDelivery
    BY V1Delivers
  <2>2. V1Inv' => InOrderDelivery'
    BY V1Delivers, PTL
  <2>. QED  BY <2>1, <2>2
<1>6. /\ s \in Seq(Nat) /\ \A i \in 1 .. Len(s) : s[i] = i
      /\ t \in Seq(Nat) /\ \A i \in 1 .. Len(t) : t[i] = i
      /\ Len(t) <= accepted[Peer(x)]
  BY <1>1, <1>2, <1>5, PeerProperty DEF InOrderDelivery
<1>7. Len(s) \in Nat /\ Len(t) \in Nat /\ accepted[Peer(x)] \in Nat
  BY <1>2, PeerProperty, SeqLength
<1>8. t = s \o [i \in 1 .. n |-> Len(s) + i]
  BY <1>4, <1>6, CountingSequence
<1>9. CASE n = 0
  <2>1. t = s
    <3>1. s \in Seq(Nat) /\ t \in Seq(Nat) /\ Len(t) = Len(s)
      <4>. HIDE DEF s, t
      <4>1. Len(t) = Len(s)
        BY ONLY <1>7, <1>9, SMTT(40), SMTT(41) DEF n
      <4>. QED  BY <1>6, <4>1
    <3>. HIDE DEF s, t
    <3>2. \A i \in 1 .. Len(s) : t[i] = s[i]
      <4>1. \A i \in 1 .. Len(s) : s[i] = i /\ t[i] = i
        BY <1>6, <3>1
      <4>. QED  BY <4>1
    <3>. QED  BY ONLY <3>1, <3>2, SMTT(40), SMTT(41)
  <2>2. delivered' = delivered
    BY <1>2, <1>3, <2>1
  <2>. QED  BY <1>1, <2>2 DEF Stream!vars
<1>10. CASE n # 0
  <2>1. n \in 1 .. accepted[Peer(x)] /\ Len(s) + n <= accepted[Peer(x)]
    <3>. HIDE DEF s, t
    <3>1. Len(t) <= accepted[Peer(x)]
      BY <1>6
    <3>. QED  BY ONLY <1>4, <3>1, <1>7, <1>10, SMTT(40), SMTT(41)
  <2>. HIDE DEF n
  <2>2. delivered' = [delivered EXCEPT ![x] = s \o [i \in 1 .. n |-> Len(s) + i]]
    BY <1>3, <1>8
  <2>3. Stream!Deliver(x, n)
    BY <1>1, <2>1, <2>2 DEF Stream!Deliver
  <2>. QED  BY <2>1, <2>3
<1>. QED  BY <1>9, <1>10

\* Every step is a step of the two streams or leaves them alone.
LEMMA V1StreamStep ==
  ASSUME Foundations, V1Inv, V1Inv', StateOK, [V1Next]_v1vars
  PROVE  [Stream!Next]_(Stream!vars)
<1>1. state \in [Side -> {"Established", "Closed"}] /\ accepted \in [Side -> Nat]
  BY DEF V1Inv, Types, StateOK
<1> DEFINE isOpen == [p \in Side |-> state[p] = "Established"]
<1>2. ASSUME UNCHANGED <<state, accepted, delivered>>
      PROVE  UNCHANGED Stream!vars
  BY <1>2 DEF Stream!vars
<1>3. ASSUME NEW x \in Side, NEW n \in 1 .. MaxChunks[x], Send(x, n)
      PROVE  Stream!Accept(x)
  <2>1. state[x] = "Established" /\ UNCHANGED <<state, delivered>> /\ accepted' = [accepted EXCEPT ![x] = @ + n]
    BY <1>3 DEF Send, recvVars
  <2>2. n \in Nat /\ n >= 1
    BY V2Assumption, SMTT(40), SMTT(41)
  <2>3. accepted'[x] = accepted[x] + n /\ accepted[x] \in Nat
    BY <1>1, <2>1
  <2>4. accepted'[x] > accepted[x]
    BY ONLY <2>2, <2>3, SMTT(40), SMTT(41)
  <2>5. accepted' = [accepted EXCEPT ![x] = accepted'[x]]
    BY <1>1, <2>1, <2>3
  <2>. QED  BY <2>1, <2>4, <2>5 DEF Stream!Accept
<1>4. ASSUME NEW x \in Side, state[x] = "Established", state' = [state EXCEPT ![x] = "Closed"],
             UNCHANGED <<accepted, delivered>>
      PROVE  Stream!Close(x)
  <2>1. [p \in Side |-> state'[p] = "Established"] = [isOpen EXCEPT ![x] = FALSE]
    BY <1>1, <1>4
  <2>. QED  BY <1>4, <2>1 DEF Stream!Close
<1>5. ASSUME NEW x \in Side, NEW expired \in SUBSET Timer, HandleTimeout(x, expired)
      PROVE  UNCHANGED Stream!vars \/ Stream!Close(x)
  <2>1. UNCHANGED <<accepted, delivered>>
    BY <1>5 DEF HandleTimeout, sendVars, OnRetransmitTimeout
  <2>2. /\ state[x] = "Established"
        /\ state' = [state EXCEPT ![x] = IF "Idle" \in expired THEN "Closed" ELSE @]
    BY <1>5 DEF HandleTimeout
  <2>3. CASE "Idle" \in expired
    BY <1>4, <2>1, <2>2, <2>3
  <2>4. CASE "Idle" \notin expired
    BY <1>1, <1>2, <2>1, <2>2, <2>4
  <2>. QED  BY <2>3, <2>4
<1>6. ASSUME NEW x \in Side, Close(x)
      PROVE  Stream!Close(x)
  BY <1>4, <1>6 DEF Close, sendVars, recvVars
<1>7. ASSUME NEW x \in Side, V1PollTransmit(x)
      PROVE  UNCHANGED Stream!vars
  BY <1>2, <1>7 DEF V1PollTransmit, V1Retransmit, V1SendNewData, V1SendAck, sendVars
<1>8. ASSUME NEW m \in network, Lose(m) \/ \E x \in Side : DropOnClosed(x, m)
      PROVE  UNCHANGED Stream!vars
  BY <1>2, <1>8 DEF DropOnClosed, Lose, sendVars, recvVars
<1>9. CASE UNCHANGED v1vars
  BY <1>2, <1>9 DEF v1vars, vars, sendVars, recvVars
<1>10. ASSUME NEW x \in Side,
              \/ Stream!Accept(x)
              \/ \E n \in 1 .. accepted[Peer(x)] : Stream!Deliver(x, n)
              \/ Stream!Close(x)
       PROVE  Stream!Next
  BY <1>10 DEF Stream!Next
<1>11. CASE V1Next
  <2>. HIDE DEF Stream!Next, Stream!vars
  <2>1. ASSUME NEW x \in Side, NEW m \in network, V1HandleDatagram(x, m) \/ DropOnClosed(x, m)
        PROVE  [Stream!Next]_(Stream!vars)
    BY <1>8, <1>10, <2>1, V1StreamDelivers
  <2>2. ASSUME NEW x \in Side, NEW expired \in SUBSET Timer, HandleTimeout(x, expired)
        PROVE  [Stream!Next]_(Stream!vars)
    BY <1>5, <1>10, <2>2
  <2>. QED  BY <1>3, <1>6, <1>7, <1>8, <1>10, <1>11, <2>1, <2>2 DEF V1Next
<1>. QED  BY <1>9, <1>11

-----------------------------------------------------------------------------
(* The theorems *)

INSTANCE FiniteSetTheorems

\* The facts about finite sets and well-founded orders hold.
LEMMA FoundationsHold == Foundations
<1>1. NaturalsWellOrdered
  <2>1. ASSUME NEW S \in SUBSET Nat, S # {}
        PROVE  \E x \in S : \A y \in S : x <= y
    <3>1. PICK x \in S : \A y \in S : ~(<<y, x>> \in OpToRel(<, Nat))
      BY <2>1, NatLessThanWellFounded, WFMin, Zenon
    <3>2. \A y \in S : ~(y < x)
      BY <3>1 DEF OpToRel
    <3>. QED  BY <3>2, SMTT(40), SMTT(41)
  <2>. QED  BY <2>1 DEF NaturalsWellOrdered
<1>2. IntervalsFinite
  <2>1. ASSUME NEW a \in Nat, NEW b \in Nat
        PROVE  /\ IsFiniteSet(a .. (b - 1))
               /\ a <= b => Cardinality(a .. (b - 1)) = b - a
               /\ \A S \in SUBSET (a .. (b - 1)) : Cardinality(S) \in Nat
    <3>1. a \in Int /\ b - 1 \in Int
      BY SMTT(40), SMTT(41)
    <3>2. /\ IsFiniteSet(a .. (b - 1))
          /\ Cardinality(a .. (b - 1)) = IF a > b - 1 THEN 0 ELSE (b - 1) - a + 1
      BY <3>1, FS_Interval
    <3>3. \A S \in SUBSET (a .. (b - 1)) : Cardinality(S) \in Nat
      BY <3>2, FS_Subset, FS_CardinalityType
    <3>4. a <= b => (IF a > b - 1 THEN 0 ELSE (b - 1) - a + 1) = b - a
      BY ONLY a \in Nat, b \in Nat, SMTT(40), SMTT(41)
    <3>. QED  BY <3>2, <3>3, <3>4
  <2>. QED  BY <2>1 DEF IntervalsFinite
<1>. QED  BY <1>1, <1>2 DEF Foundations

\* The invariant, for every window, width, vector and number of faults.
THEOREM V1Invariance == V1Spec => []V1Inv
<1>1. V1Init => V1Inv
  BY V1InitialState
<1>2. V1Inv /\ [V1Next]_v1vars => V1Inv'
  BY V1Step, FoundationsHold
<1>. QED  BY <1>1, <1>2, PTL DEF V1Spec

\* In version 1 too each application receives a prefix of what the other one
\* sent: nothing out of order, twice, or that was not sent (process_v1_data,
\* drain_ordered, try_retransmit).
THEOREM V1InOrder == V1Spec => []InOrderDelivery
BY V1Invariance, V1Delivers, PTL

\* No chunk given a Source number is lost by the two ends: it is at the peer,
\* or waits in exactly one place for an acknowledgement or to be sent again
\* (process_v1_acknowledgement, declare_lost, try_retransmit).
THEOREM V1NothingForgotten == V1Spec => []V1NoChunkForgotten
<1>1. V1Inv => V1NoChunkForgotten
  BY DEF V1Inv, V1StreamInv, Kept, Given, V1NoChunkForgotten
<1>. QED  BY <1>1, V1Invariance, PTL

\* An acknowledgement vector in flight reports only what its sender holds,
\* however late it is and wherever it was cut (build_v1_ack_parts).
THEOREM V1AcksTrue == V1Spec => []V1AcksTruthful
<1>1. V1Inv => V1AcksTruthful
  <2>1. ASSUME V1Inv, NEW m \in network
        PROVE  Peer(m.src) \in Side /\ Peer(Peer(m.src)) = m.src /\ VectorTrue(Peer(m.src), m)
    <3>1. m.src \in Side
      BY <2>1 DEF V1Inv, Types, V1PacketType
    <3>. QED  BY <2>1, <3>1, PeerProperty DEF V1Inv, V1StreamInv, InFlight
  <2>. QED  BY <2>1 DEF V1AcksTruthful, VectorTrue
<1>. QED  BY <1>1, V1Invariance, PTL

\* A version 1 connection implements the same two ordered streams as a
\* version 3 one (send, process_v1_data, handle_timeout, close).
THEOREM V1RefinesStream == V1Spec => ImplementsStream
<1>1. V1Init => StateOK /\ Stream!Init
  BY V1StreamStarts DEF V1Init, StateOK
<1>2. StateOK /\ [V1Next]_v1vars => StateOK'
  BY V1StateStep
<1>3. V1Inv /\ V1Inv' /\ StateOK /\ [V1Next]_v1vars => [Stream!Next]_(Stream!vars)
  BY V1StreamStep, FoundationsHold
<1>. QED  BY <1>1, <1>2, <1>3, V1Invariance, PTL DEF V1Spec, ImplementsStream, Stream!Spec
=============================================================================
