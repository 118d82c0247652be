-------------------------- MODULE RdpeudpV2Proofs ---------------------------
(***************************************************************************)
(* The safety properties of RdpeudpV2 for every window size, sequence      *)
(* number width, congestion constant, number of chunks and number of       *)
(* faults.                                                                 *)
(*                                                                         *)
(* TypeOK and StreamsInv are inductive: the initial states satisfy them   *)
(* and every action keeps them.  There is one lemma per action, which says *)
(* in which of the ways of RdpeudpV2StreamLemmas it touches each of the    *)
(* two streams: an acknowledgement and a timeout resolve packets of one    *)
(* stream, data extends the other.                                         *)
(* What the timers serve, the bound of the receive window and the          *)
(* refinement of the two streams follow from them, step by step.           *)
(***************************************************************************)
EXTENDS RdpeudpV2StreamLemmas, RdpeudpV2Stream, TLAPS

USE ZenonT(5), SMTT(40), ZenonT(30), SMTT(41)

-----------------------------------------------------------------------------
(* The actions *)

\* send appends to the buffer of its own stream.
LEMMA SendStep ==
  ASSUME TypeOK, StreamsInv, NEW x \in Side, NEW n \in 1 .. MaxChunks[x], Send(x, n)
  PROVE  TypeOK' /\ StreamsInv'
<1> DEFINE run == [i \in 1 .. n |-> accepted[x] + i]
           chan == next_channel_seq[x]
           buf == send_buffer[x]
<1>1. /\ n \in Nat /\ accepted[x] \in Nat /\ buf \in Seq(Nat) /\ chan \in Nat
      /\ x \in DOMAIN send_buffer /\ x \in DOMAIN accepted
  BY V2Assumption, SMTT(40), SMTT(41) DEF TypeOK
<1>2. StreamInv(x) /\ StreamInv(Peer(x))
  BY BothStreams
<1>3. /\ accepted[x] = chan - 1 + Len(buf) /\ \A i \in 1 .. Len(buf) : buf[i] = (chan - 1) + i
      /\ Len(buf) \in Nat
  BY <1>1, <1>2, SeqLength DEF StreamInv, SenderNumbering
<1>4. run \in [1 .. n -> Nat] /\ \A i \in 1 .. n : run[i] = (chan - 1) + Len(buf) + i
  BY <1>1, <1>3, SMTT(40), SMTT(41)
<1>5. send_buffer' = [send_buffer EXCEPT ![x] = buf \o run] /\ accepted' = [accepted EXCEPT ![x] = @ + n]
  BY DEF Send
<1>. HIDE DEF run
<1>6. /\ buf \o run \in Seq(Nat) /\ Len(buf \o run) = Len(buf) + n
      /\ \A i \in 1 .. Len(buf \o run) : (buf \o run)[i] = (chan - 1) + i
  <2>1. chan - 1 \in Int
    BY <1>1, SMTT(40), SMTT(41)
  <2>. HIDE DEF chan, buf
  <2>2. buf \in Seq(Nat) /\ n \in Nat
    BY <1>1
  <2>3. \A i \in 1 .. Len(buf) : buf[i] = (chan - 1) + i
    BY <1>3
  <2>. QED  BY ONLY <2>1, <2>2, <2>3, <1>4, CountOn, Zenon
<1>7. TypeOK'
  <2>1. send_buffer' \in [Side -> Seq(Nat)]
    <3>1. send_buffer \in [Side -> Seq(Nat)]
      BY DEF TypeOK
    <3>. HIDE DEF buf
    <3>. QED  BY ONLY <3>1, <1>5, <1>6
  <2>2. accepted' \in [Side -> Nat]
    BY <1>1, <1>5, SMTT(40), SMTT(41) DEF TypeOK
  <2>. QED  BY <2>1, <2>2 DEF TypeOK, Send, recvVars
<1>8. StreamInv(Peer(x))'
  <2>1. SenderSame(Peer(x)) /\ ReceiverSame(Peer(Peer(x))) /\ network' \subseteq network
    BY PeerProperty DEF Send, recvVars, SenderSame, ReceiverSame, TypeOK
  <2>. QED  BY <2>1, <1>2, PeerProperty, StreamAlone
<1>9. StreamInv(x)'
  <2>. USE <1>2 DEF Send, recvVars, Low, Got, AtPeer
  <2>1. ChunksKept(x)' /\ WindowBounded(x)' /\ HolesCovered(x)'
    BY DEF StreamInv, ChunksKept, WindowBounded, HolesCovered, PendingUnder, QueuedUnder
  <2>2. BehindWindow(x)' /\ ReceiverNumbering(x)' /\ Agreement(x)'
    BY DEF StreamInv, BehindWindow, ReceiverNumbering, Agreement
  <2>3. DataInFlight(x)' /\ AcksInFlight(x)'
    BY DEF StreamInv, DataInFlight, AcksInFlight
  <2>4. SenderNumbering(x)'
    <3>1. /\ send_buffer'[x] = buf \o run /\ accepted'[x] = accepted[x] + n
      BY <1>1, <1>5
    <3>2. /\ accepted'[x] = chan - 1 + Len(send_buffer'[x])
          /\ \A i \in 1 .. Len(send_buffer'[x]) : send_buffer'[x][i] = chan - 1 + i
      <4>. HIDE DEF chan, buf
      <4>. QED  BY ONLY <3>1, <1>1, <1>3, <1>6, SMTT(40), SMTT(41)
    <3>. QED  BY <3>2 DEF StreamInv, SenderNumbering
  <2>. QED  BY <2>1, <2>2, <2>3, <2>4 DEF StreamInv
<1>. QED  BY <1>7, <1>8, <1>9, BothStreams

\* Losing a datagram takes it out of the network and nothing else.
LEMMA LoseStep ==
  ASSUME TypeOK, StreamsInv, NEW m \in network, Lose(m)
  PROVE  TypeOK' /\ StreamsInv'
<1>1. TypeOK'
  BY SMTT(40), SMTT(41) DEF TypeOK, Lose, Occurs, sendVars, recvVars, Fault
<1>2. \A p \in Side : SenderSame(p) /\ ReceiverSame(Peer(p)) /\ network' \subseteq network
  BY DEF Lose, sendVars, recvVars, SenderSame, ReceiverSame
<1>. QED  BY <1>1, <1>2, StreamAlone DEF StreamsInv

\* A closed side takes a datagram out of the network and nothing else.
LEMMA DropStep ==
  ASSUME TypeOK, StreamsInv, NEW x \in Side, NEW m \in network, DropOnClosed(x, m)
  PROVE  TypeOK' /\ StreamsInv'
<1>1. TypeOK'
  BY DEF TypeOK, DropOnClosed, sendVars, recvVars
<1>2. \A p \in Side : SenderSame(p) /\ ReceiverSame(Peer(p)) /\ network' \subseteq network
  BY DEF DropOnClosed, sendVars, recvVars, SenderSame, ReceiverSame
<1>. QED  BY <1>1, <1>2, StreamAlone DEF StreamsInv

\* Closing touches neither stream.
LEMMA CloseStep ==
  ASSUME TypeOK, StreamsInv, NEW x \in Side, Close(x)
  PROVE  TypeOK' /\ StreamsInv'
<1>1. TypeOK'
  BY DEF TypeOK, Close, sendVars, recvVars
<1>2. \A p \in Side : SenderSame(p) /\ ReceiverSame(Peer(p)) /\ network' \subseteq network
  BY DEF Close, sendVars, recvVars, SenderSame, ReceiverSame
<1>. QED  BY <1>1, <1>2, StreamAlone DEF StreamsInv

\* The acknowledgements that are built have the type of the wire form.
LEMMA AckTyped ==
  ASSUME TypeOK, StreamsInv, NEW x \in Side
  PROVE  Acknowledgement(x) \in AckType /\ NoAck \in AckType
<1> DEFINE rw == recv_window[x]
<1>1. rw.base_seq \in Nat /\ rw.highest_seq \in Nat /\ rw.received \subseteq Nat
  BY DEF TypeOK, RecvWindowOK
<1>2. \A d \in rw.received : d >= rw.base_seq
  <2>1. ReceiverNumbering(Peer(x))
    BY BothStreams DEF StreamInv
  <2>. QED  BY <2>1, PeerProperty DEF ReceiverNumbering
<1>3. AckVectorOffsets(rw) \subseteq Nat
  BY <1>1, <1>2, SMTT(40), SMTT(41) DEF AckVectorOffsets
<1>. QED  BY <1>1, <1>3 DEF Acknowledgement, NoAck, AckType, SeqNums

\* Sending data: the sender's stream gains a packet, the other stream an
\* acknowledgement.
LEMMA TransmitStep ==
  ASSUME Foundations, TypeOK, StreamsInv, NEW x \in Side, NEW c \in Nat, TransmitData(x, c, c),
         HasCapacity(send_window[x], Window[x]), TakesQueued(x, c) \/ TakesNew(x, c),
         UNCHANGED <<state, accepted, congestion, pending_ack_of_acks, delivered, faults>>,
         DOMAIN retransmit_queue' = Side,
         \/ retransmit_queue' = retransmit_queue
         \/ retransmit_queue' = [retransmit_queue EXCEPT ![x] = Dequeue(@)],
         \/ send_buffer' = send_buffer
         \/ send_buffer[x] # <<>> /\ send_buffer' = [send_buffer EXCEPT ![x] = Tail(@)],
         \/ next_channel_seq' = next_channel_seq
         \/ next_channel_seq' = [next_channel_seq EXCEPT ![x] = @ + 1]
  PROVE  TypeOK' /\ StreamsInv'
<1> DEFINE y == Peer(x)
           m == DataPacket(x, next_data_seq[x], c, c)
<1>1. StreamInv(x) /\ StreamInv(y) /\ y \in Side /\ y # x /\ Peer(y) = x
  BY BothStreams, PeerProperty
<1>2. /\ send_window' = [send_window EXCEPT ![x] = Push(@, next_data_seq[x], c, c)]
      /\ next_data_seq' = [next_data_seq EXCEPT ![x] = @ + 1]
      /\ network' = network \cup {m}
      /\ IF ack_pending[x]
         THEN /\ recv_window' = [recv_window EXCEPT ![x] = ReleaseAcknowledged(@)]
              /\ ack_pending' = [ack_pending EXCEPT ![x] = FALSE]
         ELSE recv_window' = recv_window /\ ack_pending' = ack_pending
      /\ timers' = [timers EXCEPT ![x] = (IF ack_pending[x] THEN @ \ {"AckDelay"} ELSE @)
                                           \cup {"Retransmit", "KeepAlive"}]
  BY DEF TransmitData, CommitAcknowledgement
<1>3. /\ m.src = x /\ m.data_seq = next_data_seq[x] /\ m.channel_seq = c /\ m.data = c
      /\ m.ack_of_acks = pending_ack_of_acks[x]
      /\ m.ack = IF ack_pending[x] THEN Acknowledgement(x) ELSE NoAck
      /\ m \in PacketType
  BY AckTyped DEF DataPacket, PacketType, TypeOK, SeqNums
<1>. HIDE DEF m
<1>4. /\ DOMAIN send_window = Side /\ DOMAIN recv_window = Side /\ next_data_seq[x] \in Nat
      /\ DOMAIN retransmit_queue = Side
  BY DEF TypeOK
<1>5. /\ recv_window'[y] = recv_window[y] /\ delivered' = delivered
      /\ send_window'[y] = send_window[y] /\ next_data_seq'[y] = next_data_seq[y]
      /\ send_window'[x] = Push(send_window[x], next_data_seq[x], c, c)
      /\ next_data_seq'[x] = next_data_seq[x] + 1
      /\ retransmit_queue'[y] = retransmit_queue[y]
      /\ send_buffer'[y] = send_buffer[y] /\ next_channel_seq'[y] = next_channel_seq[y]
      /\ DOMAIN send_window' = Side /\ DOMAIN recv_window' = Side
  BY <1>1, <1>2, <1>4 DEF TypeOK
<1>6. StreamInv(x)'
  <2>1. ReceiverSame(Peer(x))
    BY <1>5 DEF ReceiverSame
  <2>2. StreamInv(x) /\ network' = network \cup {m}
    BY <1>1, <1>2
  <2>. QED  BY <2>1, <2>2, <1>1, <1>2, <1>3, <1>5, StreamSent
<1>7. StreamInv(y)' /\ RecvWindowOK(recv_window'[x])
  <2>1. SenderSame(y)
    BY <1>5 DEF SenderSame
  <2>2. \/ m.ack = NoAck /\ recv_window'[x] = recv_window[x]
        \/ m.ack = Acknowledgement(x) /\ recv_window'[x] = ReleaseAcknowledged(recv_window[x])
    BY <1>2, <1>3, <1>4
  <2>. HIDE DEF y
  <2>3. StreamInv(y)' /\ RecvWindowOK(recv_window'[Peer(y)])
    BY <2>1, <2>2, <1>1, <1>2, <1>3, <1>5, StreamAcked
  <2>. QED  BY <2>3, <1>1
<1>8. TypeOK'
  <2>1. /\ next_data_seq' \in [Side -> Nat \ {0}] /\ ack_pending' \in [Side -> BOOLEAN]
        /\ timers' \in [Side -> SUBSET Timer] /\ network' \subseteq PacketType
    <3>1. next_data_seq' \in [Side -> Nat \ {0}]
      <4>1. next_data_seq \in [Side -> Nat \ {0}] /\ next_data_seq[x] \in Nat
        BY DEF TypeOK
      <4>2. next_data_seq[x] + 1 \in Nat \ {0}
        BY ONLY <4>1, SMTT(40), SMTT(41)
      <4>. QED  BY <1>2, <4>1, <4>2
    <3>2. ack_pending' \in [Side -> BOOLEAN]
      <4>1. ack_pending \in [Side -> BOOLEAN]
        BY DEF TypeOK
      <4>2. ack_pending' = ack_pending \/ ack_pending' = [ack_pending EXCEPT ![x] = FALSE]
        BY <1>2
      <4>. QED  BY ONLY <4>1, <4>2, ZenonT(30)
    <3>3. timers' \in [Side -> SUBSET Timer]
      <4>1. timers \in [Side -> SUBSET Timer] /\ {"Retransmit", "KeepAlive"} \subseteq Timer
        BY DEF TypeOK, Timer
      <4> DEFINE kept == IF ack_pending[x] THEN timers[x] \ {"AckDelay"} ELSE timers[x]
      <4>2. /\ timers' = [timers EXCEPT ![x] = kept \cup {"Retransmit", "KeepAlive"}]
            /\ kept \subseteq timers[x]
        BY <1>2
      <4>. HIDE DEF kept
      <4>. QED  BY ONLY <4>1, <4>2, ZenonT(30)
    <3>4. network' \subseteq PacketType
      BY <1>2, <1>3 DEF TypeOK
    <3>. QED  BY <3>1, <3>2, <3>3, <3>4
  <2>2. send_buffer' \in [Side -> Seq(Nat)]
    <3>1. send_buffer[x] # <<>> => Tail(send_buffer[x]) \in Seq(Nat)
      BY SeqTail DEF TypeOK
    <3>. QED  BY <3>1 DEF TypeOK
  <2>3. next_channel_seq' \in [Side -> Nat]
    BY SMTT(40), SMTT(41) DEF TypeOK
  <2>4. \A p \in Side : RecvWindowOK(recv_window'[p])
    <3>1. RecvWindowOK(recv_window'[y])
      BY <1>1, <1>5 DEF TypeOK
    <3>. QED  BY <3>1, <1>7, PeerProperty
  <2>5. \A p \in Side : /\ DOMAIN send_window'[p] \subseteq Nat
                        /\ \A d \in DOMAIN send_window'[p] : send_window'[p][d] \in EntryType
    <3>1. /\ DOMAIN send_window'[x] \subseteq Nat
          /\ \A d \in DOMAIN send_window'[x] : send_window'[x][d] \in EntryType
      <4> DEFINE w == send_window[x]
                 n == next_data_seq[x]
      <4>1. DOMAIN w \subseteq Nat /\ n \in Nat /\ c \in Nat /\ \A d \in DOMAIN w : w[d] \in EntryType
        BY <1>1, <1>4 DEF TypeOK
      <4>2. send_window'[x] = Push(w, n, c, c)
        BY <1>5
      <4>. HIDE DEF w, n
      <4>3. /\ DOMAIN Push(w, n, c, c) \subseteq Nat
            /\ \A d \in DOMAIN Push(w, n, c, c) : Push(w, n, c, c)[d] \in EntryType
        BY ONLY <4>1, SMTT(40), SMTT(41) DEF Push, EntryType
      <4>. QED  BY <4>2, <4>3
    <3>2. /\ DOMAIN send_window'[y] \subseteq Nat
          /\ \A d \in DOMAIN send_window'[y] : send_window'[y][d] \in EntryType
      BY <1>1, <1>5 DEF TypeOK
    <3>. QED  BY <3>1, <3>2, PeerProperty
  <2>6. \A p \in Side : /\ DOMAIN retransmit_queue'[p] \subseteq Nat
                        /\ \A d \in DOMAIN retransmit_queue'[p] :
                             retransmit_queue'[p][d] \in QueueEntryType
    <3>1. /\ DOMAIN retransmit_queue'[x] \subseteq Nat
          /\ \A d \in DOMAIN retransmit_queue'[x] : retransmit_queue'[x][d] \in QueueEntryType
      BY <1>4, SMTT(40), SMTT(41) DEF Dequeue, Restrict, TypeOK
    <3>2. /\ DOMAIN retransmit_queue'[y] \subseteq Nat
          /\ \A d \in DOMAIN retransmit_queue'[y] : retransmit_queue'[y][d] \in QueueEntryType
      BY <1>1, <1>5 DEF TypeOK
    <3>. QED  BY <3>1, <3>2, PeerProperty
  <2>. QED  BY <2>1, <2>2, <2>3, <2>4, <2>5, <2>6, <1>5 DEF TypeOK
<1>. QED  BY <1>6, <1>7, <1>8, BothStreams

\* try_retransmit sends the front of the queue.
LEMMA RetransmitStep ==
  ASSUME Foundations, TypeOK, StreamsInv, NEW x \in Side, Retransmit(x)
  PROVE  TypeOK' /\ StreamsInv'
<1> DEFINE front == Min(DOMAIN retransmit_queue[x])
           c == retransmit_queue[x][front].channel_seq
<1>1. DOMAIN retransmit_queue[x] # {} /\ HasCapacity(send_window[x], Window[x])
  BY DEF Retransmit, CanRetransmit, MayTransmit
<1>2. front \in DOMAIN retransmit_queue[x]
  BY <1>1, MinProperty DEF TypeOK
<1>3. SenderNumbering(x)
  BY BothStreams DEF StreamInv
<1>4. c \in Nat /\ retransmit_queue[x][front].data = c
  BY <1>2, <1>3 DEF SenderNumbering, TypeOK, QueueEntryType
<1>5. TransmitData(x, c, c)
  BY <1>4 DEF Retransmit, QueueFront
<1>6. /\ retransmit_queue' = [retransmit_queue EXCEPT ![x] = Dequeue(@)]
      /\ UNCHANGED <<state, accepted, send_buffer, next_channel_seq, congestion,
                     pending_ack_of_acks, delivered, faults>>
  BY DEF Retransmit
<1>7. DOMAIN retransmit_queue' = Side /\ retransmit_queue'[x] = Dequeue(retransmit_queue[x])
  BY <1>6 DEF TypeOK
<1>8. TakesQueued(x, c)
  BY <1>1, <1>6, <1>7 DEF TakesQueued
<1>. HIDE DEF c
<1>. QED  BY <1>1, <1>4, <1>5, <1>6, <1>7, <1>8, TransmitStep

\* try_send_new_data sends the front of the buffer.
LEMMA SendNewDataStep ==
  ASSUME Foundations, TypeOK, StreamsInv, NEW x \in Side, SendNewData(x)
  PROVE  TypeOK' /\ StreamsInv'
<1> DEFINE c == next_channel_seq[x]
<1>1. send_buffer[x] # <<>> /\ HasCapacity(send_window[x], Window[x])
  BY DEF SendNewData, CanSendNewData, MayTransmit
<1>2. SenderNumbering(x)
  BY BothStreams DEF StreamInv
<1>3. c \in Nat /\ send_buffer[x] \in Seq(Nat)
  BY DEF TypeOK
<1>4. Head(send_buffer[x]) = c
  <2>1. Len(send_buffer[x]) \in Nat /\ Len(send_buffer[x]) >= 1
    BY <1>1, <1>3, SeqTail, SMTT(40), SMTT(41)
  <2>2. send_buffer[x][1] = c - 1 + 1
    BY <1>2, <2>1, SMTT(40), SMTT(41) DEF SenderNumbering
  <2>. QED  BY <1>1, <1>3, <2>2, SMTT(40), SMTT(41)
<1>5. TransmitData(x, c, c)
  BY <1>4 DEF SendNewData
<1>6. /\ send_buffer' = [send_buffer EXCEPT ![x] = Tail(@)]
      /\ next_channel_seq' = [next_channel_seq EXCEPT ![x] = @ + 1]
      /\ UNCHANGED <<state, accepted, retransmit_queue, congestion, pending_ack_of_acks,
                     delivered, faults>>
  BY DEF SendNewData
<1>7. TakesNew(x, c) /\ DOMAIN retransmit_queue' = Side
  BY <1>1, <1>6 DEF TakesNew, TypeOK
<1>. HIDE DEF c
<1>. QED  BY <1>1, <1>3, <1>5, <1>6, <1>7, TransmitStep

\* A packet without data adds nothing to its sender's stream but the
\* AckOfAcks it repeats.
LEMMA StreamRepeated ==
  ASSUME NEW p \in Side, StreamInv(p), SenderSame(p), ReceiverSame(Peer(p)),
         NEW m, network' = network \cup {m}, m.src = p, m.data_seq = NoSeq,
         m.ack_of_acks = pending_ack_of_acks[p]
  PROVE  StreamInv(p)'
<1>1. Low(p)' = Low(p)
  BY DEF Low, SenderSame
<1>2. \A c \in Nat : AtPeer(p, c)' <=> AtPeer(p, c)
  BY DEF AtPeer, ReceiverSame
<1>3. \A d : Got(p, d)' <=> Got(p, d)
  BY DEF Got, ReceiverSame
<1>4. ChunksKept(p)' /\ WindowBounded(p)' /\ HolesCovered(p)' /\ SenderNumbering(p)'
  BY <1>1 DEF StreamInv, ChunksKept, WindowBounded, HolesCovered, SenderNumbering, SenderSame,
              ReceiverSame, PendingUnder, QueuedUnder, AtPeer, Got
<1>5. ReceiverNumbering(p)' /\ Agreement(p)'
  BY DEF StreamInv, ReceiverNumbering, Agreement, SenderSame, ReceiverSame, AtPeer, Got
<1>6. BehindWindow(p)'
  BY <1>1 DEF StreamInv, BehindWindow, SenderSame
<1>7. DataInFlight(p)'
  BY DEF StreamInv, DataInFlight, SenderSame
<1>8. AcksInFlight(p)'
  BY PeerProperty, SMTT(40), SMTT(41) DEF StreamInv, AcksInFlight, ReceiverSame, Got
<1>. QED  BY <1>4, <1>5, <1>6, <1>7, <1>8 DEF StreamInv

\* A standalone acknowledgement.
LEMMA SendAckStep ==
  ASSUME Foundations, TypeOK, StreamsInv, NEW x \in Side, SendAck(x)
  PROVE  TypeOK' /\ StreamsInv'
<1> DEFINE y == Peer(x)
           m == AckPacket(x)
<1>1. StreamInv(x) /\ StreamInv(y) /\ y \in Side /\ y # x /\ Peer(y) = x
  BY BothStreams, PeerProperty
<1>2. /\ network' = network \cup {m}
      /\ recv_window' = [recv_window EXCEPT ![x] = ReleaseAcknowledged(@)]
      /\ ack_pending' = [ack_pending EXCEPT ![x] = FALSE]
      /\ timers' = [timers EXCEPT ![x] = (@ \ {"AckDelay"}) \cup {"KeepAlive"}]
      /\ UNCHANGED <<state, accepted, send_buffer, send_window, next_data_seq, next_channel_seq,
                     retransmit_queue, congestion, pending_ack_of_acks, delivered, faults>>
  BY DEF SendAck, CommitAcknowledgement, sendVars
<1>3. /\ m.src = x /\ m.data_seq = NoSeq /\ m.ack_of_acks = pending_ack_of_acks[x]
      /\ m.ack = Acknowledgement(x) /\ m \in PacketType
  BY AckTyped DEF AckPacket, PacketType, TypeOK, SeqNums, NoData
<1>. HIDE DEF m
<1>4. /\ recv_window'[y] = recv_window[y] /\ DOMAIN recv_window' = Side
      /\ recv_window'[x] = ReleaseAcknowledged(recv_window[x])
  BY <1>1, <1>2 DEF TypeOK
<1>5. StreamInv(x)'
  <2>1. SenderSame(x) /\ ReceiverSame(Peer(x))
    BY <1>2, <1>4 DEF SenderSame, ReceiverSame
  <2>. QED  BY <2>1, <1>1, <1>2, <1>3, StreamRepeated
<1>6. StreamInv(y)' /\ RecvWindowOK(recv_window'[x])
  <2>1. SenderSame(y)
    BY <1>2 DEF SenderSame
  <2>. HIDE DEF y
  <2>2. StreamInv(y)' /\ RecvWindowOK(recv_window'[Peer(y)])
    BY <2>1, <1>1, <1>2, <1>3, <1>4, StreamAcked
  <2>. QED  BY <2>2, <1>1
<1>7. TypeOK'
  <2>1. ack_pending' \in [Side -> BOOLEAN] /\ network' \subseteq PacketType
    BY <1>2, <1>3 DEF TypeOK
  <2>2. timers' \in [Side -> SUBSET Timer]
    BY <1>2 DEF TypeOK, Timer
  <2>3. \A p \in Side : RecvWindowOK(recv_window'[p])
    <3>1. RecvWindowOK(recv_window'[y])
      BY <1>1, <1>4 DEF TypeOK
    <3>. QED  BY <3>1, <1>6, PeerProperty
  <2>. QED  BY <2>1, <2>2, <2>3, <1>2, <1>4 DEF TypeOK
<1>. QED  BY <1>5, <1>6, <1>7, BothStreams

-----------------------------------------------------------------------------
\* What is left of a window in which the packets of acked were marked.
Marked(p, window, acked) ==
  /\ Contiguous(window, next_data_seq[p])
  /\ Pending(window) = Pending(send_window[p]) \ acked
  /\ Low(p) <= LowestUnacknowledged(window, next_data_seq[p])
  /\ DOMAIN window \subseteq DOMAIN send_window[p]
  /\ \A d \in DOMAIN window :
       /\ window[d] \in EntryType
       /\ window[d].channel_seq = send_window[p][d].channel_seq
       /\ window[d].data = send_window[p][d].data

\* Before anything is acknowledged the window is marked with nothing.
LEMMA NothingMarked ==
  ASSUME NEW x \in Side, Contiguous(send_window[x], next_data_seq[x]), Low(x) \in Nat,
         Low(x) = LowestUnacknowledged(send_window[x], next_data_seq[x]),
         \A d \in DOMAIN send_window[x] : send_window[x][d] \in EntryType
  PROVE  Marked(x, send_window[x], {})
BY SMTT(40), SMTT(41) DEF Marked

\* The types of what declaring losses assigns.
SenderTyped ==
  /\ congestion' \in [Side -> CongestionType]
  /\ DOMAIN send_window' = Side /\ DOMAIN retransmit_queue' = Side
  /\ \A p \in Side :
       /\ DOMAIN send_window'[p] \subseteq Nat
       /\ \A d \in DOMAIN send_window'[p] : send_window'[p][d] \in EntryType
       /\ DOMAIN retransmit_queue'[p] \subseteq Nat
       /\ \A d \in DOMAIN retransmit_queue'[p] : retransmit_queue'[p][d] \in QueueEntryType

\* Declaring the packets up to some number lost resolves them.
LEMMA LossesResolve ==
  ASSUME Foundations, TypeOK, NEW x \in Side, StreamInv(x),
         NEW acked \in SUBSET Pending(send_window[x]), NEW window, Marked(x, window, acked),
         NEW lost \in SUBSET Pending(window),
         \A l \in lost : \A d \in Pending(window) : d <= l => d \in lost,
         NEW cc \in CongestionType, DeclareLost(x, window, cc, lost),
         UNCHANGED <<accepted, send_buffer, next_data_seq, next_channel_seq>>,
         \/ pending_ack_of_acks'[x] = Advertised(x, window, lost)
         \/ /\ pending_ack_of_acks'[x] = NoSeq
            /\ Advertised(x, window, lost) < recv_window[Peer(x)].base_seq
  PROVE  Resolves(x, acked, lost) /\ SenderTyped
<1> DEFINE y == Peer(x)
           next == next_data_seq[x]
           queue == retransmit_queue[x]
           left == send_window'[x]
           longer == retransmit_queue'[x]
<1>1. /\ next \in Nat /\ DOMAIN send_window = Side /\ DOMAIN queue \subseteq Nat
      /\ DOMAIN retransmit_queue = Side /\ DOMAIN send_window[x] \subseteq Nat
  BY DEF TypeOK
<1>2. /\ left = MarkLost(window, lost) /\ longer = Enqueue(queue, window, lost)
      /\ congestion' = [congestion EXCEPT ![x] = OnLoss(cc, lost, LargestSent(x))]
      /\ DOMAIN send_window' = Side /\ DOMAIN retransmit_queue' = Side
      /\ \A p \in Side : p # x => /\ send_window'[p] = send_window[p]
                                  /\ retransmit_queue'[p] = retransmit_queue[p]
  BY <1>1 DEF DeclareLost
<1>3. Contiguous(window, next) /\ DOMAIN window \subseteq DOMAIN send_window[x]
  BY DEF Marked
<1>4. /\ Contiguous(left, next)
      /\ Pending(left) = Pending(window) \ lost
      /\ LowestUnacknowledged(window, next) <= LowestUnacknowledged(left, next)
      /\ DOMAIN left \subseteq DOMAIN window
      /\ \A d \in DOMAIN left : left[d] = window[d]
      /\ \A d \in lost : d < LowestUnacknowledged(left, next)
  <2>. HIDE DEF left, next
  <2>. QED  BY <1>1, <1>2, <1>3, MarkLostProperty, SMTT(40), SMTT(41)
<1>5. \A d \in lost : /\ d \in Pending(send_window[x]) /\ d \in DOMAIN window /\ d \in Nat
                      /\ d \notin acked /\ d \in DOMAIN send_window[x]
  BY <1>1, <1>3 DEF Marked, Pending
<1>6. SenderNumbering(x) /\ ChunksKept(x) /\ WindowBounded(x)
  BY DEF StreamInv
<1>7. \A d \in lost : /\ window[d].channel_seq = send_window[x][d].channel_seq
                      /\ window[d].channel_seq \in FirstChannelSeq .. (next_channel_seq[x] - 1)
                      /\ window[d] \in EntryType
  BY <1>5, <1>6 DEF Marked, SenderNumbering
<1>8. /\ DOMAIN longer = DOMAIN queue \cup lost
      /\ \A d \in DOMAIN queue : longer[d] = queue[d]
      /\ \A d \in lost :
           longer[d] = [channel_seq |-> window[d].channel_seq, data |-> window[d].data]
  <2>1. \A d, e \in lost : window[d].channel_seq = window[e].channel_seq => d = e
    BY <1>5, <1>6, <1>7 DEF ChunksKept, PendingUnder
  <2>2. \A d \in lost : \A e \in DOMAIN queue : d # e
    <3>1. \A d \in DOMAIN send_window[x] : d >= Low(x)
      BY <1>1, <1>6, SMTT(40), SMTT(41) DEF WindowBounded, Contiguous, Low
    <3>2. \A e \in DOMAIN queue : e < Low(x)
      BY <1>6 DEF SenderNumbering
    <3>3. Low(x) \in Nat
      BY <1>1, <1>6, SMTT(40), SMTT(41) DEF WindowBounded, Contiguous, Low
    <3>4. lost \subseteq DOMAIN send_window[x] /\ lost \subseteq Nat /\ DOMAIN queue \subseteq Nat
      BY <1>1, <1>5 DEF TypeOK, Pending
    <3>. QED  BY ONLY <3>1, <3>2, <3>3, <3>4, SMTT(40), SMTT(41)
  <2>3. \A d \in lost : \A e \in DOMAIN queue : window[d].channel_seq # queue[e].channel_seq
    <3>1. SUFFICES ASSUME NEW d \in lost, NEW e \in DOMAIN queue,
                          window[d].channel_seq = queue[e].channel_seq
                   PROVE  FALSE
      OBVIOUS
    <3> DEFINE c == window[d].channel_seq
    <3>2. d \in PendingUnder(x, c) /\ e \in QueuedUnder(x, c)
      BY <3>1, <1>5, <1>7 DEF PendingUnder, QueuedUnder
    <3>3. c \in FirstChannelSeq .. (next_channel_seq[x] - 1)
      BY <1>7
    <3>. HIDE DEF c
    <3>. QED  BY <3>2, <3>3, <2>2, <1>6 DEF ChunksKept
  <2>4. lost \in SUBSET Nat
    BY <1>5
  <2>5. lost \cap DOMAIN queue = {}
    BY <2>2
  <2>6. longer = Enqueue(queue, window, lost)
    BY <1>2
  <2>. HIDE DEF longer, queue
  <2>7. OwnChunks(queue, window, lost)
    BY ONLY <2>1, <2>3, <2>5, SMTT(40), SMTT(41) DEF OwnChunks
  <2>8. Queues(longer, queue, window, lost)
    BY ONLY <2>4, <2>6, <2>7, EnqueueProperty, SMTT(40), SMTT(41)
  <2>. QED  BY ONLY <2>8, SMTT(40), SMTT(41) DEF Queues
<1>9. Resolves(x, acked, lost)
  <2>1. Advertised(x, window, lost) =
          IF lost = {} THEN pending_ack_of_acks[x] ELSE LowestUnacknowledged(left, next)
    BY <1>2 DEF Advertised
  <2>2. Low(x) <= LowestUnacknowledged(left, next)
    <3>1. /\ Low(x) \in Nat /\ LowestUnacknowledged(left, next) \in Nat
          /\ LowestUnacknowledged(window, next) \in Nat
      <4>1. /\ next \in Nat /\ Contiguous(send_window[x], next) /\ Contiguous(window, next)
            /\ Contiguous(left, next) /\ Low(x) = LowestUnacknowledged(send_window[x], next)
        BY <1>1, <1>3, <1>4, <1>6 DEF WindowBounded, Marked, Low
      <4>. QED  BY ONLY <4>1, SMTT(40), SMTT(41) DEF Contiguous
    <3>2. /\ Low(x) <= LowestUnacknowledged(window, next)
          /\ LowestUnacknowledged(window, next) <= LowestUnacknowledged(left, next)
      BY <1>3, <1>4 DEF Marked
    <3>. QED  BY ONLY <3>1, <3>2, SMTT(40), SMTT(41)
  <2>3. lost \subseteq Pending(send_window[x]) \ acked
    BY <1>5
  <2>4. Pending(left) = (Pending(send_window[x]) \ acked) \ lost
    BY <1>4 DEF Marked
  <2>5. \A d \in DOMAIN left : /\ left[d] \in EntryType
                               /\ left[d].channel_seq = send_window[x][d].channel_seq
                               /\ left[d].data = send_window[x][d].data
    BY <1>4 DEF Marked
  <2>6. \A d \in lost : longer[d] = [channel_seq |-> send_window[x][d].channel_seq,
                                     data |-> send_window[x][d].data]
    BY <1>5, <1>8 DEF Marked
  <2>7. DOMAIN left \subseteq DOMAIN send_window[x]
    BY <1>3, <1>4
  <2>. QED  BY <2>1, <2>2, <2>3, <2>4, <2>5, <2>6, <2>7, <1>4, <1>8 DEF Resolves
<1>10. SenderTyped
  <2>1. congestion' \in [Side -> CongestionType]
    <3>1. LargestSent(x) \in Nat
      BY SMTT(40), SMTT(41) DEF LargestSent, TypeOK
    <3>2. OnLoss(cc, lost, LargestSent(x)) \in CongestionType
      BY <3>1, CongestionTyped, 0 \in Nat
    <3>. QED  BY <3>2, <1>2 DEF TypeOK
  <2>2. /\ DOMAIN left \subseteq Nat /\ DOMAIN longer \subseteq Nat
        /\ \A d \in DOMAIN left : left[d] \in EntryType
    BY <1>1, <1>3, <1>4, <1>5, <1>8 DEF Marked
  <2>3. \A d \in DOMAIN longer : longer[d] \in QueueEntryType
    <3>1. \A d \in DOMAIN queue : queue[d] \in QueueEntryType
      BY DEF TypeOK
    <3>2. \A d \in lost :
            [channel_seq |-> window[d].channel_seq, data |-> window[d].data] \in QueueEntryType
      BY <1>7 DEF EntryType, QueueEntryType
    <3>. HIDE DEF longer, queue
    <3>. QED  BY <3>1, <3>2, <1>8
  <2>4. \A p \in Side : p # x =>
          /\ DOMAIN send_window'[p] \subseteq Nat
          /\ \A d \in DOMAIN send_window'[p] : send_window'[p][d] \in EntryType
          /\ DOMAIN retransmit_queue'[p] \subseteq Nat
          /\ \A d \in DOMAIN retransmit_queue'[p] : retransmit_queue'[p][d] \in QueueEntryType
    BY <1>2 DEF TypeOK
  <2>. QED  BY <1>2, <2>1, <2>2, <2>3, <2>4 DEF SenderTyped
<1>. QED  BY <1>9, <1>10

\* What an acknowledgement resolves, the peer has.
LEMMA AckedGot ==
  ASSUME TypeOK, NEW x \in Side, StreamInv(x), NEW m \in network, m.src = Peer(x),
         Fresh(x, m), ~AckIgnored(x, m)
  PROVE  /\ Acked(x, m) \in SUBSET Pending(send_window[x])
         /\ \A d \in Acked(x, m) : Got(x, d)
         /\ Reported(x, m) \in Nat /\ Reported(x, m) <= recv_window[Peer(x)].base_seq
<1> DEFINE base == recv_window[Peer(x)].base_seq
<1>1. m.ack.kind \in {"Cumulative", "Vector"}
  BY DEF AckIgnored, TypeOK, PacketType, AckType
<1>2. /\ m.ack.seq \in Nat /\ m.ack.seq <= base /\ base \in Nat
      /\ m.ack.kind = "Cumulative" => m.ack.seq < base
      /\ m.ack.kind = "Vector" => \A o \in m.ack.received : Got(x, m.ack.seq + o)
  <2>1. AcksInFlight(x)
    BY DEF StreamInv
  <2>2. base \in Nat
    BY PeerProperty DEF TypeOK, RecvWindowOK
  <2>. QED  BY <1>1, <2>1, <2>2, SMTT(40), SMTT(41) DEF AcksInFlight
<1>3. Reported(x, m) = m.ack.seq
  <2>1. LargestSent(x) \in Nat
    BY SMTT(40), SMTT(41) DEF LargestSent, TypeOK
  <2>2. Near(m.ack.seq, LargestSent(x))
    BY <1>1 DEF Fresh
  <2>. QED  BY <1>2, <2>1, <2>2, OnWireNear DEF Reported
<1>4. Pending(send_window[x]) \subseteq Nat
  BY DEF Pending, TypeOK
<1>5. ASSUME NEW d \in Acked(x, m)
      PROVE  d \in Pending(send_window[x]) /\ Got(x, d)
  <2>1. d \in Pending(send_window[x]) /\ d \in Nat
    BY <1>4 DEF Acked
  <2>2. CASE m.ack.kind = "Cumulative"
    <3>1. d <= m.ack.seq
      BY <2>2, <1>3 DEF Acked
    <3>. QED  BY <2>1, <2>2, <3>1, <1>2, SMTT(40), SMTT(41) DEF Got
  <2>3. CASE m.ack.kind = "Vector"
    <3> DEFINE o == d - m.ack.seq
    <3>1. o \in m.ack.received
      BY <2>3, <1>3 DEF Acked
    <3>2. m.ack.seq + o = d
      BY <2>1, <1>2, SMTT(40), SMTT(41)
    <3>. HIDE DEF o
    <3>. QED  BY <2>1, <2>3, <3>1, <3>2, <1>2
  <2>. QED  BY <1>1, <2>2, <2>3
<1>. QED  BY <1>2, <1>3, <1>5

\* process_ack and process_ack_vector keep the stream they resolve.
LEMMA ProcessAckStep ==
  ASSUME Foundations, TypeOK, NEW x \in Side, StreamInv(x), NEW m \in network, m.src = Peer(x),
         Fresh(x, m), ~AckIgnored(x, m), NEW aged \in Int, ProcessAck(x, m, aged)
  PROVE  /\ SenderTyped
         /\ ReceiverSame(Peer(x)) /\ network' \subseteq network => StreamInv(x)'
<1> DEFINE acked  == Acked(x, m)
           window == MarkReceived(send_window[x], acked)
           lost   == DetectLost(window, aged)
           next   == next_data_seq[x]
           cc     == OnAck(congestion[x], Cardinality(acked))
<1>1. /\ acked \in SUBSET Pending(send_window[x]) /\ \A d \in acked : Got(x, d)
      /\ Reported(x, m) \in Nat /\ Reported(x, m) <= recv_window[Peer(x)].base_seq
  BY AckedGot
<1>2. /\ next \in Nat /\ Contiguous(send_window[x], next)
      /\ DOMAIN send_window[x] \subseteq Nat
      /\ \A d \in DOMAIN send_window[x] : send_window[x][d] \in EntryType
  BY DEF TypeOK, StreamInv, WindowBounded
<1>3. Cardinality(acked) \in Nat
  <2>1. acked \in SUBSET DOMAIN send_window[x]
    BY <1>1 DEF Pending
  <2>. HIDE DEF acked, next
  <2>. QED  BY <1>2, <2>1, WindowFinite
<1>4. cc \in CongestionType
  <2>1. congestion[x] \in CongestionType /\ LargestSent(x) \in Nat
    BY SMTT(40), SMTT(41) DEF TypeOK, LargestSent
  <2>. HIDE DEF acked
  <2>. QED  BY <1>3, <2>1, CongestionTyped
<1>5. Marked(x, window, acked)
  <2>. HIDE DEF acked
  <2>. QED  BY <1>1, <1>2, MarkReceivedProperty DEF Marked, Low
<1>6. DOMAIN window \subseteq Nat
  BY <1>2, <1>5 DEF Marked
<1>7. /\ DeclareLost(x, window, cc, lost)
      /\ UNCHANGED <<accepted, send_buffer, next_data_seq, next_channel_seq>>
      /\ pending_ack_of_acks'[x] = IF Reported(x, m) > Advertised(x, window, lost)
                                   THEN NoSeq ELSE Advertised(x, window, lost)
  BY DEF ProcessAck, TypeOK
<1>. HIDE DEF acked, window, cc
<1>8. /\ lost \in SUBSET Pending(window)
      /\ \A l \in lost : \A d \in Pending(window) : d <= l => d \in lost
  BY <1>6, DetectLostProperty
<1>9. Advertised(x, window, lost) \in Int
  <2>1. Contiguous(window, next)
    BY <1>5 DEF Marked
  <2>2. Contiguous(MarkLost(window, lost), next)
    <3>. HIDE DEF lost, next
    <3>. QED  BY <1>2, <1>8, <2>1, MarkLostProperty
  <2>. HIDE DEF lost
  <2>3. LowestUnacknowledged(MarkLost(window, lost), next) \in Nat
    BY <1>2, <2>2 DEF Contiguous
  <2>4. pending_ack_of_acks[x] \in Int
    <3>1. pending_ack_of_acks[x] \in SeqNums
      BY DEF TypeOK
    <3>. QED  BY ONLY <3>1, SMTT(40), SMTT(41) DEF SeqNums, NoSeq
  <2>5. LowestUnacknowledged(MarkLost(window, lost), next) \in Int
    BY ONLY <2>3, SMTT(40), SMTT(41)
  <2>. QED  BY <2>4, <2>5 DEF Advertised
<1>. HIDE DEF lost
<1>10. \/ pending_ack_of_acks'[x] = Advertised(x, window, lost)
       \/ /\ pending_ack_of_acks'[x] = NoSeq
          /\ Advertised(x, window, lost) < recv_window[Peer(x)].base_seq
  <2>1. recv_window[Peer(x)].base_seq \in Nat
    BY PeerProperty DEF TypeOK, RecvWindowOK
  <2>2. Reported(x, m) \in Nat /\ Reported(x, m) <= recv_window[Peer(x)].base_seq
    BY <1>1
  <2>. QED  BY ONLY <2>2, <1>7, <1>9, <2>1, SMTT(40), SMTT(41)
<1>11. Resolves(x, acked, lost) /\ SenderTyped
  BY <1>1, <1>4, <1>5, <1>7, <1>8, <1>10, LossesResolve
<1>12. ASSUME ReceiverSame(Peer(x)), network' \subseteq network
       PROVE  StreamInv(x)'
  BY <1>1, <1>11, <1>12, StreamResolved
<1>. QED  BY <1>11, <1>12

\* The variables handle_datagram and handle_timeout may leave as they are.
LEMMA SenderKept ==
  ASSUME TypeOK, UNCHANGED sendVars
  PROVE  SenderTyped
BY DEF TypeOK, sendVars, SenderTyped

\* handle_datagram resolves packets of its own stream and takes data from
\* the other one.
LEMMA HandleDatagramStep ==
  ASSUME Foundations, TypeOK, StreamsInv, NEW x \in Side, NEW m \in network, HandleDatagram(x, m)
  PROVE  TypeOK' /\ StreamsInv' /\ Len(delivered[x]) <= Len(delivered'[x])
<1> DEFINE y == Peer(x)
<1>1. StreamInv(x) /\ StreamInv(y) /\ y \in Side /\ y # x /\ Peer(y) = x
  BY BothStreams, PeerProperty
<1>2. m.src = y /\ Fresh(x, m) /\ ProcessData(x, m) /\ UNCHANGED state
  BY DEF HandleDatagram
<1>3. network' \subseteq network /\ faults' \in [Fault -> Nat]
  <2>1. \A f \in Fault : Occurs(f) => faults' \in [Fault -> Nat]
    BY SMTT(40), SMTT(41) DEF Occurs, TypeOK
  <2>2. Arrives(m) \/ (network' = network \ {m} /\ Occurs("Early"))
    BY DEF HandleDatagram
  <2>. QED  BY <2>1, <2>2 DEF Arrives, Fault, TypeOK
<1>4. /\ UNCHANGED <<accepted, send_buffer, next_data_seq, next_channel_seq>>
      /\ SenderSame(y)
  <2>1. CASE UNCHANGED sendVars
    BY <2>1 DEF sendVars, SenderSame
  <2>2. ASSUME NEW aged, ProcessAck(x, m, aged)
        PROVE  /\ UNCHANGED <<accepted, send_buffer, next_data_seq, next_channel_seq>>
               /\ SenderSame(y)
    <3>1. UNCHANGED <<accepted, send_buffer, next_data_seq, next_channel_seq>>
      BY <2>2 DEF ProcessAck
    <3>2. /\ send_window'[y] = send_window[y] /\ retransmit_queue'[y] = retransmit_queue[y]
          /\ pending_ack_of_acks'[y] = pending_ack_of_acks[y]
      BY <2>2, <1>1 DEF ProcessAck, DeclareLost, TypeOK
    <3>. QED  BY <3>1, <3>2 DEF SenderSame
  <2>. QED  BY <2>1, <2>2 DEF HandleDatagram
<1>5. pending_ack_of_acks' \in [Side -> SeqNums]
  <2>1. ASSUME NEW aged, ProcessAck(x, m, aged)
        PROVE  pending_ack_of_acks'[x] \in SeqNums => pending_ack_of_acks' \in [Side -> SeqNums]
    BY <2>1 DEF ProcessAck, TypeOK
  <2>2. UNCHANGED sendVars => pending_ack_of_acks' \in [Side -> SeqNums]
    BY DEF sendVars, TypeOK
  <2>3. ASSUME NEW aged \in Int, ProcessAck(x, m, aged)
        PROVE  pending_ack_of_acks'[x] \in SeqNums
    <3> DEFINE window == MarkReceived(send_window[x], Acked(x, m))
               lost   == DetectLost(window, aged)
    <3>1. pending_ack_of_acks'[x] \in {NoSeq, Advertised(x, window, lost)}
      BY <2>3 DEF ProcessAck, TypeOK
    <3>2. send_window'[x] = MarkLost(window, lost)
      BY <2>3 DEF ProcessAck, DeclareLost, TypeOK
    <3>. HIDE DEF window, lost
    <3>3. Advertised(x, window, lost) \in {pending_ack_of_acks[x],
                                           LowestUnacknowledged(send_window'[x], next_data_seq[x])}
      BY <3>2 DEF Advertised
    <3>4. LowestUnacknowledged(send_window'[x], next_data_seq[x]) \in Nat
      <4>1. ~AckIgnored(x, m) => SenderTyped
        BY <1>1, <1>2, <2>3, ProcessAckStep
      <4>2. AckIgnored(x, m) => SenderTyped
        BY SenderKept DEF HandleDatagram
      <4>3. DOMAIN send_window'[x] \subseteq Nat
        BY <4>1, <4>2 DEF SenderTyped
      <4>4. next_data_seq[x] \in Nat
        BY DEF TypeOK
      <4>. QED  BY <4>3, <4>4, MinProperty DEF LowestUnacknowledged
    <3>5. pending_ack_of_acks[x] \in SeqNums
      BY DEF TypeOK
    <3>. QED  BY <3>1, <3>3, <3>4, <3>5 DEF SeqNums
  <2>4. \A d \in Pending(send_window[x]) : d + 1 \in Int
    BY SMTT(40), SMTT(41) DEF Pending, TypeOK
  <2>5. NoSeq \in Int
    BY SMTT(40), SMTT(41) DEF NoSeq
  <2>. QED  BY <2>1, <2>2, <2>3, <2>4, <2>5 DEF HandleDatagram
<1>6. ReceiverSame(y)
  BY <1>1, <1>2 DEF ProcessData, ReceiverSame, TypeOK
<1>7. StreamInv(x)' /\ SenderTyped
  <2>1. CASE AckIgnored(x, m)
    <3>1. UNCHANGED sendVars
      BY <2>1 DEF HandleDatagram
    <3>2. SenderSame(x)
      BY <3>1 DEF sendVars, SenderSame
    <3>. QED  BY <3>1, <3>2, <1>1, <1>3, <1>6, StreamAlone, SenderKept
  <2>2. CASE ~AckIgnored(x, m)
    <3>1. PICK aged \in Int : ProcessAck(x, m, aged)
      <4>1. \A d \in Pending(send_window[x]) : d + 1 \in Int
        BY SMTT(40), SMTT(41) DEF Pending, TypeOK
      <4>2. NoSeq \in Int
        BY SMTT(40), SMTT(41) DEF NoSeq
      <4>. HIDE DEF NoSeq
      <4>. QED  BY <2>2, <4>1, <4>2 DEF HandleDatagram
    <3>. QED  BY <2>2, <3>1, <1>1, <1>2, <1>3, <1>6, ProcessAckStep
  <2>. QED  BY <2>1, <2>2
<1>8. /\ StreamInv(y)' /\ RecvWindowOK(recv_window'[x]) /\ delivered'[x] \in Seq(Nat)
      /\ Len(delivered[x]) <= Len(delivered'[x])
  <2>. HIDE DEF y
  <2>1. /\ StreamInv(y)'
        /\ RecvWindowOK(recv_window'[Peer(y)]) /\ delivered'[Peer(y)] \in Seq(Nat)
        /\ Len(delivered[Peer(y)]) <= Len(delivered'[Peer(y)])
    BY <1>1, <1>2, <1>3, <1>4, StreamReceived
  <2>. QED  BY <2>1, <1>1
<1>9. TypeOK'
  <2>1. ack_pending' \in [Side -> BOOLEAN]
    BY <1>2 DEF ProcessData, TypeOK
  <2>2. timers' \in [Side -> SUBSET Timer]
    <3>1. timers' = [timers EXCEPT ![x] = timers'[x]]
      BY DEF HandleDatagram, TypeOK
    <3>2. timers'[x] \subseteq timers[x] \cup {"Retransmit", "Idle", "AckDelay"}
      BY DEF HandleDatagram, RetransmitTimer, TypeOK
    <3>. QED  BY <3>1, <3>2 DEF TypeOK, Timer
  <2>3. delivered' \in [Side -> Seq(Nat)] /\ DOMAIN recv_window' = Side
    <3>1. /\ DOMAIN recv_window' = Side
          /\ delivered' = [delivered EXCEPT ![x] = delivered'[x]]
      BY <1>2 DEF ProcessData, TypeOK
    <3>. QED  BY <3>1, <1>8 DEF TypeOK
  <2>4. \A p \in Side : RecvWindowOK(recv_window'[p])
    <3>1. RecvWindowOK(recv_window'[y])
      BY <1>1, <1>6 DEF TypeOK, ReceiverSame
    <3>. QED  BY <3>1, <1>8, PeerProperty
  <2>. QED  BY <2>1, <2>2, <2>3, <2>4, <1>2, <1>3, <1>4, <1>5, <1>7 DEF TypeOK, SenderTyped
<1>. QED  BY <1>7, <1>8, <1>9, BothStreams

\* handle_timeout resolves the oldest packet of its own stream, if anything.
LEMMA HandleTimeoutStep ==
  ASSUME Foundations, TypeOK, StreamsInv, NEW x \in Side, NEW expired \in SUBSET Timer, HandleTimeout(x, expired)
  PROVE  TypeOK' /\ StreamsInv'
<1> DEFINE y == Peer(x)
           pending == Pending(send_window[x])
           lost == IF pending = {} THEN {} ELSE {Min(pending)}
<1>1. StreamInv(x) /\ StreamInv(y) /\ y \in Side /\ y # x /\ Peer(y) = x
  BY BothStreams, PeerProperty
<1>2. /\ UNCHANGED <<recv_window, delivered, network>>
      /\ OnRetransmitTimeout(x) \/ UNCHANGED sendVars
  BY DEF HandleTimeout
<1>3. ReceiverSame(x) /\ ReceiverSame(y)
  BY <1>2 DEF ReceiverSame
<1>4. ASSUME OnRetransmitTimeout(x)
      PROVE  /\ Resolves(x, {}, lost) /\ SenderTyped /\ SenderSame(y)
             /\ UNCHANGED <<accepted, send_buffer, next_data_seq, next_channel_seq>>
             /\ pending_ack_of_acks' \in [Side -> SeqNums]
  <2>1. /\ DeclareLost(x, send_window[x], congestion[x], lost)
        /\ UNCHANGED <<accepted, send_buffer, next_data_seq, next_channel_seq>>
        /\ pending_ack_of_acks' = [pending_ack_of_acks EXCEPT
                                     ![x] = Advertised(x, send_window[x], lost)]
    BY <1>4 DEF OnRetransmitTimeout
  <2>2. pending \subseteq Nat
    BY DEF Pending, TypeOK
  <2>3. /\ lost \in SUBSET pending
        /\ \A l \in lost : \A d \in pending : d <= l => d \in lost
    <3>1. (pending = {} => lost = {}) /\ (pending # {} => lost = {Min(pending)})
      OBVIOUS
    <3>. HIDE DEF lost, pending
    <3>. QED  BY ONLY Foundations, <3>1, <2>2, OldestProperty, Zenon
  <2>. HIDE DEF lost
  <2>4. Marked(x, send_window[x], {})
    <3>1. Contiguous(send_window[x], next_data_seq[x])
      BY <1>1 DEF StreamInv, WindowBounded
    <3>2. next_data_seq[x] \in Nat
      BY DEF TypeOK
    <3>3. Low(x) \in Nat /\ Low(x) = LowestUnacknowledged(send_window[x], next_data_seq[x])
      BY <3>1, <3>2 DEF Contiguous, Low
    <3>4. \A d \in DOMAIN send_window[x] : send_window[x][d] \in EntryType
      BY DEF TypeOK
    <3>. QED  BY <3>1, <3>3, <3>4, NothingMarked
  <2>5. congestion[x] \in CongestionType /\ {} \in SUBSET Pending(send_window[x])
    BY DEF TypeOK
  <2>6. pending_ack_of_acks'[x] = Advertised(x, send_window[x], lost)
    BY <2>1 DEF TypeOK
  <2>7. Resolves(x, {}, lost) /\ SenderTyped
    BY <1>1, <2>1, <2>3, <2>4, <2>5, <2>6, LossesResolve
  <2>8. SenderSame(y)
    BY <2>1, <1>1 DEF DeclareLost, SenderSame, TypeOK
  <2>9. pending_ack_of_acks' \in [Side -> SeqNums]
    <3>1. send_window'[x] = MarkLost(send_window[x], lost)
      BY <2>1 DEF DeclareLost, TypeOK
    <3>2. DOMAIN send_window'[x] \subseteq Nat
      BY <2>7 DEF SenderTyped
    <3>3. LowestUnacknowledged(send_window'[x], next_data_seq[x]) \in Nat
      <4>1. next_data_seq[x] \in Nat
        BY DEF TypeOK
      <4>. QED  BY <3>2, <4>1, MinProperty DEF LowestUnacknowledged
    <3>4. Advertised(x, send_window[x], lost) \in SeqNums
      BY <3>1, <3>3 DEF Advertised, TypeOK, SeqNums
    <3>. QED  BY <2>1, <3>4 DEF TypeOK
  <2>. QED  BY <2>1, <2>7, <2>8, <2>9
<1>. HIDE DEF lost
<1>5. ASSUME UNCHANGED sendVars
      PROVE  /\ SenderTyped /\ SenderSame(x) /\ SenderSame(y)
             /\ UNCHANGED <<accepted, send_buffer, next_data_seq, next_channel_seq>>
             /\ pending_ack_of_acks' \in [Side -> SeqNums]
  BY <1>5, SenderKept DEF sendVars, SenderSame, TypeOK
<1>6. StreamInv(x)'
  <2>1. \A d \in {} : Got(x, d)
    OBVIOUS
  <2>2. network' \subseteq network
    BY <1>2
  <2>3. CASE OnRetransmitTimeout(x)
    <3>1. Resolves(x, {}, lost) /\ ReceiverSame(Peer(x)) /\ StreamInv(x)
      BY <2>3, <1>1, <1>3, <1>4
    <3> DEFINE none == {}
    <3>2. Resolves(x, none, lost) /\ \A d \in none : Got(x, d)
      BY <3>1
    <3>. HIDE DEF lost, none
    <3>. QED  BY <3>1, <3>2, <2>2, StreamResolved
  <2>. QED  BY <2>2, <2>3, <1>1, <1>2, <1>3, <1>5, StreamAlone
<1>7. StreamInv(y)'
  BY <1>1, <1>2, <1>3, <1>4, <1>5, StreamAlone
<1>8. TypeOK'
  <2>1. /\ state' \in [Side -> {"Established", "Closed"}] /\ ack_pending' \in [Side -> BOOLEAN]
        /\ faults' \in [Fault -> Nat]
    <3>1. state' \in [Side -> {"Established", "Closed"}]
      BY DEF HandleTimeout, TypeOK
    <3>2. ack_pending' \in [Side -> BOOLEAN]
      BY DEF HandleTimeout, TypeOK
    <3>3. faults' \in [Fault -> Nat]
      BY SMTT(40), SMTT(41) DEF HandleTimeout, Occurs, TypeOK, Fault
    <3>. QED  BY <3>1, <3>2, <3>3
  <2>2. timers' \in [Side -> SUBSET Timer]
    <3>1. timers' = [timers EXCEPT ![x] = timers'[x]]
      BY DEF HandleTimeout, TypeOK
    <3>2. timers'[x] \subseteq timers[x] \cup {"Retransmit"}
      BY DEF HandleTimeout, RetransmitTimer, TypeOK
    <3>. QED  BY <3>1, <3>2 DEF TypeOK, Timer
  <2>. QED  BY <2>1, <2>2, <1>2, <1>4, <1>5 DEF TypeOK, SenderTyped
<1>. QED  BY <1>6, <1>7, <1>8, BothStreams

-----------------------------------------------------------------------------
(* The invariant and its consequences *)

\* A fresh connection satisfies the invariant.
LEMMA InitialState ==
  ASSUME Init
  PROVE  TypeOK /\ StreamsInv
<1>1. DOMAIN EmptyWindow = {} /\ Pending(EmptyWindow) = {}
  BY DEF EmptyWindow, Pending
<1>2. InitialSeq \in [Side -> Nat]
  BY V2Assumption
<1>3. ASSUME NEW p \in Side
      PROVE  /\ recv_window[p] = NewRecvWindow(InitialSeq[Peer(p)] + 1, FirstChannelSeq)
             /\ RecvWindowOK(recv_window[p])
             /\ recv_window[p].base_seq = InitialSeq[Peer(p)] + 1
             /\ recv_window[p].highest_seq = InitialSeq[Peer(p)]
             /\ recv_window[p].received = {}
             /\ recv_window[p].next_channel_seq = 1
             /\ DOMAIN recv_window[p].reorder_buf = {}
  BY <1>2, PeerProperty, SMTT(40), SMTT(41) DEF Init, NewRecvWindow, RecvWindowOK, FirstChannelSeq
<1>4. TypeOK
  <2>1. NewCongestionControl \in CongestionType
    BY SendWindowAssumption DEF NewCongestionControl, CongestionType, SeqNums
  <2>2. congestion \in [Side -> CongestionType]
    BY <2>1 DEF Init
  <2>3. pending_ack_of_acks \in [Side -> SeqNums]
    BY DEF Init, SeqNums
  <2>4. /\ send_buffer \in [Side -> Seq(Nat)] /\ delivered \in [Side -> Seq(Nat)]
    BY SMTT(40), SMTT(41) DEF Init
  <2>5. timers \in [Side -> SUBSET Timer]
    BY DEF Init, Timer
  <2>6. next_data_seq \in [Side -> Nat \ {0}]
    BY <1>2, SMTT(40), SMTT(41) DEF Init
  <2>7. /\ DOMAIN send_window = Side /\ DOMAIN retransmit_queue = Side
        /\ DOMAIN recv_window = Side
        /\ \A p \in Side : DOMAIN send_window[p] = {} /\ DOMAIN retransmit_queue[p] = {}
    BY <1>1 DEF Init
  <2>. QED  BY <2>2, <2>3, <2>4, <2>5, <2>6, <2>7, <1>3 DEF Init, TypeOK, FirstChannelSeq
<1>5. ASSUME NEW p \in Side
      PROVE  StreamInv(p)
  <2> DEFINE q == Peer(p)
  <2>1. q \in Side /\ Peer(q) = p
    BY PeerProperty
  <2>2. /\ send_window[p] = EmptyWindow /\ retransmit_queue[p] = EmptyWindow
        /\ next_data_seq[p] = InitialSeq[p] + 1 /\ next_channel_seq[p] = 1
        /\ accepted[p] = 0 /\ send_buffer[p] = <<>> /\ delivered[q] = <<>>
        /\ pending_ack_of_acks[p] = NoSeq /\ network = {} /\ InitialSeq[p] \in Nat
    BY <2>1, <1>2 DEF Init, FirstChannelSeq
  <2>3. Low(p) = InitialSeq[p] + 1
    BY <2>2, <1>1 DEF Low, LowestUnacknowledged
  <2>4. Contiguous(send_window[p], next_data_seq[p])
    BY <2>2, <1>1, SMTT(40), SMTT(41) DEF Contiguous, LowestUnacknowledged
  <2>5. /\ recv_window[q].base_seq = InitialSeq[p] + 1
        /\ recv_window[q].highest_seq = InitialSeq[p] /\ recv_window[q].received = {}
        /\ recv_window[q].next_channel_seq = 1 /\ DOMAIN recv_window[q].reorder_buf = {}
    BY <1>3, <2>1
  <2>6. ChunksKept(p)
    BY <2>2, SMTT(40), SMTT(41) DEF ChunksKept, FirstChannelSeq
  <2>7. WindowBounded(p)
    BY <2>2, <2>3, <2>4, V2Assumption, SMTT(40), SMTT(41) DEF WindowBounded
  <2>8. BehindWindow(p)
    BY <2>2, <2>3, SMTT(40), SMTT(41) DEF BehindWindow, NoSeq
  <2>9. HolesCovered(p)
    BY <2>2, <2>3, <2>5, SMTT(40), SMTT(41) DEF HolesCovered, Got
  <2>10. SenderNumbering(p)
    <3>1. Len(send_buffer[p]) = 0
      BY <2>2
    <3>. QED  BY <2>2, <3>1, <1>1, SMTT(40), SMTT(41) DEF SenderNumbering, FirstChannelSeq
  <2>11. ReceiverNumbering(p)
    <3>1. Len(delivered[q]) = 0
      BY <2>2
    <3>. QED  BY <2>2, <2>5, <3>1, SMTT(40), SMTT(41) DEF ReceiverNumbering, FirstChannelSeq
  <2>12. Agreement(p) /\ DataInFlight(p) /\ AcksInFlight(p)
    BY <2>2, <1>1 DEF Agreement, DataInFlight, AcksInFlight
  <2>. QED  BY <2>6, <2>7, <2>8, <2>9, <2>10, <2>11, <2>12 DEF StreamInv
<1>. QED  BY <1>4, <1>5 DEF StreamsInv

\* Every step of either side and of the network keeps the invariant.
LEMMA InductiveStep ==
  ASSUME Foundations, TypeOK, StreamsInv, [Next]_vars
  PROVE  TypeOK' /\ StreamsInv'
<1>1. CASE UNCHANGED vars
  <2>1. TypeOK'
    BY <1>1 DEF vars, sendVars, recvVars, TypeOK
  <2>2. ASSUME NEW p \in Side
        PROVE  StreamInv(p)'
    <3>1. SenderSame(p) /\ ReceiverSame(Peer(p)) /\ network' \subseteq network
      BY <1>1 DEF vars, sendVars, recvVars, SenderSame, ReceiverSame
    <3>. QED  BY <3>1, StreamAlone DEF StreamsInv
  <2>. QED  BY <2>1, <2>2 DEF StreamsInv
<1>2. CASE Next
  <2>1. ASSUME NEW x \in Side, NEW n \in 1 .. MaxChunks[x], Send(x, n)
        PROVE  TypeOK' /\ StreamsInv'
    BY <2>1, SendStep
  <2>2. ASSUME NEW x \in Side, PollTransmit(x)
        PROVE  TypeOK' /\ StreamsInv'
    BY <2>2, RetransmitStep, SendNewDataStep, SendAckStep DEF PollTransmit
  <2>3. ASSUME NEW x \in Side, NEW m \in network, HandleDatagram(x, m) \/ DropOnClosed(x, m)
        PROVE  TypeOK' /\ StreamsInv'
    BY <2>3, HandleDatagramStep, DropStep
  <2>4. ASSUME NEW x \in Side, NEW expired \in SUBSET Timer, HandleTimeout(x, expired)
        PROVE  TypeOK' /\ StreamsInv'
    BY <2>4, HandleTimeoutStep
  <2>5. ASSUME NEW x \in Side, Close(x)
        PROVE  TypeOK' /\ StreamsInv'
    BY <2>5, CloseStep
  <2>6. ASSUME NEW m \in network, Lose(m)
        PROVE  TypeOK' /\ StreamsInv'
    BY <2>6, LoseStep
  <2>. QED  BY <1>2, <2>1, <2>2, <2>3, <2>4, <2>5, <2>6 DEF Next
<1>. QED  BY <1>1, <1>2

\* The invariant counts what was delivered by the receiver's next number.
LEMMA InOrderStep ==
  ASSUME TypeOK, StreamsInv
  PROVE  InOrderDelivery
<1>1. SUFFICES ASSUME NEW p \in Side
               PROVE  /\ Len(delivered[Peer(p)]) <= accepted[p]
                      /\ \A i \in 1 .. Len(delivered[Peer(p)]) : delivered[Peer(p)][i] = i
  BY DEF InOrderDelivery
<1>2. ReceiverNumbering(p) /\ SenderNumbering(p)
  BY DEF StreamsInv, StreamInv
<1>3. next_channel_seq[p] \in Nat /\ accepted[p] \in Nat /\ Len(send_buffer[p]) \in Nat
  BY SeqLength DEF TypeOK
<1>4. recv_window[Peer(p)].next_channel_seq \in Nat
  BY PeerProperty DEF TypeOK, RecvWindowOK
<1>. QED  BY <1>2, <1>3, <1>4, SMTT(40), SMTT(41) DEF ReceiverNumbering, SenderNumbering

\* An acknowledgement in flight is true under the invariant.
LEMMA AcksStep ==
  ASSUME TypeOK, StreamsInv
  PROVE  AcksTruthful
<1>1. SUFFICES ASSUME NEW m \in network,
                      NEW d \in Pending(send_window[Peer(m.src)]), Claims(m, d)
               PROVE  AtPeer(Peer(m.src), send_window[Peer(m.src)][d].channel_seq)
  BY DEF AcksTruthful
<1> DEFINE p == Peer(m.src)
           base == recv_window[Peer(p)].base_seq
<1>2. m.src \in Side
  BY <1>1 DEF TypeOK, PacketType
<1>3. p \in Side /\ m.src = Peer(p)
  BY <1>2, PeerProperty
<1>. HIDE DEF p
<1>4. AcksInFlight(p) /\ Agreement(p)
  BY <1>1, <1>3 DEF StreamsInv, StreamInv
<1>5. d \in DOMAIN send_window[p] /\ d \in Nat /\ d \in Pending(send_window[p])
  BY <1>1, <1>3 DEF p, Pending, TypeOK
<1>6. base \in Nat
  BY <1>1, <1>3, PeerProperty DEF TypeOK, RecvWindowOK
<1>7. Got(p, d)
  <2>1. CASE m.ack.kind = "Cumulative" /\ d <= m.ack.seq
    BY <2>1, <1>3, <1>4, <1>5, <1>6, SMTT(40), SMTT(41) DEF AcksInFlight, Got
  <2>2. CASE m.ack.kind = "Vector" /\ d - m.ack.seq \in m.ack.received
    <3> DEFINE o == d - m.ack.seq
    <3>1. m.ack.seq \in Nat /\ \A r \in m.ack.received : Got(p, m.ack.seq + r)
      BY <2>2, <1>3, <1>4 DEF AcksInFlight
    <3>2. m.ack.seq + o = d
      BY <3>1, <1>5, SMTT(40), SMTT(41)
    <3>. HIDE DEF o
    <3>. QED  BY <2>2, <3>1, <3>2 DEF o
  <2>. QED  BY <1>1, <2>1, <2>2 DEF Claims
<1>. QED  BY <1>4, <1>5, <1>7 DEF Agreement, p

-----------------------------------------------------------------------------
(* Timers *)

\* Whether the timers of p serve what it has outstanding.
Served(p) ==
  IF state[p] = "Established"
  THEN Pending(send_window[p]) # {} \/ DOMAIN retransmit_queue[p] # {} => "Retransmit" \in timers[p]
  ELSE timers[p] = {}

\* A step of the other side, or one that leaves the sender and the timers alone.
LEMMA ServedAlone ==
  ASSUME NEW p \in Side, Served(p), state'[p] = state[p], send_window'[p] = send_window[p],
         retransmit_queue'[p] = retransmit_queue[p], timers'[p] = timers[p]
  PROVE  Served(p)'
BY DEF Served

\* Every step keeps the timers armed.
LEMMA ServedStep ==
  ASSUME TypeOK, NEW p \in Side, Served(p), [Next]_vars
  PROVE  Served(p)'
<1>1. /\ state \in [Side -> {"Established", "Closed"}] /\ timers \in [Side -> SUBSET Timer]
      /\ DOMAIN send_window = Side /\ DOMAIN retransmit_queue = Side
  BY DEF TypeOK
<1>2. ASSUME UNCHANGED <<state, sendVars, timers>>
      PROVE  Served(p)'
  BY <1>2 DEF sendVars, Served
<1>3. ASSUME NEW x \in Side, NEW n, Send(x, n)
      PROVE  Served(p)'
  BY <1>3 DEF Send, Served
<1>4. ASSUME NEW x \in Side, NEW c, NEW data, TransmitData(x, c, data), UNCHANGED state,
             state[x] = "Established", \A y \in Side : y # x => retransmit_queue'[y] = retransmit_queue[y]
      PROVE  Served(p)'
  <2>1. /\ \A y \in Side : y # x => send_window'[y] = send_window[y] /\ timers'[y] = timers[y]
        /\ "Retransmit" \in timers'[x]
    BY <1>1, <1>4 DEF TransmitData
  <2>2. CASE p = x
    BY <1>1, <1>4, <2>1, <2>2 DEF Served
  <2>3. CASE p # x
    BY <1>4, <2>1, <2>3, ServedAlone
  <2>. QED  BY <2>2, <2>3
<1>5. ASSUME NEW x \in Side, Retransmit(x) \/ SendNewData(x)
      PROVE  Served(p)'
  <2>1. CASE Retransmit(x)
    <3>1. \A y \in Side : y # x => retransmit_queue'[y] = retransmit_queue[y]
      BY <1>1, <2>1 DEF Retransmit
    <3>. QED  BY <1>4, <2>1, <3>1 DEF Retransmit
  <2>2. CASE SendNewData(x)
    BY <1>4, <2>2 DEF SendNewData
  <2>. QED  BY <1>5, <2>1, <2>2
<1>6. ASSUME NEW x \in Side, SendAck(x)
      PROVE  Served(p)'
  <2>1. /\ UNCHANGED <<state, send_window, retransmit_queue>> /\ state[x] = "Established"
        /\ timers' = [timers EXCEPT ![x] = (@ \ {"AckDelay"}) \cup {"KeepAlive"}]
    BY <1>6 DEF SendAck, sendVars
  <2>2. CASE p = x
    BY <1>1, <2>1, <2>2 DEF Served
  <2>3. CASE p # x
    BY <1>1, <2>1, <2>3 DEF Served
  <2>. QED  BY <2>2, <2>3
<1>7. ASSUME NEW x \in Side, NEW m \in network, HandleDatagram(x, m)
      PROVE  Served(p)'
  <2>1. /\ UNCHANGED state /\ state[x] = "Established"
        /\ timers' = [timers EXCEPT
             ![x] = (IF AckIgnored(x, m) THEN @
                     ELSE (@ \ {"Retransmit"})
                            \cup RetransmitTimer(send_window'[x], retransmit_queue'[x]))
                    \cup {"Idle"} \cup (IF IsNew(x, m) THEN {"AckDelay"} ELSE {})]
    BY <1>7 DEF HandleDatagram
  <2>2. \/ AckIgnored(x, m) /\ UNCHANGED sendVars
        \/ ~AckIgnored(x, m) /\ \E aged : ProcessAck(x, m, aged)
    BY <1>7 DEF HandleDatagram
  <2>3. CASE p # x
    <3>1. send_window'[p] = send_window[p] /\ retransmit_queue'[p] = retransmit_queue[p]
      BY <1>1, <2>2, <2>3 DEF sendVars, ProcessAck, DeclareLost
    <3>2. timers'[p] = timers[p]
      BY <1>1, <2>1, <2>3
    <3>. QED  BY <2>1, <3>1, <3>2, ServedAlone
  <2>4. CASE p = x /\ AckIgnored(x, m)
    <3>1. timers[p] \subseteq timers'[p]
      BY <1>1, <2>1, <2>4
    <3>2. UNCHANGED <<send_window, retransmit_queue>>
      BY <2>2, <2>4 DEF sendVars
    <3>. QED  BY <2>1, <2>4, <3>1, <3>2 DEF Served
  <2>5. CASE p = x /\ ~AckIgnored(x, m)
    <3>1. RetransmitTimer(send_window'[p], retransmit_queue'[p]) \subseteq timers'[p]
      BY <1>1, <2>1, <2>5
    <3>. QED  BY <2>1, <2>5, <3>1 DEF Served, RetransmitTimer
  <2>. QED  BY <2>3, <2>4, <2>5
<1>8. ASSUME NEW x \in Side, NEW expired, HandleTimeout(x, expired)
      PROVE  Served(p)'
  <2>1. /\ state' = [state EXCEPT ![x] = IF "Idle" \in expired THEN "Closed" ELSE @]
        /\ state[x] = "Established"
        /\ timers' = [timers EXCEPT
             ![x] = IF "Idle" \in expired THEN {}
                    ELSE (@ \ (expired \cap {"Retransmit", "AckDelay"}))
                         \cup (IF "Retransmit" \in expired
                               THEN RetransmitTimer(send_window'[x], retransmit_queue'[x])
                               ELSE {})]
        /\ IF "Retransmit" \in expired THEN OnRetransmitTimeout(x) ELSE UNCHANGED sendVars
    BY <1>8 DEF HandleTimeout
  <2>2. CASE p # x
    <3>1. send_window'[p] = send_window[p] /\ retransmit_queue'[p] = retransmit_queue[p]
      BY <1>1, <2>1, <2>2 DEF sendVars, OnRetransmitTimeout, DeclareLost
    <3>2. timers'[p] = timers[p] /\ state'[p] = state[p]
      BY <1>1, <2>1, <2>2
    <3>. QED  BY <3>1, <3>2, ServedAlone
  <2>3. CASE p = x /\ "Idle" \in expired
    BY <1>1, <2>1, <2>3 DEF Served
  <2>4. CASE p = x /\ "Idle" \notin expired /\ "Retransmit" \in expired
    <3>1. RetransmitTimer(send_window'[p], retransmit_queue'[p]) \subseteq timers'[p]
      BY <1>1, <2>1, <2>4
    <3>2. state'[p] = "Established"
      BY <1>1, <2>1, <2>4
    <3>. QED  BY <3>1, <3>2 DEF Served, RetransmitTimer
  <2>5. CASE p = x /\ "Idle" \notin expired /\ "Retransmit" \notin expired
    <3>1. UNCHANGED <<send_window, retransmit_queue>>
      BY <2>1, <2>5 DEF sendVars
    <3>2. state'[p] = "Established" /\ ("Retransmit" \in timers[p] => "Retransmit" \in timers'[p])
      BY <1>1, <2>1, <2>5
    <3>. QED  BY <2>1, <2>5, <3>1, <3>2 DEF Served
  <2>. QED  BY <2>2, <2>3, <2>4, <2>5
<1>9. ASSUME NEW x \in Side, Close(x)
      PROVE  Served(p)'
  <2>1. CASE p = x
    BY <1>1, <1>9, <2>1 DEF Close, Served
  <2>2. CASE p # x
    BY <1>1, <1>9, <2>2 DEF Close, sendVars, Served
  <2>. QED  BY <2>1, <2>2
<1>10. ASSUME NEW x \in Side, NEW m, DropOnClosed(x, m) \/ Lose(m)
       PROVE  Served(p)'
  BY <1>2, <1>10 DEF DropOnClosed, Lose
<1>11. CASE UNCHANGED vars
  BY <1>2, <1>11 DEF vars
<1>. QED  BY <1>3, <1>5, <1>6, <1>7, <1>8, <1>9, <1>10, <1>11 DEF Next, PollTransmit

-----------------------------------------------------------------------------
(* The two streams *)

\* Both ends start open, with nothing sent and nothing received.
LEMMA StreamStarts ==
  ASSUME Init
  PROVE  Stream!Init
BY DEF Init, Stream!Init

\* Every step of the connection is a step of the two streams or leaves them
\* alone: send accepts, handle_datagram delivers the next chunks or nothing,
\* close and the idle timer close.
LEMMA StreamStep ==
  ASSUME Foundations, IndInv, InOrderDelivery, IndInv', InOrderDelivery', [Next]_vars
  PROVE  [Stream!Next]_(Stream!vars)
<1>1. /\ state \in [Side -> {"Established", "Closed"}] /\ accepted \in [Side -> Nat]
      /\ delivered \in [Side -> Seq(Nat)] /\ delivered' \in [Side -> Seq(Nat)]
  BY DEF IndInv, TypeOK
<1> DEFINE isOpen == [p \in Side |-> state[p] = "Established"]
<1>2. ASSUME UNCHANGED <<state, accepted, delivered>>
      PROVE  UNCHANGED Stream!vars
  BY <1>2 DEF Stream!vars
<1>3. ASSUME NEW x \in Side, NEW n \in 1 .. MaxChunks[x], Send(x, n)
      PROVE  Stream!Accept(x)
  <2>1. state[x] = "Established" /\ UNCHANGED <<state, delivered>> /\ accepted' = [accepted EXCEPT ![x] = @ + n]
    BY <1>3 DEF Send, recvVars
  <2>2. n \in Nat /\ n >= 1
    BY V2Assumption, SMTT(40), SMTT(41)
  <2>3. accepted'[x] > accepted[x] /\ accepted' = [accepted EXCEPT ![x] = accepted'[x]]
    BY <1>1, <2>1, <2>2, SMTT(40), SMTT(41)
  <2>. QED  BY <2>1, <2>3 DEF Stream!Accept
<1>4. ASSUME NEW x \in Side, state[x] = "Established", state' = [state EXCEPT ![x] = "Closed"],
             UNCHANGED <<accepted, delivered>>
      PROVE  Stream!Close(x)
  <2>1. [p \in Side |-> state'[p] = "Established"] = [isOpen EXCEPT ![x] = FALSE]
    BY <1>1, <1>4
  <2>. QED  BY <1>4, <2>1 DEF Stream!Close
<1>5. ASSUME NEW x \in Side, NEW m \in network, HandleDatagram(x, m)
      PROVE  \/ UNCHANGED Stream!vars
             \/ \E n \in 1 .. accepted[Peer(x)] : Stream!Deliver(x, n)
  <2> DEFINE s == delivered[x]
             t == delivered'[x]
             n == Len(t) - Len(s)
  <2>1. state[x] = "Established" /\ UNCHANGED <<state, accepted>>
    BY <1>5 DEF HandleDatagram, sendVars, ProcessAck
  <2>2. delivered' = [delivered EXCEPT ![x] = t]
    BY <1>1, <1>5 DEF HandleDatagram, ProcessData
  <2>3. Len(s) <= Len(t)
    BY <1>5, HandleDatagramStep DEF IndInv
  <2>4. /\ s \in Seq(Nat) /\ \A i \in 1 .. Len(s) : s[i] = i
        /\ t \in Seq(Nat) /\ \A i \in 1 .. Len(t) : t[i] = i
        /\ Len(t) <= accepted[Peer(x)]
    BY <1>1, <2>1, PeerProperty DEF InOrderDelivery
  <2>5. Len(s) \in Nat /\ Len(t) \in Nat /\ accepted[Peer(x)] \in Nat
    BY <1>1, PeerProperty, SeqLength
  <2>6. t = s \o [i \in 1 .. n |-> Len(s) + i]
    BY <2>3, <2>4, CountingSequence
  <2>7. CASE n = 0
    <3>1. t = s
      BY <2>4, <2>5, <2>6, <2>7, SMTT(40), SMTT(41)
    <3>2. delivered' = delivered
      BY <1>1, <2>2, <3>1
    <3>. QED  BY <1>2, <2>1, <3>2
  <2>8. CASE n # 0
    <3>1. n \in 1 .. accepted[Peer(x)] /\ Len(s) + n <= accepted[Peer(x)]
      <4>. HIDE DEF s, t
      <4>. QED  BY <2>3, <2>4, <2>5, <2>8, SMTT(40), SMTT(41)
    <3>. HIDE DEF n
    <3>2. delivered' = [delivered EXCEPT ![x] = s \o [i \in 1 .. n |-> Len(s) + i]]
      BY <2>2, <2>6
    <3>3. Stream!Deliver(x, n)
      BY <2>1, <3>1, <3>2 DEF Stream!Deliver
    <3>. QED  BY <3>1, <3>3
  <2>. QED  BY <2>7, <2>8
<1>6. ASSUME NEW x \in Side, NEW expired, HandleTimeout(x, expired)
      PROVE  UNCHANGED Stream!vars \/ Stream!Close(x)
  <2>1. UNCHANGED <<accepted, delivered>>
    BY <1>6 DEF HandleTimeout, sendVars, OnRetransmitTimeout
  <2>2. /\ state[x] = "Established"
        /\ state' = [state EXCEPT ![x] = IF "Idle" \in expired THEN "Closed" ELSE @]
    BY <1>6 DEF HandleTimeout
  <2>3. CASE "Idle" \in expired
    BY <1>4, <2>1, <2>2, <2>3
  <2>4. CASE "Idle" \notin expired
    BY <1>1, <1>2, <2>1, <2>2, <2>4
  <2>. QED  BY <2>3, <2>4
<1>7. ASSUME NEW x \in Side, Close(x)
      PROVE  Stream!Close(x)
  BY <1>4, <1>7 DEF Close, sendVars, recvVars
<1>8. ASSUME NEW x \in Side, PollTransmit(x)
      PROVE  UNCHANGED Stream!vars
  BY <1>2, <1>8 DEF PollTransmit, Retransmit, SendNewData, SendAck, sendVars
<1>9. ASSUME NEW m \in network, Lose(m) \/ \E x \in Side : DropOnClosed(x, m)
      PROVE  UNCHANGED Stream!vars
  BY <1>2, <1>9 DEF DropOnClosed, Lose, sendVars, recvVars
<1>10. CASE UNCHANGED vars
  BY <1>2, <1>10 DEF vars, sendVars, recvVars
<1>11. ASSUME NEW x \in Side,
              \/ Stream!Accept(x)
              \/ \E n \in 1 .. accepted[Peer(x)] : Stream!Deliver(x, n)
              \/ Stream!Close(x)
       PROVE  Stream!Next
  BY <1>11 DEF Stream!Next
<1>12. CASE Next
  <2>. HIDE DEF Stream!Next, Stream!vars
  <2>1. ASSUME NEW x \in Side, NEW m \in network, HandleDatagram(x, m) \/ DropOnClosed(x, m)
        PROVE  [Stream!Next]_(Stream!vars)
    BY <1>5, <1>9, <1>11, <2>1
  <2>2. ASSUME NEW x \in Side, NEW expired \in SUBSET Timer, HandleTimeout(x, expired)
        PROVE  [Stream!Next]_(Stream!vars)
    BY <1>6, <1>11, <2>2
  <2>. QED  BY <1>3, <1>7, <1>8, <1>9, <1>11, <1>12, <2>1, <2>2 DEF Next
<1>. QED  BY <1>10, <1>12

-----------------------------------------------------------------------------
(* The bound of the receive window *)

\* A receive window of at most w slots and w chunks out of order.
Within(rw, w) ==
  /\ IsFiniteSet(DOMAIN rw.reorder_buf) /\ Cardinality(DOMAIN rw.reorder_buf) <= w
  /\ rw.received \subseteq rw.base_seq .. (rw.base_seq + w - 1)

WindowsBounded == \A p \in Side : Within(recv_window[p], Window[p])

\* What the bound needs of finite sets.
CardinalityFacts ==
  /\ \A S : IsFiniteSet(S) => Cardinality(S) \in Nat
  /\ \A S, T : IsFiniteSet(T) /\ S \subseteq T =>
                IsFiniteSet(S) /\ Cardinality(S) <= Cardinality(T)
  /\ \A S, c : IsFiniteSet(S) /\ c \notin S =>
                IsFiniteSet(S \cup {c}) /\ Cardinality(S \cup {c}) = Cardinality(S) + 1

\* Moving the base forward keeps the bound.
LEMMA MovedWithin ==
  ASSUME NEW rw, NEW w \in Nat \ {0}, RecvWindowOK(rw), Within(rw, w), NEW moved,
         RecvWindowOK(moved), moved.base_seq >= rw.base_seq,
         moved.received = {d \in rw.received : d >= moved.base_seq},
         moved.reorder_buf = rw.reorder_buf
  PROVE  Within(moved, w)
<1>1. rw.base_seq \in Nat /\ moved.base_seq \in Nat /\ rw.received \subseteq Nat
  BY DEF RecvWindowOK
<1>. QED  BY <1>1, SMTT(40), SMTT(41) DEF Within

\* Taking a packet keeps the bound: a chunk beyond it is refused, unless it is
\* the next one, which does not stay.
LEMMA ReceivedWithin ==
  ASSUME Foundations, CardinalityFacts, NEW rw, NEW w \in Nat \ {0}, RecvWindowOK(rw), Within(rw, w),
         NEW d \in Nat, NEW c \in Nat, NEW data \in Nat, Accepts(rw, d, c, w),
         NEW bound \in Nat, c < bound, \A e \in DOMAIN rw.reorder_buf : e < bound
  PROVE  Within(DrainOrdered(Receive(rw, d, c, data)), w)
<1> DEFINE filled == Receive(rw, d, c, data)
           left == DrainOrdered(filled)
           old == DOMAIN rw.reorder_buf
<1>0. SUFFICES Within(left, w)
  OBVIOUS
<1>1. Fills(rw, d, c, data, filled)
  BY ReceiveProperty
<1>. HIDE DEF filled
<1>2. /\ RecvWindowOK(filled) /\ filled.next_channel_seq = rw.next_channel_seq
      /\ \A e : e \in DOMAIN filled.reorder_buf <=>
                  e \in old \/ (e = c /\ ~(c < rw.next_channel_seq))
      /\ \A e \in DOMAIN filled.reorder_buf : e < bound
  BY <1>1 DEF Fills
<1>3. /\ left.base_seq = rw.base_seq /\ left.received = rw.received \cup {d}
      /\ DrainEnd(filled) \in Nat /\ rw.next_channel_seq <= DrainEnd(filled)
      /\ DrainEnd(filled) \notin DOMAIN filled.reorder_buf
      /\ DOMAIN left.reorder_buf = {e \in DOMAIN filled.reorder_buf : e >= DrainEnd(filled)}
  BY <1>1, <1>2, DrainProperty DEF Fills
<1>. HIDE DEF left
<1>4. rw.base_seq \in Nat /\ rw.next_channel_seq \in Nat /\ rw.received \subseteq Nat
      /\ old \subseteq Nat
  BY DEF RecvWindowOK
<1>5. left.received \subseteq left.base_seq .. (left.base_seq + w - 1)
  BY <1>3, <1>4, SMTT(40), SMTT(41) DEF Accepts, SlotFree, Within
<1>6. IsFiniteSet(old) /\ Cardinality(old) \in Nat /\ Cardinality(old) <= w
  BY DEF Within, CardinalityFacts
<1>7. CASE DOMAIN left.reorder_buf \subseteq old
  <2>1. /\ IsFiniteSet(DOMAIN left.reorder_buf)
        /\ Cardinality(DOMAIN left.reorder_buf) <= Cardinality(old)
    BY <1>6, <1>7 DEF CardinalityFacts
  <2>2. Cardinality(DOMAIN left.reorder_buf) \in Nat
    BY <2>1 DEF CardinalityFacts
  <2>3. Cardinality(DOMAIN left.reorder_buf) <= w
    BY ONLY <1>6, <2>1, <2>2, w \in Nat \ {0}, SMTT(40), SMTT(41)
  <2>. QED  BY <1>5, <2>1, <2>3 DEF Within
<1>8. CASE ~(DOMAIN left.reorder_buf \subseteq old)
  <2>1. c \in DOMAIN left.reorder_buf /\ c \notin old
    BY <1>2, <1>3, <1>8
  <2>2. c > rw.next_channel_seq
    BY <1>2, <1>3, <1>4, <2>1, SMTT(40), SMTT(41)
  <2>3. Cardinality(old) < w
    BY <1>6, <2>1, <2>2, SMTT(40), SMTT(41) DEF Accepts, Refused
  <2>4. IsFiniteSet(old \cup {c}) /\ Cardinality(old \cup {c}) = Cardinality(old) + 1
    BY <1>6, <2>1 DEF CardinalityFacts
  <2>5. DOMAIN left.reorder_buf \subseteq old \cup {c}
    BY <1>2, <1>3
  <2>6. /\ IsFiniteSet(DOMAIN left.reorder_buf)
        /\ Cardinality(DOMAIN left.reorder_buf) <= Cardinality(old \cup {c})
    BY <2>4, <2>5 DEF CardinalityFacts
  <2>7. Cardinality(DOMAIN left.reorder_buf) \in Nat
    BY <2>6 DEF CardinalityFacts
  <2>8. Cardinality(DOMAIN left.reorder_buf) <= w
    BY ONLY <1>6, <2>3, <2>4, <2>6, <2>7, w \in Nat \ {0}, SMTT(40), SMTT(41)
  <2>. QED  BY <1>5, <2>6, <2>8 DEF Within
<1>. QED  BY <1>7, <1>8

\* process_ack_of_acks and process_data keep the bound.
LEMMA ProcessDataWithin ==
  ASSUME Foundations, CardinalityFacts, IndInv, NEW x \in Side, NEW m \in network, m.src = Peer(x), Fresh(x, m),
         ProcessData(x, m), Within(recv_window[x], Window[x])
  PROVE  Within(recv_window'[x], Window[x]) /\ \A y \in Side : y # x => recv_window'[y] = recv_window[y]
<1> DEFINE p == Peer(x)
           rw == RecvAfterAckOfAcks(x, m)
           w == Window[x]
<1>1. /\ TypeOK /\ StreamInv(p) /\ p \in Side /\ Peer(p) = x /\ w \in Nat \ {0} /\ Foundations
      /\ DOMAIN recv_window = Side /\ RecvWindowOK(recv_window[x])
  BY PeerProperty, V2Assumption DEF IndInv, StreamsInv, TypeOK
<1>2. /\ RecvWindowOK(rw) /\ recv_window[x].base_seq <= rw.base_seq
      /\ rw.received = {d \in recv_window[x].received : d >= rw.base_seq}
      /\ rw.reorder_buf = recv_window[x].reorder_buf
  BY <1>1, AfterAckOfAcks
<1>. HIDE DEF rw, p, w
<1>3. Within(rw, w)
  <2>1. rw.base_seq >= recv_window[x].base_seq
    BY <1>1, <1>2 DEF RecvWindowOK
  <2>. QED  BY <1>1, <1>2, <2>1, MovedWithin DEF w
<1>4. CASE ~IsNew(x, m)
  BY <1>1, <1>3, <1>4 DEF ProcessData, rw, w
<1>5. CASE IsNew(x, m)
  <2> DEFINE d == DataSeq(x, m)
             c == ChannelSeq(x, m)
  <2>1. m.data_seq # NoSeq /\ Accepts(rw, d, c, w)
    BY <1>5 DEF IsNew, rw, w
  <2>2. /\ m.data_seq \in Nat /\ m.channel_seq \in Nat /\ m.data \in Nat
        /\ m.channel_seq \in FirstChannelSeq .. (next_channel_seq[p] - 1)
        /\ next_channel_seq[p] \in Nat
    BY <1>1, <2>1 DEF TypeOK, PacketType, SeqNums, StreamInv, DataInFlight, p, FirstChannelSeq
  <2>3. d = m.data_seq /\ c = m.channel_seq
    BY <1>1, <2>1, <2>2, OnWireNear DEF Fresh, DataSeq, ChannelSeq, RecvWindowOK
  <2>4. \A e \in DOMAIN rw.reorder_buf : e < next_channel_seq[p]
    <3>1. \A e \in DOMAIN rw.reorder_buf :
            e \in (recv_window[x].next_channel_seq + 1) .. (next_channel_seq[p] - 1)
      BY <1>1, <1>2 DEF StreamInv, ReceiverNumbering
    <3>. QED  BY <3>1, <2>2, <1>1, SMTT(40), SMTT(41) DEF RecvWindowOK
  <2>. HIDE DEF d, c
  <2>5. Within(DrainOrdered(Receive(rw, d, c, m.data)), w)
    <3>1. c < next_channel_seq[p] /\ d \in Nat /\ c \in Nat
      BY <2>2, <2>3, SMTT(40), SMTT(41)
    <3>. QED  BY <1>1, <1>2, <1>3, <2>1, <2>2, <2>4, <3>1, ReceivedWithin
  <2>6. recv_window' = [recv_window EXCEPT ![x] = DrainOrdered(Receive(rw, d, c, m.data))]
    BY <1>5 DEF ProcessData, rw, d, c
  <2>. QED  BY <1>1, <2>5, <2>6 DEF w
<1>. QED  BY <1>4, <1>5

\* commit_acknowledgement keeps the bound.
LEMMA CommitWithin ==
  ASSUME Foundations, IndInv, NEW x \in Side, Within(recv_window[x], Window[x]),
         recv_window' = [recv_window EXCEPT ![x] = ReleaseAcknowledged(@)]
  PROVE  Within(recv_window'[x], Window[x]) /\ \A y \in Side : y # x => recv_window'[y] = recv_window[y]
<1> DEFINE rw == recv_window[x]
           p == Peer(x)
<1>1. /\ StreamInv(p) /\ Peer(p) = x /\ Window[x] \in Nat \ {0} /\ Foundations
      /\ DOMAIN recv_window = Side /\ RecvWindowOK(rw)
  BY PeerProperty, V2Assumption DEF IndInv, StreamsInv, TypeOK
<1>2. /\ \A d \in rw.received : d >= rw.base_seq /\ d <= rw.highest_seq
      /\ rw.base_seq <= rw.highest_seq => rw.highest_seq \in rw.received
  BY <1>1 DEF StreamInv, ReceiverNumbering
<1>3. LET left == ReleaseAcknowledged(rw)
      IN  /\ RecvWindowOK(left) /\ rw.base_seq <= left.base_seq
          /\ left.received = {d \in rw.received : d >= left.base_seq}
          /\ left.reorder_buf = rw.reorder_buf
  BY <1>1, <1>2, ReleaseProperty
<1>4. recv_window'[x] = ReleaseAcknowledged(rw) /\ \A y \in Side : y # x => recv_window'[y] = recv_window[y]
  BY <1>1
<1>5. ReleaseAcknowledged(rw).base_seq >= rw.base_seq
  BY <1>1, <1>3 DEF RecvWindowOK
<1>. QED  BY <1>1, <1>3, <1>4, <1>5, MovedWithin

\* An empty window is within its bound.
LEMMA BoundStarts ==
  ASSUME Init, IsFiniteSet({}), Cardinality({}) = 0
  PROVE  WindowsBounded
<1>1. ASSUME NEW p \in Side
      PROVE  Within(recv_window[p], Window[p])
  <2>1. DOMAIN recv_window[p].reorder_buf = {} /\ recv_window[p].received = {}
    BY DEF Init, NewRecvWindow
  <2>2. Cardinality({}) <= Window[p]
    <3>1. Window[p] \in Nat
      BY V2Assumption
    <3>. QED  BY ONLY <3>1, Cardinality({}) = 0, SMTT(40), SMTT(41)
  <2>. QED  BY <2>1, <2>2 DEF Within
<1>. QED  BY <1>1 DEF WindowsBounded

\* Every step keeps the bound.
LEMMA BoundStep ==
  ASSUME Foundations, CardinalityFacts, IndInv, WindowsBounded, [Next]_vars
  PROVE  WindowsBounded'
<1>1. ASSUME UNCHANGED recv_window
      PROVE  WindowsBounded'
  BY <1>1 DEF WindowsBounded
<1>2. ASSUME NEW x \in Side, Within(recv_window'[x], Window[x]),
             \A y \in Side : y # x => recv_window'[y] = recv_window[y]
      PROVE  WindowsBounded'
  BY <1>2 DEF WindowsBounded
<1>3. ASSUME NEW x \in Side, PollTransmit(x)
      PROVE  WindowsBounded'
  <2>1. \/ UNCHANGED recv_window
        \/ recv_window' = [recv_window EXCEPT ![x] = ReleaseAcknowledged(@)]
    BY <1>3 DEF PollTransmit, Retransmit, SendNewData, SendAck, TransmitData, CommitAcknowledgement
  <2>. QED  BY <1>1, <1>2, <2>1, CommitWithin DEF WindowsBounded
<1>4. ASSUME NEW x \in Side, NEW m \in network, HandleDatagram(x, m)
      PROVE  WindowsBounded'
  BY <1>2, <1>4, ProcessDataWithin DEF WindowsBounded, HandleDatagram
<1>5. ASSUME NEW x \in Side, NEW m \in network, DropOnClosed(x, m)
      PROVE  UNCHANGED recv_window
  BY <1>5 DEF DropOnClosed, recvVars
<1>6. ASSUME NEW x \in Side, NEW n, Send(x, n)
      PROVE  UNCHANGED recv_window
  BY <1>6 DEF Send, recvVars
<1>7. ASSUME NEW x \in Side, NEW expired, HandleTimeout(x, expired)
      PROVE  UNCHANGED recv_window
  BY <1>7 DEF HandleTimeout
<1>8. ASSUME NEW x \in Side, Close(x)
      PROVE  UNCHANGED recv_window
  BY <1>8 DEF Close, recvVars
<1>9. ASSUME NEW m \in network, Lose(m)
      PROVE  UNCHANGED recv_window
  BY <1>9 DEF Lose, recvVars
<1>10. CASE UNCHANGED vars
  BY <1>1, <1>10 DEF vars, recvVars
<1>. QED  BY <1>1, <1>3, <1>4, <1>5, <1>6, <1>7, <1>8, <1>9, <1>10 DEF Next

\* The bound is what ReceiverBounded says of both windows.
LEMMA BoundHolds ==
  ASSUME IndInv, WindowsBounded
  PROVE  ReceiverBounded
<1>1. SUFFICES ASSUME NEW p \in Side
               PROVE  /\ Within(recv_window[p], Window[p])
                      /\ recv_window[p].next_channel_seq \notin DOMAIN recv_window[p].reorder_buf
  BY DEF ReceiverBounded, Within
<1>2. StreamInv(Peer(p)) /\ Peer(Peer(p)) = p /\ RecvWindowOK(recv_window[p])
  BY <1>1, PeerProperty DEF IndInv, StreamsInv, TypeOK
<1>3. \A c \in DOMAIN recv_window[p].reorder_buf :
        c \in (recv_window[p].next_channel_seq + 1) .. (next_channel_seq[Peer(p)] - 1)
  BY <1>2 DEF StreamInv, ReceiverNumbering
<1>4. recv_window[p].next_channel_seq \in Nat
  BY <1>2 DEF RecvWindowOK
<1>. QED  BY <1>1, <1>3, <1>4, SMTT(40), SMTT(41) DEF WindowsBounded

-----------------------------------------------------------------------------
(* The foundations *)

INSTANCE FiniteSetTheorems

\* The naturals are well ordered and their intervals are finite.
LEMMA FoundationsHold == Foundations
<1>1. NaturalsWellOrdered
  <2>1. ASSUME NEW S \in SUBSET Nat, S # {}
        PROVE  \E x \in S : \A y \in S : x <= y
    <3>1. PICK x \in S : \A y \in S : ~(<<y, x>> \in OpToRel(<, Nat))
      BY <2>1, NatLessThanWellFounded, WFMin, Zenon
    <3>2. \A y \in S : ~(y < x)
      BY <3>1 DEF OpToRel
    <3>. QED  BY <3>2, SMTT(40), SMTT(41)
  <2>. QED  BY <2>1 DEF NaturalsWellOrdered
<1>2. IntervalsFinite
  <2>1. ASSUME NEW a \in Nat, NEW b \in Nat
        PROVE  /\ IsFiniteSet(a .. (b - 1))
               /\ a <= b => Cardinality(a .. (b - 1)) = b - a
               /\ \A S \in SUBSET (a .. (b - 1)) : Cardinality(S) \in Nat
    <3>1. a \in Int /\ b - 1 \in Int
      BY SMTT(40), SMTT(41)
    <3>2. /\ IsFiniteSet(a .. (b - 1))
          /\ Cardinality(a .. (b - 1)) = IF a > b - 1 THEN 0 ELSE (b - 1) - a + 1
      BY <3>1, FS_Interval
    <3>3. \A S \in SUBSET (a .. (b - 1)) : Cardinality(S) \in Nat
      BY <3>2, FS_Subset, FS_CardinalityType
    <3>4. a <= b => (IF a > b - 1 THEN 0 ELSE (b - 1) - a + 1) = b - a
      BY ONLY a \in Nat, b \in Nat, SMTT(40), SMTT(41)
    <3>. QED  BY <3>2, <3>3, <3>4
  <2>. QED  BY <2>1 DEF IntervalsFinite
<1>. QED  BY <1>1, <1>2 DEF Foundations

LEMMA CardinalityHolds == CardinalityFacts
BY FS_CardinalityType, FS_Subset, FS_AddElement DEF CardinalityFacts

-----------------------------------------------------------------------------
(* The theorems *)

\* The inductive invariant holds in every reachable state, for every window
\* size, initial sequence number, wire modulus and number of faults.
THEOREM Invariance == Spec => []IndInv
<1>1. Init => IndInv
  BY InitialState DEF IndInv
<1>2. IndInv /\ [Next]_vars => IndInv'
  BY InductiveStep, FoundationsHold DEF IndInv
<1>. QED  BY <1>1, <1>2, PTL DEF Spec

\* The variables of the connection keep their types.
THEOREM TypeCorrect == Spec => []TypeOK
BY Invariance, PTL DEF IndInv

\* Whatever is lost, duplicated or reordered, the peer's application gets a
\* prefix of what was sent, in order (send, process_data).
THEOREM InOrder == Spec => []InOrderDelivery
BY InOrderStep, Invariance, PTL DEF IndInv

\* Resolving, declaring lost and retransmitting never drop a chunk the peer
\* does not hold, and never queue it twice (process_ack, declare_lost).
THEOREM NothingForgotten == Spec => []NoChunkForgotten
<1>1. TypeOK /\ StreamsInv => NoChunkForgotten
  BY DEF StreamsInv, StreamInv, NoChunkForgotten
<1>. QED  BY <1>1, Invariance, PTL DEF IndInv

\* The send window stays a run of consecutive numbers no longer than its size
\* (push, mark_lost, advance_window).
THEOREM WindowStaysContiguous == Spec => []WindowContiguous
<1>1. TypeOK /\ StreamsInv => WindowContiguous
  BY DEF StreamsInv, StreamInv, WindowContiguous
<1>. QED  BY <1>1, Invariance, PTL DEF IndInv

\* An AckOfAcks, pending or in flight, never exceeds the lowest number its
\* sender still waits for (declare_lost, process_ack_of_acks).
THEOREM AckOfAcksStaysBehind == Spec => []AckOfAcksBehindWindow
<1>1. TypeOK /\ StreamsInv => AckOfAcksBehindWindow
  BY DEF StreamsInv, StreamInv, AckOfAcksBehindWindow
<1>. QED  BY <1>1, Invariance, PTL DEF IndInv

\* The AckOfAcks is not withdrawn while the peer still waits for a number the
\* sender gave up (retire_ack_of_acks).
THEOREM HolesStayAdvertised == Spec => []HolesAdvertised
<1>1. TypeOK /\ StreamsInv => HolesAdvertised
  BY DEF StreamsInv, StreamInv, HolesAdvertised
<1>. QED  BY <1>1, Invariance, PTL DEF IndInv

\* Every acknowledgement in flight claims only packets whose chunk the
\* acknowledging side holds (build_acknowledgement, process_ack_of_acks).
THEOREM AcksStayTruthful == Spec => []AcksTruthful
BY AcksStep, Invariance, PTL DEF IndInv

\* The receive side never holds more slots or chunks than its window, and
\* never keeps the chunk that is next in order (receive, occupy_slot,
\* drain_ordered).
THEOREM ReceiverStaysBounded == Spec => []ReceiverBounded
<1>1. Init => WindowsBounded
  BY BoundStarts, FS_EmptySet
<1>2. IndInv /\ WindowsBounded /\ [Next]_vars => WindowsBounded'
  BY BoundStep, FoundationsHold, CardinalityHolds
<1>3. IndInv /\ WindowsBounded => ReceiverBounded
  BY BoundHolds
<1>. QED  BY <1>1, <1>2, <1>3, Invariance, PTL DEF Spec

\* Something outstanding always has the retransmit timer armed, and a closed
\* connection has no timer (update_retransmit_timer, handle_timeout).
THEOREM WorkStaysTimed == Spec => []TimersServeWork
<1>1. Init => TimersServeWork
  BY SMTT(40), SMTT(41) DEF Init, TimersServeWork, Pending, EmptyWindow
<1>2. IndInv /\ TimersServeWork /\ [Next]_vars => TimersServeWork'
  BY ServedStep DEF IndInv, TimersServeWork, Served
<1>. QED  BY <1>1, <1>2, Invariance, PTL DEF Spec

\* The connection implements the two ordered streams: whatever the network
\* does, each application sees a stream that is only ever extended by the
\* next chunks, and never after its end has closed (send, process_data,
\* handle_timeout, close).
THEOREM RefinesStream == Spec => ImplementsStream
<1>1. Init => Stream!Init
  BY StreamStarts
<1>2. IndInv /\ InOrderDelivery /\ (IndInv /\ InOrderDelivery)' /\ [Next]_vars => [Stream!Next]_(Stream!vars)
  BY StreamStep, FoundationsHold
<1>. QED  BY <1>1, <1>2, Invariance, InOrder, PTL DEF Spec, ImplementsStream, Stream!Spec
=============================================================================
