----------------------- MODULE RdpeudpV2StreamLemmas ------------------------
(***************************************************************************)
(* What the steps do to a stream of RdpeudpV2: StreamsInv looks one stream *)
(* at a time, from a side p to its peer, and there is one lemma for each   *)
(* way a step touches the stream.  The stream is left alone (StreamAlone); *)
(* p resolves packets (StreamResolved); the peer sends an acknowledgement  *)
(* (StreamAcked); p sends a data packet, new or again (StreamSent); the    *)
(* peer follows its AckOfAcks, fills a slot and delivers what is now in    *)
(* order (StreamGrown, StreamReceived).                                    *)
(***************************************************************************)
EXTENDS RdpeudpV2, RdpeudpWindowProofs, TLAPS

USE ZenonT(5), SMTT(40), ZenonT(30), SMTT(41)

-----------------------------------------------------------------------------
(* Sides *)

\* The two sides are each other's peers.
LEMMA PeerProperty ==
  ASSUME NEW p \in Side
  PROVE  Peer(p) \in Side /\ Peer(p) # p /\ Peer(Peer(p)) = p /\ Side = {p, Peer(p)}
BY DEF Side, Peer

\* A number close to the reference survives the wire.
LEMMA OnWireNear ==
  ASSUME NEW full \in Nat, NEW reference \in Nat, Near(full, reference)
  PROVE  OnWire(full, reference) = full
BY ReconstructTruncate DEF OnWire

\* Both streams are covered by a side and its peer.
LEMMA BothStreams ==
  ASSUME NEW x \in Side
  PROVE  /\ StreamInv(x) /\ StreamInv(Peer(x)) => StreamsInv
         /\ StreamInv(x)' /\ StreamInv(Peer(x))' => StreamsInv'
         /\ StreamsInv => StreamInv(x) /\ StreamInv(Peer(x))
BY PeerProperty DEF StreamsInv

-----------------------------------------------------------------------------
(* Finite windows *)

\* A window whose numbers are consecutive is finite and as large as its range.
LEMMA WindowFinite ==
  ASSUME Foundations, NEW window, NEW next \in Nat, Contiguous(window, next)
  PROVE  /\ IsFiniteSet(DOMAIN window)
         /\ Cardinality(DOMAIN window) = next - LowestUnacknowledged(window, next)
         /\ \A S \in SUBSET DOMAIN window : Cardinality(S) \in Nat
<1> DEFINE low == LowestUnacknowledged(window, next)
<1>1. low \in Nat /\ low <= next /\ DOMAIN window = low .. (next - 1)
  BY SMTT(40), SMTT(41) DEF Contiguous
<1>. HIDE DEF low
<1>. QED  BY <1>1 DEF Foundations, IntervalsFinite, low

-----------------------------------------------------------------------------
(* The ways a step touches the stream from p *)

SenderSame(p) ==
  /\ send_window'[p] = send_window[p] /\ retransmit_queue'[p] = retransmit_queue[p]
  /\ next_data_seq'[p] = next_data_seq[p] /\ next_channel_seq'[p] = next_channel_seq[p]
  /\ pending_ack_of_acks'[p] = pending_ack_of_acks[p]
  /\ accepted'[p] = accepted[p] /\ send_buffer'[p] = send_buffer[p]

ReceiverSame(q) == recv_window'[q] = recv_window[q] /\ delivered'[q] = delivered[q]

\* p takes the acknowledged and the lost packets out of its window and queues
\* the lost ones.
Resolves(p, acked, lost) ==
  LET window == send_window[p]
      left   == send_window'[p]
      queue  == retransmit_queue[p]
      longer == retransmit_queue'[p]
      low    == LowestUnacknowledged(left, next_data_seq[p])
      advertised == IF lost = {} THEN pending_ack_of_acks[p] ELSE low
  IN  /\ acked \subseteq Pending(window) /\ lost \subseteq Pending(window) \ acked
      /\ Contiguous(left, next_data_seq[p])
      /\ Pending(left) = (Pending(window) \ acked) \ lost
      /\ Low(p) <= low
      /\ DOMAIN left \subseteq DOMAIN window
      /\ \A d \in DOMAIN left :
           /\ left[d] \in EntryType
           /\ left[d].channel_seq = window[d].channel_seq
           /\ left[d].data = window[d].data
      /\ \A d \in lost : d < low
      /\ DOMAIN longer = DOMAIN queue \cup lost
      /\ \A d \in DOMAIN queue : longer[d] = queue[d]
      /\ \A d \in lost :
           longer[d] = [channel_seq |-> window[d].channel_seq, data |-> window[d].data]
      /\ \/ pending_ack_of_acks'[p] = advertised
         \/ pending_ack_of_acks'[p] = NoSeq /\ advertised < recv_window[Peer(p)].base_seq
      /\ next_data_seq'[p] = next_data_seq[p] /\ next_channel_seq'[p] = next_channel_seq[p]
      /\ accepted'[p] = accepted[p] /\ send_buffer'[p] = send_buffer[p]

\* Nothing the stream knows of changes, except that datagrams disappear.
LEMMA StreamAlone ==
  ASSUME NEW p \in Side, StreamInv(p), SenderSame(p), ReceiverSame(Peer(p)),
         network' \subseteq network
  PROVE  StreamInv(p)'
<1>. USE DEF SenderSame, ReceiverSame, Low, Got, AtPeer
<1>1. ChunksKept(p)' /\ WindowBounded(p)' /\ HolesCovered(p)'
  <2>1. \A c : PendingUnder(p, c)' = PendingUnder(p, c) /\ QueuedUnder(p, c)' = QueuedUnder(p, c)
    BY DEF PendingUnder, QueuedUnder
  <2>2. ChunksKept(p)'
    BY <2>1 DEF StreamInv, ChunksKept
  <2>3. WindowBounded(p)' /\ HolesCovered(p)'
    BY DEF StreamInv, WindowBounded, HolesCovered
  <2>. QED  BY <2>2, <2>3
<1>2. BehindWindow(p)'
  BY DEF StreamInv, BehindWindow
<1>3. SenderNumbering(p)' /\ ReceiverNumbering(p)' /\ Agreement(p)'
  BY DEF StreamInv, SenderNumbering, ReceiverNumbering, Agreement
<1>4. DataInFlight(p)' /\ AcksInFlight(p)'
  BY DEF StreamInv, DataInFlight, AcksInFlight
<1>. QED  BY <1>1, <1>2, <1>3, <1>4 DEF StreamInv

\* Resolving packets keeps the invariant when the acknowledged ones are at
\* the peer.
LEMMA StreamResolved ==
  ASSUME NEW p \in Side, TypeOK, StreamInv(p), NEW acked, NEW lost, Resolves(p, acked, lost),
         \A d \in acked : Got(p, d),
         ReceiverSame(Peer(p)), network' \subseteq network
  PROVE  StreamInv(p)'
<1> DEFINE window == send_window[p]
           left   == send_window'[p]
           queue  == retransmit_queue[p]
           longer == retransmit_queue'[p]
           next   == next_data_seq[p]
           low    == Low(p)
           new    == LowestUnacknowledged(left, next)
<1>1. pending_ack_of_acks[p] \in SeqNums /\ recv_window[Peer(p)].base_seq \in Nat
  BY PeerProperty DEF TypeOK, RecvWindowOK
<1>2. /\ low \in 0 .. next /\ DOMAIN window = low .. (next - 1)
      /\ next - low <= Window[p]
  BY DEF StreamInv, WindowBounded, Contiguous, Low
<1>3. /\ acked \subseteq Pending(window) /\ lost \subseteq Pending(window) \ acked
      /\ Pending(left) = (Pending(window) \ acked) \ lost
      /\ DOMAIN left \subseteq DOMAIN window
  BY DEF Resolves
<1>3a. /\ Contiguous(left, next) /\ DOMAIN left = new .. (next - 1)
       /\ low <= new /\ new \in 0 .. next
  BY DEF Resolves, Contiguous
<1>3b. /\ next \in Nat /\ low \in Nat /\ new \in Nat
       /\ low <= new /\ new <= next
  <2>1. next \in Nat /\ low \in 0 .. next /\ new \in 0 .. next /\ low <= new
    BY <1>2, <1>3a DEF TypeOK
  <2>. HIDE DEF next, low, new
  <2>. QED  BY ONLY <2>1, SMTT(40), SMTT(41)
<1>4. \A d \in DOMAIN left : /\ left[d].channel_seq = window[d].channel_seq
                             /\ left[d].data = window[d].data
  BY DEF Resolves
<1>5. DOMAIN longer = DOMAIN queue \cup lost /\ \A d \in DOMAIN queue : longer[d] = queue[d]
  BY DEF Resolves
<1>5a. \A d \in lost : /\ longer[d].channel_seq = window[d].channel_seq
                       /\ longer[d].data = window[d].data
  <2>1. ASSUME NEW d \in lost
        PROVE  /\ longer[d].channel_seq = window[d].channel_seq
               /\ longer[d].data = window[d].data
    <3>1. longer[d] = [channel_seq |-> window[d].channel_seq, data |-> window[d].data]
      BY DEF Resolves
    <3>. QED  BY ONLY <3>1, SMTT(40), SMTT(41)
  <2>. QED  BY <2>1
<1>5b. \A d \in lost : d < new
  BY DEF Resolves
<1>6. /\ next_data_seq'[p] = next /\ next_channel_seq'[p] = next_channel_seq[p]
      /\ accepted'[p] = accepted[p] /\ send_buffer'[p] = send_buffer[p]
      /\ Low(p)' = new
  BY DEF Resolves, Low
<1>7. /\ \A d : Got(p, d)' = Got(p, d) /\ \A c : AtPeer(p, c)' = AtPeer(p, c)
      /\ recv_window'[Peer(p)] = recv_window[Peer(p)]
  BY DEF ReceiverSame, Got, AtPeer
<1>8. \A d \in DOMAIN window : IF d \in Pending(window)
                               THEN Got(p, d) => AtPeer(p, window[d].channel_seq)
                               ELSE Got(p, d)
  BY DEF StreamInv, Agreement
<1>10. Pending(window) \subseteq DOMAIN window /\ Pending(left) \subseteq DOMAIN left
  BY DEF Pending
<1>. HIDE DEF left, longer, new
<1>11. WindowBounded(p)'
  <2>1. Window[p] \in Nat
    BY V2Assumption
  <2>2. next - new <= Window[p]
    <3>1. next - low <= Window[p]
      BY <1>2
    <3>. HIDE DEF next, low
    <3>. QED  BY ONLY <2>1, <3>1, <1>3b, SMTT(40), SMTT(41)
  <2>. QED  BY <2>2, <1>3a, <1>6 DEF WindowBounded, left
<1>12. ChunksKept(p)'
  <2>1. ASSUME NEW c \in FirstChannelSeq .. (next_channel_seq[p] - 1)
        PROVE  AtPeer(p, c)' \/ PendingUnder(p, c)' # {} \/ QueuedUnder(p, c)' # {}
    <3>1. CASE AtPeer(p, c)
      BY <3>1, <1>7
    <3>2. CASE PendingUnder(p, c) # {}
      <4>1. PICK d \in Pending(window) : window[d].channel_seq = c
        BY <3>2 DEF PendingUnder
      <4>2. CASE d \in acked
        BY <4>1, <4>2, <1>7, <1>8, <1>10
      <4>3. CASE d \in lost
        <5>1. d \in DOMAIN longer /\ longer[d].channel_seq = c
          BY <4>1, <4>3, <1>5, <1>5a
        <5>. QED  BY <5>1 DEF QueuedUnder, longer
      <4>4. CASE d \notin acked /\ d \notin lost
        <5>1. d \in Pending(left) /\ left[d].channel_seq = c
          BY <4>1, <4>4, <1>3, <1>4, <1>10
        <5>. QED  BY <5>1 DEF PendingUnder, left
      <4>. QED  BY <4>2, <4>3, <4>4
    <3>3. CASE QueuedUnder(p, c) # {}
      <4>1. PICK d \in DOMAIN queue : queue[d].channel_seq = c
        BY <3>3 DEF QueuedUnder
      <4>2. d \in DOMAIN longer /\ longer[d].channel_seq = c
        BY <4>1, <1>5
      <4>. QED  BY <4>2 DEF QueuedUnder, longer
    <3>. QED  BY <2>1, <3>1, <3>2, <3>3 DEF StreamInv, ChunksKept
  <2>2. ASSUME NEW c \in FirstChannelSeq .. (next_channel_seq[p] - 1),
               NEW d \in (PendingUnder(p, c) \cup QueuedUnder(p, c))',
               NEW e \in (PendingUnder(p, c) \cup QueuedUnder(p, c))'
        PROVE  d = e
    <3>1. (PendingUnder(p, c) \cup QueuedUnder(p, c))' \subseteq PendingUnder(p, c) \cup QueuedUnder(p, c)
      <4>1. ASSUME NEW x \in Pending(left), left[x].channel_seq = c
            PROVE  x \in PendingUnder(p, c)
        BY <4>1, <1>3, <1>4, <1>10 DEF PendingUnder
      <4>2. ASSUME NEW x \in DOMAIN longer, longer[x].channel_seq = c
            PROVE  x \in PendingUnder(p, c) \cup QueuedUnder(p, c)
        <5>1. CASE x \in DOMAIN queue
          BY <4>2, <5>1, <1>5 DEF QueuedUnder
        <5>2. CASE x \in lost
          BY <4>2, <5>2, <1>3, <1>5a DEF PendingUnder
        <5>. QED  BY <4>2, <5>1, <5>2, <1>5
      <4>. QED  BY <4>1, <4>2 DEF PendingUnder, QueuedUnder, left, longer
    <3>. QED  BY <2>2, <3>1 DEF StreamInv, ChunksKept
  <2>. QED  BY <2>1, <2>2, <1>6 DEF ChunksKept
<1>13. BehindWindow(p)'
  <2>1. pending_ack_of_acks'[p] <= new
    <3>1. pending_ack_of_acks[p] <= low
      BY DEF StreamInv, BehindWindow
    <3>2. pending_ack_of_acks'[p] \in {pending_ack_of_acks[p], new, NoSeq}
      BY DEF Resolves, left, new
    <3>. HIDE DEF low, next
    <3>. QED  BY ONLY <3>1, <3>2, <1>1, <1>3b, SMTT(40), SMTT(41) DEF SeqNums, NoSeq
  <2>2. ASSUME NEW m \in network, m.src = p  PROVE m.ack_of_acks <= new
    <3>1. m.ack_of_acks \in SeqNums /\ m.ack_of_acks <= low
      BY <2>2 DEF StreamInv, BehindWindow, TypeOK, PacketType
    <3>. HIDE DEF low, next
    <3>. QED  BY ONLY <3>1, <1>3b, SMTT(40), SMTT(41) DEF SeqNums, NoSeq
  <2>. QED  BY <2>1, <2>2, <1>6 DEF BehindWindow
<1>14. HolesCovered(p)'
  <2>1. ASSUME NEW d \in 0 .. (new - 1), ~Got(p, d)  PROVE pending_ack_of_acks'[p] > d
    <3> DEFINE base == recv_window[Peer(p)].base_seq
               advertised == IF lost = {} THEN pending_ack_of_acks[p] ELSE new
    <3>1. \/ pending_ack_of_acks'[p] = advertised
          \/ pending_ack_of_acks'[p] = NoSeq /\ advertised < base
      BY DEF Resolves, left, new
    <3>2. ~(d < base)
      BY <2>1 DEF Got
    <3>3. advertised > d
      <4>1. CASE lost # {}
        BY <4>1, <2>1, <1>3b, SMTT(40), SMTT(41)
      <4>2. CASE lost = {} /\ d < low
        <5>1. d \in 0 .. (low - 1)
          BY <4>2, <2>1, <1>3b, SMTT(40), SMTT(41)
        <5>2. Got(p, d) \/ pending_ack_of_acks[p] > d
          BY <5>1 DEF StreamInv, HolesCovered
        <5>. QED  BY <4>2, <5>2, <2>1
      <4>3. CASE lost = {} /\ ~(d < low)
        <5>1. d \in DOMAIN window /\ d \notin DOMAIN left
          <6>1. DOMAIN window = low .. (next - 1) /\ DOMAIN left = new .. (next - 1)
            BY <1>2, <1>3a
          <6>2. d \in 0 .. (new - 1) /\ ~(d < low)
            BY <4>3, <2>1
          <6>. HIDE DEF window, low, next
          <6>. QED  BY ONLY <6>1, <6>2, <1>3b, SMTT(40), SMTT(41)
        <5>2. d \notin Pending(left)
          BY <5>1, <1>10
        <5>3. d \in acked \/ d \notin Pending(window)
          BY <5>2, <4>3, <1>3
        <5>. QED  BY <5>1, <5>3, <2>1, <1>8
      <4>. QED  BY <4>1, <4>2, <4>3
    <3>4. d \in 0 .. (new - 1) /\ base \in Nat /\ advertised \in SeqNums
      BY <2>1, <1>1, <1>3b DEF SeqNums
    <3>. HIDE DEF base, advertised
    <3>. QED  BY ONLY <3>1, <3>2, <3>3, <3>4, <1>3b, SMTT(40), SMTT(41) DEF SeqNums, NoSeq
  <2>. QED  BY <2>1, <1>6, <1>7 DEF HolesCovered
<1>15. SenderNumbering(p)'
  <2> DEFINE given == FirstChannelSeq .. (next_channel_seq[p] - 1)
  <2>1. \A d \in DOMAIN window : window[d].channel_seq \in given
                                 /\ window[d].data = window[d].channel_seq
    BY DEF StreamInv, SenderNumbering
  <2>2. \A d \in DOMAIN left : left[d].channel_seq \in given
                               /\ left[d].data = left[d].channel_seq
    BY <2>1, <1>3, <1>4
  <2>3. \A d \in DOMAIN queue : /\ d < low /\ queue[d].channel_seq \in given
                                /\ queue[d].data = queue[d].channel_seq
    BY DEF StreamInv, SenderNumbering
  <2>4. DOMAIN queue \subseteq Nat
    BY DEF TypeOK
  <2>5. ASSUME NEW d \in DOMAIN longer
        PROVE  /\ d < new /\ longer[d].channel_seq \in given
               /\ longer[d].data = longer[d].channel_seq
    <3>1. CASE d \in DOMAIN queue
      <4>1. d \in Nat /\ d < low
        BY <3>1, <2>3, <2>4
      <4>2. d < new
        BY ONLY <4>1, <1>3b, SMTT(40), SMTT(41)
      <4>. QED  BY <3>1, <4>2, <2>3, <1>5
    <3>2. CASE d \in lost
      BY <3>2, <2>1, <1>3, <1>5a, <1>5b, <1>10
    <3>. QED  BY <3>1, <3>2, <1>5
  <2>6. /\ next_channel_seq[p] >= FirstChannelSeq
        /\ accepted[p] = next_channel_seq[p] - 1 + Len(send_buffer[p])
        /\ \A i \in 1 .. Len(send_buffer[p]) : send_buffer[p][i] = next_channel_seq[p] - 1 + i
    BY DEF StreamInv, SenderNumbering
  <2>. QED  BY <2>2, <2>5, <2>6, <1>6 DEF SenderNumbering, left, longer
<1>16. ReceiverNumbering(p)'
  BY <1>6 DEF StreamInv, ReceiverNumbering, ReceiverSame
<1>17. Agreement(p)'
  <2>1. ASSUME NEW d \in DOMAIN left
        PROVE  IF d \in Pending(left)
               THEN Got(p, d) => AtPeer(p, left[d].channel_seq)
               ELSE Got(p, d)
    <3>1. d \in DOMAIN window /\ left[d].channel_seq = window[d].channel_seq
      BY <2>1, <1>3, <1>4
    <3>2. d \notin lost
      <4>1. d \in new .. (next - 1)
        BY <2>1, <1>3a
      <4>2. ~(d < new)
        BY ONLY <4>1, <1>3b, SMTT(40), SMTT(41)
      <4>. QED  BY <4>2, <1>5b
    <3>. QED  BY <3>1, <3>2, <1>3, <1>8
  <2>. QED  BY <2>1, <1>7 DEF Agreement, left
<1>18. DataInFlight(p)'
  <2>1. \A d \in DOMAIN left : d \in DOMAIN window /\ left[d].channel_seq = window[d].channel_seq
    BY <1>3, <1>4
  <2>. QED  BY <2>1, <1>6 DEF StreamInv, DataInFlight, left
<1>19. AcksInFlight(p)'
  BY <1>7 DEF StreamInv, AcksInFlight
<1>. QED  BY <1>11, <1>12, <1>13, <1>14, <1>15, <1>16, <1>17, <1>18, <1>19 DEF StreamInv

\* A packet from the peer, carrying an acknowledgement of what the peer has
\* or none at all, keeps the invariant.
LEMMA StreamAcked ==
  ASSUME Foundations, NEW p \in Side, TypeOK, StreamInv(p), SenderSame(p),
         delivered'[Peer(p)] = delivered[Peer(p)],
         NEW m, network' = network \cup {m}, m.src = Peer(p),
         \/ m.ack = NoAck /\ recv_window'[Peer(p)] = recv_window[Peer(p)]
         \/ /\ m.ack = Acknowledgement(Peer(p))
            /\ recv_window'[Peer(p)] = ReleaseAcknowledged(recv_window[Peer(p)])
  PROVE  StreamInv(p)' /\ RecvWindowOK(recv_window'[Peer(p)])
<1> DEFINE q == Peer(p)
           rw == recv_window[q]
           left == recv_window'[q]
           next == next_data_seq[p]
<1>1. q \in Side /\ q # p /\ RecvWindowOK(rw) /\ next \in Nat
  BY PeerProperty DEF TypeOK
<1>1a. rw.base_seq \in Nat /\ rw.highest_seq \in Nat /\ rw.received \subseteq Nat
  BY <1>1 DEF RecvWindowOK
<1>2. ReceiverNumbering(p)
  BY DEF StreamInv
<1>2a. /\ rw.base_seq <= next /\ rw.highest_seq < next
       /\ rw.base_seq <= rw.highest_seq => rw.highest_seq \in rw.received
  BY <1>2 DEF ReceiverNumbering
<1>3. /\ RecvWindowOK(left)
      /\ left.base_seq \in Nat /\ rw.base_seq <= left.base_seq
      /\ \A d \in Nat : d < left.base_seq => d < rw.base_seq \/ d \in rw.received
      /\ left.received = {d \in rw.received : d >= left.base_seq}
      /\ left.highest_seq = rw.highest_seq
      /\ left.next_channel_seq = rw.next_channel_seq
      /\ left.reorder_buf = rw.reorder_buf
      /\ left.base_seq <= next
      /\ m.ack = NoAck \/ (m.ack = Acknowledgement(q) /\ (~HasGaps(rw) => rw.highest_seq < left.base_seq))
  <2>1. /\ \A d \in rw.received : d >= rw.base_seq /\ d <= rw.highest_seq
        /\ rw.base_seq <= rw.highest_seq => rw.highest_seq \in rw.received
    BY <1>2 DEF ReceiverNumbering
  <2>3. CASE m.ack = NoAck /\ left = rw
    <3>1. rw.base_seq <= rw.base_seq
      BY ONLY <1>1a, SMTT(40), SMTT(41)
    <3>2. rw.received = {d \in rw.received : d >= rw.base_seq}
      BY <2>1
    <3>. HIDE DEF left, rw
    <3>. QED  BY <2>3, <3>1, <3>2, <1>1, <1>1a, <1>2a
  <2>4. CASE m.ack = Acknowledgement(q) /\ left = ReleaseAcknowledged(rw)
    <3> DEFINE rel == ReleaseAcknowledged(rw)
    <3>1. /\ RecvWindowOK(rel)
          /\ rel.base_seq \in Nat /\ rw.base_seq <= rel.base_seq
          /\ \A d \in Nat : d < rel.base_seq => d < rw.base_seq \/ d \in rw.received
          /\ rel.received = {d \in rw.received : d >= rel.base_seq}
          /\ rel.highest_seq = rw.highest_seq
          /\ rel.next_channel_seq = rw.next_channel_seq
          /\ rel.reorder_buf = rw.reorder_buf
          /\ rw.base_seq <= rw.highest_seq => rel.base_seq <= rw.highest_seq + 1
          /\ ~(rw.base_seq <= rw.highest_seq) => rel.base_seq = rw.base_seq
          /\ ~HasGaps(rw) => rw.highest_seq < rel.base_seq
      BY <2>1, <1>1, ReleaseProperty
    <3>2. rel.base_seq <= next
      <4>1. /\ rel.base_seq \in Nat
            /\ rw.base_seq <= rw.highest_seq => rel.base_seq <= rw.highest_seq + 1
            /\ ~(rw.base_seq <= rw.highest_seq) => rel.base_seq = rw.base_seq
        BY <3>1
      <4>2. next \in Nat /\ rw.base_seq <= next /\ rw.highest_seq < next
        BY <1>1, <1>2a
      <4>. HIDE DEF rel, rw, next
      <4>. QED  BY ONLY <4>1, <4>2, <1>1a, SMTT(40), SMTT(41)
    <3>. HIDE DEF rel
    <3>3. left = rel
      BY <2>4 DEF rel
    <3>. QED  BY <3>1, <3>2, <3>3, <2>4
  <2>. QED  BY <2>3, <2>4
<1>3a. left.base_seq \in Nat /\ rw.base_seq <= left.base_seq
  BY <1>3
<1>3b. /\ \A d \in Nat : d < left.base_seq => d < rw.base_seq \/ d \in rw.received
       /\ left.received = {d \in rw.received : d >= left.base_seq}
  BY <1>3
<1>4. \A d \in Nat : Got(p, d)' <=> Got(p, d)
  <2>1. ASSUME NEW d \in Nat
        PROVE  d < left.base_seq \/ d \in left.received <=> d < rw.base_seq \/ d \in rw.received
    <3>. HIDE DEF left, rw
    <3>. QED  BY ONLY <2>1, <1>1a, <1>3a, <1>3b, SMTT(40), SMTT(41)
  <2>. QED  BY <2>1 DEF Got
<1>5. \A c : AtPeer(p, c)' <=> AtPeer(p, c)
  BY <1>3 DEF AtPeer
<1>6. DOMAIN send_window[p] \subseteq Nat /\ Low(p)' = Low(p)
  BY DEF TypeOK, SenderSame, Low
<1>7. ReceiverNumbering(p)'
  <2>1. \A d \in left.received : d >= left.base_seq /\ d <= left.highest_seq
    BY <1>2, <1>3 DEF ReceiverNumbering
  <2>2. left.base_seq <= left.highest_seq => left.highest_seq \in left.received
    <3>1. /\ left.received = {d \in rw.received : d >= left.base_seq}
          /\ left.highest_seq = rw.highest_seq
          /\ rw.base_seq <= rw.highest_seq => rw.highest_seq \in rw.received
      BY <1>2a, <1>3
    <3>. HIDE DEF left, rw
    <3>. QED  BY ONLY <3>1, <1>1a, <1>3a, SMTT(40), SMTT(41)
  <2>. HIDE DEF left
  <2>. QED  BY <2>1, <2>2, <1>2, <1>3 DEF ReceiverNumbering, SenderSame, left
<1>8. ChunksKept(p)' /\ WindowBounded(p)' /\ SenderNumbering(p)'
  <2>1. \A c : PendingUnder(p, c)' = PendingUnder(p, c) /\ QueuedUnder(p, c)' = QueuedUnder(p, c)
    BY DEF SenderSame, PendingUnder, QueuedUnder
  <2>2. ChunksKept(p)'
    BY <1>5, <2>1 DEF StreamInv, ChunksKept, SenderSame
  <2>3. WindowBounded(p)'
    BY <1>6 DEF StreamInv, WindowBounded, SenderSame
  <2>4. SenderNumbering(p)'
    BY <1>6 DEF StreamInv, SenderNumbering, SenderSame
  <2>. QED  BY <2>2, <2>3, <2>4
<1>9. BehindWindow(p)' /\ DataInFlight(p)'
  BY <1>1, <1>6 DEF StreamInv, BehindWindow, DataInFlight, SenderSame
<1>10. HolesCovered(p)'
  <2>1. \A d \in 0 .. (Low(p) - 1) : d \in Nat
    BY SMTT(40), SMTT(41)
  <2>. QED  BY <2>1, <1>4, <1>6 DEF StreamInv, HolesCovered, SenderSame
<1>11. Agreement(p)'
  BY <1>4, <1>5, <1>6 DEF StreamInv, Agreement, SenderSame
<1>12. AcksInFlight(p)'
  <2>1. ASSUME NEW n \in network, n.src = q
        PROVE  /\ n.ack.kind = "Cumulative" => n.ack.seq \in Nat /\ n.ack.seq < left.base_seq
               /\ n.ack.kind = "Vector" =>
                    /\ n.ack.seq \in Nat /\ n.ack.seq <= left.base_seq
                    /\ \A o \in n.ack.received : Got(p, n.ack.seq + o)'
    <3>1. n.ack.received \subseteq Nat
      BY DEF TypeOK, PacketType, AckType
    <3>2. /\ n.ack.kind = "Cumulative" => n.ack.seq \in Nat /\ n.ack.seq < rw.base_seq
          /\ n.ack.kind = "Vector" =>
               /\ n.ack.seq \in Nat /\ n.ack.seq <= rw.base_seq
               /\ \A o \in n.ack.received : Got(p, n.ack.seq + o)
      BY <2>1 DEF StreamInv, AcksInFlight
    <3>4. n.ack.kind = "Vector" => \A o \in n.ack.received : n.ack.seq + o \in Nat
      BY <3>1, <3>2, SMTT(40), SMTT(41)
    <3>. HIDE DEF rw, left
    <3>5. n.ack.kind = "Cumulative" => n.ack.seq \in Nat /\ n.ack.seq < left.base_seq
      BY <3>2, <1>1a, <1>3a, SMTT(40), SMTT(41)
    <3>6. n.ack.kind = "Vector" => n.ack.seq \in Nat /\ n.ack.seq <= left.base_seq
      BY <3>2, <1>1a, <1>3a, SMTT(40), SMTT(41)
    <3>. QED  BY <3>2, <3>4, <3>5, <3>6, <1>4
  <2>2. /\ m.ack.kind = "Cumulative" => m.ack.seq \in Nat /\ m.ack.seq < left.base_seq
        /\ m.ack.kind = "Vector" =>
             /\ m.ack.seq \in Nat /\ m.ack.seq <= left.base_seq
             /\ \A o \in m.ack.received : Got(p, m.ack.seq + o)'
    <3>1. CASE m.ack = NoAck
      BY <3>1, SMTT(40), SMTT(41) DEF NoAck
    <3>2. CASE m.ack = Acknowledgement(q) /\ ~HasGaps(rw)
      <4>1. m.ack = [kind |-> "Cumulative", seq |-> rw.highest_seq, received |-> {}]
        BY <3>2 DEF Acknowledgement
      <4>2. rw.highest_seq < left.base_seq
        <5>1. m.ack # NoAck
          BY <4>1, SMTT(40), SMTT(41) DEF NoAck
        <5>2. ~HasGaps(rw) => rw.highest_seq < left.base_seq
          BY <5>1, <1>3
        <5>. QED  BY <5>2, <3>2
      <4>. HIDE DEF left, rw
      <4>. QED  BY ONLY <4>1, <4>2, <1>1a, SMTT(40), SMTT(41)
    <3>3. CASE m.ack = Acknowledgement(q) /\ HasGaps(rw)
      <4>1. m.ack = [kind |-> "Vector", seq |-> rw.base_seq, received |-> AckVectorOffsets(rw)]
        BY <3>3 DEF Acknowledgement
      <4>2. \A o \in AckVectorOffsets(rw) : rw.base_seq + o \in rw.received
        BY <1>1a, SMTT(40), SMTT(41) DEF AckVectorOffsets
      <4>3. \A o \in AckVectorOffsets(rw) : rw.base_seq + o \in Nat /\ Got(p, rw.base_seq + o)
        BY <4>2, <1>1a DEF Got
      <4>4. \A s \in Nat : (\E o \in AckVectorOffsets(rw) : s = rw.base_seq + o) => Got(p, s)'
        BY <4>3, <1>4
      <4>. HIDE DEF left, rw
      <4>. QED  BY ONLY <4>1, <4>3, <4>4, <1>1a, <1>3a, SMTT(40), SMTT(41)
    <3>. QED  BY <3>1, <3>2, <3>3, <1>3
  <2>. QED  BY <2>1, <2>2 DEF AcksInFlight
<1>. QED  BY <1>3, <1>7, <1>8, <1>9, <1>10, <1>11, <1>12 DEF StreamInv

-----------------------------------------------------------------------------
(* The two sources of a data packet *)

\* The chunk in a packet under a fresh number comes off the retransmit queue,
\* or is the next one of the send buffer.
TakesQueued(p, c) ==
  LET front == Min(DOMAIN retransmit_queue[p])
  IN  /\ DOMAIN retransmit_queue[p] # {}
      /\ c = retransmit_queue[p][front].channel_seq
      /\ retransmit_queue'[p] = Dequeue(retransmit_queue[p])
      /\ next_channel_seq'[p] = next_channel_seq[p] /\ send_buffer'[p] = send_buffer[p]

TakesNew(p, c) ==
  /\ send_buffer[p] # <<>>
  /\ c = next_channel_seq[p]
  /\ retransmit_queue'[p] = retransmit_queue[p]
  /\ next_channel_seq'[p] = next_channel_seq[p] + 1 /\ send_buffer'[p] = Tail(send_buffer[p])

\* Sending a data packet keeps the invariant.
LEMMA StreamSent ==
  ASSUME Foundations, NEW p \in Side, TypeOK, StreamInv(p), ReceiverSame(Peer(p)), NEW c \in Nat,
         HasCapacity(send_window[p], Window[p]),
         send_window'[p] = Push(send_window[p], next_data_seq[p], c, c),
         next_data_seq'[p] = next_data_seq[p] + 1,
         pending_ack_of_acks'[p] = pending_ack_of_acks[p], accepted'[p] = accepted[p],
         NEW m, network' = network \cup {m}, m.src = p, m.data_seq = next_data_seq[p],
         m.channel_seq = c, m.data = c, m.ack_of_acks = pending_ack_of_acks[p],
         TakesQueued(p, c) \/ TakesNew(p, c)
  PROVE  StreamInv(p)'
<1> DEFINE window == send_window[p]
           pushed == send_window'[p]
           queue == retransmit_queue[p]
           shorter == retransmit_queue'[p]
           next == next_data_seq[p]
           chan == next_channel_seq[p]
           low == Low(p)
           given == FirstChannelSeq .. (chan - 1)
<1>1. next \in Nat /\ chan \in Nat /\ Window[p] \in Nat
  BY V2Assumption DEF TypeOK
<1>1a. /\ Peer(p) \in Side /\ Peer(p) # p
       /\ DOMAIN queue \subseteq Nat /\ send_buffer[p] \in Seq(Nat)
  BY PeerProperty DEF TypeOK
<1>2. Contiguous(window, next) /\ low \in 0 .. next /\ DOMAIN window = low .. (next - 1)
  BY DEF StreamInv, WindowBounded, Contiguous, Low
<1>2a. low \in Nat /\ low <= next
  BY <1>1, <1>2, SMTT(40), SMTT(41)
<1>3. /\ Contiguous(pushed, next + 1)
      /\ Pending(pushed) = Pending(window) \cup {next}
      /\ Low(p)' = low
      /\ DOMAIN pushed = DOMAIN window \cup {next}
      /\ pushed[next] = [channel_seq |-> c, data |-> c, state |-> "Pending"]
      /\ \A d \in DOMAIN window : pushed[d] = window[d]
  <2>1. Extends(window, next, c, c, pushed)
    BY <1>1, <1>2, PushProperty, SMTT(40), SMTT(41)
  <2>. HIDE DEF pushed
  <2>2. Low(p)' = LowestUnacknowledged(pushed, next + 1) /\ low = LowestUnacknowledged(window, next)
    BY DEF Low, pushed
  <2>. QED  BY <2>1, <2>2 DEF Extends
<1>3a. /\ Pending(pushed) = Pending(window) \cup {next} /\ DOMAIN pushed = DOMAIN window \cup {next}
       /\ \A d \in DOMAIN window : pushed[d] = window[d]
  BY <1>3
<1>4. /\ pushed[next].channel_seq = c /\ pushed[next].data = c
      /\ next \notin DOMAIN window
  <2>1. pushed[next] = [channel_seq |-> c, data |-> c, state |-> "Pending"]
    BY <1>3
  <2>2. DOMAIN window = low .. (next - 1)
    BY <1>2
  <2>. HIDE DEF pushed, window, next, low
  <2>. QED  BY ONLY <2>1, <2>2, <1>1, <1>2a, SMTT(40), SMTT(41)
<1>5. chan >= FirstChannelSeq
  BY DEF StreamInv, SenderNumbering
<1>5a. \A d \in DOMAIN window : window[d].channel_seq \in given /\ window[d].data = window[d].channel_seq
  BY DEF StreamInv, SenderNumbering
<1>5b. \A d \in DOMAIN queue : /\ d < low /\ queue[d].channel_seq \in given
                               /\ queue[d].data = queue[d].channel_seq
  BY DEF StreamInv, SenderNumbering
<1>5c. /\ accepted[p] = chan - 1 + Len(send_buffer[p])
       /\ \A i \in 1 .. Len(send_buffer[p]) : send_buffer[p][i] = chan - 1 + i
  BY DEF StreamInv, SenderNumbering
<1>6. /\ \A d : Got(p, d)' = Got(p, d) /\ \A x : AtPeer(p, x)' = AtPeer(p, x)
      /\ recv_window'[Peer(p)] = recv_window[Peer(p)] /\ delivered'[Peer(p)] = delivered[Peer(p)]
  BY DEF ReceiverSame, Got, AtPeer
<1>7. Pending(window) \subseteq DOMAIN window
  BY DEF Pending
<1>8. \A x \in given : /\ AtPeer(p, x) \/ PendingUnder(p, x) # {} \/ QueuedUnder(p, x) # {}
                       /\ \A d, e \in PendingUnder(p, x) \cup QueuedUnder(p, x) : d = e
  BY DEF StreamInv, ChunksKept
<1>9. \A x : /\ x = c => PendingUnder(p, x)' = PendingUnder(p, x) \cup {next}
             /\ x # c => PendingUnder(p, x)' = PendingUnder(p, x)
  <2> DEFINE under(x) == {d \in Pending(window) : window[d].channel_seq = x}
             underNow(x) == {d \in Pending(pushed) : pushed[d].channel_seq = x}
  <2>1. ASSUME NEW x
        PROVE  /\ x = c => underNow(x) = under(x) \cup {next}
               /\ x # c => underNow(x) = under(x)
    <3>. HIDE DEF pushed
    <3>. QED  BY <1>3a, <1>4, <1>7, SMTT(40), SMTT(41)
  <2>. QED  BY <2>1 DEF PendingUnder
<1>10. next_channel_seq'[p] \in Nat /\ c \in FirstChannelSeq .. (next_channel_seq'[p] - 1)
       /\ next_channel_seq'[p] >= chan
  <2>1. CASE TakesQueued(p, c)
    <3>1. Min(DOMAIN queue) \in DOMAIN queue
      BY <2>1, <1>1a, MinProperty DEF TakesQueued
    <3>2. next_channel_seq'[p] = chan /\ c \in given
      BY <2>1, <3>1, <1>5b DEF TakesQueued
    <3>. QED  BY <3>2, <1>1, SMTT(40), SMTT(41)
  <2>2. CASE TakesNew(p, c)
    <3>1. next_channel_seq'[p] = chan + 1 /\ c = chan
      BY <2>2 DEF TakesNew
    <3>. QED  BY <3>1, <1>1, <1>5, SMTT(40), SMTT(41) DEF FirstChannelSeq
  <2>. QED  BY <2>1, <2>2
<1>. HIDE DEF pushed, shorter
<1>11. WindowBounded(p)'
  <2>1. Cardinality(DOMAIN window) = next - low
    BY <1>1, <1>2, WindowFinite DEF Low
  <2>2. next - low < Window[p]
    BY <2>1 DEF HasCapacity
  <2>3. (next + 1) - low <= Window[p]
    BY <2>2, <1>1, <1>2a, SMTT(40), SMTT(41)
  <2>. QED  BY <2>3, <1>3 DEF WindowBounded, pushed
<1>12. BehindWindow(p)'
  BY <1>3 DEF StreamInv, BehindWindow
<1>13. HolesCovered(p)'
  BY <1>3, <1>6 DEF StreamInv, HolesCovered
<1>14. ReceiverNumbering(p)'
  <2> DEFINE rw == recv_window[Peer(p)]
  <2>1. /\ Len(delivered[Peer(p)]) = rw.next_channel_seq - 1
        /\ \A i \in 1 .. Len(delivered[Peer(p)]) : delivered[Peer(p)][i] = i
        /\ \A d \in rw.received : d >= rw.base_seq /\ d <= rw.highest_seq
        /\ rw.base_seq <= rw.highest_seq => rw.highest_seq \in rw.received
    BY DEF StreamInv, ReceiverNumbering
  <2>1a. rw.base_seq <= next /\ rw.highest_seq < next
    BY DEF StreamInv, ReceiverNumbering
  <2>1b. rw.next_channel_seq \in FirstChannelSeq .. chan
    BY DEF StreamInv, ReceiverNumbering
  <2>1c. \A x \in DOMAIN rw.reorder_buf :
           x \in (rw.next_channel_seq + 1) .. (chan - 1) /\ rw.reorder_buf[x] = x
    BY DEF StreamInv, ReceiverNumbering
  <2>2. rw.base_seq \in Nat /\ rw.highest_seq \in Nat /\ rw.next_channel_seq \in Nat
    BY <1>1a DEF TypeOK, RecvWindowOK
  <2>. HIDE DEF rw
  <2>3. rw.base_seq <= next + 1 /\ rw.highest_seq < next + 1
    BY ONLY <2>1a, <2>2, <1>1, SMTT(40), SMTT(41)
  <2>2a. rw.next_channel_seq \in Nat /\ chan \in Nat /\ next_channel_seq'[p] \in Nat /\ next_channel_seq'[p] >= chan
    BY <2>2, <1>1, <1>10
  <2>4. rw.next_channel_seq \in FirstChannelSeq .. next_channel_seq'[p]
    BY ONLY <2>1b, <2>2a, SMTT(40), SMTT(41) DEF FirstChannelSeq
  <2>5. \A x \in DOMAIN rw.reorder_buf :
          x \in (rw.next_channel_seq + 1) .. (next_channel_seq'[p] - 1) /\ rw.reorder_buf[x] = x
    BY ONLY <2>1c, <2>2a, SMTT(40), SMTT(41)
  <2>. QED  BY <2>1, <2>3, <2>4, <2>5, <1>6 DEF ReceiverNumbering, rw
<1>15. Agreement(p)'
  <2>1. ~Got(p, next)
    <3> DEFINE rw == recv_window[Peer(p)]
    <3>1. /\ rw.base_seq <= next /\ rw.highest_seq < next
          /\ \A d \in rw.received : d <= rw.highest_seq
      BY DEF StreamInv, ReceiverNumbering
    <3>2. rw.base_seq \in Nat /\ rw.highest_seq \in Nat
      BY <1>1a DEF TypeOK, RecvWindowOK
    <3>. HIDE DEF rw
    <3>3. ~(next < rw.base_seq \/ next \in rw.received)
      BY <3>1, <3>2, <1>1, SMTT(40), SMTT(41)
    <3>. QED  BY <3>3 DEF Got, rw
  <2>2. ASSUME NEW d \in DOMAIN pushed
        PROVE  IF d \in Pending(pushed)
               THEN Got(p, d) => AtPeer(p, pushed[d].channel_seq)
               ELSE Got(p, d)
    <3>1. CASE d = next
      BY <3>1, <2>1, <1>3
    <3>2. CASE d \in DOMAIN window
      <4>1. IF d \in Pending(window)
            THEN Got(p, d) => AtPeer(p, window[d].channel_seq)
            ELSE Got(p, d)
        BY <3>2 DEF StreamInv, Agreement
      <4>2. d # next
        BY <3>2, <1>4
      <4>. QED  BY <3>2, <4>1, <4>2, <1>3
    <3>. QED  BY <3>1, <3>2, <1>3
  <2>. QED  BY <2>2, <1>6 DEF Agreement, pushed
<1>16. DataInFlight(p)'
  <2>1. ASSUME NEW n \in network, n.src = p, n.data_seq # NoSeq
        PROVE  /\ n.data_seq < next + 1
               /\ n.channel_seq \in FirstChannelSeq .. (next_channel_seq'[p] - 1)
               /\ n.data = n.channel_seq
               /\ n.data_seq \in DOMAIN pushed => n.channel_seq = pushed[n.data_seq].channel_seq
    <3>1. /\ n.data_seq < next /\ n.channel_seq \in given /\ n.data = n.channel_seq
          /\ n.data_seq \in DOMAIN window => n.channel_seq = window[n.data_seq].channel_seq
      BY <2>1 DEF StreamInv, DataInFlight
    <3>2. n.data_seq \in Nat
      BY <2>1 DEF TypeOK, PacketType, SeqNums
    <3>3. n.data_seq < next /\ n.channel_seq \in given
      BY <3>1
    <3>4. n.data_seq < next + 1 /\ n.data_seq # next
      BY ONLY <3>2, <3>3, <1>1, SMTT(40), SMTT(41)
    <3>5. n.channel_seq \in FirstChannelSeq .. (next_channel_seq'[p] - 1)
      BY <3>3, <1>1, <1>10, SMTT(40), SMTT(41) DEF FirstChannelSeq
    <3>. QED  BY <3>1, <3>4, <3>5, <1>3a
  <2>2. /\ m.data_seq < next + 1 /\ m.data = m.channel_seq
        /\ m.channel_seq \in FirstChannelSeq .. (next_channel_seq'[p] - 1)
        /\ m.channel_seq = pushed[m.data_seq].channel_seq
    <3>1. next < next + 1
      BY ONLY <1>1, SMTT(40), SMTT(41)
    <3>. QED  BY <3>1, <1>4, <1>10
  <2>. QED  BY <2>1, <2>2 DEF DataInFlight, pushed
<1>17. AcksInFlight(p)'
  BY <1>1a, <1>6 DEF StreamInv, AcksInFlight
<1>18. CASE TakesQueued(p, c)
  <2> DEFINE front == Min(DOMAIN queue)
  <2>1. front \in DOMAIN queue /\ queue[front].channel_seq = c
    BY <1>18, <1>1a, MinProperty DEF TakesQueued
  <2>2. /\ DOMAIN shorter = DOMAIN queue \ {front}
        /\ \A d \in DOMAIN shorter : shorter[d] = queue[d]
    BY <1>18 DEF TakesQueued, Dequeue, Restrict, shorter
  <2>3. next_channel_seq'[p] = chan /\ send_buffer'[p] = send_buffer[p]
    BY <1>18 DEF TakesQueued
  <2>. HIDE DEF front
  <2>4. SenderNumbering(p)'
    <3>1. \A d \in DOMAIN pushed : pushed[d].channel_seq \in given /\ pushed[d].data = pushed[d].channel_seq
      <4>1. c \in given
        BY <2>3, <1>10
      <4>. QED  BY <4>1, <1>3a, <1>4, <1>5a
    <3>2. \A d \in DOMAIN shorter : /\ d < low /\ shorter[d].channel_seq \in given
                                    /\ shorter[d].data = shorter[d].channel_seq
      BY <2>2, <1>5b
    <3>3. /\ next_channel_seq'[p] >= FirstChannelSeq
          /\ accepted'[p] = next_channel_seq'[p] - 1 + Len(send_buffer'[p])
          /\ \A i \in 1 .. Len(send_buffer'[p]) :
               send_buffer'[p][i] = next_channel_seq'[p] - 1 + i
      BY <2>3, <1>5, <1>5c
    <3>. QED  BY <3>1, <3>2, <3>3, <2>3, <1>3 DEF SenderNumbering, pushed, shorter
  <2>5. \A x : QueuedUnder(p, x)' = QueuedUnder(p, x) \ {front}
    BY <2>2 DEF QueuedUnder, shorter
  <2>6. ChunksKept(p)'
    <3>1. ASSUME NEW x \in given
          PROVE  /\ AtPeer(p, x) \/ PendingUnder(p, x)' # {} \/ QueuedUnder(p, x)' # {}
                 /\ \A d, e \in PendingUnder(p, x)' \cup QueuedUnder(p, x)' : d = e
      <4>1. front \in QueuedUnder(p, x) <=> x = c
        BY <2>1 DEF QueuedUnder
      <4>2. CASE x # c
        <5>1. PendingUnder(p, x)' = PendingUnder(p, x)
          BY ONLY <4>2, <1>9
        <5>2. QueuedUnder(p, x)' = QueuedUnder(p, x)
          BY ONLY <4>1, <4>2, <2>5
        <5>3. /\ AtPeer(p, x) \/ PendingUnder(p, x) # {} \/ QueuedUnder(p, x) # {}
              /\ \A d, e \in PendingUnder(p, x) \cup QueuedUnder(p, x) : d = e
          BY <3>1, <1>8
        <5>. QED  BY ONLY <5>1, <5>2, <5>3, SMTT(40), SMTT(41)
      <4>3. CASE x = c
        <5>1. front \notin PendingUnder(p, x)
          <6>1. ~(front \in DOMAIN window)
            <7>1. front \in Nat /\ front < low /\ DOMAIN window = low .. (next - 1)
              BY <2>1, <1>1a, <1>2, <1>5b
            <7>. HIDE DEF window, low, next
            <7>. QED  BY ONLY <7>1, <1>1, <1>2a, SMTT(40), SMTT(41)
          <6>. QED  BY <6>1, <1>7 DEF PendingUnder
        <5>2. PendingUnder(p, x) = {} /\ QueuedUnder(p, x) = {front}
          <6>1. \A d, e \in PendingUnder(p, x) \cup QueuedUnder(p, x) : d = e
            BY <3>1, <1>8
          <6>2. front \in QueuedUnder(p, x)
            BY <4>1, <4>3
          <6>. QED  BY ONLY <5>1, <6>1, <6>2, SMTT(40), SMTT(41)
        <5>3. PendingUnder(p, x)' = {next} /\ QueuedUnder(p, x)' = {}
          <6>1. PendingUnder(p, x)' = PendingUnder(p, x) \cup {next} /\ QueuedUnder(p, x)' = QueuedUnder(p, x) \ {front}
            BY <4>3, <2>5, <1>9
          <6>. QED  BY <5>2, <6>1
        <5>. QED  BY <5>3
      <4>. QED  BY <4>2, <4>3
    <3>. QED  BY <3>1, <2>3, <1>6 DEF ChunksKept
  <2>. QED  BY <2>4, <2>6, <1>11, <1>12, <1>13, <1>14, <1>15, <1>16, <1>17 DEF StreamInv
<1>19. CASE TakesNew(p, c)
  <2>1. /\ c = chan /\ shorter = queue /\ next_channel_seq'[p] = chan + 1
        /\ send_buffer[p] # <<>> /\ send_buffer'[p] = Tail(send_buffer[p])
    BY <1>19 DEF TakesNew, shorter
  <2>2. SenderNumbering(p)'
    <3> DEFINE more == FirstChannelSeq .. ((chan + 1) - 1)
    <3>1. given \subseteq more /\ c \in more /\ chan + 1 >= FirstChannelSeq
      <4>1. chan >= 1 /\ chan \in Nat /\ c = chan
        BY <2>1, <1>1, <1>5 DEF FirstChannelSeq
      <4>. HIDE DEF chan
      <4>. QED  BY ONLY <4>1, SMTT(40), SMTT(41) DEF FirstChannelSeq
    <3>. HIDE DEF more
    <3>2. \A d \in DOMAIN pushed : pushed[d].channel_seq \in more /\ pushed[d].data = pushed[d].channel_seq
      BY <3>1, <1>3a, <1>4, <1>5a
    <3>3. \A d \in DOMAIN queue : /\ d < low /\ queue[d].channel_seq \in more
                                  /\ queue[d].data = queue[d].channel_seq
      BY <3>1, <1>5b
    <3>4. /\ Tail(send_buffer[p]) \in Seq(Nat) /\ Len(Tail(send_buffer[p])) = Len(send_buffer[p]) - 1
          /\ \A i \in 1 .. Len(Tail(send_buffer[p])) : Tail(send_buffer[p])[i] = send_buffer[p][i + 1]
          /\ Len(send_buffer[p]) \in Nat \ {0}
      BY <2>1, <1>1a, SeqTail
    <3>5. accepted[p] = (chan + 1) - 1 + Len(send_buffer'[p])
      <4>1. /\ Len(send_buffer'[p]) = Len(send_buffer[p]) - 1 /\ Len(send_buffer[p]) \in Nat
            /\ accepted[p] = chan - 1 + Len(send_buffer[p])
        BY <2>1, <3>4, <1>5c
      <4>. HIDE DEF chan
      <4>. QED  BY ONLY <4>1, <1>1, SMTT(40), SMTT(41)
    <3>6. \A i \in 1 .. Len(send_buffer'[p]) : send_buffer'[p][i] = (chan + 1) - 1 + i
      <4>1. ASSUME NEW i \in 1 .. Len(send_buffer'[p])
            PROVE  send_buffer'[p][i] = (chan + 1) - 1 + i
        <5>1. i + 1 \in 1 .. Len(send_buffer[p]) /\ send_buffer'[p][i] = send_buffer[p][i + 1]
          <6>1. /\ i \in 1 .. Len(send_buffer'[p]) /\ send_buffer'[p] = Tail(send_buffer[p])
                /\ Len(send_buffer'[p]) = Len(send_buffer[p]) - 1 /\ Len(send_buffer[p]) \in Nat
            BY <4>1, <2>1, <3>4
          <6>2. i + 1 \in 1 .. Len(send_buffer[p])
            BY ONLY <6>1, SMTT(40), SMTT(41)
          <6>. QED  BY <6>1, <6>2, <3>4
        <5>2. send_buffer[p][i + 1] = chan - 1 + (i + 1)
          BY <5>1, <1>5c
        <5>3. chan \in Int /\ i \in Int
          BY <4>1, <1>1, SMTT(40), SMTT(41)
        <5>. HIDE DEF chan
        <5>. QED  BY ONLY <5>1, <5>2, <5>3, SMTT(40), SMTT(41)
      <4>. QED  BY <4>1
    <3>7. /\ next_channel_seq'[p] = chan + 1 /\ shorter = queue /\ Low(p)' = low
          /\ accepted'[p] = accepted[p]
      BY <2>1, <1>3
    <3>8. \A d \in DOMAIN send_window'[p] :
            /\ send_window'[p][d].channel_seq \in FirstChannelSeq .. (next_channel_seq'[p] - 1)
            /\ send_window'[p][d].data = send_window'[p][d].channel_seq
      BY <3>2, <3>7 DEF pushed, more
    <3>9. \A d \in DOMAIN retransmit_queue'[p] :
            /\ d < Low(p)'
            /\ retransmit_queue'[p][d].channel_seq \in FirstChannelSeq .. (next_channel_seq'[p] - 1)
            /\ retransmit_queue'[p][d].data = retransmit_queue'[p][d].channel_seq
      BY <3>3, <3>7 DEF shorter, more
    <3>10. /\ next_channel_seq'[p] >= FirstChannelSeq
           /\ accepted'[p] = next_channel_seq'[p] - 1 + Len(send_buffer'[p])
           /\ \A i \in 1 .. Len(send_buffer'[p]) : send_buffer'[p][i] = next_channel_seq'[p] - 1 + i
      BY <3>1, <3>5, <3>6, <3>7
    <3>. QED  BY <3>8, <3>9, <3>10 DEF SenderNumbering
  <2>3. \A x : QueuedUnder(p, x)' = QueuedUnder(p, x)
    BY <2>1 DEF QueuedUnder, shorter
  <2>4. ChunksKept(p)'
    <3>1. ASSUME NEW x \in FirstChannelSeq .. ((chan + 1) - 1)
          PROVE  /\ AtPeer(p, x) \/ PendingUnder(p, x)' # {} \/ QueuedUnder(p, x)' # {}
                 /\ \A d, e \in PendingUnder(p, x)' \cup QueuedUnder(p, x)' : d = e
      <4>1. CASE x # c
        <5>1. PendingUnder(p, x)' = PendingUnder(p, x) /\ QueuedUnder(p, x)' = QueuedUnder(p, x)
          BY <4>1, <2>3, <1>9
        <5>2. x \in given
          <6>1. x # chan /\ x \in FirstChannelSeq .. ((chan + 1) - 1)
            BY <4>1, <2>1, <3>1
          <6>. QED  BY ONLY <6>1, <1>1, SMTT(40), SMTT(41)
        <5>3. /\ AtPeer(p, x) \/ PendingUnder(p, x) # {} \/ QueuedUnder(p, x) # {}
              /\ \A d, e \in PendingUnder(p, x) \cup QueuedUnder(p, x) : d = e
          BY <5>2, <1>8
        <5>. QED  BY ONLY <5>1, <5>3, SMTT(40), SMTT(41)
      <4>2. CASE x = c
        <5>1. c \notin given
          BY <2>1, <1>1, SMTT(40), SMTT(41)
        <5>2. PendingUnder(p, x) = {} /\ QueuedUnder(p, x) = {}
          <6>1. \A d \in DOMAIN window : window[d].channel_seq # x
            BY <4>2, <5>1, <1>5a
          <6>2. \A d \in DOMAIN queue : queue[d].channel_seq # x
            BY <4>2, <5>1, <1>5b
          <6>. QED  BY <6>1, <6>2, <1>7 DEF PendingUnder, QueuedUnder
        <5>3. PendingUnder(p, x)' = {next} /\ QueuedUnder(p, x)' = {}
          BY <4>2, <5>2, <2>3, <1>9
        <5>. QED  BY <5>3
      <4>. QED  BY <4>1, <4>2
    <3>. QED  BY <3>1, <2>1, <1>6 DEF ChunksKept
  <2>. QED  BY <2>2, <2>4, <1>11, <1>12, <1>13, <1>14, <1>15, <1>16, <1>17 DEF StreamInv
<1>. QED  BY <1>18, <1>19

-----------------------------------------------------------------------------
\* The receive window after an AckOfAcks: its base has moved, never past the
\* sender's lowest unresolved number.
LEMMA AfterAckOfAcks ==
  ASSUME NEW p \in Side, TypeOK, StreamInv(p), NEW m \in network, m.src = p, Fresh(Peer(p), m)
  PROVE  LET rw == recv_window[Peer(p)]
             moved == RecvAfterAckOfAcks(Peer(p), m)
         IN  /\ RecvWindowOK(moved)
             /\ rw.base_seq <= moved.base_seq
             /\ moved.base_seq = rw.base_seq \/ moved.base_seq <= Low(p)
             /\ moved.received = {d \in rw.received : d >= moved.base_seq}
             /\ moved.highest_seq = rw.highest_seq
             /\ moved.next_channel_seq = rw.next_channel_seq
             /\ moved.reorder_buf = rw.reorder_buf
<1> DEFINE q == Peer(p)
           rw == recv_window[q]
<1>1. q \in Side /\ RecvWindowOK(rw)
  BY PeerProperty DEF TypeOK
<1>2. rw.base_seq \in Nat /\ rw.highest_seq \in Nat /\ rw.received \subseteq Nat
  BY <1>1 DEF RecvWindowOK
<1>3. \A d \in rw.received : d >= rw.base_seq
  BY DEF StreamInv, ReceiverNumbering
<1>4. m.ack_of_acks \in SeqNums /\ m.ack_of_acks <= Low(p)
  BY DEF TypeOK, PacketType, StreamInv, BehindWindow
<1>5. CASE m.ack_of_acks = NoSeq
  <2>1. RecvAfterAckOfAcks(q, m) = rw
    BY <1>5 DEF RecvAfterAckOfAcks
  <2>2. rw.base_seq <= rw.base_seq
    BY <1>2, SMTT(40), SMTT(41)
  <2>3. rw.received = {d \in rw.received : d >= rw.base_seq}
    BY <1>3
  <2>. QED  BY <2>1, <2>2, <2>3, <1>1
<1>6. CASE m.ack_of_acks # NoSeq
  <2> DEFINE base == m.ack_of_acks
  <2>1. base \in Nat
    BY <1>4, <1>6 DEF SeqNums
  <2>2. OnWire(base, rw.highest_seq) = base
    BY <2>1, <1>2, <1>6, OnWireNear DEF Fresh
  <2>3. RecvAfterAckOfAcks(q, m) = AdvanceBase(rw, base)
    BY <2>2, <1>6 DEF RecvAfterAckOfAcks
  <2> DEFINE moved == AdvanceBase(rw, base)
  <2>4. /\ RecvWindowOK(moved)
        /\ moved.base_seq = IF base <= rw.base_seq THEN rw.base_seq ELSE base
        /\ moved.received = {d \in rw.received : d >= moved.base_seq}
        /\ moved.highest_seq = rw.highest_seq
        /\ moved.next_channel_seq = rw.next_channel_seq
        /\ moved.reorder_buf = rw.reorder_buf
    BY <2>1, <1>1, <1>3, AdvanceBaseProperty
  <2>. HIDE DEF moved
  <2>5. rw.base_seq <= moved.base_seq /\ (moved.base_seq = rw.base_seq \/ moved.base_seq <= Low(p))
    <3>1. /\ moved.base_seq = IF base <= rw.base_seq THEN rw.base_seq ELSE base
          /\ rw.base_seq \in Nat /\ base <= Low(p)
      BY <2>4, <1>2, <1>4
    <3>. HIDE DEF base, rw
    <3>. QED  BY ONLY <2>1, <3>1, SMTT(40), SMTT(41)
  <2>. QED  BY <2>3, <2>4, <2>5 DEF moved
<1>. QED  BY <1>5, <1>6

\* How a receive window may grow: the base moves up to the sender's window at
\* most, one slot is filled if its chunk is taken, chunks once held stay held
\* or are delivered.
Grows(p, added) ==
  LET rw   == recv_window[Peer(p)]
      left == recv_window'[Peer(p)]
  IN  /\ RecvWindowOK(left)
      /\ rw.base_seq <= left.base_seq
      /\ left.base_seq = rw.base_seq \/ left.base_seq <= Low(p)
      /\ left.received = {d \in rw.received : d >= left.base_seq} \cup added
      /\ \A c \in Nat : AtPeer(p, c) => AtPeer(p, c)'
      /\ \A d \in added : d \in Nat
      /\ \A d \in added \cap DOMAIN send_window[p] : \A c \in Nat :
           c = send_window[p][d].channel_seq => AtPeer(p, c)'

\* A window that grows keeps the invariant.
LEMMA StreamGrown ==
  ASSUME NEW p \in Side, TypeOK, StreamInv(p), SenderSame(p), network' \subseteq network,
         NEW added, Grows(p, added), ReceiverNumbering(p)'
  PROVE  StreamInv(p)'
<1> DEFINE rw == recv_window[Peer(p)]
           left == recv_window'[Peer(p)]
<1>1. /\ rw.base_seq \in Nat /\ rw.received \subseteq Nat /\ left.base_seq \in Nat
      /\ rw.base_seq <= left.base_seq
      /\ left.base_seq = rw.base_seq \/ left.base_seq <= Low(p)
      /\ left.received = {d \in rw.received : d >= left.base_seq} \cup added
  BY PeerProperty DEF Grows, TypeOK, RecvWindowOK
<1>2. /\ DOMAIN send_window[p] \subseteq Nat /\ Low(p)' = Low(p)
      /\ \A d \in DOMAIN send_window[p] : d >= Low(p) /\ send_window[p][d].channel_seq \in Nat
      /\ Low(p) \in Nat
  <2>1. Low(p)' = Low(p)
    BY DEF SenderSame, Low
  <2>2. Low(p) \in 0 .. next_data_seq[p] /\ DOMAIN send_window[p] = Low(p) .. (next_data_seq[p] - 1)
    BY DEF StreamInv, WindowBounded, Contiguous, Low
  <2>3. next_data_seq[p] \in Nat
    BY DEF TypeOK
  <2>4. \A d \in DOMAIN send_window[p] : send_window[p][d].channel_seq \in Nat
    BY DEF TypeOK, EntryType
  <2>5. Low(p) \in Nat /\ \A d \in Low(p) .. (next_data_seq[p] - 1) : d \in Nat /\ d >= Low(p)
    BY ONLY <2>2, <2>3, SMTT(40), SMTT(41)
  <2>. QED  BY <2>1, <2>2, <2>4, <2>5
<1>3. \A d \in Nat : Got(p, d) => Got(p, d)'
  <2>1. ASSUME NEW d \in Nat, d < rw.base_seq \/ d \in rw.received
        PROVE  d < left.base_seq \/ d \in left.received
    <3>. HIDE DEF rw, left
    <3>. QED  BY <2>1, <1>1, SMTT(40), SMTT(41)
  <2>. QED  BY <2>1 DEF Got
<1>4. \A d \in Nat : Got(p, d)' => Got(p, d) \/ d < Low(p) \/ d \in added
  <2>1. ASSUME NEW d \in Nat, d < left.base_seq \/ d \in left.received
        PROVE  d < rw.base_seq \/ d \in rw.received \/ d < Low(p) \/ d \in added
    <3>. HIDE DEF rw, left
    <3>. QED  BY <2>1, <1>1, <1>2, SMTT(40), SMTT(41)
  <2>. QED  BY <2>1 DEF Got
<1>5. \A c \in Nat : AtPeer(p, c) => AtPeer(p, c)'
  BY DEF Grows
<1>6. ChunksKept(p)'
  <2>1. \A c \in FirstChannelSeq .. (next_channel_seq[p] - 1) : c \in Nat
    BY SMTT(40), SMTT(41) DEF FirstChannelSeq
  <2>2. \A c : PendingUnder(p, c)' = PendingUnder(p, c) /\ QueuedUnder(p, c)' = QueuedUnder(p, c)
    BY DEF SenderSame, PendingUnder, QueuedUnder
  <2>. QED  BY <2>1, <2>2, <1>5 DEF StreamInv, ChunksKept, SenderSame
<1>7. WindowBounded(p)' /\ SenderNumbering(p)'
  BY <1>2 DEF StreamInv, WindowBounded, SenderNumbering, SenderSame
<1>8. BehindWindow(p)' /\ DataInFlight(p)'
  BY <1>2 DEF StreamInv, BehindWindow, DataInFlight, SenderSame
<1>9. HolesCovered(p)'
  <2>1. \A d \in 0 .. (Low(p) - 1) : d \in Nat
    BY SMTT(40), SMTT(41)
  <2>. QED  BY <2>1, <1>2, <1>3 DEF StreamInv, HolesCovered, SenderSame
<1>10. Agreement(p)'
  <2>1. ASSUME NEW d \in DOMAIN send_window[p], NEW c \in Nat, c = send_window[p][d].channel_seq
        PROVE  IF d \in Pending(send_window[p]) THEN Got(p, d)' => AtPeer(p, c)' ELSE Got(p, d)'
    <3>1. IF d \in Pending(send_window[p]) THEN Got(p, d) => AtPeer(p, c) ELSE Got(p, d)
      BY <2>1 DEF StreamInv, Agreement
    <3>2. d \in Nat /\ ~(d < Low(p))
      BY <1>2, SMTT(40), SMTT(41)
    <3>3. d \in added => AtPeer(p, c)'
      BY <2>1 DEF Grows
    <3>. QED  BY <3>1, <3>2, <3>3, <1>3, <1>4, <1>5
  <2>2. \A d \in DOMAIN send_window[p] : \E c \in Nat : c = send_window[p][d].channel_seq
    BY <1>2
  <2>. QED  BY <2>1, <2>2 DEF Agreement, SenderSame, AtPeer
<1>11. AcksInFlight(p)'
  <2>1. ASSUME NEW n \in network, n.src = Peer(p)
        PROVE  /\ n.ack.kind = "Cumulative" => n.ack.seq \in Nat /\ n.ack.seq < left.base_seq
               /\ n.ack.kind = "Vector" =>
                    /\ n.ack.seq \in Nat /\ n.ack.seq <= left.base_seq
                    /\ \A o \in n.ack.received : Got(p, n.ack.seq + o)'
    <3>1. n.ack.received \subseteq Nat
      BY DEF TypeOK, PacketType, AckType
    <3>2. /\ n.ack.kind = "Cumulative" => n.ack.seq \in Nat /\ n.ack.seq < rw.base_seq
          /\ n.ack.kind = "Vector" =>
               /\ n.ack.seq \in Nat /\ n.ack.seq <= rw.base_seq
               /\ \A o \in n.ack.received : Got(p, n.ack.seq + o)
      BY <2>1 DEF StreamInv, AcksInFlight
    <3>3. n.ack.kind = "Vector" => \A o \in n.ack.received : n.ack.seq + o \in Nat
      BY <3>1, <3>2, SMTT(40), SMTT(41)
    <3>. HIDE DEF rw, left
    <3>4. n.ack.kind = "Cumulative" => n.ack.seq \in Nat /\ n.ack.seq < left.base_seq
      BY <3>2, <1>1, SMTT(40), SMTT(41)
    <3>5. n.ack.kind = "Vector" => n.ack.seq \in Nat /\ n.ack.seq <= left.base_seq
      BY <3>2, <1>1, SMTT(40), SMTT(41)
    <3>. QED  BY <3>2, <3>3, <3>4, <3>5, <1>3
  <2>. QED  BY <2>1 DEF AcksInFlight
<1>. QED  BY <1>6, <1>7, <1>8, <1>9, <1>10, <1>11 DEF StreamInv

\* The peer's handling of a datagram of the stream keeps the invariant.
LEMMA StreamReceived ==
  ASSUME Foundations, NEW p \in Side, TypeOK, StreamInv(p), SenderSame(p), network' \subseteq network,
         NEW m \in network, m.src = p, Fresh(Peer(p), m), ProcessData(Peer(p), m)
  PROVE  /\ StreamInv(p)'
         /\ RecvWindowOK(recv_window'[Peer(p)]) /\ delivered'[Peer(p)] \in Seq(Nat)
         /\ Len(delivered[Peer(p)]) <= Len(delivered'[Peer(p)])
<1> DEFINE q == Peer(p)
           rw == recv_window[q]
           moved == RecvAfterAckOfAcks(q, m)
           left == recv_window'[q]
           next == next_data_seq[p]
           chan == next_channel_seq[p]
           low == Low(p)
<1>1. /\ q \in Side /\ RecvWindowOK(rw) /\ next \in Nat /\ chan \in Nat
      /\ delivered[q] \in Seq(Nat)
  BY PeerProperty DEF TypeOK
<1>2. /\ rw.base_seq \in Nat /\ rw.highest_seq \in Nat /\ rw.received \subseteq Nat
      /\ rw.next_channel_seq \in Nat /\ DOMAIN rw.reorder_buf \subseteq Nat
  BY <1>1 DEF RecvWindowOK
<1>3. /\ rw.base_seq <= next /\ rw.highest_seq < next
      /\ \A d \in rw.received : d >= rw.base_seq /\ d <= rw.highest_seq
      /\ rw.base_seq <= rw.highest_seq => rw.highest_seq \in rw.received
  BY DEF StreamInv, ReceiverNumbering
<1>3a. rw.next_channel_seq \in FirstChannelSeq .. chan
  BY DEF StreamInv, ReceiverNumbering
<1>3b. \A c \in DOMAIN rw.reorder_buf :
         c \in (rw.next_channel_seq + 1) .. (chan - 1) /\ rw.reorder_buf[c] = c
  BY DEF StreamInv, ReceiverNumbering
<1>3c. /\ Len(delivered[q]) = rw.next_channel_seq - 1
       /\ \A i \in 1 .. Len(delivered[q]) : delivered[q][i] = i
  BY DEF StreamInv, ReceiverNumbering
<1>3d. rw.next_channel_seq \in Nat /\ chan \in Nat
  BY <1>1, <1>2
<1>4. low \in 0 .. next
  BY DEF StreamInv, WindowBounded, Contiguous, Low
<1>5. /\ RecvWindowOK(moved) /\ rw.base_seq <= moved.base_seq
      /\ moved.base_seq = rw.base_seq \/ moved.base_seq <= low
      /\ moved.received = {d \in rw.received : d >= moved.base_seq}
      /\ moved.highest_seq = rw.highest_seq
      /\ moved.next_channel_seq = rw.next_channel_seq
      /\ moved.reorder_buf = rw.reorder_buf
  BY AfterAckOfAcks
<1>6. moved.base_seq \in Nat /\ moved.base_seq <= next
  <2>1. moved.base_seq \in Nat
    BY <1>5 DEF RecvWindowOK
  <2>2. /\ moved.base_seq = rw.base_seq \/ moved.base_seq <= low
        /\ rw.base_seq <= next /\ next \in Nat
    BY <1>1, <1>3, <1>5
  <2>. HIDE DEF moved, low, next, rw
  <2>. QED  BY ONLY <2>1, <2>2, <1>4, SMTT(40), SMTT(41)
<1>6a. /\ moved.highest_seq = rw.highest_seq
       /\ \A x : x \in moved.received <=> x \in rw.received /\ x >= moved.base_seq
  BY <1>5
<1>6b. moved.next_channel_seq = rw.next_channel_seq /\ moved.reorder_buf = rw.reorder_buf
  BY <1>5
<1>6c. rw.base_seq \in Nat /\ rw.highest_seq \in Nat /\ rw.base_seq <= moved.base_seq
  BY <1>2, <1>5
<1>7. /\ next_data_seq'[p] = next /\ next_channel_seq'[p] = chan
      /\ DOMAIN recv_window = Side /\ DOMAIN delivered = Side
  BY DEF SenderSame, TypeOK
<1>. HIDE DEF moved, low, rw
<1>8. CASE ~IsNew(q, m)
  <2>1. left = moved /\ delivered'[q] = delivered[q]
    BY <1>1, <1>7, <1>8 DEF ProcessData, moved
  <2>2. Grows(p, {})
    <3>1. \A c : AtPeer(p, c) => AtPeer(p, c)'
      BY <2>1, <1>5 DEF AtPeer, rw
    <3>. QED  BY <2>1, <3>1, <1>5 DEF Grows, rw, low
  <2>3. ReceiverNumbering(p)'
    <3>1. \A d \in moved.received : d >= moved.base_seq /\ d <= moved.highest_seq
      BY <1>3, <1>5
    <3>2. moved.base_seq <= moved.highest_seq => moved.highest_seq \in moved.received
      <4>1. rw.base_seq <= rw.highest_seq => rw.highest_seq \in rw.received
        BY <1>3
      <4>. QED  BY ONLY <4>1, <1>6, <1>6a, <1>6c, SMTT(40), SMTT(41)
    <3>3. moved.highest_seq < next
      BY <1>3, <1>5
    <3>. QED  BY <2>1, <3>1, <3>2, <3>3, <1>3a, <1>3b, <1>3c, <1>6, <1>6b, <1>7 DEF ReceiverNumbering
  <2>4. Len(delivered[q]) <= Len(delivered'[q])
    <3>1. Len(delivered[q]) <= Len(delivered[q])
      BY ONLY <1>3c, <1>3d, SMTT(40), SMTT(41)
    <3>. QED  BY <2>1, <3>1
  <2>. QED  BY <2>1, <2>2, <2>3, <2>4, <1>1, <1>5, StreamGrown
<1>9. CASE IsNew(q, m)
  <2> DEFINE d == m.data_seq
             c == m.channel_seq
             v == m.data
             filled == Receive(moved, d, c, v)
             end == DrainEnd(filled)
             drained == Drained(filled)
  <2>1. /\ d \in Nat /\ d < next /\ c \in FirstChannelSeq .. (chan - 1) /\ v = c
        /\ d \in DOMAIN send_window[p] => c = send_window[p][d].channel_seq
    BY <1>9 DEF IsNew, StreamInv, DataInFlight, TypeOK, PacketType, SeqNums
  <2>2. c \in Nat /\ v \in Nat
    BY <2>1, SMTT(40), SMTT(41) DEF FirstChannelSeq
  <2>3. DataSeq(q, m) = d /\ ChannelSeq(q, m) = c
    <3>1. Near(d, rw.highest_seq) /\ Near(c, rw.next_channel_seq)
      BY <1>9 DEF IsNew, Fresh, rw
    <3>. QED  BY <3>1, <2>1, <2>2, <1>2, OnWireNear DEF DataSeq, ChannelSeq, rw
  <2>4. d >= moved.base_seq /\ d \notin moved.received
    BY <2>3, <1>9 DEF IsNew, Accepts, SlotFree, moved
  <2>5. /\ left = DrainOrdered(filled)
        /\ delivered'[q] = delivered[q] \o drained
    <3> DEFINE held == Receive(moved, DataSeq(q, m), ChannelSeq(q, m), m.data)
    <3>1. recv_window' = [recv_window EXCEPT ![q] = DrainOrdered(held)]
      BY <1>9 DEF ProcessData, moved
    <3>2. delivered' = [delivered EXCEPT ![q] = @ \o Drained(held)]
      BY <1>9 DEF ProcessData, moved
    <3>3. held = filled
      BY <2>3
    <3>. HIDE DEF held, filled
    <3>4. recv_window'[q] = DrainOrdered(held) /\ delivered'[q] = delivered[q] \o Drained(held)
      BY ONLY <3>1, <3>2, <1>1, <1>7
    <3>. QED  BY <3>3, <3>4
  <2>. HIDE DEF d, c, v
  <2>6. /\ RecvWindowOK(filled)
        /\ filled.base_seq = moved.base_seq
        /\ filled.received = moved.received \cup {d}
        /\ filled.highest_seq = IF moved.highest_seq >= d THEN moved.highest_seq ELSE d
        /\ filled.next_channel_seq = moved.next_channel_seq
        /\ \A e : e \in DOMAIN filled.reorder_buf <=>
                    \/ e \in DOMAIN moved.reorder_buf
                    \/ e = c /\ ~(c < moved.next_channel_seq)
        /\ \A e \in DOMAIN filled.reorder_buf :
             filled.reorder_buf[e] = IF e = c /\ ~(c < moved.next_channel_seq)
                                     THEN v ELSE moved.reorder_buf[e]
    <3>1. Fills(moved, d, c, v, filled)
      BY <2>1, <2>2, <1>5, ReceiveProperty
    <3>. HIDE DEF filled
    <3>. QED  BY <3>1 DEF Fills
  <2>. HIDE DEF filled
  <2>6a. /\ filled.next_channel_seq = rw.next_channel_seq
         /\ \A e : e \in DOMAIN filled.reorder_buf <=>
                     \/ e \in DOMAIN rw.reorder_buf
                     \/ e = c /\ ~(c < rw.next_channel_seq)
         /\ \A e \in DOMAIN filled.reorder_buf :
              filled.reorder_buf[e] = IF e = c /\ ~(c < rw.next_channel_seq)
                                      THEN v ELSE rw.reorder_buf[e]
    <3>1. /\ filled.next_channel_seq = moved.next_channel_seq
          /\ \A e : e \in DOMAIN filled.reorder_buf <=>
                      \/ e \in DOMAIN moved.reorder_buf
                      \/ e = c /\ ~(c < moved.next_channel_seq)
      BY <2>6
    <3>2. \A e \in DOMAIN filled.reorder_buf :
            filled.reorder_buf[e] = IF e = c /\ ~(c < moved.next_channel_seq)
                                    THEN v ELSE moved.reorder_buf[e]
      BY <2>6
    <3>. QED  BY ONLY <3>1, <3>2, <1>6b, SMTT(40), SMTT(41)
  <2>7. \A e \in DOMAIN filled.reorder_buf :
          e \in rw.next_channel_seq .. (chan - 1) /\ filled.reorder_buf[e] = e
    <3>1. ASSUME NEW e \in DOMAIN filled.reorder_buf
          PROVE  e \in rw.next_channel_seq .. (chan - 1) /\ filled.reorder_buf[e] = e
      <4>1. CASE e = c /\ ~(c < rw.next_channel_seq)
        <5>1. filled.reorder_buf[e] = c /\ e = c
          BY <4>1, <2>1, <2>6a
        <5>2. c \in FirstChannelSeq .. (chan - 1)
          BY <2>1
        <5>. HIDE DEF chan
        <5>. QED  BY ONLY <4>1, <5>1, <5>2, <2>2, <1>3d, SMTT(40), SMTT(41)
      <4>2. CASE ~(e = c /\ ~(c < rw.next_channel_seq))
        <5>1. e \in DOMAIN rw.reorder_buf
          BY <4>2, <2>6a
        <5>2. filled.reorder_buf[e] = rw.reorder_buf[e]
          BY <4>2, <2>6a
        <5>3. e \in (rw.next_channel_seq + 1) .. (chan - 1) /\ filled.reorder_buf[e] = e
          BY <5>1, <5>2, <1>3b
        <5>. HIDE DEF chan
        <5>. QED  BY ONLY <5>3, <1>3d, SMTT(40), SMTT(41)
      <4>. QED  BY <4>1, <4>2
    <3>. QED  BY <3>1
  <2>8. \A e \in DOMAIN filled.reorder_buf : e < chan
    BY ONLY <2>7, <1>3d, SMTT(40), SMTT(41)
  <2> DEFINE out == DrainOrdered(filled)
  <2>9. /\ RecvWindowOK(out)
        /\ end \in Nat /\ filled.next_channel_seq <= end
        /\ filled.next_channel_seq <= chan => end <= chan
        /\ \A e \in filled.next_channel_seq .. (end - 1) : e \in DOMAIN filled.reorder_buf
        /\ end \notin DOMAIN filled.reorder_buf
        /\ out.next_channel_seq = end
        /\ out.base_seq = filled.base_seq
        /\ out.received = filled.received
        /\ out.highest_seq = filled.highest_seq
        /\ DOMAIN out.reorder_buf = {e \in DOMAIN filled.reorder_buf : e >= end}
        /\ \A e \in DOMAIN out.reorder_buf : out.reorder_buf[e] = filled.reorder_buf[e]
    <3>1. RecvWindowOK(filled) /\ chan \in Nat
      BY <2>6, <1>1
    <3>. HIDE DEF chan
    <3>. QED  BY ONLY Foundations, <3>1, <2>8, DrainProperty, Zenon
  <2>. HIDE DEF out
  <2>9a. /\ end \in Nat /\ rw.next_channel_seq <= end /\ end <= chan
         /\ \A e \in rw.next_channel_seq .. (end - 1) : e \in DOMAIN filled.reorder_buf
         /\ left.next_channel_seq = end /\ RecvWindowOK(left)
    <3>1. rw.next_channel_seq <= chan
      BY ONLY <1>3a, <1>3d, SMTT(40), SMTT(41) DEF FirstChannelSeq
    <3>. QED  BY <2>5, <2>6a, <2>9, <3>1 DEF out
  <2>9b. /\ end \notin DOMAIN filled.reorder_buf
         /\ \A e : e \in DOMAIN left.reorder_buf <=> e \in DOMAIN filled.reorder_buf /\ e >= end
         /\ \A e \in DOMAIN left.reorder_buf : left.reorder_buf[e] = filled.reorder_buf[e]
    <3>1. /\ end \notin DOMAIN filled.reorder_buf
          /\ \A e : e \in DOMAIN out.reorder_buf <=> e \in DOMAIN filled.reorder_buf /\ e >= end
          /\ \A e \in DOMAIN out.reorder_buf : out.reorder_buf[e] = filled.reorder_buf[e]
      BY <2>9
    <3>. QED  BY <2>5, <3>1 DEF out
  <2>9c. /\ left.base_seq = moved.base_seq
         /\ left.received = moved.received \cup {d}
         /\ left.highest_seq = IF rw.highest_seq >= d THEN rw.highest_seq ELSE d
    <3>1. /\ out.base_seq = filled.base_seq
          /\ out.received = filled.received
          /\ out.highest_seq = filled.highest_seq
      BY <2>9
    <3>2. /\ filled.base_seq = moved.base_seq
          /\ filled.received = moved.received \cup {d}
          /\ filled.highest_seq = IF rw.highest_seq >= d THEN rw.highest_seq ELSE d
      BY <2>6, <1>6a
    <3>. QED  BY <2>5, <3>1, <3>2 DEF out
  <2>10. drained = [i \in 1 .. (end - rw.next_channel_seq) |->
                      filled.reorder_buf[rw.next_channel_seq + i - 1]]
    BY <2>6a DEF Drained
  <2>. HIDE DEF left, end, drained
  <2>11. end \in Nat /\ rw.next_channel_seq <= end /\ end <= chan
    BY <2>9a
  <2>12. /\ delivered'[q] \in Seq(Nat) /\ Len(delivered'[q]) = end - 1
         /\ \A i \in 1 .. Len(delivered'[q]) : delivered'[q][i] = i
    <3>0. Len(delivered[q]) \in Nat
      BY ONLY <1>3c, <1>1, SMTT(40), SMTT(41)
    <3> DEFINE n == end - rw.next_channel_seq
    <3>1. n \in Nat
      BY ONLY <2>11, <1>3d, SMTT(40), SMTT(41)
    <3>2. \A i \in 1 .. n : /\ rw.next_channel_seq + i - 1 \in DOMAIN filled.reorder_buf
                            /\ drained[i] = rw.next_channel_seq + i - 1
      <4>1. ASSUME NEW i \in 1 .. n
            PROVE  /\ rw.next_channel_seq + i - 1 \in DOMAIN filled.reorder_buf
                   /\ drained[i] = rw.next_channel_seq + i - 1
        <5>1. rw.next_channel_seq + i - 1 \in rw.next_channel_seq .. (end - 1)
          BY ONLY <4>1, <2>11, <1>3d, SMTT(40), SMTT(41)
        <5>2. rw.next_channel_seq + i - 1 \in DOMAIN filled.reorder_buf
          BY <5>1, <2>9a
        <5>3. drained[i] = filled.reorder_buf[rw.next_channel_seq + i - 1]
          BY <4>1, <2>10
        <5>. QED  BY <5>2, <5>3, <2>7
      <4>. QED  BY <4>1
    <3>3. drained \in [1 .. n -> Nat] /\ \A i \in 1 .. n : drained[i] = Len(delivered[q]) + i
      <4>1. rw.next_channel_seq \in Nat /\ Len(delivered[q]) = rw.next_channel_seq - 1
            /\ Len(delivered[q]) \in Nat
        BY <1>1, <1>3c, <1>3d, <3>0
      <4>2. ASSUME NEW i \in 1 .. n  PROVE drained[i] \in Nat /\ drained[i] = Len(delivered[q]) + i
        <5>1. drained[i] = rw.next_channel_seq + i - 1 /\ i \in Nat
          BY <3>1, <3>2, <4>2, SMTT(40), SMTT(41)
        <5>. QED  BY ONLY <4>1, <5>1, SMTT(40), SMTT(41)
      <4>3. drained = [i \in 1 .. n |-> drained[i]]
        BY <2>10
      <4>. QED  BY <4>2, <4>3
    <3>4. /\ delivered[q] \o drained \in Seq(Nat)
          /\ Len(delivered[q] \o drained) = Len(delivered[q]) + n
          /\ \A i \in 1 .. Len(delivered[q] \o drained) : (delivered[q] \o drained)[i] = i
      <4>. HIDE DEF n
      <4>1. /\ delivered[q] \in Seq(Nat)
            /\ \A i \in 1 .. Len(delivered[q]) : delivered[q][i] = 0 + i
            /\ \A i \in 1 .. n : drained[i] = 0 + Len(delivered[q]) + i
        <5>1. /\ delivered[q] \in Seq(Nat) /\ Len(delivered[q]) \in Nat
              /\ \A i \in 1 .. Len(delivered[q]) : delivered[q][i] = i
          BY <1>1, <1>3c, <3>0
        <5>2. \A i \in 1 .. n : drained[i] = Len(delivered[q]) + i
          BY <3>3
        <5>. QED  BY ONLY <5>1, <5>2, <3>1, SMTT(40), SMTT(41)
      <4>2. \A i \in 1 .. Len(delivered[q] \o drained) : 0 + i = i
        BY SMTT(40), SMTT(41)
      <4>3. 0 \in Int /\ n \in Nat /\ drained \in [1 .. n -> Nat]
        BY <3>1, <3>3, SMTT(40), SMTT(41)
      <4>4. /\ delivered[q] \o drained \in Seq(Nat)
            /\ Len(delivered[q] \o drained) = Len(delivered[q]) + n
            /\ \A i \in 1 .. Len(delivered[q] \o drained) : (delivered[q] \o drained)[i] = 0 + i
        BY ONLY <4>1, <4>3, CountOn, Zenon
      <4>. QED  BY ONLY <4>2, <4>4
    <3>5. Len(delivered[q]) + n = end - 1
      BY ONLY <1>3c, <1>3d, <2>11, SMTT(40), SMTT(41)
    <3>. QED  BY <3>4, <3>5, <2>5
  <2>13. Grows(p, {d})
    <3>1. left.base_seq = moved.base_seq
          /\ left.received = {x \in rw.received : x >= left.base_seq} \cup {d}
      BY <2>9c, <1>5
    <3>2. ASSUME NEW x \in Nat, AtPeer(p, x) \/ x = c  PROVE AtPeer(p, x)'
      <4>1. x < rw.next_channel_seq \/ x \in DOMAIN filled.reorder_buf
        BY <3>2, <2>2, <2>6a DEF AtPeer, rw
      <4>2. x < left.next_channel_seq \/ x \in DOMAIN left.reorder_buf
        <5>1. left.next_channel_seq = end /\ (x \in DOMAIN filled.reorder_buf /\ x >= end => x \in DOMAIN left.reorder_buf)
          BY <2>9a, <2>9b
        <5>. QED  BY ONLY <3>2, <4>1, <5>1, <2>11, <1>3d, SMTT(40), SMTT(41)
      <4>. QED  BY <4>2 DEF AtPeer, left
    <3>3. rw.base_seq <= left.base_seq /\ (left.base_seq = rw.base_seq \/ left.base_seq <= low)
      BY <2>9c, <1>5
    <3>4. RecvWindowOK(left) /\ d \in Nat /\ (d \in DOMAIN send_window[p] => c = send_window[p][d].channel_seq)
      BY <2>1, <2>9a
    <3>5. \A x \in Nat : AtPeer(p, x) \/ x = c => AtPeer(p, x)'
      BY <3>2
    <3>6. \A y \in {d} \cap DOMAIN send_window[p] : \A x \in Nat :
            x = send_window[p][y].channel_seq => AtPeer(p, x)'
      BY <3>4, <3>5
    <3>. QED  BY <3>1, <3>3, <3>4, <3>5, <3>6 DEF Grows, rw, left, low
  <2>14. ReceiverNumbering(p)'
    <3>1. left.next_channel_seq \in FirstChannelSeq .. chan
      BY ONLY <2>9a, <2>11, <1>3a, <1>3d, SMTT(40), SMTT(41) DEF FirstChannelSeq
    <3>2. \A e \in DOMAIN left.reorder_buf :
            e \in (left.next_channel_seq + 1) .. (chan - 1) /\ left.reorder_buf[e] = e
      <4>1. ASSUME NEW e \in DOMAIN left.reorder_buf
            PROVE  e \in (left.next_channel_seq + 1) .. (chan - 1) /\ left.reorder_buf[e] = e
        <5>1. e >= end /\ e # end /\ left.reorder_buf[e] = filled.reorder_buf[e] /\ e \in DOMAIN filled.reorder_buf
          BY <2>9b
        <5>2. e \in rw.next_channel_seq .. (chan - 1) /\ left.reorder_buf[e] = e /\ left.next_channel_seq = end
          BY <5>1, <2>7, <2>9a
        <5>3. e >= end /\ e # end
          BY <5>1
        <5>. HIDE DEF chan
        <5>. QED  BY ONLY <5>2, <5>3, <2>11, <1>3d, SMTT(40), SMTT(41)
      <4>. QED  BY <4>1
    <3>2a. /\ d \in Nat /\ d < next /\ d >= moved.base_seq /\ next \in Nat
      BY <2>1, <2>4, <1>1
    <3>. HIDE DEF next
    <3>3. \A x \in left.received : x >= left.base_seq /\ x <= left.highest_seq
      <4>1. \A x \in moved.received : x \in Nat /\ x >= moved.base_seq /\ x <= rw.highest_seq
        BY <1>2, <1>3, <1>6a
      <4>. QED  BY ONLY <4>1, <3>2a, <2>9c, <1>6c, SMTT(40), SMTT(41)
    <3>4. left.base_seq <= left.highest_seq => left.highest_seq \in left.received
      <4>1. rw.base_seq <= rw.highest_seq => rw.highest_seq \in rw.received
        BY <1>3
      <4>2. moved.base_seq <= rw.highest_seq => rw.highest_seq \in moved.received
        BY ONLY <4>1, <1>6, <1>6a, <1>6c, SMTT(40), SMTT(41)
      <4>. QED  BY ONLY <4>2, <2>9c, SMTT(40), SMTT(41)
    <3>5. left.base_seq <= next /\ left.highest_seq < next
      <4>1. moved.base_seq <= next /\ rw.highest_seq < next
        BY <1>3, <1>6
      <4>. QED  BY ONLY <4>1, <3>2a, <2>9c, SMTT(40), SMTT(41)
    <3>6. Len(delivered'[q]) = left.next_channel_seq - 1
      BY <2>9a, <2>12
    <3>. QED  BY <3>1, <3>2, <3>3, <3>4, <3>5, <3>6, <2>12, <1>7 DEF ReceiverNumbering, left
  <2>15. Len(delivered[q]) <= Len(delivered'[q])
    <3>1. Len(delivered'[q]) = end - 1 /\ Len(delivered[q]) = rw.next_channel_seq - 1
      BY <2>12, <1>3c
    <3>. QED  BY ONLY <3>1, <2>11, <1>3d, SMTT(40), SMTT(41)
  <2>. QED  BY <2>9a, <2>12, <2>13, <2>14, <2>15, StreamGrown DEF left
<1>. QED  BY <1>8, <1>9
=============================================================================
