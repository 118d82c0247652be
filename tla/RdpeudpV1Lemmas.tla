-------------------------- MODULE RdpeudpV1Lemmas ---------------------------
(***************************************************************************)
(* The inductive invariant of RdpeudpV1, and what the steps do to a stream *)
(* under it.                                                               *)
(*                                                                         *)
(* As for RdpeudpV2 the invariant looks one stream at a time, from a side  *)
(* p to its peer.  It is another one: acknowledgements name Source         *)
(* numbers, not the DataSeqNums that key the window, so nothing ties the   *)
(* window to the slots of the peer.  What does the work is that a slot is  *)
(* occupied only by a chunk the peer holds (Receiving), and that a chunk   *)
(* once held stays held, so a vector stays true however late it arrives.   *)
(*                                                                         *)
(* There is one lemma for each way a step touches the stream: it leaves it *)
(* alone (StreamUntouched), the peer answers (StreamAnswered), p sends a   *)
(* chunk, new or again (StreamSends), p resolves packets (StreamResolves,  *)
(* AcknowledgementStep), the peer takes a chunk (StreamTakes).             *)
(***************************************************************************)
EXTENDS RdpeudpV1, RdpeudpWindowProofs, TLAPS

USE ZenonT(5), SMTT(40), ZenonT(30), SMTT(41)

-----------------------------------------------------------------------------
(* The inductive invariant *)

V1PacketType ==
  [src : Side, source_ack : Nat, received : SUBSET Nat, ack_of_acks : SeqNums,
   source_seq : SeqNums, data : Nat]

Types ==
  /\ accepted \in [Side -> Nat]
  /\ send_buffer \in [Side -> Seq(Nat)]
  /\ next_data_seq \in [Side -> Nat]
  /\ next_channel_seq \in [Side -> Nat]
  /\ delivered \in [Side -> Seq(Nat)]
  /\ DOMAIN send_window = Side /\ DOMAIN retransmit_queue = Side /\ DOMAIN recv_window = Side
  /\ \A p \in Side : RecvWindowOK(recv_window[p])
  /\ network \subseteq V1PacketType

\* The Source numbers p has given to chunks, and what one of them carries.
Given(p) == V1First(p) .. (next_channel_seq[p] - 1)
Carries(p, c, data) == c \in Given(p) /\ data = c - InitialSeq[p]

\* What p holds of the stream: the window, the queue and the buffer.
Sending(p) ==
  /\ Contiguous(send_window[p], next_data_seq[p])
  /\ \A d \in DOMAIN send_window[p] :
       /\ send_window[p][d] \in EntryType
       /\ Carries(p, send_window[p][d].channel_seq, send_window[p][d].data)
  /\ \A d \in DOMAIN retransmit_queue[p] :
       /\ d \in Nat /\ d < Low(p)
       /\ Carries(p, retransmit_queue[p][d].channel_seq, retransmit_queue[p][d].data)
  /\ next_channel_seq[p] >= V1First(p)
  /\ accepted[p] = (next_channel_seq[p] - V1First(p)) + Len(send_buffer[p])
  /\ \A i \in 1 .. Len(send_buffer[p]) :
       send_buffer[p][i] = (next_channel_seq[p] - V1First(p)) + i

\* Every chunk of p given a number is at the peer or waits in one place.
Kept(p) ==
  \A c \in Given(p) :
    /\ AtPeer(p, c) \/ PendingUnder(p, c) # {} \/ QueuedUnder(p, c) # {}
    /\ \A d, e \in PendingUnder(p, c) \cup QueuedUnder(p, c) : d = e

\* What the peer holds of the stream: chunks delivered and buffered, and
\* slots, each of a chunk it holds.
Receiving(p) ==
  LET rw  == recv_window[Peer(p)]
      got == delivered[Peer(p)]
  IN  /\ rw.next_channel_seq \in V1First(p) .. next_channel_seq[p]
      /\ \A c \in DOMAIN rw.reorder_buf : Carries(p, c, rw.reorder_buf[c])
      /\ Len(got) = rw.next_channel_seq - V1First(p)
      /\ \A i \in 1 .. Len(got) : got[i] = i
      /\ \A d \in rw.received : rw.base_seq <= d /\ d <= rw.highest_seq /\ AtPeer(p, d)
      /\ rw.base_seq <= rw.highest_seq => rw.highest_seq \in rw.received
      /\ rw.highest_seq >= V1First(p) => AtPeer(p, rw.highest_seq)

\* A datagram of p carries the chunk its number stands for; a vector for p
\* reports only what its sender holds.
DataTrue(p, m) == m.src = p /\ m.source_seq # NoSeq => Carries(p, m.source_seq, m.data)
VectorTrue(p, m) ==
  m.src = Peer(p) =>
    \A offset \in m.received :
      m.source_ack - offset >= V1First(p) => AtPeer(p, m.source_ack - offset)

InFlight(p) == \A m \in network : DataTrue(p, m) /\ VectorTrue(p, m)

V1StreamInv(p) == Sending(p) /\ Kept(p) /\ Receiving(p) /\ InFlight(p)

\* The inductive invariant.
V1Inv == Types /\ \A p \in Side : V1StreamInv(p)

-----------------------------------------------------------------------------
(* Sides *)

\* The two sides are each other's peers.
LEMMA PeerProperty ==
  ASSUME NEW p \in Side
  PROVE  Peer(p) \in Side /\ Peer(p) # p /\ Peer(Peer(p)) = p /\ Side = {p, Peer(p)}
BY DEF Side, Peer

\* A step leaves the sending end of p, or the receiving end of q, as it was.
SendingSame(p) ==
  /\ send_window'[p] = send_window[p] /\ retransmit_queue'[p] = retransmit_queue[p]
  /\ next_data_seq'[p] = next_data_seq[p] /\ next_channel_seq'[p] = next_channel_seq[p]
  /\ accepted'[p] = accepted[p] /\ send_buffer'[p] = send_buffer[p]

ReceivingSame(q) == recv_window'[q] = recv_window[q] /\ delivered'[q] = delivered[q]

-----------------------------------------------------------------------------
(* Numbers and datagrams *)

\* A number close to the reference survives the wire.
LEMMA SourceOnWire ==
  ASSUME NEW full \in Nat, NEW reference \in Nat, Near(full, reference)
  PROVE  V1OnWire(full, reference) = full
BY NearestTruncate DEF V1OnWire

\* The first Source number follows the one of the SYN.
LEMMA FirstNumber ==
  ASSUME NEW p \in Side
  PROVE  InitialSeq[p] \in Nat /\ V1First(p) \in Nat /\ V1First(p) = InitialSeq[p] + 1
BY V2Assumption, SMTT(40), SMTT(41) DEF V1First

\* A chunk the peer holds it keeps.
Holds(p) == \A c \in Int : AtPeer(p, c) => AtPeer(p, c)'

\* Datagrams in flight stay true while the sender assigns numbers and the
\* peer keeps what it holds.
LEMMA FlightStays ==
  ASSUME NEW p \in Side, Types, InFlight(p), Holds(p),
         next_channel_seq'[p] \in Nat, next_channel_seq[p] <= next_channel_seq'[p],
         \A m \in network' : m \in network \/ (DataTrue(p, m)' /\ VectorTrue(p, m)')
  PROVE  InFlight(p)'
<1>1. ASSUME NEW m \in network  PROVE DataTrue(p, m)' /\ VectorTrue(p, m)'
  <2>1. m \in V1PacketType /\ next_channel_seq[p] \in Nat
    BY DEF Types
  <2>2. DataTrue(p, m) /\ VectorTrue(p, m)
    BY DEF InFlight
  <2>3. \A c : c \in Given(p) => c \in Given(p)'
    BY <2>1, FirstNumber, SMTT(40), SMTT(41) DEF Given, V1First
  <2>4. DataTrue(p, m)'
    BY <2>2, <2>3 DEF DataTrue, Carries
  <2>5. \A offset \in m.received : m.source_ack - offset \in Int
    BY <2>1, SMTT(40), SMTT(41) DEF V1PacketType
  <2>6. VectorTrue(p, m)'
    BY <2>2, <2>5 DEF VectorTrue, Holds, V1First
  <2>. QED  BY <2>4, <2>6
<1>. QED  BY <1>1 DEF InFlight

\* The receiving end is untouched while the sender assigns numbers.
LEMMA ReceivingStays ==
  ASSUME NEW p \in Side, Types, Receiving(p), ReceivingSame(Peer(p)),
         next_channel_seq'[p] \in Nat, next_channel_seq[p] <= next_channel_seq'[p]
  PROVE  Receiving(p)' /\ Holds(p) /\ \A c : AtPeer(p, c)' <=> AtPeer(p, c)
<1>1. \A c : AtPeer(p, c)' <=> AtPeer(p, c)
  BY DEF ReceivingSame, AtPeer
<1>2. next_channel_seq[p] \in Nat
  BY DEF Types
<1>3. \A c : c \in Given(p) => c \in Given(p)'
  BY <1>2, FirstNumber, SMTT(40), SMTT(41) DEF Given, V1First
<1>4. \A c : c \in V1First(p) .. next_channel_seq[p] => c \in V1First(p) .. next_channel_seq'[p]
  BY <1>2, FirstNumber, SMTT(40), SMTT(41)
<1>5. Receiving(p)'
  BY <1>1, <1>3, <1>4 DEF Receiving, ReceivingSame, Carries, V1First
<1>. QED  BY <1>1, <1>5 DEF Holds

\* The sending end is untouched.
LEMMA SendingStays ==
  ASSUME NEW p \in Side, Sending(p), SendingSame(p)
  PROVE  Sending(p)'
BY DEF Sending, SendingSame, Carries, Given, V1First, Low

\* No chunk is forgotten when the sending end is untouched and the peer keeps
\* what it holds.
LEMMA KeptStays ==
  ASSUME NEW p \in Side, Types, Kept(p), SendingSame(p), Holds(p)
  PROVE  Kept(p)'
<1>1. \A c \in Given(p) : c \in Int
  BY SMTT(40), SMTT(41) DEF Given
<1>2. /\ Given(p)' = Given(p)
      /\ \A c : PendingUnder(p, c)' = PendingUnder(p, c) /\ QueuedUnder(p, c)' = QueuedUnder(p, c)
  BY DEF Given, V1First, SendingSame, PendingUnder, QueuedUnder
<1>. QED  BY <1>1, <1>2 DEF Kept, Holds

\* Nothing the stream knows of changes but the datagrams.
LEMMA StreamUntouched ==
  ASSUME NEW p \in Side, Types, V1StreamInv(p), SendingSame(p), ReceivingSame(Peer(p)),
         \A m \in network' : m \in network \/ (DataTrue(p, m)' /\ VectorTrue(p, m)')
  PROVE  V1StreamInv(p)'
<1>1. next_channel_seq'[p] \in Nat /\ next_channel_seq[p] <= next_channel_seq'[p]
  BY SMTT(40), SMTT(41) DEF Types, SendingSame
<1>2. Receiving(p)' /\ Holds(p)
  BY <1>1, ReceivingStays DEF V1StreamInv
<1>3. Sending(p)' /\ Kept(p)' /\ InFlight(p)'
  BY <1>1, <1>2, SendingStays, KeptStays, FlightStays DEF V1StreamInv
<1>. QED  BY <1>2, <1>3 DEF V1StreamInv

-----------------------------------------------------------------------------
(* Acknowledgements *)

\* build_v1_ack_parts reports slots of the window that are occupied, or the
\* highest number seen.
LEMMA VectorBuilt ==
  ASSUME NEW p \in Side, Types, Receiving(p)
  PROVE  LET rw == recv_window[Peer(p)]
         IN  /\ ReceivedOffsets(rw) \subseteq Nat
             /\ \A offset \in ReceivedOffsets(rw) :
                  rw.highest_seq - offset >= V1First(p) => AtPeer(p, rw.highest_seq - offset)
<1> DEFINE rw == recv_window[Peer(p)]
<1>1. rw.base_seq \in Nat /\ rw.highest_seq \in Nat /\ rw.received \subseteq Nat
  BY PeerProperty DEF Types, RecvWindowOK
<1>2. /\ \A d \in rw.received : d <= rw.highest_seq /\ AtPeer(p, d)
      /\ rw.highest_seq >= V1First(p) => AtPeer(p, rw.highest_seq)
  BY DEF Receiving
<1>. HIDE DEF rw
<1>3. ASSUME NEW offset \in ReceivedOffsets(rw)
      PROVE  /\ offset \in Nat
             /\ rw.highest_seq - offset >= V1First(p) => AtPeer(p, rw.highest_seq - offset)
  <2>1. PICK s : /\ s \in ReportedSlots(rw) /\ (rw.received = {} \/ s \in rw.received)
                 /\ offset = rw.highest_seq - s
    BY <1>3 DEF ReceivedOffsets
  <2>2. s = rw.highest_seq \/ s \in rw.received
    BY <2>1, SMTT(40), SMTT(41) DEF ReportedSlots
  <2>3. s \in Nat /\ s <= rw.highest_seq
    BY <2>2, <1>1, <1>2, SMTT(40), SMTT(41)
  <2>4. offset \in Nat /\ rw.highest_seq - offset = s
    BY <2>1, <2>3, <1>1, SMTT(40), SMTT(41)
  <2>. QED  BY <2>2, <2>4, <1>2
<1>. QED  BY <1>3 DEF rw

\* A datagram of the peer carries a vector and releases slots.
LEMMA StreamAnswered ==
  ASSUME Foundations, NEW p \in Side, Types, V1StreamInv(p), SendingSame(p),
         delivered'[Peer(p)] = delivered[Peer(p)],
         recv_window'[Peer(p)] = ReleaseAcknowledged(recv_window[Peer(p)]),
         NEW m, network' = network \cup {m}, m.src = Peer(p),
         m.source_ack = recv_window[Peer(p)].highest_seq,
         m.received = ReceivedOffsets(recv_window[Peer(p)])
  PROVE  V1StreamInv(p)' /\ RecvWindowOK(recv_window'[Peer(p)])
<1> DEFINE rw == recv_window[Peer(p)]
           left == recv_window'[Peer(p)]
<1>1. Peer(p) \in Side /\ Peer(p) # p /\ RecvWindowOK(rw)
  BY PeerProperty DEF Types
<1>2. Receiving(p)
  BY DEF V1StreamInv
<1>3. /\ \A d \in rw.received : d >= rw.base_seq /\ d <= rw.highest_seq /\ AtPeer(p, d)
      /\ rw.base_seq <= rw.highest_seq => rw.highest_seq \in rw.received
  BY <1>2 DEF Receiving
<1>4. /\ RecvWindowOK(left)
      /\ left.base_seq \in Nat /\ rw.base_seq <= left.base_seq
      /\ left.received = {d \in rw.received : d >= left.base_seq}
      /\ left.highest_seq = rw.highest_seq
      /\ left.next_channel_seq = rw.next_channel_seq
      /\ left.reorder_buf = rw.reorder_buf
  <2> DEFINE out == ReleaseAcknowledged(rw)
  <2>1. \A d \in rw.received : d >= rw.base_seq /\ d <= rw.highest_seq
    BY <1>3
  <2>2. rw.base_seq <= rw.highest_seq => rw.highest_seq \in rw.received
    BY <1>3
  <2>3. /\ RecvWindowOK(out)
        /\ out.base_seq \in Nat /\ rw.base_seq <= out.base_seq
        /\ out.received = {d \in rw.received : d >= out.base_seq}
        /\ out.highest_seq = rw.highest_seq
        /\ out.next_channel_seq = rw.next_channel_seq
        /\ out.reorder_buf = rw.reorder_buf
    BY ONLY Foundations, <1>1, <2>1, <2>2, ReleaseProperty, Zenon
  <2>. QED  BY <2>3
<1>5. \A c : AtPeer(p, c)' <=> AtPeer(p, c)
  BY <1>4 DEF AtPeer
<1>6. Receiving(p)'
  <2>1. \A d \in left.received : left.base_seq <= d /\ d <= left.highest_seq /\ AtPeer(p, d)'
    BY <1>3, <1>4, <1>5
  <2>2. left.base_seq <= left.highest_seq => left.highest_seq \in left.received
    <3>1. rw.base_seq \in Nat /\ rw.highest_seq \in Nat
      BY <1>1 DEF RecvWindowOK
    <3>2. /\ left.base_seq \in Nat /\ rw.base_seq <= left.base_seq /\ left.highest_seq = rw.highest_seq
          /\ \A d : d \in left.received <=> d \in rw.received /\ d >= left.base_seq
      BY <1>4
    <3>3. rw.base_seq <= rw.highest_seq => rw.highest_seq \in rw.received
      BY <1>3
    <3>. HIDE DEF left, rw
    <3>. QED  BY ONLY <3>1, <3>2, <3>3, SMTT(40), SMTT(41)
  <2>. HIDE DEF left
  <2>. QED  BY <2>1, <2>2, <1>2, <1>4, <1>5 DEF Receiving, SendingSame, Carries, Given, V1First, left
<1>7. DataTrue(p, m)' /\ VectorTrue(p, m)'
  <2>1. \A offset \in m.received :
          m.source_ack - offset >= V1First(p) => AtPeer(p, m.source_ack - offset)
    BY <1>2, VectorBuilt
  <2>. QED  BY <2>1, <1>1, <1>5 DEF DataTrue, VectorTrue, V1First
<1>8. next_channel_seq'[p] \in Nat /\ next_channel_seq[p] <= next_channel_seq'[p]
  BY SMTT(40), SMTT(41) DEF Types, SendingSame
<1>9. Holds(p)
  BY <1>5 DEF Holds
<1>10. Sending(p)' /\ Kept(p)' /\ InFlight(p)'
  BY <1>7, <1>8, <1>9, SendingStays, KeptStays, FlightStays DEF V1StreamInv
<1>. QED  BY <1>4, <1>6, <1>10 DEF V1StreamInv

-----------------------------------------------------------------------------
(* Sending *)

\* The chunk of a datagram comes off the retransmit queue, under its old
\* number, or is the next one of the send buffer, under a new one.
FromQueue(p, c, v) ==
  LET front == Min(DOMAIN retransmit_queue[p])
  IN  /\ DOMAIN retransmit_queue[p] # {}
      /\ c = retransmit_queue[p][front].channel_seq /\ v = retransmit_queue[p][front].data
      /\ retransmit_queue'[p] = Dequeue(retransmit_queue[p])
      /\ next_channel_seq'[p] = next_channel_seq[p] /\ send_buffer'[p] = send_buffer[p]

FromBuffer(p, c, v) ==
  /\ send_buffer[p] # <<>>
  /\ c = next_channel_seq[p] /\ v = Head(send_buffer[p])
  /\ retransmit_queue'[p] = retransmit_queue[p]
  /\ next_channel_seq'[p] = next_channel_seq[p] + 1 /\ send_buffer'[p] = Tail(send_buffer[p])

\* The chunk that is sent is the one its number stands for, and the numbers
\* given out only grow.
LEMMA SentNumber ==
  ASSUME Foundations, NEW p \in Side, Types, Sending(p), NEW c, NEW v,
         FromQueue(p, c, v) \/ FromBuffer(p, c, v)
  PROVE  /\ c \in Nat /\ v \in Nat /\ Carries(p, c, v)'
         /\ next_channel_seq'[p] \in Nat /\ next_channel_seq[p] <= next_channel_seq'[p]
         /\ \A x : x \in Given(p) => x \in Given(p)'
         /\ next_channel_seq'[p] >= V1First(p)
<1>1. /\ next_channel_seq[p] \in Nat /\ next_channel_seq[p] >= V1First(p)
      /\ V1First(p) \in Nat /\ V1First(p) = InitialSeq[p] + 1 /\ V1First(p)' = V1First(p)
      /\ InitialSeq[p] \in Nat /\ send_buffer[p] \in Seq(Nat)
  BY FirstNumber DEF Types, Sending, V1First
<1>2. CASE FromQueue(p, c, v)
  <2> DEFINE front == Min(DOMAIN retransmit_queue[p])
  <2>1. /\ DOMAIN retransmit_queue[p] \subseteq Nat /\ DOMAIN retransmit_queue[p] # {}
        /\ c = retransmit_queue[p][front].channel_seq /\ v = retransmit_queue[p][front].data
        /\ next_channel_seq'[p] = next_channel_seq[p]
    BY <1>2 DEF FromQueue, Sending
  <2>2. front \in DOMAIN retransmit_queue[p]
    BY <2>1, MinProperty
  <2>3. Carries(p, c, v)
    BY <2>1, <2>2 DEF Sending
  <2>4. Given(p)' = Given(p)
    BY <2>1 DEF Given, V1First
  <2>5. c \in Nat /\ v \in Nat
    BY <2>3, <1>1, SMTT(40), SMTT(41) DEF Carries, Given
  <2>6. Carries(p, c, v)'
    BY <2>3, <2>4 DEF Carries
  <2>7. next_channel_seq[p] <= next_channel_seq[p]
    BY <1>1, SMTT(40), SMTT(41)
  <2>. QED  BY <2>1, <2>4, <2>5, <2>6, <2>7, <1>1
<1>3. CASE FromBuffer(p, c, v)
  <2>1. /\ send_buffer[p] # <<>> /\ c = next_channel_seq[p] /\ v = Head(send_buffer[p])
        /\ next_channel_seq'[p] = next_channel_seq[p] + 1
    BY <1>3 DEF FromBuffer
  <2>2. Len(send_buffer[p]) \in Nat \ {0} /\ Head(send_buffer[p]) = send_buffer[p][1]
    BY <2>1, <1>1, SeqTail, SMTT(40), SMTT(41)
  <2>3. send_buffer[p][1] = (next_channel_seq[p] - V1First(p)) + 1
    BY <2>2, SMTT(40), SMTT(41) DEF Sending
  <2>4. c \in Nat /\ v \in Nat /\ v = c - InitialSeq[p]
    <3>1. c = next_channel_seq[p] /\ v = (next_channel_seq[p] - V1First(p)) + 1
      BY <2>1, <2>2, <2>3
    <3>2. /\ next_channel_seq[p] \in Nat /\ next_channel_seq[p] >= V1First(p)
          /\ V1First(p) = InitialSeq[p] + 1 /\ InitialSeq[p] \in Nat
      BY <1>1
    <3>. QED  BY ONLY <3>1, <3>2, SMTT(40), SMTT(41)
  <2>5. \A x : x \in V1First(p) .. (next_channel_seq[p] - 1)
                 => x \in V1First(p) .. ((next_channel_seq[p] + 1) - 1)
    BY <1>1, SMTT(40), SMTT(41)
  <2>6. c \in V1First(p) .. ((next_channel_seq[p] + 1) - 1)
    BY <2>1, <1>1, SMTT(40), SMTT(41)
  <2>7. Given(p)' = V1First(p) .. ((next_channel_seq[p] + 1) - 1)
    BY <2>1, <1>1 DEF Given
  <2>8. \A x : x \in Given(p) => x \in Given(p)'
    BY <2>5, <2>7 DEF Given
  <2>9. Carries(p, c, v)'
    BY <2>4, <2>6, <2>7 DEF Carries
  <2>10. /\ next_channel_seq[p] + 1 \in Nat /\ next_channel_seq[p] <= next_channel_seq[p] + 1
         /\ next_channel_seq[p] + 1 >= V1First(p)
    BY <1>1, SMTT(40), SMTT(41)
  <2>. QED  BY <2>1, <2>4, <2>8, <2>9, <2>10
<1>. QED  BY <1>2, <1>3

\* What the sending end holds after a datagram with data.
LEMMA SendingSent ==
  ASSUME Foundations, NEW p \in Side, Types, Sending(p), NEW c, NEW v,
         send_window'[p] = Push(send_window[p], next_data_seq[p], c, v),
         next_data_seq'[p] = next_data_seq[p] + 1, accepted'[p] = accepted[p],
         FromQueue(p, c, v) \/ FromBuffer(p, c, v)
  PROVE  Sending(p)'
<1> DEFINE window == send_window[p]
           pushed == send_window'[p]
           queue == retransmit_queue[p]
           shorter == retransmit_queue'[p]
           next == next_data_seq[p]
           chan == next_channel_seq[p]
           first == V1First(p)
           buf == send_buffer[p]
           carries(x, w) == x \in Given(p)' /\ w = x - InitialSeq[p]
<1>1. /\ next \in Nat /\ chan \in Nat /\ buf \in Seq(Nat) /\ Contiguous(window, next)
      /\ first \in Nat /\ first' = first
  BY FirstNumber DEF Types, Sending, V1First
<1>2. /\ c \in Nat /\ v \in Nat /\ carries(c, v)
      /\ \A x : x \in Given(p) => x \in Given(p)'
      /\ next_channel_seq'[p] >= first
  BY SentNumber DEF Carries
<1>3. /\ Contiguous(pushed, next + 1)
      /\ LowestUnacknowledged(pushed, next + 1) = LowestUnacknowledged(window, next)
      /\ DOMAIN pushed = DOMAIN window \cup {next}
      /\ pushed[next] = [channel_seq |-> c, data |-> v, state |-> "Pending"]
      /\ \A d \in DOMAIN window : pushed[d] = window[d]
  <2>1. Extends(window, next, c, v, pushed)
    BY <1>1, <1>2, PushProperty
  <2>. HIDE DEF pushed
  <2>. QED  BY <2>1, SMTT(40), SMTT(41) DEF Extends
<1>4. Low(p)' = Low(p)
  BY <1>3 DEF Low
<1>. HIDE DEF pushed, shorter
<1>5. /\ \A d \in DOMAIN window :
           window[d] \in EntryType /\ Carries(p, window[d].channel_seq, window[d].data)
      /\ \A d \in DOMAIN queue :
           d \in Nat /\ d < Low(p) /\ Carries(p, queue[d].channel_seq, queue[d].data)
      /\ accepted[p] = (chan - first) + Len(buf)
      /\ \A i \in 1 .. Len(buf) : buf[i] = (chan - first) + i
  BY DEF Sending
<1>6. \A x, w : Carries(p, x, w) => carries(x, w)
  BY <1>2 DEF Carries
<1>. HIDE DEF carries
<1>7. ASSUME NEW d \in DOMAIN pushed
      PROVE  pushed[d] \in EntryType /\ carries(pushed[d].channel_seq, pushed[d].data)
  <2>1. CASE d = next
    <3>1. pushed[d].channel_seq = c /\ pushed[d].data = v /\ pushed[d] \in EntryType
      <4>1. c \in Nat /\ v \in Nat /\ pushed[d] = [channel_seq |-> c, data |-> v, state |-> "Pending"]
        BY <2>1, <1>2, <1>3
      <4>. QED  BY ONLY <4>1, SMTT(40), SMTT(41) DEF EntryType
    <3>. QED  BY <3>1, <1>2
  <2>2. CASE d \in DOMAIN window
    BY <2>2, <1>3, <1>5, <1>6
  <2>. QED  BY <2>1, <2>2, <1>3
<1>8. /\ \A d \in DOMAIN shorter : d \in DOMAIN queue /\ shorter[d] = queue[d]
  <2>1. CASE FromQueue(p, c, v)
    BY <2>1 DEF FromQueue, Dequeue, Restrict, shorter
  <2>2. CASE FromBuffer(p, c, v)
    BY <2>2 DEF FromBuffer, shorter
  <2>. QED  BY <2>1, <2>2
<1>9. /\ accepted'[p] = (next_channel_seq'[p] - first) + Len(send_buffer'[p])
      /\ \A i \in 1 .. Len(send_buffer'[p]) :
           send_buffer'[p][i] = (next_channel_seq'[p] - first) + i
  <2>1. CASE FromQueue(p, c, v)
    BY <2>1, <1>5 DEF FromQueue
  <2>2. CASE FromBuffer(p, c, v)
    <3>1. next_channel_seq'[p] = chan + 1 /\ send_buffer'[p] = Tail(buf) /\ buf # <<>>
      BY <2>2 DEF FromBuffer
    <3>2. /\ Len(buf) \in Nat \ {0} /\ Tail(buf) \in Seq(Nat) /\ Len(Tail(buf)) = Len(buf) - 1
          /\ \A i \in 1 .. Len(Tail(buf)) : Tail(buf)[i] = buf[i + 1]
      BY <3>1, <1>1, SeqTail
    <3>. HIDE DEF chan, first, buf
    <3>3. accepted[p] = ((chan + 1) - first) + Len(Tail(buf))
      <4>1. /\ Len(buf) \in Nat /\ Len(Tail(buf)) = Len(buf) - 1 /\ chan \in Nat /\ first \in Nat
            /\ accepted[p] = (chan - first) + Len(buf)
        BY <3>2, <1>1, <1>5
      <4> DEFINE rest == Len(Tail(buf))
      <4>. HIDE DEF rest
      <4>2. rest = Len(buf) - 1
        BY <4>1 DEF rest
      <4>3. accepted[p] = ((chan + 1) - first) + rest
        BY ONLY <4>1, <4>2, SMTT(40), SMTT(41)
      <4>. QED  BY <4>3 DEF rest
    <3>4. ASSUME NEW i \in 1 .. Len(Tail(buf))  PROVE Tail(buf)[i] = ((chan + 1) - first) + i
      <4>1. i + 1 \in 1 .. Len(buf) /\ Tail(buf)[i] = buf[i + 1]
        BY <3>2, <3>4, SMTT(40), SMTT(41)
      <4>2. buf[i + 1] = (chan - first) + (i + 1)
        BY <4>1, <1>5
      <4>. QED  BY <3>4, <4>1, <4>2, <1>1, SMTT(40), SMTT(41)
    <3>. QED  BY <3>1, <3>3, <3>4
  <2>. QED  BY <2>1, <2>2
<1>10. \A d \in DOMAIN shorter :
         d \in Nat /\ d < Low(p)' /\ carries(shorter[d].channel_seq, shorter[d].data)
  BY <1>4, <1>5, <1>6, <1>8
<1>. QED  BY <1>1, <1>2, <1>3, <1>7, <1>9, <1>10 DEF Sending, Carries, carries, pushed, shorter

\* Sending a chunk, again or for the first time, moves it to one place.
LEMMA KeptSent ==
  ASSUME Foundations, NEW p \in Side, Types, Sending(p), Kept(p), NEW c, NEW v,
         \A x : AtPeer(p, x)' <=> AtPeer(p, x),
         send_window'[p] = Push(send_window[p], next_data_seq[p], c, v),
         FromQueue(p, c, v) \/ FromBuffer(p, c, v)
  PROVE  Kept(p)'
<1> DEFINE window == send_window[p]
           pushed == send_window'[p]
           queue == retransmit_queue[p]
           shorter == retransmit_queue'[p]
           next == next_data_seq[p]
           chan == next_channel_seq[p]
<1>1. /\ next \in Nat /\ chan \in Nat /\ Contiguous(window, next) /\ DOMAIN queue \subseteq Nat
      /\ c \in Nat /\ v \in Nat /\ V1First(p) \in Nat /\ V1First(p)' = V1First(p)
  BY FirstNumber, SentNumber DEF Types, Sending, V1First
<1>2. /\ Pending(pushed) = Pending(window) \cup {next}
      /\ pushed[next].channel_seq = c
      /\ \A d \in DOMAIN window : pushed[d] = window[d]
  <2>1. Extends(window, next, c, v, pushed)
    BY <1>1, PushProperty
  <2>. HIDE DEF pushed
  <2>. QED  BY <2>1, SMTT(40), SMTT(41) DEF Extends
<1>3. Low(p) \in 0 .. next /\ DOMAIN window = Low(p) .. (next - 1)
  BY <1>1 DEF Contiguous, Low
<1>4. Pending(window) \subseteq DOMAIN window /\ next \notin DOMAIN window
  BY <1>1, <1>3, SMTT(40), SMTT(41) DEF Pending
<1>5. \A x : /\ x = c => PendingUnder(p, x)' = PendingUnder(p, x) \cup {next}
             /\ x # c => PendingUnder(p, x)' = PendingUnder(p, x)
  <2> DEFINE under(x) == {d \in Pending(window) : window[d].channel_seq = x}
             underNow(x) == {d \in Pending(pushed) : pushed[d].channel_seq = x}
  <2>1. ASSUME NEW x
        PROVE  /\ x = c => underNow(x) = under(x) \cup {next}
               /\ x # c => underNow(x) = under(x)
    <3>. HIDE DEF pushed
    <3>. QED  BY <1>2, <1>4, SMTT(40), SMTT(41)
  <2>. QED  BY <2>1 DEF PendingUnder
<1>6. \A x \in Given(p) : /\ AtPeer(p, x) \/ PendingUnder(p, x) # {} \/ QueuedUnder(p, x) # {}
                          /\ \A d, e \in PendingUnder(p, x) \cup QueuedUnder(p, x) : d = e
  BY DEF Kept
<1>7. CASE FromQueue(p, c, v)
  <2> DEFINE front == Min(DOMAIN queue)
  <2>1. front \in DOMAIN queue /\ queue[front].channel_seq = c
    BY <1>1, <1>7, MinProperty DEF FromQueue
  <2>2. /\ DOMAIN shorter = DOMAIN queue \ {front}
        /\ \A d \in DOMAIN shorter : shorter[d] = queue[d]
    BY <1>7 DEF FromQueue, Dequeue, Restrict
  <2>3. Given(p)' = Given(p)
    BY <1>1, <1>7 DEF FromQueue, Given
  <2>. HIDE DEF front, shorter
  <2>4. \A x : QueuedUnder(p, x)' = QueuedUnder(p, x) \ {front}
    BY <2>2 DEF QueuedUnder, shorter
  <2>5. front \notin DOMAIN window
    <3>1. front \in Nat /\ front < Low(p)
      BY <2>1 DEF Sending
    <3>. QED  BY <3>1, <1>1, <1>3, SMTT(40), SMTT(41)
  <2>6. ASSUME NEW x \in Given(p)
        PROVE  /\ AtPeer(p, x) \/ PendingUnder(p, x)' # {} \/ QueuedUnder(p, x)' # {}
               /\ \A d, e \in PendingUnder(p, x)' \cup QueuedUnder(p, x)' : d = e
    <3>1. front \in QueuedUnder(p, x) <=> x = c
      BY <2>1 DEF QueuedUnder
    <3>2. CASE x # c
      <4>1. PendingUnder(p, x)' = PendingUnder(p, x) /\ QueuedUnder(p, x)' = QueuedUnder(p, x)
        BY ONLY <3>1, <3>2, <2>4, <1>5, SMTT(40), SMTT(41)
      <4>2. /\ AtPeer(p, x) \/ PendingUnder(p, x) # {} \/ QueuedUnder(p, x) # {}
            /\ \A d, e \in PendingUnder(p, x) \cup QueuedUnder(p, x) : d = e
        BY <2>6, <1>6
      <4>. QED  BY ONLY <4>1, <4>2, SMTT(40), SMTT(41)
    <3>3. CASE x = c
      <4>1. front \notin PendingUnder(p, x)
        BY <2>5, <1>4 DEF PendingUnder
      <4>2. PendingUnder(p, x) = {} /\ QueuedUnder(p, x) = {front}
        <5>1. \A d, e \in PendingUnder(p, x) \cup QueuedUnder(p, x) : d = e
          BY <2>6, <1>6
        <5>. QED  BY ONLY <5>1, <3>1, <3>3, <4>1, SMTT(40), SMTT(41)
      <4>3. PendingUnder(p, x)' = {next} /\ QueuedUnder(p, x)' = {}
        <5>1. PendingUnder(p, x)' = PendingUnder(p, x) \cup {next} /\ QueuedUnder(p, x)' = QueuedUnder(p, x) \ {front}
          BY <3>3, <2>4, <1>5
        <5>. QED  BY ONLY <5>1, <4>2, SMTT(40), SMTT(41)
      <4>. QED  BY <4>3
    <3>. QED  BY <3>2, <3>3
  <2>. QED  BY <2>3, <2>6 DEF Kept
<1>8. CASE FromBuffer(p, c, v)
  <2>1. c = chan /\ shorter = queue /\ next_channel_seq'[p] = chan + 1
    BY <1>8 DEF FromBuffer
  <2>2. \A x : QueuedUnder(p, x)' = QueuedUnder(p, x)
    BY <2>1 DEF QueuedUnder
  <2>3. c \notin Given(p) /\ \A x \in Given(p)' : x = c \/ x \in Given(p)
    BY <2>1, <1>1, SMTT(40), SMTT(41) DEF Given
  <2>4. ASSUME NEW x \in Given(p)'
        PROVE  /\ AtPeer(p, x) \/ PendingUnder(p, x)' # {} \/ QueuedUnder(p, x)' # {}
               /\ \A d, e \in PendingUnder(p, x)' \cup QueuedUnder(p, x)' : d = e
    <3>1. CASE x # c
      <4>1. PendingUnder(p, x)' = PendingUnder(p, x) /\ QueuedUnder(p, x)' = QueuedUnder(p, x)
        BY <3>1, <2>2, <1>5
      <4>2. x \in Given(p)
        BY <3>1, <2>3, <2>4
      <4>3. /\ AtPeer(p, x) \/ PendingUnder(p, x) # {} \/ QueuedUnder(p, x) # {}
            /\ \A d, e \in PendingUnder(p, x) \cup QueuedUnder(p, x) : d = e
        BY <4>2, <1>6
      <4>. QED  BY ONLY <4>1, <4>3, SMTT(40), SMTT(41)
    <3>2. CASE x = c
      <4>1. PendingUnder(p, x) = {} /\ QueuedUnder(p, x) = {}
        BY <3>2, <2>3, <1>4 DEF PendingUnder, QueuedUnder, Sending, Carries
      <4>2. PendingUnder(p, x)' = {next} /\ QueuedUnder(p, x)' = {}
        BY <3>2, <4>1, <2>2, <1>5
      <4>. QED  BY <4>2
    <3>. QED  BY <3>1, <3>2
  <2>. QED  BY <2>4 DEF Kept
<1>. QED  BY <1>7, <1>8

\* A datagram with data keeps the stream's invariant.
LEMMA StreamSends ==
  ASSUME Foundations, NEW p \in Side, Types, V1StreamInv(p), ReceivingSame(Peer(p)), NEW c, NEW v,
         send_window'[p] = Push(send_window[p], next_data_seq[p], c, v),
         next_data_seq'[p] = next_data_seq[p] + 1, accepted'[p] = accepted[p],
         FromQueue(p, c, v) \/ FromBuffer(p, c, v),
         NEW m, network' = network \cup {m}, m.src = p, m.source_seq = c, m.data = v
  PROVE  V1StreamInv(p)'
<1>1. /\ Carries(p, c, v)'
      /\ next_channel_seq'[p] \in Nat /\ next_channel_seq[p] <= next_channel_seq'[p]
  BY SentNumber DEF V1StreamInv
<1>2. Receiving(p)' /\ Holds(p) /\ \A x : AtPeer(p, x)' <=> AtPeer(p, x)
  BY <1>1, ReceivingStays DEF V1StreamInv
<1>3. Sending(p)' /\ Kept(p)'
  BY <1>2, SendingSent, KeptSent DEF V1StreamInv
<1>4. DataTrue(p, m)' /\ VectorTrue(p, m)'
  BY <1>1, PeerProperty DEF DataTrue, VectorTrue
<1>5. InFlight(p)'
  BY <1>1, <1>2, <1>4, FlightStays DEF V1StreamInv
<1>. QED  BY <1>2, <1>3, <1>5 DEF V1StreamInv

-----------------------------------------------------------------------------
(* Resolving *)

\* What is left of a window in which the packets of acked were marked.
Marked(p, window, acked) ==
  /\ Contiguous(window, next_data_seq[p])
  /\ Pending(window) = Pending(send_window[p]) \ acked
  /\ Low(p) <= LowestUnacknowledged(window, next_data_seq[p])
  /\ DOMAIN window \subseteq DOMAIN send_window[p]
  /\ \A d \in DOMAIN window :
       /\ window[d] \in EntryType
       /\ window[d].channel_seq = send_window[p][d].channel_seq
       /\ window[d].data = send_window[p][d].data

\* ... and of the window and the queue once those of lost moved over.
Moved(p, acked, lost) ==
  LET window == send_window[p]
      left   == send_window'[p]
      queue  == retransmit_queue[p]
      longer == retransmit_queue'[p]
  IN  /\ Contiguous(left, next_data_seq[p])
      /\ Pending(left) = (Pending(window) \ acked) \ lost
      /\ Low(p) <= LowestUnacknowledged(left, next_data_seq[p])
      /\ DOMAIN left \subseteq DOMAIN window
      /\ \A d \in DOMAIN left : /\ left[d] \in EntryType
                                /\ left[d].channel_seq = window[d].channel_seq
                                /\ left[d].data = window[d].data
      /\ \A d \in lost : d < LowestUnacknowledged(left, next_data_seq[p])
      /\ DOMAIN longer = DOMAIN queue \cup lost
      /\ \A d \in DOMAIN queue : longer[d] = queue[d]
      /\ \A d \in lost :
           longer[d] = [channel_seq |-> window[d].channel_seq, data |-> window[d].data]

\* Declaring packets lost from the front of the window queues each of them.
LEMMA LossesMove ==
  ASSUME Foundations, NEW p \in Side, Types, Sending(p), Kept(p),
         NEW acked \in SUBSET Pending(send_window[p]), NEW window, Marked(p, window, acked),
         NEW lost \in SUBSET Pending(window),
         \A l \in lost : \A d \in Pending(window) : d <= l => d \in lost,
         NEW cc, DeclareLost(p, window, cc, lost)
  PROVE  /\ Moved(p, acked, lost) /\ lost \subseteq Pending(send_window[p]) \ acked
         /\ DOMAIN send_window' = Side /\ DOMAIN retransmit_queue' = Side
<1> DEFINE next == next_data_seq[p]
           queue == retransmit_queue[p]
           left == send_window'[p]
           longer == retransmit_queue'[p]
<1>1. /\ next \in Nat /\ DOMAIN queue \subseteq Nat /\ Contiguous(send_window[p], next)
      /\ DOMAIN send_window = Side /\ DOMAIN retransmit_queue = Side
  BY DEF Types, Sending
<1>2. /\ left = MarkLost(window, lost) /\ longer = Enqueue(queue, window, lost)
      /\ DOMAIN send_window' = Side /\ DOMAIN retransmit_queue' = Side
  BY <1>1 DEF DeclareLost
<1>3. Contiguous(window, next) /\ DOMAIN window \subseteq DOMAIN send_window[p]
  BY DEF Marked
<1>4. /\ Contiguous(left, next)
      /\ Pending(left) = Pending(window) \ lost
      /\ LowestUnacknowledged(window, next) <= LowestUnacknowledged(left, next)
      /\ DOMAIN left \subseteq DOMAIN window
      /\ \A d \in DOMAIN left : left[d] = window[d]
      /\ \A d \in lost : d < LowestUnacknowledged(left, next)
  <2> DEFINE out == MarkLost(window, lost)
  <2>. HIDE DEF next
  <2>1. next \in Nat /\ Contiguous(window, next)
    BY <1>1, <1>3
  <2>2. /\ Contiguous(out, next)
        /\ Pending(out) = Pending(window) \ lost
        /\ LowestUnacknowledged(window, next) <= LowestUnacknowledged(out, next)
        /\ DOMAIN out \subseteq DOMAIN window
        /\ \A d \in DOMAIN out : out[d] = window[d]
        /\ \A d \in lost : d < LowestUnacknowledged(out, next)
    BY <2>1, MarkLostProperty
  <2>3. left = out
    BY <1>2
  <2>. HIDE DEF left, out
  <2>. QED  BY <2>2, <2>3
<1>5. /\ Low(p) \in Nat /\ \A d \in DOMAIN send_window[p] : d \in Nat /\ d >= Low(p)
      /\ LowestUnacknowledged(window, next) \in Nat /\ LowestUnacknowledged(left, next) \in Nat
  <2>1. next \in Nat /\ Low(p) \in 0 .. next /\ DOMAIN send_window[p] = Low(p) .. (next - 1)
    BY <1>1 DEF Contiguous, Low
  <2>2. LowestUnacknowledged(window, next) \in 0 .. next /\ LowestUnacknowledged(left, next) \in 0 .. next
    BY <1>3, <1>4 DEF Contiguous
  <2>. HIDE DEF next, left
  <2>. QED  BY ONLY <2>1, <2>2, SMTT(40), SMTT(41)
<1>6. \A d \in lost : /\ d \in Pending(send_window[p]) /\ d \notin acked /\ d \in DOMAIN window
                      /\ d \in DOMAIN send_window[p] /\ d \in Nat
  BY <1>3, <1>5 DEF Marked, Pending
<1>7. \A d \in lost : /\ window[d].channel_seq = send_window[p][d].channel_seq
                      /\ window[d].data = send_window[p][d].data
                      /\ window[d].channel_seq \in Given(p)
  BY <1>6 DEF Marked, Sending, Carries
<1>8. /\ DOMAIN longer = DOMAIN queue \cup lost
      /\ \A d \in DOMAIN queue : longer[d] = queue[d]
      /\ \A d \in lost :
           longer[d] = [channel_seq |-> window[d].channel_seq, data |-> window[d].data]
  <2>1. \A d, e \in lost : window[d].channel_seq = window[e].channel_seq => d = e
    <3>1. ASSUME NEW d \in lost, NEW e \in lost, window[d].channel_seq = window[e].channel_seq
          PROVE  d = e
      <4> DEFINE c == window[d].channel_seq
      <4>1. d \in PendingUnder(p, c) /\ e \in PendingUnder(p, c) /\ c \in Given(p)
        BY <3>1, <1>6, <1>7 DEF PendingUnder
      <4>. HIDE DEF c
      <4>. QED  BY <4>1 DEF Kept
    <3>. QED  BY <3>1
  <2>2. \A d \in lost : \A e \in DOMAIN queue : d # e
    <3>1. \A e \in DOMAIN queue : e \in Nat /\ e < Low(p)
      BY DEF Sending
    <3>2. \A d \in lost : d \in Nat /\ d >= Low(p)
      BY <1>5, <1>6
    <3>3. Low(p) \in Nat
      BY <1>5
    <3>. QED  BY ONLY <3>1, <3>2, <3>3, SMTT(40), SMTT(41)
  <2>3. ASSUME NEW d \in lost, NEW e \in DOMAIN queue,
               window[d].channel_seq = queue[e].channel_seq
        PROVE  FALSE
    <3> DEFINE c == window[d].channel_seq
    <3>1. d \in PendingUnder(p, c) /\ e \in QueuedUnder(p, c) /\ c \in Given(p)
      BY <2>3, <1>6, <1>7 DEF PendingUnder, QueuedUnder
    <3>. HIDE DEF c
    <3>. QED  BY <3>1, <2>2 DEF Kept
  <2>4. lost \in SUBSET Nat /\ lost \cap DOMAIN queue = {}
    BY <1>6, <2>2
  <2>5. OwnChunks(queue, window, lost)
    BY <2>1, <2>3, <2>4 DEF OwnChunks
  <2>6. longer = Enqueue(queue, window, lost)
    BY <1>2
  <2>. HIDE DEF longer, queue
  <2>7. Queues(longer, queue, window, lost)
    BY ONLY <2>4, <2>5, <2>6, EnqueueProperty, Zenon
  <2>. QED  BY ONLY <2>7, SMTT(40), SMTT(41) DEF Queues
<1>9. Low(p) <= LowestUnacknowledged(left, next)
  <2>1. Low(p) <= LowestUnacknowledged(window, next)
    BY DEF Marked
  <2>2. LowestUnacknowledged(window, next) <= LowestUnacknowledged(left, next)
    BY <1>4
  <2>. HIDE DEF left, next
  <2>. QED  BY ONLY <2>1, <2>2, <1>5, SMTT(40), SMTT(41)
<1>10. Pending(left) = (Pending(send_window[p]) \ acked) \ lost
  BY <1>4 DEF Marked
<1>11. \A d \in DOMAIN left : /\ left[d] \in EntryType /\ d \in DOMAIN send_window[p]
                              /\ left[d].channel_seq = send_window[p][d].channel_seq
                              /\ left[d].data = send_window[p][d].data
  BY <1>3, <1>4 DEF Marked
<1>12. \A d \in lost : longer[d] = [channel_seq |-> send_window[p][d].channel_seq,
                                    data |-> send_window[p][d].data]
  BY <1>7, <1>8
<1>13. lost \subseteq Pending(send_window[p]) \ acked
  BY <1>6
<1>. QED  BY <1>2, <1>4, <1>8, <1>9, <1>10, <1>11, <1>12, <1>13 DEF Moved

\* Resolving packets keeps the stream's invariant when the chunks of the
\* acknowledged ones are at the peer.
LEMMA StreamResolves ==
  ASSUME Foundations, NEW p \in Side, Types, V1StreamInv(p), NEW acked, NEW lost,
         acked \subseteq Pending(send_window[p]), lost \subseteq Pending(send_window[p]) \ acked,
         \A d \in acked : AtPeer(p, send_window[p][d].channel_seq),
         Moved(p, acked, lost),
         next_data_seq'[p] = next_data_seq[p], next_channel_seq'[p] = next_channel_seq[p],
         accepted'[p] = accepted[p], send_buffer'[p] = send_buffer[p],
         ReceivingSame(Peer(p)), network' \subseteq network
  PROVE  V1StreamInv(p)'
<1> DEFINE window == send_window[p]
           left   == send_window'[p]
           queue  == retransmit_queue[p]
           longer == retransmit_queue'[p]
           next   == next_data_seq[p]
<1>1. next_channel_seq'[p] \in Nat /\ next_channel_seq[p] <= next_channel_seq'[p] /\ next \in Nat
  BY SMTT(40), SMTT(41) DEF Types
<1>2. Receiving(p)' /\ Holds(p) /\ \A c : AtPeer(p, c)' <=> AtPeer(p, c)
  BY <1>1, ReceivingStays DEF V1StreamInv
<1>3. InFlight(p)'
  BY <1>1, <1>2, FlightStays DEF V1StreamInv
<1>4. /\ Contiguous(left, next) /\ Pending(left) = (Pending(window) \ acked) \ lost
      /\ Low(p) <= Low(p)' /\ DOMAIN left \subseteq DOMAIN window
      /\ \A d \in DOMAIN left : /\ left[d] \in EntryType
                                /\ left[d].channel_seq = window[d].channel_seq
                                /\ left[d].data = window[d].data
      /\ \A d \in lost : d < Low(p)'
  BY DEF Moved, Low
<1>5. /\ DOMAIN longer = DOMAIN queue \cup lost
      /\ \A d \in DOMAIN queue : longer[d] = queue[d]
      /\ \A d \in lost : /\ longer[d].channel_seq = window[d].channel_seq
                         /\ longer[d].data = window[d].data
  <2>1. /\ DOMAIN longer = DOMAIN queue \cup lost
        /\ \A d \in DOMAIN queue : longer[d] = queue[d]
        /\ \A d \in lost :
             longer[d] = [channel_seq |-> window[d].channel_seq, data |-> window[d].data]
    BY DEF Moved
  <2>. HIDE DEF longer, queue, window
  <2>. QED  BY ONLY <2>1, SMTT(40), SMTT(41)
<1>6. Given(p)' = Given(p) /\ V1First(p)' = V1First(p)
  BY DEF Given, V1First
<1>7. /\ Pending(window) \subseteq DOMAIN window /\ Pending(left) \subseteq DOMAIN left
  BY DEF Pending
<1>8. /\ Contiguous(window, next)
      /\ \A d \in DOMAIN window : Carries(p, window[d].channel_seq, window[d].data)
      /\ \A d \in DOMAIN queue :
           d \in Nat /\ d < Low(p) /\ Carries(p, queue[d].channel_seq, queue[d].data)
  BY DEF V1StreamInv, Sending
<1>9. /\ Low(p) \in Nat /\ Low(p)' \in Nat /\ \A d \in DOMAIN window : d \in Nat
  <2>1. Low(p) \in 0 .. next /\ DOMAIN window = Low(p) .. (next - 1)
    BY <1>8 DEF Contiguous, Low
  <2>2. Low(p)' \in 0 .. next
    BY <1>4 DEF Contiguous, Low
  <2>. HIDE DEF window
  <2>. QED  BY <2>1, <2>2, <1>1, SMTT(40), SMTT(41)
<1>. HIDE DEF left, longer
<1>10. Sending(p)'
  <2>1. \A d \in DOMAIN left : Carries(p, left[d].channel_seq, left[d].data)
    BY <1>4, <1>8
  <2>2. ASSUME NEW d \in DOMAIN longer
        PROVE  d \in Nat /\ d < Low(p)' /\ Carries(p, longer[d].channel_seq, longer[d].data)
    <3>1. CASE d \in DOMAIN queue
      <4>1. d \in Nat /\ d < Low(p)'
        <5>1. d \in Nat /\ d < Low(p) /\ Low(p) <= Low(p)' /\ Low(p) \in Nat /\ Low(p)' \in Nat
          BY <3>1, <1>4, <1>8, <1>9
        <5>. QED  BY ONLY <5>1, SMTT(40), SMTT(41)
      <4>. QED  BY <3>1, <4>1, <1>5, <1>8
    <3>2. CASE d \in lost
      <4>1. d \in DOMAIN window
        BY <3>2, <1>7
      <4>. QED  BY <3>2, <4>1, <1>4, <1>5, <1>8, <1>9
    <3>. QED  BY <3>1, <3>2, <1>5
  <2>3. \A c, v : Carries(p, c, v) <=> (c \in Given(p)' /\ v = c - InitialSeq[p])
    BY <1>6 DEF Carries
  <2>4. /\ \A d \in DOMAIN left : /\ left[d].channel_seq \in Given(p)'
                                  /\ left[d].data = left[d].channel_seq - InitialSeq[p]
        /\ \A d \in DOMAIN longer : /\ d \in Nat /\ d < Low(p)'
                                    /\ longer[d].channel_seq \in Given(p)'
                                    /\ longer[d].data = longer[d].channel_seq - InitialSeq[p]
    BY <2>1, <2>2, <2>3
  <2>5. /\ next_channel_seq[p] >= V1First(p)
        /\ accepted[p] = (next_channel_seq[p] - V1First(p)) + Len(send_buffer[p])
        /\ \A i \in 1 .. Len(send_buffer[p]) :
             send_buffer[p][i] = (next_channel_seq[p] - V1First(p)) + i
    BY DEF V1StreamInv, Sending
  <2>. QED  BY <2>4, <2>5, <1>4, <1>6 DEF Sending, Carries, left, longer
<1>11. Kept(p)'
  <2>1. ASSUME NEW c \in Given(p)
        PROVE  AtPeer(p, c)' \/ PendingUnder(p, c)' # {} \/ QueuedUnder(p, c)' # {}
    <3>1. CASE AtPeer(p, c)
      BY <3>1, <1>2
    <3>2. CASE \E d \in Pending(window) : window[d].channel_seq = c
      <4>1. PICK d \in Pending(window) : window[d].channel_seq = c
        BY <3>2
      <4>2. CASE d \in acked
        BY <4>1, <4>2, <1>2
      <4>3. CASE d \in lost
        <5>1. d \in DOMAIN longer /\ longer[d].channel_seq = c
          BY <4>1, <4>3, <1>5
        <5>. QED  BY <5>1 DEF QueuedUnder, longer
      <4>4. CASE d \notin acked /\ d \notin lost
        <5>1. d \in Pending(left) /\ left[d].channel_seq = c
          BY <4>1, <4>4, <1>4, <1>7
        <5>. QED  BY <5>1 DEF PendingUnder, left
      <4>. QED  BY <4>2, <4>3, <4>4
    <3>3. CASE \E d \in DOMAIN queue : queue[d].channel_seq = c
      <4>1. PICK d \in DOMAIN queue : queue[d].channel_seq = c
        BY <3>3
      <4>2. d \in DOMAIN longer /\ longer[d].channel_seq = c
        BY <4>1, <1>5
      <4>. QED  BY <4>2 DEF QueuedUnder, longer
    <3>4. AtPeer(p, c) \/ PendingUnder(p, c) # {} \/ QueuedUnder(p, c) # {}
      BY <2>1 DEF V1StreamInv, Kept
    <3>5. PendingUnder(p, c) # {} => \E d \in Pending(window) : window[d].channel_seq = c
      BY DEF PendingUnder
    <3>6. QueuedUnder(p, c) # {} => \E d \in DOMAIN queue : queue[d].channel_seq = c
      BY DEF QueuedUnder
    <3>. QED  BY <3>1, <3>2, <3>3, <3>4, <3>5, <3>6
  <2>2. ASSUME NEW c \in Given(p),
               NEW d \in (PendingUnder(p, c) \cup QueuedUnder(p, c))',
               NEW e \in (PendingUnder(p, c) \cup QueuedUnder(p, c))'
        PROVE  d = e
    <3>1. (PendingUnder(p, c) \cup QueuedUnder(p, c))' \subseteq PendingUnder(p, c) \cup QueuedUnder(p, c)
      <4>1. ASSUME NEW x \in Pending(left), left[x].channel_seq = c
            PROVE  x \in PendingUnder(p, c)
        BY <4>1, <1>4, <1>7 DEF PendingUnder
      <4>2. ASSUME NEW x \in DOMAIN longer, longer[x].channel_seq = c
            PROVE  x \in PendingUnder(p, c) \cup QueuedUnder(p, c)
        BY <4>2, <1>5 DEF PendingUnder, QueuedUnder
      <4>. QED  BY <4>1, <4>2 DEF PendingUnder, QueuedUnder, left, longer
    <3>. QED  BY <2>2, <3>1 DEF V1StreamInv, Kept
  <2>. QED  BY <2>1, <2>2, <1>6 DEF Kept
<1>. QED  BY <1>2, <1>3, <1>10, <1>11 DEF V1StreamInv

\* What a fresh vector acknowledges is at the peer.
LEMMA AckedHeld ==
  ASSUME NEW p \in Side, Types, V1StreamInv(p), NEW m \in network, m.src = Peer(p), V1Fresh(p, m)
  PROVE  /\ V1Acked(p, m) \in SUBSET Pending(send_window[p])
         /\ \A d \in V1Acked(p, m) : AtPeer(p, send_window[p][d].channel_seq)
<1> DEFINE highest == V1OnWire(m.source_ack, next_channel_seq[p] - 1)
<1>1. /\ m.source_ack \in Nat /\ next_channel_seq[p] \in Nat
      /\ V1First(p) \in Nat /\ V1First(p) = InitialSeq[p] + 1 /\ InitialSeq[p] \in Nat
      /\ next_channel_seq[p] >= V1First(p)
  BY FirstNumber DEF Types, V1PacketType, V1StreamInv, Sending
<1>2. next_channel_seq[p] - 1 \in Nat
  BY <1>1, SMTT(40), SMTT(41)
<1>3. highest = m.source_ack
  BY <1>1, <1>2, SourceOnWire DEF V1Fresh
<1>4. ASSUME NEW d \in V1Acked(p, m)
      PROVE  d \in Pending(send_window[p]) /\ AtPeer(p, send_window[p][d].channel_seq)
  <2> DEFINE c == send_window[p][d].channel_seq
             offset == m.source_ack - c
  <2>1. d \in Pending(send_window[p]) /\ offset \in m.received
    BY <1>3 DEF V1Acked
  <2>2. c \in Given(p)
    BY <2>1 DEF Pending, V1StreamInv, Sending, Carries
  <2>. HIDE DEF c
  <2>3. c \in Int /\ c >= V1First(p)
    BY <2>2, <1>1, SMTT(40), SMTT(41) DEF Given
  <2>4. m.source_ack - offset = c
    BY <2>3, <1>1, SMTT(40), SMTT(41)
  <2>. HIDE DEF offset
  <2>5. AtPeer(p, m.source_ack - offset)
    BY <2>1, <2>3, <2>4 DEF V1StreamInv, InFlight, VectorTrue
  <2>6. AtPeer(p, c)
    BY ONLY <2>4, <2>5, Zenon
  <2>. QED  BY <2>1, <2>6 DEF c
<1>. QED  BY <1>4

\* process_v1_acknowledgement keeps the stream it resolves.
LEMMA AcknowledgementStep ==
  ASSUME Foundations, NEW p \in Side, Types, V1StreamInv(p), NEW m \in network,
         m.src = Peer(p), V1Fresh(p, m), NEW aged \in Int, ProcessV1Acknowledgement(p, m, aged),
         ReceivingSame(Peer(p)), network' \subseteq network
  PROVE  V1StreamInv(p)' /\ DOMAIN send_window' = Side /\ DOMAIN retransmit_queue' = Side
<1> DEFINE acked  == V1Acked(p, m)
           window == MarkReceived(send_window[p], acked)
           lost   == DetectLost(window, aged)
           next   == next_data_seq[p]
           cc     == OnAck(congestion[p], Cardinality(acked))
<1>1. /\ acked \in SUBSET Pending(send_window[p])
      /\ \A d \in acked : AtPeer(p, send_window[p][d].channel_seq)
  BY AckedHeld
<1>2. /\ next \in Nat /\ Contiguous(send_window[p], next)
      /\ \A d \in DOMAIN send_window[p] : send_window[p][d] \in EntryType
  BY DEF Types, V1StreamInv, Sending
<1>3. DeclareLost(p, window, cc, lost)
  BY DEF ProcessV1Acknowledgement
<1>4. /\ next_data_seq'[p] = next_data_seq[p] /\ next_channel_seq'[p] = next_channel_seq[p]
      /\ accepted'[p] = accepted[p] /\ send_buffer'[p] = send_buffer[p]
  BY DEF ProcessV1Acknowledgement
<1>. HIDE DEF acked, cc
<1>5. Marked(p, window, acked)
  <2>. HIDE DEF next
  <2>1. /\ Contiguous(window, next)
        /\ Pending(window) = Pending(send_window[p]) \ acked
        /\ LowestUnacknowledged(send_window[p], next) <= LowestUnacknowledged(window, next)
        /\ DOMAIN window \subseteq DOMAIN send_window[p]
        /\ \A d \in DOMAIN window :
             /\ window[d] \in EntryType
             /\ window[d].channel_seq = send_window[p][d].channel_seq
             /\ window[d].data = send_window[p][d].data
    BY <1>1, <1>2, MarkReceivedProperty
  <2>. HIDE DEF window
  <2>. QED  BY <2>1 DEF Marked, Low, next
<1>. HIDE DEF window
<1>6. DOMAIN window \subseteq Nat
  <2>1. DOMAIN window = LowestUnacknowledged(window, next) .. (next - 1) /\ LowestUnacknowledged(window, next) \in 0 .. next
    BY <1>5 DEF Marked, Contiguous
  <2>2. next \in Nat
    BY <1>2
  <2>. HIDE DEF next
  <2>. QED  BY ONLY <2>1, <2>2, SMTT(40), SMTT(41)
<1>7. /\ lost \in SUBSET Pending(window)
      /\ \A l \in lost : \A d \in Pending(window) : d <= l => d \in lost
  BY <1>6, DetectLostProperty
<1>. HIDE DEF lost
<1>8. /\ Moved(p, acked, lost) /\ lost \subseteq Pending(send_window[p]) \ acked
      /\ DOMAIN send_window' = Side /\ DOMAIN retransmit_queue' = Side
  BY <1>1, <1>3, <1>5, <1>7, LossesMove DEF V1StreamInv
<1>. QED  BY <1>1, <1>4, <1>8, StreamResolves

-----------------------------------------------------------------------------
(* Receiving *)

\* An AckOfAcks moves the base of the window and nothing else.
LEMMA AfterReset ==
  ASSUME NEW p \in Side, Types, Receiving(p), NEW m \in network, V1Fresh(Peer(p), m)
  PROVE  LET rw == recv_window[Peer(p)]
             moved == V1AfterAckOfAcks(Peer(p), m)
         IN  /\ RecvWindowOK(moved) /\ rw.base_seq <= moved.base_seq
             /\ moved.received = {d \in rw.received : d >= moved.base_seq}
             /\ moved.highest_seq = rw.highest_seq
             /\ moved.next_channel_seq = rw.next_channel_seq
             /\ moved.reorder_buf = rw.reorder_buf
<1> DEFINE q == Peer(p)
           rw == recv_window[q]
           moved == V1AfterAckOfAcks(q, m)
<1>1. q \in Side /\ RecvWindowOK(rw)
  BY PeerProperty DEF Types
<1>2. rw.base_seq \in Nat /\ rw.highest_seq \in Nat /\ rw.received \subseteq Nat
  BY <1>1 DEF RecvWindowOK
<1>3. \A d \in rw.received : d >= rw.base_seq
  BY <1>2 DEF Receiving
<1>4. CASE moved = rw
  <2>1. rw.base_seq <= rw.base_seq
    BY <1>2, SMTT(40), SMTT(41)
  <2>2. rw.received = {d \in rw.received : d >= rw.base_seq}
    BY <1>3
  <2>. QED  BY <1>1, <1>4, <2>1, <2>2
<1>5. CASE moved # rw
  <2> DEFINE reset == m.ack_of_acks
  <2>1. reset # NoSeq /\ moved = AdvanceBase(rw, V1OnWire(reset, rw.highest_seq) + 1)
    BY <1>5 DEF V1AfterAckOfAcks
  <2>2. reset \in Nat
    BY <2>1 DEF Types, V1PacketType, SeqNums
  <2>3. V1OnWire(reset, rw.highest_seq) = reset
    BY <2>1, <2>2, <1>2, SourceOnWire DEF V1Fresh
  <2>. HIDE DEF reset, rw
  <2>4. reset + 1 \in Nat /\ moved = AdvanceBase(rw, reset + 1)
    <3>1. reset + 1 \in Nat
      BY <2>2, SMTT(40), SMTT(41)
    <3>. QED  BY <2>1, <2>3, <3>1
  <2>. HIDE DEF moved
  <2>5. /\ RecvWindowOK(moved)
        /\ moved.base_seq = IF reset + 1 <= rw.base_seq THEN rw.base_seq ELSE reset + 1
        /\ moved.received = {d \in rw.received : d >= moved.base_seq}
        /\ moved.highest_seq = rw.highest_seq
        /\ moved.next_channel_seq = rw.next_channel_seq
        /\ moved.reorder_buf = rw.reorder_buf
    <3>1. RecvWindowOK(rw)
      BY <1>1 DEF rw
    <3>. QED  BY <2>4, <3>1, <1>3, AdvanceBaseProperty
  <2>6. rw.base_seq <= moved.base_seq
    <3>1. moved.base_seq = IF reset + 1 <= rw.base_seq THEN rw.base_seq ELSE reset + 1
      BY <2>5
    <3>2. reset + 1 \in Nat /\ rw.base_seq \in Nat
      BY <2>4, <1>2
    <3>. QED  BY ONLY <3>1, <3>2, SMTT(40), SMTT(41)
  <2>. QED  BY <2>5, <2>6 DEF moved, rw
<1>. QED  BY <1>4, <1>5

\* The peer takes data and forgets none.
LEMMA StreamTaken ==
  ASSUME NEW p \in Side, Types, V1StreamInv(p), SendingSame(p), network' \subseteq network,
         Receiving(p)', Holds(p)
  PROVE  V1StreamInv(p)'
<1>1. next_channel_seq'[p] \in Nat /\ next_channel_seq[p] <= next_channel_seq'[p]
  BY SMTT(40), SMTT(41) DEF Types, SendingSame
<1>2. InFlight(p)'
  BY <1>1, FlightStays DEF V1StreamInv
<1>3. Sending(p)' /\ Kept(p)'
  BY SendingStays, KeptStays DEF V1StreamInv
<1>. QED  BY <1>2, <1>3 DEF V1StreamInv

\* The peer's handling of a datagram of the stream keeps the invariant.
LEMMA StreamTakes ==
  ASSUME Foundations, NEW p \in Side, Types, V1StreamInv(p), SendingSame(p), network' \subseteq network,
         NEW m \in network, m.src = p, V1Fresh(Peer(p), m), ProcessV1Data(Peer(p), m)
  PROVE  /\ V1StreamInv(p)'
         /\ RecvWindowOK(recv_window'[Peer(p)]) /\ delivered'[Peer(p)] \in Seq(Nat)
         /\ Len(delivered[Peer(p)]) <= Len(delivered'[Peer(p)])
<1> DEFINE q == Peer(p)
           rw == recv_window[q]
           got == delivered[q]
           moved == V1AfterAckOfAcks(q, m)
           left == recv_window'[q]
           chan == next_channel_seq[p]
           first == V1First(p)
<1>1. /\ q \in Side /\ RecvWindowOK(rw) /\ chan \in Nat /\ got \in Seq(Nat) /\ Len(got) \in Nat
      /\ DOMAIN recv_window = Side /\ DOMAIN delivered = Side
      /\ first \in Nat /\ InitialSeq[p] \in Nat /\ first = InitialSeq[p] + 1
  BY PeerProperty, FirstNumber, SeqLength DEF Types
<1>2. /\ rw.base_seq \in Nat /\ rw.highest_seq \in Nat /\ rw.received \subseteq Nat
      /\ rw.next_channel_seq \in Nat /\ DOMAIN rw.reorder_buf \subseteq Nat
  BY <1>1 DEF RecvWindowOK
<1>2a. rw.next_channel_seq \in Nat /\ chan \in Nat /\ first \in Nat
  BY <1>1, <1>2
<1>3. /\ \A d \in rw.received : rw.base_seq <= d /\ d <= rw.highest_seq /\ AtPeer(p, d)
      /\ rw.highest_seq >= first => AtPeer(p, rw.highest_seq)
  BY DEF V1StreamInv, Receiving
<1>3a. rw.next_channel_seq \in first .. chan
  BY DEF V1StreamInv, Receiving
<1>3b. \A c \in DOMAIN rw.reorder_buf : Carries(p, c, rw.reorder_buf[c])
  BY DEF V1StreamInv, Receiving
<1>3c. /\ Len(got) = rw.next_channel_seq - first
       /\ \A i \in 1 .. Len(got) : got[i] = i
  BY DEF V1StreamInv, Receiving
<1>3d. rw.base_seq <= rw.highest_seq => rw.highest_seq \in rw.received
  BY DEF V1StreamInv, Receiving
<1>4. /\ RecvWindowOK(moved) /\ rw.base_seq <= moved.base_seq
      /\ moved.received = {d \in rw.received : d >= moved.base_seq}
      /\ moved.highest_seq = rw.highest_seq
      /\ moved.next_channel_seq = rw.next_channel_seq
      /\ moved.reorder_buf = rw.reorder_buf
  BY AfterReset DEF V1StreamInv
<1>5. moved.base_seq \in Nat
  BY <1>4 DEF RecvWindowOK
<1>5a. /\ moved.highest_seq = rw.highest_seq
       /\ \A d : d \in moved.received <=> d \in rw.received /\ d >= moved.base_seq
  BY <1>4
<1>5b. moved.next_channel_seq = rw.next_channel_seq /\ moved.reorder_buf = rw.reorder_buf
  BY <1>4
<1>5c. rw.base_seq \in Nat /\ rw.highest_seq \in Nat /\ rw.base_seq <= moved.base_seq
  BY <1>2, <1>4
<1>5d. moved.base_seq <= moved.highest_seq => moved.highest_seq \in moved.received
  <2>. HIDE DEF moved, rw
  <2>. QED  BY ONLY <1>3d, <1>5, <1>5a, <1>5c, SMTT(40), SMTT(41)
<1>5e. \A d \in moved.received : /\ d \in Nat /\ d \in rw.received /\ AtPeer(p, d)
                                 /\ moved.base_seq <= d /\ d <= rw.highest_seq
  <2>1. \A d \in moved.received : d \in Nat /\ d \in rw.received /\ d >= moved.base_seq
    BY <1>2, <1>5a
  <2>. HIDE DEF moved, rw
  <2>2. \A d \in moved.received : moved.base_seq <= d
    BY ONLY <2>1, <1>5, SMTT(40), SMTT(41)
  <2>. QED  BY <2>1, <2>2, <1>3
<1>6. /\ next_channel_seq'[p] = chan /\ Given(p)' = Given(p) /\ V1First(p)' = first
      /\ \A c, v : Carries(p, c, v) <=> (c \in Given(p)' /\ v = c - InitialSeq[p])
  BY DEF SendingSame, Given, V1First, Carries
<1>. HIDE DEF moved
<1>7. CASE ~V1IsNew(q, m)
  <2>1. left = moved /\ delivered'[q] = got
    BY <1>1, <1>7 DEF ProcessV1Data, moved
  <2>2. \A c : AtPeer(p, c)' <=> AtPeer(p, c)
    BY <2>1, <1>4 DEF AtPeer
  <2>3. Holds(p)
    BY <2>2 DEF Holds
  <2>. HIDE DEF left, rw
  <2>4. \A d \in left.received : left.base_seq <= d /\ d <= left.highest_seq /\ AtPeer(p, d)
    BY <2>1, <1>5a, <1>5e
  <2>5. left.base_seq <= left.highest_seq => left.highest_seq \in left.received
    BY <2>1, <1>5d
  <2>6. \A c \in DOMAIN left.reorder_buf :
          c \in Given(p)' /\ left.reorder_buf[c] = c - InitialSeq[p]
    BY <2>1, <1>3b, <1>5b, <1>6
  <2>7. /\ left.next_channel_seq \in first .. chan
        /\ Len(got) = left.next_channel_seq - first
        /\ left.highest_seq >= first => AtPeer(p, left.highest_seq)
    BY <2>1, <1>3, <1>3a, <1>3c, <1>5a, <1>5b
  <2>8. Receiving(p)'
    BY <2>1, <2>2, <2>4, <2>5, <2>6, <2>7, <1>3c, <1>6 DEF Receiving, Carries, left
  <2>9. RecvWindowOK(left) /\ delivered'[q] \in Seq(Nat) /\ Len(got) <= Len(delivered'[q])
    <3>1. Len(got) <= Len(got)
      BY <1>1, SMTT(40), SMTT(41)
    <3>. QED  BY <2>1, <3>1, <1>1, <1>4
  <2>. QED  BY <2>3, <2>8, <2>9, StreamTaken DEF left
<1>8. CASE V1IsNew(q, m)
  <2> DEFINE c == m.source_seq
             v == m.data
             filled == Receive(moved, c, c, v)
             end == DrainEnd(filled)
             drained == Drained(filled)
  <2>1. c \in Nat /\ c \in Given(p) /\ v = c - InitialSeq[p] /\ v \in Nat
    <3>1. m.source_seq # NoSeq
      BY <1>8 DEF V1IsNew
    <3>. QED  BY <3>1 DEF Types, V1PacketType, SeqNums, V1StreamInv, InFlight, DataTrue, Carries
  <2>2. SourceSeq(q, m) = c
    <3>1. Near(c, rw.highest_seq)
      BY <1>8 DEF V1IsNew, V1Fresh
    <3>. QED  BY <3>1, <2>1, <1>2, SourceOnWire DEF SourceSeq
  <2>3. c >= moved.base_seq
    BY <2>2, <1>8 DEF V1IsNew, Accepts, SlotFree, moved
  <2>4. /\ left = DrainOrdered(filled)
        /\ delivered'[q] = got \o drained
    <3> DEFINE held == Receive(moved, SourceSeq(q, m), SourceSeq(q, m), m.data)
    <3>1. recv_window' = [recv_window EXCEPT ![q] = DrainOrdered(held)]
      BY <1>8 DEF ProcessV1Data, moved
    <3>2. delivered' = [delivered EXCEPT ![q] = @ \o Drained(held)]
      BY <1>8 DEF ProcessV1Data, moved
    <3>3. held = filled
      BY <2>2
    <3>. HIDE DEF held, filled
    <3>4. recv_window'[q] = DrainOrdered(held) /\ delivered'[q] = delivered[q] \o Drained(held)
      BY <3>1, <3>2, <1>1
    <3>. QED  BY <3>3, <3>4
  <2>5. c >= first /\ c < chan
    BY <2>1, <1>1, SMTT(40), SMTT(41) DEF Given
  <2>. HIDE DEF c, v
  <2>6. /\ RecvWindowOK(filled)
        /\ filled.base_seq = moved.base_seq
        /\ filled.received = moved.received \cup {c}
        /\ filled.highest_seq = IF moved.highest_seq >= c THEN moved.highest_seq ELSE c
        /\ filled.next_channel_seq = moved.next_channel_seq
        /\ \A e : e \in DOMAIN filled.reorder_buf <=>
                    \/ e \in DOMAIN moved.reorder_buf
                    \/ e = c /\ ~(c < moved.next_channel_seq)
        /\ \A e \in DOMAIN filled.reorder_buf :
             filled.reorder_buf[e] = IF e = c /\ ~(c < moved.next_channel_seq)
                                     THEN v ELSE moved.reorder_buf[e]
    <3>1. Fills(moved, c, c, v, filled)
      BY <2>1, <1>4, ReceiveProperty
    <3>. HIDE DEF filled
    <3>. QED  BY <3>1 DEF Fills
  <2>. HIDE DEF filled
  <2>6a. /\ filled.next_channel_seq = rw.next_channel_seq
         /\ \A e : e \in DOMAIN filled.reorder_buf <=>
                     \/ e \in DOMAIN rw.reorder_buf
                     \/ e = c /\ ~(c < rw.next_channel_seq)
         /\ \A e \in DOMAIN filled.reorder_buf :
              filled.reorder_buf[e] = IF e = c /\ ~(c < rw.next_channel_seq)
                                      THEN v ELSE rw.reorder_buf[e]
    <3>1. /\ filled.next_channel_seq = moved.next_channel_seq
          /\ \A e : e \in DOMAIN filled.reorder_buf <=>
                      \/ e \in DOMAIN moved.reorder_buf
                      \/ e = c /\ ~(c < moved.next_channel_seq)
      BY <2>6
    <3>2. \A e \in DOMAIN filled.reorder_buf :
            filled.reorder_buf[e] = IF e = c /\ ~(c < moved.next_channel_seq)
                                    THEN v ELSE moved.reorder_buf[e]
      BY <2>6
    <3>. HIDE DEF rw
    <3>. QED  BY ONLY <3>1, <3>2, <1>5b, SMTT(40), SMTT(41)
  <2>7. \A e \in DOMAIN filled.reorder_buf :
          e \in Given(p) /\ filled.reorder_buf[e] = e - InitialSeq[p]
    <3>1. ASSUME NEW e \in DOMAIN filled.reorder_buf
          PROVE  e \in Given(p) /\ filled.reorder_buf[e] = e - InitialSeq[p]
      <4>1. CASE e = c /\ ~(c < rw.next_channel_seq)
        BY <4>1, <2>1, <2>6a
      <4>2. CASE ~(e = c /\ ~(c < rw.next_channel_seq))
        <5>1. e \in DOMAIN rw.reorder_buf /\ filled.reorder_buf[e] = rw.reorder_buf[e]
          BY <4>2, <2>6a
        <5>. QED  BY <5>1, <1>3b DEF Carries
      <4>. QED  BY <4>1, <4>2
    <3>. QED  BY <3>1
  <2>8. \A e \in DOMAIN filled.reorder_buf : e < chan
    <3>1. \A e \in DOMAIN filled.reorder_buf : e \in first .. (chan - 1)
      BY <2>7 DEF Given
    <3>. HIDE DEF first, chan
    <3>. QED  BY ONLY <3>1, <1>2a, SMTT(40), SMTT(41)
  <2> DEFINE out == DrainOrdered(filled)
  <2>9. /\ RecvWindowOK(out)
        /\ end \in Nat /\ filled.next_channel_seq <= end
        /\ filled.next_channel_seq <= chan => end <= chan
        /\ \A e \in filled.next_channel_seq .. (end - 1) : e \in DOMAIN filled.reorder_buf
        /\ out.next_channel_seq = end
        /\ out.base_seq = filled.base_seq
        /\ out.received = filled.received
        /\ out.highest_seq = filled.highest_seq
        /\ DOMAIN out.reorder_buf = {e \in DOMAIN filled.reorder_buf : e >= end}
        /\ \A e \in DOMAIN out.reorder_buf : out.reorder_buf[e] = filled.reorder_buf[e]
    <3>1. RecvWindowOK(filled) /\ chan \in Nat
      BY <2>6, <1>1
    <3>. HIDE DEF chan
    <3>. QED  BY ONLY Foundations, <3>1, <2>8, DrainProperty, Zenon
  <2>. HIDE DEF out
  <2>9a. /\ end \in Nat /\ rw.next_channel_seq <= end /\ end <= chan
         /\ \A e \in rw.next_channel_seq .. (end - 1) : e \in DOMAIN filled.reorder_buf
         /\ left.next_channel_seq = end /\ RecvWindowOK(left)
    <3>1. rw.next_channel_seq <= chan
      <4>. HIDE DEF rw, first, chan
      <4>. QED  BY ONLY <1>2a, <1>3a, SMTT(40), SMTT(41)
    <3>. QED  BY <2>4, <2>6a, <2>9, <3>1 DEF out
  <2>9b. /\ \A e : e \in DOMAIN left.reorder_buf <=> e \in DOMAIN filled.reorder_buf /\ e >= end
         /\ \A e \in DOMAIN left.reorder_buf : left.reorder_buf[e] = filled.reorder_buf[e]
    <3>1. /\ \A e : e \in DOMAIN out.reorder_buf <=> e \in DOMAIN filled.reorder_buf /\ e >= end
          /\ \A e \in DOMAIN out.reorder_buf : out.reorder_buf[e] = filled.reorder_buf[e]
      BY <2>9
    <3>. QED  BY <2>4, <3>1 DEF out
  <2>9c. /\ left.base_seq = moved.base_seq
         /\ left.received = moved.received \cup {c}
         /\ left.highest_seq = IF rw.highest_seq >= c THEN rw.highest_seq ELSE c
    <3>1. /\ out.base_seq = filled.base_seq
          /\ out.received = filled.received
          /\ out.highest_seq = filled.highest_seq
      BY <2>9
    <3>2. /\ filled.base_seq = moved.base_seq
          /\ filled.received = moved.received \cup {c}
          /\ filled.highest_seq = IF rw.highest_seq >= c THEN rw.highest_seq ELSE c
      BY <2>6, <1>5a
    <3>. QED  BY <2>4, <3>1, <3>2 DEF out
  <2>10. drained = [i \in 1 .. (end - rw.next_channel_seq) |->
                      filled.reorder_buf[rw.next_channel_seq + i - 1]]
    BY <2>6a DEF Drained
  <2>. HIDE DEF left, end, drained, got, rw, first, chan
  <2>11. end \in Nat /\ rw.next_channel_seq <= end /\ end <= chan
    BY <2>9a
  <2>12. /\ delivered'[q] \in Seq(Nat) /\ Len(delivered'[q]) = end - first
         /\ \A i \in 1 .. Len(delivered'[q]) : delivered'[q][i] = i
    <3> DEFINE n == end - rw.next_channel_seq
    <3>1. n \in Nat
      BY ONLY <2>11, <1>2a, SMTT(40), SMTT(41)
    <3>2. ASSUME NEW i \in 1 .. n
          PROVE  drained[i] \in Nat /\ drained[i] = Len(got) + i
      <4> DEFINE e == rw.next_channel_seq + i - 1
      <4>1. e \in rw.next_channel_seq .. (end - 1)
        BY ONLY <3>2, <2>11, <1>2a, SMTT(40), SMTT(41)
      <4>2. drained[i] = filled.reorder_buf[e]
        BY <3>2, <2>10
      <4>3. drained[i] = e - InitialSeq[p]
        BY <4>1, <4>2, <2>7, <2>9a
      <4>4. /\ Len(got) = rw.next_channel_seq - first /\ Len(got) \in Nat
            /\ InitialSeq[p] \in Nat /\ first = InitialSeq[p] + 1
        BY <1>1, <1>3c DEF got, first
      <4>5. i \in Nat
        BY ONLY <3>1, <3>2, SMTT(40), SMTT(41)
      <4>. HIDE DEF e
      <4>6. e = rw.next_channel_seq + i - 1
        BY DEF e
      <4>7. drained[i] = Len(got) + i
        BY ONLY <4>3, <4>4, <4>5, <4>6, <1>2a, SMTT(40), SMTT(41)
      <4>8. Len(got) + i \in Nat
        BY ONLY <4>4, <4>5, SMTT(40), SMTT(41)
      <4>. QED  BY <4>7, <4>8
    <3>3. drained \in [1 .. n -> Nat]
      <4>1. drained = [i \in 1 .. n |-> drained[i]]
        BY <2>10
      <4>. QED  BY <3>2, <4>1
    <3>. HIDE DEF n
    <3>4. /\ \A i \in 1 .. Len(got) : got[i] = 0 + i
          /\ \A i \in 1 .. n : drained[i] = 0 + Len(got) + i
      <4>1. Len(got) \in Nat /\ \A i \in 1 .. Len(got) : got[i] = i
        BY <1>1, <1>3c DEF got
      <4>2. \A i \in 1 .. n : drained[i] = Len(got) + i
        BY <3>2
      <4>. QED  BY ONLY <3>1, <4>1, <4>2, SMTT(40), SMTT(41)
    <3>5. 0 \in Int /\ \A i \in 1 .. Len(got \o drained) : 0 + i = i
      BY SMTT(40), SMTT(41)
    <3>6. /\ got \o drained \in Seq(Nat) /\ Len(got \o drained) = Len(got) + n
          /\ \A i \in 1 .. Len(got \o drained) : (got \o drained)[i] = 0 + i
      <4>1. got \in Seq(Nat)
        BY <1>1 DEF got
      <4>2. 0 \in Int
        BY <3>5
      <4>. QED  BY ONLY <4>1, <4>2, <3>1, <3>3, <3>4, CountOn, Zenon
    <3>7. Len(got) + n = end - first
      <4>1. Len(got) = rw.next_channel_seq - first
        BY <1>3c
      <4>. QED  BY ONLY <4>1, <1>2a, <2>11, SMTT(40), SMTT(41) DEF n
    <3>8. \A i \in 1 .. Len(got \o drained) : (got \o drained)[i] = i
      BY ONLY <3>5, <3>6, Zenon
    <3>. QED  BY <3>6, <3>7, <3>8, <2>4
  <2>13. \A x \in Int : AtPeer(p, x) \/ x = c => AtPeer(p, x)'
    <3>1. ASSUME NEW x \in Int, AtPeer(p, x) \/ x = c  PROVE AtPeer(p, x)'
      <4>1. x < rw.next_channel_seq \/ x \in DOMAIN filled.reorder_buf
        BY <3>1, <2>1, <2>6a DEF AtPeer, rw
      <4>2. x < left.next_channel_seq \/ x \in DOMAIN left.reorder_buf
        <5>1. left.next_channel_seq = end /\ (x \in DOMAIN filled.reorder_buf /\ x >= end => x \in DOMAIN left.reorder_buf)
          BY <2>9a, <2>9b
        <5>. QED  BY ONLY x \in Int, <4>1, <5>1, <2>11, <1>2a, SMTT(40), SMTT(41)
      <4>. QED  BY <4>2 DEF AtPeer, left
    <3>. QED  BY <3>1
  <2>14. Receiving(p)'
    <3>1. left.next_channel_seq \in first .. chan /\ Len(delivered'[q]) = left.next_channel_seq - first
      <4>1. left.next_channel_seq = end /\ Len(delivered'[q]) = end - first
        BY <2>9a, <2>12
      <4>. QED  BY ONLY <4>1, <2>11, <1>2a, SMTT(40), SMTT(41)
    <3>2. \A e \in DOMAIN left.reorder_buf :
            e \in Given(p)' /\ left.reorder_buf[e] = e - InitialSeq[p]
      BY <2>7, <2>9b, <1>6
    <3>3. \A x \in left.received : /\ x \in rw.received \/ x = c
                                   /\ left.base_seq <= x /\ x <= left.highest_seq
      <4>1. c \in Nat /\ c >= moved.base_seq
        BY <2>1, <2>3
      <4>2. \A x \in moved.received : x \in Nat /\ x \in rw.received /\ moved.base_seq <= x /\ x <= rw.highest_seq
        BY <1>5e
      <4>. QED  BY ONLY <4>1, <4>2, <2>9c, <1>5c, SMTT(40), SMTT(41)
    <3>4. \A x \in left.received : AtPeer(p, x)'
      <4>1. ASSUME NEW x \in left.received  PROVE x \in Int /\ (AtPeer(p, x) \/ x = c)
        <5>1. x \in Nat /\ (AtPeer(p, x) \/ x = c)
          BY <4>1, <2>1, <2>9c, <1>5e
        <5>. QED  BY ONLY <5>1, SMTT(40), SMTT(41)
      <4>. QED  BY <4>1, <2>13
    <3>5. left.base_seq <= left.highest_seq => left.highest_seq \in left.received
      <4>1. moved.base_seq <= rw.highest_seq => rw.highest_seq \in moved.received
        BY <1>5a, <1>5d
      <4>. QED  BY ONLY <4>1, <2>9c, SMTT(40), SMTT(41)
    <3> DEFINE held(x) == x < left.next_channel_seq \/ x \in DOMAIN left.reorder_buf
    <3>6. \A x : AtPeer(p, x)' <=> held(x)
      BY DEF AtPeer, left
    <3>7. left.highest_seq >= first => held(left.highest_seq)
      <4>1. left.highest_seq \in {rw.highest_seq, c}
        BY <2>9c
      <4>2. ASSUME NEW x \in {rw.highest_seq, c}, x >= first  PROVE held(x)
        <5>1. AtPeer(p, x)'
          <6>1. x \in Nat /\ (AtPeer(p, x) \/ x = c)
            BY <4>2, <2>1, <1>5c, <1>3
          <6>2. x \in Int
            BY ONLY <6>1, SMTT(40), SMTT(41)
          <6>. QED  BY <6>1, <6>2, <2>13
        <5>. QED  BY <5>1, <3>6
      <4>. HIDE DEF held
      <4>. QED  BY ONLY <4>1, <4>2, Zenon
    <3>8. \A x \in left.received : held(x)
      BY <3>4, <3>6
    <3>. QED  BY <3>1, <3>2, <3>3, <3>5, <3>7, <3>8, <2>12, <1>6 DEF Receiving, Carries, AtPeer, left
  <2>15. Holds(p)
    BY <2>13 DEF Holds
  <2>16. RecvWindowOK(recv_window'[q])
    BY <2>9a DEF left
  <2>17. Len(got) <= Len(delivered'[q])
    <3>1. Len(delivered'[q]) = end - first /\ Len(got) = rw.next_channel_seq - first
      BY <2>12, <1>3c
    <3>. QED  BY ONLY <3>1, <2>11, <1>2a, SMTT(40), SMTT(41)
  <2>. QED  BY <2>12, <2>14, <2>15, <2>16, <2>17, StreamTaken DEF got
<1>. QED  BY <1>7, <1>8
=============================================================================
