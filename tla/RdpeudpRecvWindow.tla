------------------------- MODULE RdpeudpRecvWindow --------------------------
(***************************************************************************)
(* The receive window of ironrdp-rdpeudp (recv_window.rs) as operators     *)
(* over a record.  The slots of the code's vector run from base_seq to the *)
(* highest slot ever marked, which is always a Received one, so the set of *)
(* Received slots determines the vector.                                   *)
(***************************************************************************)
EXTENDS Integers, FiniteSets, FiniteSetsExt, Functions

CONSTANTS
  AckVectorMaxEntries,   \* ACK_VECTOR_MAX_ENTRIES, 127 in the code
  AckVectorMaxRun        \* longest run one RunLength entry holds, 63

ASSUME RecvWindowAssumption ==
  AckVectorMaxEntries \in Nat \ {0} /\ AckVectorMaxRun \in Nat \ {0}

RecvWindowOK(rw) ==
  /\ DOMAIN rw = {"base_seq", "highest_seq", "received", "next_channel_seq", "reorder_buf"}
  /\ rw.base_seq \in Nat /\ rw.highest_seq \in Nat /\ rw.received \subseteq Nat
  /\ rw.next_channel_seq \in Nat
  /\ DOMAIN rw.reorder_buf \subseteq Nat
  /\ \A c \in DOMAIN rw.reorder_buf : rw.reorder_buf[c] \in Nat

NewRecvWindow(initialDataSeq, initialChannelSeq) ==
  [base_seq |-> initialDataSeq, highest_seq |-> initialDataSeq - 1, received |-> {},
   next_channel_seq |-> initialChannelSeq, reorder_buf |-> [c \in {} |-> 0]]

\* The least number from start on that is not in S.
FirstMissing(start, S) ==
  CHOOSE n \in {start} \cup {s + 1 : s \in S} :
    n >= start /\ n \notin S /\ \A m \in start .. (n - 1) : m \in S

-----------------------------------------------------------------------------
\* receive refuses a packet only when the reorder buffer is full and the
\* packet is neither next in order, nor delivered, nor already buffered.
Refused(rw, channelSeq, maxEntries) ==
  /\ channelSeq > rw.next_channel_seq
  /\ Cardinality(DOMAIN rw.reorder_buf) >= maxEntries
  /\ channelSeq \notin DOMAIN rw.reorder_buf

\* Mutant: one slot too many.
SlotFreeOnePast(rw, dataSeq, maxEntries) ==
  /\ dataSeq >= rw.base_seq /\ dataSeq - rw.base_seq <= maxEntries
  /\ dataSeq \notin rw.received

\* occupy_slot's answer: inside the window and not a duplicate.
SlotFree(rw, dataSeq, maxEntries) ==
  /\ dataSeq >= rw.base_seq /\ dataSeq - rw.base_seq < maxEntries
  /\ dataSeq \notin rw.received

Accepts(rw, dataSeq, channelSeq, maxEntries) ==
  ~Refused(rw, channelSeq, maxEntries) /\ SlotFree(rw, dataSeq, maxEntries)

\* receive, when it returns true.
Receive(rw, dataSeq, channelSeq, data) ==
  [rw EXCEPT !.received = @ \cup {dataSeq},
             !.highest_seq = Max({@, dataSeq}),
             !.reorder_buf = IF channelSeq < rw.next_channel_seq
                             THEN @
                             ELSE [c \in DOMAIN @ \cup {channelSeq} |->
                                     IF c = channelSeq THEN data ELSE rw.reorder_buf[c]]]

\* What drain_ordered returns, and the window it leaves.
DrainEnd(rw) == FirstMissing(rw.next_channel_seq, DOMAIN rw.reorder_buf)

Drained(rw) ==
  [i \in 1 .. (DrainEnd(rw) - rw.next_channel_seq) |->
     rw.reorder_buf[rw.next_channel_seq + i - 1]]

\* Mutant: the buffer is emptied but the next number expected stays.
DrainOrderedSameCursor(rw) ==
  [rw EXCEPT !.reorder_buf = Restrict(@, {c \in DOMAIN @ : c >= DrainEnd(rw)})]

DrainOrdered(rw) ==
  [rw EXCEPT !.next_channel_seq = DrainEnd(rw),
             !.reorder_buf = Restrict(@, {c \in DOMAIN @ : c >= DrainEnd(rw)})]

-----------------------------------------------------------------------------
HasGaps(rw) == \E top \in rw.received : \E d \in rw.base_seq .. top : d \notin rw.received

AdvanceBase(rw, newBase) ==
  IF newBase <= rw.base_seq
  THEN rw
  ELSE [rw EXCEPT !.base_seq = newBase, !.received = {d \in @ : d >= newBase}]

\* The leading run of Received slots leaves the window.
ReleaseAcknowledged(rw) == AdvanceBase(rw, FirstMissing(rw.base_seq, rw.received))

-----------------------------------------------------------------------------
\* ack_vector and build_ack_vector_payload.  An entry starts where the state
\* changes and after every AckVectorMaxRun slots of one run; the vector
\* describes the window up to the last slot that AckVectorMaxEntries entries
\* reach, as offsets from the base.
EntryStart(rw, slot) ==
  \E first \in rw.base_seq .. slot :
    /\ \A d \in first .. slot : d \in rw.received <=> slot \in rw.received
    /\ first = rw.base_seq \/ ((first - 1) \in rw.received <=> slot \notin rw.received)
    /\ (slot - first) % AckVectorMaxRun = 0

Described(rw) ==
  {slot \in rw.base_seq .. Max(rw.received) :
     Cardinality({d \in rw.base_seq .. slot : EntryStart(rw, d)}) <= AckVectorMaxEntries}

AckVectorOffsets(rw) == {d - rw.base_seq : d \in Described(rw) \cap rw.received}
=============================================================================
