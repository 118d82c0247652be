------------------------- MODULE RdpeudpSendWindow --------------------------
(***************************************************************************)
(* The sender's bookkeeping of ironrdp-rdpeudp: the send window            *)
(* (send_window.rs), the loss detector that scans it (loss.rs), the        *)
(* retransmit queue (reliability.rs) and the congestion controller         *)
(* (congestion.rs), as operators over values.                              *)
(*                                                                         *)
(* A window is a function from the DataSeqNums it holds to entries.  The   *)
(* code's VecDeque is ordered by DataSeqNum, so its front is the least     *)
(* element of the domain.  The retransmit queue is a function from the     *)
(* DataSeqNum a packet was lost under to what has to be sent again: losses *)
(* are declared in increasing DataSeqNum order, so first-in first-out is   *)
(* least first.  Every payload counts as one MTU, the unit of the          *)
(* congestion window.                                                      *)
(***************************************************************************)
EXTENDS Integers, FiniteSets, FiniteSetsExt, Functions

CONSTANTS
  ReorderThreshold,   \* DEFAULT_REORDER_THRESHOLD, 3 in the code
  InitialWindow,      \* INITIAL_WINDOW, 10 MTU in the code
  MinWindow           \* MIN_WINDOW, 2 MTU in the code

ASSUME SendWindowAssumption ==
  /\ ReorderThreshold \in Nat \ {0}
  /\ InitialWindow \in Nat /\ MinWindow \in Nat \ {0}
  /\ InitialWindow >= MinWindow

\* Absent Option<u64> values; every sequence number is above it.
NoSeq == -1
SeqNums == Nat \cup {NoSeq}

-----------------------------------------------------------------------------
(* Send window *)

EntryType == [channel_seq : Nat, data : Nat, state : {"Pending", "Received"}]

EmptyWindow == [d \in {} |-> {}]

Pending(window) == {d \in DOMAIN window : window[d].state = "Pending"}

Received(window) == DOMAIN window \ Pending(window)

HasCapacity(window, maxEntries) == Cardinality(DOMAIN window) < maxEntries

BytesInFlight(window) == Cardinality(Pending(window))

LowestUnacknowledged(window, nextDataSeq) ==
  IF DOMAIN window = {} THEN nextDataSeq ELSE Min(DOMAIN window)

\* What the users of a window rely on: it runs up to the last number assigned
\* and starts with an unresolved one.
Contiguous(window, nextDataSeq) ==
  LET low == LowestUnacknowledged(window, nextDataSeq)
  IN  /\ low \in 0 .. nextDataSeq
      /\ DOMAIN window = low .. (nextDataSeq - 1)
      /\ low < nextDataSeq => low \in Pending(window)

\* push and push_retransmit differ in where the ChannelSeqNum comes from.
Push(window, dataSeq, channelSeq, data) ==
  [d \in DOMAIN window \cup {dataSeq} |->
     IF d = dataSeq
     THEN [channel_seq |-> channelSeq, data |-> data, state |-> "Pending"]
     ELSE window[d]]

\* Mutant: resolved entries stay at the front.
AdvanceWindowNot(window) == window

\* Resolved entries leave at the front: what is kept has an unresolved
\* entry at or below it.
AdvanceWindow(window) ==
  Restrict(window, {d \in DOMAIN window : \E p \in Pending(window) : p <= d})

\* mark_received for each number of acked, and mark_received_through when
\* acked is everything up to a number.
MarkReceived(window, acked) ==
  AdvanceWindow([d \in DOMAIN window |->
                   IF d \in acked THEN [window[d] EXCEPT !.state = "Received"]
                                  ELSE window[d]])

\* mark_lost for each number of lost.
MarkLost(window, lost) == AdvanceWindow(Restrict(window, DOMAIN window \ lost))

-----------------------------------------------------------------------------
(* Loss detection *)

\* LossDetector::detect.  Entries were sent in DataSeqNum order, so the ones
\* older than the time threshold are those below some number, agedBelow.
DetectLost(window, agedBelow) ==
  LET overdue == {d \in Pending(window) :
                    \/ d < agedBelow
                    \/ \E acked \in Received(window) : acked - d >= ReorderThreshold}
  IN  {d \in Pending(window) : \E o \in overdue : d <= o}

-----------------------------------------------------------------------------
(* Retransmit queue *)

QueueEntryType == [channel_seq : Nat, data : Nat]

QueuedChannels(queue) == {queue[d].channel_seq : d \in DOMAIN queue}

\* enqueue for each lost packet; a ChannelSeqNum already queued is skipped.
Enqueue(queue, window, lost) ==
  LET added == {d \in lost :
                  /\ window[d].channel_seq \notin QueuedChannels(queue)
                  /\ \A e \in lost : e < d => window[e].channel_seq # window[d].channel_seq}
  IN  [d \in DOMAIN queue \cup added |->
         IF d \in DOMAIN queue
         THEN queue[d]
         ELSE [channel_seq |-> window[d].channel_seq, data |-> window[d].data]]

QueueFront(queue) == queue[Min(DOMAIN queue)]

Dequeue(queue) == Restrict(queue, DOMAIN queue \ {Min(DOMAIN queue)})

-----------------------------------------------------------------------------
(* Congestion control *)

CongestionType ==
  [window : Nat \ 0 .. (MinWindow - 1), ssthresh : SeqNums,
   bytes_acked : Nat, recovery_seq : SeqNums]

\* ssthresh starts at u64::MAX, which no window reaches.
NewCongestionControl ==
  [window |-> InitialWindow, ssthresh |-> NoSeq, bytes_acked |-> 0, recovery_seq |-> NoSeq]

InSlowStart(cc) == cc.ssthresh = NoSeq \/ cc.window < cc.ssthresh

OnAck(cc, newlyAcked) ==
  CASE newlyAcked = 0 -> cc
    [] newlyAcked > 0 /\ InSlowStart(cc) ->
         LET grown == cc.window + newlyAcked
         IN  [cc EXCEPT !.window = grown,
                        !.bytes_acked = IF cc.ssthresh # NoSeq /\ grown >= cc.ssthresh
                                        THEN 0 ELSE @]
    [] OTHER ->
         LET acked == cc.bytes_acked + newlyAcked
         IN  IF acked >= cc.window
             THEN [cc EXCEPT !.bytes_acked = acked - cc.window, !.window = @ + 1]
             ELSE [cc EXCEPT !.bytes_acked = acked]

\* Mutant: halving has no floor.
OnLossNoFloor(cc, lost, largestSent) ==
  IF \E d \in lost : d > cc.recovery_seq
  THEN LET half == cc.window \div 2
       IN  [window |-> half, ssthresh |-> half, bytes_acked |-> 0, recovery_seq |-> largestSent]
  ELSE cc

\* on_loss for each lost packet, in order: the first one beyond the recovery
\* epoch halves the window and starts an epoch that covers all the others.
OnLoss(cc, lost, largestSent) ==
  IF \E d \in lost : d > cc.recovery_seq
  THEN LET half == Max({cc.window \div 2, MinWindow})
       IN  [window |-> half, ssthresh |-> half, bytes_acked |-> 0, recovery_seq |-> largestSent]
  ELSE cc
=============================================================================
