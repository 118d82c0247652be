------------------------------ MODULE SvcChunks -----------------------------
(***************************************************************************)
(* Chunking and reassembly of static virtual channel messages: the         *)
(* ChunkProcessor of ironrdp-svc/src/lib.rs.  A message is cut by          *)
(* chunkify_one; the receiver puts the chunks together for the recipient   *)
(* (message_context) that was current at the first of them.                *)
(*                                                                         *)
(* The byte at position i of message m is the pair <<m, i>>, so that a     *)
(* reassembled message shows where its bytes came from.                    *)
(***************************************************************************)
EXTENDS Naturals, Sequences

CONSTANTS
  MaxChunkLen,      \* max_chunk_len, 1600 or the negotiated VCChunkSize
  MaxMessageSize,   \* max_message_size of the channel
  MessageLens,      \* lengths of the messages that are sent
  MaxMessages,      \* bound on the messages
  MaxContext,       \* bound on the recipients
  Returning,        \* whether a recipient may be current again
  Deviating         \* whether the peer sends chunks of its own making

VARIABLES
  sent,              \* the lengths of the messages sent
  wire,              \* chunks on their way, each a Channel PDU Header and bytes
  context,           \* what message_context of the processor returns
  chunked_pdu,
  expected_length,
  received_length,
  message_context,   \* the recipient captured at the first chunk
  delivered,         \* what process_with_context was called with
  refused,           \* whether the last chunk was refused with an error
  unchanged,         \* whether the recipient is the one of the first chunk since then
  accepted,          \* bytes accepted of the sequence under way
  newest             \* the latest recipient there has been

vars == <<sent, wire, context, chunked_pdu, expected_length, received_length,
          message_context, delivered, refused, unchanged, accepted, newest>>

None == 0            \* no recipient
NoLength == MaxMessageSize + MaxChunkLen * MaxMessages + 1   \* no sequence under way

Init ==
  /\ sent = <<>> /\ wire = <<>> /\ context = 1
  /\ chunked_pdu = <<>> /\ expected_length = NoLength /\ received_length = 0
  /\ message_context = None
  /\ delivered = <<>> /\ refused = FALSE /\ unchanged = TRUE /\ accepted = 0 /\ newest = 1

-----------------------------------------------------------------------------
(* Sending *)

Chunk(first, last, length, compressed, bytes) ==
  [first |-> first, last |-> last, length |-> length, compressed |-> compressed, bytes |-> bytes]

Message(m, len) == [i \in 1 .. len |-> <<m, i>>]

\* An empty message is one empty chunk.
ChunkCount(len) == IF len = 0 THEN 1 ELSE (len + MaxChunkLen - 1) \div MaxChunkLen

\* Mutant: only a chunk that is not full is marked last.
ChunkifyNotLast(m, len) ==
  [k \in 1 .. ChunkCount(len) |->
     Chunk(k = 1, k * MaxChunkLen > len, len, FALSE,
           SubSeq(Message(m, len), (k - 1) * MaxChunkLen + 1,
                  IF k * MaxChunkLen < len THEN k * MaxChunkLen ELSE len))]

\* chunkify_one.
Chunkify(m, len) ==
  [k \in 1 .. ChunkCount(len) |->
     Chunk(k = 1, k = ChunkCount(len), len, FALSE,
           SubSeq(Message(m, len), (k - 1) * MaxChunkLen + 1,
                  IF k * MaxChunkLen < len THEN k * MaxChunkLen ELSE len))]

Send(len) ==
  /\ Len(sent) < MaxMessages
  /\ sent' = Append(sent, len)
  /\ wire' = wire \o Chunkify(Len(sent) + 1, len)
  /\ UNCHANGED <<context, chunked_pdu, expected_length, received_length,
                 message_context, delivered, refused, unchanged, accepted, newest>>

\* A chunk of a peer that does not keep to the rules of chunking.
SendDeviating(chunk) ==
  /\ Deviating /\ wire = <<>> /\ Len(sent) < MaxMessages
  /\ sent' = Append(sent, Len(chunk.bytes))
  /\ wire' = Append(wire, chunk)
  /\ UNCHANGED <<context, chunked_pdu, expected_length, received_length,
                 message_context, delivered, refused, unchanged, accepted, newest>>

-----------------------------------------------------------------------------
(* dechunkify *)

InSequence == expected_length # NoLength

TooLong(chunk) == MaxMessageSize < chunk.length \/ MaxMessageSize < Len(chunk.bytes)

Unfragmented(chunk) == ~chunk.first /\ ~chunk.last /\ ~InSequence

\* Mutant: only the kept bytes are counted.
TotalKept(chunk) == Len(chunked_pdu) + Len(chunk.bytes)

Total(chunk) == received_length + Len(chunk.bytes)

\* The chunk does not go on with the sequence under way.
Misplaced(chunk) == IF chunk.first THEN InSequence ELSE expected_length # chunk.length

Ending(chunk) == chunk.last /\ ~chunk.compressed /\ Total(chunk) # chunk.length

\* clear_sequence, with an error.
Refuses ==
  /\ refused' = TRUE
  /\ chunked_pdu' = <<>> /\ message_context' = None
  /\ expected_length' = NoLength /\ received_length' = 0
  /\ UNCHANGED delivered

\* A message of a single chunk without flags.
TakesUnfragmented(chunk) ==
  /\ refused' = (~chunk.compressed /\ Len(chunk.bytes) # chunk.length)
  /\ delivered' = IF refused' \/ context = None THEN delivered
                  ELSE Append(delivered, [context |-> context, bytes |-> chunk.bytes])
  /\ UNCHANGED <<chunked_pdu, expected_length, received_length, message_context>>

\* Mutant: the recipient is compared only at the end.
KeptForAnyone(chunk) == IF chunk.first THEN context ELSE message_context

\* The recipient the chunk is kept for: the one of the first chunk, unless
\* it is no longer the current one (discard_partial_message).
KeptFor(chunk) ==
  LET captured == IF chunk.first THEN context ELSE message_context
  IN  IF captured = context THEN captured ELSE None

\* A chunk of a sequence.
TakesFragment(chunk) ==
  LET kept == IF KeptFor(chunk) = None THEN <<>> ELSE chunked_pdu \o chunk.bytes
  IN  /\ refused' = FALSE
      /\ IF chunk.last
         THEN /\ delivered' = IF KeptFor(chunk) = None THEN delivered
                              ELSE Append(delivered, [context |-> KeptFor(chunk), bytes |-> kept])
              /\ expected_length' = NoLength /\ received_length' = 0
              /\ message_context' = None /\ chunked_pdu' = <<>>
         ELSE /\ expected_length' = chunk.length /\ received_length' = Total(chunk)
              /\ message_context' = KeptFor(chunk) /\ chunked_pdu' = kept
              /\ UNCHANGED delivered

Dechunkify ==
  /\ wire # <<>>
  /\ wire' = Tail(wire)
  /\ LET chunk == Head(wire)
     IN  /\ IF TooLong(chunk) THEN Refuses
            ELSE IF Unfragmented(chunk) THEN TakesUnfragmented(chunk)
            ELSE IF \/ Misplaced(chunk) \/ MaxMessageSize < Total(chunk)
                    \/ chunk.length < Total(chunk) \/ Ending(chunk)
            THEN Refuses
            ELSE TakesFragment(chunk)
         /\ unchanged' = (chunk.first \/ unchanged)
         /\ accepted' = IF expected_length' = NoLength THEN 0 ELSE accepted + Len(chunk.bytes)
  /\ UNCHANGED <<sent, context, newest>>

\* The processor's recipient changes, to a new one, to none, or back.
ChangeContext(c) ==
  /\ c # context
  /\ c = None \/ Returning \/ c > newest
  /\ context' = c
  /\ newest' = IF c > newest THEN c ELSE newest
  /\ unchanged' = FALSE
  /\ UNCHANGED <<sent, wire, chunked_pdu, expected_length, received_length,
                 message_context, delivered, refused, accepted>>

Next ==
  \/ \E len \in MessageLens : Send(len)
  \/ \E first, last, compressed \in BOOLEAN : \E length, n \in MessageLens :
       SendDeviating(Chunk(first, last, length, compressed, Message(Len(sent) + 1, n)))
  \/ Dechunkify
  \/ \E c \in None .. MaxContext : ChangeContext(c)

Spec == Init /\ [][Next]_vars

-----------------------------------------------------------------------------
(* Properties *)

\* What chunkify_one cut, dechunkify puts together: every message delivered
\* is one that was sent, whole, and they come in the order they were sent.
Intact ==
  \A i \in 1 .. Len(delivered) :
    LET bytes == delivered[i].bytes
    IN  \/ bytes = <<>>
        \/ /\ bytes = Message(bytes[1][1], sent[bytes[1][1]])
           /\ \A j \in 1 .. (i - 1) : delivered[j].bytes # <<>> => delivered[j].bytes[1][1] < bytes[1][1]

\* Chunks of this crate are never refused, whatever becomes of the recipient
\* in between.
OwnChunksAccepted == ~refused

\* With no change of recipient nothing is lost: when all chunks have arrived
\* every message has been delivered.
AllDelivered ==
  (wire = <<>> /\ context = 1) => Len(delivered) = Len(sent)

\* All of it, for a peer of this code base.
MessagesIntact == Intact /\ OwnChunksAccepted /\ AllDelivered

\* A message during which the recipient changed reaches none, neither the old
\* nor the new one, if recipients are told apart as message_context asks:
\* "each recipient needs a unique value".  With values that return (Returning)
\* it does not hold: dechunkify compares them only when a chunk arrives, and
\* one that has gone and come back in between is taken for unchanged.
NothingStale ==
  delivered' # delivered => (unchanged \/ Head(wire).first \/ Unfragmented(Head(wire)))

\* Every accepted byte of a sequence is counted, also those discarded, and
\* what is kept is no more than that, than was declared and than the limit,
\* for any chunks ("INVARIANT: This counts every fragment byte accepted").
Bounded ==
  /\ received_length = accepted /\ Len(chunked_pdu) <= accepted
  /\ InSequence => received_length <= expected_length /\ expected_length <= MaxMessageSize

\* Between messages nothing is left over that would join the next one, and
\* nothing is kept for a recipient that is gone ("INVARIANT: chunked_pdu is
\* empty whenever this is None").
CleanSlate ==
  /\ ~InSequence => chunked_pdu = <<>> /\ received_length = 0 /\ message_context = None
  /\ message_context = None => chunked_pdu = <<>>

\* Both, for any peer.
LimitsKept == Bounded /\ CleanSlate
=============================================================================
