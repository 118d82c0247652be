---------------------------- MODULE DvcReassembly ---------------------------
(***************************************************************************)
(* Splitting and reassembly of dynamic channel messages, and the limits on *)
(* their size: encode_dvc_messages (ironrdp-dvc/src/lib.rs), CompleteData  *)
(* (complete_data.rs), and the use DrdynvcServer::process_data             *)
(* (server.rs) makes of it.  One channel, in one direction; Drdynvc has    *)
(* the channels and the routes.                                            *)
(*                                                                         *)
(* The byte at position i of message m is the pair <<m, i>>.               *)
(***************************************************************************)
EXTENDS Naturals, Sequences

CONSTANTS
  MaxDataSize,      \* DrdynvcDataPdu::MAX_DATA_SIZE, 1590
  MaxMessageSize,   \* max_message_size of the processor
  MessageLens,      \* lengths of the messages that are sent
  MaxMessages,      \* bound on the messages
  Deviating         \* whether the peer sends PDUs of its own making and the
                    \* receiver is called again after an error

VARIABLES
  side,                  \* which side receives
  sent,                  \* the lengths of the messages sent
  wire,                  \* Data PDUs on their way
  open,                  \* whether the receiver has the channel
  failed,                \* whether the receiver refused a PDU with an error
  total_size,
  data,
  decompression_failed,
  desynchronized,        \* whether a compressed block was lost to the history
  delivered              \* what the processor's process was called with

vars == <<side, sent, wire, open, failed, total_size, data, decompression_failed,
          desynchronized, delivered>>

NoSize == 0   \* a message under way has at least one byte to come

Init ==
  /\ side \in {"client", "server"}
  /\ sent = <<>> /\ wire = <<>> /\ open = TRUE /\ failed = FALSE
  /\ total_size = NoSize /\ data = <<>>
  /\ decompression_failed = FALSE /\ desynchronized = FALSE
  /\ delivered = <<>>

-----------------------------------------------------------------------------
(* Sending *)

DataPdu(bytes) == [first |-> FALSE, length |-> 0, compressed |-> FALSE, bytes |-> bytes]
DataFirstPdu(length, bytes) == [DataPdu(bytes) EXCEPT !.first = TRUE, !.length = length]

Message(m, len) == [i \in 1 .. len |-> <<m, i>>]

NeedsSplitting(len) == MaxDataSize < len

PduCount(len) == IF len = 0 THEN 1 ELSE (len + MaxDataSize - 1) \div MaxDataSize

\* encode_dvc_messages.
Encode(m, len) ==
  [k \in 1 .. PduCount(len) |->
     LET bytes == SubSeq(Message(m, len), (k - 1) * MaxDataSize + 1,
                         IF k * MaxDataSize < len THEN k * MaxDataSize ELSE len)
     IN  IF NeedsSplitting(len) /\ k = 1 THEN DataFirstPdu(len, bytes) ELSE DataPdu(bytes)]

Send(len) ==
  /\ Len(sent) < MaxMessages
  /\ sent' = Append(sent, len)
  /\ wire' = wire \o Encode(Len(sent) + 1, len)
  /\ UNCHANGED <<side, open, failed, total_size, data, decompression_failed, desynchronized, delivered>>

\* A PDU of a peer that does not keep to the rules of splitting, or that
\* compresses.
SendDeviating(pdu) ==
  /\ Deviating /\ wire = <<>> /\ Len(sent) < MaxMessages
  /\ sent' = Append(sent, Len(pdu.bytes))
  /\ wire' = <<pdu>>
  /\ UNCHANGED <<side, open, failed, total_size, data, decompression_failed, desynchronized, delivered>>

-----------------------------------------------------------------------------
(* Receiving *)

\* The limit CompleteData was made with: the server checks it itself, so
\* that a message too long closes the channel only.
TooLong(size) == side = "client" /\ MaxMessageSize < size

NothingPending == total_size' = NoSize /\ data' = <<>>

Fails == failed' = TRUE /\ UNCHANGED <<open, delivered>>

\* close_for_message_limit.
Closes == open' = FALSE /\ NothingPending /\ UNCHANGED <<failed, delivered>>

\* The server's check of a complete message.
Completes(message) ==
  IF side = "server" /\ MaxMessageSize < Len(message) THEN Closes
  ELSE delivered' = Append(delivered, message) /\ NothingPending /\ UNCHANGED <<open, failed>>

\* process_data_first: a message under way is skipped.
ProcessDataFirst(length, bytes) ==
  IF TooLong(length) \/ length < Len(bytes) THEN Fails /\ NothingPending
  ELSE IF length = Len(bytes) THEN Completes(bytes)
  ELSE total_size' = length /\ data' = bytes /\ UNCHANGED <<open, failed, delivered>>

\* Mutant: the last fragment is taken for one more.
ProcessDataBlockLate(bytes) ==
  LET size == Len(data) + Len(bytes)
  IN  CASE total_size = NoSize /\ TooLong(Len(bytes)) -> Fails /\ UNCHANGED <<total_size, data>>
        [] total_size = NoSize /\ ~TooLong(Len(bytes)) -> Completes(bytes)
        [] total_size # NoSize /\ size <= total_size ->
             data' = data \o bytes /\ UNCHANGED <<total_size, open, failed, delivered>>
        [] total_size # NoSize /\ size > total_size -> Fails /\ NothingPending

\* process_data_block.
ProcessDataBlock(bytes) ==
  LET size == Len(data) + Len(bytes)
  IN  CASE total_size = NoSize /\ TooLong(Len(bytes)) -> Fails /\ UNCHANGED <<total_size, data>>
        [] total_size = NoSize /\ ~TooLong(Len(bytes)) -> Completes(bytes)
        [] total_size # NoSize /\ size < total_size ->
             data' = data \o bytes /\ UNCHANGED <<total_size, open, failed, delivered>>
        [] total_size # NoSize /\ size = total_size -> Completes(data \o bytes)
        [] total_size # NoSize /\ size > total_size -> Fails /\ NothingPending

\* process_data of CompleteData, with what decompress made of the bytes.
CompleteData(pdu) ==
  IF pdu.first THEN ProcessDataFirst(pdu.length, pdu.bytes) ELSE ProcessDataBlock(pdu.bytes)

\* Mutant: only what was put together is compared with the limit.
DeclaredTooLongNever(pdu) == FALSE

\* The server's check of the declared length.
DeclaredTooLong(pdu) == side = "server" /\ pdu.first /\ MaxMessageSize < pdu.length

\* Mutant: a failure does not outlive its PDU.
DecompressForgetting(pdu, ok) ==
  /\ IF ok THEN CompleteData(pdu) ELSE Fails /\ UNCHANGED <<total_size, data>>
  /\ UNCHANGED decompression_failed

\* decompress, which after a failure refuses every later compressed PDU.
Decompress(pdu, ok) ==
  IF ok /\ ~decompression_failed
  THEN CompleteData(pdu) /\ UNCHANGED decompression_failed
  ELSE Fails /\ decompression_failed' = TRUE /\ UNCHANGED <<total_size, data>>

\* DrdynvcServer::process_data, and the client's.  What comes for a channel
\* the server closed is dropped.
Process(ok) ==
  /\ wire # <<>>
  /\ ~failed \/ Deviating
  /\ wire' = Tail(wire)
  /\ LET pdu == Head(wire)
     IN  IF ~open
         THEN UNCHANGED <<open, failed, total_size, data, decompression_failed,
                          desynchronized, delivered>>
         ELSE IF DeclaredTooLong(pdu)
         THEN Closes /\ UNCHANGED <<decompression_failed, desynchronized>>
         ELSE IF pdu.compressed
         THEN Decompress(pdu, ok) /\ desynchronized' = (desynchronized \/ ~ok)
         ELSE CompleteData(pdu) /\ UNCHANGED <<decompression_failed, desynchronized>>
  /\ UNCHANGED <<side, sent>>

Pdus ==
  [first : BOOLEAN, length : MessageLens, compressed : BOOLEAN,
   bytes : {Message(Len(sent) + 1, n) : n \in MessageLens}]

Next ==
  \/ \E len \in MessageLens : Send(len)
  \/ \E pdu \in Pdus : SendDeviating(pdu)
  \/ \E ok \in BOOLEAN : Process(ok)

Spec == Init /\ [][Next]_vars

-----------------------------------------------------------------------------
(* Properties *)

WithinLimit == \A i \in 1 .. Len(sent) : sent[i] <= MaxMessageSize

\* What encode_dvc_messages split, CompleteData puts together: the messages
\* delivered are the first ones that were sent, whole and in order, and with
\* nothing on its way all of them, unless one of them is over the limit.
Reassembled ==
  /\ \A i \in 1 .. Len(delivered) : delivered[i] = Message(i, sent[i])
  /\ WithinLimit => ~failed /\ open /\ (wire = <<>> => Len(delivered) = Len(sent))

\* The server answers a message over the limit by closing that channel; the
\* session goes on ("enforces max_message_size so oversized data closes only
\* this channel").
OversizeClosesOnly == side = "server" => ~failed

\* Both, for a peer of this code base.
MessagesIntact == Reassembled /\ OversizeClosesOnly

\* No message over the limit reaches a processor, and for any PDUs what is
\* retained of one stays below what it declared, and that within the limit.
LimitsKept ==
  /\ \A i \in 1 .. Len(delivered) : Len(delivered[i]) <= MaxMessageSize
  /\ total_size # NoSize => Len(data) < total_size /\ total_size <= MaxMessageSize
  /\ total_size = NoSize => data = <<>>

\* Once a compressed block was lost, nothing compressed is delivered: "the
\* history ... no longer matches the sender's".
NothingStale ==
  desynchronized /\ wire # <<>> /\ wire' = Tail(wire) /\ Head(wire).compressed =>
    UNCHANGED <<delivered, data>> \/ ~open'
=============================================================================
