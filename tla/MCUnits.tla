------------------------------- MODULE MCUnits ------------------------------
(***************************************************************************)
(* Small instances of the components that stand on their own: chunking of  *)
(* static channels, splitting of dynamic channel messages, each with a     *)
(* peer of this code base and with a deviating one, the set of static      *)
(* channels, the sequence numbers of RDPEUDP, the clipboard and the         *)
(* graphics pipeline.  Init chooses the instance (mode) and the variables  *)
(* of the others keep their initial values.                                *)
(***************************************************************************)
EXTENDS Naturals, Sequences

VARIABLES
  mode,
  sent, wire, delivered,
  context, chunked_pdu, expected_length, received_length, message_context,
  refused, unchanged, accepted, newest,
  side, open, failed, total_size, data, decompression_failed, desynchronized,
  channels, to_channel_id, to_channel_key, next_dynamic_key, made, handed,
  full, reference,
  ends, pdus, tally,
  server, client, downstream, upstream, count

\* Messages around the chunk length of two, with two recipients.
Svc == INSTANCE SvcChunks WITH
  MaxChunkLen <- 2, MaxMessageSize <- 4, MessageLens <- 0 .. 4, MaxMessages <- 3,
  MaxContext <- 2, Returning <- FALSE, Deviating <- FALSE

\* Chunks around the limit of two.
SvcAny == INSTANCE SvcChunks WITH
  MaxChunkLen <- 2, MaxMessageSize <- 2, MessageLens <- 0 .. 3, MaxMessages <- 3,
  MaxContext <- 1, Returning <- FALSE, Deviating <- TRUE

\* Messages around the PDU size of two and the limit of four.
Dvc == INSTANCE DvcReassembly WITH
  MaxDataSize <- 2, MaxMessageSize <- 4, MessageLens <- 0 .. 5, MaxMessages <- 4,
  Deviating <- FALSE

\* PDUs around the limit of two.
DvcAny == INSTANCE DvcReassembly WITH
  MaxDataSize <- 2, MaxMessageSize <- 2, MessageLens <- 0 .. 3, MaxMessages <- 3,
  Deviating <- TRUE

Set == INSTANCE StaticChannelSet WITH
  Types <- {"cliprdr", "rdpsnd"}, Ids <- {1004, 1005}, MaxStatic <- 3, MaxKey <- 3,
  MaxProcessors <- 5

\* Numbers that cross a wrap of eight five times.
Numbers == INSTANCE RdpeudpSeqPair WITH Modulus <- 8, MaxNumber <- 40

\* Three copies by either user, a paste and two requests for files by the client's; the server may
\* reject lists.
Clip == INSTANCE Cliprdr WITH
  Flags <- [e \in {"Client", "Server"} |-> {"FILES", "LOCK"}],
  Copiers <- {"Client", "Server"}, Pasters <- {"Client"}, Rejecting <- {"Server"},
  Formats <- {"files", "text"}, MaxCopies <- 3, MaxPastes <- 1, MaxRequests <- 2, IdSpace <- 3,
  MAX_OUTGOING_LOCKS <- 2, MAX_LOCKED_FILE_LISTS <- 1,
  MAX_PENDING_FORMAT_DATA_REQUESTS <- 1, MAX_PENDING_FILE_REQUESTS <- 1

\* Frames up to a window of two, whose ids wrap around, to a client that may suspend its
\* acknowledgements.
Gfx == INSTANCE Egfx WITH
  Stored <- <<>>, ConfiguredMax <- 3, ClientMax <- 2, FrameSpace <- 8, FirstFrame <- 6,
  Suspending <- TRUE, MaxCreates <- 1, MaxFrames <- 4, MaxResizes <- 0, MaxResets <- 0,
  MaxOpens <- 0

\* The same from a server that may resize, to a client that acknowledges every frame.
GfxResize == INSTANCE Egfx WITH
  Stored <- <<>>, ConfiguredMax <- 3, ClientMax <- 2, FrameSpace <- 8, FirstFrame <- 6,
  Suspending <- FALSE, MaxCreates <- 2, MaxFrames <- 3, MaxResizes <- 1, MaxResets <- 0,
  MaxOpens <- 0

\* A window of one, with a client that may start over.
GfxReset == INSTANCE Egfx WITH
  Stored <- <<>>, ConfiguredMax <- 1, ClientMax <- 0, FrameSpace <- 8, FirstFrame <- 6,
  Suspending <- TRUE, MaxCreates <- 2, MaxFrames <- 2, MaxResizes <- 0, MaxResets <- 1,
  MaxOpens <- 0

\* A cache of two bitmaps over two resets and a second channel.
GfxCache == INSTANCE Egfx WITH
  Stored <- <<"a", "b">>, ConfiguredMax <- 0, ClientMax <- 1, FrameSpace <- 8, FirstFrame <- 6,
  Suspending <- FALSE, MaxCreates <- 1, MaxFrames <- 1, MaxResizes <- 0, MaxResets <- 2,
  MaxOpens <- 1

streamVars == <<sent, wire, delivered>>
svcVars == <<context, chunked_pdu, expected_length, received_length, message_context,
             refused, unchanged, accepted, newest>>
dvcVars == <<side, open, failed, total_size, data, decompression_failed, desynchronized>>
setVars == <<channels, to_channel_id, to_channel_key, next_dynamic_key, made, handed>>
seqVars == <<full, reference>>
clipVars == <<ends, pdus, tally>>
gfxVars == <<server, client, downstream, upstream, count>>
vars == <<mode, streamVars, svcVars, dvcVars, setVars, seqVars, clipVars, gfxVars>>

Init ==
  /\ mode \in {"svc", "svc_any", "dvc", "dvc_any", "set", "seq", "clip",
               "gfx", "gfx_resize", "gfx_reset", "gfx_cache"}
  /\ IF mode = "svc" THEN Svc!Init ELSE SvcAny!Init
  /\ Dvc!Init /\ (side = "client" \/ mode \in {"dvc", "dvc_any"})
  /\ Set!Init /\ Numbers!Init /\ Clip!Init
  /\ IF mode = "gfx_cache" THEN GfxCache!Init ELSE Gfx!Init

Next ==
  /\ UNCHANGED mode
  /\ \/ mode = "svc" /\ Svc!Next /\ UNCHANGED <<dvcVars, setVars, seqVars, clipVars, gfxVars>>
     \/ mode = "svc_any" /\ SvcAny!Next /\ UNCHANGED <<dvcVars, setVars, seqVars, clipVars, gfxVars>>
     \/ mode = "dvc" /\ Dvc!Next /\ UNCHANGED <<svcVars, setVars, seqVars, clipVars, gfxVars>>
     \/ mode = "dvc_any" /\ DvcAny!Next /\ UNCHANGED <<svcVars, setVars, seqVars, clipVars, gfxVars>>
     \/ mode = "set" /\ Set!Next /\ UNCHANGED <<streamVars, svcVars, dvcVars, seqVars, clipVars, gfxVars>>
     \/ mode = "seq" /\ Numbers!Next /\ UNCHANGED <<streamVars, svcVars, dvcVars, setVars, clipVars, gfxVars>>
     \/ /\ mode = "clip" /\ Clip!Next
        /\ UNCHANGED <<streamVars, svcVars, dvcVars, setVars, seqVars, gfxVars>>
     \/ /\ \/ mode = "gfx" /\ Gfx!Next
           \/ mode = "gfx_resize" /\ GfxResize!Next
           \/ mode = "gfx_reset" /\ GfxReset!Next
           \/ mode = "gfx_cache" /\ GfxCache!Next
        /\ UNCHANGED <<streamVars, svcVars, dvcVars, setVars, seqVars, clipVars>>

Spec == Init /\ [][Next]_vars

-----------------------------------------------------------------------------
(* The properties of the components, each for its instance. *)

\* What chunkify_one or encode_dvc_messages cut is put together whole and in
\* order, none of it is refused, and all of it is delivered while the
\* recipient stays; a message over the limit closes only its channel.
MessagesIntact ==
  /\ mode = "svc" => Svc!MessagesIntact
  /\ mode = "dvc" => Dvc!MessagesIntact

\* Whatever a peer sends, dechunkify and CompleteData keep no more of a
\* message than was declared and than the limit, and leave nothing of one
\* message to the next.
LimitsKept ==
  /\ mode = "svc_any" => SvcAny!LimitsKept
  /\ mode = "dvc_any" => DvcAny!LimitsKept

\* A message during which the recipient changed reaches none, each recipient
\* having a value of its own (message_context, dechunkify), and nothing is
\* decompressed with a history that has lost a block (decompress).
NothingStale ==
  [][/\ mode \in {"svc", "svc_any"} => Svc!NothingStale
     /\ mode \in {"dvc", "dvc_any"} => DvcAny!NothingStale]_vars

\* The maps between ids and keys are inverse, and a key made by
\* insert_dynamic never comes to stand for another processor.
ChannelSetConsistent == Set!ChannelSetConsistent

\* reconstruct_seq returns the closest number whose low bits match, so that
\* a number survives the trip through its wire form.
ClosestMatch == Numbers!PairMatches

\* An end keeps a locked list no longer than its peer keeps the lock, and each
\* end's own tables of locks agree (send_lock, release_outgoing_locks,
\* drive_timeouts, LockData, UnlockData).
LocksBalanced == Clip!LocksBalanced

\* Each request for file contents is answered to the backend exactly once,
\* also when an answer comes after the timeout (request_file_contents).
AnsweredOnce == Clip!AnsweredOnce

\* A frame the server counts as in flight will be answered, by its
\* acknowledgement, a suspension or a reset (begin_frame, acknowledge), from a
\* server that does not resize under a suspension.
FramesAnswered == Gfx!FramesAnswered

\* The client has what the server's PDUs name, and in the end what the server
\* has, whoever starts over (resize, request_protocol_reset, close).
ClientFollows == GfxCache!ClientFollows
=============================================================================
