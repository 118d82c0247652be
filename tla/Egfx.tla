-------------------------------- MODULE Egfx --------------------------------
(***************************************************************************)
(* The graphics pipeline (ironrdp-egfx): a server whose display creates    *)
(* surfaces and sends frames, and a client that follows, over one dynamic  *)
(* channel that keeps order and loses nothing while it is open.  Either    *)
(* end can start over: the server by a resize, the client by a protocol    *)
(* reset, both by a new channel.                                           *)
(*                                                                         *)
(* Bitmaps, codecs and sizes are left out: a frame names its surface and   *)
(* every one submitted passes the checks on its content.  Acknowledgements *)
(* are suspended by clients of other implementations only (Suspending);    *)
(* this client acknowledges every frame.                                   *)
(***************************************************************************)
EXTENDS Integers, Sequences, SequencesExt, FiniteSetsExt

CONSTANTS
  Stored,          \* keys in the persistent cache at the start, in its order
  ConfiguredMax,   \* configured_max_in_flight, 0 for none
  ClientMax,       \* client_max_in_flight, 0 for none
  FrameSpace,      \* number of frame ids, 2^32 in the code
  FirstFrame,      \* where the ids of an earlier channel ended
  Suspending,      \* whether the client may suspend acknowledgements
  MaxCreates, MaxFrames, MaxResizes, MaxResets, MaxOpens

VARIABLES
  server,          \* GraphicsPipelineServer with its Surfaces and FrameTracker
  client,          \* GraphicsPipelineClient with its persistent cache
  downstream,      \* PDUs on their way to the client
  upstream,        \* PDUs on their way to the server
  count            \* how often each bounded event has happened

vars == <<server, client, downstream, upstream, count>>

Bounds == [creates |-> MaxCreates, frames |-> MaxFrames, resizes |-> MaxResizes,
           resets |-> MaxResets, opens |-> MaxOpens]

Counts(event) ==
  /\ count[event] < Bounds[event]
  /\ count' = [count EXCEPT ![event] = @ + 1]

-----------------------------------------------------------------------------
(* FrameTracker.  An Option is a set of at most one element. *)

NewFrames == [
  unacknowledged |-> {}, ack_suspended |-> FALSE,
  next_frame_id |-> FirstFrame, generation_first_frame_id |-> FirstFrame,
  suspension_outstanding |-> {}, suspension_first_frame_id |-> {}]

\* Whether id was issued at or after first (wrapping_sub of both sides).
IssuedSince(f, id, first) ==
  (id - first) % FrameSpace < (f.next_frame_id - first) % FrameSpace

MaxInFlight ==
  IF 0 \in {ConfiguredMax, ClientMax} THEN Max({ConfiguredMax, ClientMax})
  ELSE Min({ConfiguredMax, ClientMax})

ShouldBackpressure(f) ==
  /\ ~f.ack_suspended
  /\ MaxInFlight # 0
  /\ Cardinality(f.unacknowledged) >= MaxInFlight

\* Mutant: frames are tracked during a suspension, too.
BeginFrameAlways(f) ==
  [f EXCEPT !.next_frame_id = (@ + 1) % FrameSpace,
            !.unacknowledged = @ \cup {f.next_frame_id}]

BeginFrame(f) ==
  [f EXCEPT !.next_frame_id = (@ + 1) % FrameSpace,
            !.unacknowledged = IF f.ack_suspended THEN @ ELSE @ \cup {f.next_frame_id}]

SuspendAcknowledgements(f) ==
  [f EXCEPT !.suspension_outstanding = IF f.ack_suspended THEN @ ELSE f.unacknowledged,
            !.suspension_first_frame_id = IF f.ack_suspended THEN @ ELSE {f.next_frame_id},
            !.ack_suspended = TRUE,
            !.unacknowledged = {}]

\* An acknowledgement of a tracked frame; the frame is taken out before a suspension looks.
Acknowledge(f, id, suspending) ==
  LET g == [f EXCEPT !.unacknowledged = @ \ {id}] IN
  IF suspending THEN SuspendAcknowledgements(g) ELSE [g EXCEPT !.ack_suspended = FALSE]

\* A suspension is valid for any frame of this generation, tracked or not.
SuspendFromUntrackedAck(f, id) ==
  IF IssuedSince(f, id, f.generation_first_frame_id) THEN SuspendAcknowledgements(f) ELSE f

\* Only a frame outstanding at the suspension, or issued since, ends it.
ResumeFromUntrackedAck(f, id) ==
  IF /\ f.ack_suspended
     /\ \/ id \in f.suspension_outstanding
        \/ \E first \in f.suspension_first_frame_id : IssuedSince(f, id, first)
  THEN [f EXCEPT !.suspension_outstanding = {}, !.suspension_first_frame_id = {},
                 !.ack_suspended = FALSE]
  ELSE f

ClearPendingFrames(f) ==
  [f EXCEPT !.unacknowledged = {}, !.ack_suspended = FALSE,
            !.suspension_outstanding = {}, !.suspension_first_frame_id = {}]

Clear(f) ==
  [ClearPendingFrames(f) EXCEPT !.generation_first_frame_id = f.next_frame_id]

-----------------------------------------------------------------------------
(* The ends and the channel. *)

\* ResetChannelState: everything of one channel generation but the frame ids.
\* slots is what the handler has told the client to keep in its cache.
NewServer(state, frames) == [
  state |-> state, surfaces |-> {}, mapped |-> {}, next_surface_id |-> 0,
  frames |-> frames, reset_graphics_sent |-> FALSE, output_queue |-> <<>>,
  slots |-> {}]

\* A client whose state starts over, with what the store then holds.
\* cache lists <<slot, key>> with the most recently used first; lost records
\* a PDU that the client's state did not bear out.
RestartChannelState(state, store) == [
  state |-> state, surfaces |-> {}, mapped |-> {}, cache |-> <<>>, store |-> store,
  cache_import_attempted |-> FALSE, offered |-> {}, suspended |-> FALSE, lost |-> FALSE]

Advertise == [type |-> "Advertise"]

Init ==
  /\ server = NewServer("WaitingForCapabilities", NewFrames)
  /\ client = RestartChannelState("WaitingForConfirm", Stored)
  /\ downstream = <<>>
  /\ upstream = <<Advertise>>
  /\ count = [event \in DOMAIN Bounds |-> 0]

\* An empty cache is not saved.
SavePersistentCache(c) ==
  IF c.cache = <<>> THEN c.store ELSE [i \in DOMAIN c.cache |-> c.cache[i][2]]

Queued(s, pdus) == [s EXCEPT !.output_queue = @ \o pdus]

\* process handles one PDU and drains the output queue.
Processes(handled) ==
  /\ upstream # <<>>
  /\ upstream' = Tail(upstream)
  /\ downstream' = downstream \o handled.output_queue
  /\ server' = [handled EXCEPT !.output_queue = <<>>]
  /\ UNCHANGED <<client, count>>

Displays == UNCHANGED <<client, downstream, upstream>>

-----------------------------------------------------------------------------
(* The server's display. *)

\* A ResetGraphics goes before the first surface.
CreateSurface ==
  /\ server.state = "Ready"
  /\ Counts("creates")
  /\ LET id == server.next_surface_id
         reset == IF server.reset_graphics_sent THEN <<>> ELSE <<[type |-> "Reset"]>>
     IN  server' = Queued([server EXCEPT
           !.next_surface_id = id + 1, !.surfaces = @ \cup {id}, !.reset_graphics_sent = TRUE],
           reset \o <<[type |-> "Create", surface |-> id]>>)
  /\ Displays

Deleted(s, id) ==
  Queued([s EXCEPT !.surfaces = @ \ {id}, !.mapped = @ \ {id}],
         <<[type |-> "Delete", surface |-> id]>>)

DeleteSurface ==
  /\ \E id \in server.surfaces : server' = Deleted(server, id)
  /\ UNCHANGED count
  /\ Displays

MapSurfaceToOutput ==
  /\ \E id \in server.surfaces \ server.mapped :
       server' = Queued([server EXCEPT !.mapped = @ \cup {id}],
                        <<[type |-> "Map", surface |-> id]>>)
  /\ UNCHANGED count
  /\ Displays

\* Every surface is deleted, then the output is reset; the surfaces' order is that of a map.
Resize ==
  /\ server.state = "Ready"
  /\ Counts("resizes")
  /\ \E order \in SetToSeqs(server.surfaces) :
       LET emptied == FoldLeft(Deleted, server, order) IN
       server' = Queued([emptied EXCEPT
         !.frames = ClearPendingFrames(@), !.reset_graphics_sent = TRUE], <<[type |-> "Reset"]>>)
  /\ Displays

\* Readiness, backpressure and the surface, in the order of the checks.
SurfaceForSubmission(id) ==
  /\ server.state = "Ready"
  /\ ~ShouldBackpressure(server.frames)
  /\ id \in server.surfaces

\* StartFrame changes only what EndFrame changes back and is left out.
SendFrame ==
  /\ Counts("frames")
  /\ \E id \in server.surfaces :
       /\ SurfaceForSubmission(id)
       /\ LET frame == server.frames.next_frame_id IN
          server' = Queued([server EXCEPT !.frames = BeginFrame(@)],
                           <<[type |-> "Wire", surface |-> id], [type |-> "End", frame |-> frame]>>)
  /\ Displays

DrainOutput ==
  /\ server.output_queue # <<>>
  /\ downstream' = downstream \o server.output_queue
  /\ server' = [server EXCEPT !.output_queue = <<>>]
  /\ UNCHANGED <<client, upstream, count>>

-----------------------------------------------------------------------------
(* What the server does with what the client sends. *)

\* Mutant: the frames in flight stay tracked when the client starts over.
HandleCapabilitiesAdvertiseKeepsFrames ==
  /\ upstream # <<>> /\ Head(upstream) = Advertise
  /\ LET again == server.state = "Ready"
         s == IF again
              THEN [server EXCEPT !.surfaces = {}, !.mapped = {}, !.next_surface_id = 0,
                                  !.reset_graphics_sent = FALSE, !.slots = {}]
              ELSE server
     IN  Processes(Queued([s EXCEPT !.state = "Ready"], <<[type |-> "Confirm"]>>))

\* An Advertise in mid-session means that the client has forgotten its
\* surfaces, so they go without a PDU; what is queued goes out before Confirm.
HandleCapabilitiesAdvertise ==
  /\ upstream # <<>> /\ Head(upstream) = Advertise
  /\ LET again == server.state = "Ready"
         s == IF again
              THEN [server EXCEPT !.surfaces = {}, !.mapped = {}, !.next_surface_id = 0,
                                  !.frames = ClearPendingFrames(@),
                                  !.reset_graphics_sent = FALSE, !.slots = {}]
              ELSE server
     IN  Processes(Queued([s EXCEPT !.state = "Ready"], <<[type |-> "Confirm"]>>))

HandleFrameAcknowledge ==
  /\ upstream # <<>> /\ Head(upstream).type = "Ack"
  /\ LET ack == Head(upstream)
         f == server.frames
         tracked == ack.frame \in f.unacknowledged
         g == CASE server.state # "Ready" /\ ~ack.suspend -> f
                [] tracked -> Acknowledge(f, ack.frame, ack.suspend)
                [] ~tracked /\ ack.suspend -> SuspendFromUntrackedAck(f, ack.frame)
                [] OTHER -> ResumeFromUntrackedAck(f, ack.frame)
     IN  Processes([server EXCEPT !.frames = g])

\* The handler accepts a prefix of the offer, in slots counted from one.
HandleCacheImportOffer ==
  /\ upstream # <<>> /\ Head(upstream).type = "Offer"
  /\ \E n \in 0 .. Len(Head(upstream).keys) :
       LET keys == Head(upstream).keys IN
       Processes(Queued([server EXCEPT !.slots = {<<i, keys[i]>> : i \in 1 .. n}],
                        <<[type |-> "Reply", slots |-> [i \in 1 .. n |-> i]]>>))

-----------------------------------------------------------------------------
(* What the client does with what the server sends. *)

\* Mutant: a client that waits for the confirmation of a reset goes on with older PDUs.
ReadsAlways(type) ==
  /\ downstream # <<>> /\ Head(downstream).type = type
  /\ downstream' = Tail(downstream)
  /\ UNCHANGED <<server, count>>

\* Until a reset is confirmed nothing but the confirmation is looked at.
Reads(type) ==
  /\ downstream # <<>> /\ Head(downstream).type = type
  /\ client.state = "Resetting" => type = "Confirm"
  /\ downstream' = Tail(downstream)
  /\ UNCHANGED <<server, count>>

IgnoreWhileResetting ==
  /\ downstream # <<>> /\ Head(downstream).type # "Confirm"
  /\ client.state = "Resetting"
  /\ downstream' = Tail(downstream)
  /\ UNCHANGED <<server, client, upstream, count>>

\* The persistent cache is offered once after each capability exchange.
CacheImportOffer(c) ==
  IF c.cache_import_attempted \/ c.store = <<>> THEN <<>>
  ELSE <<[type |-> "Offer", keys |-> c.store]>>

HandleCapabilitiesConfirm ==
  /\ Reads("Confirm")
  /\ LET offer == CacheImportOffer(client) IN
     /\ upstream' = upstream \o offer
     /\ client' = [client EXCEPT
          !.state = "Active", !.cache_import_attempted = TRUE,
          !.offered = IF offer = <<>> THEN @ ELSE {client.store}]

HandleResetGraphics ==
  /\ Reads("Reset")
  /\ client' = [client EXCEPT !.surfaces = {}, !.mapped = {}]
  /\ UNCHANGED upstream

HandleCreateSurface ==
  /\ Reads("Create")
  /\ LET id == Head(downstream).surface IN
     client' = [client EXCEPT !.surfaces = @ \cup {id}, !.mapped = @ \ {id}]
  /\ UNCHANGED upstream

HandleDeleteSurface ==
  /\ Reads("Delete")
  /\ LET id == Head(downstream).surface IN
     client' = [client EXCEPT !.surfaces = @ \ {id}, !.mapped = @ \ {id},
                              !.lost = @ \/ id \notin client.surfaces]
  /\ UNCHANGED upstream

HandleMapSurface ==
  /\ Reads("Map")
  /\ LET id == Head(downstream).surface IN
     client' = [client EXCEPT !.mapped = @ \cup ({id} \cap client.surfaces),
                              !.lost = @ \/ id \notin client.surfaces]
  /\ UNCHANGED upstream

\* A bitmap for an unknown surface is an error that ends the session.
HandleWireToSurface ==
  /\ Reads("Wire")
  /\ client' = [client EXCEPT !.lost = @ \/ Head(downstream).surface \notin client.surfaces]
  /\ UNCHANGED upstream

\* This client acknowledges every frame.  One that may suspend sends no
\* acknowledgement from the one that suspends to the one that resumes.
HandleEndFrame ==
  /\ Reads("End")
  /\ LET ack(suspend) == [type |-> "Ack", frame |-> Head(downstream).frame, suspend |-> suspend] IN
     \/ /\ upstream' = Append(upstream, ack(FALSE))
        /\ client' = [client EXCEPT !.suspended = FALSE]
     \/ /\ Suspending /\ ~client.suspended
        /\ upstream' = Append(upstream, ack(TRUE))
        /\ client' = [client EXCEPT !.suspended = TRUE]
     \/ /\ client.suspended
        /\ UNCHANGED <<upstream, client>>

\* The entry becomes the most recently used one of its slot.
ImportCacheEntry(cache, entry) ==
  <<entry>> \o SelectSeq(cache, LAMBDA e : e[1] # entry[1])

\* The nth slot belongs to the nth key offered.
HandleCacheImportReply ==
  /\ Reads("Reply")
  /\ LET slots == Head(downstream).slots IN
     \/ /\ client.offered = {}
        /\ client' = [client EXCEPT !.lost = TRUE]
     \/ \E offered \in client.offered :
          LET n == Min({Len(slots), Len(offered)}) IN
          client' = [client EXCEPT
            !.offered = {},
            !.cache = FoldLeft(ImportCacheEntry, @, [i \in 1 .. n |-> <<slots[i], offered[i]>>])]
  /\ UNCHANGED upstream

\* The reset forgets everything at once and advertises the negotiated capabilities again.
RequestProtocolReset ==
  /\ client.state = "Active"
  /\ Counts("resets")
  /\ client' = [RestartChannelState("Resetting", SavePersistentCache(client))
                 EXCEPT !.lost = client.lost]
  /\ upstream' = Append(upstream, Advertise)
  /\ UNCHANGED <<server, downstream>>

-----------------------------------------------------------------------------
(* The channel.  What is under way when it closes is lost with it. *)

Close ==
  /\ server.state # "Closed"
  /\ count.opens < MaxOpens
  /\ server' = NewServer("Closed", Clear(server.frames))
  /\ client' = [RestartChannelState("Closed", SavePersistentCache(client))
                 EXCEPT !.lost = client.lost]
  /\ downstream' = <<>> /\ upstream' = <<>>
  /\ UNCHANGED count

\* A new channel has a new client with the same store.
Start ==
  /\ server.state = "Closed"
  /\ Counts("opens")
  /\ server' = [server EXCEPT !.state = "WaitingForCapabilities"]
  /\ client' = [client EXCEPT !.state = "WaitingForConfirm"]
  /\ upstream' = <<Advertise>>
  /\ UNCHANGED downstream

Next ==
  \/ CreateSurface \/ DeleteSurface \/ MapSurfaceToOutput \/ Resize \/ SendFrame \/ DrainOutput
  \/ HandleCapabilitiesAdvertise \/ HandleFrameAcknowledge \/ HandleCacheImportOffer
  \/ IgnoreWhileResetting \/ HandleCapabilitiesConfirm \/ HandleResetGraphics
  \/ HandleCreateSurface \/ HandleDeleteSurface \/ HandleMapSurface \/ HandleWireToSurface
  \/ HandleEndFrame \/ HandleCacheImportReply \/ RequestProtocolReset
  \/ Close \/ Start

Spec == Init /\ [][Next]_vars

-----------------------------------------------------------------------------
(* Properties. *)

ToCome == downstream \o server.output_queue

\* The client will reach the end of this frame with its eyes open.
Awaited(frame) ==
  \E i \in DOMAIN ToCome :
    /\ ToCome[i] = [type |-> "End", frame |-> frame]
    /\ client.state = "Resetting" => \E j \in 1 .. i - 1 : ToCome[j].type = "Confirm"

\* A frame that holds a place in the server's window is one whose place will
\* be given back: the client will get to its end and acknowledge it, or
\* something is under way that answers it (its acknowledgement, a suspension,
\* a reset).  No frame is tracked of which "nothing would take this frame back
\* out" because the client is suspended (begin_frame).
FramesAnswered ==
  \A frame \in server.frames.unacknowledged :
    \/ Awaited(frame) /\ ~client.suspended
    \/ \E i \in DOMAIN upstream :
         \/ upstream[i] = Advertise
         \/ upstream[i].type = "Ack" /\ (upstream[i].frame = frame \/ upstream[i].suspend)

\* The client can follow the server through resizes and resets: no PDU names
\* a surface it does not have (handle_wire_to_surface1 fails the session for
\* one), each cache slot holds the bitmap that the server put there, and once
\* it has read everything it has the server's surfaces.
ClientFollows ==
  /\ ~client.lost
  /\ ToSet(client.cache) \subseteq server.slots
  /\ ToCome = <<>> /\ client.state = "Active" /\ ~Contains(upstream, Advertise) =>
       client.surfaces = server.surfaces /\ client.mapped = server.mapped
=============================================================================
