# A TLA+ model of IronRDP

IronRDP is a collection of Rust crates that implement the Remote Desktop
Protocol. This directory holds TLA+ specifications of its stateful parts, TLC
configurations that check them on small instances, and TLAPS proofs of the most
important properties for instances of any size. Every definition is a
translation of code under `src/`; `PROJECT.json` maps each one to the lines it
stands for.

## The system and its parts

IronRDP is written sans-I/O: almost every protocol is a state machine that is
fed bytes and the current time and asked for bytes, events and the next
deadline. A session starts with the connection sequence, in which `ironrdp-connector`
and `ironrdp-acceptor` step through the same phases over TCP. What follows
travels on static channels (`ironrdp-svc`), one of which carries the dynamic
channels (`ironrdp-dvc`); the latter can move to a reliable UDP tunnel
(`ironrdp-rdpeudp`). Clipboard and graphics are exchanges on such channels.

| Part | What makes it hard | Here |
|---|---|---|
| `ironrdp-rdpeudp`: `seq.rs` | wrap-around, the first numbers | `RdpeudpSeq`, `RdpeudpSeqPair` |
| `ironrdp-rdpeudp`: `send_window.rs`, `loss.rs`, `reliability.rs`, `congestion.rs` | losses found out of order, slots held by resolved packets | `RdpeudpSendWindow` |
| `ironrdp-rdpeudp`: `recv_window.rs` | bounded buffers, ACK vectors | `RdpeudpRecvWindow` |
| `ironrdp-rdpeudp`: `connection.rs`, version 3 data transfer | loss, duplication, reordering, early timers, stale acknowledgements | `RdpeudpV2`, `RdpeudpStream`, `RdpeudpV2Stream` |
| `ironrdp-rdpeudp`: `connection.rs`, versions 1 and 2 | retransmission under the same number, vectors that walk down | `RdpeudpV1` |
| `ironrdp-rdpeudp`: `connection.rs`, `timer.rs`, handshake and lifecycle | the unacknowledged final ACK, repeated SYNs, close racing timers | `RdpeudpHandshake` |
| `ironrdp-connector`, `ironrdp-acceptor` | optional steps, late answers, reactivation under traffic | `ConnectionWire`, `ClientConnector`, `Acceptor`, `Connection` |
| `ironrdp-svc` | chunks for changing recipients, two maps that must stay inverse | `SvcChunks`, `StaticChannelSet` |
| `ironrdp-dvc`, with the routing of `ironrdp-server` and `ironrdp-client` | creations and closes that cross, two unordered routes | `DrdynvcWire`, `DrdynvcClient`, `DrdynvcServer`, `Drdynvc`, `DvcReassembly` |
| `ironrdp-cliprdr` | requests without ids, locks, timeouts and late answers | `Cliprdr` |
| `ironrdp-egfx` | acknowledgements that cross resizes and resets | `Egfx` |
| everything else | codecs, PDUs, applications, native backends, tests | left out, see the end |

`MC...` modules hold instances for TLC. Definitions marked "Mutant" are
deliberate mistakes, at least one for each property; a property is kept only if
the mistake makes TLC report it.

## The UDP transport

A driver owns one `RdpeudpConnection` per side. It calls `send`,
`handle_datagram`, `handle_timeout`, `poll_transmit`, `poll_event` and `close`;
the connection never blocks and never calls back. A connection starts in the
MS-RDPEUDP handshake (`connect` or `accept`), agrees on a version, and then
transfers data in one of two wire formats, MS-RDPEUDP2 for version 3 and
MS-RDPEUDP for versions 1 and 2.

* `RdpeudpSeq`: `Truncate`, `Reconstruct` (`reconstruct_seq`,
  `reconstruct_timestamp`) and `ReconstructNearest` (`reconstruct_seq32`), with
  the width as the constant `Modulus`; `RdpeudpSeqPair` compares them with their
  meaning.
* `RdpeudpSendWindow`: the send window is a function from DataSeqNum to entry.
  `Push`, `MarkReceived`, `MarkLost` and `AdvanceWindow` are the methods of
  `SendWindow`; `DetectLost` is `LossDetector::detect`; `Enqueue`, `QueueFront`
  and `Dequeue` the `ReliabilityController`; `OnAck` and `OnLoss` the
  `CongestionControl`. A payload counts as one unit (one MTU). The
  retransmit queue is keyed by the DataSeqNum that was lost: losses are declared
  in ascending order and from the front of the window only, so ascending keys
  are the queue's FIFO order.
* `RdpeudpRecvWindow`: the receive window is a record with the fields of the
  struct. The vector of slots ends with a received one, so the set `received`
  determines it. `Described` and `AckVectorOffsets` are the ACK vector with its
  run-length entries and its cut-off.
* `RdpeudpV2`: two established connections. One action per call of the driver:
  `Send`, the three outcomes of `poll_transmit` in their order of priority
  (`Retransmit`, `SendNewData`, `SendAck`), `HandleDatagram`, `HandleTimeout` for
  any set of expired timers, `Close`. Sequence numbers go through `OnWire`,
  truncation followed by reconstruction against the receiver's reference, at
  each of the places where the code does so. The network is a set of datagrams;
  `Lose` removes one, and a delivery may leave the datagram in place.
* `RdpeudpStream`: what a connection promises, two ordered streams of chunks;
  `RdpeudpV2Stream` states that `RdpeudpV2` implements it.
* `RdpeudpV1`: the other wire format, on the connection, windows, timers and calls
  of `RdpeudpV2`. There is one Source sequence space, every datagram
  acknowledges with a vector that walks down from the highest number seen, and
  every `AckOfAcksInterval`-th carries an AckOfAcks.
* `RdpeudpHandshake`: the handshake and the lifecycle of both sides:
  `Accept`, `HandleSynAck`, `HandleFinalAck`, `HandleRepeated` (the two places
  that answer a repetition), `HandleOther`, `Discard`, `HandleTimeout`,
  `PollHandshake`, `Close`. Data transfer is reduced to datagrams an established
  side may send. `copies` and `sampled` are history variables for the RTT
  sample. `Acknowledges` rests on the wire formats: the flags of a version 1
  header sit where an MS-RDPEUDP2 packet has its prefix byte, whose low five bits
  are zero in a data packet, so such a packet never shows the SYN or ACK flag; and
  every version 1 datagram this crate builds carries ACK. The variable `calm`
  chooses between any network and one with few losses and deadlines above the
  round trip; `BothEstablish` is about the latter.

Abstractions:

* Time. There are no clocks: an armed timer may expire at any moment, and at any
  acknowledgement any prefix of the pending packets may be older than the time
  threshold. In `RdpeudpV2` and `RdpeudpV1` an expiry is free when the connection
  is `Quiet` (nothing in flight, nothing to acknowledge) and counts as an "Early"
  fault otherwise; in `RdpeudpHandshake` it is always possible.
* Payloads are numbered chunks of one MTU; `send` splits a call into chunks and
  takes all or none.
* RTT estimates only influence deadlines and are left out of the data transfer.
* `Fresh` assumes that no datagram is delayed until half the range of a wire
  number has been used since. The code assumes the same, as any truncated number
  does.
* Encoding failures of well-formed packets, dummy packets and Congestion
  Notifications (never originated by this crate) and the delay-ack payload's
  contents are not modelled.
* Packets that reach a server still in SynReceived are lost to `RdpeudpV2`; they
  are covered by `Lose`.

## The connection sequence

`ClientConnector` has one action per state of `ClientConnector` and of the
sequences it contains, as `connect_begin` and
`connect_finalize_with_multitransport` drive them; `Acceptor` does the same for
the server, with the refusals and what they send. `ConnectionWire` holds
the configurations of the ends (protocols, multitransport flags, optional
blocks, the outcome of the server's application) and the TCP connection between
them. `Connection` joins them, and goes on into the session: the client sends
channel data, input and Share Data PDUs (`Traffic` chooses which) while the server
resizes the desktop, which deactivates the session and runs the acceptor again with
the input that crossed.
A peer of another make may lack blocks, not skip the channel joins, or be `eager`:
send as soon as its Confirm Active is out. CredSSP is one round trip and the
delegation of credentials.

## Channels

`SvcChunks` is the `ChunkProcessor`: chunks are cut by `chunkify_one`, put together
for the recipient that was current at the first of them, discarded when it
changes. `StaticChannelSet` is the set of channels with its two maps between keys
and MCS ids. `DvcReassembly` is `encode_dvc_messages`, `CompleteData` and the
size limits of both ends. In these modules byte `i` of message `m` is the pair
`<<m, i>>`, so a reassembled message shows where its bytes come from, and
`Deviating` adds a peer that cuts messages in ways this code never does.

`DrdynvcClient` and `DrdynvcServer` are the two ends of the dynamic channels:
listeners and factories, creation, closing, data, capabilities and Soft-Sync, with
the way the client's session loop and the server's client loop route messages
between the static channel and the tunnel and hold early tunnel payloads back.
`DrdynvcWire` has the two routes, each in order, neither ordered against the
other.

## Clipboard

`Cliprdr` models both ends, each with its backend: initialization, copies and
format lists, pastes (format data requests, which carry no id and are paired by
order), file lists, locks in both directions, requests for file contents, and
`drive_timeouts`. Whatever has a timeout may run into it at any time. A list
of files is the number of the copy it belongs to.

## Graphics pipeline

`Egfx` models `GraphicsPipelineServer` with its `FrameTracker` and surfaces, and
`GraphicsPipelineClient` with its persistent bitmap cache, over one dynamic
channel. The server creates, maps and deletes surfaces, sends frames and resizes;
the client acknowledges, asks for a protocol reset, offers its cache; the channel
closes and opens. This client acknowledges every frame; the server also supports
clients that suspend their acknowledgements (`Suspending`). Frame ids wrap at
`FrameSpace`. The server's handler, which decides what it accepts of a cache
offer, accepts any prefix. `lost` is a history variable.

## Runs

| Run | Question | Instance |
|---|---|---|
| `v2_safety` | Do the inductive invariant of the proofs, truthful acknowledgements, both windows and the refinement of two streams survive loss, duplication, early timers and a peer with the smaller window? | windows 3 and 2; 2 chunks with one loss, one duplicate and one early expiry, or 3 chunks one way and 1 the other with one loss (`Bounded`) |
| `v2_liveness` | Is everything delivered and resolved? | 2 chunks, 1 loss |
| `v1_safety` | The same safety for versions 1 and 2 | 2 chunks, vectors of 2 elements, one loss, one early expiry, at most 4 data packets |
| `handshake` | What do the sides agree on, what may a closed side do, do few losses always lead to a connection, and does every handshake and every half-open connection end? | limit 1, all versions, any losses, duplicates, expiries and closes; at most one loss when calm |
| `handshake_karn` | Is the RTT sample ever taken from a repeated datagram? | violated, see Findings |
| `connection` | Do the ends of an attempt agree, fail only for a reason, keep channel data through reactivations, and always settle? | every security negotiation, every multitransport offer, peers that lack blocks; 2 channels, 2 resizes, 2 PDUs of channel data or input |
| `connection_crossing` | Does a Share Data PDU that crosses a resize fail the reactivation? | violated, see Findings |
| `dvc_channels` | Do both ends keep the same view of the channels and their order while channels are created, closed and moved to the tunnel? | 2 channels, a once-registered and a factory name and one without listener, 2 messages |
| `dvc_serverclose` | Does a Close of the server travel where the data does? | violated, see Findings |
| `units` | The components that stand on their own: chunking, reassembly, channel set, sequence numbers, clipboard, graphics | eleven instances, listed in `MCUnits` |
| `gfx_resize` | Is a frame tracked only if an acknowledgement is under way, also after a resize? | violated, see Findings |
| `clipboard_pairing` | Are responses paired with the requests they answer? | violated, see Findings |

`Init` of `MCUnits` chooses one of the instances, and the variables of the others
stay as they are, so the run explores each by itself.

Bounds. `NearWrap` starts the numbers at 14 with a range of 16, so every run
crosses the wrap-around. `AckVectorMaxEntries = 3` and `AckVectorMaxRun = 2` make
ACK vectors split runs and be cut off. A receive window of two with two
chunks is the smallest in which a packet can be received above a hole, and a third
chunk can overrun it. One fault of each kind
gives the pairs that matter (a lost packet whose retransmission meets a
late original); the proofs cover any number. In the handshake `MaxOutbox` bounds
only the copies queued because the peer repeats itself; with a limit of one a side
retransmits once, exhausts its attempts, and answers a repetition. In the connection two
resizes let a second reactivation meet what the first kept back. Two dynamic
channels let an id be used while another closes, and `MaxEarly` and
`MaxClientClosed` are large enough here that nothing is dropped at the limit of 64
(see below). Messages of the channel layers range over zero, one chunk, one more
and the limit. The clipboard has room for fewer locked lists (1) and requests (1)
than the users ask for, so that evictions and refusals happen, and lock ids
wrap after 3. Graphics has windows of one and two frames, ids that wrap, and, apart
from each other, resets and a second channel, a client that suspends its
acknowledgements, and a resize; `gfx_resize` has the last two together.

Deadlock is not checked: in every model both ends may have nothing left to do,
because they have closed or the bounds are used up.

Fairness. `RdpeudpV2!Fairness` asks that the driver polls, hands over what
arrives, and that the retransmit timer fires if it is armed again and again; the
last is strong fairness because the connection is briefly not `Quiet` whenever a
keep-alive is under way, while the deadline in the code is not moved by that.
`RdpeudpHandshake!FairSpec` asks that a calm run goes on while anything is left to
do, and of any other that the driver polls, that the retransmit
deadline is reached, that a side's datagrams do not stay in the network for ever,
and that the idle deadline is reached once the peer is closed and nothing of it
is in flight. `Connection!Spec` and `Drdynvc!Fairness` ask only that each end goes on
reading and stepping, which is what the drivers' loops do; nothing is asked of
users, resizes or creations.

## Findings

`handshake_karn`: the comment on `sample_handshake_rtt` is not what the code does
on a server. A SYN+ACK repeated because the client repeated its SYN is not counted
in `handshake_retransmits` (it is a response, says `resend_handshake_datagram`),
so the sample is taken although two copies were sent. The client's sample is never
ambiguous (`ClientSampleUnambiguous`).

`dvc_serverclose`: `write_drdynvc_output` sends only Data on the tunnel, so the
Close of a moved channel goes over TCP and can overtake the data, which the client
then refuses with an error that ends the session. `dvc_channels` therefore has
neither end close a channel that has moved (`TunneledCloses`).

`clipboard_pairing`: a request for the file list is answered on the spot while
one before it may still be with the backend, so responses can leave in another
order than the requests came; the requester pairs them by order.

`connection_crossing`: a Share Data PDU in flight when the server resizes makes the
reactivating acceptor fail with "expected client confirm active", while channel data
is kept and fast-path input skipped. `ironrdp-acceptor/CHANGELOG.md`, line 175, says
"Drop unexpected PDUs during deactivation-reactivation". `connection` has the other
kinds of traffic, where `OnlyJustifiedFailures` holds.

`gfx_resize`: a resize clears `ack_suspended` although the client keeps its
acknowledgements suspended. The frames sent afterwards are tracked, nothing takes
them out, and backpressure can stay on; the comment in `begin_frame` gives this as the
reason not to track them. `FramesAnswered` holds in `units`, where a client suspends
or the server resizes, not both.

Other observations, met while modelling and stated here without a run:

* A client's Close on the tunnel is refused by the server, which takes only Data
  there; it is the other half of the reason for `TunneledCloses`.
* Version 1 computes its AckOfAcks from the pending entries alone, so it passes a
  lost packet that waits in the retransmit queue. A receiver then releases slots
  it may never have filled, and a packet sent again after its slots were released
  is never acknowledged. A vector cut at its maximum leaves out slots that
  `commit_acknowledgement` releases all the same. `InOrderDelivery` and
  `V1NoChunkForgotten` hold in spite of it (the sender still has the chunk and
  nothing behind it is delivered), but delivery is not certain, which is why
  `v1_safety` has no liveness property.
* Tunnel payloads beyond `MAX_EARLY_TUNNEL_PAYLOADS` that arrive before the
  Soft-Sync response are dropped, and a 65th remembered close displaces the
  first. Both need more channels or data than the instances have.
* A lookup by type in a factory's channels finds the latest one; when it is closed
  the earlier ones, still open, are not found.
* A static channel recipient that goes and comes back between two chunks of a
  message still gets the message, since the contexts are compared only when a chunk
  arrives, while the comment on `message_context` says "even if the original value
  returns". `NothingStale` is claimed only of recipients with unique values, which the
  same comment asks for (`Returning = FALSE`).
* A file list that arrives after the clipboard has changed twice is kept under the
  lock of the new clipboard, contrary to the comment on
  `locked_remote_file_lists`.
* A surface id wraps after 65536 creations in one capability exchange and could
  meet one in use; only a debug assertion looks at it.

## Proofs

`RdpeudpWindowProofs!ReconstructTruncate` proves that reconstruction inverts
truncation for every even range and any two numbers less than half of it apart,
and `NearestTruncate` the same of the three-candidate search of version 1.
`ReconstructClosest` is what `ClosestMatch` checks, for all numbers: the single
comparison of `reconstruct_seq` returns a closest number with the right low bits,
and the two reconstructions differ only in how they break a tie. Its argument is
that only the three candidates around the reference can be closest
(`NearestOption`).

`RdpeudpV2Proofs` proves, for all window sizes, numbers of chunks and numbers of
faults, `Invariance` and from it `TypeCorrect`, `InOrder`, `NothingForgotten`,
`WindowStaysContiguous`, `AckOfAcksStaysBehind`, `HolesStayAdvertised` and
`AcksStayTruthful`. The invariant is `IndInv`, type correctness and `StreamInv(p)`
for both directions. It is inductive (`InitialState`, `InductiveStep`, with one
lemma per action), and TLC checks it in `v2_safety`. None of the
properties is inductive alone. That a chunk is not forgotten needs that an
acknowledgement in flight only claims what the peer holds (`AcksInFlight`), which
needs that the peer's window has not been moved past a packet it lacks
(`BehindWindow`), which needs that the lowest unresolved number bounds every
AckOfAcks, which holds because the send window is contiguous (`WindowBounded`),
which holds because losses are declared from the front. `Agreement` ties the
sender's view to the receiver's, and `SenderNumbering`, `ReceiverNumbering` and
`DataInFlight` say that chunk `c` travels as ChannelSeqNum `c` everywhere. What
acknowledging, sending and receiving do to one stream is in `RdpeudpV2StreamLemmas`.
Its lemmas carry the facts they need about finite sets of naturals as a hypothesis,
`Foundations`, which `RdpeudpV2Proofs` and `RdpeudpV1Proofs` discharge from
the library (`FoundationsHold`).

Three more results rest on `Invariance`:

* `ReceiverStaysBounded`: the receive window never exceeds its size, in slots or
  in chunks held for reordering. Inductive together with `IndInv`
  (`WindowsBounded`): occupied slots lie in an interval of that length
  (`ReceivedWithin`), and a chunk is taken into a full buffer only if draining
  removes it again (`ProcessDataWithin`).
* `WorkStaysTimed`: what is outstanding has the retransmit timer armed, and a
  closed connection has no timer (`ServedStep`, action by action).
* `RefinesStream`: the data transfer implements `RdpeudpStream`. `send` is an
  `Accept`, `handle_datagram` a `Deliver` of as many chunks as it drains or a
  stutter, `close` and the idle timer a `Close`, everything else a stutter
  (`StreamStep`). That what `handle_datagram` appends are the next chunks of the
  stream follows from `InOrderDelivery` before and after the step, and from the
  lengths, which never shrink (`HandleDatagramStep`, `CountingSequence`).

`RdpeudpV1Proofs` proves for version 1, for all window sizes, ranges, vector
sizes, AckOfAcks intervals and numbers of chunks and faults, `V1InOrder`,
`V1NothingForgotten`, `V1AcksTrue` and, step by step as for version 3,
`V1RefinesStream`. `IndInv` is of no use here: an acknowledgement names Source
numbers while the window is keyed by DataSeqNums that never reach the wire, so
nothing ties the window to the slots of the peer. The inductive invariant `V1Inv`
(`RdpeudpV1Lemmas`) says of each stream that the numbers given out stand for the
chunks in order, in the window, in the queue and on the wire (`Sending`,
`DataTrue`), that every numbered chunk is at the peer or waits in one place
(`Kept`), that the peer's slots are occupied only by chunks it holds
(`Receiving`), and that a vector in flight reports only those (`VectorTrue`). Two
facts carry the induction. A chunk once held stays held (`Holds`), so a vector
stays true however late it comes and however the window has moved since. And an
entry leaves the window only for the queue or because a vector reported its
number (`AckedHeld`), so what is dropped is at the peer. An AckOfAcks that skips
packets waiting in the queue leaves all of this true, since it moves the slots
and never the chunks; that delivery is then not certain (Findings) is no
violation of safety. TLC checks the refinement on
version 3 only; of version 1 it checks its state part, `InOrderDelivery`.

`RdpeudpHandshakeProofs` proves, for every retransmission limit, MTU, set of
offered versions, queue length and number of losses and repetitions,
`ClientIsFirst`, `AgreementHolds`, `WaitingStaysTimed`, `SampleStaysUnambiguous`
and the action property `ClosedConnectionsStay`. The inductive invariant `Inv`
adds to the types where every datagram comes from, whether it is in the network,
queued or kept for retransmission (`Justified`): a final ACK or client data exist
only once the client has connected, a SYN+ACK only with the version and MTU the
server settled on. Without it nothing relates what a side is told to what the
other side has decided. `Counted` relates the copies of the SYN on the wire to
`handshake_retransmits`, which is what `sample_handshake_rtt` looks at.

`UnitProofs` has the components that stand on their own, each an `INSTANCE` with its
own constants and variables.

* Reassembly of dynamic channel messages. `DvcLimitsKept` and `DvcNothingStale` hold
  for any peer, deviating ones included (`DvcInv`: a block the history has lost has
  been noticed). `DvcMessagesIntact` is about a peer of this code base: the inductive
  `DvcStream` says which message and which of its PDUs is expected next, that what is
  on the wire is the rest of that message followed by whole ones, and that `data` is
  the beginning of the message up to there. The number of PDUs of a message is a
  quotient rounded up, and `RoundedUp` says where its multiples fall.
* Chunks of static channel messages, by the same argument: `SvcLimitsKept` for any
  peer and any recipients, `SvcMessagesIntact` for messages within the limit.
  `SvcNothingStale` needs `SvcFresh`: once the recipient has changed, the context
  noted at the first chunk is not the current one, which is true as long as contexts
  only grow.
* `SetConsistent`: the two maps of `StaticChannelSet` stay inverse, and a key made at
  run time never comes to stand for a second processor. The latter needs that every
  key handed out is below `next_dynamic_key` (`SetHandedBelow`), which `clear` keeps by
  not resetting the counter.
* `ClipAnsweredOnce`: the requests still open are among those asked, and have had no
  answer, and all others have had one (`ClipInv`).

`DrdynvcProofs` proves `DynViewsAgree` and `DynOnceKept`, for any number of channels,
names and messages under way. That both ends have the same channels open when nothing
is under way is not inductive. `View` says of each id what may be under way given the
states of both ends: a creation request excludes an answer and an open channel; a
client's channel the server has not opened has its acceptance under way; one that
only one end has open has a Close under way, behind the creation or the acceptance if
that is still on its way. `OnceKept` says that a once-registered processor is parked or
serves one channel.

Assumptions: `ModulusAssumption` (the range is even), `SendWindowAssumption`,
`RecvWindowAssumption`, `V2Assumption` and `V1Assumption` (the constants are
naturals, sizes are positive), `HandshakeAssumption`, `WireAssumption` and
`RegisteredAssumption` (a name is registered in one way), and the freshness of
datagrams that `HandleDatagram` and `V1HandleDatagram` have as a guard. The theorems
of `UnitProofs` and `DrdynvcProofs` state theirs: sizes are numbers and a PDU has room for data
(`DvcSizes`, `SvcSizes`), messages fit (`SvcFits`), the peer cuts messages as this
code does (`Deviating = FALSE`), recipients do not return (`Returning = FALSE`), and
the client closes no channel over the tunnel (`DynViewsAgree`).

Only model-checked: the liveness properties (the prover does not handle fairness);
everything about the connection sequence and the graphics pipeline; of the dynamic
channels, the order of data over the two routes and that no session fails; of the
clipboard, locks and the pairing of responses.

## Not modelled

* Codecs, bulk compression, PDU layouts, RTT arithmetic: numeric kernels and bit
  layouts without protocol state, out of TLC's reach.
* `ironrdp-rdpsnd`, `ironrdp-rdpdr` and the smaller device channels: exchanges
  in lock step over the channel layers modelled here; `ironrdp-rdpsnd` and
  `ironrdp-rdpdr` would be the next to model.
* In the connection sequence: Entra ID, Remote Credential Guard, redirection,
  auto-reconnect, connect-time auto-detection, licenses other than the
  valid-client message, the 16 MiB limit of the input backlog.
* In the dynamic channels: `attach_established_dynamic_channel`, used by the
  capture replayer, and the loss of the tunnel.
* In the graphics pipeline: pixels, the compositor beyond the slots of its cache,
  statistics, byte limits, the choice of capabilities.
* `ironrdp-rdpeudp-tokio`, framing, TLS, event loops, applications, native
  backends: I/O and operating-system calls.
