---------------------------- MODULE DrdynvcClient ---------------------------
(***************************************************************************)
(* DrdynvcClient (ironrdp-dvc/src/client.rs) and the way the client's      *)
(* session loop routes its messages (ironrdp-client/src/rdp.rs).           *)
(*                                                                         *)
(* A processor is known by the name of its channel.  A processor registered*)
(* once is parked, in its listener or as a closed channel, or it serves an *)
(* active channel; a factory makes a new one for every channel.  One       *)
(* tunnel exists, reliable UDP.  The messages a processor returns when it  *)
(* is started or given data are messages it sends.                         *)
(***************************************************************************)
EXTENDS DrdynvcWire

CONSTANT MaxClientClosed   \* MAX_CLIENT_CLOSED_CHANNELS, 64 in the code

VARIABLES
  cap_handshake_done,
  active,            \* active_channels: the name of the processor by channel
  parked,            \* the once-registered names whose processor is not in use
  type_ids,          \* type_id_to_channel_id
  tunnel_available,  \* whether available_tunnels has the tunnel
  tunnel_channels,   \* the channels Soft-Sync routed to the tunnel
  soft_sync_complete,
  client_closed,     \* pairs of a channel and whether it was on the tunnel
  client_failed      \* an error of process or process_tunnel ends the session

channelVars == <<active, parked, type_ids>>
clientVars == <<cap_handshake_done, active, parked, type_ids, tunnel_available,
                tunnel_channels, soft_sync_complete, client_closed, client_failed>>

ClientInit ==
  /\ cap_handshake_done = FALSE
  /\ active = <<>> /\ parked = OnceNames /\ type_ids = <<>>
  /\ tunnel_available = FALSE /\ tunnel_channels = {}
  /\ soft_sync_complete = FALSE /\ client_closed = <<>>
  /\ client_failed = FALSE

Without(f, keys) == [x \in DOMAIN f \ keys |-> f[x]]
With(f, key, value) == [x \in DOMAIN f \cup {key} |-> IF x = key THEN value ELSE f[x]]

\* remember_client_close of some channels: the oldest closes are forgotten at
\* the bound.
Remembering(closed, ids, tunneled) ==
  LET longer == closed \o [i \in DOMAIN ids |-> <<ids[i], tunneled>>]
  IN  IF Len(longer) > MaxClientClosed
      THEN SubSeq(longer, Len(longer) - MaxClientClosed + 1, Len(longer)) ELSE longer

Settling(closed, id) == SelectSeq(closed, LAMBDA entry : entry[1] # id)

WasClosed(id, tunneled) == <<id, tunneled>> \in Range(client_closed)

-----------------------------------------------------------------------------
(* The channel set *)

\* try_create_channel finds a processor for the name.
HasProcessor(name) == name \in FactoryNames \/ name \in parked

\* remove_by_channel_id of an active channel.
RemoveByChannelId(id) ==
  /\ active' = Without(active, {id})
  /\ type_ids' = Without(type_ids, {t \in {active[id]} \cap DOMAIN type_ids : type_ids[t] = id})
  /\ parked' = parked \cup ({active[id]} \cap OnceNames)

\* Mutant: a processor whose start failed is gone.
StartFailsDropping(id, name) ==
  /\ active' = Without(active, {id})
  /\ type_ids' = Without(type_ids, {name})
  /\ parked' = parked \ {name}

\* The channel is inserted, its processor refuses to start, and it is removed.
StartFails(id, name) ==
  /\ active' = Without(active, {id})
  /\ type_ids' = Without(type_ids, {name})
  /\ UNCHANGED parked

Starts(id, name) ==
  /\ active' = With(active, id, name)
  /\ type_ids' = With(type_ids, name, id)
  /\ parked' = parked \ {name}

-----------------------------------------------------------------------------
(* process: a PDU from the static channel *)

ClientTakes(t) == ~client_failed /\ tcp["Client"] # <<>> /\ Head(tcp["Client"]).t = t
FromTcp == Head(tcp["Client"])

\* An error leaves the session loop.
ClientFails ==
  /\ client_failed' = TRUE
  /\ tcp' = [tcp EXCEPT !["Client"] = Tail(@)]
  /\ UNCHANGED <<cap_handshake_done, channelVars, tunnel_available, tunnel_channels,
                 soft_sync_complete, client_closed, tunnel, sent, received>>

ClientCapabilities ==
  /\ ClientTakes("Caps")
  /\ cap_handshake_done' = TRUE
  /\ tcp' = Exchanges(tcp, "Client", <<Bare("CapsResponse")>>)
  /\ UNCHANGED <<channelVars, tunnel_available, tunnel_channels, soft_sync_complete,
                 client_closed, client_failed, tunnel, sent, received>>

\* Mutant: a name without a listener is not answered.
ClientCreateSilent ==
  /\ ClientTakes("Create")
  /\ LET m == FromTcp
     IN  /\ IF HasProcessor(m.name) THEN Starts(m.id, m.name) ELSE UNCHANGED channelVars
         /\ tcp' = Exchanges(tcp, "Client", IF HasProcessor(m.name) THEN <<CreateResponse(m.id, TRUE)>> ELSE <<>>)
  /\ UNCHANGED <<cap_handshake_done, client_closed, tunnel_available, tunnel_channels,
                 soft_sync_complete, client_failed, tunnel, sent, received>>

\* process_create; a Create Request that comes first is answered with a
\* Capabilities Response too.
ClientCreate ==
  /\ ClientTakes("Create")
  /\ cap_handshake_done' = TRUE
  /\ LET m     == FromTcp
         first == IF cap_handshake_done THEN <<>> ELSE <<Bare("CapsResponse")>>
         Answer(ok) == tcp' = Exchanges(tcp, "Client", Append(first, CreateResponse(m.id, ok)))
     IN  \/ /\ HasProcessor(m.name)
            /\ Starts(m.id, m.name)
            /\ client_closed' = Settling(client_closed, m.id)
            /\ Answer(TRUE)
         \/ /\ HasProcessor(m.name)
            /\ StartFails(m.id, m.name)
            /\ Answer(FALSE)
            /\ UNCHANGED client_closed
         \/ /\ ~HasProcessor(m.name)
            /\ Answer(FALSE)
            /\ UNCHANGED <<channelVars, client_closed>>
  /\ UNCHANGED <<tunnel_available, tunnel_channels, soft_sync_complete, client_failed,
                 tunnel, sent, received>>

\* process_close: only an open channel is answered.
ClientProcessClose ==
  /\ ClientTakes("Close")
  /\ LET id == FromTcp.id
     IN  /\ client_closed' = Settling(client_closed, id)
         /\ tunnel_channels' = tunnel_channels \ {id}
         /\ IF id \in DOMAIN active
            THEN RemoveByChannelId(id) /\ tcp' = Exchanges(tcp, "Client", <<ClosePdu(id)>>)
            ELSE UNCHANGED channelVars /\ tcp' = Exchanges(tcp, "Client", <<>>)
  /\ UNCHANGED <<cap_handshake_done, tunnel_available, soft_sync_complete, client_failed,
                 tunnel, sent, received>>

\* The Data arm of process.
ClientData ==
  /\ ClientTakes("Data")
  /\ LET m == FromTcp
     IN  IF WasClosed(m.id, FALSE)
         THEN tcp' = Exchanges(tcp, "Client", <<>>) /\ UNCHANGED <<clientVars, tunnel, sent, received>>
         ELSE IF m.id \in tunnel_channels \/ m.id \notin DOMAIN active
         THEN ClientFails
         ELSE /\ tcp' = Exchanges(tcp, "Client", <<>>)
              /\ Gets("Client", m)
              /\ UNCHANGED <<clientVars, tunnel, sent>>

\* Mutant: a channel closed while the request was under way is not recalled.
ClosedMeanwhileForgotten(ids) == {}

\* The listed channels this client closed, which its tunnel may still bring
\* data for.
ClosedMeanwhile(ids) ==
  {id \in ids : id \notin DOMAIN active /\ WasClosed(id, FALSE)}

\* process_soft_sync_request.
ClientSoftSyncRequest ==
  /\ ClientTakes("SoftSyncRequest")
  /\ IF soft_sync_complete \/ ~tunnel_available
     THEN ClientFails
     ELSE /\ tunnel_channels' = FromTcp.ids \cap DOMAIN active
          /\ \E order \in Ascending(ClosedMeanwhile(FromTcp.ids)) :
               client_closed' = Remembering(client_closed, order, TRUE)
          /\ soft_sync_complete' = TRUE
          /\ tcp' = Exchanges(tcp, "Client", <<Bare("SoftSyncResponse")>>)
          /\ UNCHANGED <<cap_handshake_done, channelVars, tunnel_available, client_failed,
                         tunnel, sent, received>>

-----------------------------------------------------------------------------
(* process_tunnel.  The session loop stops reading the tunnel at the first *)
(* payload that comes before the Soft-Sync request has.                    *)

\* Data for a channel the client closed is dropped, data for one that is not
\* on the tunnel ends the session.
ClientTunnelData ==
  /\ ~client_failed /\ soft_sync_complete
  /\ tunnel["Client"] # <<>>
  /\ tunnel' = [tunnel EXCEPT !["Client"] = Tail(@)]
  /\ LET m == Head(tunnel["Client"])
     IN  IF WasClosed(m.id, TRUE)
         THEN UNCHANGED <<client_failed, received>>
         ELSE IF m.id \notin tunnel_channels
         THEN client_failed' = TRUE /\ UNCHANGED received
         ELSE Gets("Client", m) /\ UNCHANGED client_failed
  /\ UNCHANGED <<cap_handshake_done, channelVars, tunnel_available, tunnel_channels,
                 soft_sync_complete, client_closed, tcp, sent>>

-----------------------------------------------------------------------------
(* What the client does on its own *)

\* The Initiate Multitransport Response is sent, then the tunnel enabled
\* (enable_soft_sync_tunnel).
ClientEnableTunnel ==
  /\ ~client_failed /\ ~tunnel_available
  /\ tunnel_available' = TRUE
  /\ tcp' = Sends(tcp, "Client", <<Bare("MultitransportResponse")>>)
  /\ UNCHANGED <<cap_handshake_done, channelVars, tunnel_channels, soft_sync_complete,
                 client_closed, client_failed, tunnel, sent, received>>

\* A processor's message takes the channel's route (tunnel_for_channel).
ClientSend(id) ==
  /\ ~client_failed /\ id \in DOMAIN active
  /\ SendsData("Client", id, id \in tunnel_channels)
  /\ UNCHANGED clientVars

\* close_channel_batch, sent on the tunnel the channel was bound to.
ClientClose(id) ==
  /\ ~client_failed /\ id \in DOMAIN active
  /\ RemoveByChannelId(id)
  /\ tunnel_channels' = tunnel_channels \ {id}
  /\ client_closed' = Remembering(client_closed, <<id>>, id \in tunnel_channels)
  /\ IF id \in tunnel_channels
     THEN tunnel' = Sends(tunnel, "Client", <<ClosePdu(id)>>) /\ UNCHANGED tcp
     ELSE tcp' = Sends(tcp, "Client", <<ClosePdu(id)>>) /\ UNCHANGED tunnel
  /\ UNCHANGED <<cap_handshake_done, tunnel_available, soft_sync_complete, client_failed,
                 sent, received>>

ClientProcess ==
  \/ ClientCapabilities \/ ClientCreate \/ ClientProcessClose
  \/ ClientData \/ ClientSoftSyncRequest \/ ClientTunnelData
=============================================================================
