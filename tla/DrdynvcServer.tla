---------------------------- MODULE DrdynvcServer ---------------------------
(***************************************************************************)
(* DrdynvcServer (ironrdp-dvc/src/server.rs) and the way the server's      *)
(* client loop routes its output and holds tunnel payloads back            *)
(* (ironrdp-server/src/server.rs).  Message size limits are in             *)
(* DvcReassembly.  The type index of the registered channels is left out:  *)
(* an entry stands for a registered channel that is still in the table.    *)
(***************************************************************************)
EXTENDS DrdynvcWire

CONSTANTS
  Registered,          \* the names given to with_dynamic_channel, in order
  MaxEarly             \* MAX_EARLY_TUNNEL_PAYLOADS, 64 in the code

ASSUME RegisteredAssumption == Registered \in Seq(Names) /\ Len(Registered) <= MaxChannels

VARIABLES
  ready,
  channels,            \* dynamic_channels: the name and state of each channel
  next_channel_id,
  udp_migration_allowed,
  soft_sync,           \* "Idle", "Awaiting" the response, or "Received"
  outgoing_tunnel_channels,
  incoming_tunnel_channels,
  early_tunnel_payloads,
  server_failed        \* an error of process ends the connection

serverVars == <<ready, channels, next_channel_id, udp_migration_allowed, soft_sync,
                outgoing_tunnel_channels, incoming_tunnel_channels,
                early_tunnel_payloads, server_failed>>

ChannelState == {"Pending", "Creation", "Opened", "CreationFailed"}

\* The registered channels have the first ids; start has sent the
\* Capabilities Request.
ServerInit ==
  /\ ready = FALSE
  /\ channels = [id \in 0 .. (Len(Registered) - 1) |-> [name |-> Registered[id + 1], state |-> "Pending"]]
  /\ next_channel_id = Len(Registered)
  /\ udp_migration_allowed = FALSE /\ soft_sync = "Idle"
  /\ outgoing_tunnel_channels = {} /\ incoming_tunnel_channels = {}
  /\ early_tunnel_payloads = <<>> /\ server_failed = FALSE
  /\ tcp = [e \in End |-> IF e = "Client" THEN <<Bare("Caps")>> ELSE <<>>]

InState(id, state) == id \in DOMAIN channels /\ channels[id].state = state

\* is_retired: ids are never reused.
IsRetired(id) == id < next_channel_id /\ id \notin DOMAIN channels

Dropping(id) == [x \in DOMAIN channels \ {id} |-> channels[x]]

-----------------------------------------------------------------------------
(* process: a PDU from the static channel *)

ServerTakes(t) == ~server_failed /\ tcp["Server"] # <<>> /\ Head(tcp["Server"]).t = t
FromClient == Head(tcp["Server"])
ServerAnswers(pdus) == tcp' = Exchanges(tcp, "Server", pdus)

ServerFails ==
  /\ server_failed' = TRUE
  /\ ServerAnswers(<<>>)
  /\ UNCHANGED <<ready, channels, next_channel_id, udp_migration_allowed, soft_sync,
                 outgoing_tunnel_channels, incoming_tunnel_channels,
                 early_tunnel_payloads, tunnel, sent, received>>

\* The Capabilities arm creates every channel that is still pending, in
\* the order of the ids.
ServerCapabilities ==
  /\ ServerTakes("CapsResponse")
  /\ ready' = TRUE
  /\ LET pending == {id \in DOMAIN channels : channels[id].state = "Pending"}
     IN  /\ channels' = [id \in DOMAIN channels |->
                           IF id \in pending THEN [channels[id] EXCEPT !.state = "Creation"] ELSE channels[id]]
         /\ \E order \in Ascending(pending) :
              ServerAnswers([i \in DOMAIN order |-> Create(order[i], channels[order[i]].name)])
  /\ UNCHANGED <<next_channel_id, udp_migration_allowed, soft_sync, outgoing_tunnel_channels,
                 incoming_tunnel_channels, early_tunnel_payloads, server_failed,
                 tunnel, sent, received>>

\* The Create arm; what start returns the channel sends.
ServerCreateResponse ==
  /\ ServerTakes("CreateResponse")
  /\ LET m == FromClient
     IN  IF ~IsRetired(m.id) /\ ~InState(m.id, "Creation")
         THEN ServerFails
         ELSE /\ channels' = IF IsRetired(m.id) THEN channels
                             ELSE [channels EXCEPT ![m.id].state = IF m.ok THEN "Opened" ELSE "CreationFailed"]
              /\ ServerAnswers(<<>>)
              /\ UNCHANGED <<ready, next_channel_id, udp_migration_allowed, soft_sync,
                             outgoing_tunnel_channels, incoming_tunnel_channels,
                             early_tunnel_payloads, server_failed, tunnel, sent, received>>

\* Mutant: a Close of the client is only an answer.
ServerProcessCloseIgnoring ==
  /\ ServerTakes("Close")
  /\ ServerAnswers(<<>>)
  /\ UNCHANGED <<serverVars, tunnel, sent, received>>

\* The Close arm.
ServerProcessClose ==
  /\ ServerTakes("Close")
  /\ channels' = Dropping(FromClient.id)
  /\ ServerAnswers(<<>>)
  /\ UNCHANGED <<ready, next_channel_id, udp_migration_allowed, soft_sync,
                 outgoing_tunnel_channels, incoming_tunnel_channels,
                 early_tunnel_payloads, server_failed, tunnel, sent, received>>

\* The Data arm and process_data.
ServerData ==
  /\ ServerTakes("Data")
  /\ LET m == FromClient
     IN  IF m.id \in incoming_tunnel_channels \/ (~IsRetired(m.id) /\ ~InState(m.id, "Opened"))
         THEN ServerFails
         ELSE /\ IF IsRetired(m.id) THEN UNCHANGED received ELSE Gets("Server", m)
              /\ ServerAnswers(<<>>)
              /\ UNCHANGED <<serverVars, tunnel, sent>>

\* What process_tunnel lets through once Soft-Sync selected the channels.
Tunneled(payloads, selected) ==
  SelectSeq(payloads, LAMBDA m : m.t = "Data" /\ m.id \in selected /\ InState(m.id, "Opened"))

Replayed(payloads) ==
  [id \in Ids |-> LET own == SelectSeq(payloads, LAMBDA m : m.id = id)
                  IN  received["Server"][id] \o [i \in DOMAIN own |-> own[i].n]]

\* Mutant: what waited for the response is left waiting.
ServerSoftSyncResponseNoReplay ==
  /\ ServerTakes("SoftSyncResponse")
  /\ soft_sync' = "Received"
  /\ incoming_tunnel_channels' = outgoing_tunnel_channels
  /\ ServerAnswers(<<>>)
  /\ UNCHANGED <<ready, channels, next_channel_id, udp_migration_allowed, early_tunnel_payloads,
                 outgoing_tunnel_channels, server_failed, tunnel, sent, received>>

\* process_soft_sync_response, then replay_early_tunnel_payloads.
ServerSoftSyncResponse ==
  /\ ServerTakes("SoftSyncResponse")
  /\ IF soft_sync # "Awaiting"
     THEN ServerFails
     ELSE /\ soft_sync' = "Received"
          /\ incoming_tunnel_channels' = outgoing_tunnel_channels
          /\ received' = [received EXCEPT !["Server"] =
                            Replayed(Tunneled(early_tunnel_payloads, outgoing_tunnel_channels))]
          /\ early_tunnel_payloads' = <<>>
          /\ ServerAnswers(<<>>)
          /\ UNCHANGED <<ready, channels, next_channel_id, udp_migration_allowed,
                         outgoing_tunnel_channels, server_failed, tunnel, sent>>

\* handle_message_channel_data.
ServerMultitransportResponse ==
  /\ ServerTakes("MultitransportResponse")
  /\ udp_migration_allowed' = TRUE
  /\ ServerAnswers(<<>>)
  /\ UNCHANGED <<ready, channels, next_channel_id, soft_sync, outgoing_tunnel_channels,
                 incoming_tunnel_channels, early_tunnel_payloads, server_failed,
                 tunnel, sent, received>>

-----------------------------------------------------------------------------
(* dispatch_udp_tunnel_payload: a payload is held until the Soft-Sync      *)
(* response, dropped at the bound, and dropped when process_tunnel refuses *)
(* it.                                                                     *)

\* Mutant: what comes before the response is given to process_tunnel.
ServerTunnelUnheld ==
  /\ ~server_failed /\ tunnel["Server"] # <<>>
  /\ tunnel' = [tunnel EXCEPT !["Server"] = Tail(@)]
  /\ received' = [received EXCEPT !["Server"] =
                    Replayed(Tunneled(<<Head(tunnel["Server"])>>, incoming_tunnel_channels))]
  /\ UNCHANGED <<serverVars, tcp, sent>>

ServerTunnel ==
  /\ ~server_failed /\ tunnel["Server"] # <<>>
  /\ tunnel' = [tunnel EXCEPT !["Server"] = Tail(@)]
  /\ LET payload == Head(tunnel["Server"])
     IN  \/ /\ soft_sync = "Awaiting"
            /\ early_tunnel_payloads' = IF Len(early_tunnel_payloads) < MaxEarly
                                        THEN Append(early_tunnel_payloads, payload)
                                        ELSE early_tunnel_payloads
            /\ UNCHANGED received
         \/ /\ soft_sync # "Awaiting"
            /\ received' = [received EXCEPT !["Server"] =
                              Replayed(Tunneled(<<payload>>, incoming_tunnel_channels))]
            /\ UNCHANGED early_tunnel_payloads
  /\ UNCHANGED <<ready, channels, next_channel_id, udp_migration_allowed, soft_sync,
                 outgoing_tunnel_channels, incoming_tunnel_channels, server_failed, tcp, sent>>

-----------------------------------------------------------------------------
(* What the server does on its own *)

\* create_channel.
ServerCreate(name) ==
  /\ ~server_failed /\ ready
  /\ next_channel_id \in Ids
  /\ next_channel_id' = next_channel_id + 1
  /\ channels' = [id \in DOMAIN channels \cup {next_channel_id} |->
                    IF id = next_channel_id THEN [name |-> name, state |-> "Creation"] ELSE channels[id]]
  /\ tcp' = Sends(tcp, "Server", <<Create(next_channel_id, name)>>)
  /\ UNCHANGED <<ready, udp_migration_allowed, soft_sync, outgoing_tunnel_channels,
                 incoming_tunnel_channels, early_tunnel_payloads, server_failed,
                 tunnel, sent, received>>

\* close_channel; the Close PDU is not data, so write_drdynvc_output sends it
\* over TCP.
ServerClose(id) ==
  /\ ~server_failed /\ id \in DOMAIN channels
  /\ channels' = Dropping(id)
  /\ outgoing_tunnel_channels' = outgoing_tunnel_channels \ {id}
  /\ incoming_tunnel_channels' = incoming_tunnel_channels \ {id}
  /\ tcp' = IF channels[id].state \in {"Pending", "CreationFailed"} THEN tcp
            ELSE Sends(tcp, "Server", <<ClosePdu(id)>>)
  /\ UNCHANGED <<ready, next_channel_id, udp_migration_allowed, soft_sync,
                 early_tunnel_payloads, server_failed, tunnel, sent, received>>

\* request_reliable_udp, called once the client confirmed the transport.
ServerRequestReliableUdp(ids) ==
  /\ ~server_failed /\ udp_migration_allowed
  /\ ids # {} /\ soft_sync = "Idle"
  /\ \A id \in ids : InState(id, "Opened")
  /\ outgoing_tunnel_channels' = ids
  /\ soft_sync' = "Awaiting"
  /\ tcp' = Sends(tcp, "Server", <<[t |-> "SoftSyncRequest", ids |-> ids]>>)
  /\ UNCHANGED <<ready, channels, next_channel_id, udp_migration_allowed,
                 incoming_tunnel_channels, early_tunnel_payloads, server_failed,
                 tunnel, sent, received>>

\* write_drdynvc_output.
ServerSend(id) ==
  /\ ~server_failed /\ InState(id, "Opened")
  /\ SendsData("Server", id, id \in outgoing_tunnel_channels)
  /\ UNCHANGED serverVars

ServerProcess ==
  \/ ServerCapabilities \/ ServerCreateResponse \/ ServerProcessClose \/ ServerData
  \/ ServerSoftSyncResponse \/ ServerMultitransportResponse \/ ServerTunnel
=============================================================================
