------------------------------- MODULE Drdynvc ------------------------------
(***************************************************************************)
(* A DrdynvcClient and a DrdynvcServer joined by a static channel and a    *)
(* reliable UDP tunnel.                                                    *)
(***************************************************************************)
EXTENDS DrdynvcClient, DrdynvcServer

CONSTANT TunneledCloses   \* the ends that close a channel bound to the tunnel

vars == <<wireVars, clientVars, serverVars>>

Init == ServerInit /\ WireInit /\ ClientInit

ClientStep ==
  \/ ClientProcess
  \/ ClientEnableTunnel
  \/ \E id \in Ids : ClientSend(id)
  \/ \E id \in Ids : (id \in tunnel_channels => "Client" \in TunneledCloses) /\ ClientClose(id)

ServerStep ==
  \/ ServerProcess
  \/ \E name \in Names : ServerCreate(name)
  \/ \E ids \in SUBSET DOMAIN channels : ServerRequestReliableUdp(ids)
  \/ \E id \in Ids : ServerSend(id)
  \/ \E id \in Ids : /\ id \in outgoing_tunnel_channels => "Server" \in TunneledCloses
                     /\ ServerClose(id)

Next ==
  \/ ClientStep /\ UNCHANGED serverVars
  \/ ServerStep /\ UNCHANGED clientVars

Spec == Init /\ [][Next]_vars

\* Each end's loop keeps reading its connections.
Fairness ==
  /\ WF_vars(ClientProcess /\ UNCHANGED serverVars)
  /\ WF_vars(ServerProcess /\ UNCHANGED clientVars)

FairSpec == Spec /\ Fairness

-----------------------------------------------------------------------------
(* Properties *)

\* A processor gets a channel's messages in the order they were sent and with
\* none missing before the last it got, though the channel moves from TCP to
\* the tunnel under way and nothing orders the two
\* (process_soft_sync_request, replay_early_tunnel_payloads).
InOrderDelivery ==
  \A e \in End : \A id \in Ids :
    \A i \in 1 .. Len(received[e][id]) : received[e][id][i] = i

\* Whatever either end opens, closes, sends and moves, no crossing of PDUs
\* makes an end fail the session (is_retired, client_closed).
NoSessionFailure == ~client_failed /\ ~server_failed

Quiet == \A e \in End : tcp[e] = <<>> /\ tunnel[e] = <<>>

\* When nothing is under way both ends have the same channels open
\* (process_create, process_close, close_channel).
ViewsAgree ==
  Quiet /\ NoSessionFailure =>
    {id \in DOMAIN channels : channels[id].state = "Opened"} = DOMAIN active

\* The only processor of a registered channel is parked or serves exactly one
\* channel: no failed start, close or reopening loses it or gives it away
\* twice (try_create_channel, remove_by_channel_id).
OnceProcessorKept ==
  \A name \in OnceNames :
    LET serving == {id \in DOMAIN active : active[id] = name}
    IN  IF name \in parked THEN serving = {} ELSE \E id \in DOMAIN active : serving = {id}

\* A creation the server asked for is answered or cancelled (process_create
\* answers the names it has no listener for).
CreationSettles ==
  \A id \in Ids : InState(id, "Creation") ~> (client_failed \/ ~InState(id, "Creation"))

\* The Soft-Sync request is answered, and what the tunnel brought early is
\* processed (process_soft_sync_response).
SoftSyncCompletes ==
  soft_sync = "Awaiting" ~> (client_failed \/ (soft_sync = "Received" /\ early_tunnel_payloads = <<>>))
=============================================================================
