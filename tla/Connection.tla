----------------------------- MODULE Connection -----------------------------
(***************************************************************************)
(* A connection attempt and the session it leads to: ClientConnector and   *)
(* Acceptor joined by a TCP connection, for every configuration of the two *)
(* ends, with the server resizing the desktop while the client sends.      *)
(***************************************************************************)
EXTENDS FiniteSets, ClientConnector, Acceptor

vars == <<config, toServer, toClient, client, server>>

Init == WireInit /\ ClientInit /\ ServerInit

ClientStep == (ClientNext \/ ClientReadFails(server.state = "Failed")) /\ UNCHANGED <<config, server>>
ServerStep == (ServerNext \/ ServerReadFails(client.state = "Failed")) /\ UNCHANGED <<config, client>>
Sending == ClientTraffic /\ UNCHANGED <<config, server>>
Resizing == Resize /\ UNCHANGED <<config, client>>

Next == ClientStep \/ ServerStep \/ Sending \/ Resizing

\* Both drivers loop until their sequence ends, and the sessions go on reading.
Spec == Init /\ [][Next]_vars /\ WF_vars(ClientStep) /\ WF_vars(ServerStep)

Active ==
  /\ client.state = "Connected" /\ server.state = "Accepted"
  /\ toServer = <<>> /\ toClient = <<>>
  /\ ~ client.owed

\* What an attempt that succeeds has to agree on.
Strongest ==
  LET common == config.requested \cap config.security
  IN  IF "HYBRID_EX" \in common THEN "HYBRID_EX"
      ELSE IF "HYBRID" \in common THEN "HYBRID"
      ELSE IF "SSL" \in common THEN "SSL" ELSE "RDP"

Compatible ==
  \/ config.requested \cap config.security # {}
  \/ config.requested = {} /\ config.security = {}

(***************************************************************************)
(* EndsAgree: two ends that have an active session had compatible          *)
(* configurations and a server content with the user, use the strongest    *)
(* protocol they share, call the message channel and every channel both    *)
(* know by the same ids, all of them different, and have joined them all.  *)
(***************************************************************************)
EndsAgree ==
  client.state = "Connected" /\ server.state = "Accepted" =>
    /\ Compatible /\ config.setup = "ok"
    /\ client.selected = Strongest /\ server.protocol = Strongest
    /\ client.message = server.message
    /\ \A n \in ServerChannels \cap DOMAIN client.ids : server.ids[n] = client.ids[n]
    /\ DOMAIN client.ids = ToSet(ClientChannels)
    /\ Cardinality({client.ids[n] : n \in DOMAIN client.ids} \cup {USER_CHANNEL_ID, IO_CHANNEL_ID, client.message})
         = Len(ClientChannels) + 3
    /\ client.remaining = {} /\ server.remaining = {}

(***************************************************************************)
(* OnlyJustifiedFailures: no end ever meets a PDU it cannot take where it  *)
(* is, in an attempt or in a reactivation, where the acceptor is to "drop  *)
(* unexpected PDUs" (CHANGELOG of ironrdp-acceptor).  An attempt fails for *)
(* want of a common protocol, for the user's credentials, for what the     *)
(* applications decide, or because the other end has failed.               *)
(***************************************************************************)
OnlyJustifiedFailures ==
  /\ client.why # "protocol" /\ server.why # "protocol"
  /\ "negotiation" \in {client.why, server.why} => ~ Compatible
  /\ {"credentials", "setup", "denied"} \cap {client.why, server.why} # {} => config.setup # "ok"

(***************************************************************************)
(* RequestAnswered: in a quiet session a multitransport request was sent   *)
(* exactly when both ends asked for reliable UDP over a message channel,   *)
(* the client met it once, and the server knows its outcome exactly when   *)
(* a response is due: always for a failure, for a success with Soft-Sync.  *)
(***************************************************************************)
RequestAnswered ==
  Active =>
    /\ server.request = (config.extended /\ "FECR" \in config.flags \cap config.offer)
    /\ client.seen = IF server.request THEN 1 ELSE 0
    /\ server.response =
         IF server.request /\ (client.outcome = "Failure" \/ "SOFTSYNC" \in config.flags \cap config.offer)
         THEN client.outcome ELSE None

\* The numbers of the static channel messages in a sequence of PDUs.
StaticIn(pdus) ==
  LET data == SelectSeq(pdus, LAMBDA m : m.t = "Static") IN [i \in DOMAIN data |-> data[i].n]

(***************************************************************************)
(* ChannelDataKept: as long as the server lives, what its channels have    *)
(* handled, what the acceptor keeps for them and what is under way is all  *)
(* the client sent on its channels, each once and in order, through any    *)
(* number of reactivations.                                                *)
(***************************************************************************)
ChannelDataKept ==
  server.state # "Failed" =>
    StaticIn(server.handled) \o StaticIn(server.pending) \o StaticIn(toServer)
      = [i \in 1 .. client.static |-> i]

(***************************************************************************)
(* AttemptSettles: an attempt, and every reactivation, comes to an end:    *)
(* both ends are in an active session with nothing under way, or both have *)
(* failed.                                                                 *)
(***************************************************************************)
Settled == Active \/ (client.state = "Failed" /\ server.state = "Failed")
AttemptSettles == [](~ Settled => <>Settled)

=============================================================================
