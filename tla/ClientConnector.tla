--------------------------- MODULE ClientConnector --------------------------
(***************************************************************************)
(* The client's connection sequence: ClientConnector with its channel      *)
(* connection, licensing, activation and finalization sequences, as        *)
(* connect_begin and connect_finalize_with_multitransport drive them, and  *)
(* the reactivation of the client's session loop.  The steps of CredSSP    *)
(* are one round trip and the message that delegates the credentials.      *)
(* Entra ID, Remote Credential Guard, redirection and licenses other than  *)
(* the valid-client message are not modelled.                              *)
(***************************************************************************)
EXTENDS ConnectionWire

VARIABLE client

MAX_MULTITRANSPORT_REQUESTS == 2

ClientInit ==
  client = [state |-> "ConnectionInitiationSendRequest", selected |-> None,
            ids |-> [n \in {} |-> 0], message |-> 0, flags |-> {}, skip |-> FALSE,
            remaining |-> {}, seen |-> 0, owed |-> FALSE, outcome |-> None,
            sent |-> 0, traffic |-> 0, static |-> 0, why |-> None]

\* An error leaves the sequence consumed, and the caller closes the connection.
ClientFails(why) == client' = [client EXCEPT !.state = "Failed", !.why = why]

SendRequest ==
  /\ client.state = "ConnectionInitiationSendRequest"
  /\ client' = [client EXCEPT !.state = "ConnectionInitiationWaitConfirm"]
  /\ ClientSends(<<[t |-> "ConnectionRequest", protocols |-> config.requested]>>)

\* The server may select a requested protocol, or none when none was requested.
ProtocolOk(protocol) ==
  IF protocol = "RDP" THEN config.requested = {} ELSE protocol \in config.requested

WaitConfirm ==
  /\ client.state = "ConnectionInitiationWaitConfirm"
  /\ ClientReads("ConnectionConfirm")
  /\ LET protocol == Head(toClient).protocol
     IN  IF ProtocolOk(protocol)
         THEN client' = [client EXCEPT !.state = "EnhancedSecurityUpgrade", !.selected = protocol]
         ELSE ClientFails("negotiation")
  /\ ClientTakes(<<>>)

WaitConfirmRefused ==
  /\ client.state = "ConnectionInitiationWaitConfirm"
  /\ ClientReads("NegotiationFailure")
  /\ ClientFails("negotiation")
  /\ ClientTakes(<<>>)

ClientUpgrade ==
  /\ client.state = "EnhancedSecurityUpgrade"
  /\ IF client.selected \in Hybrid
     THEN /\ client' = [client EXCEPT !.state = "Credssp"]
          /\ ClientSends(<<Bare("TsRequest")>>)
     ELSE /\ client' = [client EXCEPT !.state = "BasicSettingsExchangeSendInitial"]
          /\ ClientSends(<<>>)

\* Only HYBRID_EX reports the server's decision before the client goes on.
ClientCredssp ==
  /\ client.state = "Credssp"
  /\ ClientReads("TsReply")
  /\ IF Head(toClient).ok
     THEN /\ client' = [client EXCEPT !.state = IF client.selected = "HYBRID_EX" THEN "EarlyUserAuthResult"
                                                ELSE "BasicSettingsExchangeSendInitial"]
          /\ ClientTakes(<<Bare("AuthInfo")>>)
     ELSE ClientFails("credentials") /\ ClientTakes(<<>>)

ClientEarlyUserAuthResult ==
  /\ client.state = "EarlyUserAuthResult"
  /\ ClientReads("EarlyUserAuthResult")
  /\ IF Head(toClient).ok
     THEN client' = [client EXCEPT !.state = "BasicSettingsExchangeSendInitial"]
     ELSE ClientFails("credentials")
  /\ ClientTakes(<<>>)

SendInitial ==
  /\ client.state = "BasicSettingsExchangeSendInitial"
  /\ client' = [client EXCEPT !.state = "BasicSettingsExchangeWaitResponse"]
  /\ ClientSends(<<[t |-> "ConnectInitial", channels |-> ClientChannels, skip |-> config.skip,
                    extended |-> config.extended,
                    flags |-> IF config.extended THEN config.flags ELSE {}]>>)

\* The ids answer the channels in the order they were asked for.
WaitResponse ==
  /\ client.state = "BasicSettingsExchangeWaitResponse"
  /\ ClientReads("ConnectResponse")
  /\ LET m == Head(toClient)
         n == IF Len(m.ids) < Len(ClientChannels) THEN Len(m.ids) ELSE Len(ClientChannels)
     IN  client' = [client EXCEPT
           !.state = "SendErectDomainRequest",
           !.ids = [c \in {ClientChannels[i] : i \in 1 .. n} |-> m.ids[CHOOSE i \in 1 .. n : ClientChannels[i] = c]],
           !.message = m.message, !.flags = m.flags, !.skip = m.skip,
           !.remaining = ToSet(m.ids) \cup {IO_CHANNEL_ID} \cup ({m.message} \ {0})]
  /\ ClientTakes(<<>>)

SendErectDomain ==
  /\ client.state = "SendErectDomainRequest"
  /\ client' = [client EXCEPT !.state = "SendAttachUserRequest"]
  /\ ClientSends(<<Bare("ErectDomain")>>)

SendAttachUser ==
  /\ client.state = "SendAttachUserRequest"
  /\ client' = [client EXCEPT !.state = "WaitAttachUserConfirm"]
  /\ ClientSends(<<Bare("AttachUserRequest")>>)

WaitAttachUserConfirm ==
  /\ client.state = "WaitAttachUserConfirm"
  /\ ClientReads("AttachUserConfirm")
  /\ client' = IF client.skip
               THEN [client EXCEPT !.state = "SecureSettingsExchange", !.remaining = {}]
               ELSE [client EXCEPT !.state = "SendChannelJoinRequest",
                                   !.remaining = @ \cup {Head(toClient).user}]
  /\ ClientTakes(<<>>)

(***************************************************************************)
(* All join requests go out in one batch, in the order of a hash set.  The *)
(* batch is one item here, which the server takes apart id by id.          *)
(***************************************************************************)
SendChannelJoins ==
  /\ client.state = "SendChannelJoinRequest"
  /\ client' = [client EXCEPT !.state = "WaitChannelJoinConfirm"]
  /\ ClientSends(<<[t |-> "ChannelJoinRequest", ids |-> client.remaining]>>)

WaitChannelJoinConfirm ==
  /\ client.state = "WaitChannelJoinConfirm"
  /\ ClientReads("ChannelJoinConfirm")
  /\ LET id == Head(toClient).id
     IN  IF id \in client.remaining
         THEN client' = [client EXCEPT
                !.state = IF client.remaining = {id} THEN "SecureSettingsExchange" ELSE @,
                !.remaining = @ \ {id}]
         ELSE ClientFails("protocol")
  /\ ClientTakes(<<>>)

SecureSettingsExchange ==
  /\ client.state = "SecureSettingsExchange"
  /\ client' = [client EXCEPT !.state = "ConnectTimeAutoDetection"]
  /\ ClientSends(<<Bare("ClientInfo")>>)

\* Without a message channel there is nothing to detect, and nothing is read.
NoAutoDetection ==
  /\ client.state = "ConnectTimeAutoDetection"
  /\ client.message = 0
  /\ client' = [client EXCEPT !.state = "LicensingExchange"]
  /\ ClientSends(<<>>)

ReadsLicense ==
  \/ client.state = "LicensingExchange"
  \/ client.state = "ConnectTimeAutoDetection" /\ client.message # 0

ClientLicensing ==
  /\ ReadsLicense
  /\ ClientReads("License")
  /\ client' = [client EXCEPT !.state = "MultitransportBootstrapping"]
  /\ ClientTakes(<<>>)

SoftSyncNegotiated == "SOFTSYNC" \in config.flags \cap client.flags

\* Mutant: nothing is reported without Soft-Sync.
ResponseOnlyUnderSoftSync(outcome) == SoftSyncNegotiated

ResponseRequired(outcome) == outcome = "Failure" \/ SoftSyncNegotiated

\* A request counts towards the cap; one too many ends the connection.
ClientMultitransportRequest ==
  /\ client.state = "MultitransportBootstrapping"
  /\ ClientReads("MultitransportRequest")
  /\ IF client.seen >= MAX_MULTITRANSPORT_REQUESTS
     THEN ClientFails("protocol")
     ELSE client' = [client EXCEPT !.seen = @ + 1, !.owed = TRUE,
                                   !.state = IF config.eager THEN @ ELSE "MultitransportPending"]
  /\ ClientTakes(<<>>)

\* The application reports how the UDP transport went, or declines it; the eager client does so later.
CompleteMultitransport ==
  /\ client.owed
  /\ client.state # "Failed"
  /\ \E outcome \in {"Success", "Failure"} :
       /\ client' = [client EXCEPT !.owed = FALSE, !.outcome = outcome,
                       !.state = IF @ = "MultitransportPending" THEN "MultitransportBootstrapping" ELSE @]
       /\ ClientSends(IF ResponseRequired(outcome) /\ client.message # 0
                      THEN <<[t |-> "MultitransportResponse", outcome |-> outcome]>> ELSE <<>>)

\* A handler that fails has its failure reported before the connection is given up.
AbortMultitransport ==
  /\ client.state = "MultitransportPending"
  /\ ClientFails("application")
  /\ ClientSends(<<[t |-> "MultitransportResponse", outcome |-> "Failure"]>>)

\* Outside bootstrapping this is the first PDU of a reactivation.
ClientDemandActive ==
  /\ client.state \in {"MultitransportBootstrapping", "CapabilitiesExchange"}
  /\ ClientReads("DemandActive")
  /\ client' = [client EXCEPT !.state = "ConnectionFinalization", !.sent = 0]
  /\ ClientTakes(<<Bare("ConfirmActive")>>)

ClientSendFinalization ==
  /\ client.state = "ConnectionFinalization"
  /\ client.sent < Len(ClientFinalization)
  /\ client' = [client EXCEPT !.sent = @ + 1]
  /\ ClientSends(<<Bare(ClientFinalization[client.sent + 1])>>)

\* Only then does it read; the Font Map ends the sequence and the session is active.
WaitForResponse ==
  /\ client.state = "ConnectionFinalization"
  /\ client.sent = Len(ClientFinalization)
  /\ \E t \in ToSet(ServerFinalization) \cup {"MonitorLayout"} :
       /\ ClientReads(t)
       /\ client' = IF t = "FontMap" THEN [client EXCEPT !.state = "Connected"] ELSE client
  /\ ClientTakes(<<>>)

\* The session loop stops sending and runs a new activation sequence, which itself skips the PDU.
ClientDeactivateAll ==
  /\ client.state \in {"Connected", "MultitransportBootstrapping", "CapabilitiesExchange"}
  /\ ClientReads("DeactivateAll")
  /\ client' = [client EXCEPT !.state = "CapabilitiesExchange"]
  /\ ClientTakes(<<>>)

\* The PDUs a state of the sequence can decode.
ClientExpects ==
  CASE client.state = "ConnectionInitiationWaitConfirm" -> {"ConnectionConfirm", "NegotiationFailure"}
    [] client.state = "Credssp" -> {"TsReply"}
    [] client.state = "EarlyUserAuthResult" -> {"EarlyUserAuthResult"}
    [] client.state = "BasicSettingsExchangeWaitResponse" -> {"ConnectResponse"}
    [] client.state = "WaitAttachUserConfirm" -> {"AttachUserConfirm"}
    [] client.state = "WaitChannelJoinConfirm" -> {"ChannelJoinConfirm"}
    [] ReadsLicense -> {"License"}
    [] client.state = "MultitransportBootstrapping" -> {"MultitransportRequest", "DemandActive", "DeactivateAll"}
    [] client.state = "CapabilitiesExchange" -> {"DemandActive", "DeactivateAll"}
    [] client.state = "ConnectionFinalization" /\ client.sent = Len(ClientFinalization)
         -> ToSet(ServerFinalization) \cup {"MonitorLayout"}
    [] client.state = "Connected" -> {"DeactivateAll"}
    [] OTHER -> {}

\* The connection has ended, or the next PDU is none of these: one of them says that access is denied.
ClientReadFails(serverGone) ==
  /\ ClientExpects # {}
  /\ IF toClient = <<>> THEN serverGone ELSE Head(toClient).t \notin ClientExpects
  /\ ClientFails(IF toClient = <<>> THEN "eof" ELSE IF ClientReads("AccessDenied") THEN "denied" ELSE "protocol")
  /\ toClient' = SubSeq(toClient, 2, Len(toClient))
  /\ UNCHANGED toServer

(***************************************************************************)
(* What a client sends outside the sequence: data on a static channel, an  *)
(* input event (fast-path), or a Share Data PDU such as Suppress Output on *)
(* the I/O channel.                                                        *)
(***************************************************************************)
ClientTraffic ==
  /\ client.traffic < MaxTraffic
  /\ \E kind \in Traffic :
       /\ \/ client.state = "Connected"
          \/ config.eager /\ client.state = "ConnectionFinalization" /\ kind # "ShareData"
       /\ client' = [client EXCEPT !.traffic = @ + 1, !.static = IF kind = "Static" THEN @ + 1 ELSE @]
       /\ ClientSends(<<[t |-> kind, n |-> IF kind = "Static" THEN client.static + 1 ELSE 0]>>)

ClientNext ==
  \/ SendRequest \/ WaitConfirm \/ WaitConfirmRefused \/ ClientUpgrade
  \/ ClientCredssp \/ ClientEarlyUserAuthResult \/ SendInitial \/ WaitResponse
  \/ SendErectDomain \/ SendAttachUser \/ WaitAttachUserConfirm
  \/ SendChannelJoins \/ WaitChannelJoinConfirm \/ SecureSettingsExchange
  \/ NoAutoDetection \/ ClientLicensing \/ ClientMultitransportRequest
  \/ CompleteMultitransport \/ AbortMultitransport \/ ClientDemandActive
  \/ ClientSendFinalization \/ WaitForResponse \/ ClientDeactivateAll

=============================================================================
