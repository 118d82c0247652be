------------------------------ MODULE Acceptor ------------------------------
(***************************************************************************)
(* The server's connection sequence: Acceptor with its channel connection  *)
(* and finalization sequences, as accept_begin, accept_credssp_with and    *)
(* accept_finalize_with_handlers drive it, and the reactivation with which *)
(* the server answers a display resize.  The Server Redirection PDU and    *)
(* auto-reconnect are not modelled.                                        *)
(***************************************************************************)
EXTENDS ConnectionWire

VARIABLE server

ServerInit ==
  server = [state |-> "InitiationWaitRequest", requested |-> {}, protocol |-> None,
            ids |-> [n \in {} |-> 0], assigned |-> <<>>, message |-> 0, skip |-> FALSE,
            layout |-> FALSE, flags |-> {}, advertised |-> {}, remaining |-> {}, joining |-> 0,
            request |-> FALSE, response |-> None, reactivation |-> FALSE,
            fin |-> 0, pending |-> <<>>, handled |-> <<>>, resizes |-> 0, why |-> None]

\* A failing step may still send one PDU, which says why.
ServerFails(why) == server' = [server EXCEPT !.state = "Failed", !.why = why]

WaitRequest ==
  /\ server.state = "InitiationWaitRequest"
  /\ ServerReads("ConnectionRequest")
  /\ server' = [server EXCEPT !.state = "InitiationSendConfirm", !.requested = Head(toServer).protocols]
  /\ ServerTakes(<<>>)

\* The strongest protocol of both, and none only for a server that wants none.
SelectProtocol(requested, security) ==
  LET common == requested \cap security
  IN  CASE "HYBRID_EX" \in common -> "HYBRID_EX"
        [] "HYBRID_EX" \notin common /\ "HYBRID" \in common -> "HYBRID"
        [] common = {"SSL"} -> "SSL"
        [] security = {} -> "RDP"
        [] OTHER -> None

SendConfirm ==
  /\ server.state = "InitiationSendConfirm"
  /\ LET protocol == SelectProtocol(server.requested, config.security)
     IN  IF protocol = None
         THEN /\ ServerFails("negotiation")
              /\ ServerSends(<<Bare("NegotiationFailure")>>)
         ELSE /\ server' = [server EXCEPT !.state = "SecurityUpgrade", !.protocol = protocol]
              /\ ServerSends(<<[t |-> "ConnectionConfirm", protocol |-> protocol]>>)

SecurityUpgrade ==
  /\ server.state = "SecurityUpgrade"
  /\ server' = [server EXCEPT !.state = IF server.protocol \in Hybrid THEN "Credssp" ELSE "BasicSettingsWaitInitial"]
  /\ ServerSends(<<>>)

\* With HYBRID_EX the outcome of CredSSP, success or not, is also reported in a PDU of its own.
EarlyResult(ok) == IF server.protocol = "HYBRID_EX" THEN <<[t |-> "EarlyUserAuthResult", ok |-> ok]>> ELSE <<>>

CredsspRound ==
  /\ server.state = "Credssp"
  /\ ServerReads("TsRequest")
  /\ IF config.setup = "mismatch"
     THEN /\ ServerFails("credentials")
          /\ ServerTakes(<<[t |-> "TsReply", ok |-> FALSE]>> \o EarlyResult(FALSE))
     ELSE /\ UNCHANGED server
          /\ ServerTakes(<<[t |-> "TsReply", ok |-> TRUE]>>)

\* The delegated credentials go to the application now for HYBRID_EX, after Client Info for HYBRID.
CredsspDone ==
  /\ server.state = "Credssp"
  /\ ServerReads("AuthInfo")
  /\ LET refused == server.protocol = "HYBRID_EX" /\ config.setup = "refused"
     IN  /\ IF refused THEN ServerFails("credentials")
            ELSE server' = [server EXCEPT !.state = "BasicSettingsWaitInitial"]
         /\ ServerTakes(EarlyResult(~refused))

\* Mutant: only the channels with a processor get an id.
WaitInitialSkippingUnknown ==
  /\ server.state = "BasicSettingsWaitInitial"
  /\ ServerReads("ConnectInitial")
  /\ LET m == Head(toServer)
         known == SelectSeq(m.channels, LAMBDA c : c \in ServerChannels)
     IN  server' = [server EXCEPT
           !.state = "BasicSettingsSendResponse",
           !.assigned = [i \in DOMAIN known |-> IO_CHANNEL_ID + i],
           !.ids = [c \in ToSet(known) |-> IO_CHANNEL_ID + CHOOSE i \in DOMAIN known : known[i] = c],
           !.message = IF m.extended THEN IO_CHANNEL_ID + Len(known) + 1 ELSE 0,
           !.layout = m.extended, !.skip = m.skip, !.flags = m.flags]
  /\ ServerTakes(<<>>)

\* Every channel asked for gets an id, with or without a processor; the message channel comes after them.
WaitInitial ==
  /\ server.state = "BasicSettingsWaitInitial"
  /\ ServerReads("ConnectInitial")
  /\ LET m == Head(toServer)
         n == Len(m.channels)
     IN  server' = [server EXCEPT
           !.state = "BasicSettingsSendResponse",
           !.assigned = [i \in 1 .. n |-> IO_CHANNEL_ID + i],
           !.ids = [c \in ToSet(m.channels) \cap ServerChannels |->
                      IO_CHANNEL_ID + CHOOSE i \in 1 .. n : m.channels[i] = c],
           !.message = IF m.extended THEN IO_CHANNEL_ID + n + 1 ELSE 0,
           !.layout = m.extended, !.skip = m.skip, !.flags = m.flags]
  /\ ServerTakes(<<>>)

\* Mutant: the message channel is not among those to join.
SendResponseMessageUnjoined ==
  /\ server.state = "BasicSettingsSendResponse"
  /\ LET advertised == IF server.message # 0 /\ server.flags # {} THEN config.offer ELSE {}
     IN  /\ server' = [server EXCEPT
              !.state = "WaitErectDomainRequest", !.advertised = advertised,
              !.remaining = {USER_CHANNEL_ID, IO_CHANNEL_ID} \cup ToSet(server.assigned)]
         /\ ServerSends(<<[t |-> "ConnectResponse", ids |-> server.assigned, message |-> server.message,
                           flags |-> advertised, skip |-> server.skip]>>)

SendResponse ==
  /\ server.state = "BasicSettingsSendResponse"
  /\ LET advertised == IF server.message # 0 /\ server.flags # {} THEN config.offer ELSE {}
     IN  /\ server' = [server EXCEPT
              !.state = "WaitErectDomainRequest", !.advertised = advertised,
              !.remaining = {USER_CHANNEL_ID, IO_CHANNEL_ID} \cup ToSet(server.assigned)
                            \cup ({server.message} \ {0})]
         /\ ServerSends(<<[t |-> "ConnectResponse", ids |-> server.assigned, message |-> server.message,
                           flags |-> advertised, skip |-> server.skip]>>)

WaitErectDomain ==
  /\ server.state = "WaitErectDomainRequest"
  /\ ServerReads("ErectDomain")
  /\ server' = [server EXCEPT !.state = "WaitAttachUserRequest"]
  /\ ServerTakes(<<>>)

WaitAttachUser ==
  /\ server.state = "WaitAttachUserRequest"
  /\ ServerReads("AttachUserRequest")
  /\ server' = [server EXCEPT !.state = "SendAttachUserConfirm"]
  /\ ServerTakes(<<>>)

SendAttachUserConfirm ==
  /\ server.state = "SendAttachUserConfirm"
  /\ server' = IF server.skip
               THEN [server EXCEPT !.state = "SecureSettingsExchange", !.remaining = {}]
               ELSE [server EXCEPT !.state = "WaitChannelJoinRequest"]
  /\ ServerSends(<<[t |-> "AttachUserConfirm", user |-> USER_CHANNEL_ID]>>)

\* The next request of the client's batch, whose order is any.
WaitChannelJoin ==
  /\ server.state = "WaitChannelJoinRequest"
  /\ ServerReads("ChannelJoinRequest")
  /\ \E id \in Head(toServer).ids :
       /\ IF id \in server.remaining
          THEN server' = [server EXCEPT !.state = "SendChannelJoinConfirm", !.joining = id, !.remaining = @ \ {id}]
          ELSE ServerFails("protocol")
       /\ IF Head(toServer).ids = {id} THEN toServer' = Tail(toServer)
          ELSE toServer' = [toServer EXCEPT ![1].ids = @ \ {id}]
  /\ UNCHANGED toClient

SendChannelJoinConfirm ==
  /\ server.state = "SendChannelJoinConfirm"
  /\ server' = [server EXCEPT !.state = IF server.remaining = {} THEN "SecureSettingsExchange"
                                        ELSE "WaitChannelJoinRequest"]
  /\ ServerSends(<<[t |-> "ChannelJoinConfirm", id |-> server.joining]>>)

(***************************************************************************)
(* Client Info.  Without CredSSP its credentials must match; after that    *)
(* the application sees the credentials it has not seen yet.               *)
(***************************************************************************)
WaitClientInfo ==
  /\ server.state = "SecureSettingsExchange"
  /\ ServerReads("ClientInfo")
  /\ IF \/ server.protocol \notin Hybrid /\ config.setup = "mismatch"
        \/ server.protocol # "HYBRID_EX" /\ config.setup = "refused"
     THEN ServerFails("credentials") /\ ServerTakes(<<Bare("AccessDenied")>>)
     ELSE /\ server' = [server EXCEPT !.state = "LicensingExchange"]
          /\ ServerTakes(<<>>)

Licensing ==
  /\ server.state = "LicensingExchange"
  /\ server' = [server EXCEPT !.state = "MultitransportBootstrapping"]
  /\ ServerSends(<<Bare("License")>>)

\* The server never waits for the answer; then the application prepares what there is to show.
MultitransportBootstrapping ==
  /\ server.state = "MultitransportBootstrapping"
  /\ LET request == server.message # 0 /\ "FECR" \in server.advertised \cap server.flags
         ready == config.setup # "unprepared"
     IN  /\ server' = [server EXCEPT !.state = IF ready THEN "CapabilitiesSendServer" ELSE "Failed",
                                     !.why = IF ready THEN @ ELSE "setup", !.request = request]
         /\ ServerSends((IF request THEN <<Bare("MultitransportRequest")>> ELSE <<>>)
                        \o (IF ready THEN <<>> ELSE <<Bare("AccessDenied")>>))

\* Mutant: the answer to the request is awaited first.
SendDemandActiveGated ==
  /\ server.state = "CapabilitiesSendServer"
  /\ server.request => server.response # None
  /\ server' = [server EXCEPT !.state = IF server.layout THEN "MonitorLayoutSend" ELSE "CapabilitiesWaitConfirm"]
  /\ ServerSends(<<Bare("DemandActive")>>)

SendDemandActive ==
  /\ server.state = "CapabilitiesSendServer"
  /\ server' = [server EXCEPT !.state = IF server.layout THEN "MonitorLayoutSend" ELSE "CapabilitiesWaitConfirm"]
  /\ ServerSends(<<Bare("DemandActive")>>)

MonitorLayoutSend ==
  /\ server.state = "MonitorLayoutSend"
  /\ server' = [server EXCEPT !.state = "CapabilitiesWaitConfirm"]
  /\ ServerSends(<<Bare("MonitorLayout")>>)

Activating == {"CapabilitiesWaitConfirm", "ConnectionFinalization"}

\* Taken out of the way before either phase looks at the PDU.  Where no request was sent, a reactivation drops it.
LateMultitransportResponse ==
  /\ server.state \in Activating
  /\ server.fin <= Len(ClientFinalization)
  /\ ServerReads("MultitransportResponse")
  /\ \/ server.request
     \/ server.reactivation /\ server.state = "CapabilitiesWaitConfirm"
  /\ server' = [server EXCEPT !.response = IF server.request THEN Head(toServer).outcome ELSE @]
  /\ ServerTakes(<<>>)

\* Fast-path frames are not what these states ask the reader for; it skips them.
SkipsFrame ==
  /\ \/ server.state = "CapabilitiesWaitConfirm"
     \/ server.state = "ConnectionFinalization" /\ server.fin < Len(ClientFinalization)
  /\ ServerReads("FastPath")
  /\ UNCHANGED server
  /\ ServerTakes(<<>>)

\* Channel data that crossed the Deactivate All is kept for the session.
KeepsChannelData ==
  /\ server.state = "CapabilitiesWaitConfirm" /\ server.reactivation
  /\ ServerReads("Static")
  /\ server' = [server EXCEPT !.pending = Append(@, Head(toServer))]
  /\ ServerTakes(<<>>)

\* Mutant: finalization starts with a buffer of its own.
WaitConfirmActiveFreshBuffer ==
  /\ server.state = "CapabilitiesWaitConfirm"
  /\ ServerReads("ConfirmActive")
  /\ server' = [server EXCEPT !.state = "ConnectionFinalization", !.fin = 1, !.pending = <<>>]
  /\ ServerTakes(<<>>)

WaitConfirmActive ==
  /\ server.state = "CapabilitiesWaitConfirm"
  /\ ServerReads("ConfirmActive")
  /\ server' = [server EXCEPT !.state = "ConnectionFinalization", !.fin = 1]
  /\ ServerTakes(<<>>)

(***************************************************************************)
(* Finalization, fin being the number of the PDU awaited.  A PDU of        *)
(* another channel is kept for the session; the first three waits take     *)
(* any PDU of the I/O channel for theirs, the last one keeps any but its   *)
(* own.                                                                    *)
(***************************************************************************)
WaitFinalization ==
  /\ server.state = "ConnectionFinalization"
  /\ server.fin \in 1 .. Len(ClientFinalization)
  /\ toServer # <<>>
  /\ LET m == Head(toServer)
         own == IF server.fin = Len(ClientFinalization) THEN m.t = "FontList"
                ELSE m.t \in ToSet(ClientFinalization) \cup {"ShareData", "ConfirmActive"}
         kept == m.t \in {"Static", "MultitransportResponse"} \/ server.fin = Len(ClientFinalization)
     IN  /\ own \/ kept
         /\ ~ (m.t = "MultitransportResponse" /\ server.request)
         /\ server' = IF own THEN [server EXCEPT !.fin = @ + 1] ELSE [server EXCEPT !.pending = Append(@, m)]
  /\ ServerTakes(<<>>)

\* The session starts with what the sequence kept.
HandlesBacklog == server.handled \o SelectSeq(server.pending, LAMBDA m : m.t = "Static")

\* After the client's four PDUs the server sends its own; with the last it is done.
SendFinalization ==
  /\ server.state = "ConnectionFinalization"
  /\ server.fin > Len(ClientFinalization)
  /\ LET i == server.fin - Len(ClientFinalization)
     IN  /\ server' = IF i < Len(ServerFinalization) THEN [server EXCEPT !.fin = @ + 1]
                      ELSE [server EXCEPT !.state = "Accepted", !.fin = 0,
                                          !.handled = HandlesBacklog, !.pending = <<>>]
         /\ ServerSends(<<Bare(ServerFinalization[i])>>)

\* The session handles whatever comes, channel by channel.
SessionReads ==
  /\ server.state = "Accepted"
  /\ toServer # <<>>
  /\ LET m == Head(toServer)
     IN  server' = [server EXCEPT !.handled = IF m.t = "Static" THEN Append(@, m) ELSE @,
                                  !.response = IF m.t = "MultitransportResponse" THEN m.outcome ELSE @]
  /\ ServerTakes(<<>>)

\* A display resize: Deactivate All, and a new acceptor that starts at the capabilities.
Resize ==
  /\ server.state = "Accepted"
  /\ server.resizes < MaxResizes
  /\ server' = [server EXCEPT !.state = "CapabilitiesSendServer", !.reactivation = TRUE,
                              !.pending = <<>>, !.resizes = @ + 1]
  /\ ServerSends(<<Bare("DeactivateAll")>>)

\* The PDUs a state of the sequence can take.  A reactivation drops what it
\* cannot decode, but Share Data does decode and is not the Confirm Active
\* expected, in a reactivation or not.
ServerExpects ==
  CASE server.state = "InitiationWaitRequest" -> {"ConnectionRequest"}
    [] server.state = "Credssp" -> {"TsRequest", "AuthInfo"}
    [] server.state = "BasicSettingsWaitInitial" -> {"ConnectInitial"}
    [] server.state = "WaitErectDomainRequest" -> {"ErectDomain"}
    [] server.state = "WaitAttachUserRequest" -> {"AttachUserRequest"}
    [] server.state = "WaitChannelJoinRequest" -> {"ChannelJoinRequest"}
    [] server.state = "SecureSettingsExchange" -> {"ClientInfo"}
    [] server.state = "CapabilitiesWaitConfirm" ->
         {"ConfirmActive", "FastPath"}
         \cup (IF server.reactivation THEN {"Static", "MultitransportResponse"} ELSE {})
         \cup (IF server.request THEN {"MultitransportResponse"} ELSE {})
    [] OTHER -> {}

\* The connection has ended, or the next PDU is none of these.
ServerReadFails(clientGone) ==
  /\ server.state # "Failed"
  /\ IF toServer = <<>> THEN clientGone ELSE ServerExpects # {} /\ Head(toServer).t \notin ServerExpects
  /\ ServerFails(IF toServer = <<>> THEN "eof" ELSE "protocol")
  /\ toServer' = SubSeq(toServer, 2, Len(toServer))
  /\ UNCHANGED toClient

ServerNext ==
  \/ WaitRequest \/ SendConfirm \/ SecurityUpgrade \/ CredsspRound \/ CredsspDone
  \/ WaitInitial \/ SendResponse \/ WaitErectDomain \/ WaitAttachUser \/ SendAttachUserConfirm
  \/ WaitChannelJoin \/ SendChannelJoinConfirm \/ WaitClientInfo \/ Licensing
  \/ MultitransportBootstrapping \/ SendDemandActive \/ MonitorLayoutSend
  \/ LateMultitransportResponse \/ SkipsFrame \/ KeepsChannelData \/ WaitConfirmActive
  \/ WaitFinalization \/ SendFinalization \/ SessionReads

=============================================================================
