--------------------------- MODULE ConnectionWire ---------------------------
(***************************************************************************)
(* What lies between ClientConnector and Acceptor: the configurations of   *)
(* the two ends, and one TCP connection that carries their PDUs in order.  *)
(***************************************************************************)
EXTENDS Naturals, Sequences, SequencesExt

CONSTANTS
  ClientChannels,  \* the client's static channels, in the order of its set
  ServerChannels,  \* the static channels the server has a processor for
  Configs,         \* the configurations of the two ends
  Traffic,         \* the kinds of PDU the client sends outside the sequence
  MaxTraffic,      \* bound on these PDUs
  MaxResizes       \* bound on the server's resizes

VARIABLES
  config,     \* how the two ends are configured
  toServer,   \* PDUs on their way to the acceptor
  toClient    \* and to the connector

wireVars == <<config, toServer, toClient>>

\* The channel ids the acceptor hands out start after that of the I/O channel.
USER_CHANNEL_ID == 1002
IO_CHANNEL_ID == 1003

Hybrid == {"HYBRID", "HYBRID_EX"}
None == "none"

(***************************************************************************)
(* requested and security are the protocols the client asks for and the    *)
(* server accepts (none: standard RDP security); flags and offer their     *)
(* multitransport flags (none: no such block).  extended stands for the    *)
(* message channel and monitor layout blocks, skip for the flag that saves *)
(* the channel joins: this client always sends them to this server, peers  *)
(* of another make may not.  An eager client, again of another make, sends *)
(* input and channel data as soon as its Confirm Active is out, and        *)
(* answers a multitransport request when it likes.  setup is what the      *)
(* server's application finds: nothing wrong, a wrong password, a user it  *)
(* refuses, or no desktop to show.                                         *)
(***************************************************************************)
ConfigType ==
  [requested : SUBSET ({"SSL"} \cup Hybrid), security : SUBSET ({"SSL"} \cup Hybrid),
   flags : SUBSET {"FECR", "SOFTSYNC"}, offer : SUBSET {"FECR", "SOFTSYNC"},
   extended : BOOLEAN, skip : BOOLEAN, eager : BOOLEAN,
   setup : {"ok", "mismatch", "refused", "unprepared"}]

ASSUME ConnectionAssumption ==
  /\ ClientChannels \in Seq(STRING) /\ IsInjective(ClientChannels)
  /\ Configs \subseteq ConfigType
  /\ Traffic \subseteq {"Static", "FastPath", "ShareData"}
  /\ MaxTraffic \in Nat /\ MaxResizes \in Nat

WireInit ==
  /\ config \in Configs
  /\ toServer = <<>>
  /\ toClient = <<>>

Bare(t) == [t |-> t]

\* The PDUs an end sends in finalization, in this order.
ClientFinalization == <<"Synchronize", "Cooperate", "RequestControl", "FontList">>
ServerFinalization == <<"Synchronize", "Cooperate", "GrantedControl", "FontMap">>

\* The client's half of one step: it takes the next PDU if it reads, and sends others.
ClientReads(t) == toClient # <<>> /\ Head(toClient).t = t
ClientTakes(answers) ==
  /\ toClient' = Tail(toClient)
  /\ toServer' = toServer \o answers
ClientSends(pdus) ==
  /\ toServer' = toServer \o pdus
  /\ UNCHANGED toClient

\* And the server's.
ServerReads(t) == toServer # <<>> /\ Head(toServer).t = t
ServerTakes(answers) ==
  /\ toServer' = Tail(toServer)
  /\ toClient' = toClient \o answers
ServerSends(pdus) ==
  /\ toClient' = toClient \o pdus
  /\ UNCHANGED toServer

=============================================================================
