----------------------------- MODULE DrdynvcWire ----------------------------
(***************************************************************************)
(* What lies between DrdynvcClient and DrdynvcServer: the static channel   *)
(* over TCP and the reliable UDP tunnel of a multitransport session.  Each *)
(* keeps the order of what is sent on it; nothing orders one against the   *)
(* other.                                                                  *)
(***************************************************************************)
EXTENDS Naturals, Sequences, Functions

CONSTANTS
  OnceNames,       \* names registered with with_dynamic_channel
  FactoryNames,    \* names registered with with_dynamic_channel_factory
  OtherNames,      \* names the client has no listener for
  MaxChannels,     \* bound on the channels the server creates
  MaxData          \* bound on the messages the two ends send

ASSUME WireAssumption ==
  /\ MaxChannels \in Nat /\ MaxData \in Nat
  /\ OnceNames \cap FactoryNames = {} /\ (OnceNames \cup FactoryNames) \cap OtherNames = {}

VARIABLES
  tcp,         \* DRDYNVC PDUs on their way to a side, over the static channel
  tunnel,      \* and over the reliable UDP tunnel
  sent,        \* messages each side has sent on a channel
  received     \* the messages each side's processor of a channel has got

wireVars == <<tcp, tunnel, sent, received>>

End == {"Client", "Server"}
Other(e) == CHOOSE o \in End : o # e
Names == OnceNames \cup FactoryNames \cup OtherNames
Ids == 0 .. (MaxChannels - 1)

WireInit ==
  /\ tunnel = [e \in End |-> <<>>]
  /\ sent = [e \in End |-> [id \in Ids |-> 0]]
  /\ received = [e \in End |-> [id \in Ids |-> <<>>]]

Pdu ==
  [t : {"Caps", "CapsResponse", "SoftSyncResponse", "MultitransportResponse"}]
  \cup [t : {"Create"}, id : Ids, name : Names]
  \cup [t : {"CreateResponse"}, id : Ids, ok : BOOLEAN]
  \cup [t : {"Close"}, id : Ids]
  \cup [t : {"Data"}, id : Ids, n : 1 .. MaxData]
  \cup [t : {"SoftSyncRequest"}, ids : SUBSET Ids]

\* The sequence of some ids in ascending order, as a set of one.
Ascending(ids) ==
  {s \in UNION {[1 .. k -> ids] : k \in 0 .. MaxChannels} :
     Range(s) = ids /\ \A i, j \in DOMAIN s : i < j => s[i] < s[j]}

Bare(t) == [t |-> t]
Create(id, name) == [t |-> "Create", id |-> id, name |-> name]
CreateResponse(id, ok) == [t |-> "CreateResponse", id |-> id, ok |-> ok]
ClosePdu(id) == [t |-> "Close", id |-> id]
DataPdu(id, n) == [t |-> "Data", id |-> id, n |-> n]

\* End e takes the next PDU of a path and answers with others on the same path.
Exchanges(path, e, answers) == [path EXCEPT ![e] = Tail(@), ![Other(e)] = @ \o answers]

\* End e sends PDUs on a path.
Sends(path, e, pdus) == [path EXCEPT ![Other(e)] = @ \o pdus]

\* The next message of a channel goes out on the path of its routing.
SendsData(e, id, routedOverTunnel) ==
  /\ SumFunction([p \in End \X Ids |-> sent[p[1]][p[2]]]) < MaxData
  /\ sent' = [sent EXCEPT ![e][id] = @ + 1]
  /\ LET pdu == <<DataPdu(id, sent[e][id] + 1)>>
     IN  IF routedOverTunnel
         THEN tunnel' = Sends(tunnel, e, pdu) /\ UNCHANGED tcp
         ELSE tcp' = Sends(tcp, e, pdu) /\ UNCHANGED tunnel
  /\ UNCHANGED received

\* The processor of a channel is given a message.
Gets(e, m) == received' = [received EXCEPT ![e][m.id] = Append(@, m.n)]
=============================================================================
