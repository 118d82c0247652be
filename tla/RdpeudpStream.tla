---------------------------- MODULE RdpeudpStream ---------------------------
(***************************************************************************)
(* What an established RdpeudpConnection promises its users, whatever the  *)
(* network does: two streams of chunks, one in each direction, that reach  *)
(* the other application in order and exactly once, as far as they reach   *)
(* it at all; and an end that, once closed, neither accepts nor delivers.  *)
(***************************************************************************)
EXTENDS Integers, Sequences

CONSTANTS Side, Peer(_)

VARIABLES
  open,        \* per side, whether it is not closed
  accepted,    \* per side, how many chunks its application has sent
  delivered    \* per side, the chunks its application has received

vars == <<open, accepted, delivered>>

Init ==
  /\ open = [p \in Side |-> TRUE]
  /\ accepted = [p \in Side |-> 0]
  /\ delivered = [p \in Side |-> <<>>]

\* The application of p sends some chunks in one call.
Accept(p) ==
  /\ open[p]
  /\ accepted'[p] > accepted[p]
  /\ accepted' = [accepted EXCEPT ![p] = accepted'[p]]
  /\ UNCHANGED <<open, delivered>>

\* The application of p receives the next n chunks of its peer's stream.
Deliver(p, n) ==
  /\ open[p]
  /\ Len(delivered[p]) + n <= accepted[Peer(p)]
  /\ delivered' = [delivered EXCEPT ![p] = @ \o [i \in 1 .. n |-> Len(@) + i]]
  /\ UNCHANGED <<open, accepted>>

Close(p) ==
  /\ open[p]
  /\ open' = [open EXCEPT ![p] = FALSE]
  /\ UNCHANGED <<accepted, delivered>>

Next ==
  \E p \in Side :
    \/ Accept(p)
    \/ \E n \in 1 .. accepted[Peer(p)] : Deliver(p, n)
    \/ Close(p)

Spec == Init /\ [][Next]_vars
=============================================================================
