---------------------------- MODULE MCConnection ----------------------------
(* Instances of Connection for TLC.                                        *)
EXTENDS Connection

Channels == <<"cliprdr", "rdpsnd">>

Plain ==
  [requested |-> {"SSL"}, security |-> {"SSL"}, flags |-> {}, offer |-> {},
   extended |-> TRUE, skip |-> TRUE, eager |-> FALSE, setup |-> "ok"]

PlainOnly == {Plain}

Flags == {{}, {"FECR"}, {"FECR", "SOFTSYNC"}}

\* Every way to negotiate security, and every answer of the server's application.
Securities ==
  {[Plain EXCEPT !.requested = r, !.security = s, !.setup = p, !.flags = {"FECR"}, !.offer = {"FECR"}] :
     r \in {{}, {"SSL"}, Hybrid, {"SSL"} \cup Hybrid}, s \in {{}, {"SSL"}, {"HYBRID"}, Hybrid},
     p \in {"ok", "mismatch", "refused", "unprepared"}}

\* Every multitransport offer, and the blocks and flags a peer may lack.
Offers == {[Plain EXCEPT !.flags = f, !.offer = o] : f \in Flags, o \in Flags}
Lacking ==
  {[Plain EXCEPT !.flags = {"FECR"}, !.offer = {"FECR"}, !.extended = e, !.skip = k] :
     e \in BOOLEAN, k \in BOOLEAN}

\* Clients that send early, with Soft-Sync and without a message channel.
Eager ==
  {[c EXCEPT !.eager = TRUE] :
     c \in {d \in Offers : d.flags = d.offer /\ "SOFTSYNC" \in d.flags} \cup {d \in Lacking : ~d.extended /\ d.skip}}

AllConfigs == Securities \cup Offers \cup Lacking \cup Eager

=============================================================================
