------------------------------ MODULE MCDrdynvc -----------------------------
(* Small instances of Drdynvc. *)
EXTENDS Drdynvc

\* One channel is registered with the server; the rest it creates.
OneRegistered == <<"gfx">>
Gfx == {"gfx"}
Input == {"input"}
Absent == {"video"}
NoNames == {}
NoOne == {}
TheServer == {"Server"}
=============================================================================
