------------------------------- MODULE MCEgfx -------------------------------
(* An instance of Egfx for TLC. *)
EXTENDS Egfx

NothingStored == <<>>
=============================================================================
