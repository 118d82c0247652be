------------------------------ MODULE MCCliprdr -----------------------------
(* Instances of Cliprdr for TLC. *)
EXTENDS Cliprdr

Everything == [e \in End |-> {"FILES", "LOCK"}]
ServerOnly == {"Server"}
ClientOnly == {"Client"}
NoEnd == {}
AllFormats == {"files", "text"}
=============================================================================
