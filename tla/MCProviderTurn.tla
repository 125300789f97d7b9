--------------------------- MODULE MCProviderTurn ---------------------------
(* Instances of ProviderTurn for TLC. *)
EXTENDS ProviderTurn
=============================================================================
