----------------------------- MODULE MCGinIdem ------------------------------
(* Instances of GinIdem for TLC. *)
EXTENDS GinIdem

=============================================================================
