----------------------------- MODULE MCGrpcIdem -----------------------------
(* Instances of GrpcIdem for TLC. *)
EXTENDS GrpcIdem, TLC

=============================================================================
