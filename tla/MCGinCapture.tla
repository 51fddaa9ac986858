---------------------------- MODULE MCGinCapture ----------------------------
(* Instances of GinCapture for TLC. *)
EXTENDS GinCapture

=============================================================================
