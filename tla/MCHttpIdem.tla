----------------------------- MODULE MCHttpIdem -----------------------------
(* Instances of HttpIdem for TLC.  The requests are interchangeable.      *)

EXTENDS HttpIdem, TLC

Symmetric == Permutations(Call)

=============================================================================
