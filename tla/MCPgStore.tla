----------------------------- MODULE MCPgStore -----------------------------
(* PgStore on small instances. *)
EXTENDS PgStore, TLC

Symmetry == Permutations(Call)
=============================================================================
