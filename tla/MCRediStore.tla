---------------------------- MODULE MCRediStore -----------------------------
(* RediStore on small instances. *)
EXTENDS RediStore, TLC

Symmetry ==
    {p @@ q : p \in Permutations(Call), q \in Permutations(Fingerprint)}

=============================================================================
