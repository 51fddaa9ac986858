---------------------------- MODULE MCIdemLease ----------------------------
(* IdemLease on small instances.  Calls are interchangeable, and so are    *)
(* fingerprints.                                                           *)
EXTENDS IdemLease, TLC

Symmetry ==
    {p @@ q : p \in Permutations(Call), q \in Permutations(Fingerprint)}
=============================================================================
