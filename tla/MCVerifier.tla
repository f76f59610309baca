----------------------------- MODULE MCVerifier -----------------------------
(* Verifier on small sets of names, addresses and workers.                   *)
EXTENDS Verifier, TLC

MCSymmetry == Permutations(Name) \cup Permutations(Addr) \cup Permutations(Workers)

=============================================================================
