------------------------------ MODULE MCParty -------------------------------
(* Instances of Party for TLC.                                              *)
EXTENDS Party, TLC

Symmetry == Permutations(Player \ Exempt) \cup Permutations(Address)

=============================================================================
