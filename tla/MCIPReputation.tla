--------------------------- MODULE MCIPReputation ---------------------------
(* Instances of IPReputation for TLC.                                      *)
EXTENDS IPReputation, TLC

Symmetry == Permutations(Workers)
=============================================================================
