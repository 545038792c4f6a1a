----------------------------- MODULE MCMXLookup -----------------------------
(* Instances of MXLookup for TLC.                                          *)
EXTENDS MXLookup, TLC

Symmetry == Permutations(Lookups)
=============================================================================
