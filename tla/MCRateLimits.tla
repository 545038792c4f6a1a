---------------------------- MODULE MCRateLimits ----------------------------
(* Instances of RateLimits for TLC.                                        *)
EXTENDS RateLimits, TLC

Symmetry == Permutations(Senders)
=============================================================================
