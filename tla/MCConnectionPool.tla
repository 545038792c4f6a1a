-------------------------- MODULE MCConnectionPool --------------------------
(* Instances of ConnectionPool for TLC.                                    *)
EXTENDS ConnectionPool, TLC

Symmetry == Permutations(Conns) \cup Permutations(Workers) \cup Permutations(Keys)
=============================================================================
