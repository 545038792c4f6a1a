----------------------------- MODULE MCKeyStore -----------------------------
(* Instances of KeyStore for TLC.                                          *)
EXTENDS KeyStore, TLC

CONSTANTS d3, s1

(* Without a map every domain uses the fallback selector; with one at most *)
(* one domain has a selector, which edits may change.                      *)
MCConfigs == { [path |-> FALSE, fallback |-> s1],
               [path |-> TRUE, fallback |-> NoSelector] }
MCMaps == { [d \in Domains |-> IF d = e THEN s ELSE NoSelector] :
              e \in Domains \ {d3}, s \in Selectors \cup {NoSelector} }

(* Every domain but the last has a key.                                    *)
MCInitialDisks == { [f \in Selectors \X Domains |->
                       IF f[2] = d3 THEN "missing" ELSE "k1"] }

Symmetry == Permutations(Lookups) \cup Permutations(Domains \ {d3})
=============================================================================
