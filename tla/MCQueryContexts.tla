------------------------- MODULE MCQueryContexts -------------------------
(* Instances of QueryContexts for TLC. *)
EXTENDS QueryContexts, TLC

Symmetry == Permutations(Threads) \cup Permutations(Ctxs) \cup Permutations(Keys)
===========================================================================
