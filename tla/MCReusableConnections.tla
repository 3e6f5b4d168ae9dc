----------------------- MODULE MCReusableConnections -----------------------
(* ReusableConnections on small instances.                                *)
EXTENDS ReusableConnections, TLC

Symmetry == Permutations(Threads) \union Permutations(Sockets) \union Permutations(Dests)
============================================================================
