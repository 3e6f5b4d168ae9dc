--------------------------- MODULE MCRecordStore ---------------------------
(* Instances of RecordStore for TLC. *)
EXTENDS RecordStore, TLC

Symmetry == Permutations(Threads) \cup Permutations(Caches)
            \cup Permutations(Recs) \cup Permutations(Keys)
=============================================================================
