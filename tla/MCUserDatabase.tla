--------------------------- MODULE MCUserDatabase ---------------------------
(* UserDatabase on a small instance: the queries "a b" and "a", whose      *)
(* fragments are those of both and the first one's alone.                  *)
EXTENDS UserDatabase, TLC

CONSTANTS ab, a, fab, fa, u, h, i, j

SmallHalo == ab :> {fab, fa} @@ a :> {fa}
SmallExact == ab :> fab @@ a :> fa

Empty == [k \in Keys |-> NONE]
Queried == [k \in Fragments |->
    [time |-> 0,
     data |-> IF k = fab THEN UrlData(ab, [x \in {u} |-> 1])
              ELSE UrlData(a, [x \in {h} |-> 2]) @@ QueryData(ab)]]
Visited == [k \in Uris |-> [time |-> 0, data |-> UriData(2)]]
SmallAmounts == -3 .. 3
SmallFiles == {Empty, Queried @@ Visited}

\* Both threads serve and sweep.
Symmetry == Permutations(Threads)
============================================================================
