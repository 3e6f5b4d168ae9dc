------------------------------- MODULE Likeness -------------------------------
(* The locality sensitive hash table of texts (lsh): a text is cut down to    *)
(* some of its bits, in L ways, and is found by texts that have the same bits *)
(* in one of them.                                                            *)
EXTENDS Integers, Sequences, FiniteSets, FiniteSetsExt, Functions, SequencesExt

CONSTANTS
    CharBits,       \* bits of a character; a character is the set of the places of its ones
    FixedSize,      \* characters of a text that count
    Blank,          \* the character that fills a short text
    Factors,        \* for each place, the factors of the main and of the control key
    Modulo,         \* of the control key
    Size            \* slots of the table

-----------------------------------------------------------------------------
(* Bits and keys.                                                            *)

TotalBits == CharBits * FixedSize
Fixed(text) == [i \in 1 .. FixedSize |-> IF i <= Len(text) THEN text[i] ELSE Blank]
StrToBits(text) == UNION {{(i - 1) * CharBits + b : b \in Fixed(text)[i]} : i \in 1 .. FixedSize}

\* Places are drawn until there are n of them; place 0 never is.
InitG(drawn, n) ==
    FoldLeft(LAMBDA g, r : IF Cardinality(g) < n THEN g \cup {r + 1} ELSE g, {}, drawn)
LprojectStr(bits, masks) == [l \in DOMAIN masks |-> masks[l] \cap bits]

BitHash(bits, which) == MapThenSumSet(LAMBDA i : Factors[i][which] % Modulo, bits)
MainKey(bits) == BitHash(bits, "main") % Size
ControlKey(bits) == BitHash(bits, "control")
\* The factors are the same for all l: they are drawn from the same seeds.
LKeysFromStr(text, masks) ==
    [l \in DOMAIN masks |->
        LET bits == LprojectStr(StrToBits(text), masks)[l]
        IN  [mkey |-> MainKey(bits), ckey |-> ControlKey(bits)]]
Distance(a, b) == Cardinality(SymDiff(StrToBits(a), StrToBits(b)))

-----------------------------------------------------------------------------
(* The table.  A bucket that becomes empty is reset and waits to be used again. *)

Bucket(ckey, elements) == [ckey |-> ckey, elements |-> elements]
\* used: the slots that have a vector; made: the buckets allocated so far; r: what the
\* operation returns.
EmptyTable == [slots |-> [k \in 0 .. Size - 1 |-> <<>>], used |-> {}, filled |-> <<>>,
               free |-> <<>>, made |-> 0, r |-> 0]

BucketIn(slot, ckey) == {i \in DOMAIN slot : slot[i].ckey = ckey}
\* The next bucket: one that waits, or a new one.
NextBucket(t, k, text) ==
    IF t.free # <<>>
    THEN Bucket(k.ckey, Head(t.free).elements \cup {text})
    ELSE Bucket(k.ckey, {text})
Taken(t) == IF t.free # <<>> THEN [t EXCEPT !.free = Tail(@)] ELSE [t EXCEPT !.made = @ + 1]
AddOne(t, k, text) ==
    LET slot == t.slots[k.mkey]
        bucket == NextBucket(t, k, text)
    IN  IF k.mkey \notin t.used
        THEN [Taken(t) EXCEPT !.slots[k.mkey] = <<bucket>>, !.r = @ + 3,
                 !.used = @ \cup {k.mkey}, !.filled = Append(@, k.mkey)]
        ELSE IF BucketIn(slot, k.ckey) = {}
        THEN [Taken(t) EXCEPT !.slots[k.mkey] = Append(@, bucket), !.r = @ + 2,
                 !.filled = IF slot = <<>> THEN Append(@, k.mkey) ELSE @]
        ELSE [t EXCEPT !.slots[k.mkey][Min(BucketIn(slot, k.ckey))].elements = @ \cup {text},
                       !.r = @ + 1]

RemoveIndex(filled, key) ==
    LET at == {i \in DOMAIN filled : filled[i] = key} IN RemoveAt(filled, Min(at))
\* The slot of the last bucket stays, without a place in the index: the destructor
\* forgets it.
Emptied(t, k, i) ==
    LET rest == RemoveAt(t.slots[k.mkey], i)
    IN  [t EXCEPT !.slots[k.mkey] = rest, !.free = Append(@, Bucket(0, {})),
                  !.filled = IF rest = <<>> THEN RemoveIndex(@, k.mkey) ELSE @]
RemoveFrom(t, k, text, i) ==
    LET left == t.slots[k.mkey][i].elements \ {text}
        next == [t EXCEPT !.slots[k.mkey][i].elements = left,
                          !.r = IF text \in t.slots[k.mkey][i].elements THEN @ + 1 ELSE @]
    IN  IF left = {} THEN Emptied(next, k, i) ELSE next
RemoveOne(t, k, text) ==
    LET slot == t.slots[k.mkey]
    IN  IF BucketIn(slot, k.ckey) = {} THEN t
        ELSE RemoveFrom(t, k, text, Min(BucketIn(slot, k.ckey)))

\* An operation on all L keys returns the mean of what the single ones return.
Counting(t) == [t EXCEPT !.r = 0]
LAdd(t, text, masks) ==
    FoldLeft(LAMBDA acc, k : AddOne(acc, k, text), Counting(t), LKeysFromStr(text, masks))
LRemove(t, text, masks) ==
    FoldLeft(LAMBDA acc, k : RemoveOne(acc, k, text), Counting(t), LKeysFromStr(text, masks))
Returned(t, masks) == t.r \div Len(masks)

GetL(t, text, masks) ==
    FlattenSeq([l \in DOMAIN masks |->
        LET k == LKeysFromStr(text, masks)[l]
            slot == t.slots[k.mkey]
        IN  IF BucketIn(slot, k.ckey) = {} THEN <<>>
            ELSE <<slot[Min(BucketIn(slot, k.ckey))].elements>>])
GetLElts(t, text, masks) == UNION Range(GetL(t, text, masks))

\* With probabilities: the key of the answer is the probability, so that of equal ones only
\* the first in the order of the texts is told.
Hits(found, u) == Cardinality({i \in DOMAIN found : u \in found[i]})
GetLEltsWithProbabilities(t, text, masks, order) ==
    LET found == GetL(t, text, masks)
    IN  {u \in UNION Range(found) :
            \A v \in UNION Range(found) : Hits(found, v) = Hits(found, u) => order[u] <= order[v]}

CountBuckets(t) == MapThenSumSet(LAMBDA i : Len(t.slots[t.filled[i]]), DOMAIN t.filled)

-----------------------------------------------------------------------------
(* Properties.                                                              *)

\* What was done, and what is in the table after it.
Done(ops, masks) ==
    FoldLeft(LAMBDA t, o : IF o.adds THEN LAdd(t, o.text, masks) ELSE LRemove(t, o.text, masks),
             EmptyTable, ops)
Live(ops) ==
    FoldLeft(LAMBDA s, o : IF o.adds THEN s \cup {o.text} ELSE s \ {o.text}, {}, ops)
Alike(t, u, masks) ==
    \E l, n \in DOMAIN masks : LKeysFromStr(t, masks)[l] = LKeysFromStr(u, masks)[n]

\* After any additions and removals, a text finds those in the table that share a key with
\* it, and no others; the likeliest is told with its probability
\* (LSHUniformHashTable.h 284-490, BucketOperations.h 59-140).
FindsItsLike(ops, masks, text, order) ==
    LET t == Done(ops, masks)
        found == GetL(t, text, masks)
        told == GetLEltsWithProbabilities(t, text, masks, order)
    IN  /\ GetLElts(t, text, masks) = {u \in Live(ops) : Alike(text, u, masks)}
        /\ \A u \in UNION Range(found) : \E v \in told : Hits(found, v) >= Hits(found, u)

\* The index holds the slots with buckets, each once; a bucket is not empty, has a key of its
\* own in its slot, and is in the table or waits, empty, to be used again
\* (LSHUniformHashTable.h 308-443).
TableHolds(ops, masks) ==
    LET t == Done(ops, masks)
    IN  /\ Range(t.filled) = {k \in DOMAIN t.slots : t.slots[k] # <<>>}
        /\ Len(t.filled) = Cardinality(Range(t.filled))
        /\ \A k \in DOMAIN t.slots : \A i, j \in DOMAIN t.slots[k] :
               /\ t.slots[k][i].elements # {}
               /\ i # j => t.slots[k][i].ckey # t.slots[k][j].ckey
        /\ t.made = CountBuckets(t) + Len(t.free)
        /\ \A i \in DOMAIN t.free : t.free[i] = Bucket(0, {})

\* Texts that differ in none of the bits looked at, in one of the L ways, are alike; who
\* differs in fewer bits than the ways that are needed to see them all is (LSHSystemHamming.cpp
\* 175-234).
NearIsAlike(a, b, masks) ==
    LET seen == {l \in DOMAIN masks : masks[l] \cap SymDiff(StrToBits(a), StrToBits(b)) # {}}
    IN  /\ seen # DOMAIN masks => Alike(a, b, masks)
        /\ (\A k, l \in DOMAIN masks : k # l => masks[k] \cap masks[l] = {})
               /\ Distance(a, b) < Len(masks) => Alike(a, b, masks)
=============================================================================
