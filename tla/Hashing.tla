------------------------------- MODULE Hashing -------------------------------
(* The keys of queries: numbers on a circle (DHTKey), the chains of words a  *)
(* query is cut into (mrf, qprocess), and how far two of them are apart.      *)
EXTENDS Integers, Sequences, FiniteSets, FiniteSetsExt, Functions, SequencesExt

CONSTANTS
    Bits,       \* of a key; a key is the set of the places of its ones
    Digit,      \* bits of a digit and of a byte
    Number,     \* bits of a number that is serialized
    Window,     \* the most words of a chain
    LongQuery,  \* words from which on a query has but one key for each start
    OneLetter   \* words of one letter, which are no features of a text by themselves

-----------------------------------------------------------------------------
(* Keys.                                                                    *)

Places == 0 .. Bits - 1
AllKeys == SUBSET Places
Upwards == [i \in 1 .. Bits |-> i - 1]
Value(a) == MapThenSumSet(LAMBDA i : 2 ^ i, a)

With(key, i, one) == IF one THEN key \cup {i} ELSE key \ {i}
\* The loops of + and -: ret is what is carried or borrowed.
PlusBit(a, b, acc, i) ==
    IF i \in a /\ i \in b THEN [key |-> With(acc.key, i, acc.ret), ret |-> TRUE]
    ELSE IF i \notin a /\ i \notin b
    THEN [key |-> IF acc.ret THEN With(acc.key, i, TRUE) ELSE acc.key, ret |-> FALSE]
    ELSE [acc EXCEPT !.key = With(@, i, ~acc.ret)]
Plus(a, b) ==
    IF a \cap b = {} THEN a \cup b
    ELSE FoldLeft(LAMBDA acc, i : PlusBit(a, b, acc, i), [key |-> a, ret |-> FALSE], Upwards).key
MinusBit(a, b, acc, i) ==
    IF (i \in a) = (i \in b)
    THEN IF acc.ret \/ i \in b THEN [acc EXCEPT !.key = With(@, i, acc.ret)] ELSE acc
    ELSE IF i \in b THEN [key |-> With(acc.key, i, ~acc.ret), ret |-> TRUE]
    ELSE [key |-> IF acc.ret THEN With(acc.key, i, FALSE) ELSE acc.key, ret |-> FALSE]
Minus(a, b) ==
    FoldLeft(LAMBDA acc, i : MinusBit(a, b, acc, i), [key |-> a, ret |-> FALSE], Upwards).key

\* ++ and --: the lowest zero, or one, is turned, and all below it.
Next1(a) == LET free == Places \ a IN
    IF free = {} THEN {} ELSE {i \in a : i > Min(free)} \cup {Min(free)}
Previous(a) == IF a = {} THEN Places ELSE (a \ {Min(a)}) \cup 0 .. Min(a) - 1

\* The highest place at which two keys differ decides.
Less(a, b) == a # b /\ Max(SymDiff(a, b)) \in b
LessEq(a, b) == a = b \/ Less(a, b)
OneAt(n) == IF n < Bits THEN {n} ELSE {}
Successor(a, n) == Plus(a, OneAt(n))
Predecessor(a, n) == Minus(a, OneAt(n))
TopBitPos(a) == IF a = {} THEN 0 ELSE Max(a)

\* Where x is on the circle, going up from a to b; from a key to itself it is all of it.
Between(x, a, b) ==
    IF a = b THEN x # a
    ELSE IF Less(a, b) THEN Less(x, b) /\ Less(a, x) ELSE Less(x, b) \/ Less(a, x)
Incl(x, a, b) ==
    \/ a = b /\ x = a
    \/ IF Less(a, b) THEN LessEq(x, b) /\ LessEq(a, x) ELSE LessEq(x, b) \/ LessEq(a, x)
LeftIncl(x, a, b) ==
    \/ a = b /\ x = a
    \/ IF Less(a, b) THEN Less(x, b) /\ LessEq(a, x) ELSE Less(x, b) \/ LessEq(a, x)
RightIncl(x, a, b) ==
    \/ a = b /\ x = a
    \/ IF Less(a, b) THEN LessEq(x, b) /\ Less(a, x) ELSE LessEq(x, b) \/ Less(a, x)

\* Texts of a key: digits, the highest first; a digit is a set of places below Digit.
Slice(key, from, n) == {i \in 0 .. n - 1 : from + i \in key}
ToRstring(a) == [i \in 1 .. Bits \div Digit |-> Slice(a, Bits - i * Digit, Digit)]
\* What is too long has no key: bitset throws; what is short lacks its lowest digits.
FromRstring(s) ==
    IF Len(s) > Bits \div Digit THEN "out of range"
    ELSE UNION {{Bits - i * Digit + j : j \in s[i]} : i \in DOMAIN s}
\* The bytes of a hash, of which the first has the highest places.
Convert(hash) == UNION {{Bits - i * Digit + j : j \in hash[i]} : i \in DOMAIN hash}

\* A key is sent as numbers, the lowest first, each in bytes, the lowest first.
Bytes(number) == [j \in 1 .. Number \div Digit |-> Slice(number, (j - 1) * Digit, Digit)]
Serialize(a) ==
    FoldLeft(LAMBDA s, i : s \o Bytes(Slice(a, i * Number, Number)), <<>>,
             [i \in 1 .. Bits \div Number |-> i - 1])
FromBytes(bytes) == UNION {{(j - 1) * Digit + k : k \in bytes[j]} : j \in DOMAIN bytes}
Unserialize(ser) ==
    UNION {{i * Number + k : k \in FromBytes(SubSeq(ser, i * (Number \div Digit) + 1,
                                                    (i + 1) * (Number \div Digit)))} :
              i \in 0 .. Bits \div Number - 1}

-----------------------------------------------------------------------------
(* Chains of words.  A word is a number; SKIP stands for one left out.       *)

SKIP == 0
NoChain == [words |-> <<>>, radius |-> 0, skip |-> FALSE]
AddToken(c, w) == [c EXCEPT !.words = Append(@, w), !.skip = @ \/ w = SKIP]
ChainOf(w, radius) == AddToken([NoChain EXCEPT !.radius = radius], w)
RemoveToken(c, i) ==
    IF i \notin DOMAIN c.words THEN c
    ELSE LET rest == RemoveAt(c.words, i)
         IN  [c EXCEPT !.words = rest,
                       !.skip = (@ /\ c.words[i] # SKIP) \/ SKIP \in Range(rest)]
RankAlpha(words) == SortSeq(words, <)
\* What is hashed: the words in the order of the alphabet, unless some are left out.
Hashed(c) == IF c.skip THEN c.words ELSE RankAlpha(c.words)
Feature(c) == [key |-> Hashed(c), radius |-> c.radius]

\* intersect: the sorted copies are thrown away, so that only neighbours are made one.
Uniq(words) ==
    FoldLeft(LAMBDA s, w : IF s # <<>> /\ Last(s) = w THEN s ELSE Append(s, w), <<>>, words)
Intersect(a, b) == SelectSeq(Uniq(a), LAMBDA w : w \in Range(Uniq(b)))

\* A chain goes on with the next word, which makes a feature, or without it.
Longer(c, w) == [AddToken(c, w) EXCEPT !.radius = @ - 1]
Grown(chains, w) ==
    FoldLeft(LAMBDA s, c : s \o <<Longer(c, w), AddToken(c, SKIP)>>, <<>>, chains)
Fits(c, min, max) == c.radius \in min .. max
Made(chains, min, max) == SelectSeq(chains, LAMBDA c : Fits(c, min, max) /\ Last(c.words) # SKIP)

\* mrf_build: the features of the chains that start with the first word.
Lengths(tokens, window) == [i \in 1 .. Min({Len(tokens), window}) - 1 |-> i + 1]
BuildStep(tokens, min, max, acc, i) ==
    LET next == Grown(acc.chains, tokens[i])
    IN  [chains |-> next, features |-> acc.features \o Made(next, min, max)]
MrfBuild(tokens, radius, min, max, window) ==
    LET first == <<ChainOf(tokens[1], radius)>>
    IN  FoldLeft(LAMBDA acc, i : BuildStep(tokens, min, max, acc, i),
                 [chains |-> first, features |-> Made(first, min, max)],
                 Lengths(tokens, window)).features

From(tokens, i) == SubSeq(tokens, i, Len(tokens))
MrfFeaturesQuery(tokens, min, max) ==
    LET window == Min({Len(tokens), Window})
    IN  FoldLeft(LAMBDA s, i : s \o MrfBuild(From(tokens, i), window - 1, min, max, window), <<>>,
                 [i \in DOMAIN tokens |-> i])

\* Queries that are asked at once; the words are told apart by & and | as by blanks.
BAR == -1
AMP == -2
Tokenize(query) == SelectSeq(query, LAMBDA w : w \notin {BAR, AMP})
CutAt(query, cut) ==
    LET parts == FoldLeft(LAMBDA s, w : IF w = cut THEN Append(s, <<>>)
                                        ELSE Front(s) \o <<Append(Last(s), w)>>, <<<<>>>>, query)
    IN  SelectSeq(parts, LAMBDA p : p # <<>>)
\* A bar anywhere has the query cut at its ampersands.
CompileQuery(query) == IF BAR \notin Range(query) THEN <<query>> ELSE CutAt(query, AMP)
\* The keys of a query with their radius: a bag, since a word may come twice.
MrfQuery160(tokens, min, max) ==
    LET made == MrfFeaturesQuery(tokens, min, max) IN [i \in DOMAIN made |-> Feature(made[i])]
GenerateQueryHashes(query, min, max, protection) ==
    FoldLeft(LAMBDA s, q : s \o MrfQuery160(Tokenize(q), min,
                 IF protection /\ Len(Tokenize(q)) > LongQuery THEN 0 ELSE max),
             <<>>, CompileQuery(query))

-----------------------------------------------------------------------------
(* Features of texts.                                                       *)

\* A token of a text: what remains of it, if anything; with a window, a stop word leaves its
\* place.  STOP stands for all of them.
STOP == 100
Kept(word, stops, window) ==
    IF word.digit THEN <<>>
    ELSE IF word.w \notin stops THEN <<word.w>>
    ELSE IF window > 1 THEN <<STOP>> ELSE <<>>
\* The window moves by step words, and is filled again.
RECURSIVE Windows(_, _, _, _, _)
Windows(tokens, words, step, most, least) ==
    LET left == IF Len(tokens) > step THEN SubSeq(tokens, step + 1, Len(tokens)) ELSE <<>>
        more == Min({Len(words), most - Len(left)})
        full == left \o SubSeq(words, 1, more)
    IN  IF full = <<>> \/ Len(full) < least THEN <<>>
        ELSE <<full>> \o Windows(full, SubSeq(words, more + 1, Len(words)), step, most, least)
\* One word alone must have more than a letter.
Weighty(c) == Len(c.words) > 1 \/ c.words[1] \notin OneLetter \cup {STOP}
WindowFeatures(tokens, max, window) ==
    SelectSeq(MrfBuild(tokens, window - Max({1, window - Len(tokens)}), 0, max, window), Weighty)
TextTokens(words, stops, window) ==
    FoldLeft(LAMBDA s, w : s \o Kept(w, stops, window), <<>>, words)
TokenizeAndMrfFeatures(words, stops, max, step, window) ==
    IF max > window THEN <<>>       \* the difference has no sign
    ELSE FoldLeft(LAMBDA s, t : s \o WindowFeatures(t, max, window), <<>>,
                  Windows(<<>>, TextTokens(words, stops, window), step, window, window - max))
Weight(features, key) == Cardinality({i \in DOMAIN features : Hashed(features[i]) = key})

UniqueFeatures(sorted) == IF Len(sorted) = 1 THEN sorted ELSE Uniq(sorted)
\* How many features two sorted lists have in common, going through both.
RECURSIVE Common(_, _, _, _)
Common(f, g, i, j) ==
    IF i > Len(f) THEN 0
    ELSE IF f[i] = g[j] THEN 1 + (IF j = Len(g) THEN 0 ELSE Common(f, g, i + 1, j + 1))
    ELSE IF f[i] > g[j] THEN IF j = Len(g) THEN 0 ELSE Common(f, g, i, j + 1)
    ELSE Common(f, g, i + 1, j)
\* An empty second list is read past its end.
Distance(f, g) ==
    IF f # <<>> /\ g = <<>> THEN "out of range"
    ELSE LET common == IF f = <<>> THEN 0 ELSE Common(f, g, 1, 1)
         IN  (Len(f) - common) + (Len(g) - common)

-----------------------------------------------------------------------------
(* Properties.                                                              *)

Modulus == 2 ^ Bits
\* Keys are numbers on a circle: the operators agree with arithmetic, and a key lies between
\* two others if, going up from the first, it is met before the second (DHTKey.cpp 59-323).
Ahead(x, a) == (Value(x) + Modulus - Value(a)) % Modulus
RoundTrip(a, b) == IF a = b THEN Modulus ELSE Ahead(b, a)
OnTheCircle(x, a, b) ==
    /\ Value(Plus(a, b)) = (Value(a) + Value(b)) % Modulus
    /\ Plus(Minus(a, b), b) = a
    /\ Next1(a) = Successor(a, 0) /\ Previous(a) = Predecessor(a, 0)
    /\ Less(a, b) <=> Value(a) < Value(b)
    /\ Between(x, a, b) <=> Ahead(x, a) > 0 /\ Ahead(x, a) < RoundTrip(a, b)
    /\ a # b => /\ LeftIncl(x, a, b) <=> Ahead(x, a) < Ahead(b, a)
                /\ RightIncl(x, a, b) <=> Ahead(x, a) > 0 /\ Ahead(x, a) <= Ahead(b, a)
                /\ Incl(x, a, b) <=> Ahead(x, a) <= Ahead(b, a)

\* A key survives being written and read, as text and as bytes (DHTKey.cpp 509-573).
WrittenIsRead(a) ==
    /\ FromRstring(ToRstring(a)) = a /\ Unserialize(Serialize(a)) = a
    /\ Convert(ToRstring(a)) = a

KeysOf(query, max) ==
    {f.key : f \in Range(GenerateQueryHashes(query, 0, max, FALSE))}
\* What a user asked, and others with the same words in any order, is found under one key
\* of radius 0, and nothing else is; who shares a word meets at the largest radius
\* (mrf.h 170-190, 219-305, mrf.cpp 107-127).
SameBag(p, q) == RankAlpha(p) = RankAlpha(q)
WordsMeet(p, q) ==
    /\ Len(p) \in 1 .. Window /\ Len(q) \in 1 .. Window
            => (KeysOf(p, 0) \cap KeysOf(q, 0) # {} <=> SameBag(p, q))
    /\ Range(p) \cap Range(q) # {} => KeysOf(p, Window - 1) \cap KeysOf(q, Window - 1) # {}

\* The chains of a query are what its words allow: a first word, and of those behind it in
\* the window any; the radius counts the words left out.
ChainAt(tokens, i, S) ==
    [k \in 1 .. Max(S) - i + 1 |-> IF i + k - 1 \in S THEN tokens[i + k - 1] ELSE SKIP]
ChainsOf(tokens, max) ==
    LET window == Min({Len(tokens), Window})
    IN  {<<i, S>> \in (DOMAIN tokens) \X SUBSET DOMAIN tokens :
            i \in S /\ S \subseteq i .. i + window - 1 /\ window - Cardinality(S) <= max}
AllChains(tokens, max) ==
    /\ {c.words : c \in Range(MrfFeaturesQuery(tokens, 0, max))}
         = {ChainAt(tokens, c[1], c[2]) : c \in ChainsOf(tokens, max)}
    /\ Len(MrfFeaturesQuery(tokens, 0, max)) = Cardinality(ChainsOf(tokens, max))

\* The distance of two lists is the number of features that only one of them has
\* (mrf.cpp 680-731).
Times(f, w) == Cardinality({i \in DOMAIN f : f[i] = w})
Apart(f, g) ==
    g # <<>> => Distance(f, g) =
        MapThenSumSet(LAMBDA w : Max({Times(f, w), Times(g, w)}) - Min({Times(f, w), Times(g, w)}),
                      Range(f) \cup Range(g))

\* The highest bit of a key gives its size (DHTKey.cpp 280-288).
TopIsSize(a) == a # {} => 2 ^ TopBitPos(a) <= Value(a) /\ Value(a) < 2 ^ (TopBitPos(a) + 1)

\* A word that is put on a chain is taken off again, and whether words are left out of the
\* chain is known whatever is taken off (mrf.cpp 175-200).
TokensComeOff(words, w) ==
    LET c == FoldLeft(AddToken, NoChain, words)
    IN  /\ RemoveToken(AddToken(c, w), Len(words) + 1) = c
        /\ \A i \in DOMAIN words : LET d == RemoveToken(c, i) IN d.skip <=> SKIP \in Range(d.words)

\* The words two sorted texts share, each once and whichever comes first; and the distance of
\* their features when each counts once (mrf.cpp 209-243, 302-324, 680-731).
SharedWords(f, g) ==
    LET shared == Intersect(f, g)
    IN  /\ Range(shared) = Range(f) \cap Range(g) /\ IsInjective(shared)
        /\ shared = Intersect(g, f)
        /\ g # <<>> => Distance(UniqueFeatures(f), UniqueFeatures(g))
                         = Cardinality(SymDiff(Range(f), Range(g)))

\* The features of a text are chains of its words in their order, none of a single letter or
\* of what is no word; with windows that move by one word, each word of a text as long as a
\* window is in one of them (mrf.cpp 444-600).
TextIsCovered(words, stops, max, step, window) ==
    LET said(c) == SelectSeq(c.words, LAMBDA w : w # SKIP)
        inside(s, t) == \E S \in SUBSET DOMAIN t :
                            LET o == SetToSortSeq(S, <) IN s = [i \in DOMAIN o |-> t[o[i]]]
        holds(tokens, features) ==
            /\ \A i \in DOMAIN features :
                  /\ inside(said(features[i]), tokens) /\ Len(features[i].words) <= window
                  /\ Weight(features, Hashed(features[i])) >= 1 /\ Weighty(features[i])
            /\ step = 1 /\ max <= window /\ Len(tokens) >= window /\ window > 1 =>
                  \A i \in DOMAIN tokens :
                      \E j \in DOMAIN features : tokens[i] \in Range(features[j].words)
    IN  holds(TextTokens(words, stops, window), TokenizeAndMrfFeatures(words, stops, max, step, window))
=============================================================================
