-------------------------------- MODULE Feeds --------------------------------
(* The sets of search engines of a query (feeds, feed_parser), and what     *)
(* se_handler makes of them: the URLs it fetches and the parser that reads  *)
(* each output.  A feed has a name and a set of URLs; feeds is a function   *)
(* from names to sets of URLs.  Names and URLs are numbers, in their order. *)
EXTENDS Integers, Sequences, FiniteSets, FiniteSetsExt, SequencesExt

CONSTANTS
    Names,      \* names of feeds
    Addresses,  \* their URLs
    SEEKS       \* the feed that is this node

ASSUME FeedsAssumption ==
    /\ Names \subseteq Nat /\ Addresses \subseteq Nat \ {0}
    /\ IsFiniteSet(Names) /\ IsFiniteSet(Addresses)
    /\ SEEKS \in Names

NoFeeds == [n \in {} |-> {}]

AnyFeeds == UNION {[d -> (SUBSET Addresses) \ {{}}] : d \in SUBSET Names}

\* feed_parser: what is not there has no URL.
FindFeed(fs, n) == IF n \in DOMAIN fs THEN fs[n] ELSE {}

HasFeed(fs, n) == n \in DOMAIN fs

UrlDiff(f, g) == SymDiff(f, g)
UrlUnion(f, g) == f \cup g
UrlInter(f, g) == f \cap g

\* get_url: an index out of range has the empty URL.
UrlAt(f, i) == IF i < Cardinality(f) THEN SetToSortSeq(f, <)[i + 1] ELSE 0

\* add_feed: a feed of a name that is there is merged with it, by taking it out and
\* adding the union; an empty one is refused.
AddFeed(fs, n, f) ==
    IF f = {} THEN fs
    ELSE [m \in DOMAIN fs \cup {n} |-> IF m = n THEN FindFeed(fs, n) \cup f ELSE fs[m]]

\* What add_feed returns.
NewFeed(fs, n, f) == f # {} /\ ~(f \subseteq FindFeed(fs, n))

RemoveFeeds(fs, names) == [m \in DOMAIN fs \ names |-> fs[m]]

\* Feeds as the pairs of a name and a URL, whose number is their size.
Pairs(fs) == UNION {{<<n, u>> : u \in fs[n]} : n \in DOMAIN fs}
FeedsSize(fs) == Cardinality(Pairs(fs))
Count(fs) == Cardinality(DOMAIN fs)

\* add_feed of each of the feeds of gs with one of the names, which leaves out those that
\* are empty.
AddAll(fs, gs, names) ==
    [n \in DOMAIN fs \cup {m \in names : gs[m] # {}} |->
       FindFeed(fs, n) \cup (IF n \in names THEN gs[n] ELSE {})]

\* The feeds of either set only, and of the others the URLs of either only.
DiffFeeds(fs, gs) ==
    LET own == AddAll(AddAll(NoFeeds, fs, DOMAIN fs \ DOMAIN gs), gs, DOMAIN gs \ DOMAIN fs)
        common == [n \in DOMAIN fs \cap DOMAIN gs |-> UrlDiff(fs[n], gs[n])]
    IN  AddAll(own, common, DOMAIN common)

\* The feeds of the first set have precedence; what add_feed then refuses is put in
\* the place of what is there.
UnionFeeds(fs, gs) ==
    LET first == AddAll(AddAll(NoFeeds, fs, DOMAIN fs), gs, DOMAIN gs \ DOMAIN fs)
        common == [n \in DOMAIN fs \cap DOMAIN gs |-> UrlUnion(fs[n], gs[n])]
        refused == {n \in DOMAIN common : ~NewFeed(first, n, common[n])}
    IN  AddAll(RemoveFeeds(first, refused), common, DOMAIN common)

InterFeeds(fs, gs) ==
    LET common == [n \in DOMAIN fs \cap DOMAIN gs |-> UrlInter(gs[n], fs[n])]
    IN  AddAll(NoFeeds, common, DOMAIN common)

EqualFeeds(fs, gs) ==
    LET both == InterFeeds(fs, gs)
    IN  /\ FeedsSize(fs) = FeedsSize(gs) /\ Count(fs) = Count(gs)
        /\ FeedsSize(both) = FeedsSize(fs) /\ Count(both) = Count(fs)

-----------------------------------------------------------------------------
(* se_handler: from feeds to URLs, and from outputs to parsers.             *)

\* The URLs of one feed, each with the index that its parser is given.
UrlsOf(fs, n) == [i \in 1 .. Cardinality(fs[n]) |-> [feed |-> n, url |-> UrlAt(fs[n], i - 1)]]

FeedOrder(fs) == SetToSortSeq(DOMAIN fs \ {SEEKS}, <)

\* query_to_ses: all URLs in the order of the feeds.
UrlsToGet(fs) == FlattenSeq([i \in 1 .. Len(FeedOrder(fs)) |-> UrlsOf(fs, FeedOrder(fs)[i])])

\* The requests that are made of them, in whatever order they are made.
UrlsAsked(fs) ==
    UNION {{[feed |-> n, url |-> u] : u \in fs[n]} : n \in DOMAIN fs \ {SEEKS}}

\* parse_ses_output: an output is passed by when it has been given to a parser or is
\* not there; when the parser's thread cannot be created the next URL has it.
NextOutput(got, j, born) == IF got[j] /\ ~born THEN j ELSE j + 1

\* One thread per URL: which parser reads which output.  born: the URLs whose thread
\* can be created.
ParsedInThreads(fs, got, born) ==
    LET urls == UrlsToGet(fs)
        step(acc, u) == [k |-> acc.k + 1, j |-> NextOutput(got, acc.j, acc.k \in born),
                         by |-> IF got[acc.j] /\ acc.k \in born
                                THEN acc.by \cup {[parser |-> u, output |-> acc.j]}
                                ELSE acc.by]
    IN  FoldLeft(step, [k |-> 1, j |-> 1, by |-> {}], urls).by

\* Without threads: one output per feed, whatever the number of its URLs.
ParsedInOrder(fs, got) ==
    {[parser |-> UrlsOf(fs, FeedOrder(fs)[i])[1], output |-> i] :
        i \in {k \in DOMAIN FeedOrder(fs) : got[k]}}

-----------------------------------------------------------------------------
(* Properties of one case, [fs, gs, got, born].                             *)

\* The operations on feeds are those on sets of pairs of a name and a URL: no URL is
\* lost or invented when feeds of one name are merged (feeds.cpp 365-530).
FeedsAsPairs(fs, gs) ==
    /\ Pairs(DiffFeeds(fs, gs)) = SymDiff(Pairs(fs), Pairs(gs))
    /\ Pairs(UnionFeeds(fs, gs)) = Pairs(fs) \cup Pairs(gs)
    /\ Pairs(InterFeeds(fs, gs)) = Pairs(fs) \cap Pairs(gs)
    /\ EqualFeeds(fs, gs) <=> Pairs(fs) = Pairs(gs)

\* When every thread can be created, each output that arrived is read once, by the
\* parser of the engine that sent it (se_handler.cpp 505-560); without threads this is
\* so when each feed has one URL.
OwnParser(fs, got) ==
    LET urls == UrlsToGet(fs)
        own == {[parser |-> urls[j], output |-> j] : j \in {k \in DOMAIN urls : got[k]}}
    IN  /\ Range(urls) = UrlsAsked(fs) /\ Len(urls) = Cardinality(UrlsAsked(fs))
        /\ ParsedInThreads(fs, got, DOMAIN urls) = own
        /\ (\A n \in DOMAIN fs : Cardinality(fs[n]) = 1) => ParsedInOrder(fs, got) = own

\* Whatever threads cannot be created, no output is read twice and none that is not
\* there is read.
OutputsOnce(fs, got, born) ==
    \A p, q \in ParsedInThreads(fs, got, born) :
        got[p.output] /\ (p.output = q.output => p = q)
============================================================================
