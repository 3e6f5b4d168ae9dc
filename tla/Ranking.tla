------------------------------- MODULE Ranking -------------------------------
(* What one personalisation makes of the results of a search (cf): queries    *)
(* like the one asked are kept, URLs the user has voted down are remembered,  *)
(* URLs are recommended, ranks are raised, and queries are recommended.       *)
(* Of a rank only the sign is kept: "+", "0", "-", or "nan".                  *)
EXTENDS Hashing

CONSTANTS
    Stripped,       \* for each URL, its name without protocol, www. and the like
    HostOf,         \* for each URL, the host
    HostWeight,     \* domain-name-weight is positive
    UseHttpUrls,    \* use-http-url-only
    Scale           \* of the scores of queries

\* A visited URL: [url, hits, title, http]; a query that was captured: [query, command,
\* radius, hits, urls], where the URLs are a set, with one member for each URL.
Nobody == [url |-> "", hits |-> 0, title |-> FALSE, http |-> FALSE]
FindVurl(qd, url) ==
    IF \E u \in qd.urls : u.url = url THEN CHOOSE u \in qd.urls : u.url = url ELSE Nobody

-----------------------------------------------------------------------------
(* How far queries are apart.                                               *)

\* The table of the distances of all beginnings, one row for each letter of s1; a row and a
\* column in front of it hold more than any distance.
FirstRows(s1, s2) ==
    LET inf == Len(s1) + Len(s2)
    IN  [i \in 0 .. Len(s1) + 1 |-> [j \in 0 .. Len(s2) + 1 |->
            IF i = 0 \/ j = 0 THEN inf ELSE IF j = 1 THEN i - 1 ELSE IF i = 1 THEN j - 1 ELSE 0]]
\* last: for each letter, where it was last seen in s1; match: where the letter of s1 was
\* last seen in s2.
Cell(s1, s2, he, last, match, i, j) ==
    LET i1 == last[s2[j]]
        change == IF s1[i] = s2[j] THEN 0 ELSE 1
    IN  Min({he[i][j] + change, he[i + 1][j] + 1, he[i][j + 1] + 1,
             he[i1][match] + (i - i1 - 1) + 1 + (j - match - 1)})
RowStep(s1, s2, last, i, acc, j) ==
    [he |-> [acc.he EXCEPT ![i + 1][j + 1] = Cell(s1, s2, acc.he, last, acc.match, i, j)],
     match |-> IF s1[i] = s2[j] THEN j ELSE acc.match]
Row(s1, s2, acc, i) ==
    [he |-> FoldLeft(LAMBDA r, j : RowStep(s1, s2, acc.last, i, r, j),
                     [he |-> acc.he, match |-> 0], [j \in DOMAIN s2 |-> j]).he,
     last |-> [acc.last EXCEPT ![s1[i]] = i]]
DamerauLevenshteinDistance(s1, s2) ==
    FoldLeft(LAMBDA acc, i : Row(s1, s2, acc, i),
             [he |-> FirstRows(s1, s2), last |-> [x \in Range(s1) \cup Range(s2) |-> 0]],
             [i \in DOMAIN s1 |-> i]).he[Len(s1) + 1][Len(s2) + 1]

\* Stop words are taken out by place: the word behind one that was taken out is passed over.
WithoutStops(words, stops) ==
    FoldLeft(LAMBDA s, i : IF i <= Len(s) /\ s[i] \in stops THEN RemoveAt(s, i) ELSE s,
             words, [i \in DOMAIN words |-> i])
\* Words are put together with blanks; a word counts as one letter, the blank as SKIP.
PrintStr(words) ==
    FoldLeft(LAMBDA s, w : IF s = <<>> THEN <<w>> ELSE s \o <<SKIP, w>>, <<>>, words)
Prepared(words, stops) == PrintStr(RankAlpha(WithoutStops(words, stops)))
QueryDistance(q1, q2, stops) ==
    DamerauLevenshteinDistance(Prepared(q1, stops), Prepared(q2, stops))

-----------------------------------------------------------------------------
(* Queries that were captured.                                              *)

SelectQuery(query, rquery, stops) ==
    \E i \in DOMAIN Intersect(query, RankAlpha(rquery)) :
        Intersect(query, RankAlpha(rquery))[i] \notin stops
Radius(query, rquery) ==
    Max({Len(query), Len(rquery)}) - Len(Intersect(RankAlpha(query), rquery))
FilterExtractedQueries(query, radius, swf, stops, qdata) ==
    LET near == SelectSeq(qdata, LAMBDA q :
                    /\ swf => SelectQuery(RankAlpha(query), q.query, stops)
                    /\ Radius(query, q.query) <= radius)
    IN  [i \in DOMAIN near |-> [near[i] EXCEPT !.radius = Radius(query, near[i].query)]]

\* The queries behind a page: as often as they have a URL of it.
Speaks(u, page) == u.title /\ (UseHttpUrls => u.http) /\ Stripped[u.url] = page
InvQdata(qdata, page) ==
    FlattenSeq([i \in DOMAIN qdata |->
        [n \in 1 .. Cardinality({u \in qdata[i].urls : Speaks(u, page)}) |-> qdata[i]]])

\* URLs voted down in the query that was asked itself; a peer's vote changes nothing, since
\* what is there is kept.
Exact(qdata) == {i \in DOMAIN qdata : qdata[i].radius = 0}
BuildUpFilter(qdata, filter, local) ==
    IF Exact(qdata) = {} THEN filter
    ELSE LET urls == qdata[Min(Exact(qdata))].urls
             down == {u.url : u \in {v \in urls : v.hits < 0}}
             up == {u.url : u \in {v \in urls : v.hits >= 0}}
         IN  IF local THEN [x \in up |-> FALSE] @@ filter @@ [x \in down |-> TRUE] ELSE filter
NoFilter == [x \in {} |-> FALSE]
Filtered(filter, url) == url \in DOMAIN filter /\ filter[url]

-----------------------------------------------------------------------------
(* Ranks.  A snippet: [url, engines, hits, meta, npeers, personalized, pictured, raised].  *)

SEEKS == "seeks"
Credited(s, hits) == [s EXCEPT !.engines = @ \cup {SEEKS}, !.hits = @ + hits]
\* What one query says of a snippet: acc.s, whether it is personal, and whether any query
\* had a positive rank.
HostSpeaks(s, filter, u, h) ==
    /\ HostWeight /\ h # Nobody /\ h.hits >= 0 /\ ~s.pictured
    /\ ~(u # Nobody /\ Filtered(filter, u.url)) /\ ~Filtered(filter, h.url)
EstimateRank(filter, host, url, acc, qd) ==
    LET u == FindVurl(qd, url)
        h == FindVurl(qd, host)
        counts == u # Nobody /\ u.hits >= 0 /\ ~Filtered(filter, u.url)
    IN  [s |-> IF counts THEN Credited(acc.s, u.hits) ELSE [acc.s EXCEPT !.engines = @ \ {SEEKS}],
         pers |-> \/ acc.pers \/ counts
                  \/ HostSpeaks(acc.s, filter, u, h) /\ (u = Nobody \/ u.hits > 0),
         positive |-> acc.positive \/ u = Nobody \/ u.hits >= 0]

\* The URIs that were captured with their hits; they speak when the user's own data do.
EstimatePrior(s, filter, host, captured) ==
    LET known == s.url \in DOMAIN captured /\ ~Filtered(filter, s.url)
        hosted == /\ host # "" /\ host \in DOMAIN captured
                  /\ ~Filtered(filter, s.url) /\ ~Filtered(filter, host)
        s1 == IF known THEN Credited(s, captured[s.url]) ELSE s
    IN  [s1 EXCEPT !.personalized = @ \/ known \/ hosted]

\* Nothing known: the base weight.  Known, but only where its URL was voted down: 0 / 0.
Posterior(known, positive, engines) ==
    IF known /\ ~positive THEN "nan" ELSE IF engines = {} THEN "0" ELSE "+"
Personalized(s) ==
    [s EXCEPT !.personalized = TRUE, !.npeers = @ + 1,
              !.meta = IF @ <= Cardinality(s.engines) THEN @ + 1 ELSE @]
\* own: the data are the user's, and URIs are captured.
Estimated(s, filter, qdata, own, captured) ==
    LET host == IF SEEKS \in s.engines THEN "" ELSE HostOf[s.url]
        queries == InvQdata(qdata, Stripped[s.url])
        heard == FoldLeft(LAMBDA acc, q : EstimateRank(filter, host, s.url, acc, q),
                          [s |-> s, pers |-> FALSE, positive |-> FALSE], queries)
        s1 == IF own /\ ~s.pictured
              THEN EstimatePrior(heard.s, filter, host, captured) ELSE heard.s
    IN  [s |-> IF heard.pers THEN Personalized(s1) ELSE s1,
         posterior |-> Posterior(queries # <<>>, heard.positive, s1.engines)]
\* The ranks are raised only when their sum is a positive number.
Raised(e) ==
    LET sum == /\ \A i \in DOMAIN e : e[i].posterior # "nan"
               /\ \E i \in DOMAIN e : e[i].posterior = "+"
    IN  [i \in DOMAIN e |-> [e[i].s EXCEPT !.raised = @ \/ (sum /\ e[i].posterior = "+")]]
EstimateRanks(snippets, qdata, filter, own, captured) ==
    Raised([i \in DOMAIN snippets |-> Estimated(snippets[i], filter, qdata, own, captured)])

-----------------------------------------------------------------------------
(* Recommendations.                                                          *)

Recommended(u) ==
    [url |-> u.url, engines |-> {SEEKS}, hits |-> 0, meta |-> 1, npeers |-> 0,
     personalized |-> TRUE, pictured |-> FALSE, raised |-> FALSE]
\* A URL without a title is given up unless another query knows the title.
Offered(qdata) == {u \in UNION {q.urls : q \in Range(qdata)} : UseHttpUrls => u.http}
RecommendUrls(qdata) == {Recommended(u) : u \in {v \in Offered(qdata) : v.title}}
SelectRecommendedUrls(snippets, qdata) == snippets \o SetToSeq(RecommendUrls(qdata))

\* The whole of it: the user's own data make the filter; a peer's are used through it.
FilterFor(qdata, local, own) ==
    IF own THEN BuildUpFilter(qdata, NoFilter, TRUE)
    ELSE BuildUpFilter(qdata, BuildUpFilter(local, NoFilter, TRUE), FALSE)
Personalize(snippets, qdata, local, own, captured) ==
    EstimateRanks(SelectRecommendedUrls(snippets, qdata), qdata,
                  FilterFor(qdata, local, own), own, captured)

\* The score of a query is its distance, and less the oftener it was asked; the same query
\* with another command multiplies.
Score(query, qd, stops) ==
    (Scale * (1 + QueryDistance(query, qd.query, stops))) \div qd.hits
RecommendQueries(query, stops, qdata) ==
    LET others == SelectSeq(qdata, LAMBDA q : q.query # query)
    IN  [r \in {q.query : q \in Range(others)} |->
            FoldLeft(LAMBDA n, q : IF q.query = r THEN n * Score(query, q, stops) ELSE n, 1, others)]
\* The list holds scores with queries; the better of two scores of a query is kept.
MergeRecommendedQueries(related, update) ==
    {x \in related : x.query \notin DOMAIN update}
    \cup {[query |-> q, score |-> Min({update[q]} \cup {x.score : x \in {y \in related : y.query = q}})] :
              q \in DOMAIN update}

-----------------------------------------------------------------------------
(* Properties.                                                              *)

\* The distance is the least number of letters to insert, remove, change or swap
\* (rank_estimators.cpp 1408-1444).
Edits(s, letters) ==
    {RemoveAt(s, i) : i \in DOMAIN s} \cup {InsertAt(s, i, x) : i \in 1 .. Len(s) + 1, x \in letters}
    \cup {[s EXCEPT ![i] = x] : i \in DOMAIN s, x \in letters}
    \cup {[s EXCEPT ![i] = s[i + 1], ![i + 1] = s[i]] : i \in 1 .. Len(s) - 1}
DistanceIsLeast(s, t) ==
    IF s = t THEN DamerauLevenshteinDistance(s, t) = 0
    ELSE DamerauLevenshteinDistance(s, t) =
            1 + Min({DamerauLevenshteinDistance(u, t) : u \in Edits(s, Range(s) \cup Range(t))})

\* Queries with the same words are at no distance, in whatever order they come, unless two
\* stop words stand together; and a query is kept whatever the order of its words
\* (rank_estimators.cpp 648-697, 1446-1483, query_recommender.cpp 36-59).
Together(words, stops) == \E i \in 1 .. Len(words) - 1 : {words[i], words[i + 1]} \subseteq stops
OrderDoesntMatterForQueries(p, q, stops) ==
    SameBag(p, q) /\ ~Together(p, stops) /\ ~Together(q, stops) => QueryDistance(p, q, stops) = 0

\* What the user has voted down is not made personal by anybody, unless by another name of
\* the page, and is not raised when it is but recommended
\* (rank_estimators.cpp 741-777, 1027-1081, 1113-1180).
ByAnotherName(qdata, s) ==
    \E i \in DOMAIN InvQdata(qdata, Stripped[s.url]) :
        FindVurl(InvQdata(qdata, Stripped[s.url])[i], s.url) = Nobody
VotedDown(own) ==
    {u.url : u \in {v \in UNION {own[i].urls : i \in Exact(own)} : v.hits < 0}}
DownStaysDown(snippets, mine, qdata, after) ==
    \A i \in DOMAIN after : after[i].url \in VotedDown(mine) =>
        IF i \in DOMAIN snippets
        THEN /\ after[i].engines \subseteq snippets[i].engines
             /\ \/ after[i].personalized = snippets[i].personalized
                \/ ByAnotherName(qdata, snippets[i])
        ELSE after[i].engines = {} /\ ~after[i].raised

\* Everything an engine or somebody still stands for is raised, unless a page is known only
\* as one that was voted down: then nothing is (rank_estimators.cpp 886-992).
OnlyDown(qdata, s) ==
    LET queries == InvQdata(qdata, Stripped[s.url])
    IN  queries # <<>> /\ \A i \in DOMAIN queries : FindVurl(queries[i], s.url).hits < 0
AllAreRaised(qdata, after) ==
    LET spoiled == \E i \in DOMAIN after : OnlyDown(qdata, after[i])
    IN  \A i \in DOMAIN after : after[i].raised <=> ~spoiled /\ after[i].engines # {}
RanksHold(snippets, qdata, mine, after) ==
    DownStaysDown(snippets, mine, qdata, after) /\ AllAreRaised(qdata, after)
RanksAreRight(snippets, qdata, local, own, captured) ==
    RanksHold(snippets, qdata, IF own THEN qdata ELSE local,
              Personalize(snippets, qdata, local, own, captured))

\* Each page with a title is recommended once, and each query; what was recommended before
\* keeps its place or gets a better one (rank_estimators.cpp 1222-1322,
\* query_recommender.cpp 87-157).
RecommendedOnce(query, stops, qdata, related) ==
    LET merged == MergeRecommendedQueries(related, RecommendQueries(query, stops, qdata))
    IN  /\ \A x, y \in merged : x.query = y.query => x = y
        /\ \A q \in Range(qdata) : q.query # query => \E x \in merged : x.query = q.query
        /\ \A x \in related : \E y \in merged : y.query = x.query /\ y.score <= x.score
        /\ \A u \in Offered(qdata) : u.title => \E r \in RecommendUrls(qdata) : r.url = u.url
        /\ \A r, t \in RecommendUrls(qdata) : r.url = t.url => r = t
=============================================================================
