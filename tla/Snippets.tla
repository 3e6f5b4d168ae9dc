------------------------------ MODULE Snippets ------------------------------
(* The results of a search: what a snippet keeps, how the snippets of one    *)
(* page are merged and ranked (search_snippet.cpp, seeks_snippet.cpp,         *)
(* sort_rank.cpp), and how they are put into clusters (clustering.cpp,        *)
(* oskmeans.cpp, content_handler.cpp).                                        *)
EXTENDS Integers, Sequences, FiniteSets, SequencesExt, FiniteSetsExt

\* The types of a document; of two the later one wins.
Types == <<"unknown", "rejected", "webpage", "forum", "file", "software", "video", "video_thumb",
           "audio", "code", "news", "tweet", "wiki", "post", "bug", "issue", "revision", "comment",
           "none", "image">>
TypeRank(t) == CHOOSE i \in DOMAIN Types : Types[i] = t

\* A snippet as a parser makes it; its id names the page it leads to.
MkSnippet(id, engines, rank, type) ==
    [id |-> id, engines |-> engines, rank |-> rank, type |-> type, fresh |-> TRUE, meta |-> 0,
     seeks |-> 0, ir |-> 0, summary |-> 0, cite |-> 0, format |-> 0, cached |-> FALSE, radius |-> 0,
     record |-> 0, content |-> 0, peers |-> 0, hits |-> 0, personalized |-> FALSE, back |-> FALSE,
     safe |-> TRUE, lang |-> "en"]

-----------------------------------------------------------------------------
(* One snippet.                                                             *)

\* A summary, as the set of places of its blanks and its length, is cut before the last
\* blank that leaves room for three dots; without such a blank it is kept whole.
SetSummary(length, blanks, most) ==
    IF length <= most THEN length
    ELSE LET fits == {b \in blanks : b + 3 <= most}
         IN  IF fits = {} THEN length + 3 ELSE Max(fits) + 3

\* What names a document's type is looked for in this order, and then "wiki" in the link.
Kinds == <<"pdf", "file_doc", "audio", "video", "forum", "reject">>
KindType == [k \in ToSet(Kinds) |-> CASE k \in {"pdf", "file_doc"} -> "file"
                                      [] k = "reject" -> "rejected"
                                      [] OTHER -> k]
TagType(kind, wiki) == IF kind # "" THEN KindType[kind] ELSE IF wiki THEN "wiki" ELSE "webpage"
Tag(s, matches, wiki) ==
    IF s.type # "webpage" THEN s
    ELSE LET found == SelectSeq(Kinds, LAMBDA k : k \in matches)
         IN  [s EXCEPT !.type = TagType(IF found = <<>> THEN "" ELSE found[1], wiki)]

\* The pattern files are read until one cannot be.
LoadPatterns(readable) ==
    LET bad == {i \in DOMAIN Kinds : Kinds[i] \notin readable}
        upto == IF bad = {} THEN Len(Kinds) ELSE Min(bad) - 1
    IN  [err |-> IF bad = {} THEN "OK" ELSE "FILE", kinds |-> {Kinds[i] : i \in 1 .. upto}]

MergeCommon(a, b) ==
    [a EXCEPT !.rank = @ + b.rank,
              !.engines = @ \cup b.engines,
              !.seeks = @ + b.seeks,
              !.summary = IF @ < b.summary THEN b.summary ELSE @,
              !.meta = Cardinality(a.engines \cup b.engines),
              !.radius = IF b.radius < @ THEN b.radius ELSE @,
              !.record = IF @ < b.record THEN b.record ELSE @,
              !.content = IF @ < b.content THEN b.content ELSE @]

\* In English bing and yahoo are one engine.
BingYahooUsMerge(s, lang) ==
    IF lang = "en" /\ {"yahoo", "bing"} \subseteq s.engines THEN [s EXCEPT !.meta = @ - 1] ELSE s

\* A snippet of the same engines is not merged, unless it is a tweet.
Unmerged(a, b) == a.type # "tweet" /\ a.engines = b.engines

\* Mutant: the rank counts the snippets that were merged, not the engines.
MergeCounted(a, b, lang) ==
    IF Unmerged(a, b) THEN a ELSE [MergeCommon(a, b) EXCEPT !.meta = a.meta + b.meta + 1]

MergeSnippets(a, b, lang) ==
    IF Unmerged(a, b) THEN a
    ELSE BingYahooUsMerge(
            [MergeCommon(a, b) EXCEPT
                !.cached = @ \/ b.cached,
                !.cite = IF @ > b.cite THEN b.cite ELSE @,
                !.type = IF TypeRank(@) < TypeRank(b.type) THEN b.type ELSE @,
                !.format = IF @ < b.format THEN b.format ELSE @], lang)

ResetP2pData(s) == [s EXCEPT !.engines = @ \ {"seeks"}, !.meta = Cardinality(s.engines \ {"seeks"}),
                             !.seeks = 0, !.peers = 0, !.hits = 0]

\* A personalised snippet is shown whatever the engines that were asked for.
IsSeEnabled(s, enabled) == \/ s.personalized /\ "seeks" \in s.engines
                           \/ (s.engines \cap enabled) \ {"seeks"} # {}

\* The words that tell a snippet apart: heaviest first, one for each weight, of three in all
\* those that consist of letters; a feature is [weight, word, alpha].
DiscrWords(features, query) ==
    LET weights == {f.weight : f \in features}
        word(w) == CHOOSE f \in features : f.weight = w
        \* words of the query are passed over, others count even if they are not taken
        heavier(w) == {v \in weights : v > w /\ word(v).word \notin query}
    IN  {word(w).word : w \in {v \in weights : /\ word(v).word \notin query
                                              /\ word(v).alpha
                                              /\ Cardinality(heavier(v)) < 3}}

-----------------------------------------------------------------------------
(* Orders.  Ranks of equal weight are told apart by the mean rank; a mean of  *)
(* no engines is neither smaller nor larger than another.                     *)

MeanLess(a, b) == a.rank * Cardinality(b.engines) < b.rank * Cardinality(a.engines)
MaxMetaRank(a, b) == IF a.meta = b.meta THEN MeanLess(a, b) ELSE a.meta > b.meta
MaxSeeksIr(a, b) == IF a.ir = b.ir THEN MaxMetaRank(a, b) ELSE a.ir > b.ir
MaxSeeksRank(a, b) == IF a.seeks = b.seeks THEN MaxMetaRank(a, b) ELSE a.seeks > b.seeks
NewDate(a, b) == IF a.content = b.content THEN MaxSeeksRank(a, b) ELSE a.content > b.content
OldDate(a, b) == IF a.content = b.content THEN MaxSeeksRank(a, b) ELSE a.content < b.content
NewActivity(a, b) == IF a.record = b.record THEN MaxSeeksRank(a, b) ELSE a.record > b.record
OldActivity(a, b) == IF a.record = b.record THEN MaxSeeksRank(a, b) ELSE a.record < b.record

\* stable_sort: what is not less than another stays behind it.
StableSort(list, less(_, _)) ==
    FoldLeft(LAMBDA sorted, s :
                 LET i == Cardinality({j \in DOMAIN sorted : ~less(s, sorted[j])})
                 IN  InsertAt(sorted, i + 1, s),
             <<>>, list)

\* An order that is not known is that of the ranks.
Before(order, a, b) == CASE order = "new-date" -> NewDate(a, b)
                         [] order = "old-date" -> OldDate(a, b)
                         [] order = "new-activity" -> NewActivity(a, b)
                         [] order = "old-activity" -> OldActivity(a, b)
                         [] OTHER -> MaxSeeksRank(a, b)
SortSnippets(list, order) == StableSort(list, LAMBDA a, b : Before(order, a, b))

-----------------------------------------------------------------------------
(* Merging and ranking a context's snippets.  p is [lang, cross, same]: the   *)
(* language, whether results of peers alone are taken, and the pairs of pages *)
(* whose content is the same, none when contents are not analysed.            *)

\* The places of the snippets kept so far that s is merged into: one of the same page, or
\* of the same content.
Merged(kept, s, p) ==
    LET page == {i \in DOMAIN kept : kept[i].id = s.id /\ ~kept[i].fresh}
    IN  IF page # {} THEN page
        ELSE {i \in DOMAIN kept : <<kept[i].id, s.id>> \in p.same /\ ~kept[i].fresh}

Taken(kept, s, p) ==
    LET into == Merged(kept, s, p)
    IN  IF ~s.fresh THEN Append(kept, s)
        ELSE IF into # {} THEN [kept EXCEPT ![Min(into)] = MergeSnippets(@, s, p.lang)]
        ELSE IF ~p.cross /\ s.engines = {"seeks"} THEN kept
        ELSE Append(kept, [s EXCEPT !.meta = Cardinality(s.engines), !.fresh = FALSE])

\* Those that were there before come first.
SortMergeAndRankSnippets(list, order, p) ==
    SortSnippets(FoldLeft(LAMBDA kept, s : Taken(kept, s, p), <<>>, list), order)

\* The snippets by their likeness to one of them, which then leads back; like[id] is absent
\* for a snippet without features.
ScoreAndSortBySimilarity(list, id, like) ==
    LET there == \E i \in DOMAIN list : list[i].id = id
        scored == [i \in DOMAIN list |->
                      [list[i] EXCEPT !.back = IF list[i].id = id THEN TRUE ELSE @,
                                      !.ir = IF list[i].id \in DOMAIN like THEN like[list[i].id] ELSE @]]
    IN  IF ~there \/ id \notin DOMAIN like
        THEN [err |-> "NO_REF_SIM",
              list |-> [i \in DOMAIN list |-> IF list[i].id = id THEN [list[i] EXCEPT !.back = TRUE]
                                              ELSE list[i]]]
        ELSE [err |-> "OK", list |-> StableSort(scored, LAMBDA a, b : MaxSeeksIr(a, b))]

GroupByTypes(list) == [t \in {list[i].type : i \in DOMAIN list} |->
                          {list[i].id : i \in {j \in DOMAIN list : list[j].type = t}}]

-----------------------------------------------------------------------------
(* The features of the snippets, fetched and extracted in threads of their    *)
(* own: fails is the set of the places whose thread could not be made.        *)

\* The texts that features come from: the title of a tweet or a video, else the summary.
SummaryText(s) == IF s.type \in {"tweet", "video_thumb"} THEN "title"
                  ELSE IF s.summary = 0 THEN "" ELSE "summary"

\* Old features are thrown away before new ones are tried, so that a failure leaves none.
ExtractTfidfFeatures(has, places, fails) == (has \ places) \cup (places \ fails)
\* Features that are there are kept, and nobody extracts them again.
ExtractFeatures(has, places, fails) == has \cup (places \ fails)

\* What is fetched is kept as content; what cannot be parsed gives no features.
FetchAllContent(content, has, places, got, parsed, fails) ==
    LET asked == places \ content
    IN  IF asked \cap got = {} THEN [content |-> content, has |-> has]
        ELSE [content |-> content \cup (asked \cap got),
              has |-> ExtractTfidfFeatures(has, asked \cap got \cap parsed, fails)]

\* Whether two snippets have the same content: both must be had and not be empty, their
\* lengths be alike, and then their features; features that could not be had stop the program.
HasSameContent(tweets, content, got, empty, alike, fails, near) ==
    LET had == {i \in {1, 2} : i \in tweets \/ i \in content \/ i \in got}
    IN  CASE had # {1, 2} \/ empty # {} \/ ~alike -> "no"
          [] had = {1, 2} /\ empty = {} /\ alike /\ fails # {} -> "CRASH"
          [] OTHER -> IF near THEN "yes" ELSE "no"

-----------------------------------------------------------------------------
(* Clusters.  points is a sequence of [id, meta]; sim[i][j] is the likeness    *)
(* of two points, from 0 to WHOLE.                                             *)

WHOLE == 2
\* How far a point is from the seeds so far; a point like one of them is not far at all.
Far(points, sim, seeds, i) ==
    LET near == Max({sim[i][j] : j \in seeds})
    IN  (WHOLE - near) * (WHOLE - near) * points[i].meta

\* The next seed is the first of the farthest points; when all are like the seeds the
\* probabilities are no numbers, and the place is outside of all arrays: 0.
NextSeed(points, sim, seeds) ==
    LET rest == DOMAIN points \ seeds
        far == [i \in rest |-> Far(points, sim, seeds, i)]
        best == {i \in rest : \A j \in rest : far[j] <= far[i]}
    IN  IF \A i \in rest : far[i] = 0 THEN 0 ELSE Min(best)

\* The first seed is the best-ranked point; there are no more clusters than points, and
\* without any point the program stops.
RECURSIVE SeedsFrom(_, _, _, _)
SeedsFrom(points, sim, seeds, k) ==
    IF Len(seeds) >= k \/ 0 \in ToSet(seeds) THEN seeds
    ELSE SeedsFrom(points, sim, Append(seeds, NextSeed(points, sim, ToSet(seeds))), k)
KmeansPp(points, sim, k) ==
    LET best == {i \in DOMAIN points : \A j \in DOMAIN points : points[j].meta <= points[i].meta}
        K == IF k > Len(points) THEN Len(points) ELSE k
    IN  SeedsFrom(points, sim, <<Min(best)>>, K)

\* The first of the nearest clusters, or none for a point like none of them.
ClosestCluster(likes) == LET best == {c \in DOMAIN likes : \A d \in DOMAIN likes : likes[d] <= likes[c]}
                         IN  IF \A c \in DOMAIN likes : likes[c] = 0 THEN -1 ELSE Min(best)
\* The clusters after a pass over all points, likes[i][c] being the likeness of a point to a
\* centroid when its turn comes, for centroids move; -1 is the garbage cluster.
AssignClusters(points, likes, K) ==
    [c \in (1 .. K) \cup {-1} |->
        {points[i].id : i \in {j \in DOMAIN points : ClosestCluster(likes[j]) = c}}]

\* The rank of a cluster is that of its snippets together, and clusters are ordered by it.
ClusterRank(cluster, seeksOf) == FoldSet(LAMBDA id, n : n + seeksOf[id], 0, cluster)

\* The label of a cluster: of the heaviest words three that are neither in the query nor stop
\* words; of words of one weight one is looked at.
ClusterLabel(features, query, stop) ==
    LET total == [w \in {f.word : f \in features} |->
                     SumSet({f.weight : f \in {g \in features : g.word = w}})]
        weights == {total[w] : w \in DOMAIN total}
        word(t) == CHOOSE w \in DOMAIN total : total[w] = t
        good == {t \in weights : word(t) \notin query \cup stop}
    IN  {word(t) : t \in {v \in good : Cardinality({u \in good : u > v}) <= 2}}

-----------------------------------------------------------------------------
(* Properties.                                                              *)

Plain(lang, cross) == [lang |-> lang, cross |-> cross, same |-> {}]

\* In whatever order the engines answer, a page is listed once, known to all the engines
\* that found it and with the rank that their number gives it, unless results of peers alone
\* are refused (sort_rank.cpp 58-197, seeks_snippet.cpp 840-887).
OneOfEachPage(list, lang) ==
    LET ranked == SortMergeAndRankSnippets(list, "rank", Plain(lang, TRUE))
        finders(id) == UNION {list[i].engines : i \in {j \in DOMAIN list : list[j].id = id}}
        one(id) == IF lang = "en" /\ {"yahoo", "bing"} \subseteq finders(id) THEN 1 ELSE 0
        right(s) == s.engines = finders(s.id) /\ s.meta = Cardinality(finders(s.id)) - one(s.id)
    IN  /\ \A i, j \in DOMAIN ranked : ranked[i].id = ranked[j].id => i = j
        /\ {ranked[i].id : i \in DOMAIN ranked} = {list[i].id : i \in DOMAIN list}
        /\ \A i \in DOMAIN ranked : right(ranked[i])

\* No snippet is listed before one that any order puts first, and what an order does not
\* tell apart stays as it was (sort_rank.cpp 210-246).
OrdersHold(list, order) ==
    LET sorted == SortSnippets(list, order)
    IN  /\ \A i, j \in DOMAIN sorted : i < j => ~Before(order, sorted[j], sorted[i])
        /\ \A i, j \in DOMAIN sorted : i < j /\ ~Before(order, sorted[i], sorted[j]) =>
                \E m, n \in DOMAIN list : m < n /\ list[m] = sorted[i] /\ list[n] = sorted[j]

\* The seeds of the clusters are distinct points, unless every point is the copy of a seed
\* or has no rank: then the program writes outside of its arrays (oskmeans.cpp 93-220).
SeedsDistinct(points, sim, k) ==
    LET seeds == KmeansPp(points, sim, k)
    IN  (\A i, j \in DOMAIN points : i # j => sim[i][j] < WHOLE /\ points[i].meta > 0)
        => /\ \A a, b \in DOMAIN seeds : seeds[a] = seeds[b] => a = b
           /\ \A a \in DOMAIN seeds : seeds[a] \in DOMAIN points

\* The snippets asked for by likeness are those that were there, the nearest first, and only
\* the one they are compared to leads back (sort_rank.cpp 248-284).
LikeFirst(list, id, like) ==
    LET r == ScoreAndSortBySimilarity(list, id, like)
        ids(l) == [i \in DOMAIN l |-> l[i].id]
        irOf(i) == IF i \in DOMAIN like THEN like[i] ELSE 0
    IN  /\ \E f \in [DOMAIN list -> DOMAIN list] :
                IsInjective(f) /\ \A i \in DOMAIN list : ids(r.list)[i] = ids(list)[f[i]]
        /\ \A i \in DOMAIN r.list : r.list[i].back <=> r.list[i].id = id
        /\ r.err = "OK" => \A i, j \in DOMAIN list :
                i < j => irOf(ids(r.list)[i]) >= irOf(ids(r.list)[j])

\* A summary is never longer than it may be, when it has a blank to be cut at
\* (search_snippet.cpp 513-527).
SummaryFits(length, blanks, most) ==
    (\E b \in blanks : b + 3 <= most) => SetSummary(length, blanks, most) <= most

\* At most three words tell a snippet or a cluster apart, none of the query's, and no stop
\* word on a cluster (search_snippet.cpp 130-184, clustering.cpp 69-168).
WordsTell(features, query, stop) ==
    /\ Cardinality(DiscrWords(features, query)) <= 3
    /\ DiscrWords(features, query) \cap query = {}
    /\ Cardinality(ClusterLabel(features, query, stop)) <= 3
    /\ ClusterLabel(features, query, stop) \cap (query \cup stop) = {}

\* A document is told by the first of the kinds that fits it; pattern files that cannot be
\* read change that only when none of the kinds read before them fits
\* (seeks_snippet.cpp 735-828).
TaggedAsFar(s, matches, readable, wiki) ==
    LET loaded == LoadPatterns(readable).kinds
        full == Tag(s, matches, wiki)
        first == Min({i \in DOMAIN Kinds : Kinds[i] \in matches})
    IN  /\ Tag(full, matches, wiki) = full
        /\ matches \cap loaded # {} \/ matches = {} => Tag(s, matches \cap loaded, wiki) = full
        /\ s.type = "webpage" /\ matches # {} => full.type = KindType[Kinds[first]]

\* Every result is of one type, and once in a cluster or in the garbage, which only those are
\* in that are like no cluster; the ranks of the clusters are those of all results
\* (sort_rank.cpp 286-306, oskmeans.cpp 222-275, clustering.cpp 56-67).
TypesPartition(list) ==
    LET ranked == SortMergeAndRankSnippets(list, "rank", Plain("en", TRUE))
        groups == GroupByTypes(ranked)
    IN  \A i \in DOMAIN ranked :
            {t \in DOMAIN groups : ranked[i].id \in groups[t]} = {ranked[i].type}
ClustersPartition(points, likes, K) ==
    LET clusters == AssignClusters(points, likes, K)
        ids == {points[i].id : i \in DOMAIN points}
        ranks == [id \in ids |-> id]
    IN  /\ \A i \in DOMAIN points :
              LET at == {c \in DOMAIN clusters : points[i].id \in clusters[c]}
              IN  /\ Cardinality(at) = 1
                  /\ -1 \in at <=> \A c \in 1 .. K : likes[i][c] = 0
                  /\ \A c \in at \ {-1}, d \in 1 .. K : likes[i][d] <= likes[i][c]
        /\ MapThenSumSet(LAMBDA c : ClusterRank(clusters[c], ranks), DOMAIN clusters)
             = ClusterRank(ids, ranks)

\* Contents that were fetched are not fetched again, and what was extracted from them is not
\* lost when more are fetched, whatever pages do not answer and whatever threads cannot be
\* made (content_handler.cpp 133-183, 363-426).
FetchedOnce(content, has, places, got, parsed, fails) ==
    LET one == FetchAllContent(content, has, places, got[1], parsed, fails[1])
        two == FetchAllContent(one.content, one.has, places, got[2], parsed, fails[2])
    IN  has \subseteq content =>
            /\ two.content = content \cup (places \cap (got[1] \cup got[2]))
            /\ has \subseteq one.has /\ one.has \subseteq two.has
            /\ two.has \ has \subseteq parsed \cap two.content
            /\ two.has \subseteq ExtractFeatures(two.has, places, fails[2])

\* Whether two pages are the same depends neither on which comes first nor on whether a
\* content is fetched now or was before (content_handler.cpp 485-629).
SameEitherWay(tweets, content, got, empty, alike, fails, near) ==
    LET other(S) == {3 - i : i \in S}
        same == HasSameContent(tweets, content, got, empty, alike, fails, near)
    IN  /\ same = HasSameContent(other(tweets), other(content), other(got), other(empty), alike,
                                 other(fails), near)
        /\ same = HasSameContent(tweets, content \cup got, {}, empty, alike, fails, near)

\* What peers add to a result once more, after it was taken off, is what they added first
\* (search_snippet.cpp 643-651, seeks_snippet.cpp 840-887).
PeersTwiceAreOnce(a, b, lang) ==
    LET one == MergeSnippets(a, b, lang)
        two == MergeSnippets(ResetP2pData(one), b, lang)
    IN  a.seeks = 0 /\ "seeks" \notin a.engines /\ b.engines = {"seeks"} =>
            two.engines = one.engines /\ two.meta = one.meta /\ two.seeks = one.seeks
=============================================================================
