------------------------------ MODULE Renderers ------------------------------
(* How the results of a search are shown: as a page (static_renderer.cpp), as *)
(* JSON (json_renderer.cpp) and as XML (xml_renderer.cpp, xsl_serializer.cpp). *)
EXTENDS Snippets

CONSTANT Blocks        \* how many clusters the template of the clustered results has a place for

\* p is what the parameters and the configuration ask for: enabled engines, img, unsafe
\* (safesearch is given and not "on"), rpp and page; page 0 is a page not given.
Params(enabled, rpp, page) ==
    [enabled |-> enabled, img |-> FALSE, unsafe |-> FALSE, rpp |-> rpp, page |-> page]

-----------------------------------------------------------------------------
(* Paging.                                                                  *)

Visible(s, p) == /\ s.type # "rejected"
                 /\ p.img => s.type = "image"
                 /\ IsSeEnabled(s, p.enabled)
                 /\ p.unsafe \/ s.safe

\* When the first snippet is like another one, only those that are like it are shown.
Counts(list, i) == list[1].ir > 0 => list[i].ir > 0

\* A page counts from one; the pages of HTML may be negative.
CurrentPage(format, page) == IF page = 0 \/ (format # "html" /\ page < 0) THEN 1 ELSE page

\* Where a page starts and stops; a negative number is, without its sign, more than any count.
HUGE == 1000
Unsigned(n) == IF n < 0 THEN HUGE + n ELSE n
Start(p, page) == Unsigned((page - 1) * p.rpp)
Stop(list, p, page) == Unsigned(Min({page * p.rpp, Len(list)}))

\* How many snippets have been counted when that at place i has been.
Counted(list, seen, i) == Cardinality({j \in seen : j <= i /\ Counts(list, j)})

\* The places of the snippets looked at: up to the first at which as many as the page stops
\* at have been counted.
LookedAt(list, seen, stop) ==
    {i \in seen : \A j \in seen : j < i => Counted(list, seen, j) # stop}
ShownOf(list, looked, start) ==
    {i \in looked : Counts(list, i) /\ Counted(list, looked, i) > start}
Seen(list, p) == {i \in DOMAIN list : Visible(list[i], p)}
Shown(list, p, page) ==
    ShownOf(list, LookedAt(list, Seen(list, p), Stop(list, p, page)), Start(p, page))

\* HTML: whether the page ended before the last of the snippets.
NotEnd(list, p, page) ==
    \E i \in LookedAt(list, Seen(list, p), Stop(list, p, page)) :
        Counted(list, Seen(list, p), i) = Stop(list, p, page) /\ i < Len(list)
NextPageLink(list, p, page) == NotEnd(list, p, page) /\ (p.rpp = 0 \/ page * p.rpp < Len(list))
PrevPageLink(page) == page > 1

\* A page of tweets alone offers no analysis of contents.
OnlyTweets(list, p, page) ==
    \A i \in LookedAt(list, Seen(list, p), Stop(list, p, page)) : list[i].type = "tweet"
OfferedAnalysis(list, p, page, content) ==
    IF OnlyTweets(list, p, page) THEN FALSE ELSE content

COMMA == 0
\* The list that JSON shows, as places and commas: what is told apart by a comma is what comes behind the first of
\* the page and before its stop.
Joined(places, commaAt(_)) ==
    FoldLeft(LAMBDA text, i : text \o (IF commaAt(i) THEN <<COMMA, i>> ELSE <<i>>), <<>>,
             SetToSortSeq(places, LAMBDA a, b : a < b))
RenderJson(list, p, given) ==
    LET page == CurrentPage("json", given)
        before(i) == Counted(list, Seen(list, p), i) - 1
    IN  Joined(Shown(list, p, page),
               LAMBDA i : before(i) > Start(p, page) /\ before(i) < Stop(list, p, page))
RenderXml(list, p, given) == Shown(list, p, CurrentPage("xml", given))

-----------------------------------------------------------------------------
(* Clusters.  clusters is a sequence of sequences of snippets.               *)

\* A block has no use for what is_se_enabled adds for personalised results.
InBlock(s, enabled) == s.type # "rejected" /\ s.engines \cap enabled # {}
FilledClusters(clusters, enabled) ==
    SelectSeq([i \in DOMAIN clusters |-> SelectSeq(clusters[i], LAMBDA s : InBlock(s, enabled))],
              LAMBDA c : c # <<>>)

\* A single cluster is shown as a list; of several, those beyond the template's places are
\* rendered and not shown.
RenderClusteredSnippets(clusters, enabled) ==
    LET filled == FilledClusters(clusters, enabled)
        sorted == [i \in DOMAIN filled |-> StableSort(filled[i], LAMBDA a, b : MaxSeeksRank(a, b))]
        k == Len(filled)
    IN  IF k > 1
        THEN [list |-> <<>>, blocks |-> SubSeq(sorted, 1, Min({k, Blocks})),
              kept |-> {1, 2} \cup {c \in 1 .. Blocks : c - 1 < k}]
        ELSE [list |-> IF k = 1 THEN sorted[1] ELSE <<>>, blocks |-> <<>>, kept |-> {}]

\* A label leads to a narrower search when the clusters were asked for; types do not.
RenderClusterLabel(action) == IF action = "clusterize" THEN "link" ELSE "text"

\* JSON shows the first page of each cluster, XML by likeness, whose last error alone is told.
RenderJsonClusters(clusters, p) ==
    LET kept == SelectSeq(clusters, LAMBDA c : c # <<>>)
    IN  [i \in DOMAIN kept |-> RenderJson(StableSort(kept[i], LAMBDA a, b : MaxSeeksRank(a, b)), p, 0)]
RenderXmlClusters(clusters, p) ==
    LET kept == SelectSeq(clusters, LAMBDA c : c # <<>>)
    IN  [i \in DOMAIN kept |-> RenderXml(StableSort(kept[i], LAMBDA a, b : MaxSeeksIr(a, b)), p, 0)]

\* The number of clusters that the next click asks for.
RenderNclusters(clustering, given) ==
    IF ~clustering THEN [block |-> "not-have-clustering", next |-> 0]
    ELSE [block |-> "have-clustering", next |-> IF given = 0 THEN 10 ELSE given + 1]

\* The neighbours of each snippet behind it, each one once; near[i] are the places of those
\* like it, and one that is not there would stop the program.
RenderNeighbors(list, near, mode) ==
    IF mode > 1 THEN <<>>
    ELSE FoldLeft(LAMBDA ids, i :
             FoldLeft(LAMBDA l, j : IF list[j].id \in ToSet(l) THEN l ELSE Append(l, list[j].id),
                      ids, IF list[i].id \in ToSet(ids) THEN <<>> ELSE <<i>> \o near[i]),
             <<>>, [i \in DOMAIN list |-> i])

-----------------------------------------------------------------------------
(* Suggestions, recent queries and recommendations.                          *)

\* The suggestions shown of n; when there are any, JSON and XML show at least one.
RenderSuggestions(n, most) == IF most <= 0 THEN 0 ELSE Min({n, most})
RenderSuggestedQueries(n, most) == IF n = 0 THEN 0 ELSE IF most <= 1 THEN 1 ELSE Min({n, most})

\* The other queries in the dust, a sequence with "" for what is not a context: HTML counts
\* the queries shown, JSON and XML all that is looked at.
RenderRecent(dust, query, most) ==
    LET others == SelectSeq(dust, LAMBDA q : q \notin {"", query})
    IN  SubSeq(others, 1, IF most <= 0 THEN 0 ELSE Min({Len(others), most}))
RenderCachedQueries(dust, query, most) ==
    SelectSeq(SubSeq(dust, 1, IF most <= 0 THEN 0 ELSE Min({Len(dust), most})),
              LAMBDA q : q \notin {"", query})

Recommended(s, radius, lang) == /\ s.radius <= radius
                                /\ lang = "" \/ s.lang = lang
                                /\ s.type # "rejected" /\ "seeks" \in s.engines
\* At most nreco of them, or all when it is not positive.
Recommendations(list, nreco, radius, lang) ==
    LET fit == {i \in DOMAIN list : Recommended(list[i], radius, lang)}
    IN  IF nreco <= 0 THEN fit ELSE {i \in fit : Cardinality({j \in fit : j < i}) < nreco}

\* A comma stands before all but the first of the snippets there are, not of those shown; in
\* XML the recommendations are made and never added to the document.
RenderRecommendations(list, nreco, radius, lang) ==
    Joined(Recommendations(list, nreco, radius, lang), LAMBDA i : i # 1)
RenderXmlRecommendations(list, nreco, radius, lang) == <<>>

-----------------------------------------------------------------------------
(* One snippet: where its links lead.                                       *)

\* A parameter other than on and off leaves the configuration's choice.
Personalizes(prs, config) == IF prs = "on" THEN TRUE ELSE IF prs = "off" THEN FALSE ELSE config
Ordinary(s) == s.type \notin {"tweet", "video_thumb"}

\* with is what the node has: prs, capture (the query capture plugin is active), thumbs,
\* readable (its plugin is active).
Titled(s, with) == IF ~(with.prs /\ with.capture) THEN "page"
                   ELSE IF s.type = "image" THEN "qc_redir_img" ELSE "qc_redir"
Pictured(s, with) == CASE s.type = "tweet" -> "profile"
                       [] s.type \in {"video_thumb", "image"} -> "cached"
                       [] OTHER -> IF with.thumbs THEN "thumb" ELSE "none"
\* Both of bing's engines have one icon, and so have both kinds of opensearch.
IconOf == [bing_api |-> "bing", opensearch_rss |-> "opensearch", opensearch_atom |-> "opensearch"]
Icons(s) == {IF e \in DOMAIN IconOf THEN IconOf[e] ELSE e : e \in s.engines}
Cited(s) == IF s.type = "video_thumb" THEN "date" ELSE IF s.cite = 0 THEN "url" ELSE "cite"
Linked(s, with) ==
    (IF s.cached /\ Ordinary(s) THEN {"Cached"} ELSE {})
    \cup (IF Ordinary(s) THEN {"Archive"} ELSE {})
    \cup (IF s.type = "video_thumb" THEN {} ELSE IF s.back THEN {"Back"} ELSE {"Similar"})
    \cup (IF s.type = "rejected" THEN {}
          ELSE {"type"} \cup (IF with.readable THEN {"Readable"} ELSE {}))
    \cup (IF s.personalized THEN {"tbd"} ELSE {})
    \cup (IF s.personalized /\ s.hits > 0 /\ s.peers > 0 THEN {"recommendations"} ELSE {})
ToHtml(s, with) ==
    [title |-> Titled(s, with), image |-> Pictured(s, with), icons |-> Icons(s), cite |-> Cited(s),
     marked |-> with.prs /\ s.personalized /\ "seeks" \notin s.engines,
     links |-> Linked(s, with)]
\* A snippet of no kind of engine, as the record store makes it.
ToPlainHtml(s, with) ==
    [ToHtml([s EXCEPT !.type = "unknown", !.cite = 0, !.cached = FALSE], with) EXCEPT
        !.icons = s.engines \cap {"seeks"}, !.links = @ \ {"Archive", "type"}]

\* The optional fields of a snippet; thumbs are asked for by a parameter alone, and a date of
\* activity is not told in XML.
Optional(s) == (IF s.peers > 0 THEN {"snpeers"} ELSE {}) \cup (IF s.hits > 0 THEN {"hits"} ELSE {})
ToJson(s, thumbs, words) ==
    Optional(s) \cup (IF thumbs THEN {"thumb"} ELSE {}) \cup (IF words = {} THEN {} ELSE {"words"})
                \cup (IF s.content # 0 THEN {"content_date"} ELSE {})
                \cup (IF s.record # 0 THEN {"record_date"} ELSE {})
                \cup (IF s.cached THEN {"cached"} ELSE {})
\* The address of a thumb is printed into no buffer at all.
ToXml(s, thumbs, words) ==
    IF thumbs THEN {"CRASH"}
    ELSE Optional(s) \cup (IF s.cached THEN {"cached"} ELSE {})
                     \cup (IF words = {} THEN {} ELSE {"words"})

-----------------------------------------------------------------------------
(* The page, and what stands around the results.                             *)

\* The parts of the templates that a configuration leaves out.
WebsearchExports(config) ==
    (IF config.js THEN {} ELSE {"websearch-have-js"})
    \cup (IF config.node_ip THEN {} ELSE {"have-show-node-ip"})
    \cup (IF config.message = "" THEN {"have-result-message"} ELSE {})

\* The next expansion is one more; without a parameter it is the first.
RenderExpansion(given) == IF given = 0 THEN 2 ELSE given + 1

RenderResultPageStatic(list, p, given, config, clusters) ==
    LET page == CurrentPage("html", p.page)
    IN  [killed |-> WebsearchExports(config)
                    \cup {"have-clustered-results-head", "have-clustered-results-body"},
         snippets |-> Shown(list, p, page), next |-> NextPageLink(list, p, page),
         prev |-> PrevPageLink(page), expansion |-> RenderExpansion(given.expansion),
         clusters |-> RenderNclusters(config.clustering, clusters)]

\* The engines that have a name in the options of the configuration; img asks another one.
RenderEngines(engines, options) == {e \in engines : e \in DOMAIN options}
\* Its options tell an engine's name and whether it is asked by default; XML names an engine
\* without options all the same.
RenderNodeOptions(enabled, options, format) ==
    {[url |-> e, known |-> e \in DOMAIN options,
      default |-> e \in DOMAIN options /\ options[e].default] :
        e \in IF format = "json" THEN RenderEngines(enabled, options) ELSE enabled}

\* What JSON and XML tell of the context of the results.
CollectResults(qc, prs, config, most) ==
    [pers |-> Personalizes(prs, config.personalization), expansion |-> qc.expansion,
     npeers |-> qc.npeers, suggestions |-> RenderSuggestedQueries(qc.suggestions, most),
     engines |-> RenderEngines(qc.engines, config.options)]

-----------------------------------------------------------------------------
(* Answers.                                                                 *)

CallBack(callback, text) == IF callback = "" THEN <<text>> ELSE <<callback, "(", text, ")">>
\* What an XML document ends as: an error of any kind is told as the first of them, a
\* stylesheet that is not there leaves an answer without a body.
XslResponse(err, stylesheet, there) ==
    CASE err # "OK" -> [err |-> "NO_TEMPLATE", body |-> "none", type |-> ""]
      [] err = "OK" /\ stylesheet = "" -> [err |-> "OK", body |-> "document", type |-> "text/xml"]
      [] OTHER -> [err |-> "OK", body |-> IF there THEN "transformed" ELSE "none",
                   type |-> IF there THEN "of the stylesheet" ELSE ""]

-----------------------------------------------------------------------------
(* Properties.                                                              *)

\* Who follows the links to the next page, from the first one on, sees every snippet that may
\* be shown once, and none twice (static_renderer.cpp 219-328, 561-608).
PagesCover(list, p) ==
    LET reached == {n \in 1 .. Len(list) + 1 : \A m \in 1 .. n - 1 : NextPageLink(list, p, m)}
        all == {i \in Seen(list, p) : Counts(list, i)}
    IN  p.rpp > 0 => /\ UNION {Shown(list, p, n) : n \in reached} = all
                     /\ \A m, n \in reached : m # n => Shown(list, p, m) \cap Shown(list, p, n) = {}

\* JSON, XML and HTML show the same snippets on a page, and in JSON one comma stands between
\* any two of them (json_renderer.cpp 310-375, xml_renderer.cpp 361-425).
JsonSeparated(list, p) ==
    LET text == RenderJson(list, p, p.page)
        shown == Shown(list, p, CurrentPage("html", p.page))
    IN  p.rpp > 0 /\ p.page >= 0 =>
            /\ {text[i] : i \in {j \in DOMAIN text : j % 2 = 1}} = shown
            /\ \A i \in DOMAIN text : i % 2 = 0 => text[i] = COMMA
            /\ Len(text) = 0 \/ Len(text) % 2 = 1
            /\ RenderXml(list, p, p.page) = shown

\* Every block that the template keeps is filled, and each snippet that may be in one is, once,
\* if there are no more clusters than places (static_renderer.cpp 330-467).
ClustersFill(clusters, enabled) ==
    LET r == RenderClusteredSnippets(clusters, enabled)
        shown == IF r.blocks = <<>> THEN r.list ELSE FlattenSeq(r.blocks)
        all == {s \in UNION {ToSet(clusters[i]) : i \in DOMAIN clusters} : InBlock(s, enabled)}
    IN  /\ r.kept = DOMAIN r.blocks
        /\ Len(FilledClusters(clusters, enabled)) <= Blocks =>
                ToSet(shown) = all /\ Len(shown) = Cardinality(all)

\* No more recommendations are shown than were asked for, those first in rank; their JSON is
\* well formed as long as the first snippet is one of them (json_renderer.cpp 196-250).
RecommendationsFit(list, nreco) ==
    LET shown == Recommendations(list, nreco, 0, "")
        text == RenderRecommendations(list, nreco, 0, "")
    IN  /\ nreco > 0 => Cardinality(shown) <= nreco
        /\ \A i \in shown, j \in DOMAIN list : Recommended(list[j], 0, "") /\ j < i => j \in shown
        /\ 1 \in shown \/ shown = {} => \A i \in DOMAIN text : text[i] = COMMA <=> i % 2 = 0

\* Who follows a link to the next page finds one back, the first page has none, and what is
\* offered next, more results or more clusters, is more than there is; analysis of contents
\* is offered wherever something else than tweets is shown (static_renderer.cpp 300-311,
\* 650-833).
PagesLinkBack(list, p, config) ==
    LET holds(page) ==
            /\ ~page[0].prev /\ ~page[1].prev /\ page[0].snippets = page[1].snippets
            /\ \A n \in 1 .. Len(list) :
                 /\ page[n].next => page[n + 1].prev
                 /\ page[n].expansion > n
                 /\ config.clustering => page[n].clusters.next > n
                 /\ (\E i \in page[n].snippets : list[i].type # "tweet")
                        => OfferedAnalysis(list, p, n, TRUE)
    IN  holds([n \in 0 .. Len(list) + 1 |->
                  RenderResultPageStatic(list, [p EXCEPT !.page = n], [expansion |-> n], config, n)])

\* What XML tells of a snippet JSON tells too, but for a thumb and for dates; a link to vote a
\* result down, or through the capture of queries, stands only where it can be answered
\* (search_snippet.cpp 186-330, seeks_snippet.cpp 80-661).
FormatsAgree(s, with, words) ==
    LET html == ToHtml(s, with)
        plain == ToPlainHtml(s, with)
    IN  /\ ToXml(s, FALSE, words) = ToJson(s, with.thumbs, words) \ {"thumb", "content_date", "record_date"}
        /\ "recommendations" \in html.links => Optional(s) = {"snpeers", "hits"}
        /\ \A h \in {html, plain} : /\ "tbd" \in h.links <=> s.personalized
                                    /\ h.title # "page" => with.capture
        /\ Ordinary(s) /\ s.type # "rejected" => plain.links \subseteq html.links
        /\ Cardinality(html.icons) <= Cardinality(s.engines) /\ (html.icons = {} <=> s.engines = {})
        /\ html.cite = "cite" => s.cite # 0

\* Around its neighbours every snippet is listed, and once, the first one first
\* (static_renderer.cpp 908-1004).
NeighboursOnce(list, near) ==
    LET ids == RenderNeighbors(list, near, 0)
    IN  /\ IsInjective(ids) /\ ToSet(ids) = {list[i].id : i \in DOMAIN list}
        /\ list # <<>> => ids[1] = list[1].id
        /\ RenderNeighbors(list, near, 2) = <<>>

\* Of the other queries JSON and XML show no more than HTML, the same first ones; and the same
\* suggestions, but that they show one where none is asked for (static_renderer.cpp
\* 104-194, json_renderer.cpp 153-194, 269-297).
RecentAgree(dust, query, most) ==
    LET html == RenderRecent(dust, query, most)
        json == RenderCachedQueries(dust, query, most)
    IN  /\ IsPrefix(json, html) /\ query \notin ToSet(html) /\ Len(html) <= Max({0, most})
        /\ ToSet(dust) \cap {"", query} = {} => json = html
        /\ \A n \in 0 .. Len(dust) : /\ RenderSuggestions(n, most) <= RenderSuggestedQueries(n, most)
                                     /\ RenderSuggestedQueries(n, most) <= n
                                     /\ most > 0 => RenderSuggestions(n, most) = RenderSuggestedQueries(n, most)

\* JSON and XML show the same clusters, of the same snippets where a page has room for them,
\* although they put them in different orders (json_renderer.cpp 377-423, xml_renderer.cpp
\* 427-467).
ClustersAgree(clusters, p) ==
    LET kept == SelectSeq(clusters, LAMBDA c : c # <<>>)
        json == RenderJsonClusters(clusters, p)
        xml == RenderXmlClusters(clusters, p)
        byRank(i) == StableSort(kept[i], LAMBDA a, b : MaxSeeksRank(a, b))
        byLikeness(i) == StableSort(kept[i], LAMBDA a, b : MaxSeeksIr(a, b))
    IN  /\ Len(json) = Len(kept) /\ Len(xml) = Len(kept)
        /\ \A i \in DOMAIN kept : Len(kept[i]) <= p.rpp =>
                {byRank(i)[j].id : j \in ToSet(json[i]) \ {COMMA}} = {byLikeness(i)[j].id : j \in xml[i]}

\* The engines that a node tells of are those that it says gave the results, and XML adds only
\* such as have no options (json_renderer.cpp 77-151, 552-600).
NodeIsTold(enabled, options, prs, personalizes) ==
    LET json == RenderNodeOptions(enabled, options, "json")
        xml == RenderNodeOptions(enabled, options, "xml")
        qc == [expansion |-> 1, npeers |-> 0, suggestions |-> 2, engines |-> enabled]
        told == CollectResults(qc, prs, [personalization |-> personalizes, options |-> options], 1)
    IN  /\ {o.url : o \in json} = told.engines /\ json \subseteq xml
        /\ \A o \in xml \ json : ~o.known /\ ~o.default
        /\ told.pers # personalizes => prs \in {"on", "off"}

\* An XML answer has a body exactly when it has a type, and none after an error
\* (xsl_serializer.cpp 219-309).
AnswersAreWhole(err, stylesheet, there) ==
    LET r == XslResponse(err, stylesheet, there)
    IN  /\ r.body = "none" <=> r.type = ""
        /\ r.err = "OK" <=> err = "OK"
        /\ r.err # "OK" => r.body = "none"
        /\ r.body = "none" => err # "OK" \/ ~there
=============================================================================
