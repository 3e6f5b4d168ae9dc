------------------------------- MODULE Engines --------------------------------
(* What is asked of each search engine, of texts and of images, and how its *)
(* answer is read (se_handler, se_handler_img, se_parser and the parser of  *)
(* each engine).  Addresses and queries are sequences of character codes.   *)
EXTENDS Encodings

\* The marks in the address of an engine that are filled in.
QUERY == <<37, 113, 117, 101, 114, 121>>                    \* %query
START == <<37, 115, 116, 97, 114, 116>>                     \* %start
NUM == <<37, 110, 117, 109>>                                \* %num
LANG == <<37, 108, 97, 110, 103>>                           \* %lang
ENCODING == <<37, 101, 110, 99, 111, 100, 105, 110, 103>>   \* %encoding

\* What each engine fills in, in this order: the engines of the web,
WebFills ==
    "google" :> <<"query", "start", "num", "encoding", "configured">>
    @@ "bing" :> <<"query", "start", "region">>
    @@ "yahoo" :> <<"start", "lang", "query">>
    @@ "exalead" :> <<"query", "start", "num", "configured">>
    @@ [e \in {"twitter", "youtube"} |-> <<"query", "start", "num">>]
    @@ "blekko" :> <<"query">>
    @@ "yauba" :> <<"query", "start", "country">>

\* those that search one site or a feed,
SiteFills ==
    [e \in {"dailymotion", "delicious"} |-> <<"query", "start">>]
    @@ [e \in {"dokuwiki", "dotclear", "wordpress", "redmine"} |-> <<"query">>]
    @@ [e \in {"mediawiki", "opensearch_rss", "opensearch_atom"} |-> <<"query", "configured">>]
    @@ "bing_api" :> <<"query", "num", "region">>

\* and those of images.  "own": the query, at the place where the configuration that comes
\* with the program has its mark, whatever stands there.
ImageFills ==
    "bing_img" :> <<"own", "start", "region">>
    @@ "google_img" :> <<"own", "start", "num", "encoding", "configured">>
    @@ "flickr" :> <<"own", "start">>
    @@ "yahoo_img" :> <<"own", "start", "lang">>
    @@ "wcommons" :> <<"query", "start", "num">>

TextEngines == DOMAIN WebFills \cup DOMAIN SiteFills
ImageEngines == DOMAIN ImageFills
Fills(e) == (WebFills @@ SiteFills @@ ImageFills)[e]

\* Where page p of nr results starts: the number of the page, the number of its first result
\* from 0 or from 1, or (yahoo) from 1 except that the first page starts at 0.
StartOf(e, p, nr) ==
    CASE e \in {"twitter", "yauba", "dailymotion", "delicious", "flickr"} -> p
      [] e = "youtube" -> (p - 1) * nr + 1
      [] e = "yahoo" -> IF (p - 1) * nr > 1 THEN (p - 1) * nr + 1 ELSE (p - 1) * nr
      [] OTHER -> (p - 1) * nr

Digits(n) == IF n < 10 THEN <<48 + n>> ELSE <<48 + (n \div 10), 48 + (n % 10)>>

\* One mark filled in.  a: the query and its place, the page, and the settings.
Fill(e, a, url, what) ==
    CASE what = "query" -> ReplaceInString(url, QUERY, UrlEncode(a.query))
      [] what = "own" -> SubSeq(url, 1, a.place) \o UrlEncode(a.query)
                         \o SubSeq(url, a.place + Len(QUERY) + 1, Len(url))
      [] what = "start" -> ReplaceInString(url, START, Digits(StartOf(e, a.page, a.nr)))
      [] what = "num" -> ReplaceInString(url, NUM, Digits(a.nr))
      [] what = "encoding" -> ReplaceInString(url, ENCODING, <<117, 116, 102, 45, 56>>)
      [] what = "lang" -> ReplaceInString(url, LANG, a.lang)
      [] what = "configured" ->
            ReplaceInString(url, LANG, IF a.auto THEN a.lang ELSE a.configured)
      [] what = "region" -> ReplaceInString(url, LANG, a.region)
      [] what = "country" -> ReplaceInString(url, LANG, a.country)

\* query_to_se: an engine that nobody knows is asked its address as it stands.
QueryToSe(e, url, a) ==
    IF e \in TextEngines \cup ImageEngines
    THEN FoldLeft(LAMBDA u, what : Fill(e, a, u, what), url, Fills(e)) ELSE url

\* google and yahoo are not told what browser asks.
HeadersFor(e, useful) == IF e \in {"google", "yahoo"} THEN <<>> ELSE useful

\* create_se_parser, parse_output and parse_output_xml.
ParserOf(e) ==
    CASE e \notin TextEngines \cup ImageEngines -> "none"
      [] e \in {"youtube", "dailymotion", "bing_api", "bing_img"} -> "xml"
      [] OTHER -> "html"

\* parse_output: the snippets found are put into the context when the parser ends without an
\* exception.
ParseOutput(e, n, throws) ==
    CASE ParserOf(e) = "none" -> [err |-> "NO_ENGINE", found |-> 0, adopted |-> FALSE]
      [] ParserOf(e) # "none" /\ throws -> [err |-> "PARSE", found |-> n, adopted |-> FALSE]
      [] OTHER -> [err |-> "OK", found |-> n, adopted |-> TRUE]

\* The snippets of the answers that were read well; for images, of all of them.
Collected(parsed, images) ==
    FlattenSeq([i \in DOMAIN parsed |->
                   IF images \/ parsed[i].err = "OK"
                   THEN [k \in 1 .. parsed[i].found |-> parsed[i].adopted] ELSE <<>>])

\* The cookie that turns safe search off, for the engines that have one.
CookieFor(e, unsafe) == IF unsafe /\ e \in {"bing_img", "yahoo_img"} THEN e ELSE ""

-----------------------------------------------------------------------------
(* The parsers of the answers.  A page is what libxml2 calls back for:       *)
(* elements that start, with their attributes, texts, in one piece or in     *)
(* several, and elements that end.  A text is a sequence of marks: what part *)
(* of which result it is.                                                    *)

Start(tag, at) == [kind |-> "start", tag |-> tag, at |-> at]
Text(t) == [kind |-> "text", text |-> t]
End(tag) == [kind |-> "end", tag |-> tag]

SnippetFields == {"title", "url", "summary", "cite", "cached", "date", "forum"}

\* A parser: the flags that are up, the texts collected under a name, the snippets made, of
\* which the last one is _sn and cur is _current_snippet (0: NULL), those listed and those
\* deleted, and _count; stray: it has written through a pointer that leads nowhere.
MkSeParser(offset, up) ==
    [up |-> up, text |-> <<>>, made |-> <<>>, cur |-> 0, list |-> <<>>, freed |-> {},
     count |-> offset, stray |-> FALSE, threw |-> FALSE]

Raise(p, flags) == [p EXCEPT !.up = @ \cup flags]
Lower(p, flags) == [p EXCEPT !.up = @ \ flags]
Held(p, name) == IF name \in DOMAIN p.text THEN p.text[name] ELSE <<>>
Hold(p, name, t) == [p EXCEPT !.text = (name :> t) @@ @]

NewSnippet(p) ==
    [p EXCEPT !.count = @ + 1, !.cur = Len(p.made) + 1,
              !.made = Append(@, ("rank" :> p.count + 1) @@ [f \in SnippetFields |-> <<>>])]
\* The first one has rank 0 here.
NewFromZero(p) ==
    LET q == NewSnippet(p) IN [q EXCEPT !.made[q.cur].rank = p.count]
Listed(p) == [p EXCEPT !.list = Append(@, p.cur)]
Delete(p) == [p EXCEPT !.freed = @ \cup {p.cur}, !.cur = 0]
Discard(p) == [Delete(p) EXCEPT !.count = @ - 1]
PopBack(p) == IF p.list = <<>> THEN [p EXCEPT !.stray = TRUE] ELSE [p EXCEPT !.list = Front(@)]

Write(p, s, field, t) ==
    IF s \in DOMAIN p.made \ p.freed THEN [p EXCEPT !.made[s][field] = t]
    ELSE [p EXCEPT !.stray = TRUE]
SetCurrent(p, field, t) == Write(p, p.cur, field, t)
SetSn(p, field, t) == Write(p, Len(p.made), field, t)

\* A text that was collected under a flag goes into a field when its element ends.
Into(p, flag, field) == Lower(Hold(SetCurrent(p, field, Held(p, flag)), flag, <<>>), {flag})
IntoSn(p, flag, field) == Lower(Hold(SetSn(p, field, Held(p, flag)), flag, <<>>), {flag})

\* A text belongs to the first of these flags that is up.
Gather(p, flags, t) ==
    LET up == SelectSeq(flags, LAMBDA f : f \in p.up)
    IN  IF up = <<>> THEN p ELSE Hold(p, up[1], Held(p, up[1]) \o t)

\* The snippet before is listed, or was listed already, when it has these fields, and deleted
\* otherwise.
HasFields(p, fields) == \A f \in fields : p.made[p.cur][f] # <<>>
Settle(p, fields) ==
    IF p.cur = 0 THEN p ELSE IF HasFields(p, fields) THEN Listed(p) ELSE Discard(p)
SettleListed(p, fields) ==
    IF p.cur = 0 \/ HasFields(p, fields) THEN p ELSE PopBack(Discard(p))

\* get_attribute.
Has(e, name) == name \in DOMAIN e.at
Is(e, name, value) == Has(e, name) /\ e.at[name] = value
HasMark(t, marks) == \E i \in DOMAIN t : t[i][1] \in marks
HOST == <<"host", 0, 0>>

\* google: the results are in items of class "g" after the heading.  A block of the latest
\* results ("rth") is made a snippet without a title.
InTitle(p) == p.cur # 0 /\ "h3" \in p.up
PostProcessGgle(p) ==
    LET url == p.made[p.cur].url
    IN  IF url = <<>> \/ HasMark(url, {"unwanted", "malformed"}) THEN Discard(p) ELSE p
PushGgle(p) == IF p.cur = 0 THEN p ELSE [Listed(p) EXCEPT !.cur = 0]
AssertGgle(p) ==
    CASE p.cur = 0 -> p
      [] p.cur # 0 /\ HasFields(p, {"title", "url"}) -> PushGgle(PostProcessGgle(p))
      [] OTHER -> Discard(p)
GgleStart(p, e) ==
    LET sr == "sr" \in p.up IN
    CASE e.tag = "h2" /\ ~sr -> Raise(p, {"h2"} \cup (IF Is(e, "class", "hd") THEN {"sr"} ELSE {}))
      [] e.tag = "h3" /\ sr /\ Is(e, "class", "r") -> Raise(p, {"h3", "new link"})
      [] e.tag = "span" /\ InTitle(p) /\ Is(e, "id", "rth") ->
            Lower(Raise(SetCurrent(p, "title", <<>>), {"rt"}), {"li", "h3"})
      [] e.tag = "a" /\ InTitle(p) /\ Has(e, "href") -> SetCurrent(p, "url", e.at.href)
      [] e.tag = "li" /\ sr /\ Is(e, "class", "g") ->
            Raise(Hold(NewSnippet(AssertGgle(p)), "st", <<>>), {"li"})
      [] e.tag = "div" /\ {"sr", "li", "new link"} \subseteq p.up /\ Is(e, "class", "f") ->
            Raise(p, {"forum"})
      [] e.tag = "a" /\ ~InTitle(p) /\ "flc" \in p.up /\ Has(e, "href") ->
            Raise(Hold(p, "cached", e.at.href), {"cached"})
      [] e.tag = "span" /\ ~InTitle(p) /\ sr /\ Is(e, "class", "st") /\ Held(p, "st") = <<>> ->
            Raise(p, {"st"})
      [] e.tag = "span" /\ ~InTitle(p) /\ sr /\ Is(e, "class", "flc") -> Raise(p, {"flc"})
      [] e.tag = "a" /\ ~InTitle(p) /\ p.up \cap {"flc", "end spell"} = {} /\ p.count <= 1
            /\ Is(e, "class", "spell") -> Raise(p, {"spell"})
      [] OTHER -> p
GgleText(p, t) == Gather(p, <<"h3", "forum", "st", "spell">>, t)
GgleEnd(p, tag) ==
    LET cached == p.made # <<>> /\ "cached" \in p.up IN
    CASE tag = "h3" /\ InTitle(p) /\ "li" \in p.up -> Into(p, "h3", "title")
      [] tag = "h2" -> Lower(p, {"h2"})
      [] tag = "span" /\ "st" \in p.up -> Into(p, "st", "summary")
      [] tag = "div" /\ "forum" \in p.up /\ p.cur # 0 -> IntoSn(p, "forum", "forum")
      [] tag = "a" /\ cached -> Lower(IntoSn(p, "cached", "cached"), {"flc"})
      [] tag = "a" /\ ~cached /\ "spell" \in p.up -> Raise(Lower(p, {"spell"}), {"end spell"})
      [] tag = "ol" /\ {"sr", "li", "rt"} \subseteq p.up -> Lower(p, {"rt"})
      [] tag = "ol" /\ {"sr", "li"} \subseteq p.up /\ "rt" \notin p.up /\ p.cur # 0 ->
            IF HasFields(p, {"title"}) THEN PushGgle(PostProcessGgle(p)) ELSE Delete(p)
      [] OTHER -> p

\* bing: a result is listed when the next block begins.
BingStart(p, e) ==
    LET in == p.cur # 0 /\ {"results", "h1"} \subseteq p.up IN
    CASE e.tag = "h1" -> Raise(p, {"h1"})
      [] e.tag = "div" /\ Is(e, "class", "sb_tlst") ->
            Lower(NewSnippet(IF p.list = <<>> THEN Raise(p, {"results"}) ELSE p), {"cached"})
      [] e.tag = "div" /\ "results" \in p.up /\ (Is(e, "class", "sa_cc") \/ Is(e, "class", "sb_pag")) ->
            Settle(p, {"title", "url", "summary"})
      [] e.tag = "h3" /\ in -> Raise(p, {"h3"})
      [] e.tag = "a" /\ in /\ "h3" \in p.up ->
            Raise(IF Has(e, "href") THEN Hold(p, "link", e.at.href) ELSE p, {"link"})
      [] e.tag = "p" /\ in -> Raise(p, {"p"})
      [] e.tag = "cite" /\ {"results", "h1"} \subseteq p.up -> Raise(p, {"cite"})
      [] e.tag = "a" /\ ~(in /\ "h3" \in p.up) /\ {"results", "h1", "cached"} \subseteq p.up ->
            LET q == Lower(p, {"cached"})
            IN  IF Has(e, "href") THEN SetSn(q, "cached", e.at.href) ELSE q
      [] OTHER -> p
BingText(p, t) == Gather(p, <<"p", "cite", "h3">>, t)
BingEnd(p, tag) ==
    CASE p.cur = 0 \/ "results" \notin p.up -> p
      [] p.cur # 0 /\ tag = "a" /\ {"results", "h1", "h3"} \subseteq p.up -> Into(p, "link", "url")
      [] p.cur # 0 /\ tag = "p" /\ {"results", "p"} \subseteq p.up -> Into(p, "p", "summary")
      [] p.cur # 0 /\ tag = "cite" /\ {"results", "cite"} \subseteq p.up ->
            Raise(Lower(Hold(p, "cite", <<>>), {"cite"}), {"cached"})
      [] p.cur # 0 /\ tag = "h3" /\ {"results", "h3"} \subseteq p.up -> Into(p, "h3", "title")
      [] OTHER -> p

\* bing_api: what is said of the links inside a page is skipped, its flags are not.
BingApiField == "Title" :> "title" @@ "Url" :> "url" @@ "Description" :> "summary"
                @@ "CacheUrl" :> "cached" @@ "DisplayUrl" :> "cite" @@ "DateTime" :> "date"
BingApiStart(p, e) ==
    CASE e.tag = "WebResult" -> Listed(NewSnippet(p))
      [] e.tag \in {"DeepLink"} \cup DOMAIN BingApiField -> Raise(p, {e.tag})
      [] OTHER -> p
BingApiText(p, t) ==
    IF "DeepLink" \in p.up THEN p
    ELSE Gather(p, <<"Title", "Description", "Url", "CacheUrl", "DisplayUrl", "DateTime">>, t)
BingApiEnd(p, tag) ==
    CASE tag = "DeepLink" -> Lower(p, {"DeepLink"})
      [] tag \in DOMAIN BingApiField /\ tag \in p.up /\ ("DeepLink" \notin p.up \/ tag = "Description") ->
            IntoSn(p, tag, BingApiField[tag])
      [] OTHER -> p

\* blekko, a feed whose parser knows no <link>.
BlekkoStart(p, e) ==
    CASE e.tag = "item" -> NewSnippet(Raise(p, {"item"}))
      [] e.tag \in {"title", "guid", "description"} /\ "item" \in p.up -> Raise(p, {e.tag})
      [] OTHER -> p
BlekkoText(p, t) == Gather(p, <<"description", "title", "guid">>, t)
BlekkoEnd(p, tag) ==
    CASE tag = "item" /\ "item" \in p.up ->
            Settle(Lower(p, {"item"}), {"title", "url", "summary"})
      [] tag \in {"title", "guid", "description"} /\ {"item", tag} \subseteq p.up ->
            Into(p, tag, CASE tag = "title" -> "title" [] tag = "guid" -> "url" [] OTHER -> "summary")
      [] OTHER -> p

DailymotionStart(p, e) ==
    CASE e.tag = "item" -> NewSnippet(Raise(p, {"item"}))
      [] e.tag \in {"title", "guid", "pubDate", "itunes:summary"} /\ "item" \in p.up -> Raise(p, {e.tag})
      [] e.tag = "media:thumbnail" /\ "item" \in p.up /\ Has(e, "url") -> SetSn(p, "cached", e.at.url)
      [] OTHER -> p
DailymotionText(p, t) ==
    IF "item" \in p.up THEN Gather(p, <<"title", "guid", "pubDate">>, t) ELSE p
DailymotionEnd(p, tag) ==
    CASE tag = "item" /\ "item" \in p.up -> Settle(Lower(p, {"item"}), {"title", "url", "date"})
      [] tag \in {"title", "guid"} /\ {"item", tag} \subseteq p.up ->
            Into(p, tag, IF tag = "title" THEN "title" ELSE "url")
      [] tag = "itunes:summary" /\ {"item", tag} \subseteq p.up -> Lower(p, {tag})
      [] tag = "pubDate" /\ {"item", tag} \subseteq p.up -> IntoSn(p, tag, "date")
      [] OTHER -> p

\* delicious: nothing is checked; the branch that takes a snippet off the list is not reached.
DeliciousStart(p, e) ==
    CASE e.tag = "li" /\ Is(e, "class", "post") -> Listed(NewFromZero(p))
      [] e.tag = "a" /\ Is(e, "class", "taggedlink ") /\ Has(e, "href") ->
            Raise(SetCurrent(p, "url", e.at.href), {"title"})
      [] OTHER -> p
DeliciousText(p, t) == Gather(p, <<"title">>, t)
DeliciousEnd(p, tag) == IF tag = "a" /\ "title" \in p.up THEN Into(p, "title", "title") ELSE p

\* dokuwiki and dotclear: a result is listed when the next one begins.
DokuStart(p, e) ==
    CASE e.tag = "div" /\ "results" \in p.up /\ Is(e, "class", "search_snippet") -> Raise(p, {"snippet"})
      [] e.tag = "div" /\ Is(e, "class", "search_result") ->
            Raise(NewSnippet(Settle(p, {"title", "url", "summary", "cite"})), {"results"})
      [] e.tag = "a" /\ "results" \in p.up ->
            LET q == IF Has(e, "href") THEN Hold(p, "link", e.at.href) ELSE p
            IN  IF Has(e, "title") THEN Hold(q, "title", e.at.title) ELSE q
      [] OTHER -> p
DokuText(p, t) == Gather(p, <<"snippet">>, t)
DokuEnd(p, tag) ==
    LET link == <<HOST>> \o Held(p, "link") IN
    CASE tag = "a" /\ "results" \in p.up ->
            Into(Hold(SetCurrent(SetSn(p, "cite", link), "url", link), "link", <<>>), "title", "title")
      [] tag = "div" /\ {"results", "snippet"} \subseteq p.up -> Into(p, "snippet", "summary")
      [] tag = "div" /\ "snippet" \notin p.up -> Lower(p, {"results"})
      [] OTHER -> p

DotclearStart(p, e) ==
    CASE e.tag = "div" /\ Is(e, "class", "post-content") -> Raise(p, {"snippet"})
      [] e.tag = "h2" /\ Is(e, "class", "post-title") ->
            Raise(NewSnippet(Settle(p, {"title", "url", "summary"})), {"results"})
      [] e.tag = "a" /\ "results" \in p.up ->
            Raise(IF ~Has(e, "href") THEN p
                  ELSE Hold(p, "url", (IF HasMark(e.at.href, {"relative"}) THEN <<HOST>> ELSE <<>>) \o e.at.href),
                  {"link"})
      [] OTHER -> p
DotclearText(p, t) == Gather(p, <<"snippet", "link">>, t)
DotclearEnd(p, tag) ==
    CASE tag = "a" /\ "link" \in p.up ->
            LET q == SetCurrent(SetCurrent(p, "cite", Held(p, "url")), "url", Held(p, "url"))
            IN  Into(Hold(q, "url", <<>>), "link", "title")
      [] tag = "div" /\ "snippet" \in p.up -> Into(p, "snippet", "summary")
      [] tag = "h2" -> Lower(p, {"results"})
      [] OTHER -> p

\* exalead: a result is listed at once, and checked when the next one begins (bad_snippet).
BadSnippet(s) == s.url = <<>> \/ s.title = <<>> \/ HasMark(s.title, {"unwanted"})
ExaleadStart(p, e) ==
    LET result == "result" \in p.up IN
    CASE e.tag = "div" /\ Is(e, "class", "resultContent") ->
            LET q == IF p.cur # 0 /\ BadSnippet(p.made[p.cur]) THEN PopBack(Discard(p)) ELSE p
            IN  Listed(NewSnippet(Raise(q, {"result"})))
      [] e.tag = "p" /\ result -> Raise(p, {"p"})
      [] e.tag = "span" /\ result /\ "p" \in p.up /\ ~Has(e, "class") -> Raise(p, {"summary"})
      [] e.tag = "span" /\ result /\ {"p", "summary"} \subseteq p.up /\ Is(e, "class", "bookmarkLinks") ->
            Raise(p, {"ignore"})
      [] e.tag = "a" /\ result /\ Is(e, "class", "url") -> Raise(p, {"cite"})
      [] e.tag = "a" /\ result /\ Is(e, "class", "title") ->
            LET q == IF Has(e, "href") THEN SetCurrent(p, "url", e.at.href) ELSE p
            IN  IF Has(e, "title") THEN SetCurrent(q, "title", e.at.title) ELSE q
      [] e.tag = "a" /\ result /\ Is(e, "class", "cache") ->
            Raise(IF Has(e, "href") THEN SetSn(p, "cached", <<HOST>> \o e.at.href) ELSE p, {"cached"})
      [] OTHER -> p
ExaleadText(p, t) == Gather(p, IF "ignore" \in p.up THEN <<"cite">> ELSE <<"summary", "cite">>, t)
ExaleadEnd(p, tag) ==
    LET result == "result" \in p.up IN
    CASE tag = "div" /\ result -> Lower(p, {"result", "p", "summary", "cite", "cached"})
      [] tag = "span" /\ result /\ "ignore" \in p.up -> Lower(p, {"ignore"})
      [] tag = "span" /\ result /\ "ignore" \notin p.up /\ "summary" \in p.up -> Into(p, "summary", "summary")
      [] tag = "a" /\ result /\ "cite" \in p.up -> IntoSn(p, "cite", "cite")
      [] OTHER -> p

\* mediawiki: whether _results_flag is up at the start is not said by its constructor.
MediawikiUps == {{"end"}, {"end", "results"}}
MediawikiStart(p, e) ==
    LET in == "end" \notin p.up IN
    CASE e.tag = "ul" /\ Is(e, "class", "mw-search-results") -> Lower(p, {"end"})
      [] e.tag = "li" /\ in -> NewSnippet(Raise(p, {"li"}))
      [] e.tag = "a" /\ in /\ "li" \in p.up ->
            Raise(Hold(p, "link", e.at.href), {"a"} \cup (IF p.list = <<>> THEN {"results"} ELSE {}))
      [] e.tag = "div" /\ in /\ "li" \in p.up /\ Is(e, "class", "searchresult") -> Raise(p, {"search"})
      [] OTHER -> p
MediawikiText(p, t) == Gather(Gather(p, <<"a">>, t), <<"search">>, t)
MediawikiEnd(p, tag) ==
    LET results == "results" \in p.up
        link == <<HOST>> \o Held(p, "link")
    IN
    CASE tag = "ul" -> Raise(p, {"end"})
      [] tag = "li" /\ results /\ "li" \in p.up ->
            Settle(Lower(p, {"li"}), {"title", "url", "summary", "cite"})
      [] tag = "a" /\ results /\ "a" \in p.up ->
            Hold(SetSn(SetCurrent(Into(p, "a", "title"), "url", link), "cite", link), "link", <<>>)
      [] tag = "div" /\ results /\ "search" \in p.up ->
            Into(IF Held(p, "search") = <<>> THEN Hold(p, "search", <<<<"blank", 0, 0>>>>) ELSE p,
                 "search", "summary")
      [] OTHER -> p

\* The feeds of OpenSearch.  Until there is a snippet no end of an element is seen, so that the
\* title of the feed does not end.
OsearchAtomStart(p, e) ==
    LET feed == "feed" \in p.up  entry == "entry" \in p.up IN
    CASE e.tag = "feed" -> Raise(p, {"feed"})
      [] e.tag = "entry" /\ feed -> Raise(Listed(NewSnippet(p)), {"entry"})
      [] e.tag \in {"title", "updated", "content"} /\ entry -> Raise(p, {e.tag})
      [] e.tag = "link" /\ entry /\ Has(e, "href") /\ p.cur # 0 -> SetCurrent(p, "url", e.at.href)
      [] e.tag = "title" /\ feed /\ ~entry -> Raise(p, {"gen"})
      [] OTHER -> p
OsearchAtomText(p, t) == Gather(p, <<"title", "updated", "content", "gen">>, t)
OsearchAtomEnd(p, tag) ==
    LET sees == "feed" \in p.up /\ p.cur # 0 IN
    CASE tag = "entry" /\ sees /\ "entry" \in p.up -> Lower(SettleListed(p, {"title", "url"}), {"entry"})
      [] tag = "title" /\ sees /\ "title" \in p.up -> Into(p, "title", "title")
      [] tag = "updated" /\ sees /\ "updated" \in p.up -> IntoSn(p, "updated", "date")
      [] tag = "content" /\ sees /\ "content" \in p.up -> Into(p, "content", "summary")
      [] tag = "title" /\ sees /\ "title" \notin p.up -> Lower(p, {"gen"})
      [] tag = "feed" /\ sees -> Lower(p, {"feed"})
      [] OTHER -> p

\* To the parser of HTML <link> is empty: the address is the text after its end.
OsearchRssStart(p, e) ==
    LET feed == "feed" \in p.up  entry == "entry" \in p.up IN
    CASE e.tag = "channel" -> Raise(p, {"feed"})
      [] e.tag = "item" /\ feed -> Raise(Listed(NewSnippet(p)), {"entry"})
      [] e.tag \in {"title", "link", "description"} /\ entry -> Raise(p, {e.tag})
      [] e.tag = "title" /\ feed /\ ~entry -> Raise(p, {"gen"})
      [] OTHER -> p
OsearchRssText(p, t) ==
    LET q == Gather(p, <<"title">>, t)
    IN  IF "link" \in q.up THEN Lower(SetCurrent(q, "url", t), {"link"})
        ELSE Gather(q, <<"description", "gen">>, t)
OsearchRssEnd(p, tag) ==
    LET sees == "feed" \in p.up /\ p.cur # 0 IN
    CASE tag = "item" /\ sees /\ "entry" \in p.up -> Lower(SettleListed(p, {"title", "url"}), {"entry"})
      [] tag = "title" /\ sees /\ "title" \in p.up -> Into(p, "title", "title")
      [] tag = "description" /\ sees /\ "description" \in p.up -> Into(p, "description", "summary")
      [] tag = "title" /\ sees /\ "title" \notin p.up -> Lower(p, {"gen"})
      [] tag = "channel" /\ sees -> Lower(p, {"feed"})
      [] OTHER -> p

RedmineStart(p, e) ==
    LET results == "results" \in p.up IN
    CASE e.tag = "dl" /\ Is(e, "id", "search-results") -> Raise(p, {"results"})
      [] e.tag = "dt" /\ results -> Listed(NewSnippet(p))
      [] e.tag = "a" /\ results /\ Has(e, "href") ->
            Raise(SetCurrent(p, "url", <<HOST>> \o e.at.href), {"title"})
      [] e.tag = "span" /\ results /\ Is(e, "class", "description") -> Raise(p, {"summary"})
      [] e.tag = "span" /\ results /\ Is(e, "class", "author") -> Raise(p, {"date"})
      [] OTHER -> p
RedmineText(p, t) == Gather(p, <<"title">> \o (IF "date" \in p.up THEN <<"date">> ELSE <<"summary">>), t)
RedmineEnd(p, tag) ==
    CASE tag = "dl" -> Lower(p, {"results"})
      [] tag = "a" /\ "title" \in p.up -> Into(p, "title", "title")
      [] tag = "dd" /\ "summary" \in p.up -> IntoSn(Into(p, "summary", "summary"), "date", "date")
      [] OTHER -> p

\* twitter: the second link is a picture.  Of a date or an address in pieces the last is kept.
TwitterStart(p, e) ==
    CASE e.tag = "entry" -> NewSnippet(Raise(p, {"entry"}))
      [] e.tag \in {"title", "published", "uri"} /\ "entry" \in p.up -> Raise(p, {e.tag})
      [] e.tag = "link" /\ "entry" \in p.up ->
            IF HasFields(p, {"url"}) THEN SetSn(p, "cached", e.at.href) ELSE SetCurrent(p, "url", e.at.href)
      [] OTHER -> p
TwitterText(p, t) ==
    CASE "title" \in p.up -> Hold(p, "title", Held(p, "title") \o t)
      [] "title" \notin p.up /\ "published" \in p.up -> Hold(p, "published", t)
      [] p.up \cap {"title", "published"} = {} /\ "uri" \in p.up -> Hold(p, "uri", t)
      [] OTHER -> p
TwitterEnd(p, tag) ==
    CASE tag = "entry" /\ "entry" \in p.up -> Settle(Lower(p, {"entry"}), {"title", "url"})
      [] tag = "title" /\ {"entry", tag} \subseteq p.up -> Into(p, tag, "title")
      [] tag = "published" /\ {"entry", tag} \subseteq p.up -> IntoSn(p, tag, "date")
      [] tag = "uri" /\ {"entry", tag} \subseteq p.up -> IntoSn(p, tag, "cite")
      [] OTHER -> p

WordpressStart(p, e) ==
    CASE e.tag = "div" /\ Is(e, "class", "type-post") -> Listed(NewSnippet(p))
      [] e.tag = "div" /\ p.cur # 0 /\ Is(e, "class", "post-content") -> Raise(p, {"summary"})
      [] e.tag = "h2" /\ p.cur # 0 -> Raise(p, {"title"})
      [] e.tag = "a" /\ "title" \in p.up -> SetCurrent(p, "url", e.at.href)
      [] e.tag = "span" /\ p.cur # 0 /\ Is(e, "class", "post-date") -> Raise(p, {"date"})
      [] OTHER -> p
WordpressText(p, t) == Gather(p, <<"title", "summary", "date">>, t)
WordpressEnd(p, tag) ==
    CASE tag = "h2" /\ "title" \in p.up -> Into(p, "title", "title")
      [] tag = "div" /\ "summary" \in p.up -> Into(p, "summary", "summary")
      [] tag = "span" /\ "date" \in p.up -> IntoSn(p, "date", "date")
      [] OTHER -> p

\* yahoo: only its own news are taken off the list, when the next result begins.
YahooStart(p, e) ==
    LET begun == "begin" \in p.up IN
    CASE e.tag = "div" /\ "start" \notin p.up /\ Is(e, "id", "web") -> Raise(p, {"start"})
      [] e.tag = "div" /\ begun /\ (Is(e, "class", "abstr") \/ Is(e, "class", "sm-abs")) ->
            Raise(p, {"summary"})
      [] e.tag = "div" /\ begun /\ Is(e, "class", "res") ->
            LET news == p.cur # 0 /\ HasMark(p.made[p.cur].url, {"unwanted"})
            IN  Listed(NewFromZero(IF news THEN PopBack(Discard(p)) ELSE p))
      [] e.tag = "ol" /\ "start" \in p.up -> Raise(p, {"begin"})
      [] e.tag = "h3" /\ begun -> Raise(p, {"title"})
      [] e.tag = "a" /\ Has(e, "href") /\ p.cur # 0 /\ "title" \in p.up -> SetCurrent(p, "url", e.at.href)
      [] e.tag = "a" /\ Has(e, "href") /\ p.cur # 0 /\ "title" \notin p.up /\ begun ->
            SetSn(p, "cached", e.at.href)
      [] OTHER -> p
YahooText(p, t) == Gather(p, <<"title", "summary">>, t)
YahooEnd(p, tag) ==
    CASE tag = "ol" -> Lower(p, {"begin"})
      [] tag = "h3" /\ "title" \in p.up -> Into(p, "title", "title")
      [] tag = "div" /\ "summary" \in p.up -> Into(p, "summary", "summary")
      [] OTHER -> p

YaubaStart(p, e) ==
    LET result == "result" \in p.up IN
    CASE e.tag = "div" /\ Is(e, "class", "imageblock") -> NewSnippet(Raise(p, {"result"}))
      [] e.tag = "h1" /\ result -> Raise(p, {"title"})
      [] e.tag = "a" /\ result /\ ~HasFields(p, {"url"}) /\ Has(e, "href") -> SetCurrent(p, "url", e.at.href)
      [] e.tag = "p" /\ result -> Raise(p, {"summary"})
      [] e.tag = "li" /\ result /\ Is(e, "class", "bluecolor") -> Raise(p, {"cite"})
      [] OTHER -> p
YaubaText(p, t) == Gather(Gather(Gather(p, <<"cite">>, t), <<"summary">>, t), <<"title">>, t)
YaubaEnd(p, tag) ==
    CASE tag = "ul" -> [Settle(Lower(p, {"result"}), {"title", "cite", "url"}) EXCEPT !.cur = 0]
      [] tag = "h1" /\ {"result", "title"} \subseteq p.up -> Into(p, "title", "title")
      [] tag = "p" /\ {"result", "summary"} \subseteq p.up -> Into(p, "summary", "summary")
      [] tag = "li" /\ "cite" \in p.up -> IntoSn(p, "cite", "cite")
      [] OTHER -> p

\* youtube: the picture is cut out of the description, which must not be empty.
YoutubeStart(p, e) ==
    CASE e.tag = "item" -> NewSnippet(Raise(p, {"item"}))
      [] e.tag \in {"title", "pubDate", "link", "description"} /\ "item" \in p.up -> Raise(p, {e.tag})
      [] OTHER -> p
YoutubeText(p, t) == Gather(p, <<"description", "link", "pubDate", "title">>, t)
YoutubeEnd(p, tag) ==
    CASE tag = "description" /\ "item" \in p.up ->
            IF Held(p, tag) = <<>> THEN [p EXCEPT !.threw = TRUE] ELSE IntoSn(p, tag, "cached")
      [] tag = "item" /\ "item" \in p.up ->
            Settle(Lower(p, {"item"}), {"title", "url", "cached", "date"})
      [] tag = "pubDate" /\ {"item", tag} \subseteq p.up -> IntoSn(p, tag, "date")
      [] tag = "title" /\ {"item", tag} \subseteq p.up -> Into(p, tag, "title")
      [] tag = "link" /\ {"item", tag} \subseteq p.up -> Into(p, tag, "url")
      [] OTHER -> p

\* The engines of images list a result at once and check it when the next one begins, except
\* google_img, which checks its address at its end.
NextImage(p) == Listed(NewSnippet(SettleListed(p, {"title", "url", "cached"})))
NoText(p, t) == p

BingImgStart(p, e) ==
    LET results == "results" \in p.up IN
    CASE e.tag = "span" /\ Is(e, "class", "ic") ->
            NextImage(IF p.list = <<>> THEN Raise(p, {"results"}) ELSE p)
      [] e.tag = "span" /\ results /\ Is(e, "class", "md_mu") -> Raise(p, {"link"})
      [] e.tag = "span" /\ results /\ Is(e, "class", "md_de") -> Raise(p, {"title"})
      [] e.tag = "img" /\ results /\ Is(e, "class", "img_ls_u") /\ Has(e, "src") ->
            SetCurrent(p, "cached", e.at.src)
      [] OTHER -> p
BingImgText(p, t) == Gather(p, <<"link", "title">>, t)
BingImgEnd(p, tag) ==
    CASE tag = "span" /\ {"results", "link"} \subseteq p.up -> Into(p, "link", "url")
      [] tag = "span" /\ {"results", "title"} \subseteq p.up /\ "link" \notin p.up -> Into(p, "title", "title")
      [] OTHER -> p

FlickrStart(p, e) ==
    LET results == "results" \in p.up IN
    CASE e.tag = "div" /\ ~results /\ Is(e, "class", "ResultsThumbs") -> Raise(p, {"results"})
      [] e.tag = "div" /\ results /\ Is(e, "class", "ResultsThumbsChild") -> NextImage(p)
      [] e.tag = "span" /\ results -> Raise(p, {"span"})
      [] e.tag = "a" /\ {"results", "span"} \subseteq p.up ->
            LET q == IF Has(e, "href") THEN SetCurrent(p, "url", <<HOST>> \o e.at.href) ELSE p
            IN  IF Has(e, "title") THEN SetCurrent(q, "title", e.at.title) ELSE q
      [] e.tag = "img" /\ "span" \in p.up /\ Has(e, "src") -> SetCurrent(p, "cached", e.at.src)
      [] OTHER -> p
FlickrEnd(p, tag) == IF tag = "span" /\ "results" \in p.up THEN Lower(p, {"span"}) ELSE p

\* google_img: the title is the end of the address.
GgleImgStart(p, e) ==
    LET results == "results" \in p.up IN
    CASE e.tag = "div" /\ ~results /\ Is(e, "id", "res") -> Raise(p, {"results"})
      [] e.tag = "td" /\ results -> NewSnippet(p)
      [] e.tag = "img" /\ results /\ Has(e, "src") -> SetCurrent(p, "cached", e.at.src)
      [] e.tag = "a" /\ results /\ Has(e, "href") ->
            SetCurrent(SetCurrent(p, "url", e.at.href), "title", e.at.href)
      [] OTHER -> p
GgleImgEnd(p, tag) ==
    CASE tag = "ol" -> Lower(p, {"results"})
      [] tag = "td" /\ "results" \in p.up -> Settle(p, {"url"})
      [] OTHER -> p

WcommonsStart(p, e) ==
    LET results == "results" \in p.up IN
    CASE e.tag = "ul" /\ Is(e, "class", "mw-search-results") -> Raise(p, {"sr"})
      [] e.tag = "table" /\ "sr" \in p.up /\ Is(e, "class", "searchResultImage") ->
            Raise(NextImage(p), {"results"})
      [] e.tag = "img" /\ results /\ Has(e, "src") -> SetCurrent(p, "cached", e.at.src)
      [] e.tag = "a" /\ results /\ Has(e, "class") /\ Has(e, "href") ->
            SetCurrent(p, "url", <<HOST>> \o e.at.href)
      [] e.tag = "a" /\ results /\ ~Has(e, "class") /\ Has(e, "title") ->
            SetCurrent(p, "title", e.at.title)
      [] OTHER -> p
WcommonsEnd(p, tag) == IF tag = "ul" THEN Lower(p, {"results"}) ELSE p

YahooImgStart(p, e) ==
    LET results == "results" \in p.up IN
    CASE e.tag = "ul" /\ Is(e, "id", "yschimg") -> Raise(p, {"results"})
      [] e.tag = "li" /\ results -> NextImage(p)
      [] e.tag = "a" /\ results /\ Has(e, "href") -> SetCurrent(p, "url", e.at.href)
      [] e.tag = "img" /\ results /\ Has(e, "src") -> SetCurrent(p, "cached", e.at.src)
      [] e.tag = "cite" /\ results -> Raise(p, {"cite"})
      [] OTHER -> p
YahooImgText(p, t) == Gather(p, <<"cite">>, t)
YahooImgEnd(p, tag) ==
    CASE tag = "ul" -> Lower(p, {"results"})
      [] tag = "cite" /\ "results" \in p.up -> Into(p, "cite", "title")
      [] OTHER -> p

\* The handlers of a parser, and a whole answer read by them: nothing is called after an
\* exception, nor at the end of an answer, however it ends.
Handle(x, p, e) ==
    LET By(OnStart(_, _), OnText(_, _), OnEnd(_, _)) ==
            CASE e.kind = "start" -> OnStart(p, e)
              [] e.kind = "text" -> OnText(p, e.text)
              [] e.kind = "end" -> OnEnd(p, e.tag)
    IN
    CASE p.threw -> p
      [] x = "google" -> By(GgleStart, GgleText, GgleEnd)
      [] x = "bing" -> By(BingStart, BingText, BingEnd)
      [] x = "bing_api" -> By(BingApiStart, BingApiText, BingApiEnd)
      [] x = "blekko" -> By(BlekkoStart, BlekkoText, BlekkoEnd)
      [] x = "dailymotion" -> By(DailymotionStart, DailymotionText, DailymotionEnd)
      [] x = "delicious" -> By(DeliciousStart, DeliciousText, DeliciousEnd)
      [] x = "dokuwiki" -> By(DokuStart, DokuText, DokuEnd)
      [] x = "dotclear" -> By(DotclearStart, DotclearText, DotclearEnd)
      [] x = "exalead" -> By(ExaleadStart, ExaleadText, ExaleadEnd)
      [] x = "mediawiki" -> By(MediawikiStart, MediawikiText, MediawikiEnd)
      [] x = "opensearch_atom" -> By(OsearchAtomStart, OsearchAtomText, OsearchAtomEnd)
      [] x = "opensearch_rss" -> By(OsearchRssStart, OsearchRssText, OsearchRssEnd)
      [] x = "redmine" -> By(RedmineStart, RedmineText, RedmineEnd)
      [] x = "twitter" -> By(TwitterStart, TwitterText, TwitterEnd)
      [] x = "wordpress" -> By(WordpressStart, WordpressText, WordpressEnd)
      [] x = "yahoo" -> By(YahooStart, YahooText, YahooEnd)
      [] x = "yauba" -> By(YaubaStart, YaubaText, YaubaEnd)
      [] x = "youtube" -> By(YoutubeStart, YoutubeText, YoutubeEnd)
      [] x = "bing_img" -> By(BingImgStart, BingImgText, BingImgEnd)
      [] x = "flickr" -> By(FlickrStart, NoText, FlickrEnd)
      [] x = "google_img" -> By(GgleImgStart, NoText, GgleImgEnd)
      [] x = "wcommons" -> By(WcommonsStart, NoText, WcommonsEnd)
      [] x = "yahoo_img" -> By(YahooImgStart, YahooImgText, YahooImgEnd)

-----------------------------------------------------------------------------
(* The pages that the parsers were written for.  A result of a page: its     *)
(* number, the parts that it has, what is odd about it, and whether its      *)
(* texts come in two pieces.  An item of RSS has an address: without one the *)
(* parser would take the next text for it.                                   *)

BARE == <<>>
Class(c) == "class" :> c
Id(i) == "id" :> i
El(tag, at, inside) == <<Start(tag, at)>> \o inside \o <<End(tag)>>
Void(tag, at) == El(tag, at, <<>>)

Full(r, part) == <<<<part, r.n, 1>>, <<part, r.n, 2>>>>
Said(r, part) ==
    CASE part \notin r.parts -> <<>>
      [] part \in r.parts /\ r.cut -> <<Text(<<<<part, r.n, 1>>>>), Text(<<<<part, r.n, 2>>>>)>>
      [] part \in r.parts /\ ~r.cut -> <<Text(Full(r, part))>>
\* An element that is there for the text of a part, and one that is left out with it.
Gives(tag, at, r, part) == El(tag, at, Said(r, part))
May(tag, at, r, part) == IF part \in r.parts THEN Gives(tag, at, r, part) ELSE <<>>
\* A part in an attribute; what is odd shows in the part it is about.
In(name, r, part) == IF part \in r.parts THEN name :> Full(r, part) ELSE BARE
Oddly(name, r, part) ==
    IF part \in r.parts
    THEN name :> (IF r.odd = "" THEN <<>> ELSE <<<<r.odd, r.n, 0>>>>) \o Full(r, part) ELSE BARE
Href(r, part) == In("href", r, part)
MayLink(at, r, part) == IF part \in r.parts THEN Void("a", at @@ Href(r, part)) ELSE <<>>

\* The parts a result of a page may have, those that it always has, and what may be odd.
PartsOf(x) ==
    CASE x = "google" -> {"title", "url", "summary", "cached", "forum"}
      [] x = "bing" -> {"title", "url", "summary", "cite", "cached"}
      [] x = "bing_api" -> {"title", "url", "summary", "cite", "cached", "date", "deep"}
      [] x \in {"blekko", "mediawiki", "dotclear", "dokuwiki", "opensearch_rss"} ->
            {"title", "url", "summary"}
      [] x \in {"dailymotion", "youtube"} -> {"title", "url", "cached", "date"}
      [] x \in {"delicious"} -> {"title", "url"}
      [] x = "exalead" -> {"title", "url", "summary", "cite", "cached", "marked"}
      [] x \in {"opensearch_atom", "redmine", "wordpress"} -> {"title", "url", "summary", "date"}
      [] x = "twitter" -> {"title", "url", "cached", "date", "cite"}
      [] x = "yahoo" -> {"title", "url", "summary", "cached"}
      [] x = "yauba" -> {"title", "url", "summary", "cite"}
      [] x = "google_img" -> {"url", "cached"}
      [] x \in {"bing_img", "flickr", "wcommons", "yahoo_img"} -> {"title", "url", "cached"}
AlwaysOf(x) ==
    CASE x \in {"mediawiki", "opensearch_rss", "wordpress", "twitter"} -> {"url"}
      [] x = "redmine" -> {"summary", "date"}
      [] OTHER -> {}
OddOf(x, parts) ==
    CASE x = "google" -> {"", "latest"} \cup (IF "url" \in parts THEN {"unwanted", "malformed"} ELSE {})
      [] x \in {"yahoo", "exalead"} ->
            {""} \cup (IF (IF x = "yahoo" THEN "url" ELSE "title") \in parts THEN {"unwanted"} ELSE {})
      [] x = "dotclear" -> {"", "relative"}
      [] x = "youtube" -> {"", "empty"}
      [] OTHER -> {""}

\* What stands before the results of a page and after them, and one result.
PageHead(x) ==
    CASE x = "google" -> El("h2", Class("hd"), <<>>) \o <<Start("ol", BARE)>>
      [] x = "bing" -> Void("h1", BARE)
      [] x \in {"mediawiki", "wcommons"} -> <<Start("ul", Class("mw-search-results"))>>
      [] x = "opensearch_atom" -> <<Start("feed", BARE)>> \o El("title", BARE, <<Text(<<HOST>>)>>)
      [] x = "opensearch_rss" -> <<Start("channel", BARE)>> \o El("title", BARE, <<Text(<<HOST>>)>>)
      [] x = "redmine" -> <<Start("dl", Id("search-results"))>>
      [] x = "yahoo" -> <<Start("div", Id("web")), Start("ol", BARE)>>
      [] x = "flickr" -> <<Start("div", Class("ResultsThumbs"))>>
      [] x = "google_img" -> <<Start("div", Id("res"))>>
      [] x = "yahoo_img" -> <<Start("ul", Id("yschimg"))>>
      [] OTHER -> <<>>
PageTail(x) ==
    CASE x \in {"google", "google_img"} -> <<End("ol")>>
      [] x = "bing" -> Void("div", Class("sb_pag"))
      [] x \in {"mediawiki", "wcommons", "yahoo_img"} -> <<End("ul")>>
      [] x = "opensearch_atom" -> <<End("feed")>>
      [] x = "opensearch_rss" -> <<End("channel")>>
      [] x = "redmine" -> <<End("dl")>>
      [] x = "yahoo" -> <<End("ol"), End("div")>>
      [] x = "flickr" -> <<End("div")>>
      [] OTHER -> <<>>

TextMarkup(x, r) ==
    CASE x = "google" ->
            El("li", Class("g"),
               El("h3", Class("r"), IF r.odd = "latest" THEN Void("span", Id("rth"))
                                    ELSE Gives("a", Oddly("href", r, "url"), r, "title"))
               \o May("div", Class("f"), r, "forum") \o May("span", Class("st"), r, "summary")
               \o (IF "cached" \in r.parts THEN El("span", Class("flc"), MayLink(BARE, r, "cached")) ELSE <<>>))
      [] x = "bing" ->
            El("div", Class("sa_cc"),
               El("div", Class("sb_tlst"), El("h3", BARE, Gives("a", Href(r, "url"), r, "title")))
               \o May("p", BARE, r, "summary") \o Gives("cite", BARE, r, "cite") \o MayLink(BARE, r, "cached"))
      [] x = "delicious" -> El("li", Class("post"), Gives("a", Class("taggedlink ") @@ Href(r, "url"), r, "title"))
      [] x = "dokuwiki" ->
            El("div", Class("search_result"),
               Void("a", Href(r, "url") @@ In("title", r, "title"))
               \o May("div", Class("search_snippet"), r, "summary"))
      [] x = "dotclear" ->
            El("h2", Class("post-title"), Gives("a", Oddly("href", r, "url"), r, "title"))
            \o May("div", Class("post-content"), r, "summary")
      [] x = "exalead" ->
            El("div", Class("resultContent"),
               Void("a", Class("title") @@ Href(r, "url") @@ Oddly("title", r, "title"))
               \o El("p", BARE, El("span", BARE,
                     (IF "marked" \in r.parts THEN Gives("span", Class("bookmarkLinks"), r, "marked") ELSE <<>>)
                     \o Said(r, "summary")))
               \o May("a", Class("url"), r, "cite") \o MayLink(Class("cache"), r, "cached"))
      [] x = "mediawiki" ->
            El("li", BARE, Gives("a", Href(r, "url"), r, "title")
                           \o Gives("div", Class("searchresult"), r, "summary"))
      [] x = "redmine" ->
            El("dt", BARE, Gives("a", Href(r, "url"), r, "title"))
            \o El("dd", BARE, Gives("span", Class("description"), r, "summary")
                              \o Gives("span", Class("author"), r, "date"))
      [] x = "wordpress" ->
            El("div", Class("type-post"),
               El("h2", BARE, Gives("a", Href(r, "url"), r, "title"))
               \o May("span", Class("post-date"), r, "date") \o May("div", Class("post-content"), r, "summary"))
      [] x = "yahoo" ->
            El("div", Class("res"),
               El("h3", BARE, Gives("a", Oddly("href", r, "url"), r, "title"))
               \o May("div", Class("abstr"), r, "summary") \o MayLink(BARE, r, "cached"))
      [] x = "yauba" ->
            El("div", Class("imageblock"),
               El("h1", BARE, Gives("a", Href(r, "url"), r, "title"))
               \o May("p", BARE, r, "summary") \o El("ul", BARE, May("li", Class("bluecolor"), r, "cite")))

FeedMarkup(x, r) ==
    CASE x = "bing_api" ->
            El("WebResult", BARE,
               Gives("Title", BARE, r, "title") \o May("Description", BARE, r, "summary")
               \o Gives("Url", BARE, r, "url") \o May("CacheUrl", BARE, r, "cached")
               \o May("DisplayUrl", BARE, r, "cite") \o May("DateTime", BARE, r, "date")
               \o (IF "deep" \in r.parts THEN El("DeepLink", BARE, Gives("Title", BARE, r, "deep")
                                                                  \o Gives("Url", BARE, r, "deep")) ELSE <<>>))
      [] x = "blekko" ->
            El("item", BARE, May("title", BARE, r, "title") \o May("guid", BARE, r, "url")
                             \o May("description", BARE, r, "summary"))
      [] x = "dailymotion" ->
            El("item", BARE, May("title", BARE, r, "title") \o May("guid", BARE, r, "url")
                             \o May("pubDate", BARE, r, "date")
                             \o Void("media:thumbnail", In("url", r, "cached")))
      [] x = "opensearch_atom" ->
            El("entry", BARE, May("title", BARE, r, "title") \o Void("link", Href(r, "url"))
                              \o May("updated", BARE, r, "date") \o May("content", BARE, r, "summary"))
      [] x = "opensearch_rss" ->
            El("item", BARE, May("title", BARE, r, "title") \o Void("link", BARE) \o Said(r, "url")
                             \o May("description", BARE, r, "summary"))
      [] x = "twitter" ->
            El("entry", BARE, May("published", BARE, r, "date") \o Void("link", Href(r, "url"))
                              \o May("title", BARE, r, "title")
                              \o (IF "cached" \in r.parts THEN Void("link", Href(r, "cached")) ELSE <<>>)
                              \o May("uri", BARE, r, "cite"))
      [] x = "youtube" ->
            El("item", BARE, May("title", BARE, r, "title") \o May("pubDate", BARE, r, "date")
                             \o May("link", BARE, r, "url")
                             \o (IF r.odd = "empty" THEN Void("description", BARE)
                                 ELSE May("description", BARE, r, "cached")))

ImageMarkup(x, r) ==
    CASE x = "bing_img" ->
            El("span", Class("ic"), Void("img", Class("img_ls_u") @@ In("src", r, "cached"))
                                    \o May("span", Class("md_mu"), r, "url")
                                    \o May("span", Class("md_de"), r, "title"))
      [] x = "flickr" ->
            El("div", Class("ResultsThumbsChild"),
               El("span", BARE, El("a", Href(r, "url") @@ In("title", r, "title"),
                                   Void("img", In("src", r, "cached")))))
      [] x = "google_img" -> El("td", BARE, El("a", Href(r, "url"), Void("img", In("src", r, "cached"))))
      [] x = "wcommons" ->
            El("table", Class("searchResultImage"),
               El("a", Class("image") @@ Href(r, "url"), Void("img", In("src", r, "cached")))
               \o Void("a", In("title", r, "title")))
      [] x = "yahoo_img" ->
            El("li", BARE, El("a", Href(r, "url"), Void("img", In("src", r, "cached")))
                           \o Gives("cite", BARE, r, "title"))

FeedEngines == {"bing_api", "blekko", "dailymotion", "opensearch_atom", "opensearch_rss", "twitter",
                "youtube"}
Markup(x, results) ==
    LET one(r) == CASE x \in FeedEngines -> FeedMarkup(x, r)
                    [] x \in ImageEngines -> ImageMarkup(x, r)
                    [] OTHER -> TextMarkup(x, r)
    IN  PageHead(x) \o FlattenSeq([i \in DOMAIN results |-> one(results[i])]) \o PageTail(x)

-----------------------------------------------------------------------------
(* Properties.                                                              *)

\* A query is quoted as a whole: its text is never taken for a mark, so that what is asked is
\* the address with all other marks filled in, and the query (se_handler.cpp 77-635).
QueryIsWhole(e, before, after, a) ==
    LET rest(part) == FoldLeft(LAMBDA u, what : Fill(e, a, u, what), part,
                               SelectSeq(Fills(e), LAMBDA what : what \notin {"query", "own"}))
    IN  QueryToSe(e, before \o QUERY \o after, [a EXCEPT !.place = Len(before)])
            = rest(before) \o UrlEncode(a.query) \o rest(after)

\* The results that are asked for with a page, from 1.
Delivered(e, p, nr) ==
    LET first == CASE e = "youtube" -> StartOf(e, p, nr)
                   [] e = "yahoo" -> Max({1, StartOf(e, p, nr)})
                   [] e \in {"twitter", "yauba", "dailymotion", "delicious", "flickr"} ->
                        (StartOf(e, p, nr) - 1) * nr + 1
                   [] OTHER -> StartOf(e, p, nr) + 1
    IN  first .. first + nr - 1

\* The pages of an engine that numbers them follow one another without a gap or an overlap
\* (se_handler.cpp 87, 161, 270).  With one result per page yahoo's second page is its first.
PagesFollow(e, n, nr) ==
    "start" \in Range(Fills(e)) /\ (e = "yahoo" => nr > 1) =>
        /\ UNION {Delivered(e, p, nr) : p \in 1 .. n} = 1 .. n * nr
        /\ \A p, q \in 1 .. n : p # q => Delivered(e, p, nr) \cap Delivered(e, q, nr) = {}

\* Only snippets that were put into their context are shown among texts: none of an answer
\* whose parser failed (se_handler.cpp 917, 970-985).
ShownAreAdopted(parsed) == \A s \in Range(Collected(parsed, FALSE)) : s

\* The fields without which a snippet is not listed, and the part that a field is filled from.
Needed(x) ==
    CASE x \in {"google", "exalead", "opensearch_atom", "opensearch_rss", "twitter"} -> {"title", "url"}
      [] x \in {"bing", "blekko", "dotclear"} -> {"title", "url", "summary"}
      [] x = "dokuwiki" -> {"title", "summary"}
      [] x = "mediawiki" -> {"title"}
      [] x = "dailymotion" -> {"title", "url", "date"}
      [] x = "youtube" -> {"title", "url", "cached", "date"}
      [] x = "yauba" -> {"title", "url", "cite"}
      [] x = "google_img" -> {"url"}
      [] x \in {"bing_img", "flickr", "wcommons", "yahoo_img"} -> {"title", "url", "cached"}
      [] OTHER -> {}
PartFor(x, field) ==
    CASE x \in {"dokuwiki", "dotclear", "mediawiki"} /\ field = "cite" -> "url"
      [] x = "google_img" /\ field = "title" -> "url"
      [] x = "bing" /\ field = "cite" -> "none"
      [] OTHER -> field
\* Every field of a snippet that is listed is empty or what one result says there, except
\* where only the first or the last piece of a text is kept.
InPieces(x, field) ==
    (x = "opensearch_rss" /\ field = "url") \/ (x = "twitter" /\ field \in {"date", "cite"})
Stripped(t) == SelectSeq(t, LAMBDA k : k[3] # 0)
SaysOf(x, r, field) ==
    LET part == PartFor(x, field) IN
    CASE part \notin r.parts \/ (x \in {"delicious", "redmine"} /\ field = "title" /\ "url" \notin r.parts) ->
            <<>>
      [] part \in r.parts /\ r.cut /\ InPieces(x, field) ->
            <<Full(r, part)[IF x = "twitter" THEN 2 ELSE 1]>>
      [] OTHER -> Full(r, part)

\* However far an answer goes, what is listed are results of the page, each once, in their
\* order, ranked without a gap, and every field is empty or what its own result says
\* (se_parser.cpp 86-299 and each parser's handlers).
ReadSoFar(x, results, offset, p) ==
    /\ ~p.stray
    /\ \A k \in DOMAIN p.list :
            LET s == p.list[k] IN
            /\ s \notin p.freed /\ (k > 1 => p.list[k - 1] < s)
            /\ p.made[s].rank = offset + k - (IF x \in {"yahoo", "delicious"} THEN 1 ELSE 0)
            /\ \A f \in SnippetFields : Stripped(p.made[s][f]) \in {<<>>, SaysOf(x, results[s], f)}

\* A whole answer gives the results that have what a snippet needs, with all that the page
\* says of them.
LateChecks == {"exalead", "bing_img", "flickr", "wcommons", "yahoo_img"}
ReadWhole(x, results, p) ==
    LET n == Len(results)
        good(i) == Needed(x) \cap PartsOf(x) \subseteq results[i].parts
                   /\ results[i].odd \notin {"unwanted", "malformed", "latest"}
        listed == SelectSeq([i \in 1 .. n |-> i],
                     LAMBDA i : CASE x \in {"dokuwiki", "dotclear"} -> good(i) /\ i < n
                                  [] x = "google" /\ (\E r \in Range(results) : r.odd = "latest") ->
                                        good(i) /\ i < n
                                  [] x \in LateChecks \cup {"yahoo"} -> good(i) \/ i = n
                                  [] OTHER -> good(i))
    IN  IF \E r \in Range(results) : r.odd = "empty" THEN p.threw
        ELSE /\ ~p.threw /\ p.list = listed
             /\ \A i \in Range(listed), f \in SnippetFields :
                    Stripped(p.made[i][f]) = SaysOf(x, results[i], f)

AnswerIsRead(x, results, offset) ==
    \A up \in (IF x = "mediawiki" THEN MediawikiUps ELSE {{}}) :
        LET read == FoldLeft(LAMBDA a, e : LET p == Handle(x, a.p, e)
                                           IN  [p |-> p, ok |-> a.ok /\ ReadSoFar(x, results, offset, p)],
                             [p |-> MkSeParser(offset, up), ok |-> TRUE], Markup(x, results))
        IN  read.ok /\ ReadWhole(x, results, read.p)
=============================================================================
