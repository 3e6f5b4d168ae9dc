------------------------------ MODULE MCServing ------------------------------
(* The proxy's list of clients, one client's exchange, and the pure parts of *)
(* serving a request, one per behaviour.                                     *)
EXTENDS ClientList, Exchange, SequencesExt, TLC

H == INSTANCE Filtering WITH ByteBits <- 2, Limit <- 6
U == INSTANCE HttpServer WITH UIntMax <- 20, ParamMax <- 3, MaxFields <- 6
T == INSTANCE Templates
R == INSTANCE Renderers WITH Blocks <- 3
O == INSTANCE Options WITH BadWords <- {"bad"},
        Numerals <- ("0" :> 0 @@ "1" :> 1 @@ "2" :> 2 @@ "-1" :> -1)
K == INSTANCE Ranking WITH Bits <- 4, Digit <- 1, Number <- 2, Window <- 3, LongQuery <- 3,
        OneLetter <- {1}, HostWeight <- TRUE, UseHttpUrls <- TRUE, Scale <- 12,
        Stripped <- ("a" :> "a" @@ "www.a" :> "a" @@ "b" :> "b" @@ "h" :> "h"),
        HostOf <- ("a" :> "h" @@ "www.a" :> "h" @@ "b" :> "g" @@ "h" :> "h")
Factors == (0 :> [main |-> 1, control |-> 2] @@ 1 :> [main |-> 2, control |-> 1]
            @@ 2 :> [main |-> 3, control |-> 3] @@ 3 :> [main |-> 5, control |-> 7])
L == INSTANCE Likeness WITH CharBits <- 2, FixedSize <- 2, Blank <- {1}, Modulo <- 7, Size <- 3
G == INSTANCE Connecting WITH MaxDnsRetries <- 1, MaxConnectRetries <- 1
F == INSTANCE Feeds WITH Names <- 0 .. 2, Addresses <- {1, 2}, SEEKS <- 0
I == INSTANCE ImageSearch WITH ImgDefaults <- {"flickr", "bing_img"}, MaxExpansions <- 2

-----------------------------------------------------------------------------
(* The exchange.                                                            *)

answer(b, f, s, k, fake) == [body |-> b, framing |-> f, status |-> s, keep |-> k, fake |-> fake]
SmallAnswers ==
    {answer(b, f, 200, k, 0) : b \in {0, 1, 3}, f \in {"length", "chunked", "close"}, k \in BOOLEAN}
    \cup {answer(b, "chunked", 200, k, 2) : b \in {0, 1, 3}, k \in BOOLEAN}
    \cup {answer(b, "length", s, TRUE, 0) : b \in {0, 1, 3}, s \in {0, 304}}
asks(m, k, f, l, i, x) == [method |-> m, keep |-> k, filtered |-> f, local |-> l,
                           intercepted |-> i, more |-> x, compares |-> ~k]
SmallAsked == {asks("GET", TRUE, FALSE, FALSE, FALSE, FALSE),
               asks("GET", TRUE, TRUE, FALSE, FALSE, FALSE),
               asks("HEAD", TRUE, FALSE, FALSE, TRUE, FALSE),
               asks("GET", FALSE, FALSE, TRUE, FALSE, FALSE),
               asks("POST", TRUE, FALSE, FALSE, FALSE, TRUE),
               asks("GET", FALSE, FALSE, FALSE, FALSE, FALSE)}
PlainAnswers == {answer(2, "length", 200, TRUE, 0)}

-----------------------------------------------------------------------------
(* Headers, and the filtering of an answer.                                 *)

None == [x \in {} |-> ""]
m(n, v) == H!Mk(n, v)
num(n, k) == H!Num(n, k)
Client(ver, host, ssl, features, says, headers) ==
    [flags |-> {}, ctype |-> {}, says |-> says, keep |-> 5, most |-> 3, expected |-> 0,
     length |-> 0, ver |-> ver, gpc |-> "GET", host |-> host, port |-> 0, status |-> 0,
     ssl |-> ssl, features |-> features, headers |-> headers, added |-> <<>>, now |-> 5,
     random |-> 2]
Upto(n, S) == UNION {[1 .. k -> S] : k \in 0 .. n}
ClientHeaders == {m("connection", "close"), m("connection", "keep-alive"), m("host", "x"),
                  m("HOST", "x"), m("if-none-match", "e"), num("keep-alive", 9)}
Requests ==
    {Client(v, h, s, f, a, hs) :
        v \in {"1.0", "1.1"}, h \in {"", "y"}, s \in BOOLEAN,
        f \in {{}, {"keep-alive"}, {"keep-alive", "sharing"}},
        a \in {None, U!NoTrackingSays}, hs \in Upto(2, ClientHeaders)}

ServerHeaders == {m("connection", "keep-alive"), num("keep-alive", 2), num("keep-alive", 9),
                  m("content-type", "text"), num("last-modified", 3), num("last-modified", 9),
                  num("last-modified", H!BAD)}
Answered(gpc, flags, says, hs) ==
    [Client("1.1", "y", FALSE, {"keep-alive"}, says, <<[n |-> "http", v |-> "1.1", k |-> 200]>> \o hs)
        EXCEPT !.gpc = gpc, !.flags = flags]
AnswerHeads ==
    {Answered("GET", f, a, hs) : f \in SUBSET {"CLIENT_KEEP_ALIVE", "TAINTED"},
                                 a \in {None, U!NoTrackingSays}, hs \in Upto(2, ServerHeaders)}
Texts ==
    {Answered("GET", {"CLIENT_PARSED"} \cup f, None, <<m("content-type", "text")>> \o l \o t \o e) :
        f \in SUBSET {"CLIENT_KEEP_ALIVE"},
        l \in {<<>>, <<num("content-length", 3)>>},
        t \in {<<>>, <<m("transfer-encoding", "chunked")>>},
        e \in {<<>>, <<m("content-encoding", "gzip")>>, <<m("content-encoding", "deflate")>>}}
Bodies == [raw : {0, 3}, chunks : {<<>>, <<1, 1, 0>>, <<1, -1>>}, zipped : BOOLEAN, plain : {4, 9}]
Filters == Upto(2, [hits : BOOLEAN, grows : {0, 1}]) \ {<<>>}

\* Requests that may pass so many proxies.
Tracing == {[Client("1.1", "y", FALSE, {}, None, <<[n |-> "max-forwards", v |-> v, k |-> k]>>)
               EXCEPT !.gpc = g] :
               v \in {"", "tight"}, k \in 0 .. 3, g \in {"TRACE", "OPTIONS", "GET", "HEAD"}}

Nets == [family : {4}, bits : SUBSET (1 .. 4), port : {0}]

-----------------------------------------------------------------------------
(* URLs, patterns and plugins.                                              *)

Signs == {[star |-> TRUE, class |-> FALSE, set |-> {}],
          [star |-> FALSE, class |-> FALSE, set |-> {"a"}],
          [star |-> FALSE, class |-> FALSE, set |-> {"b"}],
          [star |-> FALSE, class |-> TRUE, set |-> {"a", "b"}]}
Links == Upto(4, {"http://", "www.", "a", "/"})
Files == Upto(5, {"LF", "-", "a", "#", "\\"})
plugin(n, loads, cgis) == [name |-> n, loads |-> loads, cgis |-> cgis, kinds |-> {"filter"}]
LibrarySets ==
    {<<plugin("p", l[1], x), plugin("q", l[2], y), plugin("r", TRUE, {<<"a", "b">>})>> :
        l \in BOOLEAN \X BOOLEAN, x \in {{}, {<<"a">>}}, y \in SUBSET {<<"a">>, <<"a", "b">>}}
Priorities == [p : {0, 1, -1}, q : {2, -1}, r : {3, -1}]
Paths == Upto(3, {"a", "b"}) \ {<<>>}

\* URLs by their parts, paths to be walked, patterns of several kinds and where they lead.
UrlParts ==
    [proto : {"", "http://", "https://"}, login : {<<>>, <<"u", "@">>}, six : {FALSE},
     host : {<<"a">>, <<"a", ".", "b">>}, port : {<<>>, <<"8">>},
     path : {<<>>} \cup {<<"/">> \o p : p \in Upto(2, {"a", ":", "@", "/", "http://"})}]
    \cup [proto : {"", "http://"}, login : {<<>>}, six : {TRUE}, host : {<<"6", ":", "1">>},
          port : {<<>>, <<"8">>}, path : {<<>>, <<"/", "]">>}]
PortNumbers == <<>> :> 0 @@ <<"8">> :> 8 @@ <<"1">> :> 1
Walks == Upto(4, {"a", "b", "/", "?"})
letters(s) == [i \in DOMAIN s |-> [star |-> s[i] = "*", class |-> FALSE, set |-> {s[i]}]]
HostPatterns ==
    [left : {FALSE}, right : {FALSE},
     dvec : {<<>>, <<letters(<<"a">>)>>, <<letters(<<"*">>)>>,
             <<letters(<<"*", "b">>), letters(<<"a">>)>>}]
Specs == [tag : BOOLEAN, hosts : Upto(1, HostPatterns), paths : {{}, {"p"}},
          ports : Upto(1, {[pair |-> FALSE, min |-> 8], [pair |-> TRUE, min |-> 1, max |-> 8],
                           [pair |-> TRUE, min |-> 8, max |-> 0]})]
Destinations == [port : {1, 9}, path : {"p", "q"}, dvec : Upto(3, {<<"a">>, <<"b">>, <<"a", "b">>})]
\* The jobs of a filter, and how often each of them hits.
Jobs(n) == {[i \in 1 .. n |-> [name |-> i, dynamic |-> d[i], compiles |-> c[i]]] :
               d, c \in [1 .. n -> BOOLEAN]}
\* What a dynamic filter of n lines finds in their place: any job, or nothing that compiles.
Memories(n) == [1 .. n -> {[name |-> i, dynamic |-> FALSE, compiles |-> i > 0] : i \in 0 .. n}]

-----------------------------------------------------------------------------
(* The proxy's own pages and the HTTP server plugin.                        *)

Fields == {<<>>, <<"set", "=", "t">>, <<"set", "=", "e", "&", "mini", "=", "y">>,
           <<"output", "=", "json">>, <<"index", "=", "1">>, <<"type", "=", "a">>,
           <<"file", "=", "a">>, <<"file", "=", "/", "a", "x">>, <<"url", "=", "a">>, <<"a", "=">>}
PagePaths == {<<>>} \cup {<<"/">>} \cup {<<"/", n>> \o (IF q = <<>> THEN q ELSE <<"?">> \o q) :
                n \in (U!BuiltIn \ {""}) \cup {"a", "nothing"}, q \in Fields}
             \cup {<<"/", "public", "/", "a">>, <<"/", "plugins", "/", "p", "/", "public">>,
                   <<"/", "plugins", "/", "a">>}
Registered == U!LoadAllPlugins(<<plugin("p", TRUE, {<<"a">>})>>, [p |-> 0])
NoFiles == [f \in {} |-> ""]
FileSets == {NoFiles} \cup {[f \in {<<"public", "a">>, <<"public", "favicon.ico">>,
                                      <<"manual", "index.html">>} |-> [kind |-> k, ext |-> "ico"]] :
                                k \in {"read", "empty", "unreadable"}}
Asking(path, from, files, missing, can, err) ==
    [host |-> "site2", path |-> path, gpc |-> "GET", ctype |-> "", files |-> files,
     headers |-> IF from = "" THEN <<>> ELSE <<[n |-> "referer", v |-> from]>>,
     missing |-> missing, toggle |-> TRUE, canToggle |-> can, blocker |-> "", reg |-> Registered,
     pluginErr |-> err]
Askings ==
    {Asking(p, from, f, {}, TRUE, "OK") : p \in PagePaths, from \in {"", "own", "other"}, f \in FileSets}
    \cup {Asking(p, "own", NoFiles, lack, can, "OK") : p \in PagePaths, can \in BOOLEAN,
             lack \in {{}, {"toggle", "cgi-error-404", "cgi-style.css"}}}
    \cup {[Asking(<<"/", "a">> \o q, "", NoFiles, lack, TRUE, e) EXCEPT !.gpc = g] :
             q \in {<<>>, <<"?", "output", "=", "json">>}, lack \in {{}, {"cgi-error-404"}},
             e \in {"OK", "CGI_PARAMS", "NOT_FOUND", "NO_REC", "UNAUTH", "FORBID", "FILE", "MEMORY",
                    "OTHER"}, g \in {"GET", "HEAD"}}
    \cup {[Asking(<<"/", "send-banner", "?", "type", "=", t>>, "", NoFiles, {}, TRUE, "OK")
             EXCEPT !.blocker = b] : t \in {"a", "b"}, b \in {"", "blank", "pattern", "own", "other"}}

ShortNames == {"search/txt", "search", "search_img", "search/img", "words", "recent/queries", "qc_redir",
               "tbd", "find_dbr", "find_bqc", "peers", "suggestion", "recommendation", "readable",
               "info", "", "public", "robots.txt", "nothing"}
Given(q, l, j) == (IF q THEN <<"q">> :> <<"a">> ELSE U!NoParams) @@ (IF l THEN <<"url">> :> <<"a">>
                  ELSE U!NoParams) @@ (IF j THEN <<"output">> :> <<"json">> ELSE U!NoParams)
Knocks ==
    {[name |-> n, deep |-> d, upper |-> u, rest |-> <<"a">>, p |-> Given(q, l, j), posted |-> o,
      content |-> 1, err |-> e, url |-> TRUE] :
        n \in ShortNames, d, u, q, l, j \in BOOLEAN, o \in BOOLEAN,
        e \in {"OK", "CGI_PARAMS", "NOT_FOUND", "NO_REC", "FILE", "PARSE", "SE_CONNECT", "MEMORY"}}

\* A text with two conditionals, one after the other, inside it, or without an end.
tok(tag, name) == T!token(tag, name)
Branches(n, a, b) == <<tok("then", n)>> \o a \o <<tok("else", n)>> \o b \o <<tok("endif", n)>>
Words(w) == <<tok("text", w)>>
Nested == Branches("x", Branches("y", Words("1"), Words("2")) \o Words("3"), Words("4"))
Forms == {Words("0") \o Branches("x", Words("1"), Words("2")) \o Branches("y", <<>>, Words("3")),
          Nested, Branches("x", Words("5"), <<>>) \o Nested,
          Branches("y", Words("1"), Branches("x", Words("2"), Words("3")))}

\* Files of templates, one of which may include another, in two directories; and a text with
\* blocks.
TemplateLines == {[include |-> i, hash |-> h, text |-> Words("1")] : i \in {"", "i"}, h \in BOOLEAN}
FilesOf(dirs, S) == [[dir : dirs, name : {"t", "i"}] -> Upto(1, S)]
TemplateFiles ==
    UNION {[[dir : {"d"}, name : {"t"}] -> Upto(2, TemplateLines)]} \cup FilesOf({"d"}, TemplateLines)
    \cup {[k \in {[dir |-> "d", name |-> "t"], [dir |-> "m", name |-> "i"]} |->
              IF k.dir = "d" THEN a ELSE b] : a \in Upto(2, TemplateLines), b \in Upto(1, TemplateLines)}
Marked(n, text) == <<tok("start", n)>> \o text \o <<tok("end", n)>>
BlockTexts == {Words("0") \o Marked("x", Words("1")) \o Marked("y", Words("2")) \o Words("3"),
               Marked("x", Words("1") \o Marked("y", Words("2"))) \o Marked("x", Words("3")),
               Marked("y", Marked("x", Words("1")) \o Words("2")) \o Marked("x", <<>>)}

Iobs == {b \in [cur : 0 .. 2, eod : 0 .. 5, size : {0, 2, 4, 5, 6}] : H!InBuffer(b)}

-----------------------------------------------------------------------------
(* Sockets.                                                                 *)

FirstTwo == Upto(2, G!Outcomes)
reaches(addrs, kept) == [addrs |-> addrs, kept |-> kept, shares |-> TRUE, tainted |-> FALSE,
                         tries |-> <<"found">>, name |-> "ok", writesFail |-> {},
                         reply4 |-> "granted", greeting |-> "accepted", reply5 |-> "granted"]
Reached == {reaches(a, k) : a \in FirstTwo, k \in {0, 1}}
Standing == {<<"later">>, <<"refused", "at once">>}
Socks4Ends ==
    {[reaches(a, 0) EXCEPT !.tries = t, !.name = n, !.writesFail = w, !.reply4 = r] :
        a \in Standing, t \in {<<"found">>, <<"again", "none">>, <<"again", "again", "found">>},
        n \in {"ok", "long"}, w \in {{}, {1}},
        r \in {"short", "granted", "rejected", "identd", "odd"}}
Socks5Ends ==
    {[reaches(a, 0) EXCEPT !.name = n, !.writesFail = w, !.greeting = g, !.reply5 = r] :
        a \in Standing, n \in {"ok", "long"}, w \in SUBSET {1, 2},
        g \in {"accepted", "read failed", "version", "password"},
        r \in {"granted", "read failed", "version", "refused"}}
Routes == [type : {"none", "4", "4A", "5"}, gateway : BOOLEAN, proxy : {FALSE}]
Worlds == {G!World(n, k) : n \in {"none", "EINVAL"}, k \in {{}, {1}}}

-----------------------------------------------------------------------------
(* Results of a search.                                                     *)

found(id, e, r) == R!MkSnippet(id, {e}, r, "webpage")
Found == {found(i, e, 1) : i \in {1, 2}, e \in {"yahoo", "bing", "seeks"}}
Dated == {[found(1, "yahoo", r) EXCEPT !.seeks = n, !.content = c, !.record = d, !.meta = 1] :
             r \in {1, 2}, n, c, d \in {0, 1}}
Orders == {"rank", "new-date", "old-date", "new-activity", "old-activity", "odd"}
Likeness(n) == {l \in [1 .. n -> [1 .. n -> 0 .. R!WHOLE]] :
                   /\ \A i \in 1 .. n : l[i][i] = R!WHOLE
                   /\ \A i, j \in 1 .. n : l[i][j] = l[j][i]}
Numbered0(n) == [i \in 1 .. n |-> [id |-> i, meta |-> 1]]
Numbered(n) == {[i \in 1 .. n |-> [id |-> i, meta |-> f[i]]] : f \in [1 .. n -> 0 .. 2]}
\* Snippets that are shown, and some that are not for different reasons.
Listed == {[found(1, "yahoo", 1) EXCEPT !.ir = 1, !.radius = 1], found(2, "seeks", 1),
           [found(3, "yahoo", 1) EXCEPT !.type = "rejected"],
           [found(4, "seeks", 1) EXCEPT !.personalized = TRUE, !.type = "tweet"],
           [found(5, "bing", 1) EXCEPT !.safe = FALSE, !.ir = 2]}
Wanted == {[R!Params({"yahoo", "bing"}, r, g) EXCEPT !.unsafe = u] :
              r \in 0 .. 3, g \in 0 .. 2, u \in BOOLEAN}
Grouped == {<<found(1, "yahoo", 1)>>, <<found(2, "seeks", 1)>>,
            <<found(3, "bing", 1), [found(4, "yahoo", 1) EXCEPT !.seeks = 1]>>,
            <<found(5, "yahoo", 2)>>, <<[found(6, "yahoo", 1) EXCEPT !.type = "rejected"]>>, <<>>}
Features == SUBSET ([weight : 1 .. 2, word : {"a", "b"}, alpha : {TRUE}]
                    \cup {[weight |-> 3, word |-> "c", alpha |-> a] : a \in BOOLEAN})

\* One snippet, and the node that shows it; the settings of a page; words of a text.
Single == [found(1, "yahoo", 1) EXCEPT !.lang = "en"]
Shapes == {[Single EXCEPT !.engines = e, !.type = t, !.cite = c, !.cached = y, !.back = y,
                          !.personalized = s, !.hits = h, !.peers = h, !.content = c, !.record = h] :
              e \in {{"seeks"}, {"yahoo", "bing_api"}, {"opensearch_rss", "opensearch_atom"}},
              t \in {"webpage", "tweet", "video_thumb", "image", "rejected"}, c, h \in {0, 1},
              y, s \in BOOLEAN}
Nodes == [prs : BOOLEAN, capture : BOOLEAN, thumbs : BOOLEAN, readable : BOOLEAN]
Setting == [js |-> TRUE, node_ip |-> FALSE, message |-> "", clustering |-> TRUE]
EngineOptions == {[e \in S |-> [default |-> e = "yahoo"]] : S \in SUBSET {"yahoo", "bing"}}
Spoken == Upto(3, [w : {1, 2, 3}, digit : BOOLEAN])

\* Queries that were captured, with URLs voted for or down, and their host.
Votes == {v \in SUBSET [url : {"a", "www.a", "h"}, hits : {-1, 1}] :
             \A x, y \in v : x.url = y.url => x = y}
Visited(v) == {[url |-> x.url, hits |-> x.hits, title |-> x.url # "h", http |-> x.url # "h"] : x \in v}
Captured(q, radius, v) ==
    [query |-> q, command |-> "", radius |-> radius, hits |-> 2, urls |-> Visited(v)]
Histories == {<<Captured(<<1>>, r, v)>> : r \in {0, 1}, v \in Votes}
             \cup {<<Captured(<<1, 2>>, 1, v), Captured(<<1>>, 0, w)>> : v, w \in Votes}
snippet(u, e, p) == [url |-> u, engines |-> e, hits |-> 0, meta |-> 1, npeers |-> 0,
                     personalized |-> FALSE, pictured |-> p, raised |-> FALSE]
Shown == {<<snippet("a", {"yahoo"}, FALSE), snippet("b", {"yahoo"}, FALSE)>>,
          <<snippet("www.a", {"bing", "seeks"}, FALSE), snippet("a", {"bing"}, TRUE)>>}
\* Queries that may be recommended.
Recommendable ==
    {<<[Captured(p, 1, {}) EXCEPT !.hits = h, !.urls = u],
       [Captured(q, 1, {}) EXCEPT !.command = "fr"]>> :
        p, q \in {<<1>>, <<2, 3>>}, h \in {1, 3},
        u \in SUBSET [url : {"a"}, hits : {1}, title : BOOLEAN, http : BOOLEAN]}
Already == {r \in SUBSET [query : {<<1>>, <<2, 3>>, <<3>>}, score : {5, 20}] :
               \A x, y \in r : x.query = y.query => x = y}

\* Texts, and the bits that are looked at.
Alphabet == (<<{}>> :> 1 @@ <<{0}, {1}>> :> 2 @@ <<{0, 1}, {0}>> :> 3 @@ <<{1}, {1}, {0}>> :> 4)
Writings == DOMAIN Alphabet
Masks == {L!InitG(d, 2) : d \in {<<0, 0, 1>>, <<1, 2>>, <<0, 2>>}} \cup {L!InitG(<<2>>, 1)}

\* What is asked of an engine: the mark of the query stands between two texts.
Asides == {<<>>, I!LANG, I!START \o <<38>>, I!NUM, <<112>>}
\* The n-th result of a page, without at most so many of the parts that it may have.
PageResults(x, n, missing) ==
    UNION {{[n |-> n, parts |-> p, odd |-> o, cut |-> FALSE] : o \in I!OddOf(x, p)} :
             p \in {q \in SUBSET I!PartsOf(x) : /\ I!AlwaysOf(x) \subseteq q
                                                /\ Cardinality(I!PartsOf(x) \ q) <= missing}}
Wishes == {[query |-> q, place |-> 0, page |-> p, nr |-> n, lang |-> <<101>>, auto |-> p = 1,
            configured |-> <<102>>, region |-> <<101, 45>>, country |-> <<117>>] :
              q \in {<<97, 32>>, I!START, I!QUERY}, p \in {1, 2}, n \in {10}}
Outputs == {I!ParseOutput(e, n, t) : e \in {"google", "bing", "odd"}, n \in 0 .. 2, t \in BOOLEAN}

\* Requests for images, and what a call meets.
images(h, c, s, es, down, g) ==
    [horizon |-> h, ccheck |-> c, safesearch |-> s, names |-> es # {}, engines |-> es, down |-> down,
     configured |-> g, onlySeeks |-> FALSE]
Named == {{}, {"flickr"}, {"flickr", "wcommons"}}
Downs == {{}, {"flickr", "bing_img", "wcommons"}}
ImageHistories ==
    UNION {[1 .. n -> {images(h, c, s, e, d, TRUE) : h \in {1, 2}, c \in {"", "no"}, s \in {"", "off"},
                                                      e \in Named, d \in Downs}] : n \in 1 .. 2}
    \cup [1 .. 3 -> {images(h, "", "", e, d, FALSE) : h \in {0, 3}, e \in Named, d \in Downs}]
    \cup [1 .. 3 -> {images(h, "", s, {}, {}, g) : h \in {1, 2}, s \in {"on", "off"}, g \in BOOLEAN}]
Calls == [query : {TRUE}, cached : BOOLEAN, personal : BOOLEAN, noThread : BOOLEAN, empty : BOOLEAN,
          known : BOOLEAN, id : BOOLEAN, render : {TRUE}, xsl : {TRUE}, captures : {TRUE},
          err : I!Errors, method : {"get", "put", "post", "other"}, ui : {"stat"},
          output : {"html", "odd"}]
Pictures == Upto(3, {I!image(k, {e}, r) : k \in {1, 2}, e \in {"flickr", "bing_img"}, r \in {1, 2}})

-----------------------------------------------------------------------------
(* Commands of the configuration files.                                     *)

says(n, args) == O!Command(n, args)
CommandsOf(kind) ==
    CASE kind = "proxy" ->
            {says(n, <<a>>) : n \in {"keep-alive-timeout", "socket-timeout", "max-client-connections"},
                              a \in {"0", "2"}}
            \cup {says(n, <<"a">>) : n \in {"activated-plugin", "logdir", "logfile", "templdir"}}
            \cup {says(n, <<"a", "1">>) : n \in {"listen-address", "user-db-address", "deny-access"}}
            \cup {says("permit-access", <<w>>) : w \in {"a", "bad"}}
            \cup {says("forward", <<"a", ".">>), says("debug", <<"1">>),
                  says("forward-socks4", <<"a", "b", ".">>), says("forward-socks5", <<"a", "b">>),
                  says("connection-sharing", <<"1">>), says("single-threaded", <<"0">>),
                  says("buffer-limit", <<"2">>), says("cors-enabled", <<"1">>)}
      [] kind = "websearch" ->
            {says("search-engine", <<"google">> \o t) :
                t \in {<<"a", "n", "default">>, <<"a", "n", "b">>, <<"a">>, <<>>}}
            \cup {says("background-proxy", <<"a">>), says("background-proxy", <<"a", "1">>),
                  says("enable-js", <<"1">>), says("search-results-page", <<"2">>)}
      [] kind = "img-websearch" ->
            {says("img-search-engine", <<"flickr">> \o t) : t \in {<<"a", "n", "default">>, <<"a">>}}
            \cup {says("safe-search", <<"0">>)}
      [] kind = "cf" -> {says("cf-peer", <<p, q>>) : p, q \in {"a", "b"}}
                        \cup {says("cf-peer", <<"a">>), says("dead-peer-retries", <<"2">>)}
      [] kind = "lsh" -> {says("swl", <<g, f>>) : g \in {"en", "fr"}, f \in {"a", "b"}}
                         \cup {says("query-length-protection", <<"0">>)}
      [] kind = "udb-service" ->
            {says("p2p-proxy-addr", <<"a", "1">>), says("p2p-proxy-addr", <<"a">>), says("call-timeout", <<"2">>)}
      [] OTHER -> {says(o, <<"1">>) : o \in DOMAIN O!OptionsOf(kind)}

-----------------------------------------------------------------------------
VARIABLES part, posed       \* posed: the input of a pure part, or NOTHING
allVars == <<part, posed, clientVars, exchangeVars>>
NOTHING == [kind |-> "nothing"]

ExchangeRests ==
    /\ at = "closed" /\ req = (CHOOSE r \in Asked : TRUE) /\ ans = (CHOOSE a \in Answers : TRUE)
    /\ got = 0 /\ count = 0 /\ expected = UNKNOWN /\ body = FALSE
    /\ filters = FALSE /\ filtering = FALSE /\ tainted = FALSE
    /\ serverKeeps = FALSE /\ status = 0 /\ told = <<>> /\ out = 0 /\ end = "none"
    /\ served = 0 /\ crunches = FALSE /\ compared = FALSE

Init == /\ posed = NOTHING /\ ClientsInit
        /\ \/ part = "clients" /\ ExchangeRests
           \/ part = "exchange" /\ ExchangeInit
           \/ part = "pure" /\ ExchangeRests

ClientsPart(step) == part = "clients" /\ step /\ UNCHANGED <<part, posed, exchangeVars>>
ExchangePart(step) == part = "exchange" /\ step /\ UNCHANGED <<part, posed, clientVars>>

PoseRequest == \E q \in Requests : posed' = [kind |-> "request", q |-> q]
PoseAnswer == \E a \in AnswerHeads : posed' = [kind |-> "answer", a |-> a]
PoseBody == \E a \in Texts, b \in Bodies, f \in Filters :
                posed' = [kind |-> "body", a |-> a, body |-> b, filters |-> f]
PoseNet == \E n, a \in Nets, k \in 0 .. 4 :
                posed' = [kind |-> "net", net |-> n, masklength |-> k, addr |-> a]
PoseIob == \E b \in Iobs, n \in 0 .. 6 : posed' = [kind |-> "iob", iob |-> b, n |-> n]
PosePattern == \E p \in Upto(4, Signs), t \in Upto(4, {"a", "b"}) :
                posed' = [kind |-> "pattern", p |-> p, t |-> t]
PoseLink == \E u \in Links : posed' = [kind |-> "link", url |-> u]
PoseFile == \E f \in Files : posed' = [kind |-> "file", s |-> f]
PosePlugins == \E l \in LibrarySets, pri \in Priorities, path \in Paths :
                posed' = [kind |-> "plugins", libraries |-> l, pri |-> pri, path |-> path]
PosePage == \E c \in Askings : posed' = [kind |-> "page", c |-> c]
PoseNumber == \E d \in Upto(4, {"0", "1", "2", "9"}) \ {<<>>} : posed' = [kind |-> "number", d |-> d]
PoseKnock == \E w \in Knocks : posed' = [kind |-> "knock", w |-> w]
PoseForm == \E f \in Forms, x, y \in BOOLEAN :
                posed' = [kind |-> "form", text |-> f, choice |-> ("x" :> x @@ "y" :> y)]
PoseRoute == \E w \in Worlds, f \in Routes, e \in Reached \cup Socks4Ends \cup Socks5Ends :
                posed' = [kind |-> "route", w |-> w, f |-> f, e |-> e]
PoseRetry == \E w \in Worlds, f \in {r \in Routes : r.type \in {"none", "4"}}, a \in Socks4Ends,
                b \in {e \in Socks4Ends : e.name = "ok" /\ e.tries = <<"found">>} :
                posed' = [kind |-> "retry", w |-> w, f |-> f, es |-> <<a, b>>]
PosePort == \E a \in Upto(2, {"no socket", "in use", "not ours", "bound"}), l \in BOOLEAN :
                posed' = [kind |-> "port", addrs |-> a, listens |-> l]
PoseResults == \E l \in Upto(3, Found), g \in {"en", "fr"} :
                posed' = [kind |-> "results", list |-> l, lang |-> g]
PoseOrder == \E l \in Upto(2, Dated) \cup [1 .. 3 -> {d \in Dated : d.seeks = d.record}], o \in Orders :
                posed' = [kind |-> "order", list |-> l, order |-> o]
PosePoints == \E n \in 1 .. 3 : \E l \in Likeness(n), p \in Numbered(n), k \in 1 .. 3 :
                posed' = [kind |-> "points", points |-> p, sim |-> l, k |-> k]
PoseLikes == \E n \in 1 .. 3, id \in 1 .. 4 : \E like \in UNION {[d -> 0 .. 2] : d \in SUBSET (1 .. n)} :
                posed' = [kind |-> "likes", n |-> n, id |-> id, like |-> like]
PoseSummary == \E n, most \in 0 .. 8 : \E b \in SUBSET (1 .. n) :
                posed' = [kind |-> "summary", n |-> n, most |-> most, blanks |-> b]
PoseWords == \E f \in Features, q, t \in SUBSET {"a", "c"} :
                posed' = [kind |-> "words", features |-> f, query |-> q, stop |-> t]
PoseShown == \E l \in {t \in Upto(5, Listed) : IsInjective(t)}, p \in Wanted :
                posed' = [kind |-> "shown", list |-> l, p |-> p]
PoseClusters == \E c \in {t \in Upto(5, Grouped) : \A i, j \in DOMAIN t : t[i] = t[j] => i = j \/ t[i] = <<>>} :
                posed' = [kind |-> "clusters", clusters |-> c]
PoseReload == \E o \in O!Kinds : \E a \in Upto(1, CommandsOf(o)), b \in Upto(2, CommandsOf(o)) :
                posed' = [kind |-> "reload", object |-> o, first |-> a, second |-> b]
PoseKeys == \E a, b, x \in K!AllKeys : posed' = [kind |-> "keys", x |-> x, a |-> a, b |-> b]
PoseQueries == \E p, q \in Upto(4, 1 .. 3) \ {<<>>} : posed' = [kind |-> "queries", one |-> p, other |-> q]
PoseTexts == \E f, g \in Upto(3, 1 .. 3) :
                /\ \A i \in 2 .. Len(f) : f[i - 1] <= f[i]
                /\ \A i \in 2 .. Len(g) : g[i - 1] <= g[i]
                /\ posed' = [kind |-> "texts", f |-> f, g |-> g]
PoseTypo == \E p, q \in Upto(3, 1 .. 3) : posed' = [kind |-> "typo", one |-> p, other |-> q]
PoseRanks == \E l \in Shown, q \in Histories :
               \E w \in {[own |-> FALSE, local |-> <<Captured(<<1>>, 0, v)>>, c |-> {}] : v \in Votes}
                        \cup {[own |-> TRUE, local |-> q, c |-> d] : d \in {{}, {"a"}, {"h"}}} :
                posed' = [kind |-> "ranks", list |-> l, qdata |-> q, own |-> w.own, local |-> w.local,
                          captured |-> [x \in w.c |-> 1]]
PoseRecommended == \E q \in {<<1>>, <<3, 2>>}, d \in Recommendable, r \in Already :
                posed' = [kind |-> "recommended", query |-> q, qdata |-> d, related |-> r]
PoseTable == \E n \in 1 .. 2, o \in Upto(3, [adds : BOOLEAN, text : Writings]), t \in Writings :
             \E g \in [1 .. n -> Masks] :
                posed' = [kind |-> "table", ops |-> o, masks |-> g, text |-> t]

PoseQuoted == \E s \in Upto(4, {37, 43, 32, 50, 98}) \cup Upto(4, {38, 108, 116, 59, 60}) :
                posed' = [kind |-> "quoted", codes |-> s]
PoseRedirect == \E p \in Upto(4, {"http://", "https://", "http%3A//", "a"}), d \in BOOLEAN :
                posed' = [kind |-> "redirect", parts |-> p, decode |-> d]
PoseEngine == \E e \in I!TextEngines \cup I!ImageEngines, b, a \in Asides, x \in Wishes :
                posed' = [kind |-> "engine", engine |-> e, before |-> b, after |-> a, wish |-> x]
PoseTrace == \E c \in Tracing : posed' = [kind |-> "trace", c |-> c]
PoseUrl == \E u \in UrlParts : posed' = [kind |-> "url", u |-> u]
PoseWalk == \E p \in Walks : posed' = [kind |-> "walk", path |-> p]
PoseSpec == \E s \in Specs : posed' = [kind |-> "spec", spec |-> s]
PoseJobs == \E n \in 1 .. 3 : \E j \in Jobs(n) : posed' = [kind |-> "jobs", jobs |-> j]
PoseFeeds == \E f \in F!AnyFeeds, g \in {h \in F!AnyFeeds : DOMAIN h \subseteq {1}} : posed' = [kind |-> "feeds", f |-> f, g |-> g]
PoseTemplate == \E f \in TemplateFiles, c \in BOOLEAN : posed' = [kind |-> "template", files |-> f, css |-> c]
PoseBlocks == \E b \in BlockTexts, k \in [{"x", "y"} -> BOOLEAN] :
                posed' = [kind |-> "blocks", text |-> b, keeps |-> k]
PoseTagged == \E s \in SUBSET ToSet(R!Kinds) : posed' = [kind |-> "tagged", matches |-> s]
PoseAssigned == \E n \in 1 .. 3, k \in 1 .. 2 : \E l \in [1 .. n -> [1 .. k -> 0 .. 2]] :
                posed' = [kind |-> "assigned", points |-> Numbered0(n), likes |-> l, k |-> k]
PoseContents == \E c \in SUBSET {1, 2} : \E h \in SUBSET c, a \in SUBSET {1, 2} :
                posed' = [kind |-> "contents", content |-> c, has |-> h, asked |-> a]
PoseSnippet == \E s \in Shapes : posed' = [kind |-> "snippet", snippet |-> s]
PoseNear == \E n \in 1 .. 3 : \E f \in [1 .. n -> Upto(2, 1 .. n)] :
                posed' = [kind |-> "near", list |-> [i \in 1 .. n |-> found(i, "yahoo", i)], near |-> f]
PoseRecent == \E d \in Upto(4, {"", "q", "r"}) : posed' = [kind |-> "recent", dust |-> d]
PoseNode == \E o \in EngineOptions, e \in SUBSET {"yahoo", "bing"} :
                posed' = [kind |-> "node", options |-> o, enabled |-> e]
PoseSpoken == \E s \in Spoken : posed' = [kind |-> "spoken", words |-> s]
PoseParsed == \E p \in Upto(3, Outputs) : posed' = [kind |-> "parsed", parsed |-> p]
PoseImages == \E r \in ImageHistories : posed' = [kind |-> "images", asked |-> r]
PoseCall == \E w \in Calls : posed' = [kind |-> "call", call |-> w]
PoseMarkup == \E x \in I!TextEngines \cup I!ImageEngines : \E r \in PageResults(x, 1, 8) :
                posed' = [kind |-> "markup", engine |-> x, first |-> r]
PosePictures == \E l \in Pictures : posed' = [kind |-> "pictures", pictures |-> l]

Pose == /\ part = "pure" /\ posed = NOTHING
        /\ \/ PoseRequest \/ PoseAnswer \/ PoseBody \/ PoseNet \/ PoseIob
           \/ PosePattern \/ PoseLink \/ PoseFile \/ PosePlugins
           \/ PosePage \/ PoseNumber \/ PoseKnock \/ PoseForm
           \/ PoseRoute \/ PoseRetry \/ PosePort
           \/ PoseResults \/ PoseOrder \/ PosePoints \/ PoseLikes \/ PoseSummary \/ PoseWords
           \/ PoseShown \/ PoseClusters \/ PoseReload
           \/ PoseKeys \/ PoseQueries \/ PoseTexts \/ PoseTable
           \/ PoseTypo \/ PoseRanks \/ PoseRecommended
           \/ PoseQuoted \/ PoseRedirect \/ PoseEngine \/ PoseParsed
           \/ PoseImages \/ PoseCall \/ PosePictures
           \/ PoseTrace \/ PoseUrl \/ PoseWalk \/ PoseSpec \/ PoseJobs \/ PoseFeeds
           \/ PoseTemplate \/ PoseBlocks
           \/ PoseTagged \/ PoseAssigned \/ PoseContents
           \/ PoseSnippet \/ PoseNear \/ PoseRecent \/ PoseNode \/ PoseSpoken
           \/ PoseMarkup
        /\ UNCHANGED <<part, clientVars, exchangeVars>>

Posed == part = "pure" /\ posed # NOTHING /\ UNCHANGED allVars

Next == ClientsPart(ClientsNext) \/ ExchangePart(ExchangeNext) \/ Pose \/ Posed

Fair == /\ Init /\ [][Next]_allVars
        /\ WF_allVars(ClientsPart(Walk(Main) \/ Listen) \/ ExchangePart(ExchangeProgram))

-----------------------------------------------------------------------------
\* What the parsers of the headers promise together (parsers.cpp 1564-4141).
HeadersAgree ==
    /\ posed.kind = "request" =>
            /\ H!KeptIsAsked(posed.q) /\ H!HostIsSent(posed.q)
            /\ \A more \in BOOLEAN : H!GoesWhereItSays(posed.q, more)
    /\ posed.kind = "answer" =>
            /\ H!TimeoutShrinks(posed.a)
            /\ H!NothingTracks(Client("1.1", "y", FALSE, {}, U!NoTrackingSays,
                                      <<m("if-none-match", "e")>>), posed.a)

\* Access control, buffers, the proxy that answers a TRACE, and the framing of filtered
\* answers (filters.cpp, parsers.cpp).
FilterPipeline ==
    /\ posed.kind = "net" => /\ H!MaskIsPrefix(posed.net, posed.masklength, posed.addr)
                               /\ posed.masklength < 4 =>
                                    H!ExceptionsHold(posed.net, posed.masklength, posed.addr)
    /\ posed.kind = "iob" => H!BufferHolds(posed.iob, posed.n) /\ H!SentOnce(posed.iob, posed.n)
    /\ posed.kind = "trace" => H!TraceEnds(posed.c)
    /\ posed.kind = "body" => H!FramingAgrees(posed.a, posed.body, posed.filters)

\* Requests and links taken apart, patterns, pattern files, options, plugins and the jobs of
\* their filters, the feeds of a query, and quoted texts (urlmatch.cpp, loaders.cpp,
\* proxy_configuration.cpp, plugin_manager.cpp, plugin_element.cpp, feeds.cpp, encode.cpp,
\* filters.cpp).
UrlsAndPlugins ==
    /\ posed.kind = "pattern" => U!NoFalseMatch(posed.p, posed.t)
    /\ posed.kind = "link" => U!OneName(posed.url)
    /\ posed.kind = "url" =>
            /\ \A method \in {"GET", "CONNECT", "FOO"}, version \in {"HTTP/1.0", "HTTP/2"} :
                    U!RequestIsReadBack(method, version, posed.u, PortNumbers)
            /\ U!TwoParsersAgree(posed.u, PortNumbers)
            /\ U!ForwarderIsReadBack(posed.u, 3, PortNumbers)
    /\ posed.kind = "walk" => U!PathIsWalked(posed.path)
    /\ posed.kind = "spec" => \A d \in Destinations : U!WiderTakesMore(posed.spec, d)
    /\ posed.kind = "feeds" =>
            /\ F!FeedsAsPairs(posed.f, posed.g)
            /\ posed.g = F!NoFeeds => \A arrived \in [DOMAIN F!UrlsToGet(posed.f) -> BOOLEAN] :
                    /\ F!OwnParser(posed.f, arrived)
                    /\ \A born \in SUBSET DOMAIN arrived : F!OutputsOnce(posed.f, arrived, born)
    /\ posed.kind = "jobs" =>
            \A hits \in [DOMAIN posed.jobs -> -1 .. 1], memory \in Memories(Len(posed.jobs)) :
                U!JobsRun(posed.jobs, hits, memory)
    /\ posed.kind = "file" => U!EndsDontMatter(posed.s)
    /\ posed.kind = "reload" => O!Reloads(posed.object, posed.first, posed.second)
    /\ posed.kind = "plugins" =>
            /\ U!OrderDoesntMatter(posed.libraries, posed.pri)
            /\ U!PagesReachTheirPlugin(posed.libraries, posed.pri, posed.path)
    /\ posed.kind = "quoted" => I!UrlIsReadBack(posed.codes) /\ I!HtmlIsReadBack(posed.codes)
    /\ posed.kind = "redirect" => I!RedirectsToLast(posed.parts, posed.decode)

\* The pages of the proxy answer, and those of its menu lead on (cgi.cpp, cgisimple.cpp).
PagesLead(c) ==
    /\ U!OwnPagesAnswered(c)
    /\ c.path = <<"/">> =>
            /\ \A self \in {"", "toggle", "url-info"} : U!MenuLeadsOn(c, self)
            /\ \A name \in DOMAIN U!ServerErrors \cup {"odd"} : U!ServerErrorsAreTold(c, name)
            /\ \A url \in Upto(2, {"http://", "https://", "www.", "a", "/"}) : U!LinkIsCompleted(c, url)

\* The proxy's own pages: what is announced is what is there, only its own pages change
\* the proxy, numbers are exact, links lead to their plugin or to a page, every error is told,
\* a template stands with its modules, and of a conditional part of a page one branch is left
\* (cgi.cpp, cgisimple.cpp).
PagesSafe ==
    /\ posed.kind = "page" => U!LengthIsTrue(posed.c) /\ U!ToggledFromOwnPages(posed.c)
    /\ posed.kind = "number" => U!NumberIsExact(posed.d)
    /\ posed.kind = "plugins" => U!LinkShowsPlugin(U!LoadAllPlugins(posed.libraries, posed.pri))
    /\ posed.kind = "form" => T!OneBranchIsLeft(posed.text, posed.choice)
    /\ posed.kind = "template" => T!LoadsInline(posed.files, "d", "m", "t", posed.css)
    /\ posed.kind = "blocks" => T!BlocksAreCut(posed.text, posed.keeps)
    /\ posed.kind = "page" => PagesLead(posed.c)

\* No socket leaks or is taken from anybody, however connecting, negotiating or listening
\* ends (gateway.cpp 556-1055, spsockets.cpp).
SocketsSafe ==
    /\ posed.kind = "route" => G!NothingLeaks(posed.w, posed.f, posed.e)
    /\ posed.kind = "retry" => G!LastIsLeft(posed.w, posed.f, posed.es)
    /\ posed.kind = "port" => G!ListensOnce(G!World("none", {1}), posed.addrs, posed.listens)

\* What a search makes of its query and of the answers, of texts and of images: keys and
\* likeness (mrf.cpp, DHTKey.cpp, LSHUniformHashTable.h), engines (se_handler.cpp,
\* img_websearch.cpp, img_query_context.cpp) and the parsers of their pages, ranks and recommendations (rank_estimators.cpp,
\* query_recommender.cpp), merging and clusters (sort_rank.cpp, seeks_snippet.cpp,
\* oskmeans.cpp, clustering.cpp), and the pages that show them (the renderers).
ResultsSafe ==
    /\ posed.kind = "results" => R!OneOfEachPage(posed.list, posed.lang) /\ R!TypesPartition(posed.list)
    /\ posed.kind = "tagged" =>
            \A s \in {found(1, "yahoo", 1), [found(1, "yahoo", 1) EXCEPT !.type = "tweet"]},
               readable \in SUBSET ToSet(R!Kinds), wiki \in BOOLEAN :
                    R!TaggedAsFar(s, posed.matches, readable, wiki)
    /\ posed.kind = "assigned" => R!ClustersPartition(posed.points, posed.likes, posed.k)
    /\ posed.kind = "contents" =>
            /\ \A g \in [1 .. 2 -> SUBSET {1, 2}], parsed \in SUBSET {1, 2}, f \in [1 .. 2 -> SUBSET {1, 2}] :
                    R!FetchedOnce(posed.content, posed.has, posed.asked, g, parsed, f)
            /\ \A g, empty, fails \in SUBSET {1, 2}, alike, near \in BOOLEAN :
                    R!SameEitherWay(posed.has, posed.content, g, empty, alike, fails, near)
    /\ posed.kind = "snippet" =>
            /\ \A with \in Nodes, words \in {{}, {"w"}} : R!FormatsAgree(posed.snippet, with, words)
            /\ \A b \in {found(1, "seeks", 2), [found(1, "seeks", 0) EXCEPT !.seeks = 3, !.type = "wiki"]},
                  lang \in {"en", "fr"} : R!PeersTwiceAreOnce(posed.snippet, b, lang)
    /\ posed.kind = "near" => R!NeighboursOnce(posed.list, posed.near)
    /\ posed.kind = "recent" => \A most \in -1 .. 4 : R!RecentAgree(posed.dust, "q", most)
    /\ posed.kind = "node" => \A prs \in {"", "on", "off", "odd"}, personalizes \in BOOLEAN :
                                R!NodeIsTold(posed.enabled, posed.options, prs, personalizes)
    /\ posed.kind = "nothing" =>
            \A err \in {"OK", "NO_TEMPLATE"}, sheet \in {"", "a"}, there \in BOOLEAN :
                R!AnswersAreWhole(err, sheet, there)
    /\ posed.kind = "order" => R!OrdersHold(posed.list, posed.order)
    /\ posed.kind = "points" => R!SeedsDistinct(posed.points, posed.sim, posed.k)
    /\ posed.kind = "likes" => R!LikeFirst([i \in 1 .. posed.n |-> found(i, "yahoo", i)],
                                          posed.id, posed.like)
    /\ posed.kind = "summary" => R!SummaryFits(posed.n, posed.blanks, posed.most)
    /\ posed.kind = "shown" =>
            /\ R!PagesCover(posed.list, posed.p) /\ R!JsonSeparated(posed.list, posed.p)
            /\ R!RecommendationsFit(posed.list, posed.p.rpp)
            /\ Len(posed.list) <= 3 /\ posed.p.page = 0 => R!PagesLinkBack(posed.list, posed.p, Setting)
    /\ posed.kind = "clusters" =>
            /\ R!ClustersFill(posed.clusters, {"yahoo", "bing"})
            /\ \A rpp \in 1 .. 2 : R!ClustersAgree(posed.clusters, R!Params({"yahoo", "bing"}, rpp, 1))
    /\ posed.kind = "keys" =>
            K!OnTheCircle(posed.x, posed.a, posed.b) /\ K!WrittenIsRead(posed.a) /\ K!TopIsSize(posed.a)
    /\ posed.kind = "queries" => K!WordsMeet(posed.one, posed.other) /\ K!AllChains(posed.one, Len(posed.other) - 1)
    /\ posed.kind = "texts" => /\ K!Apart(posed.f, posed.g) /\ K!SharedWords(posed.f, posed.g)
                                /\ \A w \in 0 .. 2 : K!TokensComeOff(posed.f \o <<0>> \o posed.g, w)
    /\ posed.kind = "spoken" =>
            \A stops \in {{}, {3}}, max \in 0 .. 2, step \in 1 .. 2, window \in 1 .. 3 :
                K!TextIsCovered(posed.words, stops, max, step, window)
    /\ posed.kind = "table" =>
            /\ L!FindsItsLike(posed.ops, posed.masks, posed.text, Alphabet)
            /\ L!TableHolds(posed.ops, posed.masks)
            /\ \A o \in Range(posed.ops) : L!NearIsAlike(o.text, posed.text, posed.masks)
    /\ posed.kind = "typo" =>
            /\ K!DistanceIsLeast(posed.one, posed.other)
            /\ \A stops \in SUBSET {1, 2} : K!OrderDoesntMatterForQueries(posed.one, posed.other, stops)
    /\ posed.kind = "ranks" =>
            K!RanksAreRight(posed.list, posed.qdata, posed.local, posed.own, posed.captured)
    /\ posed.kind = "recommended" =>
            K!RecommendedOnce(posed.query, {2}, posed.qdata, posed.related)
    /\ posed.kind = "engine" =>
            /\ I!QueryIsWhole(posed.engine, posed.before, posed.after, posed.wish)
            /\ \A nr \in 1 .. 4 : I!PagesFollow(posed.engine, 3, nr)
    /\ posed.kind = "parsed" => I!ShownAreAdopted(posed.parsed)
    /\ posed.kind = "images" => I!EngineHasPages(posed.asked) /\ I!ModesHavePages(posed.asked)
    /\ posed.kind = "call" => I!CallsEndClean(posed.call)
    /\ posed.kind = "markup" =>
            \A second \in PageResults(posed.engine, 2, 1), cut \in BOOLEAN :
                I!AnswerIsRead(posed.engine, <<[posed.first EXCEPT !.cut = cut], second>>, 3)
    /\ posed.kind = "pictures" => I!ImagesOnce(posed.pictures)
    /\ posed.kind = "words" => R!WordsTell(posed.features, posed.query, posed.stop)

\* A call of the toggle page from elsewhere only displays the status (cgi.cpp 538-549).
ToggleShows == posed.kind = "page" => U!ToggleDisplaysStatus(posed.c)

\* A request has the same end through the HTTP server as through the proxy, nobody is told
\* that all is well when nothing was done, and searches are swept (httpserv.cpp).
DoorsSafe ==
    posed.kind = "knock" =>
        /\ U!DoorsAgree(Asking(<<>>, "", NoFiles, {}, TRUE, "OK"), posed.w)
        /\ U!SearchesAreSwept(Asking(<<>>, "", NoFiles, {}, TRUE, "OK"), posed.w)
=============================================================================
