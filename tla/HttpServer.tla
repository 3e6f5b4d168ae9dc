------------------------------ MODULE HttpServer ------------------------------
(* The HTTP server plugin: the second door to the searches, beside the        *)
(* proxy's pages (httpserv.cpp, websearch_api_compat.cpp).  A request w is    *)
(* where it goes: the name its path starts with, whether a slash and more     *)
(* follow (deep), whether it is not in small letters (upper), and the rest;   *)
(* its parameters p and whether it is posted; and what the handler gives: its *)
(* error, and the link it leaves among the parameters (url).                  *)
EXTENDS Pages

Reply(status, body, bytes, type, swept) ==
    [status |-> status, body |-> body, bytes |-> bytes, type |-> type, swept |-> swept]
Empty(status, swept) == Reply(status, "none", 0, "", swept)

-----------------------------------------------------------------------------
(* Finding the handler.                                                     *)

Fixed == {"", "websearch-hp", "seeks_hp_search.css", "seeks_search.css", "opensearch.xml", "info",
          "seeks_img_search.css", "favicon.ico", "error-favicon.ico"}
Exact == "search/txt" :> "websearch" @@ "search" :> "websearch" @@ "search_img" :> "img_websearch"
         @@ "qc_redir" :> "qc_redir" @@ "qc_redir_img" :> "qc_redir" @@ "tbd" :> "tbd"
         @@ "find_dbr" :> "find_dbr" @@ "find_bqc" :> "find_bqc" @@ "peers" :> "peers"
         @@ [n \in Fixed |-> "fixed"]

\* The names that something must follow.
Below == [n \in {"search/txt", "words", "cluster/types", "cluster/auto", "similar/txt", "cache/txt"}
            |-> "websearch"]
         @@ "search/img" :> "img_websearch" @@ "suggestion" :> "suggestion"
         @@ "recommendation" :> "recommendation"
Anyhow == "recent/queries" :> "websearch" @@ "readable" :> "readable"

\* Small letters only, and nothing more: a callback of its own.
ApiRoute(w) ==
    CASE w.deep /\ w.name \in DOMAIN Below -> Below[w.name]
      [] w.name \in DOMAIN Anyhow -> Anyhow[w.name]
      [] OTHER -> "file_service"
Route(w) == IF ~w.deep /\ ~w.upper /\ w.name \in DOMAIN Exact THEN Exact[w.name] ELSE ApiRoute(w)

\* websearch looks at the path again, and now large letters make a difference: a path that
\* only api_route takes for small ones has no handler ("none") and no error.
WebHandler(w) ==
    CASE w.upper -> "none"
      [] ~w.upper /\ (w.deep \/ w.name = "recent/queries") -> w.name
      [] OTHER -> "compat"

\* The requests of the older interface are turned into new ones: the query and, of a result,
\* its link are needed; a link is told by its feature.
CompatPath(w) ==
    LET action == IF <<"action">> \in DOMAIN w.p THEN w.p[<<"action">>] ELSE <<"expand">>
    IN  CASE <<"q">> \notin DOMAIN w.p -> "CGI_PARAMS"
          [] <<"q">> \in DOMAIN w.p /\ action \in {<<"expand">>, <<"page">>} -> "search/txt"
          [] <<"q">> \in DOMAIN w.p /\ action = <<"types">> -> "cluster/types"
          [] <<"q">> \in DOMAIN w.p /\ action = <<"clusterize">> -> "cluster/auto"
          [] <<"q">> \in DOMAIN w.p /\ action = <<"similarity">> -> "similar/txt"
          [] OTHER -> "CGI_PARAMS"
\* Clicks and votes: the first with a link to go to, the second followed by a new search.
CompatResult(w) == IF {<<"q">>, <<"url">>} \subseteq DOMAIN w.p THEN "search/txt" ELSE "CGI_PARAMS"

\* The error of the handler, and of those in front of it.
HandlerErr(w, route) ==
    CASE route = "websearch" /\ WebHandler(w) = "none" -> "OK"
      [] route = "websearch" /\ WebHandler(w) = "compat" /\ CompatPath(w) = "CGI_PARAMS" -> "CGI_PARAMS"
      [] route \in {"qc_redir", "tbd"} /\ CompatResult(w) = "CGI_PARAMS" -> "CGI_PARAMS"
      [] OTHER -> w.err
\* An answer without a handler is empty.
HandlerRsp(w, route) ==
    IF route = "websearch" /\ WebHandler(w) = "none" THEN NoRsp
    ELSE [NoRsp EXCEPT !.body = "page", !.type = "json"]

-----------------------------------------------------------------------------
(* The replies.                                                             *)

\* Mutant: the error of a missing record is one of the server.
StatusOfRecordless(route, err) ==
    CASE err = "OK" -> 200
      [] err \in {"CGI_PARAMS", "NO_ENGINE", "ENCODING"} -> 400
      [] err = "NOT_FOUND" -> 404
      [] OTHER -> 500

\* Which errors a handler tells apart.
Searches == {"websearch", "img_websearch"}
StatusOf(route, err) ==
    CASE err = "OK" \/ (err = "NO_REC" /\ route \in {"find_dbr", "find_bqc"}) -> 200
      [] err = "CGI_PARAMS" \/ (err \in {"NO_ENGINE", "ENCODING"} /\ route \in Searches) -> 400
      [] err = "NOT_FOUND"
            \/ (err = "NO_REC" /\ route \in Searches \cup {"recommendation", "tbd", "qc_redir"}) -> 404
      [] err = "PARSE" /\ route = "qc_redir" -> 403
      [] err = "SE_CONNECT" /\ route \in Searches -> 408
      [] OTHER -> 500

\* The response as the error makes it.
ErrorRsp(c, w, route, err, rsp) ==
    LET status == StatusOf(route, err)
    IN  CASE status = 200 -> rsp
          [] status = 400 -> CgiErrorBadParam(c, rsp, w.p)
          [] status = 404 -> CgiError404(c, rsp, w.p)
          [] status = 403 -> rsp
          [] status = 408 -> [rsp EXCEPT !.body = "unknown"]
          [] err = "MEMORY" /\ route # "qc_redir" -> MemoryRsp
          [] OTHER -> ErrorUnknown(rsp, AsJson(w.p))

\* Where the length is that of the response, a page has none yet; a record that is not
\* there has no body.
BytesOf(route, err, rsp) ==
    CASE route \in {"find_dbr", "find_bqc"} /\ err = "NO_REC" -> 0
      [] route \in {"find_dbr", "find_bqc"} /\ err # "NO_REC" -> rsp.length
      [] OTHER -> SizeOf[rsp.body]

DefaultType(route) == IF route \in {"peers", "suggestion", "recommendation"} THEN "json" ELSE "html"

\* Only an answer that is none of an error has a type.
Handled(c, w, route) ==
    LET err == HandlerErr(w, route)
        rsp == ErrorRsp(c, w, route, err, HandlerRsp(w, route))
    IN  Reply(StatusOf(route, err), rsp.body, BytesOf(route, err, rsp),
              IF StatusOf(route, err) # 200 THEN ""
              ELSE IF rsp.type # "" THEN rsp.type ELSE DefaultType(route), TRUE)

Websearch(c, w) == Handled(c, w, "websearch")
ImgWebsearch(c, w) == Handled(c, w, "img_websearch")
FindDbr(c, w) == Handled(c, w, "find_dbr")
Peers(c, w) == Handled(c, w, "peers")
Suggestion(c, w) == Handled(c, w, "suggestion")
Recommendation(c, w) == Handled(c, w, "recommendation")
ReadablePage(c, w) == Handled(c, w, "readable")

\* A result that was clicked: to the link that the handler has found, or nowhere.
QcRedir(c, w) ==
    CASE <<"q">> \notin DOMAIN w.p -> Empty(400, FALSE)
      [] <<"q">> \in DOMAIN w.p /\ HandlerErr(w, "qc_redir") # "OK" -> Handled(c, w, "qc_redir")
      [] <<"q">> \in DOMAIN w.p /\ HandlerErr(w, "qc_redir") = "OK" /\ w.url -> Empty(302, TRUE)
      [] OTHER -> Reply(500, "unknown", SizeOf["unknown"], "", FALSE)

Tbd(c, w) == IF <<"q">> \notin DOMAIN w.p THEN Empty(400, FALSE) ELSE Handled(c, w, "tbd")

\* A batch is posted, and not empty.
FindBqc(c, w) == IF ~w.posted \/ w.content = 0 THEN Empty(400, FALSE) ELSE Handled(c, w, "find_bqc")

\* The pages without parameters; a search home page is followed by a sweep.
FixedPage(w) ==
    IF w.err = "OK" THEN Reply(200, "page", SizeOf["page"], w.name, w.name \in {"", "websearch-hp"})
    ELSE Empty(404, FALSE)
NodeInfo(w) == IF w.err = "OK" THEN Reply(200, "json", SizeOf["json"], "json", FALSE)
               ELSE Empty(500, FALSE)

\* The file server answers a file that is not there with a page, whose length is not known:
\* nothing is sent, and all is well.
FileService(c, w) ==
    LET p == With(w.p, <<"file">>, w.rest)
        dir == IF w.name = "plugins" THEN "plugins" ELSE "public"
        served(rsp) == Reply(200, rsp.body, rsp.length,
                             IF w.name = "robots.txt" THEN "text" ELSE rsp.type, FALSE)
        none(rsp) == Reply(404, rsp.body, rsp.length, "", FALSE)
    IN  CASE w.name \in {"plugins", "public", "robots.txt"} ->
                served(CgiFileServer(c, NoRsp, p, dir).rsp)
          [] w.name = "websearch-hp" -> FixedPage(w)
          [] OTHER -> none(CgiError404(c, NoRsp, p))

Serve(c, w) ==
    LET route == Route(w)
    IN  CASE route = "fixed" -> IF w.name = "info" THEN NodeInfo(w) ELSE FixedPage(w)
          [] route = "file_service" -> FileService(c, w)
          [] route = "qc_redir" -> QcRedir(c, w)
          [] route = "tbd" -> Tbd(c, w)
          [] route = "find_dbr" -> FindDbr(c, w)
          [] route = "find_bqc" -> FindBqc(c, w)
          [] route = "peers" -> Peers(c, w)
          [] route = "suggestion" -> Suggestion(c, w)
          [] route = "recommendation" -> Recommendation(c, w)
          [] route = "readable" -> ReadablePage(c, w)
          [] route = "img_websearch" -> ImgWebsearch(c, w)
          [] OTHER -> Websearch(c, w)

-----------------------------------------------------------------------------
(* Properties.                                                              *)

\* The handlers that both doors lead to, and the errors they can have.
Shared == Searches \cup {"recommendation", "tbd"}

\* Whoever asks a search for JSON is told the same through the HTTP server as through the
\* proxy, unless the proxy has an answer of its own: a search engine that cannot be reached
\* and a query in no encoding are the plugin's errors there (httpserv.cpp 574-615,
\* cgi.cpp 552-609).
DoorsAgree(c, w) ==
    LET agree(route, err, here) ==
            LET there == Finished(c, Mended(c, Done(c, err, HandlerRsp(w, route)), w.p, TRUE).rsp).rsp
            IN  /\ route \in Shared /\ AsJson(w.p) /\ (route = "tbd" => <<"q">> \in DOMAIN w.p)
                /\ err \in {"OK", "CGI_PARAMS", "NOT_FOUND", "NO_REC", "FILE", "OTHER"}
                => here.status = there.status /\ (err # "OK" => here.body = there.body)
    IN  agree(Route(w), HandlerErr(w, Route(w)), Serve(c, w))

\* Nobody is told that all is well when no handler has seen the request, if its path is in
\* small letters; and every search is followed by a sweep, whatever comes of it
\* (httpserv.cpp 342-385, 552-641).
SearchesAreSwept(c, w) ==
    LET told(route, r) ==
            /\ route = "websearch" /\ ~w.upper /\ WebHandler(w) = "compat" =>
                    w.name \in {"search", "search/txt"}
            /\ route \in Searches \cup {"suggestion", "recommendation", "peers"} => r.swept
            /\ r.status = 200 /\ r.bytes = 0 => \/ w.upper
                                                \/ route = "file_service"
                                                \/ route \in {"find_dbr", "find_bqc"}
    IN  told(Route(w), Serve(c, w))
=============================================================================
