------------------------------- MODULE Pages -------------------------------
(* The proxy's own pages: finding who answers a request, the pages built in,  *)
(* their templates and errors, and the finished response (cgi.cpp,            *)
(* cgisimple.cpp).  A request is a record c: where it goes, its headers, and  *)
(* what of the configuration the pages look at.                               *)
EXTENDS Plugins

CONSTANTS
    UIntMax,        \* the largest number a parameter can be
    ParamMax,       \* the length from which on a parameter is refused
    MaxFields       \* the room for the fields of a query

-----------------------------------------------------------------------------
(* Parameters.  p is a function from names to values, texts both.            *)

NoParams == [x \in {} |-> <<>>]

\* The first of two parameters of one name counts, as does one that is there already.
With(p, name, value) == p @@ (name :> value)

\* Only fields with a name, '=' and a value; too many fields are none.
ParseCgiParameters(args) ==
    LET r == Ssplit(Before(args, {"#"}), {"?", "&"}, MaxFields, FALSE)
        takes(p, f) == IF At(f, {"="}) > 0 /\ Behind(f, {"="}) # <<>>
                       THEN With(p, Before(f, {"="}), Behind(f, {"="})) ELSE p
    IN  IF r.n < 0 THEN NoParams ELSE FoldLeft(takes, NoParams, r.fields)

\* A parameter that is not there is a null pointer, and is read: CRASH.
CRASH == "CRASH"

DigitOf == "0" :> 0 @@ "1" :> 1 @@ "2" :> 2 @@ "9" :> 9
Wrong == [ok |-> FALSE, value |-> 0]
WithDigit(r, t) ==
    IF ~r.ok \/ t \notin DOMAIN DigitOf THEN Wrong
    ELSE IF r.value > (UIntMax - DigitOf[t]) \div 10 THEN Wrong
    ELSE [r EXCEPT !.value = @ * 10 + DigitOf[t]]

GetNumberParam(p, name) ==
    IF name \notin DOMAIN p THEN Wrong ELSE FoldLeft(WithDigit, [ok |-> TRUE, value |-> 0], p[name])

Upper == [x \in {"e", "d", "t"} |-> CASE x = "e" -> "E" [] x = "d" -> "D" [] OTHER -> "T"]
GetCharParam(p, name) ==
    IF name \notin DOMAIN p THEN CRASH
    ELSE LET ch == p[name][1] IN IF ch \in DOMAIN Upper THEN Upper[ch] ELSE ch

\* A text is refused when it is too long or has a sign that no text may have.
Refused == {"CTRL", "}"}
GetStringParam(p, name) ==
    IF name \notin DOMAIN p THEN CRASH
    ELSE IF Len(p[name]) >= ParamMax \/ Range(p[name]) \cap Refused # {} THEN "CGI_PARAMS"
    ELSE "OK"

AsJson(p) == <<"output">> \in DOMAIN p /\ p[<<"output">>] = <<"json">>

-----------------------------------------------------------------------------
(* Responses.  A body is named for what it is; SizeOf gives its length.  A    *)
(* handler gives [err, rsp, toggle]: its error, the response so far, and      *)
(* whether the proxy filters from now on.                                     *)

NoRsp == [status |-> 200, body |-> "none", length |-> 0, type |-> "", static |-> FALSE,
          location |-> FALSE, head |-> FALSE]
SizeOf == [b \in {"none", "page", "json", "image", "file", "css", "nothing read", "unknown"} |->
             CASE b = "none" -> 0 [] b = "json" -> 2 [] b = "image" -> 3 [] b = "file" -> 4
               [] b = "css" -> 6 [] b = "unknown" -> 7 [] b = "nothing read" -> 0 [] OTHER -> 5]
\* What is sent when memory is short, and when a response cannot be made.
MemoryRsp == [NoRsp EXCEPT !.status = 500, !.body = "unknown", !.length = 7, !.type = "html",
                           !.head = TRUE]

Done(c, err, rsp) == [err |-> err, rsp |-> rsp, toggle |-> c.toggle]

\* A template that cannot be loaded replaces all there was.
ErrorNoTemplate == [NoRsp EXCEPT !.status = 500, !.body = "unknown"]
ErrorUnknown(rsp, json) == IF json THEN [rsp EXCEPT !.status = 500, !.body = "json", !.length = 2]
                           ELSE [NoRsp EXCEPT !.status = 500, !.body = "unknown"]

\* The length is left to be found at the end.
TemplateFillForCgi(c, rsp, name) ==
    IF name \in c.missing THEN ErrorNoTemplate ELSE [rsp EXCEPT !.body = "page"]

\* An error's page has a status of its own, or none, which is 200; as JSON it has code.
ErrorPage(c, rsp, name, status, json, code) ==
    IF json THEN [rsp EXCEPT !.status = code, !.body = "json", !.length = 2]
    ELSE TemplateFillForCgi(c, [rsp EXCEPT !.status = status], name)

CgiError404(c, rsp, p) == ErrorPage(c, rsp, "cgi-error-404", 404, AsJson(p), 404)
CgiErrorUnauthorized(c, rsp, p) ==
    ErrorPage(c, rsp, "cgi-error-unauthorized", 401, AsJson(p), 401)
CgiErrorForbidden(c, rsp, p) == ErrorPage(c, rsp, "cgi-error-forbidden", 403, AsJson(p), 403)
CgiErrorBadParam(c, rsp, p) ==
    ErrorPage(c, rsp, "cgi-error-bad-param", rsp.status, AsJson(p), 400)
CgiErrorPlugin(c, rsp, p) == ErrorPage(c, rsp, "cgi-error-plugin", rsp.status, AsJson(p), 500)
CgiErrorDisabled(c, rsp) == TemplateFillForCgi(c, rsp, "cgi-error-disabled")

\* The pages for a server that cannot be had; a name without a status is taken for a lack
\* of memory.
ServerErrors == "no-such-domain" :> 404 @@ "connect-failed" :> 503
                @@ "connection-timeout" :> 504 @@ "no-server-data" :> 502
ErrorResponse(c, name) ==
    IF name \notin DOMAIN ServerErrors THEN MemoryRsp
    ELSE TemplateFillForCgi(c, [NoRsp EXCEPT !.status = ServerErrors[name]], name)

\* finish_http_response.
Finished(c, rsp) ==
    LET length == IF rsp.length = 0 THEN SizeOf[rsp.body] ELSE rsp.length
        type == IF rsp.type # "" \/ rsp.status = 302 THEN rsp.type
                ELSE IF c.ctype # "" THEN c.ctype ELSE "html"
        caching == CASE rsp.static -> "for minutes"
                     [] ~rsp.static /\ rsp.status = 302 -> "unsaid"
                     [] OTHER -> "never"
        modified == CASE rsp.static -> "2000"
                      [] ~rsp.static /\ rsp.status = 302 -> "unsaid"
                      [] ~rsp.static /\ rsp.status \in {403, 404, 502, 503, 504} -> "1955"
                      [] OTHER -> "now"
    IN  IF rsp.head
        THEN [rsp |-> rsp, caching |-> "unsaid", modified |-> "unsaid", sent |-> rsp.length]
        ELSE [rsp |-> [rsp EXCEPT !.length = length, !.type = type, !.head = TRUE],
              caching |-> caching, modified |-> modified,
              sent |-> IF c.gpc = "HEAD" THEN 0 ELSE length]

-----------------------------------------------------------------------------
(* Files.  c.files gives for a path what is there: [kind, ext], kind "read",  *)
(* "empty" or "unreadable" (a file that can be opened and told its length but *)
(* not be read).                                                              *)

UNREADABLE == 9
\* An empty file counts as one that cannot be read; the length stays as it was told.
LoadFile(c, path, rsp) ==
    IF path \notin DOMAIN c.files THEN [err |-> "FILE", rsp |-> rsp]
    ELSE LET kind == c.files[path].kind
         IN  CASE kind = "read" -> [err |-> "OK", rsp |-> [rsp EXCEPT !.body = "file", !.length = 4]]
               [] kind = "empty" -> [err |-> "FILE", rsp |-> [rsp EXCEPT !.body = "nothing read"]]
               [] OTHER -> [err |-> "FILE",
                            rsp |-> [rsp EXCEPT !.body = "nothing read", !.length = UNREADABLE]]

FileTypes == {"css", "jpg", "png", "ico", "gif", "js", "json", "xml"}
FileResponseContentType(ext) == IF ext \in FileTypes THEN ext ELSE "html"

\* A file that cannot be had is answered with a page, which is no error any more.
CgiFileServer(c, rsp, p, dir) ==
    IF <<"file">> \notin DOMAIN p THEN Done(c, "OK", CgiError404(c, rsp, p))
    ELSE LET r == LoadFile(c, <<dir>> \o p[<<"file">>], rsp)
         IN  IF r.err # "OK" THEN Done(c, "OK", CgiError404(c, r.rsp, p))
             ELSE Done(c, "OK", [r.rsp EXCEPT
                        !.type = FileResponseContentType(c.files[<<dir>> \o p[<<"file">>]].ext),
                        !.static = TRUE])

\* A parameter "file" of the request goes before the icon.
CgiSendFavicon(c, rsp, p) == CgiFileServer(c, rsp, With(p, <<"file">>, <<"favicon.ico">>), "public")

CgiSendUserManual(c, rsp, p) ==
    IF p = NoParams THEN Done(c, "OK", [rsp EXCEPT !.status = 302, !.location = TRUE])
    ELSE IF <<"file">> \notin DOMAIN p THEN Done(c, CRASH, rsp)
    ELSE LET given == GetStringParam(p, <<"file">>) = "OK"
             name == IF given THEN p[<<"file">>] ELSE <<"index.html">>
             r == LoadFile(c, <<"manual">> \o name, rsp)
         IN  IF given /\ Range(name) \cap {"/", ".."} # {} THEN Done(c, "CGI_PARAMS", rsp)
             ELSE IF r.err # "OK" THEN Done(c, "OK", ErrorNoTemplate)
             ELSE Done(c, "OK", [r.rsp EXCEPT !.type = FileResponseContentType(
                                    c.files[<<"manual">> \o name].ext)])

-----------------------------------------------------------------------------
(* The other pages built in.                                                *)

CgiToggle(c, rsp, p) ==
    LET mode == GetCharParam(p, <<"set">>)
        to == CASE mode = "E" -> TRUE [] mode = "D" -> FALSE [] mode = "T" -> ~c.toggle
                [] OTHER -> c.toggle
    IN  CASE ~c.canToggle -> Done(c, "OK", CgiErrorDisabled(c, rsp))
          [] c.canToggle /\ mode = CRASH -> Done(c, CRASH, rsp)
          [] c.canToggle /\ mode # CRASH /\ GetCharParam(p, <<"mini">>) = CRASH ->
                [err |-> CRASH, rsp |-> rsp, toggle |-> to]
          [] OTHER -> [err |-> "OK", rsp |-> TemplateFillForCgi(c, rsp, "toggle"), toggle |-> to]

\* c.blocker: what the image blocker's parameter says: "", "blank", "pattern", a type
\* behind the proxy's own address, or another address.
CgiSendBanner(c, rsp, p) ==
    IF <<"type">> \notin DOMAIN p THEN Done(c, CRASH, rsp)
    ELSE LET asked == p[<<"type">>][1]
             type == CASE asked # "a" -> asked
                       [] asked = "a" /\ c.blocker \in {"", "pattern"} -> "p"
                       [] asked = "a" /\ c.blocker = "blank" -> "b"
                       [] asked = "a" /\ c.blocker = "own" -> "t"
                       [] OTHER -> "r"
         IN  IF type = "r" THEN Done(c, "OK", [rsp EXCEPT !.status = 302, !.location = TRUE])
             ELSE Done(c, "OK", [rsp EXCEPT !.body = "image", !.length = 3, !.type = "image",
                                            !.static = TRUE])

CgiTransparentImage(c, rsp) ==
    Done(c, "OK", [rsp EXCEPT !.body = "image", !.length = 3, !.type = "image", !.static = TRUE])

\* A style sheet that is not there is an empty answer.
CgiSendStylesheet(c, rsp) ==
    Done(c, "OK", [rsp EXCEPT !.body = IF "cgi-style.css" \in c.missing THEN "none" ELSE "css",
                              !.type = "css"])

CgiSendUrlInfoOsd(c, rsp) ==
    Done(c, "OK", [TemplateFillForCgi(c, rsp, "url-info-osd.xml") EXCEPT !.type = "xml"])

\* The link as it is taken: with a protocol, and without what follows nothing.
GivenUrl(url) ==
    CASE url # <<>> /\ url[1] \in {"http://", "https://"} -> IF Len(url) = 1 THEN <<>> ELSE url
      [] url # <<>> /\ At(url, {"http://", "https://"}) = 0 -> <<"http://">> \o url
      [] OTHER -> url

\* The parts of the page that are left out.
UrlInfoKilled(c, url) ==
    LET u == ParseHttpUrl(url, TRUE, FALSE, [t \in {} |-> 0])
    IN  (IF c.toggle THEN {"toggled-off"} ELSE {})
        \cup CASE url = <<>> -> {"url-given"}
               [] url # <<>> /\ ~u.ok -> {"valid-url"}
               [] OTHER -> (IF u.ssl THEN {} ELSE {"https"}) \cup {"filters-might-be-ineffective"}

CgiShowUrlInfo(c, rsp, p) ==
    IF <<"url">> \notin DOMAIN p THEN Done(c, CRASH, rsp)
    ELSE Done(c, "OK", TemplateFillForCgi(c, rsp, "show-url-info"))

\* The plugins are counted in the order of their priorities, in the list of links as on
\* the page that a link leads to.
MakePluginsList(reg) ==
    [k \in DOMAIN ByPriority(reg) |-> [name |-> reg.plugins[ByPriority(reg)[k]].name,
                                       index |-> k - 1]]
ShownPlugin(reg, index) == IF index + 1 \in DOMAIN ByPriority(reg)
                           THEN reg.plugins[ByPriority(reg)[index + 1]].name
                           ELSE "UNKNOWN PLUGIN!"
CgiShowPlugin(c, rsp, p) ==
    IF ~GetNumberParam(p, <<"index">>).ok THEN Done(c, "CGI_PARAMS", rsp)
    ELSE Done(c, "OK", TemplateFillForCgi(c, rsp, "show-status-plugin"))

\* What the page of the proxy's state leaves out.
StatusKilled(requests) == {"trust-support"} \cup (IF requests = 0 THEN {"have-stats"}
                                                  ELSE {"have-no-stats"})

\* The table of the pages: what may be asked for from anywhere is harmless.
Described == {"", "show-status", "show-request", "toggle"}
BuiltIn == {"", "show-status", "show-plugin-status", "show-request", "show-url-info", "toggle",
            "favicon.ico", "error-favicon.ico", "send-banner", "send-stylesheet", "t",
            "url-info-osd.xml", "user-manual"}
Harmless(name) == name # "toggle"

\* The entries of the menu on the page self.
MakeMenu(c, self) == {n \in Described : n # self /\ (n = "toggle" => c.canToggle)}

Page(c, name, rsp, p) ==
    CASE name = "toggle" -> CgiToggle(c, rsp, p)
      [] name \in {"favicon.ico", "error-favicon.ico"} -> CgiSendFavicon(c, rsp, p)
      [] name = "send-banner" -> CgiSendBanner(c, rsp, p)
      [] name = "send-stylesheet" -> CgiSendStylesheet(c, rsp)
      [] name = "t" -> CgiTransparentImage(c, rsp)
      [] name = "url-info-osd.xml" -> CgiSendUrlInfoOsd(c, rsp)
      [] name = "user-manual" -> CgiSendUserManual(c, rsp, p)
      [] name = "show-url-info" -> CgiShowUrlInfo(c, rsp, p)
      [] name = "show-plugin-status" -> CgiShowPlugin(c, rsp, p)
      [] OTHER -> Done(c, "OK", TemplateFillForCgi(c, rsp, name))

-----------------------------------------------------------------------------
(* From the request to the page.                                            *)

\* The first Referer header; without one nothing is safe.
GrepCgiReferrer(c) == SelectSeq(c.headers, LAMBDA h : h.n = "referer")
ReferrerIsSafe(c) == GrepCgiReferrer(c) # <<>> /\ GrepCgiReferrer(c)[1].v = "own"

\* An error of the handler becomes a page; a plugin's error is told as such.
Mended(c, r, p, ofPlugin) ==
    LET page(rsp) == [r EXCEPT !.err = "OK", !.rsp = rsp]
    IN  CASE r.err \in {"OK", CRASH} -> r
          [] r.err = "CGI_PARAMS" -> page(CgiErrorBadParam(c, r.rsp, p))
          [] r.err = "NOT_FOUND" \/ (r.err = "NO_REC" /\ ofPlugin) -> page(CgiError404(c, r.rsp, p))
          [] r.err = "UNAUTH" -> page(CgiErrorUnauthorized(c, r.rsp, p))
          [] r.err = "FORBID" -> page(CgiErrorForbidden(c, r.rsp, p))
          [] r.err \in {"FILE", "MEMORY", "OTHER"} /\ ofPlugin -> page(CgiErrorPlugin(c, r.rsp, p))
          [] r.err \in {"FILE", "OTHER", "NO_REC"} /\ ~ofPlugin ->
                page(ErrorUnknown(r.rsp, AsJson(p)))
          [] OTHER -> page(MemoryRsp)

\* Mutant: the toggle page is taken for harmless.
DispatchFreely(c, name, p, ofPlugin) ==
    LET r == IF ofPlugin THEN Done(c, c.pluginErr, NoRsp) ELSE Page(c, name, NoRsp, p)
        m == Mended(c, r, p, ofPlugin)
    IN  [err |-> m.err, toggle |-> m.toggle, answer |-> Finished(c, m.rsp)]

\* What could do harm is only done from the proxy's own pages; from elsewhere "toggle"
\* loses what it should set.  A plugin's pages are harmless, their error is c.pluginErr.
Dispatch(c, name, p, ofPlugin) ==
    LET q == [x \in DOMAIN p \ {<<"set">>} |-> p[x]]
        r == CASE ofPlugin -> Done(c, c.pluginErr, NoRsp)
               [] ~ofPlugin /\ (Harmless(name) \/ ReferrerIsSafe(c)) -> Page(c, name, NoRsp, p)
               [] ~ofPlugin /\ ~(Harmless(name) \/ ReferrerIsSafe(c)) /\ name = "toggle" ->
                    Page(c, name, NoRsp, q)
               [] OTHER -> Done(c, "OK", CgiErrorDisabled(c, NoRsp))
        m == Mended(c, r, p, ofPlugin)
    IN  [err |-> m.err, toggle |-> m.toggle, answer |-> Finished(c, m.rsp)]

Files(c, p, dir) ==
    [err |-> "OK", toggle |-> c.toggle, answer |-> Finished(c, CgiFileServer(c, NoRsp, p, dir).rsp)]

\* Files of a plugin are only those under "public"; another path to them is looked for
\* among the pages, under the name of the file server.
DispatchKnownCgi(c, path) ==
    LET server == IF path # <<>> /\ path[1] \in {"public", "plugins"} THEN path[1] ELSE ""
        rest == IF server = "" THEN path ELSE Tail(path)
        slash == rest # <<>> /\ rest[1] = "/"
        name == IF slash THEN IF server = "" THEN <<>> ELSE <<server>>
                ELSE Before(path, {"?"})
        p == IF slash THEN (<<"file">> :> Tail(rest)) ELSE ParseCgiParameters(Behind(rest, {"?"}))
        public == \E k \in DOMAIN c.reg.plugins :
                    IsPrefix(<<c.reg.plugins[k].name, "/", "public">>,
                             IF slash THEN Tail(rest) ELSE Behind(rest, {"?"}))
        page == IF name = <<>> THEN "" ELSE name[1]
        who == FindPluginCgiDispatcher(c.reg.cgi, name)
        files == server = "public" \/ (server = "plugins" /\ public)
        ours == Len(name) <= 1 /\ page \in BuiltIn
    IN  CASE files -> Files(c, p, server)
          [] ~files /\ ours -> Dispatch(c, page, p, FALSE)
          [] ~files /\ ~ours /\ who # "NONE" -> Dispatch(c, page, p, TRUE)
          [] OTHER -> [err |-> "OK", toggle |-> c.toggle,
                       answer |-> Finished(c, CgiError404(c, NoRsp, p))]

\* Whether a request is for the proxy itself.
IsForProxy(c) == /\ c.host \in {"site1", "site2"}
                 /\ c.path = <<>> => c.host = "site2"
                 /\ c.path # <<>> => c.path[1] = "/"
DispatchCgi(c) == DispatchKnownCgi(c, IF c.path = <<>> THEN <<>> ELSE Tail(c.path))

-----------------------------------------------------------------------------
(* Properties.                                                              *)

\* What is announced is what is there, after whatever errors: a handler that fails may
\* have left a body or its length behind.  But for a file that can be opened and not be
\* read (cgisimple.cpp 1494-1548, cgi.cpp 1635-1826).
LengthIsTrue(c) ==
    LET true(err, caching, r) ==
            /\ err # CRASH => r.length = SizeOf[r.body]
            /\ caching = "for minutes" => r.body \in {"image", "file"}
            /\ r.location <=> r.status = 302
        ends(d) == true(d.err, d.answer.caching, d.answer.rsp)
    IN  (\A f \in DOMAIN c.files : c.files[f].kind # "unreadable") => ends(DispatchCgi(c))

\* No request that does not come from the proxy's own pages changes whether the proxy
\* filters (cgi.cpp 332-357, 524-611).
ToggledFromOwnPages(c) == DispatchCgi(c).toggle # c.toggle => ReferrerIsSafe(c)

\* A number is read exactly or refused, whatever its length (cgi.cpp 810-858).
NumberIsExact(digits) ==
    LET exact == FoldLeft(LAMBDA n, t : n * 10 + DigitOf[t], 0, digits)
        r == GetNumberParam(<<"index">> :> digits, <<"index">>)
    IN  r.ok = (exact <= UIntMax) /\ (r.ok => r.value = exact)

\* The link of a plugin leads to that plugin, whichever plugins are loaded and active
\* (cgi.cpp 2568-2593, cgisimple.cpp 1395-1474).
LinkShowsPlugin(reg) ==
    \A k \in DOMAIN MakePluginsList(reg) :
        ShownPlugin(reg, MakePluginsList(reg)[k].index) = MakePluginsList(reg)[k].name

\* A toggle call from elsewhere shows the status: cgi.cpp:540 says of such calls that
\* they "only display the status".
ToggleDisplaysStatus(c) ==
    Len(c.path) > 1 /\ c.path[2] = "toggle" /\ ~ReferrerIsSafe(c) => DispatchCgi(c).err = "OK"

\* Whatever is wrong with a server or with the page that tells of it, the client gets an
\* error, with its true length, that nobody keeps (cgi.cpp 876-1032, 1635-1827).
ServerErrorsAreTold(c, name) ==
    LET holds(f) ==
            /\ f.rsp.status >= 400 /\ f.rsp.head /\ f.caching # "for minutes"
            /\ f.rsp.length = SizeOf[f.rsp.body] /\ f.sent \in {0, f.rsp.length}
            /\ name \in DOMAIN ServerErrors \ c.missing =>
                    f.rsp.status = ServerErrors[name] /\ f.modified = "1955"
    IN  holds(Finished(c, ErrorResponse(c, name)))

\* Every entry of the menu of a page leads to a page, and none back to it; but for the
\* toggle page, whose link lacks what it needs (cgi.cpp 235-611, 2505-2555).
MenuLeadsOn(c, self) ==
    LET follow(n) == [c EXCEPT !.path = IF n = "" THEN <<"/">> ELSE <<"/", n>>]
        led(r) == r.err = "OK" /\ r.answer.rsp.status = 200 /\ r.answer.rsp.body = "page"
        menu == MakeMenu(c, self)
    IN  /\ self \notin menu
        /\ c.missing = {} => \A n \in menu \ {"toggle"} :
                                 IsForProxy(follow(n)) /\ led(DispatchCgi(follow(n)))

\* Of a request for the proxy itself no error is left over, its answer has a head, and of
\* a HEAD request no body is sent (cgi.cpp 235-611).
OwnPagesAnswered(c) ==
    LET holds(r) == /\ r.err \in {"OK", CRASH}
                    /\ r.err = "OK" => r.answer.rsp.head
                    /\ c.gpc = "HEAD" /\ r.answer.rsp.body # "unknown" => r.answer.sent = 0
    IN  IsForProxy(c) => holds(DispatchCgi(c))

\* A link is completed once, and the same is told of it with "http://" and without; what is
\* said of https is said of secure links only (cgisimple.cpp 1030-1309).
LinkIsCompleted(c, url) ==
    LET bare == url # <<>> /\ At(url, {"http://", "https://"}) = 0
        holds(given, killed) ==
            /\ GivenUrl(given) = given
            /\ bare => killed = UrlInfoKilled(c, GivenUrl(<<"http://">> \o url))
            /\ {"url-given", "valid-url"} \cap killed = {} =>
                    ("https" \in killed <=> given[1] # "https://")
    IN  holds(GivenUrl(url), UrlInfoKilled(c, GivenUrl(url)))
=============================================================================
