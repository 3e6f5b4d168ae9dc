------------------------------- MODULE Headers -------------------------------
(* What the proxy does to the headers of a request and of an answer          *)
(* (parsers.cpp).  A client state c is a record; a header is [n, v, k]: its  *)
(* name, its value and, where the value is a number, that number.  A parser  *)
(* takes the client state and one header and gives the new state and the     *)
(* header that takes its place, if any.                                      *)
EXTENDS Integers, Sequences, FiniteSetsExt, SequencesExt

BAD == -1       \* a number that sscanf cannot read
Mk(n, v) == [n |-> n, v |-> v, k |-> 0]
Num(n, k) == [n |-> n, v |-> "", k |-> k]

Keep(c, h) == [c |-> c, hs |-> <<h>>]
Crunch(c) == [c |-> c, hs |-> <<>>]
Keeping(c, keep, h) == IF keep THEN Keep(c, h) ELSE Crunch(c)
Raise(c, flag) == [c EXCEPT !.flags = @ \cup {flag}]
Drop(c, flag) == [c EXCEPT !.flags = @ \ {flag}]
Up(c, flag) == flag \in c.flags

\* c.says: the actions that are on, with their parameters.
On(c, action) == action \in DOMAIN c.says
Feature(c, f) == f \in c.features

KeepAlive(c) == Feature(c, "keep-alive")

-----------------------------------------------------------------------------
(* Lists of headers (miscutil.cpp).                                         *)

Named(hs, n) == SelectSeq(hs, LAMBDA h : h.n = n)
Has(hs, n) == Named(hs, n) # <<>>
EnlistUnique(hs, h) == IF Contains(hs, h) THEN hs ELSE Append(hs, h)
EnlistUniqueHeader(hs, h) == IF Has(hs, h.n) THEN hs ELSE Append(hs, h)

\* get_header_value: the first header of that name.
HeaderValue(hs, n) == IF Has(hs, n) THEN Named(hs, n)[1].v ELSE ""

-----------------------------------------------------------------------------
(* Times.  random: what random() gives.                                     *)

PickFromRange(c, range) == (c.random % range) + 1

Randomized(c, t) ==
    CASE t < c.now -> t + PickFromRange(c, c.now - t)
      [] t > c.now -> t - PickFromRange(c, t - c.now)
      [] OTHER -> t

-----------------------------------------------------------------------------
(* The parsers of the client's headers.                                     *)

ClientConnection(c, h) ==
    LET d == Raise(c, "CLIENT_CONNECTION_SET")
        gone == Drop(d, "CLIENT_KEEP_ALIVE")
    IN  CASE h.v = "close" /\ Feature(c, "sharing") /\ c.ver = "1.1" -> Crunch(gone)
          [] h.v = "close" /\ Feature(c, "sharing") /\ c.ver # "1.1" ->
                Keep(gone, Mk("connection", "keep-alive"))
          [] h.v = "close" /\ ~Feature(c, "sharing") -> Keep(gone, h)
          [] h.v # "close" /\ KeepAlive(c) -> Keep(Raise(d, "CLIENT_KEEP_ALIVE"), h)
          [] OTHER -> Keep(d, Mk("connection", "close"))

ClientKeepAlive(c, h) ==
    IF ~KeepAlive(c) THEN Crunch(c)
    ELSE IF h.k # BAD /\ h.k < c.most THEN Keep([c EXCEPT !.keep = h.k], h)
    ELSE Keep(c, h)

\* The host of the request line, when there is one, is not changed by the header.
ClientHost(c, h) ==
    IF h.n = "HOST" THEN Crunch(c)
    ELSE LET d == IF c.host = ""
                  THEN [c EXCEPT !.host = h.v,
                                 !.port = IF h.k # 0 THEN h.k ELSE IF c.ssl THEN 443 ELSE 80]
                  ELSE c
         IN  Keep(Raise(d, "HOST_SET"), h)

\* Mutant: what the client wants to compare with is handed on.
IfNoneMatchKept(c, h) == Keep(c, h)

ForgedReferrer(c) == Mk("referer", "forged")
FakeReferrer(parameter) == Mk("referer", parameter)
ConditionalReferrer(c, h, block) ==
    CASE h.v = "own" -> Keep(c, h)
      [] h.v # "own" /\ block -> Crunch(c)
      [] OTHER -> Keep(c, ForgedReferrer(c))

ClientReferrer(c, h) ==
    IF ~On(c, "hide-referrer") THEN Keep(c, h)
    ELSE LET p == c.says["hide-referrer"]
         IN  CASE p = "block" -> Crunch(c)
               [] p = "conditional-block" -> ConditionalReferrer(c, h, TRUE)
               [] p = "conditional-forge" -> ConditionalReferrer(c, h, FALSE)
               [] p = "forge" -> Keep(c, ForgedReferrer(c))
               [] OTHER -> Keep(c, FakeReferrer(p))

\* An action whose parameter replaces the value, and whose "block" removes the header.
Replaced(c, h, action) == CASE ~On(c, action) -> Keep(c, h)
                            [] On(c, action) /\ c.says[action] = "block" -> Crunch(c)
                            [] OTHER -> Keep(c, Mk(h.n, c.says[action]))

ClientAcceptLanguage(c, h) == Replaced(c, h, "hide-accept-language")
ClientFrom(c, h) == Replaced(c, h, "hide-from-header")
ClientUagent(c, h) == IF On(c, "hide-user-agent") THEN Keep(c, Mk(h.n, c.says["hide-user-agent"]))
                      ELSE Keep(c, h)
ClientUa(c, h) == Keeping(c, ~On(c, "hide-user-agent"), h)
ClientSendCookie(c, h) == Keeping(c, ~On(c, "crunch-outgoing-cookies"), h)
ClientAcceptEncoding(c, h) == Keeping(c, ~On(c, "prevent-compression"), h)
ClientTe(c, h) == Keeping(c, ~On(c, "prevent-compression"), h)
ClientIfNoneMatch(c, h) == Keeping(c, ~On(c, "crunch-if-none-match"), h)
ClientRange(c, h) == Keeping(c, ~On(c, "filter"), h)

ClientXForwarded(c, h) ==
    CASE ~On(c, "change-x-forwarded-for") -> Keep(c, h)
      [] On(c, "change-x-forwarded-for") /\ c.says["change-x-forwarded-for"] = "block" -> Crunch(c)
      [] OTHER -> Keep(Raise(c, "FORWARDED_APPENDED"), Mk(h.n, "appended"))

\* snprintf prints into the room of the old header: without the blank after the colon
\* (v = "tight") a number that needs as many digits as before is cut off.
Digits(k) == IF k < 10 THEN 1 ELSE IF k < 100 THEN 2 ELSE 3
Reduced(h) == IF h.v = "tight" /\ Digits(h.k - 1) = Digits(h.k)
              THEN [n |-> h.n, v |-> "", k |-> (h.k - 1) \div 10] ELSE Num(h.n, h.k - 1)

ClientMaxForwards(c, h) ==
    CASE c.gpc \notin {"TRACE", "OPTIONS"} -> Keep(c, h)
      [] c.gpc \in {"TRACE", "OPTIONS"} /\ h.k < 0 -> Crunch(c)
      [] c.gpc \in {"TRACE", "OPTIONS"} /\ h.k = 0 -> Keep(c, h)
      [] OTHER -> Keep(c, Reduced(h))

ClientIfModifiedSince(c, h) ==
    IF h.v = "1955" THEN Crunch(c)
    ELSE IF ~On(c, "hide-if-modified-since") THEN Keep(c, h)
    ELSE IF c.says["hide-if-modified-since"] = "block" \/ h.k = BAD THEN Crunch(c)
    ELSE Keep(c, Num(h.n, h.k + PickFromRange(c, 60)))

ClientXFilter(c, h) ==
    IF h.v # "No" THEN Keep(c, h)
    ELSE IF ~Feature(c, "toggle") THEN Keep(c, h)
    ELSE IF On(c, "force-text-mode") THEN Crunch(c)
    ELSE Crunch(Raise([c EXCEPT !.ctype = {"TABOO"}], "NO_FILTERING"))

CrunchClientHeader(c, h) ==
    Keeping(c, ~(On(c, "crunch-client-header") /\ h.n = c.says["crunch-client-header"]), h)

-----------------------------------------------------------------------------
(* The parsers of the server's headers.                                     *)

\* A first line without a status leaves the status of the answer before.
ServerHttp(c, h) ==
    LET status == IF h.k = BAD THEN c.status ELSE h.k
        d == [c EXCEPT !.status = status,
                       !.ctype = IF status = 206 THEN {"TABOO"} ELSE @]
    IN  Keep(d, IF On(c, "downgrade") THEN [h EXCEPT !.v = "1.0"] ELSE h)

ServerSetCookie(c, h) ==
    CASE On(c, "crunch-incoming-cookies") -> Crunch(c)
      [] On(c, "session-cookies-only") /\ h.k # 0 /\ (h.k = BAD \/ h.k >= c.now) ->
            Keep(c, Num(h.n, 0))
      [] OTHER -> Keep(c, h)

ServerConnection(c, h) ==
    LET d == Raise(c, "SERVER_CONNECTION_SET")
        kept == IF KeepAlive(c) THEN Raise(d, "SERVER_KEEP_ALIVE") ELSE d
    IN  CASE h.v # "keep-alive" \/ Up(c, "TAINTED") -> Keep(d, h)
          [] Up(c, "CLIENT_KEEP_ALIVE") -> Keep(kept, h)
          [] OTHER -> Keep(kept, Mk("connection", "close"))

ServerContentType(c, h) ==
    IF "DECLARED" \in c.ctype THEN Crunch(c)
    ELSE LET kind == CASE h.v = "text" -> {"TEXT"} [] h.v = "gif" -> {"GIF"} [] OTHER -> {}
             d == [c EXCEPT !.ctype = @ \cup {"DECLARED"}
                                      \cup (IF "TABOO" \in @ THEN {} ELSE kind)]
             text == "TEXT" \in d.ctype \/ On(c, "force-text-mode")
         IN  Keep(d, IF On(c, "content-type-overwrite") /\ text
                     THEN Mk(h.n, c.says["content-type-overwrite"]) ELSE h)

ServerContentMd5(c, h) == Keeping(c, ~Up(c, "MODIFIED"), h)

Compressions == {"gzip", "deflate", "compress"}

ServerTransferCoding(c, h) ==
    LET d == IF h.v \in Compressions THEN [c EXCEPT !.ctype = {"TABOO"}] ELSE c
        e == IF h.v = "chunked" THEN Raise(d, "CHUNKED") ELSE d
    IN  Keeping(e, ~(h.v = "chunked" /\ Up(c, "MODIFIED")), h)

ServerContentEncoding(c, h) ==
    IF Up(c, "MODIFIED") /\ c.ctype \cap {"GZIP", "DEFLATE"} # {} THEN Crunch(c)
    ELSE Keep([c EXCEPT !.ctype = @ \cup CASE h.v = "gzip" -> {"GZIP"}
                                           [] h.v = "deflate" -> {"DEFLATE"}
                                           [] h.v = "compress" -> {"TABOO"}
                                           [] OTHER -> {}], h)

ServerSaveContentLength(c, h) ==
    IF h.k = BAD THEN Crunch(c)
    ELSE Keep([c EXCEPT !.expected = h.k,
                        !.flags = @ \cup {"SERVER_LENGTH_SET", "LENGTH_SET"}], h)

ServerAdjustContentLength(c, h) == Keep(c, IF Up(c, "MODIFIED") THEN Num(h.n, c.length) ELSE h)

ServerKeepAlive(c, h) ==
    IF h.k = BAD THEN Keep(c, h)
    ELSE Keep(Raise([c EXCEPT !.keep = IF h.k < @ THEN h.k ELSE @],
                    "KEEP_ALIVE_TIMEOUT_SET"), h)

ServerProxyConnection(c, h) == Keep(Raise(c, "PROXY_CONNECTION_SET"), h)

ServerContentDisposition(c, h) == Replaced(c, h, "hide-content-disposition")

\* An unreadable time is replaced by the present one and the answer not cached.
ServerLastModified(c, h) ==
    IF ~On(c, "overwrite-last-modified") THEN Keep(c, h)
    ELSE LET p == c.says["overwrite-last-modified"]
         IN  CASE p = "block" -> Crunch(c)
               [] p = "reset-to-request-time" -> Keep(c, Num(h.n, c.now))
               [] p = "randomize" /\ h.k = BAD ->
                    Keep([c EXCEPT !.added = EnlistUniqueHeader(@, Mk("cache-control", "no-cache"))],
                         Num(h.n, c.now))
               [] p = "randomize" /\ h.k # BAD -> Keep(c, Num(h.n, Randomized(c, h.k)))
               [] OTHER -> Keep(c, h)

CrunchServerHeader(c, h) ==
    Keeping(c, ~(On(c, "crunch-server-header") /\ h.n = c.says["crunch-server-header"]), h)

-----------------------------------------------------------------------------
(* What is added when every header has been seen.                           *)

Enlist(c, h) == [c EXCEPT !.headers = Append(@, h)]

ClientHostAdder(c) ==
    IF Up(c, "HOST_SET") \/ c.host = "" THEN c
    ELSE [c EXCEPT !.headers = EnlistUniqueHeader(@, [n |-> "host", v |-> c.host, k |-> c.port])]

ClientXtraAdder(c) ==
    IF On(c, "add-header") THEN Enlist(c, Mk("extra", c.says["add-header"])) ELSE c

ClientXForwardedForAdder(c) ==
    IF On(c, "change-x-forwarded-for") /\ c.says["change-x-forwarded-for"] = "add"
       /\ ~Up(c, "FORWARDED_APPENDED")
    THEN Enlist(c, Mk("x-forwarded-for", "own")) ELSE c

ClientConnectionHeaderAdder(c) ==
    IF ~Up(c, "CLIENT_PARSED") /\ Up(c, "CLIENT_CONNECTION_SET") THEN c
    ELSE IF KeepAlive(c) /\ ~c.ssl /\ c.ver = "1.1" THEN Raise(c, "CLIENT_KEEP_ALIVE")
    ELSE Enlist(c, Mk("connection", "close"))

ServerConnectionAdder(c) ==
    IF Up(c, "CLIENT_PARSED") /\ Up(c, "SERVER_CONNECTION_SET") THEN c
    ELSE IF KeepAlive(c) /\ c.headers # <<>> /\ c.headers[1].n = "http" /\ c.headers[1].v = "1.1"
            /\ ~Up(c, "TAINTED")
    THEN Raise(c, "SERVER_KEEP_ALIVE")
    ELSE Enlist(c, Mk("connection", "close"))

ServerProxyConnectionAdder(c) ==
    IF Up(c, "CLIENT_KEEP_ALIVE") /\ ~Up(c, "TAINTED") /\ ~Up(c, "PROXY_CONNECTION_SET")
    THEN Enlist(c, Mk("proxy-connection", "keep-alive")) ELSE c

-----------------------------------------------------------------------------
(* sed: the parsers run in the order of their table, each over the headers. *)

ClientPatterns == <<"referer", "user-agent", "ua", "from", "cookie", "x-forwarded-for",
    "accept-encoding", "te", "host", "if-modified-since", "keep-alive", "connection",
    "proxy-connection", "max-forwards", "accept-language", "if-none-match", "range", "x-filter",
    "*">>

ServerPatterns == <<"http", "set-cookie", "connection", "content-type", "content-md5",
    "content-encoding", "content-length", "keep-alive", "proxy-connection", "transfer-encoding",
    "content-disposition", "last-modified", "*">>

\* The table of update_server_headers.
LightPatterns == <<"content-length", "transfer-encoding", "content-encoding">>

ClientParser(p, c, h) ==
    CASE p = "referer" -> ClientReferrer(c, h)
      [] p = "user-agent" -> ClientUagent(c, h)
      [] p = "ua" -> ClientUa(c, h)
      [] p = "from" -> ClientFrom(c, h)
      [] p = "cookie" -> ClientSendCookie(c, h)
      [] p = "x-forwarded-for" -> ClientXForwarded(c, h)
      [] p = "accept-encoding" -> ClientAcceptEncoding(c, h)
      [] p = "te" -> ClientTe(c, h)
      [] p = "host" -> ClientHost(c, h)
      [] p = "if-modified-since" -> ClientIfModifiedSince(c, h)
      [] p = "keep-alive" -> ClientKeepAlive(c, h)
      [] p = "connection" -> ClientConnection(c, h)
      [] p = "proxy-connection" -> Crunch(c)
      [] p = "max-forwards" -> ClientMaxForwards(c, h)
      [] p = "accept-language" -> ClientAcceptLanguage(c, h)
      [] p = "if-none-match" -> ClientIfNoneMatch(c, h)
      [] p = "range" -> ClientRange(c, h)
      [] p = "x-filter" -> ClientXFilter(c, h)
      [] OTHER -> CrunchClientHeader(c, h)

ServerParser(p, c, h) ==
    CASE p = "http" -> ServerHttp(c, h)
      [] p = "set-cookie" -> ServerSetCookie(c, h)
      [] p = "connection" -> ServerConnection(c, h)
      [] p = "content-type" -> ServerContentType(c, h)
      [] p = "content-md5" -> ServerContentMd5(c, h)
      [] p = "content-encoding" -> ServerContentEncoding(c, h)
      [] p = "content-length" -> ServerSaveContentLength(c, h)
      [] p = "keep-alive" -> ServerKeepAlive(c, h)
      [] p = "proxy-connection" -> ServerProxyConnection(c, h)
      [] p = "transfer-encoding" -> ServerTransferCoding(c, h)
      [] p = "content-disposition" -> ServerContentDisposition(c, h)
      [] p = "last-modified" -> ServerLastModified(c, h)
      [] OTHER -> CrunchServerHeader(c, h)

LightParser(p, c, h) == CASE p = "content-length" -> ServerAdjustContentLength(c, h)
                          [] p = "transfer-encoding" -> ServerTransferCoding(c, h)
                          [] OTHER -> ServerContentEncoding(c, h)

Patterns == [client |-> ClientPatterns, server |-> ServerPatterns, light |-> LightPatterns]
Parser(table, p, c, h) == CASE table = "client" -> ClientParser(p, c, h)
                            [] table = "server" -> ServerParser(p, c, h)
                            [] OTHER -> LightParser(p, c, h)

Matches(p, h) == p = "*" \/ h.n = p \/ (p = "host" /\ h.n = "HOST")

\* One pattern over all headers.
Pass(c, table, p) ==
    LET step(acc, h) ==
            IF ~Matches(p, h) THEN [acc EXCEPT !.hs = Append(@, h)]
            ELSE LET r == Parser(table, p, acc.c, h) IN [c |-> r.c, hs |-> acc.hs \o r.hs]
        end == FoldLeft(step, [c |-> [c EXCEPT !.added = <<>>], hs |-> <<>>], c.headers)
    IN  [end.c EXCEPT !.headers = FoldLeft(EnlistUniqueHeader, end.hs, end.c.added), !.added = <<>>]

Passes(c, table) == FoldLeft(LAMBDA d, p : Pass(d, table, p), c, Patterns[table])

SedClient(c) ==
    ClientConnectionHeaderAdder(ClientXtraAdder(ClientXForwardedForAdder(ClientHostAdder(
        Passes(c, "client")))))

SedServer(c) ==
    ServerProxyConnectionAdder(ServerConnectionAdder(Passes(c, "server")))

\* A parser that removes its header leaves a null pointer, which is handed to strcmp: what
\* follows is undefined, and the program may end there ("NULL_READ").
UpdateServerHeaders(c) ==
    LET d == IF c.gpc = "HEAD" THEN c ELSE Passes(c, "light")
        e == IF Len(d.headers) < Len(c.headers) THEN Raise(d, "NULL_READ") ELSE d
    IN  IF Up(d, "MODIFIED") /\ Up(d, "CLIENT_KEEP_ALIVE") /\ ~Up(d, "SERVER_LENGTH_SET")
        THEN Enlist(e, Num("content-length", d.length)) ELSE e

\* parse_client_request, up to what is left of the buffer: more.
Bodiless == {"GET", "HEAD", "TRACE", "OPTIONS", "DELETE"}
AfterRequest(d, more) ==
    CASE ~Up(d, "CLIENT_KEEP_ALIVE") -> d
      [] Up(d, "CLIENT_KEEP_ALIVE") /\ ~more -> Raise(d, "REQUEST_READ")
      [] Up(d, "CLIENT_KEEP_ALIVE") /\ more /\ d.gpc \in Bodiless ->
            Raise(Raise(d, "TAINTED"), "REQUEST_READ")
      [] OTHER -> Raise(Drop(d, "REQUEST_READ"), "TAINTED")
ParseClientRequest(c, more) ==
    LET asked == IF KeepAlive(c) /\ c.ver = "1.1" /\ ~c.ssl THEN Raise(c, "CLIENT_KEEP_ALIVE") ELSE c
    IN  AfterRequest(Raise(SedClient(asked), "CLIENT_PARSED"), more)

\* The destination of a request whose first line has no host.
DestinationFromHeaders(c) ==
    IF ~Has(c.headers, "host") THEN c
    ELSE LET h == Named(c.headers, "host")[1]
         IN  [c EXCEPT !.host = h.v,
                       !.port = IF h.k # 0 THEN h.k ELSE IF c.ssl THEN 443 ELSE 80]

-----------------------------------------------------------------------------
(* What is promised of a request and of an answer.  q is the client state with  *)
(* the request's headers, a what the answer adds to it.                        *)

\* Only a client that has asked for it, or an HTTP/1.1 client that has not said "close",
\* is taken to stay (client_connection, client_connection_header_adder).
KeptIsAsked(q) ==
    LET d == SedClient(q)
        said == Named(q.headers, "connection")
    IN  Up(d, "CLIENT_KEEP_ALIVE") =>
            /\ KeepAlive(q)
            /\ said # <<>> => Last(said).v # "close"
            /\ said = <<>> => q.ver = "1.1"

\* The server learns the host of the request whatever the client's headers were, and a
\* Host header in capitals never reaches it (client_host, client_host_adder).
HostIsSent(q) ==
    LET d == SedClient(q)
    IN  /\ ~Has(d.headers, "HOST")
        /\ q.host # "" => Has(d.headers, "host")

\* With the headers of no_tracking the server never learns which answer the client has,
\* and the client never gets the date it could send back, nor one from the future
\* (client_if_none_match, server_last_modified).
NothingTracks(q, a) ==
    On(q, "crunch-if-none-match") /\ On(a, "overwrite-last-modified") =>
        /\ ~Has(SedClient(q).headers, "if-none-match")
        /\ LET dates == Named(a.headers, "last-modified")
               told == Named(SedServer(a).headers, "last-modified")
           IN  \A i \in DOMAIN dates :
                    dates[i].k < a.now => dates[i].k < told[i].k /\ told[i].k <= a.now

\* The timeout of a server connection only shrinks (server_keep_alive).
TimeoutShrinks(a) == SedServer(a).keep <= a.keep

\* A request whose first line names no host goes to the host that its headers name, and that
\* host learns the same name; and what a client sends behind a request without a body is
\* never taken for its next one (get_destination_from_headers, parse_client_request).
GoesWhereItSays(q, more) ==
    LET holds(d) ==
            /\ q.host = "" /\ HeaderValue(q.headers, "host") # "" =>
                    d.host = HeaderValue(d.headers, "host") /\ d.port > 0
            /\ more /\ Up(d, "CLIENT_KEEP_ALIVE") => Up(d, "TAINTED")
    IN  holds(ParseClientRequest(IF q.host = "" THEN DestinationFromHeaders(q) ELSE q, more))
=============================================================================
