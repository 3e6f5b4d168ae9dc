------------------------------ MODULE Exchange ------------------------------
(* One client connection as serve and chat handle it (seeks_proxy.cpp): the *)
(* request is taken, plugins and local pages may answer it, and otherwise    *)
(* the server's answer is read in pieces of any size and passed on.  Bytes   *)
(* are counted, not looked at: the head of an answer takes up to its last    *)
(* LineEnds, the body follows.                                               *)
EXTENDS Integers, Sequences, FiniteSets, FiniteSetsExt

CONSTANTS
    LineEnds,       \* how many bytes of the head there are at the end of each of its lines
    Answers,        \* what a server may answer: [body, framing, status, keep, fake]
    Asked,          \* what a client may ask: [method, keep, filtered, local, intercepted, more,
                    \*   compares: has an If-None-Match header]
    NoTracking,     \* the plugin no_tracking is activated
    MarkerSize,     \* bytes of the end of a chunked body
    BufferLimit,    \* bytes of body that the buffer of a filtered answer holds
    MaxRequests     \* requests of one client

ASSUME ExchangeAssumption ==
    /\ LineEnds \subseteq Nat /\ 0 \in LineEnds /\ IsFiniteSet(LineEnds)
    /\ MarkerSize \in Nat \ {0} /\ BufferLimit \in Nat /\ MaxRequests \in Nat
    /\ \A a \in Answers : /\ a.body \in Nat /\ a.status \in Nat /\ a.fake \in Nat
                          /\ a.framing \in {"length", "chunked", "close"} /\ a.keep \in BOOLEAN
    /\ \A r \in Asked : /\ r.keep \in BOOLEAN /\ r.filtered \in BOOLEAN /\ r.more \in BOOLEAN
                        /\ r.local \in BOOLEAN /\ r.intercepted \in BOOLEAN
    /\ NoTracking \in BOOLEAN

VARIABLES
    at,         \* where chat or serve is
    req, ans,   \* the request and its answer
    got,        \* bytes of the answer read from the server
    count,      \* byte_count
    expected,   \* _expected_content_length, or UNKNOWN
    body,       \* server_body
    filters,    \* the connection has a filter plugin
    filtering,  \* content_filter
    tainted,    \* CSP_FLAG_SERVER_SOCKET_TAINTED
    serverKeeps,    \* CSP_FLAG_SERVER_CONNECTION_KEEP_ALIVE
    status,     \* _http._status
    told,       \* what the client was sent for this request, in order
    out,        \* bytes of the body it was sent
    crunches,   \* ACTION_CRUNCH_IF_NONE_MATCH
    compared,   \* the request that is sent has an If-None-Match header
    end,        \* what ended the reading: chat itself (early, or at the end), or the server
    served      \* requests taken

exchangeVars == <<at, req, ans, got, count, expected, body, filters, filtering, tainted,
                  serverKeeps, status, told, out, crunches, compared, end, served>>
requestVars == <<req, ans, crunches, compared>>
answerVars == <<got, count, expected, body, filtering, end>>

UNKNOWN == -1
HeadSize == Max(LineEnds)
Total == HeadSize + ans.body
BodyRead == IF got > HeadSize THEN got - HeadSize ELSE 0
\* get_header takes whole lines.
Parsed(n) == Max({e \in LineEnds : e <= n})

ExchangeInit ==
    /\ at = "idle" /\ req \in Asked /\ ans \in Answers
    /\ got = 0 /\ count = 0 /\ expected = UNKNOWN /\ body = FALSE
    /\ filters = FALSE /\ filtering = FALSE /\ tainted = FALSE
    /\ serverKeeps = FALSE /\ status = 0 /\ told = <<>> /\ out = 0 /\ end = "none"
    /\ served = 0 /\ crunches = FALSE /\ compared = FALSE

Tell(what) == told' = Append(told, what)
\* mark_server_socket_tainted
Taint == tainted' = (tainted \/ serverKeeps)

-----------------------------------------------------------------------------
(* The request.                                                             *)

\* receive_client_request and parse_client_request, with the actions of the requests
\* before; the plugins of the URL are added to the ones of those requests.  Bytes behind
\* the request taint the connection.
Receive ==
    /\ at = "idle" /\ served < MaxRequests
    /\ \E r \in Asked, a \in Answers : req' = r /\ ans' = a
    /\ filters' = (filters \/ req'.filtered)
    /\ tainted' = (req'.keep /\ req'.more)
    /\ served' = served + 1 /\ at' = "plugins"
    /\ got' = 0 /\ count' = 0 /\ expected' = UNKNOWN /\ body' = FALSE /\ filtering' = FALSE
    /\ end' = "none" /\ serverKeeps' = FALSE /\ told' = <<>> /\ out' = 0
    /\ compared' = (req'.compares /\ ~crunches)
    /\ UNCHANGED <<status, crunches>>

\* No request comes, or none that can be read.
ReceiveFails ==
    /\ at = "idle" /\ at' = "closed"
    /\ UNCHANGED <<requestVars, answerVars, filters, tainted, serverKeeps, status, told, out,
                   served>>

\* The first plugin with a response has it sent; chat goes on.  no_tracking sets actions
\* for headers and has no response.
Intercept ==
    /\ at = "plugins"
    /\ crunches' = (crunches \/ NoTracking)
    /\ IF req.intercepted THEN Tell("plugin") ELSE UNCHANGED told
    /\ at' = "crunch"
    /\ UNCHANGED <<req, ans, compared, answerVars, filters, tainted, serverKeeps, status, out,
                   served>>

Crunched ==
    /\ at = "crunch"
    /\ IF req.local THEN Tell("cgi") /\ at' = "over" ELSE UNCHANGED told /\ at' = "connect"
    /\ UNCHANGED <<requestVars, answerVars, filters, tainted, serverKeeps, status, out,
                   served>>

\* connect, or a connection that is there; then the request is written.
ConnectAndSend ==
    /\ at = "connect" /\ at' = "read"
    /\ UNCHANGED <<requestVars, answerVars, filters, tainted, serverKeeps, status, told, out,
                   served>>

ConnectOrSendFails ==
    /\ at = "connect" /\ at' = "over" /\ Tell("page")
    /\ UNCHANGED <<requestVars, answerVars, filters, tainted, serverKeeps, status, out,
                   served>>

-----------------------------------------------------------------------------
(* The answer.                                                              *)

\* server_response_is_complete
Complete == \/ req.method = "HEAD" \/ status = 304
            \/ expected # UNKNOWN /\ expected <= count

Stops == /\ at = "read" /\ body /\ Complete

\* Mutant: the length in the header is forgotten.
LengthForgotten(e) == UNKNOWN

\* The server's length, from the head.
LengthOf(e) == IF ans.framing = "length" THEN ans.body ELSE e

\* byte_count after the read that ended the head: what was flushed behind the head.  The
\* part of a line that an earlier read ended with has been counted and stays counted.
CountOfHead(c, n) == c + (n - HeadSize)

\* With filtering it is taken off again.
CountOfFilteredHead(c, n) == c + (n - got) - (HeadSize - Parsed(got))

\* The head ends: sed, and it is passed on unless the body will be filtered.
HeadEnds(n) ==
    /\ status' = IF ans.status = 0 THEN status ELSE ans.status
    /\ expected' = LengthOf(expected)
    /\ serverKeeps' = (ans.keep /\ ~tainted)
    /\ filtering' = filters
    /\ body' = TRUE
    /\ IF filters THEN /\ count' = CountOfFilteredHead(count, n)
                       /\ UNCHANGED <<told, out>>
       ELSE count' = CountOfHead(count, n) /\ Tell("head") /\ out' = n - HeadSize

\* A read that leaves the head unfinished counts what is left of the last line.
HeadGoesOn(n) ==
    /\ count' = count + (n - got) - (Parsed(n) - Parsed(got))
    /\ UNCHANGED <<status, expected, serverKeeps, filtering, body, told, out>>

ReadHead ==
    /\ at = "read" /\ ~body
    /\ \E n \in got + 1 .. Total :
        /\ got' = n
        /\ IF n >= HeadSize THEN HeadEnds(n) ELSE HeadGoesOn(n)
    /\ UNCHANGED <<at, requestVars, filters, tainted, end, served>>

\* Only a read that ends with the whole marker is recognised, and so is one that ends
\* with data that look like it.
MarkerSeen(from, n) ==
    /\ ans.framing = "chunked" /\ n - from >= MarkerSize
    /\ n \in {Total, HeadSize + ans.fake}

\* A buffer that is full is flushed with the head, and filtering is given up.
ReadBody ==
    /\ at = "read" /\ body /\ ~Complete
    /\ \E n \in got + 1 .. Total :
        /\ got' = n
        /\ expected' = IF MarkerSeen(got, n) THEN count + (n - got) ELSE expected
        /\ IF filtering /\ n - HeadSize > BufferLimit
           THEN /\ Tell("head") /\ out' = n - HeadSize /\ filtering' = FALSE
                /\ count' = n - HeadSize
           ELSE /\ count' = count + (n - got)
                /\ out' = IF filtering THEN out ELSE out + (n - got)
                /\ UNCHANGED <<told, filtering>>
    /\ UNCHANGED <<at, requestVars, body, filters, tainted, serverKeeps, status, end, served>>

\* What a filtered body is sent with.
Finished == IF filtering THEN Tell("head") /\ out' = BodyRead ELSE UNCHANGED <<told, out>>

\* Nothing more is expected.
StopReading ==
    /\ Stops /\ at' = "account" /\ Finished
    /\ end' = IF got < Total /\ req.method # "HEAD" /\ ans.status # 304 THEN "early" ELSE "whole"
    /\ UNCHANGED <<requestVars, got, count, expected, body, filtering, filters, tainted,
                   serverKeeps, status, served>>

\* The server has closed, or the read failed before anything was counted.
ServerEnds ==
    /\ at = "read" /\ body /\ ~Complete /\ at' = "account" /\ Finished /\ end' = "server"
    /\ \/ UNCHANGED tainted
       \/ count = 0 /\ Taint
    /\ UNCHANGED <<requestVars, got, count, expected, body, filtering, filters, serverKeeps,
                   status, served>>

\* It closed within the head: a blank line is added and the head read once more (the
\* IIS5 hack).  Behind a whole line this ends a head: what its lines say is taken, it is
\* passed on unless it is to be filtered, and so is the page that follows in any case.
ServerEndsInHead ==
    /\ at = "read" /\ ~body /\ at' = "over" /\ end' = "server"
    /\ \/ /\ got > 0 /\ got = Parsed(got)
          /\ status' = IF ans.status = 0 THEN status ELSE ans.status
          /\ expected' \in {expected, LengthOf(expected)}
          /\ serverKeeps' \in {FALSE, ans.keep /\ ~tainted}
          /\ told' = told \o (IF filters THEN <<"page">> ELSE <<"head", "page">>)
          /\ body' = TRUE /\ filtering' = filters
       \/ /\ got = 0 \/ got # Parsed(got)
          /\ Tell("page")
          /\ UNCHANGED <<status, expected, serverKeeps, body, filtering>>
    /\ tainted' = (tainted \/ serverKeeps')
    /\ UNCHANGED <<requestVars, got, count, filters, out, served>>

\* The head does not begin as one of HTTP or ICY, or does not fit in the memory.
HeadRefused ==
    /\ at = "read" /\ ~body /\ at' = "over" /\ Tell("page") /\ Taint
    /\ UNCHANGED <<requestVars, answerVars, filters, serverKeeps, status, out, served>>

\* chat takes byte_count = 0 for nothing sent.
MayTell == count = 0

\* Mutant: the timeout is only watched once the head has come.
TimeoutInBody ==
    /\ at = "read" /\ body /\ ~Stops /\ at' = "over" /\ Taint
    /\ IF MayTell THEN Tell("page") ELSE UNCHANGED told
    /\ UNCHANGED <<requestVars, answerVars, filters, serverKeeps, status, out, served>>

\* Nothing comes within the socket timeout.
ReadTimeout ==
    /\ at = "read" /\ ~Stops /\ at' = "over" /\ Taint
    /\ IF MayTell THEN Tell("page") ELSE UNCHANGED told
    /\ UNCHANGED <<requestVars, answerVars, filters, serverKeeps, status, out, served>>

\* select or read fails, or the client hangs up or cannot be written to.
ReadFails ==
    /\ at = "read" /\ ~Stops /\ at' = "over" /\ Taint
    /\ UNCHANGED <<requestVars, answerVars, filters, serverKeeps, status, told, out, served>>

\* A client whose request may have more: what it sends goes to the server, and when it
\* closes chat ends with what there is.
ClientEnds ==
    /\ at = "read" /\ ~Stops /\ ~req.keep
    /\ at' = "account" /\ Taint
    /\ UNCHANGED <<requestVars, answerVars, filters, serverKeeps, status, told, out, served>>

Agrees == expected = UNKNOWN \/ expected = count \/ req.method = "HEAD" \/ status = 304

Account ==
    /\ at = "account" /\ at' = "over"
    /\ tainted' = (tainted \/ (serverKeeps /\ ~Agrees))
    /\ UNCHANGED <<requestVars, answerVars, filters, serverKeeps, status, told, out, served>>

-----------------------------------------------------------------------------
(* serve: another request on the connection, or its end.                    *)

\* A connection that the server has closed is not usable.
MayContinue == serverKeeps /\ ~tainted /\ req.keep /\ end # "server"

Continue ==
    /\ at = "over" /\ MayContinue /\ at' = "idle"
    /\ UNCHANGED <<requestVars, answerVars, filters, tainted, serverKeeps, status, told, out,
                   served>>

Close ==
    /\ at = "over" /\ at' = "closed"
    /\ UNCHANGED <<requestVars, answerVars, filters, tainted, serverKeeps, status, told, out,
                   served>>

ExchangeStep == \/ Receive \/ ReceiveFails \/ Intercept \/ Crunched
                \/ ConnectAndSend \/ ConnectOrSendFails
                \/ ReadHead \/ ReadBody \/ StopReading \/ ServerEnds \/ ServerEndsInHead
                \/ HeadRefused \/ ReadTimeout \/ ReadFails \/ ClientEnds \/ Account \/ Continue \/ Close

\* What the thread does by itself when the client and the server are silent.
ExchangeProgram == \/ ReceiveFails \/ Intercept \/ Crunched
                   \/ ConnectAndSend \/ ConnectOrSendFails
                   \/ StopReading \/ ReadTimeout \/ Account \/ Continue \/ Close

ExchangeOver == at = "closed" /\ UNCHANGED exchangeVars

ExchangeNext == ExchangeStep \/ ExchangeOver

ExchangeSpec == ExchangeInit /\ [][ExchangeNext]_exchangeVars

-----------------------------------------------------------------------------
(* Properties.                                                              *)

Said == {"plugin", "cgi", "page", "head"}
Stations == {"idle", "plugins", "crunch", "connect", "read", "account", "over", "closed"}

\* What a connection, its request and its answer are made of (proxy_dts.h 452-672).
ExchangeTypeOK ==
    /\ at \in Stations /\ req \in Asked /\ ans \in Answers
    /\ got \in Nat /\ count \in Int /\ expected \in Int /\ out \in Nat
    /\ status \in Nat /\ served \in Nat /\ told \in Seq(Said)
    /\ body \in BOOLEAN /\ filters \in BOOLEAN /\ filtering \in BOOLEAN
    /\ tainted \in BOOLEAN /\ serverKeeps \in BOOLEAN
    /\ end \in {"none", "early", "whole", "server"}

\* chat never waits for bytes that will not come: once an answer with a known length has
\* been read to its end, reading stops (seeks_proxy.cpp 1562-1574, 1918, 2049, 2059).
StopsAtEnd ==
    at = "read" /\ body /\ ans.framing = "length" /\ got = Total => Complete

\* A filtered body is sent whole when reading stopped by itself, unless data look like
\* the end of a chunked one (1562-1574, 1737-1784).
FilteredIsWhole ==
    at = "account" /\ filtering /\ end = "early" => ans.fake # 0 \/ ans.status = 0

\* Once bytes of the body have gone to the client, no page is sent into it (1585, 1664).
NoPageIntoBody ==
    \A i \in DOMAIN told : told[i] = "page" => out = 0

\* What an unfinished line holds at the end of a read.
PartOfLine == {n - Parsed(n) : n \in 0 .. HeadSize}

\* All that has come of a body has been passed on, and nothing else, unless it waits to be
\* filtered; of a body that was never to be filtered the beginning of a line of the head may
\* have been counted as well (1918-1921, 2037-2063, 1806-1871).
CountIsBody ==
    at = "read" /\ body => /\ out = IF filtering THEN 0 ELSE BodyRead
                           /\ count - BodyRead \in IF filters THEN {0} ELSE PartOfLine

\* An answer has been read whole when its connection takes another request: of one with a
\* length no more is missing than was counted too much, a chunked one may have had data
\* that look like its end (1562-1574, 1687-1698, 2099-2106, 2144-2155).
KeptIsWhole ==
    at = "idle" /\ served > 0 /\ req.method # "HEAD" /\ status # 304
        => \/ ans.framing = "length" /\ Total - got = count - BodyRead
           \/ ans.framing = "chunked" /\ (got = Total \/ (ans.fake # 0 /\ got = HeadSize + ans.fake))

\* The head of an answer is sent at most once, and before its body.
HeadOnce ==
    /\ Cardinality({i \in DOMAIN told : told[i] = "head"}) <= 1
    /\ out > 0 => \E i \in DOMAIN told : told[i] = "head"

ExchangeSafe == StopsAtEnd /\ FilteredIsWhole /\ NoPageIntoBody /\ CountIsBody
                /\ KeptIsWhole /\ HeadOnce

\* Every exchange ends although the client and the server may fall silent at any point:
\* only the thread's own steps and its timeouts are fair (1577-1597, 2129-2245).
ExchangeEnds == <>[](at = "closed")

\* no_tracking "avoids resending a tracking ETAG" (no_tracking.cpp 57).
EtagIsHeld == NoTracking /\ at = "read" => ~compared
=============================================================================
