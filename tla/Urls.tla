-------------------------------- MODULE Urls --------------------------------
(* URLs, requests and URL patterns (urlmatch.cpp, ssplit of miscutil.cpp),   *)
(* and the pattern files of the plugins (loaders.cpp).  A text is a sequence *)
(* of tokens, one per word, blank or sign.                                   *)
EXTENDS Integers, Sequences, FiniteSets, SequencesExt

Blanks == {" ", "TAB"}
\* The part before the first token that is one of ts, and the part behind it.
At(s, ts) == IF \E i \in DOMAIN s : s[i] \in ts
             THEN CHOOSE i \in DOMAIN s : s[i] \in ts /\ \A j \in 1 .. i - 1 : s[j] \notin ts
             ELSE 0
UpTo(s, i) == IF i = 0 THEN s ELSE SubSeq(s, 1, i - 1)
After(s, i) == IF i = 0 THEN <<>> ELSE SubSeq(s, i + 1, Len(s))
Before(s, ts) == UpTo(s, At(s, ts))
Behind(s, ts) == After(s, At(s, ts))

-----------------------------------------------------------------------------
(* Fields and requests.                                                     *)

\* ssplit, leading delimiters ignored: the fields up to the end of the line.  keep: empty
\* fields count; most: the room for them, -1 when it is exceeded.
RECURSIVE Fields(_, _)
Fields(s, delims) == IF \A i \in DOMAIN s : s[i] \notin delims THEN <<s>>
                     ELSE <<Before(s, delims)>> \o Fields(Behind(s, delims), delims)
RECURSIVE Undelimited(_, _)
Undelimited(s, delims) == IF s # <<>> /\ s[1] \in delims THEN Undelimited(Tail(s), delims) ELSE s
Counted(fields, most) ==
    [n |-> IF Len(fields) > most THEN -1 ELSE Len(fields), fields |-> fields]

Ssplit(s, delims, most, keep) ==
    Counted(SelectSeq(Fields(Undelimited(Before(s, {"LF"}), delims), delims),
                      LAMBDA f : keep \/ f # <<>>), most)

\* The components of a host name; none at all is an error.
InitDomainComponents(host, most) == Ssplit(host, {"."}, most, FALSE).n > 0

KnownMethods == {"GET", "HEAD", "POST", "PUT", "DELETE", "OPTIONS", "TRACE", "CONNECT"}
UnknownMethod(m) == m \notin KnownMethods

NoUrl == [ok |-> FALSE, ssl |-> FALSE, host |-> <<>>, port |-> 0, path |-> <<>>]

\* Host and port of what stands between protocol and path; number[t] is what atoi makes of
\* a text.  Behind the bracket of an IPv6 address only a port may follow.
\* What stands behind the host: a sign and a port, or nothing.
Ported(s, i) == IF i = 0 THEN <<>> ELSE SubSeq(s, i, Len(s))
Bracketed(s) == s # <<>> /\ s[1] = "["
HostOf(s, six) == IF six THEN Before(Tail(s), {"]"}) ELSE Before(s, {":"})
RestOf(s, six) == IF six THEN Behind(s, {"]"}) ELSE Ported(s, At(s, {":"}))
HostAndPort(host, rest, unended, ssl, path, number) ==
    IF unended \/ (rest # <<>> /\ rest[1] # ":") \/ ~InitDomainComponents(host, 8)
    THEN NoUrl
    ELSE [ok |-> TRUE, ssl |-> ssl, host |-> host, path |-> path,
          port |-> IF rest = <<>> THEN IF ssl THEN 443 ELSE 80 ELSE number[Tail(rest)]]
Unlogged(hostport) == After(hostport, At(hostport, {"@"}))
NamedPort(s, ssl, path, number) ==
    HostAndPort(HostOf(s, Bracketed(s)), RestOf(s, Bracketed(s)),
                Bracketed(s) /\ \A i \in DOMAIN s : s[i] # "]", ssl, path, number)
HostPort(hostport, ssl, path, number) ==
    NamedPort(IF \E i \in DOMAIN hostport : hostport[i] = "@" THEN Unlogged(hostport)
              ELSE hostport, ssl, path, number)

\* A URL in a request: "*" alone, a path alone, or a host with or without a protocol.
Slash(path) == IF path = <<>> THEN <<"/">> ELSE path
Located(url, rest, proto, path, require, ssl, number) ==
    CASE url # <<>> /\ url[1] = "*" -> [NoUrl EXCEPT !.ok = (Len(url) = 1), !.path = <<"*">>]
      [] proto = "" /\ url # <<>> /\ url[1] = "/" ->
            [NoUrl EXCEPT !.ok = TRUE, !.path = path, !.ssl = ssl]
      [] proto = "" /\ require /\ (url = <<>> \/ url[1] \notin {"/", "*"}) -> NoUrl
      [] OTHER -> HostPort(Before(rest, {"/"}), ssl, path, number)
Unprefixed(url, rest, proto, require, ssl, number) ==
    Located(url, rest, proto, IF ssl THEN <<"/">> ELSE Slash(Ported(rest, At(rest, {"/"}))),
            require, ssl, number)
Protocol(url) == IF url # <<>> /\ url[1] \in {"http://", "https://"} THEN url[1] ELSE ""
ParseHttpUrl(url, require, ssl0, number) ==
    Unprefixed(url, IF Protocol(url) = "" THEN url ELSE Tail(url), Protocol(url), require,
               ssl0 \/ Protocol(url) = "https://", number)

\* A request line: three words, a method and a version that are known.
BadRequest == [ok |-> FALSE, method |-> "", url |-> NoUrl]
Requested(method, u) == [ok |-> u.ok, method |-> method, url |-> u]
ThreeWords(n, words, number) ==
    IF n # 3 \/ UnknownMethod(words[1][1]) \/ words[3][1] \notin {"HTTP/1.0", "HTTP/1.1"}
    THEN BadRequest
    ELSE Requested(words[1][1], ParseHttpUrl(words[2], words[1][1] # "CONNECT",
                                             words[1][1] = "CONNECT", number))
RequestOf(r, number) == ThreeWords(r.n, r.fields, number)
ParseHttpRequest(line, number) == RequestOf(Ssplit(line, {" ", "CR", "LF"}, 10, FALSE), number)

\* The host and path of a link; a link without a protocol has neither.
ParseUrlHostAndPath(url) ==
    LET i == IF At(url, {"http://"}) > 0 THEN At(url, {"http://"}) ELSE At(url, {"https://"})
        rest == SubSeq(url, i + 1, Len(url))
        cut == At(rest, {"/"})
    IN  IF i = 0 THEN [host |-> <<>>, path |-> <<>>]
        ELSE [host |-> Before(rest, {"/"}),
              path |-> IF cut = 0 THEN <<>> ELSE SubSeq(rest, cut, Len(rest))]

\* The name under which results of the same page are merged.
StripUrl(url) ==
    LET a == IF url # <<>> /\ url[1] \in {"http://", "https://"} THEN Tail(url) ELSE url
        b == IF a # <<>> /\ a[1] = "www." THEN Tail(a) ELSE a
    IN  IF b # <<>> /\ Last(b) = "/" THEN Front(b) ELSE b

\* The first element of a path, which is taken off it.
NextEltFromPath(path) ==
    IF At(path, {"/"}) > 0 THEN [elt |-> Before(path, {"/"}), path |-> Behind(path, {"/"})]
    ELSE [elt |-> Before(path, {"?"}), path |-> <<>>]

\* A forwarder's host; one whose bracket does not end is refused.  Without a port the
\* caller's stays.
Forwarder(host, rest, unended, port, number) ==
    [ok |-> ~unended, host |-> host,
     port |-> IF rest # <<>> /\ rest[1] = ":" THEN number[Tail(rest)] ELSE port]
ParseForwarderAddress(a, port, number) ==
    Forwarder(HostOf(a, Bracketed(a)), RestOf(a, Bracketed(a)),
              Bracketed(a) /\ \A i \in DOMAIN a : a[i] # "]", port, number)

\* A listening address must have a port.
ParseIpHostPort(a, number) ==
    LET six == a # <<>> /\ a[1] = "[" /\ At(a, {"]"}) > 0
        rest == IF six THEN Behind(a, {"]"}) ELSE <<>>
        good == six /\ rest # <<>> /\ rest[1] = ":" /\ number[Tail(rest)] > 0
    IN  CASE good -> [host |-> Before(Tail(a), {"]"}), port |-> number[Tail(rest)]]
          [] ~good /\ At(a, {":"}) > 0 /\ number[Behind(a, {":"})] > 0 ->
                [host |-> Before(a, {":"}), port |-> number[Behind(a, {":"})]]
          [] OTHER -> [host |-> a, port |-> 0]

-----------------------------------------------------------------------------
(* Patterns.  The characters of a pattern are [star, class, set]: '*', or a  *)
(* set of letters, written as a class or not ('?' is the set of all).        *)

\* simplematch from character i of the pattern and j of the text on; fb is the character
\* behind the last '*', 0 for none.  A match that fails begins again at fb with the
\* letter in hand; after a class that failed this letter is skipped, and earlier ones are
\* never tried again.
RECURSIVE SimpleFrom(_, _, _, _, _)
SimpleFrom(p, t, i, j, fb) ==
    IF j > Len(t) THEN i + (IF i <= Len(p) /\ p[i].star THEN 1 ELSE 0) > Len(p)
    ELSE IF i > Len(p) /\ fb = 0 THEN FALSE
    ELSE LET here == IF i > Len(p) THEN fb ELSE i
             star == p[here].star
             k == IF star THEN here + 1 ELSE here
             back == IF star THEN k ELSE fb
         IN  CASE star /\ k > Len(p) -> TRUE
               [] k <= Len(p) /\ ~p[k].star /\ t[j] \in p[k].set ->
                    SimpleFrom(p, t, k + 1, j + 1, back)
               [] k <= Len(p) /\ (p[k].star \/ t[j] \notin p[k].set) /\ back = 0 -> FALSE
               [] OTHER -> SimpleFrom(p, t, back,
                                      IF k = back \/ p[k].class THEN j + 1 ELSE j, back)

SimpleMatch(p, t) == SimpleFrom(p, t, 1, 1, 0)

SimpleDomaincmp(pv, fv) == \A n \in DOMAIN pv : SimpleMatch(pv[n], fv[n])

\* A host pattern [left, right, dvec]: open at an end that is a dot.
DomainMatch(pat, dvec) ==
    LET plen == Len(pat.dvec)
        flen == Len(dvec)
        part(n) == SubSeq(dvec, n + 1, n + plen)
    IN  CASE flen < plen -> FALSE
          [] flen >= plen /\ pat.left /\ ~pat.right -> SimpleDomaincmp(pat.dvec, part(flen - plen))
          [] flen >= plen /\ ~pat.left /\ ~pat.right ->
                flen = plen /\ SimpleDomaincmp(pat.dvec, dvec)
          [] flen >= plen /\ ~pat.left /\ pat.right -> SimpleDomaincmp(pat.dvec, part(0))
          [] OTHER -> \E n \in 0 .. flen - plen : SimpleDomaincmp(pat.dvec, part(n))

\* A port list: ports and pairs of bounds, an upper bound of 0 for none.
MatchPortlist(list, port) ==
    \E i \in DOMAIN list :
        IF list[i].pair THEN list[i].min <= port /\ port <= IF list[i].max = 0 THEN 65535
                                                             ELSE list[i].max
        ELSE port = list[i].min
PortMatches(list, port) == list = <<>> \/ MatchPortlist(list, port)
HostMatches(hosts, dvec) == hosts = <<>> \/ DomainMatch(hosts[1], dvec)
PathMatches(paths, path) == paths = {} \/ path \in paths

\* A pattern of tags never matches a URL.
UrlMatch(spec, http) ==
    /\ ~spec.tag
    /\ PortMatches(spec.ports, http.port)
    /\ HostMatches(spec.hosts, http.dvec)
    /\ PathMatches(spec.paths, http.path)

\* The host part of a pattern's text; <> around it protects the colons of an address.
CompileHostPattern(host) ==
    [left |-> host[1] = ".", right |-> Last(host) = ".",
     dvec |-> Ssplit(host, {"."}, 150, FALSE).fields]

Angled(s) == s # <<>> /\ s[1] = "<" /\ \E i \in DOMAIN s : s[i] = ">"
Compiled(host, rest) ==
    [ok |-> rest = <<>> \/ rest[1] = ":",
     hosts |-> IF host = <<>> THEN <<>> ELSE <<CompileHostPattern(host)>>,
     port |-> IF rest = <<>> THEN <<>> ELSE Tail(rest)]
Fronted(s) == IF Angled(s) THEN Compiled(Before(Tail(s), {">"}), Behind(s, {">"}))
              ELSE Compiled(HostOf(s, FALSE), RestOf(s, FALSE))
CompileUrlPattern(text) == Fronted(Before(text, {"/"}))

\* A plugin takes a URL unless one of its negative patterns matches.
MatchUrl(positive, negative, http) ==
    /\ ~\E i \in DOMAIN negative : UrlMatch(negative[i], http)
    /\ \E i \in DOMAIN positive : UrlMatch(positive[i], http)

-----------------------------------------------------------------------------
(* Pattern files.                                                           *)

Ends == {"CR", "LF", "NUL"}

\* A line, and what follows it; a carriage return may be followed by a line feed.
DosEnd(s, i) == s[i] = "CR" /\ i < Len(s) /\ s[i + 1] = "LF"
CutAt(s, i) == IF i = 0 THEN [line |-> s, rest |-> <<>>]
               ELSE [line |-> UpTo(s, i), rest |-> After(s, IF DosEnd(s, i) THEN i + 1 ELSE i)]
SimpleReadLine(s) == CutAt(s, At(s, Ends))

\* The line without its comment; a '#' behind a backslash is none.
RECURSIVE Uncommented(_)
Uncommented(line) ==
    LET i == At(line, {"#"})
    IN  CASE i = 0 -> line
          [] i > 1 /\ line[i - 1] = "\\" ->
                SubSeq(line, 1, i - 2) \o <<"#">> \o Uncommented(SubSeq(line, i + 1, Len(line)))
          [] OTHER -> SubSeq(line, 1, i - 1)

RECURSIVE Unblanked(_)
Unblanked(line) == IF line # <<>> /\ line[1] \in Blanks THEN Unblanked(Tail(line)) ELSE line
Chomp(line) == Reverse(Unblanked(Reverse(Unblanked(line))))

\* Lines are joined while nothing has been read or a line ends with a backslash, which is
\* one even inside a comment.
RECURSIVE EditReadLine(_, _, _)
EditReadLine(s, data, goesOn) ==
    IF (~goesOn /\ data # <<>>) \/ s = <<>> THEN [data |-> data, rest |-> s]
    ELSE LET joined(r, more) ==
                 EditReadLine(r.rest, data \o Uncommented(
                     LET body == IF more THEN Front(r.line) ELSE r.line
                     IN  IF data = <<>> THEN Unblanked(body) ELSE body), more)
             read(r) == joined(r, r.line # <<>> /\ Last(r.line) = "\\")
         IN  read(SimpleReadLine(s))

ConfigLine(r) == [eof |-> r.data = <<>>, line |-> Chomp(r.data), rest |-> r.rest]
ReadConfigLine(s) == ConfigLine(EditReadLine(s, <<>>, FALSE))

\* Patterns are positive until a line with '-', and negative until one with '+'; one that
\* cannot be compiled is left out.
Signed(line) == line # <<>> /\ line[1] \in {"+", "-"}
Listed(found, positive, line) ==
    IF ~CompileUrlPattern(line).ok THEN found
    ELSE [found EXCEPT ![IF positive THEN "pos" ELSE "neg"] = Append(@, line)]
RECURSIVE LoadPatternFile(_, _, _)
LoadPatternFile(s, positive, found) ==
    LET take(r) == IF r.eof THEN found
                   ELSE LoadPatternFile(r.rest,
                            IF Signed(r.line) THEN r.line[1] = "+" ELSE positive,
                            IF Signed(r.line) THEN found ELSE Listed(found, positive, r.line))
    IN  take(ReadConfigLine(s))

-----------------------------------------------------------------------------
(* Properties.                                                              *)

\* What a pattern with wildcards stands for: '*' for any text, and the rest letter by letter.
RECURSIVE StandsFor(_, _)
StandsFor(p, t) ==
    IF p = <<>> THEN t = <<>>
    ELSE IF p[1].star THEN \E n \in 0 .. Len(t) : StandsFor(Tail(p), SubSeq(t, n + 1, Len(t)))
    ELSE t # <<>> /\ t[1] \in p[1].set /\ StandsFor(Tail(p), Tail(t))

\* A pattern never matches a host it does not stand for, although a failed match is
\* resumed without going back; without '*' it matches all it stands for
\* (urlmatch.cpp 900-1017).
NoFalseMatch(p, t) ==
    /\ SimpleMatch(p, t) => StandsFor(p, t)
    /\ (\A i \in DOMAIN p : ~p[i].star) => (StandsFor(p, t) => SimpleMatch(p, t))

\* Two URLs that differ only in protocol, "www." or the last slash have one name, and
\* naming is idempotent up to one more "www." or slash (urlmatch.cpp 434-446).
OneName(url) == \A proto \in {"http://", "https://"} :
                    (url # <<>> /\ url[1] \notin {"http://", "https://"})
                        => StripUrl(<<proto>> \o url) = StripUrl(url)

\* However the lines of a pattern file end, the same patterns are loaded
\* (loaders.cpp 97-198, 558-616).
EndsDontMatter(s) ==
    LET as(e) == FoldLeft(LAMBDA acc, x : acc \o (IF x = "LF" THEN e ELSE <<x>>), <<>>, s)
        none == [pos |-> <<>>, neg |-> <<>>]
    IN  LoadPatternFile(as(<<"CR", "LF">>), TRUE, none) = LoadPatternFile(s, TRUE, none)
\* A URL put together of its parts: protocol, login, a host that may be an address in
\* brackets, port and path.
Composed(u) ==
    (IF u.proto = "" THEN <<>> ELSE <<u.proto>>) \o u.login
    \o (IF u.six THEN <<"[">> \o u.host \o <<"]">> ELSE u.host)
    \o (IF u.port = <<>> THEN <<>> ELSE <<":">> \o u.port) \o u.path
Secure(u, method) == method = "CONNECT" \/ u.proto = "https://"

\* A request is taken apart into the parts its URL was put together of, whatever signs
\* stand in the path; of a tunnel the path is not told (urlmatch.cpp 81-354, 460-595).
RequestIsReadBack(method, version, u, number) ==
    LET r == ParseHttpRequest(<<method, " ">> \o Composed(u) \o <<" ", version>>, number)
        ssl == Secure(u, method)
        default == IF ssl THEN 443 ELSE 80
    IN  /\ r.ok <=> /\ ~UnknownMethod(method) /\ version \in {"HTTP/1.0", "HTTP/1.1"}
                    /\ u.proto = "" => method = "CONNECT"
        /\ r.ok => r.url = [ok |-> TRUE, ssl |-> ssl, host |-> u.host,
                            port |-> IF u.port = <<>> THEN default ELSE number[u.port],
                            path |-> IF ssl THEN <<"/">> ELSE Slash(u.path)]

\* The parser of links cuts a URL at the same places as the parser of requests, unless the
\* path of a secure link holds another link (urlmatch.cpp 148-395).
TwoParsersAgree(u, number) ==
    LET cut == ParseUrlHostAndPath(Composed(u))
        ssl == u.proto = "https://"
    IN  u.proto # "" /\ (ssl => At(u.path, {"http://"}) = 0) =>
            /\ cut.path = u.path
            /\ HostPort(cut.host, ssl, IF ssl THEN <<"/">> ELSE Slash(cut.path), number)
                 = ParseHttpUrl(Composed(u), TRUE, FALSE, number)

\* A forwarder is read back, and without a port of its own it keeps the one that its kind of
\* forwarder has (urlmatch.cpp 1333-1365).
ForwarderIsReadBack(u, port, number) ==
    ParseForwarderAddress(Composed([u EXCEPT !.proto = "", !.login = <<>>, !.path = <<>>]), port,
                          number)
      = [ok |-> TRUE, host |-> u.host, port |-> IF u.port = <<>> THEN port ELSE number[u.port]]

\* The elements taken off a path one by one, its last one cut at the question mark, are all
\* of its elements in their order (urlmatch.cpp 1367-1381).
RECURSIVE ElementsOf(_)
ElementsOf(path) == IF path = <<>> THEN <<>>
                    ELSE LET n == NextEltFromPath(path) IN <<n.elt>> \o ElementsOf(n.path)
PathIsWalked(path) ==
    LET cut == Before(path, {"?"})
        elements == Fields(cut, {"/"})
        asked == SubSeq(path, Len(cut) + 1, Len(path))
    IN  At(asked, {"/"}) = 0 /\ path # <<>> =>
            ElementsOf(path) = IF Last(path) = "/" THEN Front(elements) ELSE elements

\* What a pattern takes it still takes when an end of its host is opened, a port is added to
\* its list or its path is left out; and a negative pattern never makes a plugin take more
\* (urlmatch.cpp 1041-1313, plugin_element.cpp 183-211).
WiderTakesMore(spec, http) ==
    LET opened == [spec EXCEPT !.hosts = [i \in DOMAIN @ |-> [@[i] EXCEPT !.left = TRUE]]]
        ended == [spec EXCEPT !.hosts = [i \in DOMAIN @ |-> [@[i] EXCEPT !.right = TRUE]]]
        both == [opened EXCEPT !.hosts = [i \in DOMAIN @ |-> [@[i] EXCEPT !.right = TRUE]]]
        anywhere == [spec EXCEPT !.ports = <<>>, !.paths = {}]
    IN  /\ UrlMatch(spec, http) =>
             /\ UrlMatch(opened, http) /\ UrlMatch(ended, http) /\ UrlMatch(anywhere, http)
             /\ spec.ports # <<>> =>
                  UrlMatch([spec EXCEPT !.ports = Append(@, [pair |-> FALSE, min |-> 9])], http)
        /\ UrlMatch(opened, http) \/ UrlMatch(ended, http) => UrlMatch(both, http)
        /\ MatchUrl(<<anywhere>>, <<spec>>, http) <=> UrlMatch(anywhere, http) /\ ~UrlMatch(spec, http)
=============================================================================
