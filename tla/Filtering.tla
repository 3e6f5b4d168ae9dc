----------------------------- MODULE Filtering -----------------------------
(* What happens to a body before it is filtered and to the headers after it, *)
(* and which requests the proxy answers itself or refuses (filters.cpp,      *)
(* proxy_dts.cpp, the buffers of parsers.cpp).                               *)
EXTENDS Headers, FiniteSets

CONSTANTS
    ByteBits,       \* bits of a byte of an address
    Limit           \* the buffer limit, in the units of a body

-----------------------------------------------------------------------------
(* Access control.  An address is [family, bits, port]; bits is the set of   *)
(* the positions, from 1, that are set.  A v4 address in v6 form has its     *)
(* bits behind the prefix of V4Offset positions.                             *)

LengthOf(family) == IF family = 4 THEN 2 ELSE 4         \* in bytes
V4Offset == 2 * ByteBits
MappedPrefix == {V4Offset}                              \* what marks a mapped address
IsMapped(a) == a.family = 6 /\ {b \in a.bits : b <= V4Offset} = MappedPrefix
Shifted(bits) == {b - V4Offset : b \in {x \in bits : x > V4Offset}}

ByteOf(bits, j) == {b \in bits : (b - 1) \div ByteBits = j}

\* acl_addr: the mask of the first masklength bits.
MaskBits(family, masklength) ==
    1 .. IF family = 4 /\ masklength > 2 * ByteBits THEN 2 * ByteBits ELSE masklength

\* What acl_addr makes of an address it can resolve: with a port, the mask's port is not 0.
AclAddr(address, masklength, hasPort) ==
    [addr |-> address,
     mask |-> [family |-> address.family, bits |-> MaskBits(address.family, masklength),
               port |-> IF hasPort THEN 1 ELSE 0]]

\* The bytes are compared up to the first whose mask is empty.
SameBytes(net, mask, addr, len) ==
    \A j \in 0 .. len - 1 :
        (\A i \in 0 .. j : ByteOf(mask, i) # {})
            => ByteOf(net \cap mask, j) = ByteOf(addr \cap mask, j)

MatchSockaddr(net, mask, addr) ==
    LET port == mask.port = 0 \/ net.port = addr.port
    IN  \/ net.family = addr.family /\ port
           /\ SameBytes(net.bits, mask.bits, addr.bits, LengthOf(net.family))
        \/ net.family = 4 /\ IsMapped(addr) /\ port
           /\ SameBytes(net.bits, mask.bits, Shifted(addr.bits), LengthOf(4))
        \/ IsMapped(net) /\ addr.family = 4 /\ port
           /\ SameBytes(Shifted(net.bits), Shifted(mask.bits), addr.bits, LengthOf(4))

\* A rule is [permit, src, dst, any]; without a destination only a permission decides.
BlockAcl(acl, from, dst) ==
    LET applies(r) == MatchSockaddr(r.src.addr, r.src.mask, from)
        decides(r) == /\ applies(r)
                      /\ IF dst = <<>> THEN r.permit
                         ELSE r.any \/ MatchSockaddr(r.dst.addr, r.dst.mask, dst[1])
        first == SelectSeq(acl, decides)
    IN  acl # <<>> /\ (first = <<>> \/ ~first[1].permit)

-----------------------------------------------------------------------------
(* Buffers: iob is [cur, eod, size].                                        *)

Doubled[n \in Nat] == [need \in Nat |-> IF n > need THEN n ELSE Doubled[2 * n][need]]

FlushSocket(iob) == [sent |-> IF iob.eod > iob.cur THEN iob.eod - iob.cur ELSE 0,
                     iob |-> IF iob.eod > iob.cur THEN [iob EXCEPT !.cur = 0, !.eod = 0] ELSE iob]

\* n bytes are appended, or the limit is reached and nothing changes.
AddToIob(iob, n, first) ==
    LET need == iob.eod + n + 1
        want == Doubled[IF iob.size = 0 THEN first ELSE iob.size][need]
    IN  CASE n <= 0 -> [err |-> FALSE, iob |-> iob]
          [] n > 0 /\ need > Limit -> [err |-> TRUE, iob |-> iob]
          [] n > 0 /\ need <= Limit /\ need <= iob.size ->
                [err |-> FALSE, iob |-> [iob EXCEPT !.eod = @ + n]]
          [] OTHER -> [err |-> FALSE,
                       iob |-> [iob EXCEPT !.eod = @ + n,
                                           !.size = IF want <= Limit THEN want ELSE need]]

\* Its end and the zero behind it lie in the buffer.
InBuffer(iob) == iob.cur <= iob.eod /\ (iob.size > 0 => iob.eod < iob.size) /\ iob.size <= Limit

-----------------------------------------------------------------------------
(* A body is [raw, chunks, zipped, plain]: its bytes, the sizes of its chunks *)
(* (BAD where none can be read) and what is inside when it is compressed.     *)

\* Sizes are read and the chunks moved together until one of size 0, or one that cannot
\* be read, ends them; a total that reaches the buffer's size is an error.
Dechunked(chunks, size) ==
    LET zero == {i \in DOMAIN chunks : chunks[i] <= 0}
        upto == IF zero = {} THEN Len(chunks) ELSE Min(zero) - 1
        sum == FoldLeft(+, 0, SubSeq(chunks, 1, upto))
    IN  IF chunks = <<>> \/ chunks[1] = BAD \/ sum >= size
        THEN [ok |-> FALSE, size |-> size] ELSE [ok |-> TRUE, size |-> sum]

\* decompress_iob.  A gzip body must have its header; a deflated one is given a byte more,
\* which stays when nothing comes of it.
Decompressed(body, ctype) ==
    LET grown == IF "DEFLATE" \in ctype /\ "GZIP" \notin ctype THEN 1 ELSE 0
    IN  IF body.zipped /\ body.plain <= Limit
        THEN [ok |-> TRUE, body |-> [body EXCEPT !.raw = body.plain, !.zipped = FALSE]]
        ELSE [ok |-> FALSE, body |-> [body EXCEPT !.raw = @ + grown]]

Joined(c, body, d) == [ok |-> d.ok, c |-> IF d.ok THEN Raise(c, "MODIFIED") ELSE c,
                       body |-> [body EXCEPT !.raw = d.size]]
Dechunk(c, body) == IF Up(c, "CHUNKED") THEN Joined(c, body, Dechunked(body.chunks, body.raw))
                    ELSE [ok |-> TRUE, c |-> c, body |-> body]

Inflated(c, e) ==
    [ok |-> e.ok, body |-> e.body,
     c |-> IF e.ok THEN Raise([c EXCEPT !.ctype = @ \ {"TABOO"}], "MODIFIED")
           ELSE [c EXCEPT !.ctype = @ \ {"GZIP", "DEFLATE"}]]
Inflate(d) == IF ~d.ok \/ d.c.ctype \cap {"GZIP", "DEFLATE"} = {} \/ d.body.raw = 0 THEN d
              ELSE Inflated(d.c, Decompressed(d.body, d.c.ctype))

PrepareForFiltering(c, body) == Inflate(Dechunk(c, body))

\* Mutant: the filters do not mark what they have changed.
RunFilterUnmarked(r, f) == IF f.hits THEN [r EXCEPT !.length = @ + f.grows]
                           ELSE [r EXCEPT !.c = Raise(@, "NULL_READ")]

\* pcrs_plugin_response: a filter [hits, grows] that hits marks the answer as modified; one
\* that does not gives a null pointer, whose length is asked for ("NULL_READ").
RunFilter(r, f) == IF f.hits THEN [r EXCEPT !.c = Raise(@, "MODIFIED"), !.length = @ + f.grows]
                   ELSE [r EXCEPT !.c = Raise(@, "NULL_READ")]

\* The filters run over what is prepared, each over the last one's result.
RunFilters(p, filters) ==
    LET r == [c |-> p.c, body |-> p.body, length |-> p.body.raw]
    IN  IF p.ok THEN FoldLeft(RunFilter, r, filters) ELSE r
ExecuteFilters(c, body, filters) == RunFilters(PrepareForFiltering(c, body), filters)

\* The end of a filtered answer: its length is the length of what is sent.
Framed(x) == [c |-> UpdateServerHeaders([x.c EXCEPT !.length = x.length]), sent |-> x.length,
              zipped |-> x.body.zipped]
FilteredAnswer(c, body, filters) == Framed(ExecuteFilters(c, body, filters))

\* content_filter of chat: text that is not taboo, and somebody to filter it.
ContentFilter(c, filters) == "TABOO" \notin c.ctype /\ "TEXT" \in c.ctype /\ filters # <<>>

-----------------------------------------------------------------------------
(* Which forwarder, which answer.                                           *)

\* The first forwarder whose pattern matches, or none: <<>>.
ForwardUrl(forwarders, matching) ==
    SubSeq(SelectSeq(forwarders, LAMBDA f : f \in matching), 1, 1)

\* A TRACE or OPTIONS request that may go no further is refused.
DirectResponse(c) ==
    /\ c.gpc \in {"TRACE", "OPTIONS"}
    /\ \E h \in Range(c.headers) : h.n = "max-forwards" /\ h.k = 0

\* Only the pages of the proxy itself stand before the server.
CrunchTriggered(c, isCgi) == ~Feature(c, "cgi-crunching") /\ isCgi

-----------------------------------------------------------------------------
(* Properties.                                                              *)

\* An address belongs to a network when the first masklength bits agree, whatever the
\* bytes the mask ends in (filters.cpp 225-232, 482-499).
MaskIsPrefix(net, masklength, addr) ==
    LET m == AclAddr(net, masklength, FALSE)
    IN  net.family = addr.family =>
            (MatchSockaddr(m.addr, m.mask, addr) <=>
                \A b \in 1 .. masklength : b \in net.bits <=> b \in addr.bits)

\* A buffer never outgrows its limit, and nothing is lost at it (parsers.cpp 229-287).
BufferHolds(iob, n) ==
    InBuffer(iob) => LET r == AddToIob(iob, n, 1)
                     IN  InBuffer(r.iob) /\ r.iob.eod = iob.eod + (IF r.err THEN 0 ELSE n)

\* A length is the length sent, nothing is called chunked that no longer is, and what is
\* announced as compressed is.
SaysHowItEnds(body, r) ==
    /\ \A h \in Range(Named(r.c.headers, "content-length")) : h.k = r.sent
    /\ Up(r.c, "MODIFIED") =>
         \A h \in Range(Named(r.c.headers, "transfer-encoding")) : h.v # "chunked"
    /\ \A h \in Range(Named(r.c.headers, "content-encoding")) :
         h.v \in {"gzip", "deflate"} /\ body.zipped => r.zipped

\* When an honest server's answer has been filtered, the client is told how the body ends
\* that it gets.  But for a deflated body that cannot be decompressed, which has a byte
\* more than announced (seeks_proxy.cpp 1737-1784, parsers.cpp 462, 1070-1147).
FilteredEndsWell(a, body, filters, c) ==
    LET honest == \A h \in Range(Named(a.headers, "content-length")) : h.k = body.raw
        broken == "DEFLATE" \in c.ctype /\ ~(body.zipped /\ body.plain <= Limit)
        right(r) == Up(r.c, "NULL_READ") \/ SaysHowItEnds(body, r)
    IN  ContentFilter(c, filters) /\ honest /\ a.gpc # "HEAD" /\ ~broken
            => right(FilteredAnswer(c, body, filters))
FramingAgrees(a, body, filters) == FilteredEndsWell(a, body, filters, SedServer(a))

\* A network that is refused inside of one that is permitted is cut out of it exactly, and
\* who is refused before the destination is known would be so whatever it is: who is let
\* through then may still be refused (filters.cpp 225-316).
ExceptionsHold(net, masklength, addr) ==
    LET rule(permit, n) == [permit |-> permit, any |-> TRUE, src |-> AclAddr(net, n, FALSE)]
        acl == <<rule(FALSE, masklength + 1), rule(TRUE, masklength)>>
        agree(n) == \A b \in 1 .. n : b \in net.bits <=> b \in addr.bits
    IN  net.family = addr.family =>
            /\ ~BlockAcl(acl, addr, <<net>>) <=> agree(masklength) /\ ~agree(masklength + 1)
            /\ BlockAcl(acl, addr, <<>>) => BlockAcl(acl, addr, <<net>>)

\* What has been sent is not sent again, and leaves its room (parsers.cpp 195-287).
SentOnce(iob, n) ==
    LET r == FlushSocket(iob)
    IN  InBuffer(iob) =>
            /\ InBuffer(r.iob) /\ r.sent = iob.eod - iob.cur
            /\ r.sent > 0 => FlushSocket(r.iob).sent = 0
            /\ r.sent > 0 /\ n < Limit => ~AddToIob(r.iob, n, 1).err

\* Behind each proxy a request that may pass k more may pass fewer, until one of them answers
\* it, the k-th at the latest; one of another method none of them answers (parsers.cpp
\* client_max_forwards 2986-3019, filters.cpp direct_response 1243-1298).
TraceEnds(c) ==
    LET most(e) == Named(e.headers, "max-forwards")[1].k
        holds(d) == IF c.gpc \in {"TRACE", "OPTIONS"}
                    THEN DirectResponse(d) \/ most(d) \in 1 .. most(c) - 1
                    ELSE ~DirectResponse(d) /\ most(d) = most(c)
    IN  Has(c.headers, "max-forwards") /\ most(c) >= 0 => holds(SedClient(c))
=============================================================================
