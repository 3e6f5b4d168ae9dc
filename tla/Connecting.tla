------------------------------ MODULE Connecting ------------------------------
(* Sockets: connecting to a server, directly or through a SOCKS server, and   *)
(* listening for clients (gateway.cpp, spsockets.cpp).  w is what the calls    *)
(* leave behind: errno, the sockets open, the last one opened, the socket in   *)
(* hand (NOSOCKET: none), the address and the message that the client sees.    *)
EXTENDS Integers, Sequences, FiniteSets, SequencesExt

CONSTANTS MaxDnsRetries, MaxConnectRetries

NOSOCKET == 0
World(errno, kept) == [errno |-> errno, open |-> kept, last |-> 1, sfd |-> NOSOCKET,
                       ip |-> "", message |-> ""]

Opened(w) == [w EXCEPT !.last = @ + 1, !.open = @ \cup {w.last + 1}, !.sfd = w.last + 1]
CloseSocket(w) == [w EXCEPT !.open = @ \ {w.sfd}, !.sfd = NOSOCKET]

-----------------------------------------------------------------------------
(* connect_to.  What can become of an address: the rules refuse it, it has no *)
(* name, there is no socket, connect fails, nothing comes within the time, the *)
(* connection is in error, or it stands, at once or after a while.             *)

Outcomes == {"blocked", "nameless", "no socket", "refused", "silent", "broken", "at once", "later"}

Tried(w, a) ==
    LET named == [w EXCEPT !.ip = "address"]
    IN  CASE w.sfd # NOSOCKET -> w
          [] w.sfd = NOSOCKET /\ a = "blocked" -> [w EXCEPT !.errno = "EPERM"]
          [] w.sfd = NOSOCKET /\ a = "nameless" -> w
          [] w.sfd = NOSOCKET /\ a = "no socket" -> [named EXCEPT !.errno = "other"]
          [] w.sfd = NOSOCKET /\ a = "refused" ->
                [CloseSocket(Opened(named)) EXCEPT !.errno = "other"]
          [] w.sfd = NOSOCKET /\ a \in {"silent", "broken"} ->
                [CloseSocket(Opened(named)) EXCEPT !.errno = "EINPROGRESS"]
          [] w.sfd = NOSOCKET /\ a = "later" -> [Opened(named) EXCEPT !.errno = "EINPROGRESS"]
          [] OTHER -> Opened(named)

\* addrs: what the name stands for; a name that stands for nothing leaves errno alone.
ConnectTo(w, addrs) ==
    IF addrs = <<>> THEN [w EXCEPT !.ip = "unknown", !.sfd = NOSOCKET]
    ELSE FoldLeft(Tried, [w EXCEPT !.sfd = NOSOCKET], addrs)

\* The tries of the resolver, one after the other: "again", "none" or "found".
ResolveHostname(w, tries) ==
    LET asked == IF \E k \in DOMAIN tries : tries[k] # "again"
                 THEN CHOOSE k \in DOMAIN tries :
                        tries[k] # "again" /\ \A i \in 1 .. k - 1 : tries[i] = "again"
                 ELSE Len(tries)
        last == IF asked > MaxDnsRetries + 1 THEN MaxDnsRetries + 1 ELSE asked
        found == tries[last] = "found"
    IN  [found |-> found, w |-> IF found THEN w ELSE [w EXCEPT !.errno = "EINVAL"]]

-----------------------------------------------------------------------------
(* Through a SOCKS server.  f is the forwarding: [type, gateway, proxy], e    *)
(* what happens: the addresses of the server to connect to, how the target's   *)
(* name resolves, its length ("ok", "long"), which writes fail, and the        *)
(* server's answers.                                                           *)

Refuse(w, message) == [w EXCEPT !.errno = "EINVAL", !.message = message, !.sfd = NOSOCKET]
Stop(w, message) == [w EXCEPT !.message = message, !.sfd = NOSOCKET]
Hangup(w, message) == [CloseSocket(w) EXCEPT !.message = message]
HangupAs(w, message, errno) == [Hangup(w, message) EXCEPT !.errno = errno]

\* Mutant: a connection whose negotiation cannot be read stays open.
Socks4AnswerKept(w, e) ==
    CASE 1 \in e.writesFail -> Hangup(w, "write failed")
      [] 1 \notin e.writesFail /\ e.reply4 = "short" -> Stop(w, "read failed")
      [] 1 \notin e.writesFail /\ e.reply4 = "granted" -> w
      [] 1 \notin e.writesFail /\ e.reply4 = "rejected" -> HangupAs(w, "rejected", "EINVAL")
      [] 1 \notin e.writesFail /\ e.reply4 = "identd" -> HangupAs(w, "identd", "EACCES")
      [] OTHER -> HangupAs(w, "rejected for a reason", "ENOENT")

Socks4Answer(w, e) ==
    CASE 1 \in e.writesFail -> Hangup(w, "write failed")
      [] 1 \notin e.writesFail /\ e.reply4 = "short" -> Hangup(w, "read failed")
      [] 1 \notin e.writesFail /\ e.reply4 = "granted" -> w
      [] 1 \notin e.writesFail /\ e.reply4 = "rejected" -> HangupAs(w, "rejected", "EINVAL")
      [] 1 \notin e.writesFail /\ e.reply4 = "identd" -> HangupAs(w, "identd", "EACCES")
      [] OTHER -> HangupAs(w, "rejected for a reason", "ENOENT")

Socks4Connected(w, e) == IF w.sfd = NOSOCKET THEN Stop(w, "connect failed") ELSE Socks4Answer(w, e)

\* The older protocol takes the target's address, the newer one its name.
Socks4Connect(w, f, e) ==
    LET target == ResolveHostname(w, e.tries)
    IN  CASE ~f.gateway -> Refuse(w, "no gateway")
          [] f.gateway /\ f.type = "4" /\ ~target.found -> Stop(target.w, "could not resolve")
          [] f.gateway /\ f.type = "4A" /\ e.name = "long" -> Refuse(w, "too small")
          [] OTHER -> Socks4Connected(ConnectTo(w, e.addrs), e)

\* The answers are read whole or not; "version", "field" and "password": what is wrong in
\* them.  An answer of an unknown kind is a protocol error as well.
Socks5Greeted(w, e) ==
    CASE e.greeting = "accepted" /\ 2 \in e.writesFail -> HangupAs(w, "read failed", "EINVAL")
      [] e.greeting = "accepted" /\ 2 \notin e.writesFail /\ e.reply5 = "granted" -> w
      [] e.greeting = "accepted" /\ 2 \notin e.writesFail /\ e.reply5 # "granted" ->
            HangupAs(w, e.reply5, "EINVAL")
      [] OTHER -> HangupAs(w, e.greeting, "EINVAL")
Socks5Connected(w, e) ==
    CASE w.sfd = NOSOCKET -> Stop(w, "server unreachable")
      [] w.sfd # NOSOCKET /\ 1 \in e.writesFail -> Hangup(w, "write failed")
      [] OTHER -> Socks5Greeted(w, e)
Socks5Connect(w, f, e) ==
    IF ~f.gateway \/ e.name = "long" THEN Refuse(w, "not to be asked")
    ELSE Socks5Connected(ConnectTo(w, e.addrs), e)

\* A connection that is kept is taken first, if connections are shared and the client's own
\* is not tainted.
ForwardedConnect(w, f, e) ==
    CASE e.shares /\ ~e.tainted /\ e.kept \in w.open -> [w EXCEPT !.sfd = e.kept]
      [] ~(e.shares /\ ~e.tainted /\ e.kept \in w.open) /\ f.type = "none" -> ConnectTo(w, e.addrs)
      [] ~(e.shares /\ ~e.tainted /\ e.kept \in w.open) /\ f.type \in {"4", "4A"} ->
            Socks4Connect(w, f, e)
      [] OTHER -> Socks5Connect(w, f, e)

\* What chat does: it tries again while errno says so, whatever the socket.
Retries(w, f, es) ==
    LET again(r, e) == IF r.done THEN r
                       ELSE LET v == ForwardedConnect(r.w, f, e)
                            IN  [w |-> v, n |-> r.n + 1,
                                 done |-> v.errno # "EINVAL" \/ r.n >= MaxConnectRetries]
    IN  FoldLeft(again, [w |-> w, n |-> 0, done |-> FALSE], es)

\* The page the client gets without a connection; forwarding has none (see Pages).
PageFor(w, f) == CASE f.type # "none" -> "forwarding-failed"
                   [] f.type = "none" /\ w.errno = "EINVAL" -> "no-such-domain"
                   [] OTHER -> "connect-failed"

-----------------------------------------------------------------------------
(* Listening.                                                               *)

\* What becomes of an address to listen at: "no socket", "in use", "not ours" or "bound".
Bound(r, a) ==
    CASE r.done -> r
      [] ~r.done /\ a = "bound" -> [r EXCEPT !.done = TRUE, !.w = Opened(r.w)]
      [] ~r.done /\ a = "in use" -> [r EXCEPT !.done = TRUE, !.code = 3, !.w = CloseSocket(Opened(r.w))]
      [] ~r.done /\ a = "not ours" -> [r EXCEPT !.w = CloseSocket(Opened(r.w))]
      [] OTHER -> r
\* code: 0, or what is returned with its sign changed; a socket that cannot listen stays
\* open, and nobody knows it.
BindPort(w, addrs, listens) ==
    LET r == FoldLeft(Bound, [w |-> w, done |-> FALSE, code |-> 0], addrs)
    IN  CASE addrs = <<>> -> [w |-> w, code |-> 2]
          [] addrs # <<>> /\ ~r.done -> [w |-> r.w, code |-> 1]
          [] addrs # <<>> /\ r.done /\ r.code = 0 /\ ~listens ->
                [w |-> [r.w EXCEPT !.sfd = NOSOCKET], code |-> 1]
          [] OTHER -> [w |-> r.w, code |-> r.code]

\* A client is taken although its address cannot be told; not when memory is short, and
\* then its socket stays open.
AcceptConnection(w, arrives, memory, named) ==
    IF ~arrives THEN [w |-> w, ok |-> FALSE]
    ELSE [ok |-> memory, w |-> [Opened(w) EXCEPT !.ip = IF memory /\ named THEN "address" ELSE ""]]

\* The proxy's own address and name.  An address that cannot be told is left as an empty
\* text, and then no name is looked for.
GetHostInformation(hasAddress, addressNamed, nameFound) ==
    [ip |-> IF ~hasAddress THEN "none" ELSE IF addressNamed THEN "address" ELSE "",
     hostname |-> IF ~hasAddress \/ ~addressNamed THEN "none" ELSE IF nameFound THEN "name" ELSE ""]

\* Whether a kept connection can be used: nothing has come, or something that can be read.
SocketIsStillUsable(polled, came, readable) == polled /\ (~came \/ readable)

-----------------------------------------------------------------------------
(* Properties.                                                              *)

\* However a negotiation ends, after whatever other ones: a connection is handed over
\* exactly when there is one, every other socket it has opened is closed again and no
\* other is touched, and one that fails at a SOCKS server tells why (gateway.cpp 556-1055,
\* spsockets.cpp 129-312).
NothingLeaks(w, f, e) ==
    LET r == ForwardedConnect(w, f, e)
    IN  /\ r.open = w.open \cup ({r.sfd} \ {NOSOCKET})
        /\ r.sfd # NOSOCKET => r.sfd \notin w.open \/ r.sfd = e.kept
        /\ r.sfd = NOSOCKET /\ f.type # "none" => r.message # ""

\* Only the last of several attempts is left open, unless one that had succeeded was given
\* up because errno was that of the attempt before (seeks_proxy.cpp 1436-1443).
LastIsLeft(w, f, es) ==
    LET r == Retries(w, f, es)
    IN  (\A k \in DOMAIN es : \A i \in DOMAIN es[k].addrs : es[k].addrs[i] # "at once")
        /\ (\A k \in DOMAIN es : es[k].kept \notin w.open)
        => r.w.open = w.open \cup ({r.w.sfd} \ {NOSOCKET})

\* The proxy listens exactly when it says so; a socket is left over only when the kernel
\* refuses to listen at it (spsockets.cpp 588-770).
ListensOnce(w, addrs, listens) ==
    LET r == BindPort(w, addrs, listens)
    IN  /\ (r.code = 0) = (r.w.sfd # NOSOCKET)
        /\ listens => r.w.open = w.open \cup ({r.w.sfd} \ {NOSOCKET})
=============================================================================
