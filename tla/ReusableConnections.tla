------------------------- MODULE ReusableConnections -------------------------
(***************************************************************************)
(* The table of server connections that the proxy keeps open between       *)
(* requests (gateway.cpp), and the client threads that use it (serve and   *)
(* chat of seeks_proxy.cpp).                                               *)
(*                                                                         *)
(* Every client thread holds at most one server socket, csp->_sfd, and a   *)
(* private description of where that socket leads, csp->_server_connection. *)
(* With connection-sharing it takes the socket from the table when it can  *)
(* and gives it back when its own client has no further request.  The      *)
(* kernel hands out descriptors: a closed number may come back at once for *)
(* another connection, which is what makes a forgotten table entry         *)
(* dangerous.                                                              *)
(*                                                                         *)
(* Every function of gateway.cpp that touches the table does so inside one *)
(* section of _connection_reuse_mutex that blocks on nothing else, so each *)
(* section is one step here.  get_reusable_connection and                  *)
(* remember_connection have two sections each, and are two steps.          *)
(***************************************************************************)
EXTENDS Integers, FiniteSets, FiniteSetsExt

CONSTANTS
    Threads,    \* the client threads (one per accepted client)
    Sockets,    \* the descriptors the kernel gives to server connections
    Dests,      \* destinations: host and port with the forwarding settings
    NSlots,     \* the length of the table (MAX_REUSABLE_CONNECTIONS)
    Timeout,    \* the keep-alive timeout of a connection, in ticks
    Latencies,  \* how long an answer may take, in ticks
    MaxRetries, \* forwarded-connect-retries
    Sharing,    \* connection-sharing
    NONE        \* no socket (SP_INVALID_SOCKET), no destination

ASSUME NoneAssumption == NONE \notin Sockets \union Dests
ASSUME SlotsAssumption == NSlots \in Nat \ {0}
ASSUME TimesAssumption == Timeout \in Nat \ {0} /\ Latencies \subseteq Nat /\ 0 \in Latencies
ASSUME RetriesAssumption == MaxRetries \in Nat
ASSUME SharingAssumption == Sharing \in BOOLEAN

VARIABLES
    pc,        \* where each thread is in serve and chat
    sfd,       \* csp->_sfd
    own,       \* the destination in csp->_server_connection, NONE when closed
    ownLat,    \* its _response_received - _request_sent
    want,      \* the destination of the request being served
    keep,      \* SERVER_SOCKET_TAINTED set, else SERVER_CONNECTION_KEEP_ALIVE
               \* set, else neither: "tainted", "yes", "no"
    einval,    \* errno = EINVAL
    tries,     \* forwarded_connect_retries
    slotSfd, slotDest, inUse, slotLat,  \* _reusable_connection[slot]
    age,       \* now - _timestamp of the slot, while it waits
    peer,      \* where each open descriptor really leads, NONE when closed
    alive,     \* the server has not hung up on the descriptor
    lastLat,   \* how long the last answer on the descriptor took
    unread,    \* part of an answer on the descriptor has not been read, and
               \* chat has misjudged where that answer ends: "yes", "misjudged"
    monitor    \* monitor_thread_running

own_vars  == <<sfd, own, ownLat>>
req_vars  == <<want, keep, einval, tries>>
slot_vars == <<slotSfd, slotDest, inUse, slotLat, age>>
net_vars  == <<peer, alive, lastLat, unread>>
vars == <<pc, own_vars, req_vars, slot_vars, net_vars, monitor>>

Slots == 0 .. NSlots - 1

Labels == {"off", "request", "clean", "scan", "connect", "exchange", "header",
           "body", "decide", "unuse", "remember", "watch", "wait", "leave", "forget", "close"}

TypeOK ==
    /\ pc \in [Threads -> Labels]
    /\ sfd \in [Threads -> Sockets \union {NONE}]
    /\ own \in [Threads -> Dests \union {NONE}]
    /\ ownLat \in [Threads -> Latencies]
    /\ want \in [Threads -> Dests \union {NONE}]
    /\ keep \in [Threads -> {"no", "yes", "tainted"}]
    /\ einval \in [Threads -> BOOLEAN]
    /\ tries \in [Threads -> 0 .. MaxRetries]
    /\ slotSfd \in [Slots -> Sockets \union {NONE}]
    /\ slotDest \in [Slots -> Dests \union {NONE}]
    /\ inUse \in [Slots -> BOOLEAN]
    /\ slotLat \in [Slots -> Latencies]
    /\ age \in [Slots -> 0 .. Timeout + 1]
    /\ peer \in [Sockets -> Dests \union {NONE}]
    /\ alive \in [Sockets -> BOOLEAN]
    /\ lastLat \in [Sockets -> Latencies]
    /\ unread \in [Sockets -> {"no", "yes", "misjudged"}]
    /\ monitor \in BOOLEAN

----------------------------------------------------------------------------
(* The table.                                                              *)

\* A remembered connection that nobody uses.
Idle(s) == ~inUse[s] /\ slotSfd[s] # NONE

SlotsOf(f) == {s \in Slots : slotSfd[s] = f}

\* initialize_reusable_connections: every slot is marked closed.
InitSlots ==
    /\ slotSfd = [s \in Slots |-> NONE]
    /\ slotDest = [s \in Slots |-> NONE]
    /\ inUse = [s \in Slots |-> FALSE]
    /\ slotLat = [s \in Slots |-> 0]
    /\ age = [s \in Slots |-> 0]

\* Mutant: mark_connection_closed leaves _in_use as it was.
MarkClosedInUse(S) ==
    /\ slotSfd' = [s \in Slots |-> IF s \in S THEN NONE ELSE slotSfd[s]]
    /\ slotDest' = [s \in Slots |-> IF s \in S THEN NONE ELSE slotDest[s]]
    /\ slotLat' = [s \in Slots |-> IF s \in S THEN 0 ELSE slotLat[s]]
    /\ age' = [s \in Slots |-> IF s \in S THEN 0 ELSE age[s]]
    /\ UNCHANGED inUse

\* mark_connection_closed on every slot of S.
MarkClosed(S) ==
    /\ slotSfd' = [s \in Slots |-> IF s \in S THEN NONE ELSE slotSfd[s]]
    /\ slotDest' = [s \in Slots |-> IF s \in S THEN NONE ELSE slotDest[s]]
    /\ inUse' = [s \in Slots |-> IF s \in S THEN FALSE ELSE inUse[s]]
    /\ slotLat' = [s \in Slots |-> IF s \in S THEN 0 ELSE slotLat[s]]
    /\ age' = [s \in Slots |-> IF s \in S THEN 0 ELSE age[s]]

\* The idle connections that timed out or that the server closed.
Unusable == {s \in Slots : Idle(s) /\ (\/ Timeout < age[s] + slotLat[s]
                                       \/ ~alive[slotSfd[s]])}

\* The descriptors of a set of slots are closed.
CloseSockets(S) ==
    peer' = [f \in Sockets |-> IF \E s \in S : slotSfd[s] = f THEN NONE ELSE peer[f]]

close_unusable_connections ==
    /\ CloseSockets(Unusable)
    /\ MarkClosed(Unusable)
    /\ UNCHANGED <<alive, lastLat, unread>>

\* Mutant: any open connection will do.
MatchesAny(d, e) == d # NONE

\* What the descriptions of a connection are compared on: the forwarding
\* settings, the port and the host, all of them part of the destination.
connection_destination_matches(d, e) == d = e

\* Mutant: get_reusable_connection does not look at _in_use.
MatchingInUse(d) == {s \in Slots : slotSfd[s] # NONE
                                    /\ connection_destination_matches(slotDest[s], d)}

\* The slots get_reusable_connection may take for destination d.
Matching(d) == {s \in Slots : Idle(s) /\ connection_destination_matches(slotDest[s], d)}

FreeSlots == {s \in Slots : slotSfd[s] = NONE}

close_socket(f) == /\ peer' = [peer EXCEPT ![f] = NONE]
                   /\ UNCHANGED <<alive, lastLat, unread>>

Goto(t, label) == pc' = [pc EXCEPT ![t] = label]

----------------------------------------------------------------------------
(* chat.                                                                    *)

\* listen_loop accepts a client and starts serve for it: no server socket,
\* no flag but ACTIVE.
Accept(t) ==
    /\ pc[t] = "off"
    /\ Goto(t, "request")
    /\ UNCHANGED <<own_vars, req_vars, slot_vars, net_vars, monitor>>

\* chat returns before it asks a server: no request or a bad one came, or a
\* plugin or a cgi page answered it.  The flags stay cleared.
NoServer(t) ==
    /\ pc[t] = "request"
    /\ Goto(t, "decide")
    /\ UNCHANGED <<own_vars, req_vars, slot_vars, net_vars, monitor>>

\* Bytes that the client sent behind its request taint the server socket from
\* the start (parse_client_request).
ReadRequest(t, d, rest) ==
    /\ want' = [want EXCEPT ![t] = d]
    /\ keep' = [keep EXCEPT ![t] = IF rest THEN "tainted" ELSE @]

\* forwarded_connect looks into the table first, unless the socket is tainted.
ForwardLabel(flags) == IF Sharing /\ flags # "tainted" THEN "clean" ELSE "connect"

\* The thread's own socket is still usable and leads to the destination.
ReuseOwn(t, d, rest) ==
    /\ pc[t] = "request"
    /\ sfd[t] # NONE /\ alive[sfd[t]] /\ connection_destination_matches(own[t], d)
    /\ ReadRequest(t, d, rest)
    /\ Goto(t, "exchange")
    /\ UNCHANGED <<own_vars, einval, tries, slot_vars, net_vars, monitor>>

\* It is not: the socket is closed and the private description cleared (the
\* table is not told), then forwarded_connect is called.
Reconnect(t, d, rest) ==
    /\ pc[t] = "request"
    /\ ~ (sfd[t] # NONE /\ alive[sfd[t]] /\ connection_destination_matches(own[t], d))
    /\ IF sfd[t] # NONE
         THEN /\ close_socket(sfd[t])
              /\ own' = [own EXCEPT ![t] = NONE]
              /\ ownLat' = [ownLat EXCEPT ![t] = 0]
         ELSE UNCHANGED <<net_vars, own, ownLat>>
    /\ sfd' = [sfd EXCEPT ![t] = NONE]
    /\ ReadRequest(t, d, rest)
    /\ tries' = [tries EXCEPT ![t] = 0]
    /\ Goto(t, ForwardLabel(keep'[t]))
    /\ UNCHANGED <<einval, slot_vars, monitor>>

\* The loop around forwarded_connect: it asks again while errno is EINVAL and
\* retries are left, whatever the call has returned.
TryAgain(t, isEinval) == isEinval /\ tries[t] < MaxRetries

\* The end of the loop for a socket f: save_connection_destination, or
\* another attempt that overwrites csp->_sfd.
Connected(t, f, isEinval) ==
    /\ einval' = [einval EXCEPT ![t] = isEinval]
    /\ IF TryAgain(t, isEinval)
         THEN /\ tries' = [tries EXCEPT ![t] = @ + 1]
              /\ Goto(t, ForwardLabel(keep[t]))
              /\ UNCHANGED own_vars
         ELSE /\ sfd' = [sfd EXCEPT ![t] = f]
              /\ own' = [own EXCEPT ![t] = want[t]]
              /\ Goto(t, "exchange")
              /\ UNCHANGED <<tries, ownLat>>

\* get_reusable_connection, first section: close_unusable_connections.
Clean(t) ==
    /\ pc[t] = "clean"
    /\ close_unusable_connections
    /\ Goto(t, "scan")
    /\ UNCHANGED <<own_vars, req_vars, monitor>>

\* Second section: the first idle slot for the destination is taken.  Nothing
\* here sets errno.
TakeSlot(t) ==
    /\ pc[t] = "scan"
    /\ Matching(want[t]) # {}
    /\ LET s == Min(Matching(want[t])) IN
         /\ inUse' = [inUse EXCEPT ![s] = TRUE]
         /\ age' = [age EXCEPT ![s] = 0]
         /\ Connected(t, slotSfd[s], einval[t])
    /\ UNCHANGED <<want, keep, slotSfd, slotDest, slotLat, net_vars, monitor>>

NoSlot(t) ==
    /\ pc[t] = "scan"
    /\ Matching(want[t]) = {}
    /\ Goto(t, "connect")
    /\ UNCHANGED <<own_vars, req_vars, slot_vars, net_vars, monitor>>

\* connect_to, socks4_connect, socks5_connect: a new connection on any
\* descriptor that is free.
Connect(t) ==
    /\ pc[t] = "connect"
    /\ \E f \in Sockets :
         /\ peer[f] = NONE
         /\ peer' = [peer EXCEPT ![f] = want[t]]
         /\ alive' = [alive EXCEPT ![f] = TRUE]
         /\ lastLat' = [lastLat EXCEPT ![f] = 0]
         /\ unread' = [unread EXCEPT ![f] = "no"]
         /\ Connected(t, f, FALSE)
    /\ UNCHANGED <<want, keep, slot_vars, monitor>>

\* The attempt fails, with errno EINVAL or another; after the last attempt
\* the client gets an error page and chat returns.
ConnectFails(t, isEinval) ==
    /\ pc[t] = "connect"
    /\ einval' = [einval EXCEPT ![t] = isEinval]
    /\ IF TryAgain(t, isEinval)
         THEN /\ tries' = [tries EXCEPT ![t] = @ + 1]
              /\ Goto(t, ForwardLabel(keep[t]))
         ELSE /\ Goto(t, "decide")
              /\ UNCHANGED tries
    /\ UNCHANGED <<own_vars, want, keep, slot_vars, net_vars, monitor>>

\* The request is written to the server.  A failed write ends chat before any
\* flag is set.  Once the end of an answer has been misjudged, the descriptor
\* stays so until it is closed.
SendRequest(t) ==
    /\ pc[t] = "exchange"
    /\ unread' = [unread EXCEPT ![sfd[t]] = IF @ = "no" THEN "yes" ELSE @]
    /\ Goto(t, "header")
    /\ UNCHANGED <<own_vars, req_vars, slot_vars, peer, alive, lastLat, monitor>>

SendFails(t) ==
    /\ pc[t] = "exchange"
    /\ Goto(t, "decide")
    /\ UNCHANGED <<own_vars, req_vars, slot_vars, net_vars, monitor>>

\* The server's header is read lat ticks later; it says, or its version
\* implies, whether the connection is kept alive, which a tainted one is not.
ReadHeader(t, lat, keepalive) ==
    /\ pc[t] = "header"
    /\ ownLat' = [ownLat EXCEPT ![t] = lat]
    /\ lastLat' = [lastLat EXCEPT ![sfd[t]] = lat]
    /\ keep' = [keep EXCEPT ![t] = IF keepalive /\ @ = "no" THEN "yes" ELSE @]
    /\ Goto(t, "body")
    /\ UNCHANGED <<sfd, own, want, einval, tries, slot_vars, peer, alive, unread, monitor>>

\* No answer in time, none that can be read, an invalid one, or a tunnel that
\* ends.  mark_server_socket_tainted finds no keep-alive flag to go with.
HeaderFails(t) ==
    /\ pc[t] = "header"
    /\ Goto(t, "decide")
    /\ UNCHANGED <<own_vars, req_vars, slot_vars, net_vars, monitor>>

\* The whole answer has been read: as much as was announced.
ReadBody(t) ==
    /\ pc[t] = "body"
    /\ unread' = [unread EXCEPT ![sfd[t]] = IF @ = "yes" THEN "no" ELSE @]
    /\ Goto(t, "decide")
    /\ UNCHANGED <<own_vars, req_vars, slot_vars, peer, alive, lastLat, monitor>>

\* chat takes the answer for complete although it is not, and taints nothing: a
\* read of a chunked answer happens to end in 0 CR LF CR LF, or byte_count is
\* ahead of what was read (Exchange models both).
StopEarly(t) ==
    /\ pc[t] = "body"
    /\ unread' = [unread EXCEPT ![sfd[t]] = "misjudged"]
    /\ Goto(t, "decide")
    /\ UNCHANGED <<own_vars, req_vars, slot_vars, peer, alive, lastLat, monitor>>

\* The server closes the connection before that; an answer of unknown length
\* ends so, and nothing is tainted.
BodyEnds(t) ==
    /\ pc[t] = "body"
    /\ ~alive[sfd[t]]
    /\ Goto(t, "decide")
    /\ UNCHANGED <<own_vars, req_vars, slot_vars, net_vars, monitor>>

\* Mutant: an error path of chat returns without mark_server_socket_tainted.
BodyFailsUntainted(t) ==
    /\ pc[t] = "body"
    /\ Goto(t, "decide")
    /\ UNCHANGED <<own_vars, req_vars, slot_vars, net_vars, monitor>>

\* A timeout, a failed read or write, a client that hung up, or a length that
\* is not the announced one: the server socket is tainted.
BodyFails(t) ==
    /\ pc[t] = "body"
    /\ keep' = [keep EXCEPT ![t] = IF @ = "yes" THEN "tainted" ELSE @]
    /\ Goto(t, "decide")
    /\ UNCHANGED <<own_vars, want, einval, tries, slot_vars, net_vars, monitor>>

----------------------------------------------------------------------------
(* serve.                                                                   *)

\* The condition under which serve keeps the server socket open.
ContinueChatting(t) == keep[t] = "yes" /\ sfd[t] # NONE /\ alive[sfd[t]]

\* The client's next request arrives in time: the flags are reset.
NextRequest(t) ==
    /\ pc[t] = "decide"
    /\ ContinueChatting(t)
    /\ keep' = [keep EXCEPT ![t] = "no"]
    /\ Goto(t, "request")
    /\ UNCHANGED <<own_vars, want, einval, tries, slot_vars, net_vars, monitor>>

\* No request arrives; with connection-sharing the open socket goes to the
\* table.  (The server may have hung up while the client was waited for.)
Share(t) ==
    /\ pc[t] = "decide"
    /\ ContinueChatting(t) /\ Sharing
    /\ Goto(t, "unuse")
    /\ UNCHANGED <<own_vars, req_vars, slot_vars, net_vars, monitor>>

\* The socket is not kept: serve leaves its loop and closes it.
DontKeep(t) ==
    /\ pc[t] = "decide"
    /\ ~ (ContinueChatting(t) /\ Sharing)
    /\ own' = [own EXCEPT ![t] = NONE]
    /\ ownLat' = [ownLat EXCEPT ![t] = 0]
    /\ Goto(t, IF sfd[t] # NONE THEN "forget" ELSE "close")
    /\ UNCHANGED <<sfd, req_vars, slot_vars, net_vars, monitor>>

\* Mutant: serve keeps csp->_sfd after it has given the socket back.
UnuseKept(t, a) ==
    /\ pc[t] = "unuse"
    /\ SlotsOf(sfd[t]) # {}
    /\ LET s == Min(SlotsOf(sfd[t])) IN
         /\ inUse' = [inUse EXCEPT ![s] = FALSE]
         /\ age' = [age EXCEPT ![s] = a]
    /\ Goto(t, "watch")
    /\ UNCHANGED <<own_vars, req_vars, slotSfd, slotDest, slotLat, net_vars, monitor>>

\* remember_connection, first section: mark_connection_unused.  When the
\* client was waited for, the slot's timestamp is already Timeout old.
Unuse(t, a) ==
    /\ pc[t] = "unuse"
    /\ SlotsOf(sfd[t]) # {}
    /\ LET s == Min(SlotsOf(sfd[t])) IN
         /\ inUse' = [inUse EXCEPT ![s] = FALSE]
         /\ age' = [age EXCEPT ![s] = a]
    /\ sfd' = [sfd EXCEPT ![t] = NONE]
    /\ Goto(t, "watch")
    /\ UNCHANGED <<own, ownLat, req_vars, slotSfd, slotDest, slotLat, net_vars, monitor>>

NotRemembered(t) ==
    /\ pc[t] = "unuse"
    /\ SlotsOf(sfd[t]) = {}
    /\ Goto(t, "remember")
    /\ UNCHANGED <<own_vars, req_vars, slot_vars, net_vars, monitor>>

\* The slot whose _request_sent and _response_received remember_connection
\* writes: the expression has no index, so it is always the first.
LatencySlot(s) == 0

\* Second section: the connection goes to the first free slot.
Remember(t, a) ==
    /\ pc[t] = "remember"
    /\ FreeSlots # {}
    /\ LET s == Min(FreeSlots) IN
         /\ slotSfd' = [slotSfd EXCEPT ![s] = sfd[t]]
         /\ slotDest' = [slotDest EXCEPT ![s] = want[t]]
         /\ inUse' = [inUse EXCEPT ![s] = FALSE]
         /\ age' = [age EXCEPT ![s] = a]
         /\ slotLat' = [slotLat EXCEPT ![LatencySlot(s)] = ownLat[t]]
    /\ sfd' = [sfd EXCEPT ![t] = NONE]
    /\ Goto(t, "watch")
    /\ UNCHANGED <<own, ownLat, req_vars, net_vars, monitor>>

\* No slot is free: the connection is closed.
NoRoom(t) ==
    /\ pc[t] = "remember"
    /\ FreeSlots = {}
    /\ close_socket(sfd[t])
    /\ sfd' = [sfd EXCEPT ![t] = NONE]
    /\ Goto(t, "watch")
    /\ UNCHANGED <<own, ownLat, req_vars, slot_vars, monitor>>

\* The thread becomes the monitor unless one is running.
Watch(t) ==
    /\ pc[t] = "watch"
    /\ monitor' = TRUE
    /\ Goto(t, IF monitor THEN "close" ELSE "wait")
    /\ own' = [own EXCEPT ![t] = IF monitor THEN NONE ELSE @]
    /\ ownLat' = [ownLat EXCEPT ![t] = IF monitor THEN 0 ELSE @]
    /\ UNCHANGED <<sfd, req_vars, slot_vars, net_vars>>

\* Mutant: the monitor makes one pass and leaves.
MonitorOnce(t) ==
    /\ pc[t] = "wait"
    /\ close_unusable_connections
    /\ Goto(t, "leave")
    /\ UNCHANGED <<own_vars, req_vars, monitor>>

\* wait_for_alive_connections: one pass, then sleep while idle connections
\* are left.
Monitor(t) ==
    /\ pc[t] = "wait"
    /\ close_unusable_connections
    /\ Goto(t, IF {s \in Slots : Idle(s)} \subseteq Unusable THEN "leave" ELSE "wait")
    /\ UNCHANGED <<own_vars, req_vars, monitor>>

\* monitor_thread_running is reset and serve ends.
Leave(t) ==
    /\ pc[t] = "leave"
    /\ monitor' = FALSE
    /\ own' = [own EXCEPT ![t] = NONE]
    /\ ownLat' = [ownLat EXCEPT ![t] = 0]
    /\ Goto(t, "close")
    /\ UNCHANGED <<sfd, req_vars, slot_vars, net_vars>>

\* forget_connection, before the socket is closed.
Forget(t) ==
    /\ pc[t] = "forget"
    /\ IF SlotsOf(sfd[t]) # {}
         THEN MarkClosed({Min(SlotsOf(sfd[t]))})
         ELSE UNCHANGED slot_vars
    /\ Goto(t, "close")
    /\ UNCHANGED <<own_vars, req_vars, net_vars, monitor>>

\* The server socket and the client's are closed, ACTIVE is cleared and the
\* thread ends; the next client gets a new client_state.
Close(t) ==
    /\ pc[t] = "close"
    /\ IF sfd[t] # NONE THEN close_socket(sfd[t]) ELSE UNCHANGED net_vars
    /\ sfd' = [sfd EXCEPT ![t] = NONE]
    /\ want' = [want EXCEPT ![t] = NONE]
    /\ keep' = [keep EXCEPT ![t] = "no"]
    /\ einval' = [einval EXCEPT ![t] = FALSE]
    /\ tries' = [tries EXCEPT ![t] = 0]
    /\ Goto(t, "off")
    /\ UNCHANGED <<own, ownLat, slot_vars, monitor>>

----------------------------------------------------------------------------
(* The world.                                                               *)

\* A server closes a connection.
HangUp(f) ==
    /\ peer[f] # NONE /\ alive[f]
    /\ alive' = [alive EXCEPT ![f] = FALSE]
    /\ UNCHANGED <<pc, own_vars, req_vars, slot_vars, peer, lastLat, unread,
                   monitor>>

\* Time passes for the connections that wait in the table.  Past
\* Timeout + 1 the age makes no further difference.
Tick ==
    /\ \E s \in Slots : Idle(s) /\ age[s] <= Timeout
    /\ age' = [s \in Slots |-> IF Idle(s) /\ age[s] <= Timeout THEN age[s] + 1 ELSE age[s]]
    /\ UNCHANGED <<pc, own_vars, req_vars, slotSfd, slotDest, inUse, slotLat, net_vars,
                   monitor>>

----------------------------------------------------------------------------
Init ==
    /\ pc = [t \in Threads |-> "off"]
    /\ sfd = [t \in Threads |-> NONE]
    /\ own = [t \in Threads |-> NONE]
    /\ ownLat = [t \in Threads |-> 0]
    /\ want = [t \in Threads |-> NONE]
    /\ keep = [t \in Threads |-> "no"]
    /\ einval = [t \in Threads |-> FALSE]
    /\ tries = [t \in Threads |-> 0]
    /\ InitSlots
    /\ peer = [f \in Sockets |-> NONE]
    /\ alive = [f \in Sockets |-> FALSE]
    /\ lastLat = [f \in Sockets |-> 0]
    /\ unread = [f \in Sockets |-> "no"]
    /\ monitor = FALSE

\* What a thread does once its client has sent what it sends.
Serve(t) ==
    \/ Clean(t) \/ TakeSlot(t) \/ NoSlot(t) \/ Connect(t)
    \/ \E b \in BOOLEAN : ConnectFails(t, b)
    \/ SendRequest(t) \/ SendFails(t) \/ HeaderFails(t)
    \/ \E lat \in Latencies, b \in BOOLEAN : ReadHeader(t, lat, b)
    \/ ReadBody(t) \/ StopEarly(t) \/ BodyEnds(t) \/ BodyFails(t)
    \/ Share(t) \/ DontKeep(t)
    \/ \E a \in {0, Timeout} : Unuse(t, a) \/ Remember(t, a)
    \/ NotRemembered(t) \/ NoRoom(t)
    \/ Watch(t) \/ Monitor(t) \/ Leave(t) \/ Forget(t) \/ Close(t)

\* What a client sends, or fails to send.
Client(t) ==
    \/ Accept(t) \/ NoServer(t) \/ NextRequest(t)
    \/ \E d \in Dests, rest \in BOOLEAN : ReuseOwn(t, d, rest) \/ Reconnect(t, d, rest)

Next ==
    \/ \E t \in Threads : Serve(t) \/ Client(t)
    \/ \E f \in Sockets : HangUp(f)
    \/ Tick

Spec == Init /\ [][Next]_vars

\* The scheduler runs every thread that can run (the request a client has
\* begun is read or given up), and time passes.
FairSpec == Spec /\ \A t \in Threads : WF_vars(Serve(t) \/ NoServer(t)) /\ WF_vars(Tick)

----------------------------------------------------------------------------
(* Properties.                                                              *)

\* No two client threads hold the same server socket: an answer can never be
\* read by another client's thread (csp->_sfd, chat and serve).
SocketHeldOnce ==
    \A t, u \in Threads : sfd[t] = sfd[u] /\ sfd[t] # NONE => t = u

\* A remembered socket that is up for reuse is open and held by no thread, so
\* neither close_unusable_connections nor get_reusable_connection can take it
\* from under a client.
IdleIsUnheld ==
    \A s \in Slots : Idle(s) =>
        /\ peer[slotSfd[s]] # NONE
        /\ \A t \in Threads : sfd[t] # slotSfd[s]

\* A socket is remembered in at most one slot: forget_connection and
\* mark_connection_unused stop at the first one they find.
OneSlotPerSocket ==
    \A s, r \in Slots : slotSfd[s] = slotSfd[r] /\ slotSfd[s] # NONE => s = r

\* The assertions on _in_use of remember_connection (a free slot is not in
\* use), forget_connection and mark_connection_unused (the caller's slot is).
AssertsHold ==
    /\ \A s \in Slots : slotSfd[s] = NONE => ~inUse[s]
    /\ \A t \in Threads : pc[t] \in {"unuse", "forget"} =>
           \A s \in SlotsOf(sfd[t]) : inUse[s]

\* At most one thread is the monitor, and the flag says whether there is one
\* (monitor_thread_running in serve).
OneMonitor ==
    /\ \A t, u \in Threads : pc[t] \in {"wait", "leave"} /\ pc[u] \in {"wait", "leave"} => t = u
    /\ monitor <=> \E t \in Threads : pc[t] \in {"wait", "leave"}

\* The request goes to the server it is for: the socket that chat writes the
\* request to leads to the destination of the request.
RightDestination ==
    \A t \in Threads : pc[t] = "exchange" => peer[sfd[t]] = want[t]

\* No request is written to a socket on which chat knows that part of an earlier
\* answer is still to be read, "reusing the socket would lead to garbage"
\* (mark_server_socket_tainted), whichever of the error paths left it there.
\* The only rest a request can meet is that of an answer whose end chat itself
\* has misjudged (StopEarly), which the code does not exclude.
CleanReuse ==
    \A t \in Threads : pc[t] = "exchange" => unread[sfd[t]] # "yes" \/ ~alive[sfd[t]]

\* The latency that remember_connection notes for a connection, and that
\* close_unusable_connections adds to its age, is that of its last answer.
LatencyIsOwn ==
    [][\A s \in Slots : slotSfd[s] = NONE /\ slotSfd'[s] # NONE
                            => slotLat'[s] = lastLat[slotSfd'[s]]]_vars

\* Where a thread certainly has a server socket, and where it has none.
WithSocket == {"exchange", "header", "body", "unuse", "remember", "forget"}
WithoutSocket == {"off", "clean", "scan", "connect", "watch", "wait", "leave"}

\* The part of the inductive invariant about single threads: its socket is
\* open, a socket that is about to be remembered is in no slot, and a thread
\* connects for a request.
ThreadInv ==
    \A t \in Threads :
        /\ pc[t] \in WithSocket => sfd[t] # NONE
        /\ pc[t] \in WithoutSocket => sfd[t] = NONE
        /\ sfd[t] # NONE => peer[sfd[t]] # NONE
        /\ pc[t] = "remember" => SlotsOf(sfd[t]) = {}
        /\ pc[t] \in {"clean", "scan", "connect"} => want[t] # NONE

\* An open socket with an unread answer, none of them misjudged, is in the hands
\* of a thread that reads it or will not keep it, and never idle.
UnreadInv ==
    /\ \A t \in Threads :
         /\ sfd[t] # NONE /\ unread[sfd[t]] = "yes" /\ alive[sfd[t]] =>
              \/ pc[t] \in {"header", "body", "forget", "close"}
              \/ pc[t] = "decide" /\ keep[t] # "yes"
         /\ pc[t] \in {"off", "request", "clean", "scan", "connect", "exchange", "header"}
              => keep[t] # "yes"
    /\ \A s \in Slots : Idle(s) /\ alive[slotSfd[s]] => unread[slotSfd[s]] # "yes"

\* Sockets, slots and threads; the monitor and the answers apart.
SocketInv ==
    /\ SocketHeldOnce /\ IdleIsUnheld /\ OneSlotPerSocket
    /\ \A s \in Slots : slotSfd[s] = NONE => ~inUse[s]
    /\ ThreadInv

PoolInv == SocketInv /\ OneMonitor /\ UnreadInv

\* Without connection-sharing no thread comes near the table, and what a
\* thread notes about its socket is true.
UnsharedInv ==
    \A t \in Threads :
        /\ pc[t] \in {"off", "request", "connect", "exchange", "header", "body", "decide",
                      "forget", "close"}
        /\ pc[t] \in {"request", "exchange", "header", "body", "decide"} /\ sfd[t] # NONE
             => own[t] = peer[sfd[t]]
        /\ pc[t] = "exchange" => want[t] = own[t]

\* While a monitor waits, every idle connection is closed, or taken for
\* another request, some day (wait_for_alive_connections).
WatchedIsClosed ==
    \A s \in Slots, t \in Threads : Idle(s) /\ pc[t] = "wait" ~> ~Idle(s)

\* Every idle connection is closed, or taken, some day.
IdleIsClosed ==
    \A s \in Slots : Idle(s) ~> ~Idle(s)
=============================================================================
