----------------------------- MODULE ClientList -----------------------------
(***************************************************************************)
(* The proxy's list of clients (seeks_proxy::listen_loop, sweeper::sweep). *)
(* The main thread accepts a connection, puts a client_state at the head   *)
(* of the list seeks_proxy::_clients and starts a thread that serves it;   *)
(* before the next connection it walks the list and frees the clients      *)
(* whose threads are gone.  No mutex protects the list.  The httpserv      *)
(* plugin runs the same walk, in its own thread, after every request.      *)
(***************************************************************************)
EXTENDS Naturals, FiniteSets

CONSTANTS
    Clients,        \* addresses of client_state objects
    Main,           \* the thread of listen_loop
    Servers,        \* the httpserv plugin's thread, when it is activated
    MaxClients,     \* max-client-connections, 0 for no limit
    HEAD,           \* the list's sentinel, seeks_proxy::_clients
    NONE            \* a null pointer

ASSUME ClientsAssumption ==
    HEAD \notin Clients /\ NONE \notin Clients \cup {HEAD} /\ MaxClients \in Nat

ASSUME ThreadsAssumption == Main \notin Servers

Sweepers == {Main} \cup Servers

VARIABLES
    next,       \* client_state::_next
    live,       \* the allocated client_state objects
    active,     \* those with CSP_FLAG_ACTIVE
    serving,    \* those whose thread is running
    pc,         \* where the main thread and each sweeper are
    last,       \* sweep's last_active
    cur,        \* sweep's csp
    counted,    \* sweep's active_threads
    csp,        \* the client listen_loop has in hand
    threads     \* listen_loop's active_threads

listVars == <<next, live, active, serving>>
sweepVars == <<last, cur, counted>>
loopVars == <<csp, threads>>
clientVars == <<listVars, pc, sweepVars, loopVars>>

ClientsTypeOK ==
    /\ next \in [Clients \cup {HEAD} -> Clients \cup {NONE}]
    /\ live \subseteq Clients
    /\ active \subseteq Clients
    /\ serving \subseteq Clients
    /\ pc \in [Sweepers -> {"sweep", "walk", "free", "new", "accept", "limit",
                            "link", "publish", "spawn"}]
    /\ last \in [Sweepers -> Clients \cup {HEAD}]
    /\ cur \in [Sweepers -> Clients \cup {NONE}]
    /\ counted \in [Sweepers -> Nat]
    /\ csp \in Clients \cup {NONE}
    /\ threads \in Nat

ClientsInit ==
    /\ next = [c \in Clients \cup {HEAD} |-> NONE]
    /\ live = {}
    /\ active = {}
    /\ serving = {}
    /\ pc = [s \in Sweepers |-> "sweep"]
    /\ last = [s \in Sweepers |-> HEAD]
    /\ cur = [s \in Sweepers |-> NONE]
    /\ counted = [s \in Sweepers |-> 0]
    /\ csp = NONE
    /\ threads = 0

Goto(s, place) == pc' = [pc EXCEPT ![s] = place]

(***************************************************************************)
(* The walk of sweeper::sweep over the list.                               *)
(***************************************************************************)
\* sweep is called: by listen_loop before it accepts a connection, by the
\* handlers of httpserv after they have answered a request.
BeginWalk(s) ==
    /\ pc[s] = "sweep"
    /\ last' = [last EXCEPT ![s] = HEAD]
    /\ cur' = [cur EXCEPT ![s] = next[HEAD]]
    /\ counted' = [counted EXCEPT ![s] = 0]
    /\ Goto(s, "walk")
    /\ UNCHANGED <<listVars, loopVars>>

Pass(s) ==
    /\ pc[s] = "walk"
    /\ cur[s] \in active
    /\ counted' = [counted EXCEPT ![s] = @ + 1]
    /\ last' = [last EXCEPT ![s] = cur[s]]
    /\ cur' = [cur EXCEPT ![s] = next[cur[s]]]
    /\ UNCHANGED <<listVars, pc, loopVars>>

Unlink(s) ==
    /\ pc[s] = "walk"
    /\ cur[s] \in Clients \ active
    /\ next' = [next EXCEPT ![last[s]] = next[cur[s]]]
    /\ Goto(s, "free")
    /\ UNCHANGED <<live, active, serving, sweepVars, loopVars>>

\* The client's members and the client are freed, and the walk goes on.
Free(s) ==
    /\ pc[s] = "free"
    /\ live' = live \ {cur[s]}
    /\ cur' = [cur EXCEPT ![s] = next[last[s]]]
    /\ Goto(s, "walk")
    /\ UNCHANGED <<next, active, serving, last, counted, loopVars>>

EndWalk(s) ==
    /\ pc[s] = "walk"
    /\ cur[s] = NONE
    /\ Goto(s, IF s = Main THEN "new" ELSE "sweep")
    /\ threads' = IF s = Main THEN counted[s] ELSE threads
    /\ UNCHANGED <<listVars, sweepVars, csp>>

(***************************************************************************)
(* listen_loop.                                                            *)
(***************************************************************************)
New ==
    /\ pc[Main] = "new"
    /\ \E c \in Clients \ live :
        /\ csp' = c
        /\ live' = live \cup {c}
        /\ next' = [next EXCEPT ![c] = NONE]
        /\ active' = active \cup {c}
    /\ Goto(Main, "accept")
    /\ UNCHANGED <<serving, sweepVars, threads>>

Accept ==
    /\ pc[Main] = "accept"
    /\ Goto(Main, "limit")
    /\ UNCHANGED <<listVars, sweepVars, loopVars>>

\* The client in hand is deleted, and the loop starts over.
Discard ==
    /\ live' = live \ {csp}
    /\ csp' = NONE
    /\ Goto(Main, "sweep")
    /\ UNCHANGED <<next, active, serving, sweepVars, threads>>

\* accept fails, or the ACL drops the connection.
Drop ==
    /\ pc[Main] = "accept"
    /\ Discard

\* Mutant: one connection more than the limit.
FullByOne == MaxClients # 0 /\ threads > MaxClients

Full == MaxClients # 0 /\ threads >= MaxClients

Reject ==
    /\ pc[Main] = "limit"
    /\ Full
    /\ Discard

Admit ==
    /\ pc[Main] = "limit"
    /\ ~Full
    /\ Goto(Main, "link")
    /\ UNCHANGED <<listVars, sweepVars, loopVars>>

\* Mutant: the new client does not lead to the ones before it.
LinkForgotten ==
    /\ pc[Main] = "link"
    /\ Goto(Main, "publish")
    /\ UNCHANGED <<listVars, sweepVars, loopVars>>

\* csp->_next = _clients._next.
Link ==
    /\ pc[Main] = "link"
    /\ next' = [next EXCEPT ![csp] = next[HEAD]]
    /\ Goto(Main, "publish")
    /\ UNCHANGED <<live, active, serving, sweepVars, loopVars>>

\* _clients._next = csp.
Publish ==
    /\ pc[Main] = "publish"
    /\ next' = [next EXCEPT ![HEAD] = csp]
    /\ Goto(Main, "spawn")
    /\ UNCHANGED <<live, active, serving, sweepVars, loopVars>>

Spawn ==
    /\ pc[Main] = "spawn"
    /\ serving' = serving \cup {csp}
    /\ csp' = NONE
    /\ Goto(Main, "sweep")
    /\ UNCHANGED <<next, live, active, sweepVars, threads>>

\* Mutant: the client of a thread that was not started stays active.
SpawnFailsActive ==
    /\ pc[Main] = "spawn"
    /\ csp' = NONE
    /\ Goto(Main, "sweep")
    /\ UNCHANGED <<listVars, sweepVars, threads>>

\* pthread_create fails: the client is left in the list, inactive.
SpawnFails ==
    /\ pc[Main] = "spawn"
    /\ active' = active \ {csp}
    /\ csp' = NONE
    /\ Goto(Main, "sweep")
    /\ UNCHANGED <<next, live, serving, sweepVars, threads>>

\* The end of serve: clearing the flag is the last thing it does.
Finish(c) ==
    /\ c \in serving
    /\ active' = active \ {c}
    /\ serving' = serving \ {c}
    /\ UNCHANGED <<next, live, pc, sweepVars, loopVars>>

----------------------------------------------------------------------------
Walk(s) == BeginWalk(s) \/ Pass(s) \/ Unlink(s) \/ Free(s) \/ EndWalk(s)

Listen ==
    \/ New \/ Accept \/ Drop \/ Reject \/ Admit
    \/ Link \/ Publish \/ Spawn \/ SpawnFails

ClientsNext ==
    \/ \E s \in Sweepers : Walk(s)
    \/ Listen
    \/ \E c \in Clients : Finish(c)

ClientsSpec == ClientsInit /\ [][ClientsNext]_clientVars

\* The walk and the loop run, and connections keep arriving: sweeping happens
\* before each one.  Threads end when they please.
ClientsFair == ClientsSpec /\ WF_clientVars(Walk(Main) \/ Listen)

(***************************************************************************)
(* Properties.                                                             *)
(***************************************************************************)
Walking(s) == pc[s] \in {"walk", "free"}

\* The sweeper looks at, changes and frees clients that are allocated, so no
\* client is freed twice (sweeper::sweep 118-158).
SweptIsLive ==
    \A s \in Sweepers : Walking(s) =>
        /\ cur[s] \in live \cup {NONE}
        /\ last[s] \in live \cup {HEAD}

\* A client is never freed while its thread runs (serve 2244, sweep 123).
ServedIsLive == serving \subseteq live

InHand(c) ==
    \/ c = csp /\ pc[Main] # "spawn"
    \/ \E s \in Sweepers : pc[s] = "free" /\ cur[s] = c

Members == {c \in live : ~InHand(c)}

Pointing(c) == {d \in Members \cup {HEAD} : next[d] = c}

\* A client that nobody has in hand is in the list at one place: the walk finds
\* it, and finds it once (listen_loop 2543, sweep 136).
ListedOnce ==
    \A c \in Members : Cardinality(Pointing(c)) = 1

\* What the walk reaches is allocated, no client is freed while its thread runs, and
\* none is lost (sweeper.cpp 94-158, seeks_proxy.cpp 2425-2655).
UsedIsLive == SweptIsLive /\ ServedIsLive /\ ListedOnce

\* No more clients are served at a time than max-client-connections, although
\* the count is taken before the connection is accepted (listen_loop 2528).
CapHolds == MaxClients # 0 => Cardinality(serving) <= MaxClients

\* A client whose thread has gone, or was never started, is freed (sweep 121,
\* "free data that was used by died threads"; listen_loop 2641-2653).
Reclaimed ==
    \A c \in Clients : (c \in live \ serving /\ c # csp) ~> (c \notin live)

=============================================================================
