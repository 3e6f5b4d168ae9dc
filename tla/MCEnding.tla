------------------------------ MODULE MCEnding ------------------------------
(* What must end: sweeping and reclaiming the contexts of websearch, and the *)
(* watch over the proxy's idle connections; one of them per behaviour.       *)
EXTENDS QueryContexts

CONSTANTS Clients, Sockets, Dests, NSlots, Timeout, Latencies, MaxRetries, Sharing

VARIABLES part,
    cPc, sfd, own, ownLat, want, keep, einval, tries, slotSfd, slotDest, inUse, slotLat, age,
    peer, connected, lastLat, unread, monitor

connectionVars == <<cPc, sfd, own, ownLat, want, keep, einval, tries, slotSfd, slotDest, inUse,
                    slotLat, age, peer, connected, lastLat, unread, monitor>>
allVars == <<part, vars, connectionVars>>

C == INSTANCE ReusableConnections WITH Threads <- Clients, pc <- cPc, alive <- connected

BothInit == part \in {"contexts", "connections"} /\ Init /\ C!Init

ContextsPart(step) == part = "contexts" /\ step /\ UNCHANGED <<part, connectionVars>>
ConnectionsPart(step) == part = "connections" /\ step /\ UNCHANGED <<part, vars>>

BothNext == ContextsPart(Next) \/ ConnectionsPart(C!Next)

BothFair ==
    /\ BothInit /\ [][BothNext]_allVars
    /\ \A t \in Threads : /\ WF_allVars(ContextsPart(ThreadStep(t)))
                          /\ SF_allVars(ContextsPart(New(t)))
                          /\ SF_allVars(ContextsPart(Undust(t)))
    /\ WF_allVars(ContextsPart(SweepStep))
    /\ \A t \in Clients : WF_allVars(ConnectionsPart(C!Serve(t) \/ C!NoServer(t)))
    /\ WF_allVars(ConnectionsPart(C!Tick))

\* While a monitor waits, every idle connection is closed, or taken for another request,
\* some day (wait_for_alive_connections).
WatchedIsClosed == C!WatchedIsClosed
=============================================================================
