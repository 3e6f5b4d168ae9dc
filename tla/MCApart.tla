------------------------------- MODULE MCApart -------------------------------
(* Two components that stay apart from the others, one of them per behaviour: *)
(* the watch over the peers of the collaborative filter, and a client's own    *)
(* connection to its server when connections are not shared.                   *)
EXTENDS PeerMonitor, TLC

CONSTANTS p1, p2, Clients, Sockets, Dests, NSlots, Timeout, Latencies, MaxRetries

NodeResource == p1 :> "bsn" @@ p2 :> "sn"

VARIABLES part, cPc, sfd, own, ownLat, want, keep, einval, tries, slotSfd, slotDest, inUse,
    slotLat, age, peer, connected, lastLat, unread, monitor

connectionVars == <<cPc, sfd, own, ownLat, want, keep, einval, tries, slotSfd, slotDest, inUse,
                    slotLat, age, peer, connected, lastLat, unread, monitor>>

C == INSTANCE ReusableConnections
        WITH Threads <- Clients, pc <- cPc, alive <- connected, Sharing <- FALSE

BothInit == part \in {"peers", "connections"} /\ Init /\ C!Init

PeersPart(step) == part = "peers" /\ step /\ UNCHANGED <<part, connectionVars>>
ConnectionsPart(step) == part = "connections" /\ step /\ UNCHANGED <<part, vars>>

BothNext == PeersPart(Next) \/ ConnectionsPart(C!Next)
allVars == <<part, connectionVars, vars>>

BothFair ==
    /\ BothInit /\ [][BothNext]_allVars
    /\ \A t \in Threads : /\ WF_allVars(PeersPart(Call(t))) /\ WF_allVars(PeersPart(Settle(t)))
                          /\ SF_allVars(PeersPart(Register(t)))
    /\ WF_allVars(PeersPart(Sweep))
    /\ \A o \in Objects : WF_allVars(PeersPart(Age(o)))

\* A request goes to its own destination also without sharing (chat 1400-1460).
RightDestination == C!RightDestination
==============================================================================
