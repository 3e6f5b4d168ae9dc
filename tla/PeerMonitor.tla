---------------------------- MODULE PeerMonitor ----------------------------
(***************************************************************************)
(* Watching the peers of the collaborative filter (src/plugins/cf/         *)
(* peer_list.cpp, rank_estimators.cpp).  A personalisation runs one thread *)
(* for each peer whose status is PEER_OK.  A thread that fails counts the  *)
(* failure in the peer, and above dead-peer-retries it marks the peer dead *)
(* and makes a dead_peer object: listed in _dpl, and registered with the   *)
(* sweeper, whose passes test the peer again and, when it answers, destroy *)
(* the object; the destructor sets the peer's status back to PEER_OK.      *)
(*                                                                         *)
(* PEER_NO_CONNECT and PEER_UNKNOWN are one status here, "dead": they      *)
(* differ in the log only.                                                 *)
(***************************************************************************)
EXTENDS Naturals, FiniteSets

CONSTANTS
    Peers,      \* the configured peers
    Resource,   \* the kind of service of each one: "bsn", "sn" or "tt"
    Threads,    \* personalisation threads
    Objects,    \* addresses a dead_peer may be allocated at
    Retries,    \* dead-peer-retries
    NONE        \* no peer, no object

ASSUME PeersAssumption ==
    /\ Resource \in [Peers -> {"bsn", "sn", "tt"}]
    /\ NONE \notin Peers \cup Objects
    /\ IsFiniteSet(Threads) /\ IsFiniteSet(Objects)

ASSUME RetriesAssumption == Retries \in Nat

VARIABLES
    status,     \* peer::_status
    retries,    \* peer::_retries, counted up to Retries + 1
    fails,      \* failed calls since the peer last worked, up to Retries + 1
    up,         \* does the peer's node answer?
    pc,         \* where each thread is
    target,     \* the peer a thread works for
    read,       \* the value of _retries a thread has read
    made,       \* the dead_peer a thread has made and not yet registered
    dead,       \* the peer each allocated dead_peer stands for
    listed,     \* _dpl: the dead_peer listed under each peer's key
    dust,       \* the dead_peers in the sweeper's vector
    due,        \* was the last check dead-peer-check seconds ago?
    spc,        \* where the sweeper is; anywhere but "out" it holds the dust mutex
    todo,       \* dead_peers the pass has still to visit
    cur         \* the dead_peer the pass destroys

peerVars == <<status, retries, fails, up>>
threadVars == <<pc, target, read, made>>
deadVars == <<dead, listed, dust, due>>
sweepVars == <<spc, todo, cur>>
vars == <<peerVars, threadVars, deadVars, sweepVars>>

Count == 0 .. Retries + 1

AtMost(n) == IF n > Retries + 1 THEN Retries + 1 ELSE n

TypeOK ==
    /\ status \in [Peers -> {"ok", "dead"}]
    /\ retries \in [Peers -> Count]
    /\ fails \in [Peers -> Count]
    /\ up \in [Peers -> BOOLEAN]
    /\ pc \in [Threads -> {"idle", "calling", "failed", "mark", "new", "register"}]
    /\ target \in [Threads -> Peers \cup {NONE}]
    /\ read \in [Threads -> Count]
    /\ made \in [Threads -> Objects \cup {NONE}]
    /\ dead \in [Objects -> Peers \cup {NONE}]
    /\ listed \in [Peers -> Objects \cup {NONE}]
    /\ dust \subseteq Objects
    /\ due \in [Objects -> BOOLEAN]
    /\ spc \in {"out", "visit", "unlist", "revive"}
    /\ todo \subseteq Objects
    /\ cur \in Objects \cup {NONE}

Init ==
    /\ status = [p \in Peers |-> "ok"]
    /\ retries = [p \in Peers |-> 0]
    /\ fails = [p \in Peers |-> 0]
    /\ up = [p \in Peers |-> TRUE]
    /\ pc = [t \in Threads |-> "idle"]
    /\ target = [t \in Threads |-> NONE]
    /\ read = [t \in Threads |-> 0]
    /\ made = [t \in Threads |-> NONE]
    /\ dead = [o \in Objects |-> NONE]
    /\ listed = [p \in Peers |-> NONE]
    /\ dust = {}
    /\ due = [o \in Objects |-> FALSE]
    /\ spc = "out"
    /\ todo = {}
    /\ cur = NONE

(***************************************************************************)
(* Personalisation threads.                                                *)
(***************************************************************************)
Free == {o \in Objects : dead[o] = NONE}

Busy == {t \in Threads : pc[t] \in {"calling", "failed", "mark", "new"}}

\* Bound of the model: a thread starts only while every thread that may still
\* make a dead_peer has an address to make it at.
Room == Cardinality(Free) > Cardinality(Busy)

\* peers_personalize: a thread for a peer, if the peer is a living one.
Start(t, p) ==
    /\ pc[t] = "idle"
    /\ status[p] = "ok"
    /\ Room
    /\ pc' = [pc EXCEPT ![t] = "calling"]
    /\ target' = [target EXCEPT ![t] = p]
    /\ UNCHANGED <<peerVars, read, made, deadVars, sweepVars>>

\* personalize_cb without an error, from the peer or from the record store.
Succeed(t) ==
    /\ pc[t] = "calling"
    /\ status' = [status EXCEPT ![target[t]] = "ok"]
    /\ fails' = [fails EXCEPT ![target[t]] = 0]
    /\ pc' = [pc EXCEPT ![t] = "idle"]
    /\ target' = [target EXCEPT ![t] = NONE]
    /\ UNCHANGED <<retries, up, read, made, deadVars, sweepVars>>

\* personalize_cb with an error: the peer does not answer.  The call for an
\* "sn" peer swallows every exception (find_dbr_rsc_sn) and never fails.
\* ++_retries is a read and a write, and no lock protects them.
Fail(t) ==
    /\ pc[t] = "calling"
    /\ ~up[target[t]]
    /\ Resource[target[t]] # "sn"
    /\ fails' = [fails EXCEPT ![target[t]] = AtMost(@ + 1)]
    /\ read' = [read EXCEPT ![t] = retries[target[t]]]
    /\ pc' = [pc EXCEPT ![t] = "failed"]
    /\ UNCHANGED <<status, retries, up, target, made, deadVars, sweepVars>>

\* The write of ++_retries, and the comparison with dead-peer-retries.
Tally(t) ==
    /\ pc[t] = "failed"
    /\ retries' = [retries EXCEPT ![target[t]] = AtMost(read[t] + 1)]
    /\ read' = [read EXCEPT ![t] = 0]
    /\ LET over == read[t] + 1 > Retries
       IN /\ pc' = [pc EXCEPT ![t] = IF over THEN "mark" ELSE "idle"]
          /\ target' = [target EXCEPT ![t] = IF over THEN @ ELSE NONE]
    /\ UNCHANGED <<status, fails, up, made, deadVars, sweepVars>>

\* set_status_no_connect, set_status_unknown.
Mark(t) ==
    /\ pc[t] = "mark"
    /\ status' = [status EXCEPT ![target[t]] = "dead"]
    /\ pc' = [pc EXCEPT ![t] = "new"]
    /\ UNCHANGED <<retries, fails, up, target, read, made, deadVars, sweepVars>>

\* new dead_peer, up to _dpl->add, which does nothing when the key is there.
New(t) ==
    /\ pc[t] = "new"
    /\ \E o \in Free :
        /\ made' = [made EXCEPT ![t] = o]
        /\ dead' = [dead EXCEPT ![o] = target[t]]
        /\ due' = [due EXCEPT ![o] = FALSE]
        /\ listed' = [listed EXCEPT ![target[t]] = IF @ = NONE THEN o ELSE @]
    /\ pc' = [pc EXCEPT ![t] = "register"]
    /\ UNCHANGED <<peerVars, target, read, dust, sweepVars>>

\* Mutant: the dead_peer is listed and never registered.
RegisterForgotten(t) ==
    /\ pc[t] = "register"
    /\ spc = "out"
    /\ made' = [made EXCEPT ![t] = NONE]
    /\ target' = [target EXCEPT ![t] = NONE]
    /\ pc' = [pc EXCEPT ![t] = "idle"]
    /\ UNCHANGED <<peerVars, read, deadVars, sweepVars>>

\* register_sweepable, under the dust mutex.
Register(t) ==
    /\ pc[t] = "register"
    /\ spc = "out"
    /\ dust' = dust \cup {made[t]}
    /\ made' = [made EXCEPT ![t] = NONE]
    /\ target' = [target EXCEPT ![t] = NONE]
    /\ pc' = [pc EXCEPT ![t] = "idle"]
    /\ UNCHANGED <<peerVars, read, dead, listed, due, sweepVars>>

(***************************************************************************)
(* The sweeper's pass over the dead_peers of the dust.                     *)
(***************************************************************************)
BeginSweep ==
    /\ spc = "out"
    /\ spc' = "visit"
    /\ todo' = dust
    /\ UNCHANGED <<peerVars, threadVars, deadVars, cur>>

\* Mutant: is_alive knows of no test for a batch peer.
AliveNodeOnly(p) == Resource[p] = "sn"

\* dead_peer::is_alive.  A "tt" peer is never tested.
Alive(p) ==
    \/ Resource[p] = "sn"
    \/ Resource[p] = "bsn" /\ up[p]

\* sweep_me answers false: not yet time for a check, or no answer to it.
Skip(o) ==
    /\ spc = "visit"
    /\ o \in todo
    /\ ~(due[o] /\ Alive(dead[o]))
    /\ due' = [due EXCEPT ![o] = FALSE]
    /\ todo' = todo \ {o}
    /\ UNCHANGED <<peerVars, threadVars, dead, listed, dust, spc, cur>>

\* Mutant: the dead_peer is destroyed and its entry stays.
ReapKept(o) ==
    /\ spc = "visit"
    /\ o \in todo
    /\ due[o] /\ Alive(dead[o])
    /\ todo' = todo \ {o}
    /\ cur' = o
    /\ spc' = "unlist"
    /\ UNCHANGED <<peerVars, threadVars, dead, listed, dust, due>>

\* sweep_me answers true: the sweeper erases the entry.
Reap(o) ==
    /\ spc = "visit"
    /\ o \in todo
    /\ due[o] /\ Alive(dead[o])
    /\ dust' = dust \ {o}
    /\ todo' = todo \ {o}
    /\ cur' = o
    /\ spc' = "unlist"
    /\ UNCHANGED <<peerVars, threadVars, dead, listed, due>>

\* Mutant: the destructor leaves the list alone.
UnlistForgotten ==
    /\ spc = "unlist"
    /\ spc' = "revive"
    /\ UNCHANGED <<peerVars, threadVars, deadVars, todo, cur>>

\* ~dead_peer: _dpl->remove takes the key out, whichever object it leads to.
Unlist ==
    /\ spc = "unlist"
    /\ listed' = [listed EXCEPT ![dead[cur]] = NONE]
    /\ spc' = "revive"
    /\ UNCHANGED <<peerVars, threadVars, dead, dust, due, todo, cur>>

\* ~dead_peer: the living peer is looked up and its status set; then the
\* memory is released.
Revive ==
    /\ spc = "revive"
    /\ status' = [status EXCEPT ![dead[cur]] = "ok"]
    /\ fails' = [fails EXCEPT ![dead[cur]] = 0]
    /\ dead' = [dead EXCEPT ![cur] = NONE]
    /\ due' = [due EXCEPT ![cur] = FALSE]
    /\ cur' = NONE
    /\ spc' = "visit"
    /\ UNCHANGED <<retries, up, threadVars, listed, dust, todo>>

EndSweep ==
    /\ spc = "visit"
    /\ todo = {}
    /\ spc' = "out"
    /\ UNCHANGED <<peerVars, threadVars, deadVars, todo, cur>>

(***************************************************************************)
(* The world: time passes, nodes stop and start.                           *)
(***************************************************************************)
Age(o) ==
    /\ dead[o] # NONE
    /\ ~due[o]
    /\ due' = [due EXCEPT ![o] = TRUE]
    /\ UNCHANGED <<peerVars, threadVars, dead, listed, dust, sweepVars>>

Flip(p) ==
    /\ up' = [up EXCEPT ![p] = ~@]
    /\ UNCHANGED <<status, retries, fails, threadVars, deadVars, sweepVars>>

----------------------------------------------------------------------------
Call(t) == Succeed(t) \/ Fail(t)

Settle(t) == Tally(t) \/ Mark(t) \/ New(t)

Sweep ==
    \/ BeginSweep \/ EndSweep \/ Unlist \/ Revive
    \/ \E o \in Objects : Skip(o) \/ Reap(o)

Next ==
    \/ \E t \in Threads, p \in Peers : Start(t, p)
    \/ \E t \in Threads : Call(t) \/ Settle(t) \/ Register(t)
    \/ Sweep
    \/ \E o \in Objects : Age(o)
    \/ \E p \in Peers : Flip(p)

Spec == Init /\ [][Next]_vars

\* Calls end (curl has time-outs), threads run, the clock runs, and sweeps
\* recur: one is made before every accepted connection.  A thread that waits
\* for the dust mutex gets it in the end, since every pass releases it.
Fairness ==
    /\ \A t \in Threads :
        /\ WF_vars(Call(t)) /\ WF_vars(Settle(t)) /\ SF_vars(Register(t))
    /\ WF_vars(Sweep)
    /\ \A o \in Objects : WF_vars(Age(o))

FairSpec == Spec /\ Fairness

(***************************************************************************)
(* Properties.                                                             *)
(***************************************************************************)
Monitored(p) ==
    \/ \E o \in Objects : dead[o] = p /\ (o \in dust \/ o = cur)
    \/ \E t \in Threads : target[t] = p /\ pc[t] \in {"new", "register"}

\* A peer is not left dead with nobody to test it again: it has a dead_peer in
\* the dust, or one on its way in or out (personalize_cb 186-199, ~dead_peer).
DeadIsMonitored == \A p \in Peers : status[p] = "dead" => Monitored(p)

\* The dust, the list and the sweeper never lead to memory that was released
\* (register_sweepable, sweep, peer_list::add and remove).
NoDangling ==
    /\ \A o \in dust : dead[o] # NONE
    /\ \A p \in Peers : listed[p] # NONE => dead[listed[p]] = p
    /\ cur # NONE => dead[cur] # NONE

\* One place for each dead_peer: a thread's hands, the dust or the sweeper's
\* hands, and never two of them (dead_peer's constructor, sweeper::sweep).
OneOwner ==
    /\ \A t \in Threads : made[t] # NONE => made[t] \notin dust \cup {cur}
    /\ \A t, u \in Threads : t # u /\ made[t] # NONE => made[t] # made[u]
    /\ cur \notin dust

\* A peer that works again is marked alive again (sweep_me, ~dead_peer).
PeerRevived ==
    \A p \in Peers : <>[]up[p] => []<>(status[p] = "ok")

\* A peer is marked dead after dead-peer-retries calls for it failed
\* (personalize_cb 188).
DeadAfterRetries ==
    [][\A p \in Peers : status[p] = "ok" /\ status'[p] = "dead" =>
          fails[p] > Retries]_vars

----------------------------------------------------------------------------
\* What the proofs add: each thread's peer and object go with its place in the
\* code, the object is one for that peer, and the sweeper's with its own place.
ThreadInv ==
    \A t \in Threads :
        /\ pc[t] = "idle" <=> target[t] = NONE
        /\ pc[t] = "register" <=> made[t] # NONE
        /\ made[t] # NONE => dead[made[t]] = target[t]

SweepInv ==
    /\ cur # NONE <=> spc \in {"unlist", "revive"}
    /\ todo \subseteq dust
    /\ spc = "revive" => \A p \in Peers : listed[p] # cur

MonitorInv ==
    /\ TypeOK
    /\ ThreadInv
    /\ SweepInv
    /\ NoDangling
    /\ OneOwner
    /\ DeadIsMonitored

=============================================================================
