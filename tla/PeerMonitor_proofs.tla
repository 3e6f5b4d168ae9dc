------------------------- MODULE PeerMonitor_proofs -------------------------
(***************************************************************************)
(* Proofs about PeerMonitor, for any peers of any kind, any number of      *)
(* threads and of dead_peers, and any dead-peer-retries.                   *)
(***************************************************************************)
EXTENDS PeerMonitor, TLAPS

\* The steps of the specification, one by one.
LEMMA Steps ==
  ASSUME [Next]_vars
  PROVE  \/ \E t \in Threads, p \in Peers : Start(t, p)
         \/ \E t \in Threads : Succeed(t)
         \/ \E t \in Threads : Fail(t)
         \/ \E t \in Threads : Tally(t)
         \/ \E t \in Threads : Mark(t)
         \/ \E t \in Threads : New(t)
         \/ \E t \in Threads : Register(t)
         \/ BeginSweep \/ EndSweep \/ Unlist \/ Revive
         \/ \E o \in Objects : Skip(o)
         \/ \E o \in Objects : Reap(o)
         \/ \E o \in Objects : Age(o)
         \/ \E p \in Peers : Flip(p)
         \/ UNCHANGED vars
BY Zenon DEF Next, Call, Settle, Sweep

\* The saturated count of failures is a count (++_retries, personalize_cb 188).
LEMMA CountIsCount ==
  ASSUME NEW n \in Nat
  PROVE  AtMost(n) \in Count
BY RetriesAssumption DEF AtMost, Count

\* So is none.
LEMMA ZeroIsCount == 0 \in Count
BY RetriesAssumption DEF Count

\* Every step keeps the variables in their types.
LEMMA TypeStep ==
  ASSUME TypeOK, ThreadInv, SweepInv, [Next]_vars
  PROVE  TypeOK'
<1> USE PeersAssumption, RetriesAssumption
<1> USE DEF TypeOK, peerVars, threadVars, deadVars, sweepVars
<1>1. ASSUME NEW t \in Threads, NEW p \in Peers, Start(t, p) PROVE TypeOK'
  BY <1>1 DEF Start
<1>2. ASSUME NEW t \in Threads, Succeed(t) PROVE TypeOK'
  BY <1>2, ZeroIsCount DEF Succeed
<1>3. ASSUME NEW t \in Threads, Fail(t) PROVE TypeOK'
  <2>1. target[t] \in Peers
    BY <1>3 DEF Fail, ThreadInv
  <2>2. AtMost(fails[target[t]] + 1) \in Count
    BY <2>1, CountIsCount DEF Count
  <2> QED
    BY <1>3, <2>1, <2>2 DEF Fail
<1>4. ASSUME NEW t \in Threads, Tally(t) PROVE TypeOK'
  <2>1. AtMost(read[t] + 1) \in Count
    BY CountIsCount DEF Count
  <2> QED
    BY <1>4, <2>1, ZeroIsCount DEF Tally
<1>5. ASSUME NEW t \in Threads, Mark(t) PROVE TypeOK'
  BY <1>5 DEF Mark
<1>6. ASSUME NEW t \in Threads, New(t) PROVE TypeOK'
  BY <1>6 DEF New, Free, ThreadInv
<1>7. ASSUME NEW t \in Threads, Register(t) PROVE TypeOK'
  BY <1>7 DEF Register, ThreadInv
<1>8. CASE BeginSweep
  BY <1>8 DEF BeginSweep
<1>9. CASE EndSweep
  BY <1>9 DEF EndSweep
<1>10. CASE Unlist
  BY <1>10 DEF Unlist
<1>11. CASE Revive
  BY <1>11, ZeroIsCount DEF Revive
<1>12. ASSUME NEW o \in Objects, Skip(o) PROVE TypeOK'
  BY <1>12 DEF Skip
<1>13. ASSUME NEW o \in Objects, Reap(o) PROVE TypeOK'
  BY <1>13 DEF Reap
<1>14. ASSUME NEW o \in Objects, Age(o) PROVE TypeOK'
  BY <1>14 DEF Age
<1>15. ASSUME NEW p \in Peers, Flip(p) PROVE TypeOK'
  BY <1>15 DEF Flip
<1>16. CASE UNCHANGED vars
  BY <1>16 DEF vars
<1> QED
  BY Steps, <1>1, <1>2, <1>3, <1>4, <1>5, <1>6, <1>7, <1>8, <1>9, <1>10,
     <1>11, <1>12, <1>13, <1>14, <1>15, <1>16

\* Threads keep to their peer and to the dead_peer they make for it.
LEMMA ThreadStep ==
  ASSUME TypeOK, ThreadInv, SweepInv, NoDangling, OneOwner, [Next]_vars
  PROVE  ThreadInv'
<1> USE PeersAssumption DEF TypeOK, ThreadInv, peerVars, threadVars, deadVars, sweepVars
<1>1. ASSUME NEW t \in Threads, NEW p \in Peers, Start(t, p) PROVE ThreadInv'
  BY <1>1 DEF Start
<1>2. ASSUME NEW t \in Threads, Succeed(t) PROVE ThreadInv'
  BY <1>2 DEF Succeed
<1>3. ASSUME NEW t \in Threads, Fail(t) PROVE ThreadInv'
  BY <1>3 DEF Fail
<1>4. ASSUME NEW t \in Threads, Tally(t) PROVE ThreadInv'
  BY <1>4 DEF Tally
<1>5. ASSUME NEW t \in Threads, Mark(t) PROVE ThreadInv'
  BY <1>5 DEF Mark
<1>6. ASSUME NEW t \in Threads, New(t) PROVE ThreadInv'
  BY <1>6 DEF New, Free
<1>7. ASSUME NEW t \in Threads, Register(t) PROVE ThreadInv'
  BY <1>7 DEF Register
<1>8. CASE BeginSweep
  BY <1>8 DEF BeginSweep
<1>9. CASE EndSweep
  BY <1>9 DEF EndSweep
<1>10. CASE Unlist
  BY <1>10 DEF Unlist
<1>11. CASE Revive
  BY <1>11 DEF Revive, SweepInv, OneOwner
<1>12. ASSUME NEW o \in Objects, Skip(o) PROVE ThreadInv'
  BY <1>12 DEF Skip
<1>13. ASSUME NEW o \in Objects, Reap(o) PROVE ThreadInv'
  BY <1>13 DEF Reap
<1>14. ASSUME NEW o \in Objects, Age(o) PROVE ThreadInv'
  BY <1>14 DEF Age
<1>15. ASSUME NEW p \in Peers, Flip(p) PROVE ThreadInv'
  BY <1>15 DEF Flip
<1>16. CASE UNCHANGED vars
  BY <1>16 DEF vars
<1> QED
  BY Steps, <1>1, <1>2, <1>3, <1>4, <1>5, <1>6, <1>7, <1>8, <1>9, <1>10,
     <1>11, <1>12, <1>13, <1>14, <1>15, <1>16

\* The sweeper's place goes with what it holds, and visits only the dust.
LEMMA SweepStep ==
  ASSUME TypeOK, ThreadInv, SweepInv, NoDangling, OneOwner, [Next]_vars
  PROVE  SweepInv'
<1> USE PeersAssumption DEF TypeOK, SweepInv, peerVars, threadVars, deadVars, sweepVars
<1>1. ASSUME NEW t \in Threads, NEW p \in Peers, Start(t, p) PROVE SweepInv'
  BY <1>1 DEF Start
<1>2. ASSUME NEW t \in Threads, Succeed(t) PROVE SweepInv'
  BY <1>2 DEF Succeed
<1>3. ASSUME NEW t \in Threads, Fail(t) PROVE SweepInv'
  BY <1>3 DEF Fail
<1>4. ASSUME NEW t \in Threads, Tally(t) PROVE SweepInv'
  BY <1>4 DEF Tally
<1>5. ASSUME NEW t \in Threads, Mark(t) PROVE SweepInv'
  BY <1>5 DEF Mark
<1>6. ASSUME NEW t \in Threads, New(t) PROVE SweepInv'
  BY <1>6 DEF New, Free, NoDangling
<1>7. ASSUME NEW t \in Threads, Register(t) PROVE SweepInv'
  BY <1>7 DEF Register
<1>8. CASE BeginSweep
  BY <1>8 DEF BeginSweep
<1>9. CASE EndSweep
  BY <1>9 DEF EndSweep
<1>10. CASE Unlist
  BY <1>10 DEF Unlist, NoDangling
<1>11. CASE Revive
  BY <1>11 DEF Revive
<1>12. ASSUME NEW o \in Objects, Skip(o) PROVE SweepInv'
  BY <1>12 DEF Skip
<1>13. ASSUME NEW o \in Objects, Reap(o) PROVE SweepInv'
  BY <1>13 DEF Reap
<1>14. ASSUME NEW o \in Objects, Age(o) PROVE SweepInv'
  BY <1>14 DEF Age
<1>15. ASSUME NEW p \in Peers, Flip(p) PROVE SweepInv'
  BY <1>15 DEF Flip
<1>16. CASE UNCHANGED vars
  BY <1>16 DEF vars
<1> QED
  BY Steps, <1>1, <1>2, <1>3, <1>4, <1>5, <1>6, <1>7, <1>8, <1>9, <1>10,
     <1>11, <1>12, <1>13, <1>14, <1>15, <1>16

\* Nothing leads to a dead_peer that was destroyed (peer_list, sweeper::sweep).
LEMMA DanglingStep ==
  ASSUME TypeOK, ThreadInv, SweepInv, NoDangling, OneOwner, [Next]_vars
  PROVE  NoDangling'
<1> USE PeersAssumption DEF TypeOK, NoDangling, peerVars, threadVars, deadVars, sweepVars
<1>1. ASSUME NEW t \in Threads, NEW p \in Peers, Start(t, p) PROVE NoDangling'
  BY <1>1 DEF Start
<1>2. ASSUME NEW t \in Threads, Succeed(t) PROVE NoDangling'
  BY <1>2 DEF Succeed
<1>3. ASSUME NEW t \in Threads, Fail(t) PROVE NoDangling'
  BY <1>3 DEF Fail
<1>4. ASSUME NEW t \in Threads, Tally(t) PROVE NoDangling'
  BY <1>4 DEF Tally
<1>5. ASSUME NEW t \in Threads, Mark(t) PROVE NoDangling'
  BY <1>5 DEF Mark
<1>6. ASSUME NEW t \in Threads, New(t) PROVE NoDangling'
  BY <1>6 DEF New, Free, ThreadInv
<1>7. ASSUME NEW t \in Threads, Register(t) PROVE NoDangling'
  BY <1>7 DEF Register, ThreadInv
<1>8. CASE BeginSweep
  BY <1>8 DEF BeginSweep
<1>9. CASE EndSweep
  BY <1>9 DEF EndSweep
<1>10. CASE Unlist
  BY <1>10 DEF Unlist
<1>11. CASE Revive
  BY <1>11 DEF Revive, SweepInv, OneOwner
<1>12. ASSUME NEW o \in Objects, Skip(o) PROVE NoDangling'
  BY <1>12 DEF Skip
<1>13. ASSUME NEW o \in Objects, Reap(o) PROVE NoDangling'
  BY <1>13 DEF Reap, SweepInv
<1>14. ASSUME NEW o \in Objects, Age(o) PROVE NoDangling'
  BY <1>14 DEF Age
<1>15. ASSUME NEW p \in Peers, Flip(p) PROVE NoDangling'
  BY <1>15 DEF Flip
<1>16. CASE UNCHANGED vars
  BY <1>16 DEF vars
<1> QED
  BY Steps, <1>1, <1>2, <1>3, <1>4, <1>5, <1>6, <1>7, <1>8, <1>9, <1>10,
     <1>11, <1>12, <1>13, <1>14, <1>15, <1>16

\* A dead_peer is in one place at a time (its constructor, sweeper::sweep).
LEMMA OwnerStep ==
  ASSUME TypeOK, ThreadInv, SweepInv, NoDangling, OneOwner, [Next]_vars
  PROVE  OneOwner'
<1> USE PeersAssumption DEF TypeOK, OneOwner, peerVars, threadVars, deadVars, sweepVars
<1>1. ASSUME NEW t \in Threads, NEW p \in Peers, Start(t, p) PROVE OneOwner'
  BY <1>1 DEF Start
<1>2. ASSUME NEW t \in Threads, Succeed(t) PROVE OneOwner'
  BY <1>2 DEF Succeed
<1>3. ASSUME NEW t \in Threads, Fail(t) PROVE OneOwner'
  BY <1>3 DEF Fail
<1>4. ASSUME NEW t \in Threads, Tally(t) PROVE OneOwner'
  BY <1>4 DEF Tally
<1>5. ASSUME NEW t \in Threads, Mark(t) PROVE OneOwner'
  BY <1>5 DEF Mark
<1>6. ASSUME NEW t \in Threads, New(t) PROVE OneOwner'
  BY <1>6 DEF New, Free, ThreadInv, NoDangling
<1>7. ASSUME NEW t \in Threads, Register(t) PROVE OneOwner'
  BY <1>7 DEF Register, SweepInv, ThreadInv
<1>8. CASE BeginSweep
  BY <1>8 DEF BeginSweep
<1>9. CASE EndSweep
  BY <1>9 DEF EndSweep
<1>10. CASE Unlist
  BY <1>10 DEF Unlist
<1>11. CASE Revive
  BY <1>11 DEF Revive
<1>12. ASSUME NEW o \in Objects, Skip(o) PROVE OneOwner'
  BY <1>12 DEF Skip
<1>13. ASSUME NEW o \in Objects, Reap(o) PROVE OneOwner'
  BY <1>13 DEF Reap, SweepInv
<1>14. ASSUME NEW o \in Objects, Age(o) PROVE OneOwner'
  BY <1>14 DEF Age
<1>15. ASSUME NEW p \in Peers, Flip(p) PROVE OneOwner'
  BY <1>15 DEF Flip
<1>16. CASE UNCHANGED vars
  BY <1>16 DEF vars
<1> QED
  BY Steps, <1>1, <1>2, <1>3, <1>4, <1>5, <1>6, <1>7, <1>8, <1>9, <1>10,
     <1>11, <1>12, <1>13, <1>14, <1>15, <1>16

\* A peer is marked dead by a thread on its way to a dead_peer for it, and the
\* dead_peer that goes last leaves the peer alive (personalize_cb, ~dead_peer).
LEMMA MonitoredStep ==
  ASSUME TypeOK, ThreadInv, SweepInv, NoDangling, OneOwner, DeadIsMonitored, [Next]_vars
  PROVE  DeadIsMonitored'
<1> USE PeersAssumption DEF TypeOK, DeadIsMonitored, Monitored, peerVars, threadVars, deadVars, sweepVars
<1>1. ASSUME NEW t \in Threads, NEW p \in Peers, Start(t, p) PROVE DeadIsMonitored'
  BY <1>1 DEF Start, ThreadInv
<1>2. ASSUME NEW t \in Threads, Succeed(t) PROVE DeadIsMonitored'
  BY <1>2 DEF Succeed
<1>3. ASSUME NEW t \in Threads, Fail(t) PROVE DeadIsMonitored'
  BY <1>3 DEF Fail
<1>4. ASSUME NEW t \in Threads, Tally(t) PROVE DeadIsMonitored'
  BY <1>4 DEF Tally
<1>5. ASSUME NEW t \in Threads, Mark(t) PROVE DeadIsMonitored'
  BY <1>5 DEF Mark, ThreadInv
<1>6. ASSUME NEW t \in Threads, New(t) PROVE DeadIsMonitored'
  BY <1>6 DEF New, Free, ThreadInv, NoDangling
<1>7. ASSUME NEW t \in Threads, Register(t) PROVE DeadIsMonitored'
  BY <1>7 DEF Register, ThreadInv
<1>8. CASE BeginSweep
  BY <1>8 DEF BeginSweep
<1>9. CASE EndSweep
  BY <1>9 DEF EndSweep
<1>10. CASE Unlist
  BY <1>10 DEF Unlist
<1>11. CASE Revive
  BY <1>11 DEF Revive
<1>12. ASSUME NEW o \in Objects, Skip(o) PROVE DeadIsMonitored'
  BY <1>12 DEF Skip
<1>13. ASSUME NEW o \in Objects, Reap(o) PROVE DeadIsMonitored'
  BY <1>13 DEF Reap, SweepInv
<1>14. ASSUME NEW o \in Objects, Age(o) PROVE DeadIsMonitored'
  BY <1>14 DEF Age
<1>15. ASSUME NEW p \in Peers, Flip(p) PROVE DeadIsMonitored'
  BY <1>15 DEF Flip
<1>16. CASE UNCHANGED vars
  BY <1>16 DEF vars
<1> QED
  BY Steps, <1>1, <1>2, <1>3, <1>4, <1>5, <1>6, <1>7, <1>8, <1>9, <1>10,
     <1>11, <1>12, <1>13, <1>14, <1>15, <1>16

\* The strengthening of the invariants: inductive.
LEMMA Inductive == Spec => []MonitorInv
<1>1. Init => MonitorInv
  BY PeersAssumption, ZeroIsCount
  DEF Init, MonitorInv, TypeOK, ThreadInv, SweepInv, NoDangling, OneOwner,
      DeadIsMonitored
<1>2. MonitorInv /\ [Next]_vars => MonitorInv'
  BY TypeStep, ThreadStep, SweepStep, DanglingStep, OwnerStep, MonitoredStep
  DEF MonitorInv
<1> QED
  BY <1>1, <1>2, PTL DEF Spec

\* The model's variables keep their types.
THEOREM TypeCorrect == Spec => []TypeOK
BY Inductive, PTL DEF MonitorInv

\* However failures, successes and checks of a peer interleave, a peer that is
\* marked dead is one the sweeper will test again (personalize_cb, dead_peer).
THEOREM PeersMonitored == Spec => []DeadIsMonitored
BY Inductive, PTL DEF MonitorInv

\* _dpl, the dust and the sweeper lead to allocated dead_peers, even when two
\* threads have made one each for the same peer (peer_list::add and remove).
THEOREM NothingDangles == Spec => []NoDangling
BY Inductive, PTL DEF MonitorInv

\* No dead_peer is destroyed while a thread still registers it, and none is
\* destroyed twice (dead_peer::dead_peer, sweeper::sweep).
THEOREM OwnedOnce == Spec => []OneOwner
BY Inductive, PTL DEF MonitorInv
=============================================================================
