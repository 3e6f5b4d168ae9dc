--------------------------- MODULE Serving_proofs ---------------------------
(* What holds of the list of clients and of one exchange for every value of   *)
(* their constants: the list the sweeping walk goes along, who is in it and   *)
(* who may be freed; what was read, counted and told of an answer.            *)
EXTENDS ClientList, Exchange, WellFoundedInduction, SequenceTheorems, FiniteSetTheorems, TLAPS

-----------------------------------------------------------------------------
(* Least and greatest numbers.                                               *)

LEMMA LeastNat ==
  ASSUME NEW T \in SUBSET Nat, T # {}
  PROVE  \E x \in T : \A y \in T : x <= y
<1> DEFINE R == OpToRel(<, Nat)
<1>1. IsWellFoundedOn(R, Nat)
  BY NatLessThanWellFounded
<1>2. \A x, y \in Nat : <<y, x>> \in R <=> y < x
  BY DEF OpToRel
<1> HIDE DEF R
<1>3. \E x \in T : \A y \in T : ~ (<<y, x>> \in R)
  BY <1>1, WFMin
<1>4. PICK x \in T : \A y \in T : ~ (<<y, x>> \in R)
  BY <1>3
<1>5. \A y \in T : ~(y < x)
  BY <1>2, <1>4
<1> QED
  BY <1>5

LEMMA MaxBelow ==
  ASSUME NEW n \in Nat, NEW S \in SUBSET (0 .. n), S # {}
  PROVE  Max(S) \in S /\ \A e \in S : e <= Max(S)
<1> DEFINE T == {n - e : e \in S}
<1>1. T \in SUBSET Nat /\ T # {}
  <2>1. \A e \in S : n - e \in Nat /\ n - e \in T
    OBVIOUS
  <2> QED
    BY <2>1
<1>2. PICK x \in T : \A y \in T : x <= y
  BY <1>1, LeastNat
<1>3. PICK m \in S : x = n - m
  BY <1>2
<1>4. \A e \in S : m >= e
  BY <1>2, <1>3
<1> QED
  BY <1>3, <1>4 DEF Max

LEMMA FiniteHasMax ==
  ASSUME NEW S \in SUBSET Nat, IsFiniteSet(S), S # {}
  PROVE  \E n \in Nat : S \subseteq 0 .. n
<1> DEFINE Bad == {T \in SUBSET S : ~\E n \in Nat : T \subseteq 0 .. n}
<1> DEFINE Sizes == {Cardinality(T) : T \in Bad}
<1> SUFFICES ASSUME S \in Bad PROVE FALSE
  OBVIOUS
<1>1. \A T \in SUBSET S : IsFiniteSet(T) /\ Cardinality(T) \in Nat
  BY FS_Subset, FS_CardinalityType
<1>2. Sizes \in SUBSET Nat /\ Sizes # {}
  BY <1>1
<1>3. PICK k \in Sizes : \A j \in Sizes : k <= j
  <2> HIDE DEF Sizes
  <2> QED
    BY <1>2, LeastNat
<1>4. PICK T \in Bad : k = Cardinality(T)
  BY <1>3
<1>5. T # {}
  <2>1. {} \subseteq 0 .. 0 /\ 0 \in Nat
    OBVIOUS
  <2> QED
    BY <2>1
<1>6. PICK e \in T : TRUE
  BY <1>5
<1>7. T \ {e} \notin Bad
  <2>1. Cardinality(T \ {e}) = Cardinality(T) - 1
    BY <1>1, FS_RemoveElement
  <2>2. ~(Cardinality(T) <= Cardinality(T) - 1)
    BY <1>1
  <2> QED
    BY <1>3, <1>4, <2>1, <2>2
<1>8. PICK n \in Nat : T \ {e} \subseteq 0 .. n
  BY <1>7
<1>9. e \in Nat
  OBVIOUS
<1>10. \E m \in Nat : T \subseteq 0 .. m
  <2>1. T \subseteq 0 .. (n + e)
    BY <1>8, <1>9
  <2>2. n + e \in Nat
    BY <1>8, <1>9
  <2> QED
    BY <2>1, <2>2
<1> QED
  BY <1>10

-----------------------------------------------------------------------------
(* The list of clients.                                                      *)

\* The list leads from the head through the members, each before the next in pos.
Sorted(m, nxt, pos) ==
    /\ pos \in [Clients \cup {HEAD} -> Int]
    /\ \A c \in m : pos[HEAD] < pos[c]
    /\ \A c, d \in m : pos[c] = pos[d] => c = d
    /\ \A d \in m \cup {HEAD} :
         /\ nxt[d] \in m \cup {NONE}
         /\ nxt[d] # NONE => pos[d] < pos[nxt[d]]
         /\ \A c \in m : pos[d] < pos[c] => nxt[d] # NONE /\ pos[nxt[d]] <= pos[c]

Linked(m, nxt) == \A c \in m : \E d \in m \cup {HEAD} : nxt[d] = c

\* Each member of a list has one place in it.
LEMMA OnePlace ==
  ASSUME NEW m \in SUBSET Clients, NEW nxt \in [Clients \cup {HEAD} -> Clients \cup {NONE}],
         NEW pos, Sorted(m, nxt, pos), Linked(m, nxt), NEW c \in m
  PROVE  \E d \in m \cup {HEAD} : {e \in m \cup {HEAD} : nxt[e] = c} = {d}
<1>0. HEAD \notin Clients /\ NONE \notin Clients
  BY ClientsAssumption
<1>1. PICK d \in m \cup {HEAD} : nxt[d] = c
  BY DEF Linked
<1>2. ASSUME NEW a \in m \cup {HEAD}, NEW b \in m \cup {HEAD}, nxt[a] = c, nxt[b] = c,
             pos[a] < pos[b]
      PROVE  FALSE
  <2>1. b \in m
    BY <1>2, <1>0 DEF Sorted
  <2>2. pos[c] <= pos[b]
    BY <1>2, <2>1 DEF Sorted
  <2>3. pos[b] < pos[c]
    BY <1>0, <1>2 DEF Sorted
  <2> QED
    BY <1>0, <2>2, <2>3 DEF Sorted
<1>3. ASSUME NEW e \in m \cup {HEAD}, nxt[e] = c PROVE e = d
  <2>1. ~(pos[e] < pos[d]) /\ ~(pos[d] < pos[e])
    BY <1>1, <1>2, <1>3
  <2>2. pos[e] = pos[d]
    BY <2>1 DEF Sorted
  <2>3. e = HEAD <=> d = HEAD
    BY <2>2, <1>0 DEF Sorted
  <2> QED
    BY <2>2, <2>3 DEF Sorted
<1> QED
  BY <1>1, <1>3

\* The walk takes a member out of the list.
LEMMA TakenOut ==
  ASSUME NEW m \in SUBSET Clients, NEW nxt \in [Clients \cup {HEAD} -> Clients \cup {NONE}],
         NEW pos, Sorted(m, nxt, pos), Linked(m, nxt),
         NEW a \in m \cup {HEAD}, NEW b \in m, nxt[a] = b
  PROVE  LET nn == [nxt EXCEPT ![a] = nxt[b]]
         IN  Sorted(m \ {b}, nn, pos) /\ Linked(m \ {b}, nn) /\ a # b
<1> DEFINE nn == [nxt EXCEPT ![a] = nxt[b]]
<1>0. HEAD \notin Clients /\ NONE \notin Clients
  BY ClientsAssumption
<1>1. /\ nn[a] = nxt[b] /\ \A d \in m \cup {HEAD} : d # a => nn[d] = nxt[d]
  OBVIOUS
<1> HIDE DEF nn
<1>2. pos[a] < pos[b] /\ a # b /\ pos[a] \in Int /\ pos[b] \in Int
  BY <1>0 DEF Sorted
<1>3. ASSUME NEW d \in m \cup {HEAD}, nxt[d] = b PROVE d = a
  <2>1. PICK p \in m \cup {HEAD} : {e \in m \cup {HEAD} : nxt[e] = b} = {p}
    BY OnePlace
  <2> QED
    BY <2>1, <1>3
<1>4. ASSUME NEW d \in (m \ {b}) \cup {HEAD}
      PROVE  /\ nn[d] \in (m \ {b}) \cup {NONE}
             /\ nn[d] # NONE => pos[d] < pos[nn[d]]
             /\ \A c \in m \ {b} : pos[d] < pos[c] => nn[d] # NONE /\ pos[nn[d]] <= pos[c]
  <2>1. CASE d = a
    <3>1. nxt[b] \in m \cup {NONE} /\ nxt[b] # b
      BY <1>2, <1>3 DEF Sorted
    <3>2. nxt[b] # NONE => pos[b] < pos[nxt[b]] /\ pos[nxt[b]] \in Int
      BY DEF Sorted
    <3>3. ASSUME NEW c \in m \ {b}, pos[a] < pos[c]
          PROVE  nxt[b] # NONE /\ pos[nxt[b]] <= pos[c]
      <4>1. pos[b] <= pos[c] /\ pos[c] \in Int
        BY <1>0, <3>3 DEF Sorted
      <4>2. pos[b] < pos[c]
        BY <4>1, <1>2 DEF Sorted
      <4> QED
        BY <4>2 DEF Sorted
    <3> QED
      BY <1>1, <1>2, <2>1, <3>1, <3>2, <3>3
  <2>2. CASE d # a
    BY <1>1, <1>3, <2>2 DEF Sorted
  <2> QED
    BY <2>1, <2>2
<1>5. ASSUME NEW c \in m \ {b} PROVE \E d \in (m \ {b}) \cup {HEAD} : nn[d] = c
  <2>1. PICK d \in m \cup {HEAD} : nxt[d] = c
    BY DEF Linked
  <2>2. CASE d = b
    BY <1>0, <1>1, <1>2, <2>1, <2>2
  <2>3. CASE d # b
    BY <1>1, <2>1, <2>3
  <2> QED
    BY <2>2, <2>3
<1>6. Sorted(m \ {b}, nn, pos)
  BY <1>4 DEF Sorted
<1>7. Linked(m \ {b}, nn)
  BY <1>5 DEF Linked
<1> QED
  BY <1>2, <1>6, <1>7 DEF nn

\* A client is put in front of the list.
LEMMA PutInFront ==
  ASSUME NEW m \in SUBSET Clients, NEW nxt \in [Clients \cup {HEAD} -> Clients \cup {NONE}],
         NEW pos, Sorted(m, nxt, pos), Linked(m, nxt),
         NEW c \in Clients \ m, nxt[c] = nxt[HEAD]
  PROVE  LET nn == [nxt EXCEPT ![HEAD] = c]
         IN  Linked(m \cup {c}, nn) /\ \E q : Sorted(m \cup {c}, nn, q)
<1> DEFINE nn == [nxt EXCEPT ![HEAD] = c]
<1> DEFINE q == [pos EXCEPT ![HEAD] = pos[HEAD] - 1, ![c] = pos[HEAD]]
<1> DEFINE k == m \cup {c}
<1>0. HEAD \notin Clients /\ NONE \notin Clients
  BY ClientsAssumption
<1>1. nn[HEAD] = c /\ \A d \in Clients : nn[d] = nxt[d]
  BY <1>0
<1>2. pos \in [Clients \cup {HEAD} -> Int]
  BY DEF Sorted
<1>3. /\ q \in [Clients \cup {HEAD} -> Int]
      /\ q[HEAD] = pos[HEAD] - 1 /\ q[c] = pos[HEAD]
      /\ \A d \in m : q[d] = pos[d]
  BY <1>0, <1>2
<1> HIDE DEF nn, q
<1>4. \A d \in m : pos[HEAD] < pos[d] /\ pos[d] \in Int
  BY <1>2 DEF Sorted
<1>5. pos[HEAD] \in Int
  BY <1>2
<1>6. \A d \in k : q[HEAD] < q[d]
  BY <1>3, <1>4, <1>5
<1>7. \A d, e \in k : q[d] = q[e] => d = e
  BY <1>3, <1>4, <1>5 DEF Sorted
<1>8. ASSUME NEW d \in k \cup {HEAD}
      PROVE  /\ nn[d] \in k \cup {NONE}
             /\ nn[d] # NONE => q[d] < q[nn[d]]
             /\ \A e \in k : q[d] < q[e] => nn[d] # NONE /\ q[nn[d]] <= q[e]
  <2>1. CASE d = HEAD
    <3>1. \A e \in k : q[c] <= q[e]
      BY <1>3, <1>4, <1>5
    <3> QED
      BY <1>0, <1>1, <1>6, <2>1, <3>1
  <2>2. CASE d = c
    <3>1. nn[c] = nxt[HEAD] /\ nxt[HEAD] \in m \cup {NONE}
      BY <1>1 DEF Sorted
    <3>2. nxt[HEAD] # NONE => q[c] < q[nxt[HEAD]]
      BY <1>3, <1>4, <3>1
    <3>3. ASSUME NEW e \in k, q[c] < q[e] PROVE nxt[HEAD] # NONE /\ q[nxt[HEAD]] <= q[e]
      <4>1. e \in m
        BY <1>3, <1>5, <3>3
      <4>2. nxt[HEAD] # NONE /\ pos[nxt[HEAD]] <= pos[e]
        BY <1>4, <4>1 DEF Sorted
      <4> QED
        BY <1>3, <3>1, <4>1, <4>2
    <3> QED
      BY <2>2, <3>1, <3>2, <3>3
  <2>3. CASE d \in m
    <3>1. nn[d] = nxt[d] /\ nxt[d] \in m \cup {NONE} /\ q[d] = pos[d]
      BY <1>1, <1>3, <2>3 DEF Sorted
    <3>2. nxt[d] # NONE => q[d] < q[nxt[d]]
      BY <1>3, <2>3, <3>1 DEF Sorted
    <3>3. ASSUME NEW e \in k, q[d] < q[e] PROVE nxt[d] # NONE /\ q[nxt[d]] <= q[e]
      <4>1. e \in m
        BY <1>3, <1>4, <1>5, <2>3, <3>3
      <4>2. nxt[d] # NONE /\ pos[nxt[d]] <= pos[e]
        BY <1>3, <2>3, <3>3, <4>1 DEF Sorted
      <4> QED
        BY <1>3, <3>1, <4>1, <4>2
    <3> QED
      BY <3>1, <3>2, <3>3
  <2> QED
    BY <2>1, <2>2, <2>3
<1>9. Sorted(k, nn, q)
  BY <1>3, <1>6, <1>7, <1>8 DEF Sorted
<1>10. Linked(k, nn)
  <2>1. ASSUME NEW e \in m PROVE \E d \in k \cup {HEAD} : nn[d] = e
    <3>1. PICK d \in m \cup {HEAD} : nxt[d] = e
      BY DEF Linked
    <3>2. CASE d = HEAD
      BY <1>1, <3>1, <3>2
    <3>3. CASE d \in m
      BY <1>1, <3>1, <3>3
    <3> QED
      BY <3>2, <3>3
  <2> QED
    BY <1>1, <2>1 DEF Linked
<1> QED
  BY <1>9, <1>10 DEF nn

\* What is not in the list may lead anywhere.
LEMMA OutsideTheList ==
  ASSUME NEW m \in SUBSET Clients, NEW nxt \in [Clients \cup {HEAD} -> Clients \cup {NONE}],
         NEW c \in Clients \ m, NEW v
  PROVE  LET nn == [nxt EXCEPT ![c] = v]
         IN  /\ \A pos : Sorted(m, nxt, pos) => Sorted(m, nn, pos)
             /\ Linked(m, nxt) => Linked(m, nn)
<1> DEFINE nn == [nxt EXCEPT ![c] = v]
<1>1. \A d \in m \cup {HEAD} : nn[d] = nxt[d]
  BY ClientsAssumption
<1> HIDE DEF nn
<1>2. \A pos : Sorted(m, nxt, pos) => Sorted(m, nn, pos)
  BY <1>1 DEF Sorted
<1>3. Linked(m, nxt) => Linked(m, nn)
  BY <1>1 DEF Linked
<1> QED
  BY <1>2, <1>3 DEF nn

-----------------------------------------------------------------------------
(* The walk and the loop, when nobody else walks.                          *)

Holding == {"accept", "limit", "link", "publish", "spawn"}

InPlace ==
    /\ pc[Main] \notin Holding => csp = NONE
    /\ pc[Main] \in Holding => csp \in live \cap active
    /\ pc[Main] = "publish" => next[csp] = next[HEAD]

\* Where the walk is in the list.
WalkInPlace ==
    /\ pc[Main] \in {"walk", "free"} => last[Main] \in Members \cup {HEAD}
    /\ pc[Main] = "walk" => next[last[Main]] = cur[Main]
    /\ pc[Main] = "free" => cur[Main] \in live

Served ==
    /\ IsFiniteSet(serving)
    /\ serving \subseteq Members \cap active
    /\ csp \notin serving

\* Clients that are served and that the walk has passed.
PassedBy(pos) == {c \in serving : pos[c] <= pos[last[Main]]}

Counts(pos) ==
    pc[Main] \in {"walk", "free"} =>
        IsFiniteSet(PassedBy(pos)) /\ Cardinality(PassedBy(pos)) <= counted[Main]

InOrder == /\ Linked(Members, next)
           /\ \E pos : Sorted(Members, next, pos) /\ Counts(pos)

Capped ==
    /\ pc[Main] \notin {"sweep", "walk", "free"} => Cardinality(serving) <= threads
    /\ MaxClients # 0 => /\ Cardinality(serving) <= MaxClients
                         /\ pc[Main] \in {"link", "publish", "spawn"} => threads < MaxClients

ListInv == ClientsTypeOK /\ InPlace /\ WalkInPlace /\ Served /\ InOrder /\ Capped

Alone == Servers = {}

LEMMA AloneSweeps == ASSUME Alone PROVE Sweepers = {Main}
BY DEF Alone, Sweepers

\* What is in hand and who is a member.
LEMMA HeldOrMember ==
  ASSUME Alone, ClientsTypeOK, InPlace
  PROVE  /\ pc[Main] \in {"sweep", "walk", "new", "spawn"} => Members = live
         /\ pc[Main] = "free" => Members = live \ {cur[Main]}
         /\ pc[Main] \in Holding \ {"spawn"} => Members = live \ {csp}
         /\ Members \subseteq Clients
<1>1. Sweepers = {Main} /\ NONE \notin Clients
  BY AloneSweeps, ClientsAssumption
<1>2. \A c : InHand(c) <=> (c = csp /\ pc[Main] # "spawn") \/ (pc[Main] = "free" /\ cur[Main] = c)
  BY <1>1 DEF InHand
<1> QED
  BY <1>1, <1>2 DEF Members, InPlace, ClientsTypeOK, Holding

LEMMA ListInitially == ASSUME Alone, ClientsInit PROVE ListInv
<1>0. Sweepers = {Main} /\ HEAD \notin Clients /\ NONE \notin Clients /\ MaxClients \in Nat
  BY AloneSweeps, ClientsAssumption
<1>1. ClientsTypeOK
  BY <1>0 DEF ClientsInit, ClientsTypeOK
<1>2. InPlace
  BY <1>0 DEF ClientsInit, InPlace, Holding
<1>3. Members = {}
  BY DEF ClientsInit, Members
<1>4. WalkInPlace
  BY <1>0 DEF ClientsInit, WalkInPlace
<1>5. Served
  BY <1>0, <1>3, FS_EmptySet DEF ClientsInit, Served
<1>6. Capped
  BY <1>0, FS_EmptySet DEF ClientsInit, Capped
<1>7. InOrder
  <2> DEFINE pos == [c \in Clients \cup {HEAD} |-> 0]
  <2>1. Sorted({}, next, pos) /\ Linked({}, next)
    BY DEF ClientsInit, Sorted, Linked
  <2>2. Counts(pos)
    BY <1>0 DEF ClientsInit, Counts
  <2> QED
    BY <1>3, <2>1, <2>2 DEF InOrder
<1> QED
  BY <1>1, <1>2, <1>4, <1>5, <1>6, <1>7 DEF ListInv

\* A step that leaves the members, the list and the walk alone.
LEMMA ListUntouched ==
  ASSUME ListInv, UNCHANGED <<next, last, counted>>, Members' = Members,
         serving' \subseteq serving, pc'[Main] \in {"walk", "free"} => pc[Main] \in {"walk", "free"}
  PROVE  InOrder'
<1>1. PICK pos : Sorted(Members, next, pos) /\ Counts(pos)
  BY DEF ListInv, InOrder
<1>2. Sorted(Members', next', pos) /\ Linked(Members', next')
  BY <1>1 DEF ListInv, InOrder
<1>3. Counts(pos)'
  <2> SUFFICES ASSUME pc'[Main] \in {"walk", "free"}
               PROVE  IsFiniteSet(PassedBy(pos)') /\ Cardinality(PassedBy(pos)') <= counted'[Main]
    BY DEF Counts
  <2>1. IsFiniteSet(PassedBy(pos)) /\ Cardinality(PassedBy(pos)) <= counted[Main]
    BY <1>1 DEF Counts
  <2>2. PassedBy(pos)' \subseteq PassedBy(pos)
    BY DEF PassedBy
  <2>3. /\ IsFiniteSet(PassedBy(pos)') /\ Cardinality(PassedBy(pos)') <= Cardinality(PassedBy(pos))
        /\ Cardinality(PassedBy(pos)) \in Nat /\ Cardinality(PassedBy(pos)') \in Nat
    BY <2>1, <2>2, FS_Subset, FS_CardinalityType
  <2>4. counted[Main] \in Nat
    BY DEF ListInv, ClientsTypeOK, Sweepers
  <2> QED
    BY <2>1, <2>3, <2>4
<1> QED
  BY <1>2, <1>3 DEF InOrder

\* The same in the next state.
LEMMA HeldOrMemberNext ==
  ASSUME Alone, ClientsTypeOK', InPlace'
  PROVE  /\ pc'[Main] \in {"sweep", "walk", "new", "spawn"} => Members' = live'
         /\ pc'[Main] = "free" => Members' = live' \ {cur'[Main]}
         /\ pc'[Main] \in Holding \ {"spawn"} => Members' = live' \ {csp'}
<1>1. Sweepers = {Main} /\ NONE \notin Clients
  BY AloneSweeps, ClientsAssumption
<1>2. \A c : InHand(c)' <=> (c = csp' /\ pc'[Main] # "spawn")
                             \/ (pc'[Main] = "free" /\ cur'[Main] = c)
  BY <1>1 DEF InHand
<1> QED
  BY <1>1, <1>2 DEF Members, InPlace, ClientsTypeOK, Holding

\* The steps of the specification, one by one.
LEMMA ClientsActions ==
  ASSUME Alone, [ClientsNext]_clientVars
  PROVE  \/ BeginWalk(Main) \/ Pass(Main) \/ Unlink(Main) \/ Free(Main) \/ EndWalk(Main)
         \/ New \/ Accept \/ Drop \/ Reject \/ Admit \/ Link \/ Publish \/ Spawn \/ SpawnFails
         \/ \E c \in Clients : Finish(c)
         \/ UNCHANGED clientVars
BY AloneSweeps DEF ClientsNext, Walk, Listen

LEMMA ClientsTypeStep ==
  ASSUME Alone, ListInv, [ClientsNext]_clientVars
  PROVE  ClientsTypeOK'
<1> USE DEF ListInv, ClientsTypeOK, listVars, sweepVars, loopVars, Goto
<1>0. Sweepers = {Main} /\ HEAD \notin Clients /\ NONE \notin Clients
  BY AloneSweeps, ClientsAssumption
<1>1. CASE BeginWalk(Main)
  BY <1>0, <1>1 DEF BeginWalk
<1>2. CASE Pass(Main)
  BY <1>0, <1>2 DEF Pass
<1>3. CASE Unlink(Main)
  BY <1>0, <1>3 DEF Unlink
<1>4. CASE Free(Main)
  <2>1. next[last[Main]] \in Clients \cup {NONE}
    BY <1>0
  <2> QED
    BY <1>0, <1>4, <2>1 DEF Free
<1>5. CASE EndWalk(Main)
  BY <1>0, <1>5 DEF EndWalk
<1>6. CASE New
  BY <1>0, <1>6 DEF New
<1>7. CASE Accept \/ Admit
  BY <1>0, <1>7 DEF Accept, Admit
<1>8. CASE Drop \/ Reject
  BY <1>0, <1>8 DEF Drop, Reject, Discard
<1>9. CASE Link
  BY <1>0, <1>9 DEF Link, InPlace, Holding
<1>10. CASE Publish
  BY <1>0, <1>10 DEF Publish, InPlace, Holding
<1>11. CASE Spawn \/ SpawnFails
  BY <1>0, <1>11 DEF Spawn, SpawnFails, InPlace, Holding
<1>12. CASE \E c \in Clients : Finish(c)
  BY <1>12 DEF Finish
<1>13. CASE UNCHANGED clientVars
  BY <1>13 DEF clientVars
<1> QED
  BY ClientsActions, <1>1, <1>2, <1>3, <1>4, <1>5, <1>6, <1>7, <1>8, <1>9, <1>10, <1>11,
     <1>12, <1>13

\* A member cannot be NONE, the main thread is the only sweeper.
LEMMA ListFacts ==
  ASSUME Alone, ListInv
  PROVE  /\ Sweepers = {Main} /\ HEAD \notin Clients /\ NONE \notin Clients /\ MaxClients \in Nat
         /\ pc \in [{Main} -> {"sweep", "walk", "free", "new", "accept", "limit", "link",
                               "publish", "spawn"}]
         /\ next \in [Clients \cup {HEAD} -> Clients \cup {NONE}]
         /\ last \in [{Main} -> Clients \cup {HEAD}] /\ cur \in [{Main} -> Clients \cup {NONE}]
         /\ counted \in [{Main} -> Nat] /\ threads \in Nat
         /\ live \subseteq Clients /\ Members \subseteq live
         /\ IsFiniteSet(serving) /\ Cardinality(serving) \in Nat
<1>1. Sweepers = {Main} /\ HEAD \notin Clients /\ NONE \notin Clients /\ MaxClients \in Nat
  BY AloneSweeps, ClientsAssumption
<1>2. IsFiniteSet(serving) /\ Cardinality(serving) \in Nat
  BY FS_CardinalityType DEF ListInv, Served
<1> QED
  BY <1>1, <1>2 DEF ListInv, ClientsTypeOK, Members

LEMMA BeginWalkKeeps == ASSUME Alone, ListInv, BeginWalk(Main) PROVE ListInv'
<1> USE DEF listVars, loopVars, Goto
<1>1. ClientsTypeOK'
  BY ClientsTypeStep DEF ClientsNext, Walk, Sweepers
<1>2. /\ pc[Main] = "sweep" /\ pc'[Main] = "walk" /\ last'[Main] = HEAD
      /\ cur'[Main] = next[HEAD] /\ counted'[Main] = 0
      /\ UNCHANGED <<next, live, active, serving, csp, threads>>
  BY ListFacts DEF BeginWalk
<1>3. InPlace'
  BY <1>2 DEF ListInv, InPlace, Holding
<1>4. Members' = Members
  <2>1. Members = live
    BY <1>2, HeldOrMember DEF ListInv
  <2>2. Members' = live'
    BY <1>1, <1>2, <1>3, HeldOrMemberNext
  <2> QED
    BY <1>2, <2>1, <2>2
<1>5. WalkInPlace'
  BY <1>2, <1>4 DEF WalkInPlace
<1>6. Served'
  BY <1>2, <1>4 DEF ListInv, Served
<1>7. InOrder'
  <2>1. PICK pos : Sorted(Members, next, pos)
    BY DEF ListInv, InOrder
  <2>2. PassedBy(pos)' = {}
    <3>1. \A c \in Members : pos[HEAD] < pos[c] /\ pos[c] \in Int /\ pos[HEAD] \in Int
      BY <2>1, ListFacts DEF Sorted
    <3> QED
      BY <1>2, <3>1 DEF PassedBy, ListInv, Served
  <2>3. Counts(pos)'
    BY <1>2, <2>2, FS_EmptySet DEF Counts
  <2> QED
    BY <1>2, <1>4, <2>1, <2>3 DEF ListInv, InOrder
<1>8. Capped'
  BY <1>2 DEF ListInv, Capped
<1> QED
  BY <1>1, <1>3, <1>5, <1>6, <1>7, <1>8 DEF ListInv

LEMMA PassKeeps == ASSUME Alone, ListInv, Pass(Main) PROVE ListInv'
<1> USE DEF listVars, loopVars
<1>1. ClientsTypeOK'
  BY ClientsTypeStep DEF ClientsNext, Walk, Sweepers
<1> DEFINE c == cur[Main]
<1>2. /\ pc[Main] = "walk" /\ pc' = pc /\ last'[Main] = c /\ c \in active
      /\ cur'[Main] = next[c] /\ counted'[Main] = counted[Main] + 1
      /\ UNCHANGED <<next, live, active, serving, csp, threads>>
  BY ListFacts DEF Pass
<1>3. InPlace'
  BY <1>2 DEF ListInv, InPlace, Holding
<1>4. Members' = Members
  <2>1. Members = live
    BY <1>2, HeldOrMember DEF ListInv
  <2>2. Members' = live'
    BY <1>1, <1>2, <1>3, HeldOrMemberNext
  <2> QED
    BY <1>2, <2>1, <2>2
<1>5. PICK pos : Sorted(Members, next, pos) /\ Counts(pos)
  BY DEF ListInv, InOrder
<1>6. c \in Members /\ next[last[Main]] = c /\ last[Main] \in Members \cup {HEAD}
  BY <1>2, <1>5, ListFacts DEF ListInv, WalkInPlace, Sorted, ClientsTypeOK
<1>7. WalkInPlace'
  BY <1>2, <1>4, <1>6 DEF WalkInPlace
<1>8. Served'
  BY <1>2, <1>4 DEF ListInv, Served
<1>9. Counts(pos)'
  <2> DEFINE P == PassedBy(pos)
  <2>1. /\ IsFiniteSet(P) /\ Cardinality(P) <= counted[Main] /\ Cardinality(P) \in Nat
    BY <1>2, <1>5, FS_CardinalityType DEF Counts
  <2>2. PassedBy(pos)' \subseteq P \cup {c}
    <3> SUFFICES ASSUME NEW d \in serving, pos[d] <= pos[c], d # c PROVE pos[d] <= pos[last[Main]]
      BY <1>2 DEF PassedBy
    <3>1. d \in Members /\ pos[d] # pos[c]
      BY <1>5, <1>6 DEF ListInv, Served, Sorted
    <3>2. pos[d] \in Int /\ pos[c] \in Int /\ pos[last[Main]] \in Int
      BY <1>5, <1>6, <3>1, ListFacts DEF Sorted
    <3>3. pos[last[Main]] < pos[d] => pos[c] <= pos[d]
      BY <1>5, <1>6, <3>1 DEF Sorted
    <3> QED
      BY <3>1, <3>2, <3>3
  <2> HIDE DEF P
  <2>3. IsFiniteSet(P \cup {c}) /\ Cardinality(P \cup {c}) <= Cardinality(P) + 1
        /\ Cardinality(P \cup {c}) \in Nat
    <3>1. /\ IsFiniteSet(P \cup {c})
          /\ Cardinality(P \cup {c}) = IF c \in P THEN Cardinality(P) ELSE Cardinality(P) + 1
      BY <2>1, FS_AddElement
    <3> QED
      BY <2>1, <3>1
  <2>4. /\ IsFiniteSet(PassedBy(pos)') /\ Cardinality(PassedBy(pos)') <= Cardinality(P \cup {c})
        /\ Cardinality(PassedBy(pos)') \in Nat
    BY <2>2, <2>3, FS_Subset, FS_CardinalityType
  <2>5. counted[Main] \in Nat
    BY ListFacts
  <2>6. Cardinality(PassedBy(pos)') <= counted'[Main]
    BY <1>2, <2>1, <2>3, <2>4, <2>5
  <2> QED
    BY <2>4, <2>6 DEF Counts
<1>10. InOrder'
  BY <1>2, <1>4, <1>5, <1>9 DEF ListInv, InOrder
<1>11. Capped'
  BY <1>2 DEF ListInv, Capped
<1> QED
  BY <1>1, <1>3, <1>7, <1>8, <1>10, <1>11 DEF ListInv

LEMMA UnlinkKeeps == ASSUME Alone, ListInv, Unlink(Main) PROVE ListInv'
<1> USE DEF sweepVars, loopVars, Goto
<1>1. ClientsTypeOK'
  BY ClientsTypeStep DEF ClientsNext, Walk, Sweepers
<1> DEFINE a == last[Main]
<1> DEFINE b == cur[Main]
<1>2. /\ pc[Main] = "walk" /\ pc'[Main] = "free" /\ b \in Clients \ active
      /\ next' = [next EXCEPT ![a] = next[b]]
      /\ UNCHANGED <<last, cur, counted, live, active, serving, csp, threads>>
  BY ListFacts DEF Unlink
<1>3. InPlace'
  BY <1>2 DEF ListInv, InPlace, Holding
<1>4. PICK pos : Sorted(Members, next, pos) /\ Counts(pos)
  BY DEF ListInv, InOrder
<1>5. b \in Members /\ next[a] = b /\ a \in Members \cup {HEAD}
  BY <1>2, <1>4, ListFacts DEF ListInv, WalkInPlace, Sorted
<1>6. Members = live /\ Members' = Members \ {b}
  BY <1>1, <1>2, <1>3, HeldOrMember, HeldOrMemberNext DEF ListInv
<1>7. Sorted(Members', next', pos) /\ Linked(Members', next') /\ a # b
  <2>1. Members \in SUBSET Clients /\ next \in [Clients \cup {HEAD} -> Clients \cup {NONE}]
    BY ListFacts
  <2>2. Linked(Members, next)
    BY DEF ListInv, InOrder
  <2> QED
    BY <1>2, <1>4, <1>5, <1>6, <2>1, <2>2, TakenOut, ZenonT(30)
<1>8. WalkInPlace'
  BY <1>2, <1>5, <1>6, <1>7 DEF WalkInPlace
<1>9. Served'
  BY <1>2, <1>6 DEF ListInv, Served
<1>10. Counts(pos)'
  BY <1>2, <1>4 DEF Counts, PassedBy
<1>11. InOrder'
  BY <1>7, <1>10 DEF InOrder
<1>12. Capped'
  BY <1>2 DEF ListInv, Capped
<1> QED
  BY <1>1, <1>3, <1>8, <1>9, <1>11, <1>12 DEF ListInv

LEMMA FreeKeeps == ASSUME Alone, ListInv, Free(Main) PROVE ListInv'
<1> USE DEF loopVars, Goto
<1>1. ClientsTypeOK'
  BY ClientsTypeStep DEF ClientsNext, Walk, Sweepers
<1>2. /\ pc[Main] = "free" /\ pc'[Main] = "walk" /\ live' = live \ {cur[Main]}
      /\ cur'[Main] = next[last[Main]]
      /\ UNCHANGED <<next, last, counted, active, serving, csp, threads>>
  BY ListFacts DEF Free
<1>3. InPlace'
  BY <1>2 DEF ListInv, InPlace, Holding
<1>4. Members' = Members
  <2>1. Members = live \ {cur[Main]}
    BY <1>2, HeldOrMember DEF ListInv
  <2>2. Members' = live'
    BY <1>1, <1>2, <1>3, HeldOrMemberNext
  <2> QED
    BY <1>2, <2>1, <2>2
<1>5. WalkInPlace'
  BY <1>2, <1>4 DEF ListInv, WalkInPlace
<1>6. Served'
  BY <1>2, <1>4 DEF ListInv, Served
<1>7. InOrder'
  BY <1>2, <1>4, ListUntouched
<1>8. Capped'
  BY <1>2 DEF ListInv, Capped
<1> QED
  BY <1>1, <1>3, <1>5, <1>6, <1>7, <1>8 DEF ListInv

\* At the end of the list the walk has passed and counted all clients that are served.
LEMMA EndWalkKeeps == ASSUME Alone, ListInv, EndWalk(Main) PROVE ListInv'
<1> USE DEF listVars, sweepVars, Goto
<1>1. ClientsTypeOK'
  BY ClientsTypeStep DEF ClientsNext, Walk, Sweepers
<1>2. /\ pc[Main] = "walk" /\ pc'[Main] = "new" /\ cur[Main] = NONE
      /\ threads' = counted[Main]
      /\ UNCHANGED <<next, last, cur, counted, live, active, serving, csp>>
  BY ListFacts DEF EndWalk
<1>3. InPlace'
  BY <1>2 DEF ListInv, InPlace, Holding
<1>4. Members' = Members
  <2>1. Members = live
    BY <1>2, HeldOrMember DEF ListInv
  <2>2. Members' = live'
    BY <1>1, <1>2, <1>3, HeldOrMemberNext
  <2> QED
    BY <1>2, <2>1, <2>2
<1>5. WalkInPlace'
  BY <1>2 DEF WalkInPlace
<1>6. Served'
  BY <1>2, <1>4 DEF ListInv, Served
<1>7. InOrder'
  BY <1>2, <1>4, ListUntouched
<1>8. Cardinality(serving) <= counted[Main]
  <2>1. PICK pos : Sorted(Members, next, pos) /\ Counts(pos)
    BY DEF ListInv, InOrder
  <2>2. next[last[Main]] = NONE /\ last[Main] \in Members \cup {HEAD}
    BY <1>2 DEF ListInv, WalkInPlace
  <2>3. PassedBy(pos) = serving
    <3> SUFFICES ASSUME NEW c \in serving PROVE pos[c] <= pos[last[Main]]
      BY DEF PassedBy
    <3>1. c \in Members /\ pos[c] \in Int /\ pos[last[Main]] \in Int
      BY <2>1, <2>2, ListFacts DEF ListInv, Served, Sorted
    <3>2. ~(pos[last[Main]] < pos[c])
      BY <2>1, <2>2, <3>1 DEF Sorted
    <3> QED
      BY <3>1, <3>2
  <2> QED
    BY <1>2, <2>1, <2>3 DEF Counts
<1>9. Capped'
  BY <1>2, <1>8 DEF ListInv, Capped
<1> QED
  BY <1>1, <1>3, <1>5, <1>6, <1>7, <1>9 DEF ListInv

LEMMA NewKeeps == ASSUME Alone, ListInv, New PROVE ListInv'
<1> USE DEF sweepVars, Goto
<1>1. ClientsTypeOK'
  BY ClientsTypeStep DEF ClientsNext, Listen
<1>2. PICK c \in Clients \ live : /\ csp' = c /\ live' = live \cup {c}
                                  /\ next' = [next EXCEPT ![c] = NONE]
                                  /\ active' = active \cup {c}
  BY DEF New
<1>3. /\ pc[Main] = "new" /\ pc'[Main] = "accept"
      /\ UNCHANGED <<last, cur, counted, serving, threads>>
  BY ListFacts DEF New
<1>4. InPlace'
  BY <1>2, <1>3 DEF ListInv, InPlace, Holding
<1>5. Members' = Members /\ Members = live
  <2>1. Members = live
    BY <1>3, HeldOrMember DEF ListInv
  <2>2. Members' = live' \ {csp'}
    BY <1>1, <1>3, <1>4, HeldOrMemberNext DEF Holding
  <2> QED
    BY <1>2, <2>1, <2>2
<1>6. WalkInPlace'
  BY <1>3 DEF WalkInPlace
<1>7. Served'
  BY <1>2, <1>3, <1>5 DEF ListInv, Served
<1>8. InOrder'
  <2>1. PICK pos : Sorted(Members, next, pos)
    BY DEF ListInv, InOrder
  <2>2. Members \in SUBSET Clients /\ next \in [Clients \cup {HEAD} -> Clients \cup {NONE}]
    BY ListFacts
  <2>3. Sorted(Members, next', pos) /\ Linked(Members, next')
    BY <1>2, <1>5, <2>1, <2>2, OutsideTheList DEF ListInv, InOrder
  <2>4. Counts(pos)'
    BY <1>3 DEF Counts
  <2> QED
    BY <1>5, <2>3, <2>4 DEF InOrder
<1>9. Capped'
  BY <1>3 DEF ListInv, Capped
<1> QED
  BY <1>1, <1>4, <1>6, <1>7, <1>8, <1>9 DEF ListInv

LEMMA AcceptKeeps == ASSUME Alone, ListInv, Accept \/ Admit PROVE ListInv'
<1> USE DEF listVars, sweepVars, loopVars, Goto
<1>1. ClientsTypeOK'
  BY ClientsTypeStep DEF ClientsNext, Listen
<1>2. /\ \/ pc[Main] = "accept" /\ pc'[Main] = "limit"
         \/ pc[Main] = "limit" /\ pc'[Main] = "link" /\ ~Full
      /\ UNCHANGED <<next, last, cur, counted, live, active, serving, csp, threads>>
  BY ListFacts DEF Accept, Admit
<1>3. InPlace'
  BY <1>2 DEF ListInv, InPlace, Holding
<1>4. Members' = Members
  <2>1. Members = live \ {csp}
    BY <1>2, HeldOrMember DEF ListInv, Holding
  <2>2. Members' = live' \ {csp'}
    BY <1>1, <1>2, <1>3, HeldOrMemberNext DEF Holding
  <2> QED
    BY <1>2, <2>1, <2>2
<1>5. WalkInPlace'
  BY <1>2 DEF WalkInPlace
<1>6. Served'
  BY <1>2, <1>4 DEF ListInv, Served
<1>7. InOrder'
  BY <1>2, <1>4, ListUntouched
<1>8. Capped'
  <2>1. ~Full => MaxClients = 0 \/ threads < MaxClients
    BY ListFacts DEF Full
  <2> QED
    BY <1>2, <2>1 DEF ListInv, Capped
<1> QED
  BY <1>1, <1>3, <1>5, <1>6, <1>7, <1>8 DEF ListInv

LEMMA DiscardKeeps == ASSUME Alone, ListInv, Drop \/ Reject PROVE ListInv'
<1> USE DEF sweepVars, Goto
<1>1. ClientsTypeOK'
  BY ClientsTypeStep DEF ClientsNext, Listen
<1>2. /\ pc[Main] \in {"accept", "limit"} /\ pc'[Main] = "sweep"
      /\ live' = live \ {csp} /\ csp' = NONE
      /\ UNCHANGED <<next, last, cur, counted, active, serving, threads>>
  BY ListFacts DEF Drop, Reject, Discard
<1>3. InPlace'
  BY <1>2 DEF ListInv, InPlace, Holding
<1>4. Members' = Members
  <2>1. Members = live \ {csp}
    BY <1>2, HeldOrMember DEF ListInv, Holding
  <2>2. Members' = live'
    BY <1>1, <1>2, <1>3, HeldOrMemberNext
  <2> QED
    BY <1>2, <2>1, <2>2
<1>5. WalkInPlace'
  BY <1>2 DEF WalkInPlace
<1>6. Served'
  BY <1>2, <1>4, ListFacts DEF ListInv, Served
<1>7. InOrder'
  BY <1>2, <1>4, ListUntouched
<1>8. Capped'
  BY <1>2 DEF ListInv, Capped
<1> QED
  BY <1>1, <1>3, <1>5, <1>6, <1>7, <1>8 DEF ListInv

LEMMA LinkKeeps == ASSUME Alone, ListInv, Link PROVE ListInv'
<1> USE DEF sweepVars, loopVars, Goto
<1>1. ClientsTypeOK'
  BY ClientsTypeStep DEF ClientsNext, Listen
<1>2. /\ pc[Main] = "link" /\ pc'[Main] = "publish"
      /\ next' = [next EXCEPT ![csp] = next[HEAD]]
      /\ UNCHANGED <<last, cur, counted, live, active, serving, csp, threads>>
  BY ListFacts DEF Link
<1>3. csp \in live /\ csp \in Clients
  BY <1>2, ListFacts DEF ListInv, InPlace, Holding
<1>4. InPlace'
  BY <1>2, <1>3, ListFacts DEF ListInv, InPlace, Holding
<1>5. Members' = Members /\ csp \notin Members
  <2>1. Members = live \ {csp}
    BY <1>2, HeldOrMember DEF ListInv, Holding
  <2>2. Members' = live' \ {csp'}
    BY <1>1, <1>2, <1>4, HeldOrMemberNext DEF Holding
  <2> QED
    BY <1>2, <2>1, <2>2
<1>6. WalkInPlace'
  BY <1>2 DEF WalkInPlace
<1>7. Served'
  BY <1>2, <1>5 DEF ListInv, Served
<1>8. InOrder'
  <2>1. PICK pos : Sorted(Members, next, pos)
    BY DEF ListInv, InOrder
  <2>2. Members \in SUBSET Clients /\ next \in [Clients \cup {HEAD} -> Clients \cup {NONE}]
    BY ListFacts
  <2>3. Sorted(Members, next', pos) /\ Linked(Members, next')
    BY <1>2, <1>3, <1>5, <2>1, <2>2, OutsideTheList DEF ListInv, InOrder
  <2>4. Counts(pos)'
    BY <1>2 DEF Counts
  <2> QED
    BY <1>5, <2>3, <2>4 DEF InOrder
<1>9. Capped'
  BY <1>2 DEF ListInv, Capped
<1> QED
  BY <1>1, <1>4, <1>6, <1>7, <1>8, <1>9 DEF ListInv

LEMMA PublishKeeps == ASSUME Alone, ListInv, Publish PROVE ListInv'
<1> USE DEF sweepVars, loopVars, Goto
<1>1. ClientsTypeOK'
  BY ClientsTypeStep DEF ClientsNext, Listen
<1>2. /\ pc[Main] = "publish" /\ pc'[Main] = "spawn"
      /\ next' = [next EXCEPT ![HEAD] = csp]
      /\ UNCHANGED <<last, cur, counted, live, active, serving, csp, threads>>
  BY ListFacts DEF Publish
<1>3. csp \in live /\ csp \in Clients /\ next[csp] = next[HEAD]
  BY <1>2, ListFacts DEF ListInv, InPlace, Holding
<1>4. InPlace'
  BY <1>2, <1>3 DEF ListInv, InPlace, Holding
<1>5. Members = live \ {csp} /\ Members' = Members \cup {csp}
  <2>1. Members = live \ {csp}
    BY <1>2, HeldOrMember DEF ListInv, Holding
  <2>2. Members' = live'
    BY <1>1, <1>2, <1>4, HeldOrMemberNext
  <2> QED
    BY <1>2, <1>3, <2>1, <2>2
<1>6. WalkInPlace'
  BY <1>2 DEF WalkInPlace
<1>7. Served'
  BY <1>2, <1>5 DEF ListInv, Served
<1>8. InOrder'
  <2>1. PICK pos : Sorted(Members, next, pos)
    BY DEF ListInv, InOrder
  <2>2. Members \in SUBSET Clients /\ next \in [Clients \cup {HEAD} -> Clients \cup {NONE}]
    BY ListFacts
  <2>3. Linked(Members', next') /\ \E q : Sorted(Members', next', q)
    BY <1>2, <1>3, <1>5, <2>1, <2>2, PutInFront DEF ListInv, InOrder
  <2>4. \A q : Counts(q)'
    BY <1>2 DEF Counts
  <2> QED
    BY <2>3, <2>4 DEF InOrder
<1>9. Capped'
  BY <1>2 DEF ListInv, Capped
<1> QED
  BY <1>1, <1>4, <1>6, <1>7, <1>8, <1>9 DEF ListInv

LEMMA SpawnKeeps == ASSUME Alone, ListInv, Spawn \/ SpawnFails PROVE ListInv'
<1> USE DEF sweepVars, Goto
<1>1. ClientsTypeOK'
  BY ClientsTypeStep DEF ClientsNext, Listen
<1>2. /\ pc[Main] = "spawn" /\ pc'[Main] = "sweep" /\ csp' = NONE
      /\ \/ serving' = serving \cup {csp} /\ active' = active
         \/ serving' = serving /\ active' = active \ {csp}
      /\ UNCHANGED <<next, last, cur, counted, live, threads>>
  BY ListFacts DEF Spawn, SpawnFails
<1>3. InPlace'
  BY <1>2 DEF ListInv, InPlace, Holding
<1>4. Members' = Members /\ Members = live
  <2>1. Members = live
    BY <1>2, HeldOrMember DEF ListInv
  <2>2. Members' = live'
    BY <1>1, <1>2, <1>3, HeldOrMemberNext
  <2> QED
    BY <1>2, <2>1, <2>2
<1>5. WalkInPlace'
  BY <1>2 DEF WalkInPlace
<1>6. /\ IsFiniteSet(serving') /\ Cardinality(serving') <= Cardinality(serving) + 1
      /\ Cardinality(serving') \in Nat
  BY <1>2, ListFacts, FS_AddElement
<1>7. csp \in live /\ csp \in active
  BY <1>2 DEF ListInv, InPlace, Holding
<1>8. Served'
  BY <1>2, <1>4, <1>6, <1>7, ListFacts DEF ListInv, Served
<1>9. InOrder'
  <2>1. PICK pos : Sorted(Members, next, pos) /\ Linked(Members, next)
    BY DEF ListInv, InOrder
  <2>2. Counts(pos)'
    BY <1>2 DEF Counts
  <2> QED
    BY <1>2, <1>4, <2>1, <2>2 DEF InOrder
<1>10. Capped'
  BY <1>2, <1>6, ListFacts DEF ListInv, Capped
<1> QED
  BY <1>1, <1>3, <1>5, <1>8, <1>9, <1>10 DEF ListInv

LEMMA FinishKeeps == ASSUME Alone, ListInv, NEW c \in Clients, Finish(c) PROVE ListInv'
<1> USE DEF sweepVars, loopVars
<1>1. ClientsTypeOK'
  BY ClientsTypeStep DEF ClientsNext
<1>2. /\ active' = active \ {c} /\ serving' = serving \ {c} /\ pc' = pc /\ c \in serving
      /\ UNCHANGED <<next, last, cur, counted, live, csp, threads>>
  BY DEF Finish
<1>3. InPlace'
  BY <1>2 DEF ListInv, InPlace, Holding, Served, ClientsTypeOK
<1>4. Members' = Members
  BY <1>2 DEF Members, InHand
<1>5. WalkInPlace'
  BY <1>2, <1>4 DEF ListInv, WalkInPlace
<1>6. /\ IsFiniteSet(serving') /\ Cardinality(serving') <= Cardinality(serving)
      /\ Cardinality(serving') \in Nat
  BY <1>2, ListFacts, FS_Subset, FS_CardinalityType
<1>7. Served'
  BY <1>2, <1>4, <1>6 DEF ListInv, Served
<1>8. InOrder'
  BY <1>2, <1>4, ListUntouched
<1>9. Capped'
  BY <1>2, <1>6, ListFacts DEF ListInv, Capped
<1> QED
  BY <1>1, <1>3, <1>5, <1>7, <1>8, <1>9 DEF ListInv

LEMMA ListInvStep == ASSUME Alone, ListInv, [ClientsNext]_clientVars PROVE ListInv'
<1>1. CASE UNCHANGED clientVars
  <2>1. Members' = Members
    BY <1>1 DEF clientVars, listVars, sweepVars, loopVars, Members, InHand
  <2>2. InOrder'
    BY <1>1, <2>1, ListUntouched DEF clientVars, listVars, sweepVars, loopVars
  <2> QED
    BY <1>1, <2>1, <2>2 DEF clientVars, listVars, sweepVars, loopVars, ListInv, ClientsTypeOK,
       InPlace, WalkInPlace, Served, Capped
<1> QED
  BY <1>1, ClientsActions, BeginWalkKeeps, PassKeeps, UnlinkKeeps, FreeKeeps, EndWalkKeeps,
     NewKeeps, AcceptKeeps, DiscardKeeps, LinkKeeps, PublishKeeps, SpawnKeeps, FinishKeeps

\* As long as only the main thread walks it, the list of clients leads from its head through
\* all of them, each once, whatever clients and their threads do (seeks_proxy.cpp 2425-2655,
\* sweeper.cpp 94-158).
THEOREM ListInvariant == ASSUME Servers = {} PROVE ClientsSpec => []ListInv
<1>0. Alone
  BY DEF Alone
<1>1. ClientsInit => ListInv
  BY <1>0, ListInitially
<1>2. ListInv /\ [ClientsNext]_clientVars => ListInv'
  BY <1>0, ListInvStep
<1> QED
  BY <1>1, <1>2, PTL DEF ClientsSpec

\* The variables of the list, of the walk and of the loop keep their types.
THEOREM ClientsTypeCorrect == ASSUME Servers = {} PROVE ClientsSpec => []ClientsTypeOK
<1>1. ListInv => ClientsTypeOK
  BY DEF ListInv
<1> QED
  BY <1>1, ListInvariant, PTL

LEMMA ListInvUses == ASSUME Alone, ListInv PROVE UsedIsLive
<1>1. SweptIsLive
  <2>1. Sweepers = {Main} /\ Members \subseteq live
    BY ListFacts
  <2>2. ASSUME pc[Main] = "walk" PROVE cur[Main] \in live \cup {NONE}
    <3>1. PICK pos : Sorted(Members, next, pos)
      BY DEF ListInv, InOrder
    <3> QED
      BY <2>1, <2>2, <3>1 DEF ListInv, WalkInPlace, Sorted
  <2> QED
    BY <2>1, <2>2 DEF ListInv, WalkInPlace, SweptIsLive, Walking
<1>2. ServedIsLive
  BY ListFacts DEF ListInv, Served, ServedIsLive
<1>3. ListedOnce
  <2> SUFFICES ASSUME NEW c \in Members PROVE Cardinality(Pointing(c)) = 1
    BY DEF ListedOnce
  <2>1. PICK pos : Sorted(Members, next, pos) /\ Linked(Members, next)
    BY DEF ListInv, InOrder
  <2>2. PICK d \in Members \cup {HEAD} : Pointing(c) = {d}
    BY <2>1, ListFacts, OnePlace DEF Pointing
  <2> QED
    BY <2>2, FS_Singleton
<1> QED
  BY <1>1, <1>2, <1>3 DEF UsedIsLive

\* With any number of clients and whenever their threads end, the sweeper looks only at
\* clients that are allocated and frees each once, none whose thread runs is freed, and none
\* is lost from the list, provided that no other thread walks it (sweeper.cpp 94-158).
THEOREM UsedIsLiveAlways == ASSUME Servers = {} PROVE ClientsSpec => []UsedIsLive
<1>1. ListInv => UsedIsLive
  BY ListInvUses DEF Alone
<1> QED
  BY <1>1, ListInvariant, PTL

\* The limit of connections holds although the count is taken before the connection is
\* accepted (seeks_proxy.cpp 2528): the walk counts every client whose thread runs.
THEOREM CapHoldsAlways == ASSUME Servers = {} PROVE ClientsSpec => []CapHolds
<1>1. ListInv => CapHolds
  BY DEF ListInv, Capped, CapHolds
<1> QED
  BY <1>1, ListInvariant, PTL

-----------------------------------------------------------------------------
(* The exchange.                                                           *)

Has(what) == \E i \in DOMAIN told : told[i] = what

Underway == at \in {"plugins", "crunch", "connect", "read", "account"}

\* Until the head has ended, what was counted is the beginning of a line.
HeadComes ==
    Underway /\ ~body =>
        /\ count = got - Parsed(got) /\ got <= HeadSize /\ expected = UNKNOWN
        /\ ~filtering /\ ~serverKeeps /\ out = 0 /\ ~Has("head")

\* What ends a chunked answer, or looks like its end.
AtAnEnd == got = Total \/ (ans.fake # 0 /\ got = HeadSize + ans.fake)

\* Then all of the body is counted, and exactly it if it was to be filtered.
BodyComes ==
    Underway /\ body =>
        /\ got >= HeadSize /\ count - (got - HeadSize) \in PartOfLine
        /\ filters => count = got - HeadSize
        /\ filtering => filters
        /\ ans.status # 0 => status = ans.status
        /\ ans.framing = "length" => expected = ans.body
        /\ ans.framing # "length" /\ expected # UNKNOWN
              => ans.framing = "chunked" /\ expected <= count /\ AtAnEnd

\* What the client was told, and where.
ToldInOrder ==
    /\ at \in {"plugins", "crunch", "connect"} => ~body
    /\ Underway => ~Has("page")
    /\ Has("page") => out = 0
    /\ \A i, j \in DOMAIN told : told[i] = "head" /\ told[j] = "head" => i = j
    /\ out > 0 => Has("head")
    /\ at = "read" /\ body => /\ filtering => out = 0 /\ ~Has("head")
                              /\ ~filtering => Has("head") /\ out = got - HeadSize

\* The answer of a connection that goes on.
IsWhole ==
    req.method # "HEAD" /\ status # 304
        => \/ ans.framing = "length" /\ Total - got = count - BodyRead
           \/ ans.framing = "chunked" /\ AtAnEnd

Kept ==
    /\ at \in {"plugins", "crunch", "connect", "read"} => end = "none"
    /\ at = "account" /\ serverKeeps => tainted \/ end = "server" \/ Complete
    /\ at = "over" /\ MayContinue => IsWhole
    /\ at = "idle" /\ served > 0 => IsWhole

ExchangeInv == /\ ExchangeTypeOK /\ HeadComes /\ BodyComes /\ ToldInOrder /\ Kept
               /\ FilteredIsWhole

LEMMA ExchangeConstants ==
  /\ \A a \in Answers : a.body \in Nat /\ a.status \in Nat /\ a.fake \in Nat /\ a.keep \in BOOLEAN
  /\ \A r \in Asked : r.keep \in BOOLEAN /\ r.filtered \in BOOLEAN /\ r.more \in BOOLEAN
  /\ LineEnds \in SUBSET Nat /\ 0 \in LineEnds /\ IsFiniteSet(LineEnds)
<1>1. \A a \in Answers : a.body \in Nat /\ a.status \in Nat /\ a.fake \in Nat /\ a.keep \in BOOLEAN
  BY Zenon, ExchangeAssumption
<1>2. \A r \in Asked : r.keep \in BOOLEAN /\ r.filtered \in BOOLEAN /\ r.more \in BOOLEAN
  BY Zenon, ExchangeAssumption
<1>3. LineEnds \in SUBSET Nat /\ 0 \in LineEnds /\ IsFiniteSet(LineEnds)
  BY ExchangeAssumption
<1> QED
  BY <1>1, <1>2, <1>3

\* What has been read ends behind the lines that are whole.
LEMMA ParsedLines ==
  /\ HeadSize \in Nat /\ HeadSize \in LineEnds
  /\ \A n \in Nat : Parsed(n) \in Nat /\ Parsed(n) <= n
  /\ Parsed(0) = 0
<1>0. LineEnds \in SUBSET Nat /\ 0 \in LineEnds /\ IsFiniteSet(LineEnds)
  BY ExchangeConstants
<1>1. HeadSize \in LineEnds
  <2>1. PICK n \in Nat : LineEnds \subseteq 0 .. n
    BY <1>0, FiniteHasMax
  <2> QED
    BY <1>0, <2>1, MaxBelow DEF HeadSize
<1>2. ASSUME NEW n \in Nat PROVE Parsed(n) \in Nat /\ Parsed(n) <= n
  <2> DEFINE S == {e \in LineEnds : e <= n}
  <2>1. S \in SUBSET (0 .. n) /\ S # {}
    <3>1. 0 \in S
      BY <1>0
    <3>2. \A e \in S : e \in 0 .. n
      BY <1>0
    <3> QED
      BY <3>1, <3>2
  <2> HIDE DEF S
  <2>2. Max(S) \in S
    BY <2>1, MaxBelow
  <2>3. Parsed(n) = Max(S)
    BY DEF Parsed, S
  <2>4. Max(S) \in 0 .. n
    BY <2>1, <2>2
  <2> QED
    BY <2>3, <2>4
<1>3. Parsed(0) \in Nat /\ Parsed(0) <= 0
  BY <1>2
<1> QED
  BY <1>0, <1>1, <1>2, <1>3

\* The beginning of a line has some bytes, or none.
LEMMA PartsOfLine ==
  /\ \A p \in PartOfLine : p \in Nat
  /\ 0 \in PartOfLine
  /\ \A n \in Nat : n <= HeadSize => n - Parsed(n) \in PartOfLine
<1>1. 0 \in 0 .. HeadSize /\ 0 - Parsed(0) = 0
  BY ParsedLines
<1>2. \A n \in 0 .. HeadSize : n - Parsed(n) \in Nat
  BY ParsedLines
<1>3. \A n \in Nat : n <= HeadSize => n \in 0 .. HeadSize
  BY ParsedLines
<1> QED
  BY <1>1, <1>2, <1>3 DEF PartOfLine

\* The client is told something more.
LEMMA Telling ==
  ASSUME told \in Seq(Said), NEW x \in Said, Tell(x)
  PROVE  /\ told' \in Seq(Said)
         /\ \A y : Has(y)' <=> Has(y) \/ y = x
         /\ (\A i, j \in DOMAIN told : told[i] = "head" /\ told[j] = "head" => i = j)
              /\ (x # "head" \/ ~Has("head"))
              => \A i, j \in DOMAIN told' : told'[i] = "head" /\ told'[j] = "head" => i = j
<1>1. told' = Append(told, x)
  BY DEF Tell
<1>2. /\ told' \in Seq(Said) /\ Len(told') = Len(told) + 1 /\ Len(told) \in Nat
      /\ \A i \in 1 .. Len(told) : told'[i] = told[i]
      /\ told'[Len(told) + 1] = x
  BY <1>1
<1>3. DOMAIN told = 1 .. Len(told) /\ DOMAIN told' = 1 .. Len(told) + 1
  BY <1>2
<1>4. ASSUME NEW y PROVE Has(y)' <=> Has(y) \/ y = x
  BY <1>2, <1>3 DEF Has
<1>5. ASSUME \A i, j \in DOMAIN told : told[i] = "head" /\ told[j] = "head" => i = j,
             x # "head" \/ ~Has("head"),
             NEW i \in DOMAIN told', NEW j \in DOMAIN told', told'[i] = "head", told'[j] = "head"
      PROVE  i = j
  <2>1. CASE x # "head"
    BY <1>2, <1>3, <1>5, <2>1
  <2>2. CASE ~Has("head")
    BY <1>2, <1>3, <1>5, <2>2 DEF Has
  <2> QED
    BY <1>5, <2>1, <2>2
<1> QED
  BY <1>2, <1>4, <1>5

LEMMA ExchangeInitially == ExchangeInit => ExchangeInv
<1> SUFFICES ASSUME ExchangeInit PROVE ExchangeInv
  OBVIOUS
<1> USE DEF ExchangeInit, UNKNOWN
<1>1. ExchangeTypeOK
  <2>1. told \in Seq(Said)
    OBVIOUS
  <2>2. /\ at \in Stations /\ req \in Asked /\ ans \in Answers
        /\ got \in Nat /\ count \in Int /\ expected \in Int /\ out \in Nat
        /\ status \in Nat /\ served \in Nat
    BY DEF Stations
  <2> QED
    BY <2>1, <2>2 DEF ExchangeTypeOK
<1>2. HeadComes
  BY DEF HeadComes, Underway
<1>3. BodyComes /\ Kept /\ FilteredIsWhole
  BY DEF BodyComes, Underway, Kept, FilteredIsWhole
<1>4. ToldInOrder
  BY DEF ToldInOrder, Has
<1> QED
  BY <1>1, <1>2, <1>3, <1>4 DEF ExchangeInv

\* The steps of the specification, one by one.
LEMMA ExchangeActions ==
  ASSUME [ExchangeNext]_exchangeVars
  PROVE  \/ Receive \/ ReceiveFails \/ Intercept \/ Crunched \/ ConnectAndSend
         \/ ConnectOrSendFails \/ ReadHead \/ ReadBody \/ StopReading \/ ServerEnds
         \/ ServerEndsInHead \/ HeadRefused \/ ReadTimeout \/ ReadFails \/ ClientEnds \/ Account
         \/ Continue \/ Close \/ UNCHANGED exchangeVars
BY DEF ExchangeNext, ExchangeStep, ExchangeOver

LEMMA ReceiveKeeps == ASSUME ExchangeInv, Receive PROVE ExchangeInv'
<1>1. /\ req' \in Asked /\ ans' \in Answers /\ filters' = (filters \/ req'.filtered)
      /\ tainted' = (req'.keep /\ req'.more)
  BY DEF Receive
<1>2. /\ served' = served + 1 /\ at' = "plugins"
      /\ got' = 0 /\ count' = 0 /\ expected' = UNKNOWN /\ body' = FALSE /\ filtering' = FALSE
      /\ end' = "none" /\ serverKeeps' = FALSE /\ told' = <<>> /\ out' = 0
      /\ UNCHANGED status
  BY DEF Receive
<1>3. filters' \in BOOLEAN /\ tainted' \in BOOLEAN
  BY <1>1, ExchangeConstants DEF ExchangeInv, ExchangeTypeOK
<1>4. told' \in Seq(Said) /\ \A x : ~Has(x)'
  BY <1>2 DEF Has
<1>5. ExchangeTypeOK'
  <2>1. expected' \in Int
    BY <1>2 DEF UNKNOWN
  <2> QED
    <3>1. status \in Nat /\ served + 1 \in Nat
      BY DEF ExchangeInv, ExchangeTypeOK
    <3>2. /\ at' \in Stations /\ got' \in Nat /\ count' \in Int /\ out' \in Nat
          /\ status' \in Nat /\ served' \in Nat
      BY <1>2, <3>1 DEF Stations
    <3>3. /\ body' \in BOOLEAN /\ filtering' \in BOOLEAN /\ serverKeeps' \in BOOLEAN
          /\ end' \in {"none", "early", "whole", "server"}
      BY <1>2
    <3> QED
      BY <1>1, <1>3, <1>4, <2>1, <3>2, <3>3 DEF ExchangeTypeOK
<1>6. HeadComes'
  BY <1>2, <1>4, ParsedLines DEF HeadComes
<1>7. ToldInOrder'
  BY <1>2, <1>4 DEF ToldInOrder
<1>8. BodyComes' /\ Kept' /\ FilteredIsWhole'
  BY <1>2 DEF BodyComes, Kept, FilteredIsWhole
<1> QED
  BY <1>5, <1>6, <1>7, <1>8 DEF ExchangeInv

\* The answer so far, and what the client was told of it.
soFar == <<req, ans, got, count, expected, body, filtering, end, filters, serverKeeps, status,
           out, served>>

LEMMA SoFarKept ==
  ASSUME ExchangeInv, UNCHANGED soFar, at' \in Stations, tainted' \in BOOLEAN,
         told' \in Seq(Said), Has("head")' <=> Has("head"), Underway' => Underway
  PROVE  ExchangeTypeOK' /\ HeadComes' /\ BodyComes'
<1> USE DEF ExchangeInv, soFar
<1>1. ExchangeTypeOK'
  BY DEF ExchangeTypeOK
<1>2. HeadComes'
  BY DEF HeadComes
<1>3. BodyComes'
  BY DEF BodyComes, AtAnEnd, Total
<1> QED
  BY <1>1, <1>2, <1>3

\* The answer of a connection that goes on stays what it is.
LEMMA WholeKept == ASSUME UNCHANGED soFar PROVE IsWhole' <=> IsWhole
BY DEF soFar, IsWhole, AtAnEnd, Total, BodyRead

LEMMA QuietKeeps ==
  ASSUME ExchangeInv, ReceiveFails \/ ConnectAndSend \/ Continue \/ Close
  PROVE  ExchangeInv'
<1> USE DEF requestVars, answerVars
<1>1. /\ UNCHANGED <<soFar, tainted, told>>
      /\ \/ at = "idle" /\ at' = "closed"
         \/ at = "connect" /\ at' = "read"
         \/ at = "over" /\ MayContinue /\ at' = "idle"
         \/ at = "over" /\ at' = "closed"
  BY DEF ReceiveFails, ConnectAndSend, Continue, Close, soFar
<1>2. \A x : Has(x)' <=> Has(x)
  BY <1>1 DEF Has
<1>3. ExchangeTypeOK' /\ HeadComes' /\ BodyComes'
  <2>1. Underway' => Underway
    BY <1>1 DEF Underway
  <2> QED
    BY <1>1, <1>2, <2>1, SoFarKept DEF ExchangeInv, ExchangeTypeOK, Stations
<1>4. ToldInOrder'
  BY <1>1, <1>2 DEF ExchangeInv, ToldInOrder, Underway, soFar
<1>5. Kept'
  <2>1. at = "over" /\ MayContinue => IsWhole
    BY DEF ExchangeInv, Kept
  <2>2. IsWhole' <=> IsWhole
    BY <1>1, WholeKept
  <2>3. at = "connect" => end = "none"
    BY DEF ExchangeInv, Kept
  <2> QED
    BY <1>1, <2>1, <2>2, <2>3 DEF Kept, soFar
<1>6. FilteredIsWhole'
  BY <1>1 DEF FilteredIsWhole
<1> QED
  BY <1>3, <1>4, <1>5, <1>6 DEF ExchangeInv

\* The facts of a state in which the answer is read.
LEMMA ReadFacts ==
  ASSUME ExchangeInv
  PROVE  /\ HeadSize \in Nat /\ Parsed(got) \in Nat /\ Parsed(got) <= got
         /\ got \in Nat /\ count \in Int /\ out \in Nat /\ ans.body \in Nat
         /\ ans.status \in Nat /\ ans.keep \in BOOLEAN /\ ans.fake \in Nat /\ expected \in Int
         /\ Total = HeadSize + ans.body
<1>1. got \in Nat /\ count \in Int /\ out \in Nat /\ ans \in Answers /\ expected \in Int
  BY DEF ExchangeInv, ExchangeTypeOK
<1>2. ans.body \in Nat /\ ans.status \in Nat /\ ans.keep \in BOOLEAN /\ ans.fake \in Nat
  BY <1>1, ExchangeConstants
<1> QED
  BY <1>1, <1>2, ParsedLines DEF Total

\* What was compared at the end is of an answer that is whole.
LEMMA ComparedIsWhole ==
  ASSUME ExchangeInv, at = "account", serverKeeps, ~tainted, Agrees, end # "server"
  PROVE  IsWhole
<1> SUFFICES ASSUME req.method # "HEAD", status # 304
             PROVE  \/ ans.framing = "length" /\ Total - got = count - BodyRead
                    \/ ans.framing = "chunked" /\ AtAnEnd
  BY DEF IsWhole
<1>1. body
  BY DEF ExchangeInv, HeadComes, Underway
<1>2. expected # UNKNOWN /\ expected = count
  BY DEF ExchangeInv, Kept, Complete, Agrees
<1>3. CASE ans.framing = "length"
  <2>1. count = ans.body /\ got >= HeadSize
    BY <1>1, <1>2, <1>3 DEF ExchangeInv, BodyComes, Underway
  <2>2. BodyRead = got - HeadSize
    BY <2>1, ReadFacts DEF BodyRead
  <2> QED
    BY <1>3, <2>1, <2>2, ReadFacts
<1>4. CASE ans.framing # "length"
  BY <1>1, <1>2, <1>4 DEF ExchangeInv, BodyComes, Underway
<1> QED
  BY <1>3, <1>4

\* chat ends for a reason that taints the connection, or has compared what it counted.
LEMMA EndKeeps ==
  ASSUME ExchangeInv, ReadFails \/ Account
  PROVE  ExchangeInv'
<1> USE DEF requestVars, answerVars
<1>1. /\ UNCHANGED <<soFar, told>> /\ at' = "over"
      /\ \/ at = "read" /\ tainted' = (tainted \/ serverKeeps)
         \/ at = "account" /\ tainted' = (tainted \/ (serverKeeps /\ ~Agrees))
  BY DEF ReadFails, Account, Taint, soFar
<1>2. \A x : Has(x)' <=> Has(x)
  BY <1>1 DEF Has
<1>3. ExchangeTypeOK' /\ HeadComes' /\ BodyComes'
  <2>1. tainted' \in BOOLEAN
    BY <1>1 DEF ExchangeInv, ExchangeTypeOK
  <2>2. ~Underway'
    BY <1>1 DEF Underway
  <2> QED
    BY <1>1, <1>2, <2>1, <2>2, SoFarKept DEF ExchangeInv, ExchangeTypeOK, Stations
<1>4. ToldInOrder'
  BY <1>1, <1>2 DEF ExchangeInv, ToldInOrder, Underway, soFar
<1>5. Kept'
  <2>1. IsWhole' <=> IsWhole
    BY <1>1, WholeKept
  <2>2. ASSUME MayContinue' PROVE IsWhole
    <3>1. serverKeeps /\ ~tainted' /\ end # "server"
      BY <1>1, <2>2 DEF MayContinue, soFar
    <3>2. at = "account" /\ ~tainted /\ Agrees
      BY <1>1, <3>1
    <3> QED
      BY <3>1, <3>2, ComparedIsWhole
  <2> QED
    BY <1>1, <2>1, <2>2 DEF Kept
<1>6. FilteredIsWhole'
  BY <1>1 DEF FilteredIsWhole
<1> QED
  BY <1>3, <1>4, <1>5, <1>6 DEF ExchangeInv

LEMMA ClientEndsKeeps == ASSUME ExchangeInv, ClientEnds PROVE ExchangeInv'
<1> USE DEF requestVars, answerVars
<1>1. /\ UNCHANGED <<soFar, told>> /\ at = "read" /\ at' = "account"
      /\ tainted' = (tainted \/ serverKeeps)
  BY DEF ClientEnds, Taint, soFar
<1>2. \A x : Has(x)' <=> Has(x)
  BY <1>1 DEF Has
<1>3. ExchangeTypeOK' /\ HeadComes' /\ BodyComes'
  <2>1. tainted' \in BOOLEAN
    BY <1>1 DEF ExchangeInv, ExchangeTypeOK
  <2> QED
    BY <1>1, <1>2, <2>1, SoFarKept DEF ExchangeInv, Underway, ExchangeTypeOK, Stations
<1>4. ToldInOrder'
  BY <1>1, <1>2 DEF ExchangeInv, ToldInOrder, Underway, soFar
<1>5. Kept' /\ FilteredIsWhole'
  BY <1>1 DEF ExchangeInv, Kept, FilteredIsWhole, soFar
<1> QED
  BY <1>3, <1>4, <1>5 DEF ExchangeInv

\* A plugin, a page of the proxy, or a page about an error.
LEMMA TellKeeps ==
  ASSUME ExchangeInv, Intercept \/ Crunched \/ ConnectOrSendFails \/ ReadTimeout \/ HeadRefused
  PROVE  ExchangeInv'
<1> USE DEF requestVars, answerVars
<1>1. /\ UNCHANGED soFar
      /\ \/ /\ at = "plugins" /\ at' = "crunch" /\ UNCHANGED tainted
            /\ Tell("plugin") \/ UNCHANGED told
         \/ at = "crunch" /\ at' = "over" /\ UNCHANGED tainted /\ Tell("cgi")
         \/ at = "crunch" /\ at' = "connect" /\ UNCHANGED <<tainted, told>>
         \/ at = "connect" /\ at' = "over" /\ UNCHANGED tainted /\ Tell("page")
         \/ at = "read" /\ at' = "over" /\ Taint /\ (count = 0 \/ ~body) /\ Tell("page")
         \/ at = "read" /\ at' = "over" /\ Taint /\ UNCHANGED told
  BY DEF Intercept, Crunched, ConnectOrSendFails, ReadTimeout, HeadRefused,
     MayTell, soFar
<1>2. PICK x \in Said \ {"head"} :
         \/ Tell(x) /\ (x = "page" => at' = "over")
         \/ UNCHANGED told
  BY <1>1 DEF Said
<1>3. /\ told' \in Seq(Said)
      /\ Has("head")' <=> Has("head")
      /\ Has("page")' => Has("page") \/ Tell("page")
      /\ \A i, j \in DOMAIN told' : told'[i] = "head" /\ told'[j] = "head" => i = j
  <2>1. CASE UNCHANGED told
    BY <2>1 DEF ExchangeInv, ExchangeTypeOK, ToldInOrder, Has
  <2>2. CASE Tell(x)
    BY <2>2, Telling DEF ExchangeInv, ExchangeTypeOK, ToldInOrder
  <2> QED
    BY <1>2, <2>1, <2>2
<1>4. ExchangeTypeOK' /\ HeadComes' /\ BodyComes'
  <2>1. tainted' \in BOOLEAN
    BY <1>1 DEF ExchangeInv, ExchangeTypeOK, Taint
  <2>2. at' \in Stations
    BY <1>1 DEF Stations
  <2>3. Underway' => Underway
    BY <1>1 DEF Underway
  <2> QED
    BY <1>1, <1>3, <2>1, <2>2, <2>3, SoFarKept
<1>5. ToldInOrder'
  <2>1. Underway /\ ~body => out = 0
    BY DEF ExchangeInv, HeadComes
  <2>2. at = "read" /\ (count = 0 \/ ~body) => out = 0
    <3>1. ASSUME at = "read", count = 0, body PROVE out = 0
      <4>1. count - (got - HeadSize) \in Nat
        BY <3>1, PartsOfLine DEF ExchangeInv, BodyComes, Underway
      <4>2. filtering \/ out = got - HeadSize
        BY <3>1 DEF ExchangeInv, ToldInOrder
      <4>3. filtering => out = 0
        BY <3>1 DEF ExchangeInv, ToldInOrder
      <4> QED
        BY <3>1, <4>1, <4>2, <4>3, ReadFacts
    <3> QED
      BY <2>1, <3>1 DEF Underway
  <2>3. at \in {"plugins", "crunch", "connect"} => ~body
    BY DEF ExchangeInv, ToldInOrder
  <2>4. Has("page")' => out = 0 /\ ~Underway'
    BY <1>1, <1>3, <2>1, <2>2, <2>3 DEF ExchangeInv, ToldInOrder, Tell, Underway
  <2> QED
    BY <1>1, <1>3, <2>3, <2>4 DEF ExchangeInv, ToldInOrder, Underway, soFar
<1>6. Kept'
  <2>1. Underway /\ ~body => ~serverKeeps
    BY DEF ExchangeInv, HeadComes
  <2>2. at \in {"plugins", "crunch", "connect"} => ~body
    BY DEF ExchangeInv, ToldInOrder
  <2>3. at \in {"plugins", "crunch", "connect", "read"} => end = "none"
    BY DEF ExchangeInv, Kept
  <2>4. at' = "over" /\ serverKeeps' => tainted'
    BY <1>1, <2>1, <2>2 DEF soFar, Taint, Underway
  <2>5. ~(at' = "over" /\ MayContinue')
    BY <2>4 DEF MayContinue
  <2> QED
    BY <1>1, <2>3, <2>5 DEF Kept, soFar
<1>7. FilteredIsWhole'
  BY <1>1 DEF FilteredIsWhole
<1> QED
  BY <1>4, <1>5, <1>6, <1>7 DEF ExchangeInv

LEMMA HeadGoesOnKeeps ==
  ASSUME ExchangeInv, ReadHead, NEW n \in got + 1 .. Total, got' = n, n < HeadSize, HeadGoesOn(n)
  PROVE  ExchangeInv'
<1> USE DEF requestVars
<1>1. /\ at = "read" /\ ~body
      /\ UNCHANGED <<at, req, ans, filters, tainted, end, served, status, expected,
                     serverKeeps, filtering, body, told, out>>
      /\ count' = count + (n - got) - (Parsed(n) - Parsed(got))
  BY DEF ReadHead, HeadGoesOn
<1>2. \A x : Has(x)' <=> Has(x)
  BY <1>1 DEF Has
<1>3. n \in Nat /\ Parsed(n) \in Nat /\ Parsed(got') = Parsed(n)
  BY ReadFacts, ParsedLines
<1>4. count' = got' - Parsed(got')
  BY <1>1, <1>3, ReadFacts DEF ExchangeInv, HeadComes, Underway
<1>5. ExchangeTypeOK'
  <2>1. count' \in Int
    BY <1>3, <1>4
  <2> QED
    BY <1>1, <1>3, <2>1 DEF ExchangeInv, ExchangeTypeOK
<1>6. HeadComes'
  BY <1>1, <1>2, <1>3, <1>4, ReadFacts DEF ExchangeInv, HeadComes, Underway
<1>7. BodyComes' /\ FilteredIsWhole'
  BY <1>1 DEF BodyComes, FilteredIsWhole
<1>8. ToldInOrder'
  BY <1>1, <1>2 DEF ExchangeInv, ToldInOrder, Underway
<1>9. Kept'
  BY <1>1 DEF ExchangeInv, Kept
<1> QED
  BY <1>5, <1>6, <1>7, <1>8, <1>9 DEF ExchangeInv

LEMMA HeadEndsKeeps ==
  ASSUME ExchangeInv, ReadHead, NEW n \in got + 1 .. Total, got' = n, n >= HeadSize, HeadEnds(n)
  PROVE  ExchangeInv'
<1> USE DEF requestVars
<1>1. /\ at = "read" /\ ~body /\ body' = TRUE /\ filtering' = filters
      /\ UNCHANGED <<at, req, ans, filters, tainted, end, served>>
      /\ expected' = LengthOf(expected) /\ serverKeeps' = (ans.keep /\ ~tainted)
      /\ status' = IF ans.status = 0 THEN status ELSE ans.status
  BY DEF ReadHead, HeadEnds
<1>2. n \in Nat
  BY ReadFacts
<1>3. /\ count = got - Parsed(got) /\ expected = UNKNOWN /\ out = 0 /\ ~Has("head") /\ ~Has("page")
      /\ end = "none" /\ got - Parsed(got) \in PartOfLine
  BY <1>1, ReadFacts, PartsOfLine DEF ExchangeInv, HeadComes, ToldInOrder, Kept, Underway
<1>4. /\ count' \in Int /\ out' \in Nat /\ told' \in Seq(Said)
      /\ count' - (n - HeadSize) \in PartOfLine
      /\ filters => count' = n - HeadSize /\ out' = 0 /\ ~Has("head")'
      /\ ~filters => Has("head")' /\ out' = n - HeadSize
      /\ ~Has("page")'
      /\ \A i, j \in DOMAIN told' : told'[i] = "head" /\ told'[j] = "head" => i = j
  <2>1. CASE filters
    <3>1. UNCHANGED <<told, out>> /\ count' = CountOfFilteredHead(count, n)
      BY <2>1 DEF HeadEnds
    <3>2. count' = n - HeadSize
      BY <1>2, <1>3, <3>1, ReadFacts DEF CountOfFilteredHead
    <3>3. \A x : Has(x)' <=> Has(x)
      BY <3>1 DEF Has
    <3>4. /\ told' \in Seq(Said)
          /\ \A i, j \in DOMAIN told' : told'[i] = "head" /\ told'[j] = "head" => i = j
      BY <3>1 DEF ExchangeInv, ExchangeTypeOK, ToldInOrder
    <3>5. count' \in Int /\ out' = 0 /\ count' - (n - HeadSize) = 0
      BY <1>2, <1>3, <3>1, <3>2, ReadFacts
    <3> QED
      BY <1>3, <2>1, <3>2, <3>3, <3>4, <3>5, PartsOfLine
  <2>2. CASE ~filters
    <3>1. Tell("head") /\ out' = n - HeadSize /\ count' = count + (n - HeadSize)
      BY <2>2 DEF HeadEnds, CountOfHead
    <3>2. /\ count' \in Int /\ out' \in Nat
          /\ count' - (n - HeadSize) = got - Parsed(got)
      BY <1>2, <1>3, <3>1, ReadFacts
    <3>3. /\ told' \in Seq(Said) /\ Has("head")' /\ ~Has("page")'
          /\ \A i, j \in DOMAIN told' : told'[i] = "head" /\ told'[j] = "head" => i = j
      BY <1>3, <3>1, Telling DEF ExchangeInv, ExchangeTypeOK, ToldInOrder, Said
    <3> QED
      BY <1>3, <2>2, <3>1, <3>2, <3>3
  <2> QED
    BY <2>1, <2>2
<1>5. ExchangeTypeOK'
  <2>1. expected' \in Int /\ status' \in Nat /\ serverKeeps' \in BOOLEAN
    <3>1. expected' \in Int
      BY <1>1, ReadFacts DEF LengthOf
    <3>2. status' \in Nat
      BY <1>1, ReadFacts DEF ExchangeInv, ExchangeTypeOK
    <3>3. serverKeeps' \in BOOLEAN
      BY <1>1
    <3> QED
      BY <3>1, <3>2, <3>3
  <2> QED
    BY <1>1, <1>2, <1>4, <2>1 DEF ExchangeInv, ExchangeTypeOK
<1>6. HeadComes'
  BY <1>1 DEF HeadComes
<1>7. BodyComes'
  <2>1. /\ ans.framing = "length" => expected' = ans.body
        /\ ans.framing # "length" => expected' = UNKNOWN
    BY <1>1, <1>3 DEF LengthOf
  <2>2. ans.status # 0 => status' = ans.status
    BY <1>1
  <2> QED
    BY <1>1, <1>2, <1>3, <1>4, <2>1, <2>2, ReadFacts DEF BodyComes, UNKNOWN
<1>8. ToldInOrder'
  <2>1. out' > 0 => Has("head")'
    BY <1>4
  <2> QED
    BY <1>1, <1>4, <2>1 DEF ToldInOrder, Underway
<1>9. Kept' /\ FilteredIsWhole'
  BY <1>1, <1>3 DEF Kept, FilteredIsWhole
<1> QED
  BY <1>5, <1>6, <1>7, <1>8, <1>9 DEF ExchangeInv

LEMMA ReadBodyKeeps == ASSUME ExchangeInv, ReadBody PROVE ExchangeInv'
<1> USE DEF requestVars
<1>1. /\ at = "read" /\ body /\ ~Complete
      /\ UNCHANGED <<at, req, ans, filters, tainted, end, served, status, serverKeeps, body>>
  BY DEF ReadBody
<1>2. PICK n \in got + 1 .. Total :
        /\ got' = n
        /\ expected' = IF MarkerSeen(got, n) THEN count + (n - got) ELSE expected
        /\ \/ /\ filtering /\ Tell("head") /\ out' = n - HeadSize /\ filtering' = FALSE
              /\ count' = n - HeadSize
           \/ /\ count' = count + (n - got)
              /\ out' = IF filtering THEN out ELSE out + (n - got)
              /\ UNCHANGED <<told, filtering>>
  BY DEF ReadBody
<1>3. /\ n \in Nat /\ n > got /\ got >= HeadSize /\ count - (got - HeadSize) \in PartOfLine
      /\ filters => count = got - HeadSize
  BY <1>1, <1>2, ReadFacts DEF ExchangeInv, BodyComes, Underway
<1>4. /\ filtering => count = got - HeadSize /\ filters /\ out = 0 /\ ~Has("head")
      /\ ~filtering => Has("head") /\ out = got - HeadSize
      /\ ~Has("page")
  BY <1>1 DEF ExchangeInv, BodyComes, ToldInOrder, Underway
<1>5. /\ count' = count + (n - got) /\ count' \in Int /\ out' \in Nat /\ told' \in Seq(Said)
      /\ filtering' \in BOOLEAN /\ (filtering' => filtering)
      /\ filtering' => out' = 0 /\ ~Has("head")'
      /\ ~filtering' => Has("head")' /\ out' = n - HeadSize
      /\ ~Has("page")'
      /\ \A i, j \in DOMAIN told' : told'[i] = "head" /\ told'[j] = "head" => i = j
  <2>1. CASE /\ filtering /\ Tell("head") /\ out' = n - HeadSize /\ filtering' = FALSE
             /\ count' = n - HeadSize
    <3>1. /\ told' \in Seq(Said) /\ Has("head")' /\ ~Has("page")'
          /\ \A i, j \in DOMAIN told' : told'[i] = "head" /\ told'[j] = "head" => i = j
      BY <1>4, <2>1, Telling DEF ExchangeInv, ExchangeTypeOK, ToldInOrder, Said
    <3>2. count' = count + (n - got) /\ count' \in Int /\ out' \in Nat
      BY <1>3, <1>4, <2>1, ReadFacts
    <3> QED
      BY <2>1, <3>1, <3>2
  <2>2. CASE /\ count' = count + (n - got)
             /\ out' = IF filtering THEN out ELSE out + (n - got)
             /\ UNCHANGED <<told, filtering>>
    <3>1. \A x : Has(x)' <=> Has(x)
      BY <2>2 DEF Has
    <3>2. /\ told' \in Seq(Said) /\ filtering' \in BOOLEAN
          /\ \A i, j \in DOMAIN told' : told'[i] = "head" /\ told'[j] = "head" => i = j
      BY <2>2 DEF ExchangeInv, ExchangeTypeOK, ToldInOrder
    <3>3. count' \in Int /\ out' \in Nat /\ (~filtering => out' = n - HeadSize)
      BY <1>3, <1>4, <2>2, ReadFacts
    <3> QED
      BY <1>4, <2>2, <3>1, <3>2, <3>3
  <2> QED
    BY <1>2, <2>1, <2>2
<1>6. ExchangeTypeOK'
  <2>1. expected' \in Int
    BY <1>2, <1>3, ReadFacts
  <2> QED
    BY <1>1, <1>2, <1>3, <1>5, <2>1 DEF ExchangeInv, ExchangeTypeOK
<1>7. HeadComes'
  BY <1>1 DEF HeadComes
<1>8. BodyComes'
  <2>1. got' >= HeadSize /\ count' - (got' - HeadSize) = count - (got - HeadSize)
    BY <1>2, <1>3, <1>5, ReadFacts, SMTT(30)
  <2>2. (filters => count' = got' - HeadSize) /\ (filtering' => filters)
    <3>1. filters => count' = got' - HeadSize
      <4> SUFFICES ASSUME filters PROVE count' = got' - HeadSize
        OBVIOUS
      <4>1. count = got - HeadSize /\ count' = count + (n - got) /\ got' = n
        BY <1>2, <1>3, <1>5
      <4> QED
        BY <1>3, <4>1, ReadFacts
    <3> QED
      BY <1>4, <1>5, <3>1
  <2>3. ans.status # 0 => status' = ans.status
    BY <1>1 DEF ExchangeInv, BodyComes, Underway
  <2>4. ans.framing = "length" => expected' = ans.body
    BY <1>1, <1>2 DEF ExchangeInv, BodyComes, Underway, MarkerSeen
  <2>5. ASSUME ans.framing # "length", expected' # UNKNOWN
        PROVE  ans.framing = "chunked" /\ expected' <= count' /\ AtAnEnd'
    <3>1. expected = UNKNOWN
      BY <1>1, <2>5, ReadFacts DEF ExchangeInv, BodyComes, Underway, Complete
    <3>2. MarkerSeen(got, n) /\ expected' = count + (n - got)
      BY <1>2, <2>5, <3>1
    <3>3. expected' <= count'
      BY <1>5, <3>2
    <3>4. n = Total \/ (ans.fake # 0 /\ n = HeadSize + ans.fake)
      BY <1>3, <3>2, ReadFacts DEF MarkerSeen
    <3> QED
      BY <1>1, <1>2, <3>2, <3>3, <3>4 DEF AtAnEnd, Total, MarkerSeen
  <2> QED
    BY <1>1, <1>3, <2>1, <2>2, <2>3, <2>4, <2>5 DEF BodyComes
<1>9. ToldInOrder'
  <2>1. out' > 0 => Has("head")'
    BY <1>5
  <2> QED
    BY <1>1, <1>2, <1>5, <2>1 DEF ToldInOrder, Underway
<1>10. Kept' /\ FilteredIsWhole'
  BY <1>1 DEF ExchangeInv, Kept, FilteredIsWhole
<1> QED
  BY <1>6, <1>7, <1>8, <1>9, <1>10 DEF ExchangeInv

\* chat is done with the answer; a filtered body is sent now.
LEMMA FinishedKeeps ==
  ASSUME ExchangeInv, at = "read", body, Finished, at' = "account", tainted' \in BOOLEAN,
         end' \in {"none", "early", "whole", "server"}, FilteredIsWhole',
         end' = "server" \/ Complete,
         UNCHANGED <<req, ans, got, count, expected, body, filtering, filters, serverKeeps,
                     status, served>>
  PROVE  ExchangeInv'
<1>1. /\ filtering => out = 0 /\ ~Has("head")
      /\ ~filtering => Has("head")
      /\ ~Has("page")
  BY DEF ExchangeInv, ToldInOrder, Underway
<1>2. /\ told' \in Seq(Said) /\ out' \in Nat /\ Has("head")' /\ ~Has("page")'
      /\ \A i, j \in DOMAIN told' : told'[i] = "head" /\ told'[j] = "head" => i = j
  <2>1. CASE filtering
    <3>1. Tell("head") /\ out' = BodyRead
      BY <2>1 DEF Finished
    <3>2. out' \in Nat
      BY <3>1, ReadFacts DEF BodyRead
    <3> QED
      BY <1>1, <2>1, <3>1, <3>2, Telling DEF ExchangeInv, ExchangeTypeOK, ToldInOrder, Said
  <2>2. CASE ~filtering
    <3>1. UNCHANGED <<told, out>>
      BY <2>2 DEF Finished
    <3>2. \A x : Has(x)' <=> Has(x)
      BY <3>1 DEF Has
    <3> QED
      BY <1>1, <2>2, <3>1, <3>2 DEF ExchangeInv, ExchangeTypeOK, ToldInOrder
  <2> QED
    BY <2>1, <2>2
<1>3. ExchangeTypeOK'
  BY <1>2 DEF ExchangeInv, ExchangeTypeOK, Stations
<1>4. HeadComes'
  BY DEF HeadComes
<1>5. BodyComes'
  BY DEF ExchangeInv, BodyComes, AtAnEnd, Total, Underway
<1>6. ToldInOrder' /\ Kept'
  BY <1>2 DEF ToldInOrder, Kept, Complete
<1> QED
  BY <1>3, <1>4, <1>5, <1>6 DEF ExchangeInv

LEMMA StopReadingKeeps == ASSUME ExchangeInv, StopReading PROVE ExchangeInv'
<1> USE DEF requestVars
<1>1. /\ at = "read" /\ body /\ Complete /\ at' = "account" /\ Finished
      /\ end' \in {"early", "whole"}
      /\ end' = "early" => got < Total /\ req.method # "HEAD" /\ ans.status # 304
      /\ UNCHANGED <<req, ans, got, count, expected, body, filtering, filters, tainted,
                     serverKeeps, status, served>>
  BY DEF StopReading, Stops
<1>2. ASSUME filtering, end' = "early", ans.fake = 0, ans.status # 0 PROVE FALSE
  <2>1. got < Total /\ req.method # "HEAD" /\ status = ans.status /\ status # 304
    BY <1>1, <1>2 DEF ExchangeInv, BodyComes, Underway
  <2>2. expected # UNKNOWN /\ expected <= count /\ count = got - HeadSize
    BY <1>1, <1>2, <2>1 DEF Complete, ExchangeInv, BodyComes, Underway
  <2>3. ans.framing = "length"
    <3>1. ans.framing # "length" => got = Total
      BY <1>1, <1>2, <2>2, ReadFacts DEF ExchangeInv, BodyComes, AtAnEnd, Underway
    <3> QED
      BY <2>1, <3>1, ReadFacts
  <2>4. expected = ans.body
    BY <1>1, <2>3 DEF ExchangeInv, BodyComes, Underway
  <2> QED
    BY <2>1, <2>2, <2>4, ReadFacts
<1>3. FilteredIsWhole'
  BY <1>1, <1>2 DEF FilteredIsWhole
<1>4. end' \in {"none", "early", "whole", "server"} /\ tainted' \in BOOLEAN
  BY <1>1 DEF ExchangeInv, ExchangeTypeOK
<1> QED
  BY <1>1, <1>3, <1>4, FinishedKeeps

LEMMA ServerEndsKeeps == ASSUME ExchangeInv, ServerEnds PROVE ExchangeInv'
<1> USE DEF requestVars, answerVars
<1>1. /\ at = "read" /\ body /\ at' = "account" /\ Finished /\ end' = "server"
      /\ UNCHANGED tainted \/ tainted' = (tainted \/ serverKeeps)
      /\ UNCHANGED <<req, ans, got, count, expected, body, filtering, filters,
                     serverKeeps, status, served>>
  BY DEF ServerEnds, Taint
<1>2. tainted' \in BOOLEAN
  BY <1>1 DEF ExchangeInv, ExchangeTypeOK
<1>3. FilteredIsWhole'
  BY <1>1 DEF FilteredIsWhole
<1> QED
  BY <1>1, <1>2, <1>3, FinishedKeeps

LEMMA ServerEndsInHeadKeeps == ASSUME ExchangeInv, ServerEndsInHead PROVE ExchangeInv'
<1> USE DEF requestVars
<1>1. /\ at = "read" /\ ~body /\ at' = "over" /\ end' = "server"
      /\ UNCHANGED <<req, ans, got, count, filters, out, served>>
      /\ out = 0 /\ ~Has("head") /\ ~Has("page")
  BY DEF ServerEndsInHead, ExchangeInv, HeadComes, ToldInOrder, Underway
<1>2. /\ status' \in Nat /\ expected' \in Int /\ serverKeeps' \in BOOLEAN
      /\ body' \in BOOLEAN /\ filtering' \in BOOLEAN /\ tainted' \in BOOLEAN
  <2>1. status \in Nat /\ expected \in Int /\ serverKeeps \in BOOLEAN
        /\ body \in BOOLEAN /\ filtering \in BOOLEAN /\ filters \in BOOLEAN
        /\ tainted \in BOOLEAN
    BY DEF ExchangeInv, ExchangeTypeOK
  <2>2. LengthOf(expected) \in Int
    BY <2>1, ReadFacts DEF LengthOf
  <2>3. /\ status' \in {status, ans.status} /\ expected' \in {expected, LengthOf(expected)}
        /\ serverKeeps' \in {serverKeeps, FALSE, ans.keep /\ ~tainted}
        /\ body' \in {body, TRUE} /\ filtering' \in {filtering, filters}
        /\ tainted' = (tainted \/ serverKeeps')
    BY DEF ServerEndsInHead
  <2>4. status' \in Nat /\ expected' \in Int
    BY <2>1, <2>2, <2>3, ReadFacts
  <2>5. serverKeeps' \in BOOLEAN /\ body' \in BOOLEAN /\ filtering' \in BOOLEAN
    BY <2>1, <2>3, ReadFacts
  <2> QED
    BY <2>1, <2>3, <2>4, <2>5
<1>3. /\ told' \in Seq(Said)
      /\ \A i, j \in DOMAIN told' : told'[i] = "head" /\ told'[j] = "head" => i = j
  <2>1. told \in Seq(Said)
    BY DEF ExchangeInv, ExchangeTypeOK
  <2>2. CASE told' = Append(told, "page")
    BY <1>1, <2>1, <2>2 DEF Has, Said
  <2>3. CASE told' = told \o <<"page">>
    BY <1>1, <2>1, <2>3 DEF Has, Said
  <2>4. CASE told' = told \o <<"head", "page">>
    <3>1. <<"head", "page">> \in Seq(Said) /\ Len(<<"head", "page">>) = 2
      BY DEF Said
    <3>2. told' \in Seq(Said) /\ Len(told') = Len(told) + 2
      BY <2>1, <2>4, <3>1
    <3>3. \A i \in DOMAIN told' : told'[i] = "head" => i = Len(told) + 1
      <4>1. /\ \A i \in 1 .. Len(told) : told'[i] = told[i]
            /\ told'[Len(told) + 2] = "page"
        BY <2>1, <2>4
      <4>2. DOMAIN told = 1 .. Len(told) /\ DOMAIN told' = 1 .. Len(told) + 2
        BY <2>1, <3>2
      <4>3. \A i \in 1 .. Len(told) + 2 :
                i \in 1 .. Len(told) \/ i = Len(told) + 1 \/ i = Len(told) + 2
        BY <2>1
      <4> QED
        BY <1>1, <4>1, <4>2, <4>3 DEF Has
    <3> QED
      BY <3>2, <3>3
  <2> QED
    BY <2>2, <2>3, <2>4 DEF ServerEndsInHead, Tell
<1>4. ExchangeTypeOK'
  BY <1>1, <1>2, <1>3 DEF ExchangeInv, ExchangeTypeOK, Stations
<1>5. HeadComes' /\ BodyComes' /\ FilteredIsWhole'
  BY <1>1 DEF HeadComes, BodyComes, Underway, FilteredIsWhole
<1>6. ToldInOrder'
  <2>1. out' = 0 /\ ~(out' > 0)
    BY <1>1
  <2> QED
    BY <1>1, <1>3, <2>1 DEF ToldInOrder, Underway
<1>7. Kept'
  BY <1>1 DEF Kept, MayContinue
<1> QED
  BY <1>4, <1>5, <1>6, <1>7 DEF ExchangeInv

LEMMA ExchangeStutterKeeps ==
  ASSUME ExchangeInv, UNCHANGED exchangeVars PROVE ExchangeInv'
<1>1. UNCHANGED soFar /\ UNCHANGED <<at, tainted, told>>
  BY DEF exchangeVars, soFar
<1>2. \A x : Has(x)' <=> Has(x)
  BY <1>1 DEF Has
<1>3. ExchangeTypeOK' /\ HeadComes' /\ BodyComes'
  BY <1>1, <1>2, SoFarKept DEF ExchangeInv, ExchangeTypeOK, Underway
<1>4. ToldInOrder'
  BY <1>1, <1>2 DEF ExchangeInv, ToldInOrder, Underway, soFar
<1>5. Kept' /\ FilteredIsWhole'
  <2>1. IsWhole' <=> IsWhole
    BY <1>1, WholeKept
  <2> QED
    BY <1>1, <2>1 DEF ExchangeInv, Kept, Complete, MayContinue, FilteredIsWhole, soFar
<1> QED
  BY <1>3, <1>4, <1>5 DEF ExchangeInv

LEMMA ExchangeInvStep ==
  ASSUME ExchangeInv, [ExchangeNext]_exchangeVars PROVE ExchangeInv'
<1>1. CASE ReadHead
  <2>1. PICK n \in got + 1 .. Total :
           got' = n /\ IF n >= HeadSize THEN HeadEnds(n) ELSE HeadGoesOn(n)
    BY <1>1 DEF ReadHead
  <2>2. n \in Nat
    BY <2>1, ReadFacts
  <2>3. CASE n >= HeadSize
    BY <1>1, <2>1, <2>3, HeadEndsKeeps
  <2>4. CASE ~(n >= HeadSize)
    <3>1. n < HeadSize
      BY <2>2, <2>4, ReadFacts
    <3> QED
      BY <1>1, <2>1, <2>4, <3>1, HeadGoesOnKeeps
  <2> QED
    BY <2>3, <2>4
<1> QED
  BY <1>1, ExchangeActions, ReceiveKeeps, QuietKeeps, EndKeeps, ClientEndsKeeps, TellKeeps,
     ReadBodyKeeps, StopReadingKeeps, ServerEndsKeeps, ServerEndsInHeadKeeps,
     ExchangeStutterKeeps

\* What chat has read, counted and told its client agree at every station of an exchange,
\* and on into the next one on the same connection (seeks_proxy.cpp 1340-2119).
THEOREM ExchangeInvariant == ExchangeSpec => []ExchangeInv
<1>1. ExchangeInv /\ [ExchangeNext]_exchangeVars => ExchangeInv'
  BY ExchangeInvStep
<1> QED
  BY ExchangeInitially, <1>1, PTL DEF ExchangeSpec

LEMMA ExchangeInvSafe == ASSUME ExchangeInv PROVE ExchangeSafe
<1>1. StopsAtEnd
  <2> SUFFICES ASSUME at = "read", body, ans.framing = "length", got = Total PROVE Complete
    BY DEF StopsAtEnd
  <2>1. expected = ans.body /\ count - (got - HeadSize) \in Nat
    BY PartsOfLine DEF ExchangeInv, BodyComes, Underway
  <2> QED
    BY <2>1, ReadFacts DEF Complete, UNKNOWN
<1>2. FilteredIsWhole
  BY DEF ExchangeInv
<1>3. NoPageIntoBody
  BY DEF ExchangeInv, ToldInOrder, NoPageIntoBody, Has
<1>4. KeptIsWhole
  BY DEF ExchangeInv, Kept, IsWhole, AtAnEnd, KeptIsWhole
<1>6. CountIsBody
  <2> SUFFICES ASSUME at = "read", body
               PROVE  /\ out = IF filtering THEN 0 ELSE BodyRead
                      /\ count - BodyRead \in IF filters THEN {0} ELSE PartOfLine
    BY DEF CountIsBody
  <2>1. /\ got >= HeadSize /\ count - (got - HeadSize) \in PartOfLine
        /\ filters => count = got - HeadSize
        /\ out = IF filtering THEN 0 ELSE got - HeadSize
    BY DEF ExchangeInv, BodyComes, ToldInOrder, Underway
  <2>2. BodyRead = got - HeadSize
    BY <2>1, ReadFacts DEF BodyRead
  <2> QED
    BY <2>1, <2>2, ReadFacts
<1>5. HeadOnce
  <2> DEFINE Heads == {i \in DOMAIN told : told[i] = "head"}
  <2>1. \A i, j \in Heads : i = j
    BY DEF ExchangeInv, ToldInOrder
  <2>2. Heads = {} \/ \E i : Heads = {i}
    BY <2>1
  <2>3. Cardinality(Heads) <= 1
    <3>1. CASE Heads = {}
      BY <3>1, FS_EmptySet
    <3>2. CASE \E i : Heads = {i}
      <4>1. PICK i : Heads = {i}
        BY <3>2
      <4>2. Cardinality({i}) = 1
        BY FS_Singleton
      <4> QED
        BY <4>1, <4>2
    <3> QED
      BY <2>2, <3>1, <3>2
  <2>4. out > 0 => Has("head")
    BY DEF ExchangeInv, ToldInOrder
  <2> QED
    BY <2>3, <2>4 DEF HeadOnce, Has
<1> QED
  BY <1>1, <1>2, <1>3, <1>4, <1>5, <1>6 DEF ExchangeSafe

\* For answers of any length, any framing and any reads: reading stops at the end of an
\* answer whose length is known, what has come is passed on once, a filtered body goes out
\* whole, no page of the proxy goes into a body, an answer whose connection is kept was read
\* whole but for what chat miscounts, and the head goes out once, before the body (seeks_proxy.cpp 1562-1574, 1737-2119).
THEOREM ExchangeSafeAlways == ExchangeSpec => []ExchangeSafe
BY ExchangeInvariant, ExchangeInvSafe, PTL

\* The variables of an exchange keep their types, the counts of chat among them.
THEOREM ExchangeTypeCorrect == ExchangeSpec => []ExchangeTypeOK
<1>1. ExchangeInv => ExchangeTypeOK
  BY DEF ExchangeInv
<1> QED
  BY ExchangeInvariant, <1>1, PTL
=============================================================================
