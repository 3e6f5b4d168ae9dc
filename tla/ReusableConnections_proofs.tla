--------------------- MODULE ReusableConnections_proofs ---------------------
(***************************************************************************)
(* Proofs about ReusableConnections, for any sets of threads, descriptors  *)
(* and destinations, any length of the table, any timeout and any number   *)
(* of retries, with connection-sharing or without.                         *)
(***************************************************************************)
EXTENDS ReusableConnections, WellFoundedInduction, TLAPS

\* A set of slots that is not empty has a first one: what the loops over
\* _reusable_connection find.
LEMMA MinIn ==
  ASSUME NEW S, S \subseteq Nat, S # {}
  PROVE  Min(S) \in S
<1>1. \E x \in S : \A y \in S : ~ (<<y, x>> \in OpToRel(<, Nat))
  BY NatLessThanWellFounded, WFMin, Zenon
<1>2. \E x \in S : \A y \in S : x <= y
  <2>1. PICK x \in S : \A y \in S : ~ (<<y, x>> \in OpToRel(<, Nat))
    BY <1>1
  <2>2. \A y \in S : ~ (y < x)
    BY <2>1 DEF OpToRel
  <2> QED
    BY <2>2
<1> QED
  BY <1>2, Zenon DEF Min

\* The first of the slots that get_reusable_connection may take.
LEMMA MatchingSlot ==
  ASSUME NEW d, Matching(d) # {}
  PROVE  /\ Min(Matching(d)) \in Slots
         /\ Idle(Min(Matching(d)))
         /\ slotDest[Min(Matching(d))] = d
<1>1. Matching(d) \subseteq Nat
  BY SlotsAssumption DEF Matching, Slots
<1> QED
  BY <1>1, MinIn DEF Matching, connection_destination_matches

\* The first slot that holds a socket.
LEMMA SlotOf ==
  ASSUME NEW f, SlotsOf(f) # {}
  PROVE  Min(SlotsOf(f)) \in Slots /\ slotSfd[Min(SlotsOf(f))] = f
<1>1. SlotsOf(f) \subseteq Nat
  BY SlotsAssumption DEF SlotsOf, Slots
<1> QED
  BY <1>1, MinIn DEF SlotsOf

\* The first free slot.
LEMMA FreeSlot ==
  ASSUME FreeSlots # {}
  PROVE  Min(FreeSlots) \in Slots /\ slotSfd[Min(FreeSlots)] = NONE
<1>1. FreeSlots \subseteq Nat
  BY SlotsAssumption DEF FreeSlots, Slots
<1> QED
  BY <1>1, MinIn DEF FreeSlots

\* The steps of the specification, one by one.
LEMMA Steps ==
  ASSUME [Next]_vars
  PROVE  \/ \E t \in Threads : Accept(t)
         \/ \E t \in Threads : NoServer(t)
         \/ \E t \in Threads, d \in Dests, rest \in BOOLEAN : ReuseOwn(t, d, rest)
         \/ \E t \in Threads, d \in Dests, rest \in BOOLEAN : Reconnect(t, d, rest)
         \/ \E t \in Threads : Clean(t)
         \/ \E t \in Threads : TakeSlot(t)
         \/ \E t \in Threads : NoSlot(t)
         \/ \E t \in Threads : Connect(t)
         \/ \E t \in Threads, b \in BOOLEAN : ConnectFails(t, b)
         \/ \E t \in Threads : SendRequest(t)
         \/ \E t \in Threads : SendFails(t)
         \/ \E t \in Threads, l \in Latencies, b \in BOOLEAN : ReadHeader(t, l, b)
         \/ \E t \in Threads : HeaderFails(t)
         \/ \E t \in Threads : ReadBody(t) \/ StopEarly(t)
         \/ \E t \in Threads : BodyEnds(t)
         \/ \E t \in Threads : BodyFails(t)
         \/ \E t \in Threads : NextRequest(t)
         \/ \E t \in Threads : Share(t)
         \/ \E t \in Threads : DontKeep(t)
         \/ \E t \in Threads, a \in {0, Timeout} : Unuse(t, a)
         \/ \E t \in Threads : NotRemembered(t)
         \/ \E t \in Threads, a \in {0, Timeout} : Remember(t, a)
         \/ \E t \in Threads : NoRoom(t)
         \/ \E t \in Threads : Watch(t)
         \/ \E t \in Threads : Monitor(t)
         \/ \E t \in Threads : Leave(t)
         \/ \E t \in Threads : Forget(t)
         \/ \E t \in Threads : Close(t)
         \/ \E f \in Sockets : HangUp(f)
         \/ Tick
         \/ UNCHANGED vars
  BY DEF Next, Serve, Client

\* The bounds of the counters.
LEMMA Ranges ==
  /\ 0 \in 0 .. Timeout + 1 /\ Timeout \in 0 .. Timeout + 1
  /\ 0 \in 0 .. MaxRetries /\ 0 \in Slots /\ 0 \in Latencies
  BY SlotsAssumption, TimesAssumption, RetriesAssumption DEF Slots

\* Marking slots closed keeps the types of the table.
LEMMA MarkClosedTyped ==
  ASSUME TypeOK, NEW S, MarkClosed(S)
  PROVE  /\ slotSfd' \in [Slots -> Sockets \union {NONE}]
         /\ slotDest' \in [Slots -> Dests \union {NONE}]
         /\ inUse' \in [Slots -> BOOLEAN]
         /\ slotLat' \in [Slots -> Latencies]
         /\ age' \in [Slots -> 0 .. Timeout + 1]
<1> USE DEF TypeOK, MarkClosed
<1>1. slotSfd' \in [Slots -> Sockets \union {NONE}]
  OBVIOUS
<1>2. slotDest' \in [Slots -> Dests \union {NONE}] /\ inUse' \in [Slots -> BOOLEAN]
  OBVIOUS
<1>3. slotLat' \in [Slots -> Latencies] /\ age' \in [Slots -> 0 .. Timeout + 1]
  BY Ranges
<1> QED
  BY <1>1, <1>2, <1>3

\* A pass of close_unusable_connections keeps the types.
LEMMA CleaningTyped ==
  ASSUME TypeOK, close_unusable_connections
  PROVE  /\ slotSfd' \in [Slots -> Sockets \union {NONE}]
         /\ slotDest' \in [Slots -> Dests \union {NONE}]
         /\ inUse' \in [Slots -> BOOLEAN]
         /\ slotLat' \in [Slots -> Latencies]
         /\ age' \in [Slots -> 0 .. Timeout + 1]
         /\ peer' \in [Sockets -> Dests \union {NONE}]
         /\ alive' = alive /\ lastLat' = lastLat /\ unread' = unread
<1>1. peer' \in [Sockets -> Dests \union {NONE}]
  BY DEF TypeOK, close_unusable_connections, CloseSockets
<1> QED
  BY <1>1, MarkClosedTyped DEF close_unusable_connections

\* Every step keeps the types, action by action.
LEMMA TypeInductive == TypeOK /\ [Next]_vars => TypeOK'
<1> SUFFICES ASSUME TypeOK, [Next]_vars PROVE TypeOK'
  OBVIOUS
<1> USE DEF TypeOK, Labels, Goto, own_vars, req_vars, slot_vars, net_vars
<1>1. CASE \E t \in Threads : Accept(t)
  BY <1>1 DEF Accept
<1>2. CASE \E t \in Threads : NoServer(t)
  BY <1>2 DEF NoServer
<1>3. CASE \E t \in Threads, d \in Dests, rest \in BOOLEAN : ReuseOwn(t, d, rest)
  BY <1>3 DEF ReuseOwn, ReadRequest
<1>4. CASE \E t \in Threads, d \in Dests, rest \in BOOLEAN : Reconnect(t, d, rest)
  BY <1>4, Ranges DEF Reconnect, ReadRequest, ForwardLabel, close_socket
<1>5. CASE \E t \in Threads : Clean(t)
  BY <1>5, CleaningTyped DEF Clean
<1>6. CASE \E t \in Threads : TakeSlot(t)
  BY <1>6, MatchingSlot, Ranges, RetriesAssumption DEF TakeSlot, Connected, TryAgain, ForwardLabel
<1>7. CASE \E t \in Threads : NoSlot(t)
  BY <1>7 DEF NoSlot
<1>8. CASE \E t \in Threads : Connect(t)
  BY <1>8, Ranges, RetriesAssumption DEF Connect, Connected, TryAgain, ForwardLabel
<1>9. CASE \E t \in Threads, b \in BOOLEAN : ConnectFails(t, b)
  BY <1>9, RetriesAssumption DEF ConnectFails, TryAgain, ForwardLabel
<1>10. CASE \E t \in Threads : SendRequest(t)
  <2>1. PICK t \in Threads : SendRequest(t)
    BY <1>10
  <2>2. unread' \in [Sockets -> {"no", "yes", "misjudged"}] /\ pc' \in [Threads -> Labels]
    BY <2>1 DEF SendRequest
  <2> QED
    BY <2>1, <2>2 DEF SendRequest
<1>11. CASE \E t \in Threads : SendFails(t)
  BY <1>11 DEF SendFails
<1>12. CASE \E t \in Threads, l \in Latencies, b \in BOOLEAN : ReadHeader(t, l, b)
  <2>1. PICK t \in Threads, l \in Latencies, b \in BOOLEAN : ReadHeader(t, l, b)
    BY <1>12
  <2>2. ownLat' \in [Threads -> Latencies] /\ lastLat' \in [Sockets -> Latencies]
    BY <2>1 DEF ReadHeader
  <2>3. keep' \in [Threads -> {"no", "yes", "tainted"}] /\ pc' \in [Threads -> Labels]
    BY <2>1 DEF ReadHeader
  <2> QED
    BY <2>1, <2>2, <2>3 DEF ReadHeader
<1>13. CASE \E t \in Threads : HeaderFails(t)
  BY <1>13 DEF HeaderFails
<1>14. CASE \E t \in Threads : ReadBody(t) \/ StopEarly(t)
  <2>1. PICK t \in Threads : ReadBody(t) \/ StopEarly(t)
    BY <1>14
  <2>2. unread' \in [Sockets -> {"no", "yes", "misjudged"}] /\ pc' \in [Threads -> Labels]
    BY <2>1 DEF ReadBody, StopEarly
  <2> QED
    BY <2>1, <2>2 DEF ReadBody, StopEarly
<1>15. CASE \E t \in Threads : BodyEnds(t)
  BY <1>15 DEF BodyEnds
<1>16. CASE \E t \in Threads : BodyFails(t)
  BY <1>16 DEF BodyFails
<1>17. CASE \E t \in Threads : NextRequest(t)
  BY <1>17 DEF NextRequest
<1>18. CASE \E t \in Threads : Share(t)
  BY <1>18 DEF Share
<1>19. CASE \E t \in Threads : DontKeep(t)
  BY <1>19, Ranges DEF DontKeep
<1>20. CASE \E t \in Threads, a \in {0, Timeout} : Unuse(t, a)
  <2>1. PICK t \in Threads, a \in {0, Timeout} : Unuse(t, a)
    BY <1>20
  <2>2. inUse' \in [Slots -> BOOLEAN] /\ sfd' \in [Threads -> Sockets \union {NONE}]
    BY <2>1 DEF Unuse
  <2>3. age' \in [Slots -> 0 .. Timeout + 1]
    BY <2>1, Ranges DEF Unuse
  <2> QED
    BY <2>1, <2>2, <2>3 DEF Unuse
<1>21. CASE \E t \in Threads : NotRemembered(t)
  BY <1>21 DEF NotRemembered
<1>22. CASE \E t \in Threads, a \in {0, Timeout} : Remember(t, a)
  <2>1. PICK t \in Threads, a \in {0, Timeout} : Remember(t, a)
    BY <1>22
  <2> DEFINE s == Min(FreeSlots)
  <2>2. sfd[t] \in Sockets \union {NONE} /\ want[t] \in Dests \union {NONE}
        /\ ownLat[t] \in Latencies
    OBVIOUS
  <2>3. slotSfd' \in [Slots -> Sockets \union {NONE}]
        /\ slotDest' \in [Slots -> Dests \union {NONE}]
    BY <2>1, <2>2 DEF Remember
  <2>4. inUse' \in [Slots -> BOOLEAN] /\ slotLat' \in [Slots -> Latencies]
    BY <2>1, <2>2 DEF Remember
  <2>5. age' \in [Slots -> 0 .. Timeout + 1]
    BY <2>1, Ranges DEF Remember
  <2>6. sfd' \in [Threads -> Sockets \union {NONE}] /\ pc' \in [Threads -> Labels]
    BY <2>1 DEF Remember
  <2> QED
    BY <2>1, <2>3, <2>4, <2>5, <2>6 DEF Remember
<1>23. CASE \E t \in Threads : NoRoom(t)
  <2>1. PICK t \in Threads : NoRoom(t)
    BY <1>23
  <2>2. peer' \in [Sockets -> Dests \union {NONE}]
    BY <2>1 DEF NoRoom, close_socket
  <2>3. sfd' \in [Threads -> Sockets \union {NONE}] /\ pc' \in [Threads -> Labels]
    BY <2>1 DEF NoRoom
  <2> QED
    BY <2>1, <2>2, <2>3 DEF NoRoom, close_socket
<1>24. CASE \E t \in Threads : Watch(t)
  BY <1>24, Ranges DEF Watch
<1>25. CASE \E t \in Threads : Monitor(t)
  BY <1>25, CleaningTyped DEF Monitor
<1>26. CASE \E t \in Threads : Leave(t)
  <2>1. PICK t \in Threads : Leave(t)
    BY <1>26
  <2>2. own' \in [Threads -> Dests \union {NONE}] /\ pc' \in [Threads -> Labels]
    BY <2>1 DEF Leave
  <2>3. ownLat' \in [Threads -> Latencies]
    BY <2>1, Ranges DEF Leave
  <2> QED
    BY <2>1, <2>2, <2>3 DEF Leave
<1>27. CASE \E t \in Threads : Forget(t)
  BY <1>27, MarkClosedTyped DEF Forget
<1>28. CASE \E t \in Threads : Close(t)
  BY <1>28, Ranges DEF Close, close_socket
<1>29. CASE \E f \in Sockets : HangUp(f)
  BY <1>29 DEF HangUp
<1>30. CASE Tick
  BY <1>30, TimesAssumption DEF Tick
<1>31. CASE UNCHANGED vars
  BY <1>31 DEF vars
<1> QED
  BY Steps, <1>1, <1>2, <1>3, <1>4, <1>5, <1>6, <1>7, <1>8, <1>9, <1>10, <1>11, <1>12, <1>13, <1>14, <1>15, <1>16, <1>17, <1>18, <1>19, <1>20, <1>21, <1>22, <1>23, <1>24, <1>25, <1>26, <1>27, <1>28, <1>29, <1>30, <1>31

\* Types hold throughout, for the state of gateway.cpp and of serve and chat.
THEOREM TypeCorrect == Spec => []TypeOK
<1>1. ASSUME Init PROVE TypeOK
  <2>1. /\ pc \in [Threads -> Labels] /\ sfd \in [Threads -> Sockets \union {NONE}]
        /\ own \in [Threads -> Dests \union {NONE}] /\ ownLat \in [Threads -> Latencies]
        /\ want \in [Threads -> Dests \union {NONE}]
        /\ keep \in [Threads -> {"no", "yes", "tainted"}]
        /\ einval \in [Threads -> BOOLEAN] /\ tries \in [Threads -> 0 .. MaxRetries]
    BY <1>1, Ranges DEF Init, Labels
  <2>2. /\ slotSfd \in [Slots -> Sockets \union {NONE}]
        /\ slotDest \in [Slots -> Dests \union {NONE}] /\ inUse \in [Slots -> BOOLEAN]
        /\ slotLat \in [Slots -> Latencies] /\ age \in [Slots -> 0 .. Timeout + 1]
    BY <1>1, Ranges DEF Init, InitSlots
  <2>3. /\ peer \in [Sockets -> Dests \union {NONE}] /\ alive \in [Sockets -> BOOLEAN]
        /\ lastLat \in [Sockets -> Latencies]
        /\ unread \in [Sockets -> {"no", "yes", "misjudged"}]
    BY <1>1, Ranges DEF Init
  <2> QED
    BY <1>1, <2>1, <2>2, <2>3 DEF Init, TypeOK
<1> QED
  BY <1>1, TypeInductive, PTL DEF Spec

\* Every step keeps sockets, slots and threads consistent.
LEMMA SocketInductive == TypeOK /\ SocketInv /\ [Next]_vars => SocketInv'
<1> SUFFICES ASSUME TypeOK, SocketInv, [Next]_vars PROVE SocketInv'
  OBVIOUS
<1> USE NoneAssumption DEF TypeOK, SocketInv, SocketHeldOnce, IdleIsUnheld, OneSlotPerSocket, ThreadInv, Idle,
        SlotsOf, WithSocket, WithoutSocket, Goto, own_vars, req_vars, slot_vars, net_vars
<1>1. CASE \E t \in Threads : Accept(t)
  BY <1>1 DEF Accept
<1>2. CASE \E t \in Threads : NoServer(t)
  BY <1>2 DEF NoServer
<1>3. CASE \E t \in Threads, d \in Dests, rest \in BOOLEAN : ReuseOwn(t, d, rest)
  BY <1>3 DEF ReuseOwn, ReadRequest
<1>4. CASE \E t \in Threads, d \in Dests, rest \in BOOLEAN : Reconnect(t, d, rest)
  BY <1>4 DEF Reconnect, ReadRequest, ForwardLabel, close_socket
<1>5. CASE \E t \in Threads : Clean(t)
  BY <1>5 DEF Clean, close_unusable_connections, CloseSockets, MarkClosed, Unusable
<1>6. CASE \E t \in Threads : TakeSlot(t)
  <2>1. PICK t \in Threads : TakeSlot(t)
    BY <1>6
  <2> DEFINE s == Min(Matching(want[t]))
  <2>2. s \in Slots /\ Idle(s)
    BY <2>1, MatchingSlot DEF TakeSlot
  <2>3. /\ inUse' = [inUse EXCEPT ![s] = TRUE]
        /\ UNCHANGED <<slotSfd, peer, want>> /\ pc[t] = "scan"
        /\ \/ sfd' = sfd /\ \E l \in {"clean", "connect"} : pc' = [pc EXCEPT ![t] = l]
           \/ sfd' = [sfd EXCEPT ![t] = slotSfd[s]] /\ pc' = [pc EXCEPT ![t] = "exchange"]
    BY <2>1 DEF TakeSlot, Connected, ForwardLabel
  <2> HIDE DEF s
  <2>4. SocketHeldOnce' /\ OneSlotPerSocket'
    BY <2>2, <2>3
  <2>5. IdleIsUnheld' /\ \A r \in Slots : slotSfd'[r] = NONE => ~inUse'[r]
    BY <2>2, <2>3
  <2>6. ThreadInv'
    BY <2>2, <2>3
  <2> QED
    BY <2>4, <2>5, <2>6
<1>7. CASE \E t \in Threads : NoSlot(t)
  BY <1>7 DEF NoSlot
<1>8. CASE \E t \in Threads : Connect(t)
  <2>1. PICK t \in Threads : Connect(t)
    BY <1>8
  <2>2. PICK f \in Sockets :
           /\ peer[f] = NONE /\ peer' = [peer EXCEPT ![f] = want[t]]
           /\ sfd' = [sfd EXCEPT ![t] = f] /\ pc' = [pc EXCEPT ![t] = "exchange"]
           /\ want[t] # NONE /\ UNCHANGED <<want, slot_vars>>
    BY <2>1 DEF Connect, Connected, TryAgain, ForwardLabel
  <2>3. \A u \in Threads : sfd[u] # f
    BY <2>2
  <2>4. SocketHeldOnce' /\ OneSlotPerSocket'
    BY <2>2, <2>3
  <2>7. ThreadInv'
    BY <2>2, <2>3
  <2>5. IdleIsUnheld'
    BY <2>2, <2>3
  <2> QED
    BY <2>2, <2>4, <2>5, <2>7
<1>9. CASE \E t \in Threads, b \in BOOLEAN : ConnectFails(t, b)
  BY <1>9 DEF ConnectFails, ForwardLabel
<1>10. CASE \E t \in Threads : SendRequest(t)
  BY <1>10 DEF SendRequest
<1>11. CASE \E t \in Threads : SendFails(t)
  BY <1>11 DEF SendFails
<1>12. CASE \E t \in Threads, l \in Latencies, b \in BOOLEAN : ReadHeader(t, l, b)
  BY <1>12 DEF ReadHeader
<1>13. CASE \E t \in Threads : HeaderFails(t)
  BY <1>13 DEF HeaderFails
<1>14. CASE \E t \in Threads : ReadBody(t) \/ StopEarly(t)
  BY <1>14 DEF ReadBody, StopEarly
<1>15. CASE \E t \in Threads : BodyEnds(t)
  BY <1>15 DEF BodyEnds
<1>16. CASE \E t \in Threads : BodyFails(t)
  BY <1>16 DEF BodyFails
<1>17. CASE \E t \in Threads : NextRequest(t)
  BY <1>17 DEF NextRequest
<1>18. CASE \E t \in Threads : Share(t)
  BY <1>18 DEF Share, ContinueChatting
<1>19. CASE \E t \in Threads : DontKeep(t)
  BY <1>19 DEF DontKeep
<1>20. CASE \E t \in Threads, a \in {0, Timeout} : Unuse(t, a)
  <2>1. PICK t \in Threads, a \in {0, Timeout} : Unuse(t, a)
    BY <1>20
  <2> DEFINE s == Min(SlotsOf(sfd[t]))
  <2>2. s \in Slots /\ slotSfd[s] = sfd[t] /\ sfd[t] # NONE /\ peer[sfd[t]] # NONE
    BY <2>1, SlotOf DEF Unuse
  <2>3. /\ inUse' = [inUse EXCEPT ![s] = FALSE] /\ sfd' = [sfd EXCEPT ![t] = NONE]
        /\ slotSfd' = slotSfd /\ peer' = peer /\ pc' = [pc EXCEPT ![t] = "watch"]
        /\ want' = want
    BY <2>1 DEF Unuse
  <2> HIDE DEF s
  <2>4. SocketHeldOnce' /\ OneSlotPerSocket'
    BY <2>2, <2>3
  <2>7. ThreadInv'
    BY <2>2, <2>3
  <2>5. IdleIsUnheld'
    BY <2>2, <2>3
  <2>6. \A r \in Slots : slotSfd'[r] = NONE => ~inUse'[r]
    BY <2>2, <2>3
  <2> QED
    BY <2>4, <2>5, <2>6, <2>7
<1>21. CASE \E t \in Threads : NotRemembered(t)
  BY <1>21 DEF NotRemembered
<1>22. CASE \E t \in Threads, a \in {0, Timeout} : Remember(t, a)
  BY <1>22, FreeSlot DEF Remember
<1>23. CASE \E t \in Threads : NoRoom(t)
  BY <1>23 DEF NoRoom, close_socket
<1>24. CASE \E t \in Threads : Watch(t)
  BY <1>24 DEF Watch
<1>25. CASE \E t \in Threads : Monitor(t)
  BY <1>25 DEF Monitor, close_unusable_connections, CloseSockets, MarkClosed, Unusable
<1>26. CASE \E t \in Threads : Leave(t)
  BY <1>26 DEF Leave
<1>27. CASE \E t \in Threads : Forget(t)
  <2>1. PICK t \in Threads : Forget(t)
    BY <1>27
  <2>2. /\ \A s \in Slots : \/ slotSfd'[s] = slotSfd[s] /\ inUse'[s] = inUse[s]
                            \/ slotSfd'[s] = NONE /\ ~inUse'[s]
        /\ UNCHANGED <<sfd, peer, want>> /\ pc' = [pc EXCEPT ![t] = "close"]
    <3>1. CASE SlotsOf(sfd[t]) = {}
      BY <2>1, <3>1 DEF Forget
    <3>2. CASE SlotsOf(sfd[t]) # {}
      <4> DEFINE S == {Min(SlotsOf(sfd[t]))}
      <4>1. MarkClosed(S)
        BY <2>1, <3>2 DEF Forget
      <4> HIDE DEF S
      <4>2. \A s \in Slots : \/ slotSfd'[s] = slotSfd[s] /\ inUse'[s] = inUse[s]
                             \/ slotSfd'[s] = NONE /\ ~inUse'[s]
        BY <4>1 DEF MarkClosed
      <4> QED
        BY <2>1, <4>2 DEF Forget
    <3> QED
      BY <3>1, <3>2
  <2>3. SocketHeldOnce' /\ OneSlotPerSocket'
    BY <2>2
  <2>5. ThreadInv'
    BY <2>2
  <2>4. IdleIsUnheld' /\ \A s \in Slots : slotSfd'[s] = NONE => ~inUse'[s]
    BY <2>2
  <2> QED
    BY <2>3, <2>4, <2>5
<1>28. CASE \E t \in Threads : Close(t)
  BY <1>28 DEF Close, close_socket
<1>29. CASE \E f \in Sockets : HangUp(f)
  BY <1>29 DEF HangUp
<1>30. CASE Tick
  BY <1>30 DEF Tick
<1>31. CASE UNCHANGED vars
  BY <1>31 DEF vars
<1> QED
  BY Steps, <1>1, <1>2, <1>3, <1>4, <1>5, <1>6, <1>7, <1>8, <1>9, <1>10, <1>11, <1>12, <1>13, <1>14, <1>15, <1>16, <1>17, <1>18, <1>19, <1>20, <1>21, <1>22, <1>23, <1>24, <1>25, <1>26, <1>27, <1>28, <1>29, <1>30, <1>31

\* Every step keeps monitor_thread_running in step with the threads of serve.
LEMMA MonitorInductive == TypeOK /\ OneMonitor /\ [Next]_vars => OneMonitor'
<1> SUFFICES ASSUME TypeOK, OneMonitor, [Next]_vars PROVE OneMonitor'
  OBVIOUS
<1> USE DEF TypeOK, OneMonitor, Goto
<1>1. CASE \E t \in Threads : Accept(t)
  BY <1>1 DEF Accept
<1>2. CASE \E t \in Threads : NoServer(t)
  BY <1>2 DEF NoServer
<1>3. CASE \E t \in Threads, d \in Dests, rest \in BOOLEAN : ReuseOwn(t, d, rest)
  BY <1>3 DEF ReuseOwn, ReadRequest
<1>4. CASE \E t \in Threads, d \in Dests, rest \in BOOLEAN : Reconnect(t, d, rest)
  BY <1>4 DEF Reconnect, ReadRequest, ForwardLabel
<1>5. CASE \E t \in Threads : Clean(t)
  BY <1>5 DEF Clean
<1>6. CASE \E t \in Threads : TakeSlot(t)
  BY <1>6 DEF TakeSlot, Connected, ForwardLabel
<1>7. CASE \E t \in Threads : NoSlot(t)
  BY <1>7 DEF NoSlot
<1>8. CASE \E t \in Threads : Connect(t)
  <2>1. PICK t \in Threads : Connect(t)
    BY <1>8
  <2>2. pc[t] = "connect" /\ monitor' = monitor
        /\ pc' = [pc EXCEPT ![t] = "exchange"]
    BY <2>1 DEF Connect, Connected, TryAgain, ForwardLabel
  <2> QED
    BY <2>2
<1>9. CASE \E t \in Threads, b \in BOOLEAN : ConnectFails(t, b)
  BY <1>9 DEF ConnectFails, ForwardLabel
<1>10. CASE \E t \in Threads : SendRequest(t)
  BY <1>10 DEF SendRequest
<1>11. CASE \E t \in Threads : SendFails(t)
  BY <1>11 DEF SendFails
<1>12. CASE \E t \in Threads, l \in Latencies, b \in BOOLEAN : ReadHeader(t, l, b)
  BY <1>12 DEF ReadHeader
<1>13. CASE \E t \in Threads : HeaderFails(t)
  BY <1>13 DEF HeaderFails
<1>14. CASE \E t \in Threads : ReadBody(t) \/ StopEarly(t)
  BY <1>14 DEF ReadBody, StopEarly
<1>15. CASE \E t \in Threads : BodyEnds(t)
  BY <1>15 DEF BodyEnds
<1>16. CASE \E t \in Threads : BodyFails(t)
  BY <1>16 DEF BodyFails
<1>17. CASE \E t \in Threads : NextRequest(t)
  BY <1>17 DEF NextRequest
<1>18. CASE \E t \in Threads : Share(t)
  BY <1>18 DEF Share
<1>19. CASE \E t \in Threads : DontKeep(t)
  BY <1>19 DEF DontKeep
<1>20. CASE \E t \in Threads, a \in {0, Timeout} : Unuse(t, a)
  BY <1>20 DEF Unuse
<1>21. CASE \E t \in Threads : NotRemembered(t)
  BY <1>21 DEF NotRemembered
<1>22. CASE \E t \in Threads, a \in {0, Timeout} : Remember(t, a)
  BY <1>22 DEF Remember
<1>23. CASE \E t \in Threads : NoRoom(t)
  BY <1>23 DEF NoRoom
<1>24. CASE \E t \in Threads : Watch(t)
  BY <1>24 DEF Watch
<1>25. CASE \E t \in Threads : Monitor(t)
  BY <1>25 DEF Monitor
<1>26. CASE \E t \in Threads : Leave(t)
  BY <1>26 DEF Leave
<1>27. CASE \E t \in Threads : Forget(t)
  BY <1>27 DEF Forget
<1>28. CASE \E t \in Threads : Close(t)
  BY <1>28 DEF Close
<1>29. CASE \E f \in Sockets : HangUp(f)
  BY <1>29 DEF HangUp
<1>30. CASE Tick
  BY <1>30 DEF Tick
<1>31. CASE UNCHANGED vars
  BY <1>31 DEF vars
<1> QED
  BY Steps, <1>1, <1>2, <1>3, <1>4, <1>5, <1>6, <1>7, <1>8, <1>9, <1>10, <1>11, <1>12, <1>13, <1>14, <1>15, <1>16, <1>17, <1>18, <1>19, <1>20, <1>21, <1>22, <1>23, <1>24, <1>25, <1>26, <1>27, <1>28, <1>29, <1>30, <1>31

\* Every step keeps unread answers out of the pool.
LEMMA UnreadInductive == TypeOK /\ SocketInv /\ UnreadInv /\ [Next]_vars => UnreadInv'
<1> SUFFICES ASSUME TypeOK, SocketInv, UnreadInv, [Next]_vars PROVE UnreadInv'
  OBVIOUS
<1> USE NoneAssumption DEF TypeOK, SocketInv, SocketHeldOnce, IdleIsUnheld, ThreadInv, UnreadInv, Idle,
        WithSocket, WithoutSocket, Goto, own_vars, req_vars, slot_vars, net_vars
<1>1. CASE \E t \in Threads : Accept(t)
  BY <1>1 DEF Accept
<1>2. CASE \E t \in Threads : NoServer(t)
  BY <1>2 DEF NoServer
<1>3. CASE \E t \in Threads, d \in Dests, rest \in BOOLEAN : ReuseOwn(t, d, rest)
  BY <1>3 DEF ReuseOwn, ReadRequest
<1>4. CASE \E t \in Threads, d \in Dests, rest \in BOOLEAN : Reconnect(t, d, rest)
  BY <1>4 DEF Reconnect, ReadRequest, ForwardLabel, close_socket
<1>5. CASE \E t \in Threads : Clean(t)
  BY <1>5 DEF Clean, close_unusable_connections, CloseSockets, MarkClosed, Unusable
<1>6. CASE \E t \in Threads : TakeSlot(t)
  BY <1>6, MatchingSlot DEF TakeSlot, Connected, ForwardLabel
<1>7. CASE \E t \in Threads : NoSlot(t)
  BY <1>7 DEF NoSlot
<1>8. CASE \E t \in Threads : Connect(t)
  <2>1. PICK t \in Threads : Connect(t)
    BY <1>8
  <2>2. PICK f \in Sockets :
           /\ peer[f] = NONE /\ unread' = [unread EXCEPT ![f] = "no"]
           /\ alive' = [alive EXCEPT ![f] = TRUE] /\ pc[t] = "connect"
           /\ sfd' = [sfd EXCEPT ![t] = f] /\ pc' = [pc EXCEPT ![t] = "exchange"]
           /\ keep' = keep /\ UNCHANGED slot_vars
    BY <2>1 DEF Connect, Connected, TryAgain, ForwardLabel
  <2>3. \A u \in Threads : sfd[u] # f
    BY <2>2
  <2> QED
    BY <2>2, <2>3
<1>9. CASE \E t \in Threads, b \in BOOLEAN : ConnectFails(t, b)
  BY <1>9 DEF ConnectFails, ForwardLabel
<1>10. CASE \E t \in Threads : SendRequest(t)
  BY <1>10 DEF SendRequest
<1>11. CASE \E t \in Threads : SendFails(t)
  BY <1>11 DEF SendFails
<1>12. CASE \E t \in Threads, l \in Latencies, b \in BOOLEAN : ReadHeader(t, l, b)
  BY <1>12 DEF ReadHeader
<1>13. CASE \E t \in Threads : HeaderFails(t)
  BY <1>13 DEF HeaderFails
<1>14. CASE \E t \in Threads : ReadBody(t) \/ StopEarly(t)
  BY <1>14 DEF ReadBody, StopEarly
<1>15. CASE \E t \in Threads : BodyEnds(t)
  BY <1>15 DEF BodyEnds
<1>16. CASE \E t \in Threads : BodyFails(t)
  BY <1>16 DEF BodyFails
<1>17. CASE \E t \in Threads : NextRequest(t)
  BY <1>17 DEF NextRequest, ContinueChatting
<1>18. CASE \E t \in Threads : Share(t)
  BY <1>18 DEF Share, ContinueChatting
<1>19. CASE \E t \in Threads : DontKeep(t)
  BY <1>19 DEF DontKeep
<1>20. CASE \E t \in Threads, a \in {0, Timeout} : Unuse(t, a)
  BY <1>20, SlotOf DEF Unuse
<1>21. CASE \E t \in Threads : NotRemembered(t)
  BY <1>21 DEF NotRemembered
<1>22. CASE \E t \in Threads, a \in {0, Timeout} : Remember(t, a)
  BY <1>22, FreeSlot DEF Remember
<1>23. CASE \E t \in Threads : NoRoom(t)
  BY <1>23 DEF NoRoom, close_socket
<1>24. CASE \E t \in Threads : Watch(t)
  BY <1>24 DEF Watch
<1>25. CASE \E t \in Threads : Monitor(t)
  BY <1>25 DEF Monitor, close_unusable_connections, CloseSockets, MarkClosed, Unusable
<1>26. CASE \E t \in Threads : Leave(t)
  BY <1>26 DEF Leave
<1>27. CASE \E t \in Threads : Forget(t)
  <2>1. PICK t \in Threads : Forget(t)
    BY <1>27
  <2>2. /\ \A s \in Slots : \/ slotSfd'[s] = slotSfd[s] /\ inUse'[s] = inUse[s]
                            \/ slotSfd'[s] = NONE /\ ~inUse'[s]
        /\ sfd' = sfd /\ pc[t] = "forget" /\ pc' = [pc EXCEPT ![t] = "close"]
        /\ UNCHANGED <<unread, alive, keep>>
    <3>1. CASE SlotsOf(sfd[t]) = {}
      BY <2>1, <3>1 DEF Forget
    <3>2. CASE SlotsOf(sfd[t]) # {}
      <4> DEFINE S == {Min(SlotsOf(sfd[t]))}
      <4>1. MarkClosed(S)
        BY <2>1, <3>2 DEF Forget
      <4> HIDE DEF S
      <4>2. \A s \in Slots : \/ slotSfd'[s] = slotSfd[s] /\ inUse'[s] = inUse[s]
                             \/ slotSfd'[s] = NONE /\ ~inUse'[s]
        BY <4>1 DEF MarkClosed
      <4> QED
        BY <2>1, <4>2 DEF Forget
    <3> QED
      BY <3>1, <3>2
  <2> QED
    BY <2>2
<1>28. CASE \E t \in Threads : Close(t)
  BY <1>28 DEF Close, close_socket
<1>29. CASE \E f \in Sockets : HangUp(f)
  BY <1>29 DEF HangUp
<1>30. CASE Tick
  BY <1>30 DEF Tick
<1>31. CASE UNCHANGED vars
  BY <1>31 DEF vars
<1> QED
  BY Steps, <1>1, <1>2, <1>3, <1>4, <1>5, <1>6, <1>7, <1>8, <1>9, <1>10, <1>11, <1>12, <1>13, <1>14, <1>15, <1>16, <1>17, <1>18, <1>19, <1>20, <1>21, <1>22, <1>23, <1>24, <1>25, <1>26, <1>27, <1>28, <1>29, <1>30, <1>31

\* Without connection-sharing every step keeps the threads' notes true.
LEMMA UnsharedInductive == ~Sharing /\ TypeOK /\ SocketInv /\ UnsharedInv /\ [Next]_vars => UnsharedInv'
<1> SUFFICES ASSUME ~Sharing, TypeOK, SocketInv, UnsharedInv, [Next]_vars PROVE UnsharedInv'
  OBVIOUS
<1> USE NoneAssumption DEF TypeOK, SocketInv, SocketHeldOnce, ThreadInv, UnsharedInv, WithSocket,
        WithoutSocket, Goto, own_vars, req_vars, slot_vars, net_vars
<1>1. CASE \E t \in Threads : Accept(t)
  BY <1>1 DEF Accept
<1>2. CASE \E t \in Threads : NoServer(t)
  BY <1>2 DEF NoServer
<1>3. CASE \E t \in Threads, d \in Dests, rest \in BOOLEAN : ReuseOwn(t, d, rest)
  BY <1>3 DEF ReuseOwn, ReadRequest, connection_destination_matches
<1>4. CASE \E t \in Threads, d \in Dests, rest \in BOOLEAN : Reconnect(t, d, rest)
  BY <1>4 DEF Reconnect, ReadRequest, ForwardLabel, close_socket
<1>5. CASE \E t \in Threads : Clean(t)
  BY <1>5 DEF Clean, close_unusable_connections, CloseSockets, MarkClosed, Unusable
<1>6. CASE \E t \in Threads : TakeSlot(t)
  BY <1>6, MatchingSlot DEF TakeSlot, Connected, ForwardLabel
<1>7. CASE \E t \in Threads : NoSlot(t)
  BY <1>7 DEF NoSlot
<1>8. CASE \E t \in Threads : Connect(t)
  <2>1. PICK t \in Threads : Connect(t)
    BY <1>8
  <2>2. PICK f \in Sockets :
           /\ peer[f] = NONE /\ peer' = [peer EXCEPT ![f] = want[t]]
           /\ sfd' = [sfd EXCEPT ![t] = f] /\ pc' = [pc EXCEPT ![t] = "exchange"]
           /\ own' = [own EXCEPT ![t] = want[t]] /\ UNCHANGED want
    BY <2>1 DEF Connect, Connected, TryAgain, ForwardLabel
  <2>3. \A u \in Threads : sfd[u] # f
    BY <2>2
  <2> QED
    BY <2>2, <2>3
<1>9. CASE \E t \in Threads, b \in BOOLEAN : ConnectFails(t, b)
  BY <1>9 DEF ConnectFails, ForwardLabel
<1>10. CASE \E t \in Threads : SendRequest(t)
  BY <1>10 DEF SendRequest
<1>11. CASE \E t \in Threads : SendFails(t)
  BY <1>11 DEF SendFails
<1>12. CASE \E t \in Threads, l \in Latencies, b \in BOOLEAN : ReadHeader(t, l, b)
  BY <1>12 DEF ReadHeader
<1>13. CASE \E t \in Threads : HeaderFails(t)
  BY <1>13 DEF HeaderFails
<1>14. CASE \E t \in Threads : ReadBody(t) \/ StopEarly(t)
  BY <1>14 DEF ReadBody, StopEarly
<1>15. CASE \E t \in Threads : BodyEnds(t)
  BY <1>15 DEF BodyEnds
<1>16. CASE \E t \in Threads : BodyFails(t)
  BY <1>16 DEF BodyFails
<1>17. CASE \E t \in Threads : NextRequest(t)
  BY <1>17 DEF NextRequest
<1>18. CASE \E t \in Threads : Share(t)
  BY <1>18 DEF Share, ContinueChatting
<1>19. CASE \E t \in Threads : DontKeep(t)
  BY <1>19 DEF DontKeep, ContinueChatting
<1>20. CASE \E t \in Threads, a \in {0, Timeout} : Unuse(t, a)
  BY <1>20, SlotOf DEF Unuse
<1>21. CASE \E t \in Threads : NotRemembered(t)
  BY <1>21 DEF NotRemembered
<1>22. CASE \E t \in Threads, a \in {0, Timeout} : Remember(t, a)
  BY <1>22, FreeSlot DEF Remember
<1>23. CASE \E t \in Threads : NoRoom(t)
  BY <1>23 DEF NoRoom, close_socket
<1>24. CASE \E t \in Threads : Watch(t)
  BY <1>24 DEF Watch
<1>25. CASE \E t \in Threads : Monitor(t)
  BY <1>25 DEF Monitor, close_unusable_connections, CloseSockets, MarkClosed, Unusable
<1>26. CASE \E t \in Threads : Leave(t)
  BY <1>26 DEF Leave
<1>27. CASE \E t \in Threads : Forget(t)
  BY <1>27, SlotOf DEF Forget, MarkClosed
<1>28. CASE \E t \in Threads : Close(t)
  BY <1>28 DEF Close, close_socket
<1>29. CASE \E f \in Sockets : HangUp(f)
  BY <1>29 DEF HangUp
<1>30. CASE Tick
  BY <1>30 DEF Tick
<1>31. CASE UNCHANGED vars
  BY <1>31 DEF vars
<1> QED
  BY Steps, <1>1, <1>2, <1>3, <1>4, <1>5, <1>6, <1>7, <1>8, <1>9, <1>10, <1>11, <1>12, <1>13, <1>14, <1>15, <1>16, <1>17, <1>18, <1>19, <1>20, <1>21, <1>22, <1>23, <1>24, <1>25, <1>26, <1>27, <1>28, <1>29, <1>30, <1>31

\* The inductive invariant of the pool holds throughout.
LEMMA PoolInvariant == Spec => [](TypeOK /\ PoolInv)
<1>1. Init => TypeOK /\ PoolInv
  <2> SUFFICES ASSUME Init PROVE TypeOK /\ PoolInv
    OBVIOUS
  <2>1. TypeOK
    BY Ranges DEF Init, InitSlots, TypeOK, Labels
  <2>2. SocketInv
    BY NoneAssumption DEF Init, InitSlots, SocketInv, SocketHeldOnce, IdleIsUnheld,
       OneSlotPerSocket, ThreadInv, Idle, WithSocket, WithoutSocket
  <2>3. OneMonitor /\ UnreadInv
    BY DEF Init, InitSlots, OneMonitor, UnreadInv, Idle
  <2> QED
    BY <2>1, <2>2, <2>3 DEF PoolInv
<1>2. TypeOK /\ PoolInv /\ [Next]_vars => TypeOK' /\ PoolInv'
  BY TypeInductive, SocketInductive, MonitorInductive, UnreadInductive DEF PoolInv
<1> QED
  BY <1>1, <1>2, PTL DEF Spec

\* serve and chat: no two threads ever hold the same server socket.
THEOREM ExclusiveSockets == Spec => []SocketHeldOnce
<1>1. PoolInv => SocketHeldOnce
  BY DEF PoolInv, SocketInv
<1> QED
  BY <1>1, PoolInvariant, PTL

\* gateway.cpp: what is up for reuse is open, and nobody's.
THEOREM IdleSocketsFree == Spec => [](IdleIsUnheld /\ OneSlotPerSocket)
<1>1. PoolInv => IdleIsUnheld /\ OneSlotPerSocket
  BY DEF PoolInv, SocketInv
<1> QED
  BY <1>1, PoolInvariant, PTL

\* gateway.cpp: the assertions about _in_use never fail.
THEOREM AssertionsHold == Spec => []AssertsHold
<1>1. TypeOK /\ PoolInv => AssertsHold
  <2> SUFFICES ASSUME TypeOK, PoolInv PROVE AssertsHold
    OBVIOUS
  <2>1. \A s \in Slots : slotSfd[s] = NONE => ~inUse[s]
    BY DEF PoolInv, SocketInv
  <2>2. \A t \in Threads : pc[t] \in {"unuse", "forget"} => sfd[t] # NONE
    BY DEF PoolInv, SocketInv, ThreadInv, WithSocket
  <2>3. \A t \in Threads : sfd[t] # NONE => \A s \in SlotsOf(sfd[t]) : inUse[s]
    BY DEF PoolInv, SocketInv, IdleIsUnheld, Idle, SlotsOf
  <2> QED
    BY <2>1, <2>2, <2>3 DEF AssertsHold
<1> QED
  BY <1>1, PoolInvariant, PTL

\* serve: monitor_thread_running says whether there is a monitor, and there is
\* one at most.
THEOREM MonitorIsAlone == Spec => []OneMonitor
<1>1. PoolInv => OneMonitor
  BY DEF PoolInv
<1> QED
  BY <1>1, PoolInvariant, PTL

\* mark_server_socket_tainted: no request goes out on a socket that still has
\* an answer to be read, unless chat misjudged where that answer, or an earlier
\* one on the socket, ends.
THEOREM NoGarbage == Spec => []CleanReuse
<1>1. PoolInv => CleanReuse
  BY DEF PoolInv, SocketInv, ThreadInv, UnreadInv, CleanReuse, WithSocket
<1> QED
  BY <1>1, PoolInvariant, PTL

\* chat, without connection-sharing: every request goes to its destination.
THEOREM UnsharedGoesRight == ~Sharing => (Spec => []RightDestination)
<1> SUFFICES ASSUME ~Sharing PROVE Spec => []RightDestination
  OBVIOUS
<1>1. Init => UnsharedInv
  BY DEF Init, UnsharedInv
<1>2. TypeOK /\ PoolInv /\ UnsharedInv /\ [Next]_vars => UnsharedInv'
  BY UnsharedInductive DEF PoolInv
<1>3. PoolInv /\ UnsharedInv => RightDestination
  BY DEF UnsharedInv, RightDestination, PoolInv, SocketInv, ThreadInv, WithSocket
<1> QED
  BY <1>1, <1>2, <1>3, PoolInvariant, PTL DEF Spec
=============================================================================
