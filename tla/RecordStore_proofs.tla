------------------------ MODULE RecordStore_proofs ------------------------
(***************************************************************************)
(* Proofs about RecordStore, for any sets of threads, peers, keys and      *)
(* addresses and for both kinds of callers.                                *)
(***************************************************************************)
EXTENDS RecordStore, TLAPS

\* Erasing an entry of a cache keeps the type of index.
LEMMA EraseTyped ==
  ASSUME TypeOK, NEW r \in Recs, Erase(r)
  PROVE  index' \in [Caches -> [Keys -> Recs \cup {NONE}]]
<1> DEFINE i == index[cacheOf[r]]
<1>1. CASE cacheOf[r] \in Caches
  <2>1. [i EXCEPT ![keyOf[r]] = NONE] \in [Keys -> Recs \cup {NONE}]
    BY <1>1 DEF TypeOK
  <2> QED
    BY <1>1, <2>1 DEF TypeOK, Erase
<1>2. CASE cacheOf[r] \notin Caches
  BY <1>2 DEF TypeOK, Erase
<1> QED
  BY <1>1, <1>2

\* Freeing a record keeps the types.
LEMMA FreeRecTyped ==
  ASSUME TypeOK, NEW r, FreeRec(r)
  PROVE  /\ recs' \subseteq Recs /\ stale' \subseteq Recs /\ dangling' \subseteq Recs
         /\ cr' \in [Threads -> Recs \cup {NONE}]
         /\ keyOf' \in [Recs -> Keys \cup {NONE}]
  BY DEF TypeOK, FreeRec

\* Freeing a cache keeps the types.
LEMMA FreeCacheTyped ==
  ASSUME TypeOK, NEW c, FreeCache(c)
  PROVE  /\ caches' \subseteq Caches
         /\ store' \in [Peers -> Caches \cup {NONE}]
         /\ cacheOf' \in [Recs -> Caches \cup {NONE}]
         /\ crc' \in [Threads -> Caches \cup {NONE}]
         /\ peerOf' = peerOf /\ index' = index
  BY DEF TypeOK, FreeCache

\* Every step keeps the types, action by action.
LEMMA TypeInductive == TypeOK /\ [Next]_vars => TypeOK'
<1> SUFFICES ASSUME TypeOK, [Next]_vars PROVE TypeOK'
  OBVIOUS
<1> USE DEF TypeOK, Calls, Labels, Holders, Goto, Runs, AtCache, AtRec,
        threadVars, cacheVars, recVars, mutexVars, sweepVars
<1>1. CASE \E t \in Threads : UseFreed(t)
  BY <1>1, CallersAssumption DEF UseFreed, Goto, Runs, AtCache, AtRec, threadVars,
     cacheVars, recVars, mutexVars, sweepVars, Fault
<1>2. CASE \E t \in Threads : Begin(t)
  BY <1>2, CallersAssumption DEF Begin
<1>3. CASE \E t \in Threads : FindNoCache(t)
  BY <1>3, CallersAssumption DEF FindNoCache
<1>4. CASE \E t \in Threads : FindCache(t)
  BY <1>4, CallersAssumption DEF FindCache
<1>5. CASE \E t \in Threads : FindNoRecord(t)
  BY <1>5, CallersAssumption DEF FindNoRecord
<1>6. CASE \E t \in Threads : FindRecord(t)
  BY <1>6, CallersAssumption DEF FindRecord
<1>7. CASE \E t \in Threads : FollowHit(t)
  BY <1>7, CallersAssumption DEF FollowHit
<1>8. CASE \E t \in Threads : Touch(t)
  BY <1>8, CallersAssumption DEF Touch
<1>9. CASE \E t \in Threads : SecondUnlock(t)
  BY <1>9, CallersAssumption DEF SecondUnlock
<1>10. CASE \E t \in Threads : Fetch(t)
  BY <1>10, CallersAssumption DEF Fetch
<1>11. CASE \E t \in Threads : AddToCache(t)
  BY <1>11, CallersAssumption DEF AddToCache
<1>12. CASE \E t \in Threads : AddNewCache(t)
  BY <1>12, CallersAssumption DEF AddNewCache, Goto, Runs, AtCache, AtRec, threadVars,
     cacheVars, recVars, mutexVars, sweepVars, NoRecords
<1>13. CASE \E t \in Threads : LockCache(t)
  BY <1>13, CallersAssumption DEF LockCache
<1>14. CASE \E t \in Threads : Undust(t)
  BY <1>14, CallersAssumption DEF Undust
<1>15. CASE \E t \in Threads : RemoveOld(t)
  <2>1. PICK t \in Threads : RemoveOld(t)
    BY <1>15
  <2>2. index' \in [Caches -> [Keys -> Recs \cup {NONE}]]
    BY <2>1, EraseTyped DEF RemoveOld, Runs, AtRec
  <2> QED
    BY <2>1, <2>2 DEF RemoveOld
<1>16. CASE \E t \in Threads : FreeOld(t)
  BY <1>16, CallersAssumption DEF FreeOld, Goto, Runs, AtCache, AtRec, threadVars,
     cacheVars, recVars, mutexVars, sweepVars, FreeRec, IsEmpty
<1>17. CASE \E t \in Threads : DropCache(t)
  <2>1. PICK t \in Threads : DropCache(t)
    BY <1>17
  <2>2. FreeCache(cacheOf[cr[t]]) /\ FreeRec(cr[t])
    BY <2>1 DEF DropCache
  <2> QED
    BY <2>1, <2>2, FreeRecTyped, FreeCacheTyped DEF DropCache
<1>18. CASE \E t \in Threads : Relock(t)
  BY <1>18, CallersAssumption DEF Relock
<1>19. CASE \E t \in Threads : Insert(t)
  <2>1. PICK t \in Threads : Insert(t)
    BY <1>19
  <2>2. PICK r \in Recs \ recs :
          /\ recs' = recs \cup {r} /\ stale' = stale \ {r} /\ dangling' = dangling \ {r}
          /\ keyOf' = [keyOf EXCEPT ![r] = call[t].key]
          /\ cacheOf' = [cacheOf EXCEPT ![r] = crc[t]]
          /\ cr' = [cr EXCEPT ![t] = r]
          /\ index' = IF index[crc[t]][call[t].key] = NONE
                      THEN [index EXCEPT ![crc[t]][call[t].key] = r] ELSE index
    BY <2>1 DEF Insert
  <2>3. /\ crc[t] \in Caches /\ call[t].key \in Keys
        /\ [index[crc[t]] EXCEPT ![call[t].key] = r] \in [Keys -> Recs \cup {NONE}]
    BY <2>1 DEF Insert, AtCache, Runs
  <2>4. index' \in [Caches -> [Keys -> Recs \cup {NONE}]]
    BY <2>2, <2>3
  <2> QED
    BY <2>1, <2>2, <2>3, <2>4 DEF Insert
<1>20. CASE \E t \in Threads : Register(t)
  BY <1>20, CallersAssumption DEF Register
<1>21. CASE \E t \in Threads : Stored(t)
  BY <1>21, CallersAssumption DEF Stored
<1>22. CASE \E t \in Threads : Use(t)
  BY <1>22, CallersAssumption DEF Use
<1>23. CASE SweepBegin
  BY <1>23 DEF SweepBegin
<1>24. CASE SweepRemove
  <2>1. CASE Fault
    BY <2>1 DEF Fault
  <2>2. CASE victim \in recs /\ Erase(victim) /\ ~Fault
    <3>1. victim \in Recs
      BY <2>2
    <3>2. index' \in [Caches -> [Keys -> Recs \cup {NONE}]]
      BY <2>2, <3>1, EraseTyped
    <3> QED
      BY <1>24, <2>2, <3>2 DEF SweepRemove
  <2> QED
    BY <1>24, <2>1, <2>2 DEF SweepRemove
<1>25. CASE SweepFree
  <2>1. CASE Fault
    BY <2>1 DEF Fault
  <2>2. CASE ~Fault /\ IsEmpty(cacheOf[victim])
    BY <1>25, <2>2 DEF SweepFree
  <2>3. CASE ~Fault /\ ~IsEmpty(cacheOf[victim])
    BY <1>25, <2>3, FreeRecTyped DEF SweepFree
  <2> QED
    BY <2>1, <2>2, <2>3
<1>26. CASE SweepDropCache
  <2>1. CASE Fault
    BY <2>1 DEF Fault
  <2>2. CASE FreeCache(cacheOf[victim]) /\ FreeRec(victim) /\ ~Fault
    BY <1>26, <2>2, FreeRecTyped, FreeCacheTyped DEF SweepDropCache
  <2> QED
    BY <1>26, <2>1, <2>2 DEF SweepDropCache
<1>27. CASE SweepEnd
  BY <1>27 DEF SweepEnd
<1>28. CASE \E r \in Recs : SweepSkip(r)
  BY <1>28 DEF SweepSkip
<1>29. CASE \E r \in Recs : SweepTake(r)
  BY <1>29 DEF SweepTake
<1>30. CASE \E r \in Recs : Expire(r)
  BY <1>30 DEF Expire
<1>31. CASE UNCHANGED vars
  BY <1>31 DEF vars
<1> QED
  BY <1>1, <1>2, <1>3, <1>4, <1>5, <1>6, <1>7, <1>8, <1>9, <1>10, <1>11, <1>12, <1>13,
     <1>14, <1>15, <1>16, <1>17, <1>18, <1>19, <1>20, <1>21, <1>22, <1>23, <1>24,
        <1>25, <1>26, <1>27, <1>28, <1>29, <1>30, <1>31 DEF Next, ThreadStep, SweepStep

\* The type invariant of the store (cr_store, cr_cache, cached_record).
THEOREM TypeCorrect == Spec => []TypeOK
<1>1. Init => TypeOK
  BY DEF Init, TypeOK, Labels, Calls, Holders, NoRecords
<1> QED
  BY <1>1, TypeInductive, PTL DEF Spec

\* Only thread t moves, and it moves no object.
OneMoves(t) ==
  /\ \A u \in Threads \ {t} : /\ pc'[u] = pc[u] /\ call'[u] = call[u]
                               /\ crc'[u] = crc[u] /\ cr'[u] = cr[u]
  /\ UNCHANGED <<caches, peerOf, index, recs, keyOf, cacheOf, store, cacheMx,
                 dustMx, dust, sweepPc, toVisit, victim>>

\* A step of a thread that finds or reads disturbs no other thread.
LEMMA ReaderStep ==
  ASSUME TypeOK, TypeOK', StoreInv, NEW t \in Threads, OneMoves(t),
         pc[t] \notin Adding, pc'[t] \notin Adding,
         crc'[t] # NONE => crc'[t] \in caches, cr'[t] = cr[t]
  PROVE  StoreInv'
<1> USE NamesAssumption DEF TypeOK, StoreInv, OneMoves, Adding, Deleting
<1>1. DustIsExact'
  BY DEF DustIsExact
<1>2. IndexIsLive'
  BY DEF IndexIsLive
<1>3. NotBothDeleted'
  BY DEF NotBothDeleted
<1>4. EmptyInv'
  <2> SUFFICES ASSUME NEW c \in caches, IsEmpty(c), ~SweptEmpty(c)
               PROVE  \E u \in Threads : Owns(u, c)'
    BY DEF EmptyInv, IsEmpty, SweptEmpty
  <2>1. PICK u \in Threads : Owns(u, c)
    BY DEF EmptyInv
  <2>2. u # t /\ Owns(u, c)'
    BY <2>1 DEF Owns
  <2> QED
    BY <2>2
<1>5. PointersInv'
  BY DEF PointersInv
<1>6. DestroyedInv'
  BY DEF DestroyedInv
<1>7. SweepInv'
  BY DEF SweepInv
<1> QED
  BY <1>1, <1>2, <1>3, <1>4, <1>5, <1>6, <1>7

\* The inductive step of StoreInv, action by action.
LEMMA StoreInductive == TypeOK /\ TypeOK' /\ StoreInv /\ [Next]_vars => StoreInv'
<1> SUFFICES ASSUME TypeOK, TypeOK', StoreInv, [Next]_vars PROVE StoreInv'
  OBVIOUS
<1> USE NamesAssumption DEF TypeOK, Calls, Labels, StoreInv, PointersInv, DestroyedInv,
        SweepInv, DustIsExact, IndexIsLive, NotBothDeleted, Deleting, Adding,
        Goto, Runs, AtCache, AtRec, threadVars, cacheVars, recVars, mutexVars, sweepVars
<1>1. CASE \E t \in Threads : UseFreed(t)
  BY <1>1 DEF UseFreed, Fault, EmptyInv, IsEmpty, Owns, SweptEmpty
<1>2. CASE \E t \in Threads : Begin(t)
  <2>1. PICK t \in Threads : Begin(t)
    BY <1>2
  <2>2. /\ pc[t] \notin Adding /\ pc'[t] \notin Adding
        /\ crc'[t] # NONE => crc'[t] \in caches
        /\ cr'[t] = cr[t] /\ OneMoves(t)
    BY <2>1 DEF Begin, OneMoves
  <2> QED
    BY <2>1, <2>2, ReaderStep DEF Begin
<1>3. CASE \E t \in Threads : FindNoCache(t)
  <2>1. PICK t \in Threads : FindNoCache(t)
    BY <1>3
  <2>2. /\ pc[t] \notin Adding /\ pc'[t] \notin Adding
        /\ crc'[t] # NONE => crc'[t] \in caches
        /\ cr'[t] = cr[t] /\ OneMoves(t)
    BY <2>1 DEF FindNoCache, OneMoves
  <2> QED
    BY <2>1, <2>2, ReaderStep DEF FindNoCache
<1>4. CASE \E t \in Threads : FindCache(t)
  <2>1. PICK t \in Threads : FindCache(t)
    BY <1>4
  <2>2. /\ pc[t] \notin Adding /\ pc'[t] \notin Adding
        /\ crc'[t] # NONE => crc'[t] \in caches
        /\ cr'[t] = cr[t] /\ OneMoves(t)
    BY <2>1 DEF FindCache, OneMoves
  <2> QED
    BY <2>1, <2>2, ReaderStep DEF FindCache
<1>5. CASE \E t \in Threads : FindNoRecord(t)
  <2>1. PICK t \in Threads : FindNoRecord(t)
    BY <1>5
  <2>2. /\ pc[t] \notin Adding /\ pc'[t] \notin Adding
        /\ crc'[t] # NONE => crc'[t] \in caches
        /\ cr'[t] = cr[t] /\ OneMoves(t)
    BY <2>1 DEF FindNoRecord, OneMoves
  <2> QED
    BY <2>1, <2>2, ReaderStep DEF FindNoRecord
<1>6. CASE \E t \in Threads : FindRecord(t)
  <2>0. PICK t \in Threads : FindRecord(t)
    BY <1>6
  <2>1. DustIsExact'
    BY <2>0 DEF FindRecord
  <2>2. IndexIsLive'
    BY <2>0 DEF FindRecord
  <2>3. NotBothDeleted'
    BY <2>0 DEF FindRecord
  <2>4. EmptyInv'
    BY <2>0 DEF FindRecord, EmptyInv, IsEmpty, Owns, SweptEmpty, NoRecords
  <2>5. PointersInv'
    BY <2>0 DEF FindRecord
  <2>6. DestroyedInv'
    BY <2>0 DEF FindRecord
  <2>7. SweepInv'
    BY <2>0 DEF FindRecord
  <2> QED
    BY <2>1, <2>2, <2>3, <2>4, <2>5, <2>6, <2>7
<1>7. CASE \E t \in Threads : FollowHit(t)
  <2>1. PICK t \in Threads : FollowHit(t)
    BY <1>7
  <2>2. /\ pc[t] \notin Adding /\ pc'[t] \notin Adding
        /\ crc'[t] # NONE => crc'[t] \in caches
        /\ cr'[t] = cr[t] /\ OneMoves(t)
    BY <2>1 DEF FollowHit, OneMoves
  <2> QED
    BY <2>1, <2>2, ReaderStep DEF FollowHit
<1>8. CASE \E t \in Threads : Touch(t)
  <2>1. PICK t \in Threads : Touch(t)
    BY <1>8
  <2>2. /\ pc[t] \notin Adding /\ pc'[t] \notin Adding
        /\ crc'[t] # NONE => crc'[t] \in caches
        /\ cr'[t] = cr[t] /\ OneMoves(t)
    BY <2>1 DEF Touch, OneMoves
  <2> QED
    BY <2>1, <2>2, ReaderStep DEF Touch
<1>9. CASE \E t \in Threads : SecondUnlock(t)
  <2>1. PICK t \in Threads : SecondUnlock(t)
    BY <1>9
  <2>2. /\ pc[t] \notin Adding /\ pc'[t] \notin Adding
        /\ crc'[t] # NONE => crc'[t] \in caches
        /\ cr'[t] = cr[t] /\ OneMoves(t)
    BY <2>1 DEF SecondUnlock, OneMoves
  <2> QED
    BY <2>1, <2>2, ReaderStep DEF SecondUnlock
<1>10. CASE \E t \in Threads : Fetch(t)
  <2>1. PICK t \in Threads : Fetch(t)
    BY <1>10
  <2>2. /\ pc[t] \notin Adding /\ pc'[t] \notin Adding
        /\ crc'[t] # NONE => crc'[t] \in caches
        /\ cr'[t] = cr[t] /\ OneMoves(t)
    BY <2>1 DEF Fetch, OneMoves
  <2> QED
    BY <2>1, <2>2, ReaderStep DEF Fetch
<1>11. CASE \E t \in Threads : AddToCache(t)
  <2>0. PICK t \in Threads : AddToCache(t)
    BY <1>11
  <2>1. DustIsExact'
    BY <2>0 DEF AddToCache
  <2>2. IndexIsLive'
    BY <2>0 DEF AddToCache
  <2>3. NotBothDeleted'
    BY <2>0 DEF AddToCache
  <2>4. EmptyInv'
    BY <2>0 DEF AddToCache, EmptyInv, IsEmpty, Owns, SweptEmpty, NoRecords
  <2>5. PointersInv'
    BY <2>0 DEF AddToCache
  <2>6. DestroyedInv'
    BY <2>0 DEF AddToCache
  <2>7. SweepInv'
    BY <2>0 DEF AddToCache
  <2> QED
    BY <2>1, <2>2, <2>3, <2>4, <2>5, <2>6, <2>7
<1>12. CASE \E t \in Threads : AddNewCache(t)
  <2>0. PICK t \in Threads : AddNewCache(t)
    BY <1>12
  <2>1. DustIsExact'
    BY <2>0 DEF AddNewCache, NoRecords
  <2>2. IndexIsLive'
    BY <2>0 DEF AddNewCache, NoRecords
  <2>3. NotBothDeleted'
    BY <2>0 DEF AddNewCache, NoRecords
  <2>4. EmptyInv'
    <3>1. PICK c \in Caches \ caches :
            /\ caches' = caches \cup {c} /\ crc' = [crc EXCEPT ![t] = c]
            /\ index' = [index EXCEPT ![c] = NoRecords]
            /\ pc[t] = "add" /\ pc' = [pc EXCEPT ![t] = "addcache"]
            /\ UNCHANGED <<cr, cacheOf, sweepPc, victim>>
      BY <2>0 DEF AddNewCache
    <3>2. Owns(t, c)'
      BY <3>1 DEF Owns
    <3>3. \A d \in caches : /\ IsEmpty(d)' <=> IsEmpty(d)
                            /\ SweptEmpty(d)' <=> SweptEmpty(d)
      BY <3>1 DEF IsEmpty, SweptEmpty, NoRecords
    <3>4. \A d \in caches, u \in Threads : Owns(u, d) => Owns(u, d)'
      BY <3>1 DEF Owns
    <3> QED
      BY <3>1, <3>2, <3>3, <3>4 DEF EmptyInv
  <2>5. PointersInv'
    BY <2>0 DEF AddNewCache, NoRecords
  <2>6. DestroyedInv'
    BY <2>0 DEF AddNewCache, NoRecords
  <2>7. SweepInv'
    BY <2>0 DEF AddNewCache, NoRecords
  <2> QED
    BY <2>1, <2>2, <2>3, <2>4, <2>5, <2>6, <2>7
<1>13. CASE \E t \in Threads : LockCache(t)
  <2>0. PICK t \in Threads : LockCache(t)
    BY <1>13
  <2>1. DustIsExact'
    BY <2>0 DEF LockCache
  <2>2. IndexIsLive'
    BY <2>0 DEF LockCache
  <2>3. NotBothDeleted'
    BY <2>0 DEF LockCache
  <2>4. EmptyInv'
    BY <2>0 DEF LockCache, EmptyInv, IsEmpty, Owns, SweptEmpty, NoRecords
  <2>5. PointersInv'
    BY <2>0 DEF LockCache
  <2>6. DestroyedInv'
    BY <2>0 DEF LockCache
  <2>7. SweepInv'
    BY <2>0 DEF LockCache
  <2> QED
    BY <2>1, <2>2, <2>3, <2>4, <2>5, <2>6, <2>7
<1>14. CASE \E t \in Threads : Undust(t)
  <2>0. PICK t \in Threads : Undust(t)
    BY <1>14
  <2>1. DustIsExact'
    BY <2>0 DEF Undust
  <2>2. IndexIsLive'
    BY <2>0 DEF Undust
  <2>3. NotBothDeleted'
    BY <2>0 DEF Undust
  <2>4. EmptyInv'
    <3> SUFFICES ASSUME NEW c \in caches, IsEmpty(c), ~SweptEmpty(c)
                 PROVE  \E u \in Threads : Owns(u, c)'
      BY <2>0 DEF Undust, EmptyInv, IsEmpty, SweptEmpty
    <3>1. PICK u \in Threads : Owns(u, c)
      BY DEF EmptyInv
    <3>2. u # t /\ Owns(u, c)'
      BY <2>0, <3>1 DEF Undust, Owns
    <3> QED
      BY <3>2
  <2>5. PointersInv'
    BY <2>0 DEF Undust
  <2>6. DestroyedInv'
    BY <2>0 DEF Undust
  <2>7. SweepInv'
    BY <2>0 DEF Undust
  <2> QED
    BY <2>1, <2>2, <2>3, <2>4, <2>5, <2>6, <2>7
<1>15. CASE \E t \in Threads : RemoveOld(t)
  <2>0. PICK t \in Threads : RemoveOld(t)
    BY <1>15
  <2>1. DustIsExact'
    BY <2>0 DEF RemoveOld, Erase
  <2>2. IndexIsLive'
    BY <2>0 DEF RemoveOld, Erase
  <2>3. NotBothDeleted'
    BY <2>0 DEF RemoveOld, Erase
  <2>4. EmptyInv'
    <3>1. Owns(t, crc[t])' /\ cacheOf[cr[t]] = crc[t]
      BY <2>0 DEF RemoveOld, Owns
    <3> SUFFICES ASSUME NEW c \in caches, c # crc[t], IsEmpty(c)', ~SweptEmpty(c)
                 PROVE  \E u \in Threads : Owns(u, c)'
      BY <2>0, <3>1, SMTT(30) DEF RemoveOld, EmptyInv, SweptEmpty
    <3>2. IsEmpty(c)
      BY <2>0, <3>1 DEF RemoveOld, Erase, IsEmpty
    <3>3. PICK u \in Threads : Owns(u, c)
      BY <3>2 DEF EmptyInv
    <3>4. u # t /\ Owns(u, c)'
      BY <2>0, <3>3 DEF RemoveOld, Owns
    <3> QED
      BY <3>4
  <2>5. PointersInv'
    BY <2>0 DEF RemoveOld, Erase
  <2>6. DestroyedInv'
    BY <2>0 DEF RemoveOld, Erase
  <2>7. SweepInv'
    BY <2>0 DEF RemoveOld, Erase
  <2> QED
    BY <2>1, <2>2, <2>3, <2>4, <2>5, <2>6, <2>7
<1>16. CASE \E t \in Threads : FreeOld(t)
  <2>0. PICK t \in Threads : FreeOld(t)
    BY <1>16
  <2>1. DustIsExact'
    <3>1. CASE IsEmpty(cacheOf[cr[t]])
      BY <2>0, <3>1 DEF FreeOld
    <3>2. CASE ~IsEmpty(cacheOf[cr[t]])
      <4>1. /\ recs' = recs \ {cr[t]} /\ pc[t] = "free" /\ UNCHANGED <<dust, victim>>
            /\ cr' = [u \in Threads |-> IF cr[u] = cr[t] THEN NONE ELSE cr[u]]
            /\ \A u \in Threads \ {t} : pc'[u] = pc[u]
        BY <2>0, <3>2 DEF FreeOld, FreeRec
      <4>2. cr[t] \notin dust
        BY <4>1
      <4> QED
        BY <4>1, <4>2 DEF DustIsExact
    <3> QED
      BY <3>1, <3>2
  <2>2. IndexIsLive'
    BY <2>0 DEF FreeOld, FreeRec
  <2>3. NotBothDeleted'
    BY <2>0 DEF FreeOld, FreeRec
  <2>4. EmptyInv'
    BY <2>0 DEF FreeOld, FreeRec, EmptyInv, IsEmpty, Owns, SweptEmpty, NoRecords
  <2>5. PointersInv'
    BY <2>0 DEF FreeOld, FreeRec
  <2>6. DestroyedInv'
    BY <2>0 DEF FreeOld, FreeRec
  <2>7. SweepInv'
    BY <2>0 DEF FreeOld, FreeRec
  <2> QED
    BY <2>1, <2>2, <2>3, <2>4, <2>5, <2>6, <2>7
<1>17. CASE \E t \in Threads : DropCache(t)
  <2>0. PICK t \in Threads : DropCache(t)
    BY <1>17
  <2>1. DustIsExact'
    BY <2>0 DEF DropCache, FreeRec, FreeCache
  <2>2. IndexIsLive'
    BY <2>0 DEF DropCache, FreeRec, FreeCache
  <2>3. NotBothDeleted'
    BY <2>0 DEF DropCache, FreeRec, FreeCache
  <2>4. EmptyInv'
    <3> DEFINE d == cacheOf[cr[t]]
    <3>1. caches' = caches \ {d} /\ index' = index /\ d = crc[t] /\ cr[t] # victim
      BY <2>0 DEF DropCache, FreeCache
    <3> SUFFICES ASSUME NEW c \in caches \ {d}, IsEmpty(c), ~SweptEmpty(c)
                 PROVE  \E u \in Threads : Owns(u, c)'
      BY <2>0, <3>1 DEF DropCache, FreeCache, EmptyInv, IsEmpty, SweptEmpty
    <3>2. PICK u \in Threads : Owns(u, c)
      BY DEF EmptyInv
    <3>3. u # t /\ crc[u] # d /\ (pc[u] \in Deleting /\ cr[u] # NONE => cr[u] # cr[t])
      BY <3>1, <3>2 DEF Owns
    <3>4. Owns(u, c)'
      BY <2>0, <3>2, <3>3 DEF DropCache, FreeCache, FreeRec, Owns
    <3> QED
      BY <3>4
  <2>5. PointersInv'
    BY <2>0 DEF DropCache, FreeRec, FreeCache
  <2>6. DestroyedInv'
    BY <2>0 DEF DropCache, FreeRec, FreeCache
  <2>7. SweepInv'
    BY <2>0 DEF DropCache, FreeRec, FreeCache
  <2> QED
    BY <2>1, <2>2, <2>3, <2>4, <2>5, <2>6, <2>7
<1>18. CASE \E t \in Threads : Relock(t)
  <2>0. PICK t \in Threads : Relock(t)
    BY <1>18
  <2>1. DustIsExact'
    BY <2>0 DEF Relock
  <2>2. IndexIsLive'
    BY <2>0 DEF Relock
  <2>3. NotBothDeleted'
    BY <2>0 DEF Relock
  <2>4. EmptyInv'
    BY <2>0 DEF Relock, EmptyInv, IsEmpty, Owns, SweptEmpty, NoRecords
  <2>5. PointersInv'
    BY <2>0 DEF Relock
  <2>6. DestroyedInv'
    BY <2>0 DEF Relock
  <2>7. SweepInv'
    BY <2>0 DEF Relock
  <2> QED
    BY <2>1, <2>2, <2>3, <2>4, <2>5, <2>6, <2>7
<1>19. CASE \E t \in Threads : Insert(t)
  <2>0. PICK t \in Threads : Insert(t)
    BY <1>19
  <2>1. DustIsExact'
    BY <2>0 DEF Insert
  <2>2. IndexIsLive'
    BY <2>0, SMTT(30) DEF Insert
  <2>3. NotBothDeleted'
    BY <2>0 DEF Insert
  <2>4. EmptyInv'
    BY <2>0 DEF Insert, EmptyInv, IsEmpty, Owns, SweptEmpty, NoRecords
  <2>5. PointersInv'
    BY <2>0 DEF Insert
  <2>6. DestroyedInv'
    BY <2>0 DEF Insert
  <2>7. SweepInv'
    BY <2>0 DEF Insert
  <2> QED
    BY <2>1, <2>2, <2>3, <2>4, <2>5, <2>6, <2>7
<1>20. CASE \E t \in Threads : Register(t)
  <2>0. PICK t \in Threads : Register(t)
    BY <1>20
  <2>1. DustIsExact'
    BY <2>0 DEF Register
  <2>2. IndexIsLive'
    BY <2>0 DEF Register
  <2>3. NotBothDeleted'
    BY <2>0 DEF Register
  <2>4. EmptyInv'
    BY <2>0, SMTT(30) DEF Register, EmptyInv, IsEmpty, Owns, SweptEmpty, NoRecords
  <2>5. PointersInv'
    BY <2>0 DEF Register
  <2>6. DestroyedInv'
    BY <2>0 DEF Register
  <2>7. SweepInv'
    BY <2>0 DEF Register
  <2> QED
    BY <2>1, <2>2, <2>3, <2>4, <2>5, <2>6, <2>7
<1>21. CASE \E t \in Threads : Stored(t)
  <2>0. PICK t \in Threads : Stored(t)
    BY <1>21
  <2>1. DustIsExact'
    BY <2>0 DEF Stored
  <2>2. IndexIsLive'
    BY <2>0 DEF Stored
  <2>3. NotBothDeleted'
    BY <2>0 DEF Stored
  <2>4. EmptyInv'
    BY <2>0 DEF Stored, EmptyInv, IsEmpty, Owns, SweptEmpty, NoRecords
  <2>5. PointersInv'
    BY <2>0 DEF Stored
  <2>6. DestroyedInv'
    BY <2>0 DEF Stored
  <2>7. SweepInv'
    BY <2>0 DEF Stored
  <2> QED
    BY <2>1, <2>2, <2>3, <2>4, <2>5, <2>6, <2>7
<1>22. CASE \E t \in Threads : Use(t)
  BY <1>22 DEF Use, EmptyInv, IsEmpty, Owns, SweptEmpty
<1>23. CASE SweepBegin
  BY <1>23 DEF SweepBegin, EmptyInv, IsEmpty, Owns, SweptEmpty
<1>24. CASE SweepRemove
  <2>1. CASE Fault
    BY <2>1 DEF Fault, EmptyInv, IsEmpty, Owns, SweptEmpty
  <2>2. CASE ~Fault
    <3> DEFINE c == cacheOf[victim]  k == keyOf[victim]
    <3>1. /\ victim \in recs /\ c \in caches /\ sweepPc = "remove"
          /\ Erase(victim) /\ sweepPc' = "free"
          /\ UNCHANGED <<threadVars, caches, peerOf, recVars, store, mutexVars,
                         dust, toVisit, victim>>
      BY <1>24, <2>2 DEF SweepRemove
    <3>2. \A d \in Caches, j \in Keys :
            index'[d][j] = IF d = c /\ j = k THEN NONE ELSE index[d][j]
      BY <3>1 DEF Erase
    <3>3. DustIsExact' /\ NotBothDeleted' /\ PointersInv'
      BY <3>1
    <3>4. IndexIsLive'
      BY <3>1, <3>2
    <3>5. EmptyInv'
      BY <3>1 DEF EmptyInv, IsEmpty, Owns, SweptEmpty, Erase
    <3>6. DestroyedInv'
      BY <3>1, <3>2
    <3>7. SweepInv'
      BY <3>1, <3>2
    <3> QED
      BY <3>3, <3>4, <3>5, <3>6, <3>7
  <2> QED
    BY <2>1, <2>2
<1>25. CASE SweepFree
  <2>1. DustIsExact'
    BY <1>25 DEF SweepFree, FreeRec, Fault
  <2>2. IndexIsLive'
    BY <1>25 DEF SweepFree, FreeRec, Fault
  <2>3. NotBothDeleted'
    BY <1>25 DEF SweepFree, FreeRec, Fault
  <2>4. EmptyInv'
    BY <1>25, SMTT(30) DEF SweepFree, FreeRec, Fault, EmptyInv, IsEmpty, Owns, SweptEmpty, NoRecords
  <2>5. PointersInv'
    BY <1>25 DEF SweepFree, FreeRec, Fault
  <2>6. DestroyedInv'
    BY <1>25 DEF SweepFree, FreeRec, Fault
  <2>7. SweepInv'
    BY <1>25 DEF SweepFree, FreeRec, Fault
  <2> QED
    BY <2>1, <2>2, <2>3, <2>4, <2>5, <2>6, <2>7
<1>26. CASE SweepDropCache
  <2>1. DustIsExact'
    BY <1>26 DEF SweepDropCache, FreeRec, FreeCache, Fault
  <2>2. IndexIsLive'
    BY <1>26 DEF SweepDropCache, FreeRec, FreeCache, Fault
  <2>3. NotBothDeleted'
    BY <1>26 DEF SweepDropCache, FreeRec, FreeCache, Fault
  <2>4. EmptyInv'
    BY <1>26 DEF SweepDropCache, FreeRec, FreeCache, Fault, EmptyInv, IsEmpty, Owns,
       SweptEmpty, NoRecords
  <2>5. PointersInv'
    BY <1>26 DEF SweepDropCache, FreeRec, FreeCache, Fault
  <2>6. DestroyedInv'
    BY <1>26 DEF SweepDropCache, FreeRec, FreeCache, Fault
  <2>7. SweepInv'
    BY <1>26 DEF SweepDropCache, FreeRec, FreeCache, Fault
  <2> QED
    BY <2>1, <2>2, <2>3, <2>4, <2>5, <2>6, <2>7
<1>27. CASE SweepEnd
  BY <1>27 DEF SweepEnd, EmptyInv, IsEmpty, Owns, SweptEmpty
<1>28. CASE \E r \in Recs : SweepSkip(r)
  BY <1>28 DEF SweepSkip, EmptyInv, IsEmpty, Owns, SweptEmpty
<1>29. CASE \E r \in Recs : SweepTake(r)
  <2>0. PICK r \in Recs : SweepTake(r)
    BY <1>29
  <2>1. DustIsExact'
    BY <2>0 DEF SweepTake
  <2>2. IndexIsLive'
    BY <2>0 DEF SweepTake
  <2>3. NotBothDeleted'
    BY <2>0 DEF SweepTake
  <2>4. EmptyInv'
    BY <2>0 DEF SweepTake, EmptyInv, IsEmpty, Owns, SweptEmpty, NoRecords
  <2>5. PointersInv'
    BY <2>0 DEF SweepTake
  <2>6. DestroyedInv'
    BY <2>0 DEF SweepTake
  <2>7. SweepInv'
    BY <2>0 DEF SweepTake
  <2> QED
    BY <2>1, <2>2, <2>3, <2>4, <2>5, <2>6, <2>7
<1>30. CASE \E r \in Recs : Expire(r)
  BY <1>30 DEF Expire, EmptyInv, IsEmpty, Owns, SweptEmpty
<1>31. CASE UNCHANGED vars
  BY <1>31 DEF vars, EmptyInv, IsEmpty, Owns, SweptEmpty
<1> QED
  BY <1>1, <1>2, <1>3, <1>4, <1>5, <1>6, <1>7, <1>8, <1>9, <1>10, <1>11, <1>12, <1>13,
     <1>14, <1>15, <1>16, <1>17, <1>18, <1>19, <1>20, <1>21, <1>22, <1>23, <1>24,
        <1>25, <1>26, <1>27, <1>28, <1>29, <1>30, <1>31 DEF Next, ThreadStep, SweepStep

\* StoreInv is an invariant of the store.
LEMMA StoreInvariant == Spec => [](TypeOK /\ StoreInv)
<1>1. Init => TypeOK /\ StoreInv
  <2>1. Init => TypeOK
    BY DEF Init, TypeOK, Labels, Calls, Holders, NoRecords
  <2>2. Init => DustIsExact /\ IndexIsLive /\ NotBothDeleted /\ EmptyInv
    BY DEF Init, DustIsExact, IndexIsLive, NotBothDeleted, EmptyInv, Deleting
  <2>3. Init => PointersInv /\ DestroyedInv /\ SweepInv
    BY DEF Init, PointersInv, DestroyedInv, SweepInv, Adding, Deleting
  <2> QED
    BY <2>1, <2>2, <2>3 DEF StoreInv
<1>2. TypeOK /\ StoreInv /\ [Next]_vars => (TypeOK /\ StoreInv)'
  BY TypeInductive, StoreInductive
<1> QED
  BY <1>1, <1>2, PTL DEF Spec

\* The memory dust holds exactly the records nobody makes or destroys, however
\* the threads and the sweeper interleave (register_sweepable, sweep).
THEOREM DustSafe == Spec => []DustIsExact
  BY StoreInvariant, PTL DEF StoreInv

\* The store and its caches never point to a deleted cache or record, in spite
\* of the second unlock of cr_store::find.
THEOREM IndexSafe == Spec => []IndexIsLive
  BY StoreInvariant, PTL DEF StoreInv

\* The sweeper and cr_cache::add never destroy the same record.
THEOREM DeletedOnce == Spec => []NotBothDeleted
  BY StoreInvariant, PTL DEF StoreInv

\* No empty cache is left over (~cached_record).
THEOREM CachesOwned == Spec => []EmptyCacheIsOwned
<1>1. StoreInv => EmptyCacheIsOwned
  BY DEF StoreInv, EmptyInv, EmptyCacheIsOwned, SweepInv, Owns, SweptEmpty
<1> QED
  BY <1>1, StoreInvariant, PTL
===========================================================================
