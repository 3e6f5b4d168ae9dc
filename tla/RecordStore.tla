---------------------------- MODULE RecordStore ----------------------------
(***************************************************************************)
(* The record store of the collaborative filter (plugin cf).               *)
(* rank_estimator::_store keeps the records fetched from remote peers: a   *)
(* cr_store holds one cr_cache per peer, a cr_cache one cached_record per  *)
(* key.  Personalization threads find and add records; the sweeper deletes *)
(* the ones that timed out, and `removal trickles up the chain': the last  *)
(* record of a cache deletes the cache, which leaves the store.            *)
(*                                                                         *)
(* Three mutexes meet here: _store_mutex, the _cache_mutex of each cache   *)
(* and sweeper::_mem_dust_mutex.  They are default pthread mutexes: not    *)
(* recursive, and an unlock frees the mutex whoever holds it.              *)
(*                                                                         *)
(* Caches and records are addresses.  `delete' turns the pointers to an    *)
(* address into NONE; a step through a dangling pointer sets fault, and    *)
(* nothing is claimed of what follows.                                     *)
(***************************************************************************)
CONSTANTS Threads,   \* personalization threads
          Sweeper,   \* the main thread, when it runs sweeper::sweep
          Peers,     \* remote peers, by host, port and path
          Keys,      \* keys of the records
          Caches,    \* addresses of cr_cache objects
          Recs,      \* addresses of cached_record objects
          Callers,   \* the callers of the store that may run
          NONE       \* NULL or dangling pointer, free mutex

(***************************************************************************)
(* The callers of the store, by what they do with a record:                *)
(*   records  fetch_user_db_record, find_bqc: read, then forget            *)
(*   data     extract_queries: read, then delete unless in_store           *)
(***************************************************************************)
ASSUME CallersAssumption == Callers \subseteq {"records", "data"}
ASSUME NamesAssumption == /\ Sweeper \notin Threads
                          /\ NONE \notin Threads \cup Caches \cup Recs \cup {Sweeper}

VARIABLES
  pc, call, crc, cr,       \* per thread: next step, its call, its pointers
  inStore,                 \* threads whose find_dbr said in_store
  made,                    \* threads whose add has made the cache it fills
  caches, peerOf, index,   \* live caches, their _peer and _records
  recs, keyOf, cacheOf, stale,   \* live records, their _key and _cache
  dangling,                \* records whose _rec has been deleted by a caller
  store,                   \* cr_store::_store
  storeMx, cacheMx, dustMx,
  dust,                    \* seeks_proxy::_memory_dust, its records
  sweepPc, toVisit, victim,
  fault

threadVars == <<pc, call, crc, cr, inStore, made>>
cacheVars == <<caches, peerOf, index>>
recVars == <<recs, keyOf, cacheOf, stale, dangling>>
mutexVars == <<storeMx, cacheMx, dustMx>>
sweepVars == <<sweepPc, toVisit, victim>>
vars == <<threadVars, cacheVars, recVars, store, mutexVars, dust, sweepVars, fault>>

Calls == [peer : Peers, key : Keys, by : {"records", "data"}]
Labels == {"idle", "find", "incache", "hit", "touch", "second",
           "secondmiss", "fetch", "add", "addcache", "undust", "delete", "free", "dropcache", "relock",
           "insert", "register", "stored", "use"}
Holders == Threads \cup {Sweeper, NONE}

TypeOK ==
  /\ pc \in [Threads -> Labels]
  /\ call \in [Threads -> Calls \cup {NONE}]
  /\ \A t \in Threads : pc[t] # "idle" => call[t] \in Calls
  /\ crc \in [Threads -> Caches \cup {NONE}]
  /\ cr \in [Threads -> Recs \cup {NONE}]
  /\ inStore \subseteq Threads /\ made \subseteq Threads
  /\ caches \subseteq Caches
  /\ peerOf \in [Caches -> Peers \cup {NONE}]
  /\ index \in [Caches -> [Keys -> Recs \cup {NONE}]]
  /\ recs \subseteq Recs /\ stale \subseteq Recs /\ dangling \subseteq Recs
  /\ keyOf \in [Recs -> Keys \cup {NONE}]
  /\ cacheOf \in [Recs -> Caches \cup {NONE}]
  /\ store \in [Peers -> Caches \cup {NONE}]
  /\ storeMx \in Holders /\ dustMx \in Holders
  /\ cacheMx \in [Caches -> Holders]
  /\ dust \subseteq Recs /\ toVisit \subseteq Recs
  /\ sweepPc \in {"idle", "scan", "remove", "free", "dropcache"}
  /\ victim \in Recs \cup {NONE}
  /\ fault \in BOOLEAN

NoRecords == [k \in Keys |-> NONE]

Init ==
  /\ pc = [t \in Threads |-> "idle"]
  /\ call = [t \in Threads |-> NONE]
  /\ crc = [t \in Threads |-> NONE] /\ cr = [t \in Threads |-> NONE]
  /\ inStore = {} /\ made = {}
  /\ caches = {} /\ peerOf = [c \in Caches |-> NONE]
  /\ index = [c \in Caches |-> NoRecords]
  /\ recs = {} /\ stale = {} /\ dangling = {}
  /\ keyOf = [r \in Recs |-> NONE] /\ cacheOf = [r \in Recs |-> NONE]
  /\ store = [p \in Peers |-> NONE]
  /\ storeMx = NONE /\ dustMx = NONE /\ cacheMx = [c \in Caches |-> NONE]
  /\ dust = {}
  /\ sweepPc = "idle" /\ toVisit = {} /\ victim = NONE
  /\ fault = FALSE

-----------------------------------------------------------------------------
(* Control of a thread. *)

Goto(t, l) == pc' = [pc EXCEPT ![t] = l]

Runs(t, l) == pc[t] = l /\ ~fault

\* ... and its next step goes through its pointer to the cache, the record.
AtCache(t, l) == Runs(t, l) /\ crc[t] \in caches
AtRec(t, l) == Runs(t, l) /\ cr[t] \in recs

Fault == /\ fault' = TRUE
         /\ UNCHANGED <<threadVars, cacheVars, recVars, store, mutexVars, dust,
                        sweepVars>>

\* A step through a pointer to an object that has been deleted, or through an
\* iterator that has been erased.
UseFreed(t) ==
  LET r == cr[t]  c == crc[t] IN
  /\ ~fault
  /\ \/ pc[t] \in {"incache", "hit", "addcache", "undust", "relock", "insert", "register"}
        /\ c \notin caches
     \/ pc[t] = "hit" /\ c \in caches /\ index[c][call[t].key] # r
     \/ pc[t] \in {"touch", "second", "delete", "free", "dropcache", "register", "use"}
        /\ r \notin recs
     \/ pc[t] \in {"free", "use"} /\ r \in dangling
     \/ pc[t] \in {"delete", "free", "dropcache"} /\ r \in recs /\ cacheOf[r] \notin caches
  /\ Fault

-----------------------------------------------------------------------------
(* cr_store::find. *)

\* A thread wants a record of a peer (find_dbr, find_bqc).
Begin(t) ==
  /\ Runs(t, "idle")
  /\ \E p \in Peers, k \in Keys, b \in Callers :
       call' = [call EXCEPT ![t] = [peer |-> p, key |-> k, by |-> b]]
  /\ inStore' = inStore \ {t}
  /\ Goto(t, "find")
  /\ UNCHANGED <<made, crc, cr, cacheVars, recVars, store, mutexVars, dust,
                 sweepVars, fault>>

\* The peer has no cache: nothing is found.
FindNoCache(t) ==
  /\ Runs(t, "find") /\ storeMx = NONE /\ store[call[t].peer] = NONE
  /\ Goto(t, "fetch")
  /\ UNCHANGED <<call, inStore, made, crc, cr, cacheVars, recVars, store, mutexVars,
                 dust, sweepVars, fault>>

\* It has one: the cache's mutex is taken under the store's.
FindCache(t) ==
  /\ Runs(t, "find") /\ storeMx = NONE /\ store[call[t].peer] # NONE
  /\ storeMx' = t
  /\ crc' = [crc EXCEPT ![t] = store[call[t].peer]]
  /\ Goto(t, "incache")
  /\ UNCHANGED <<call, inStore, made, cr, cacheVars, recVars, store, cacheMx, dustMx,
                 dust, sweepVars, fault>>

\* cr_cache::find: the key has no record.  First unlock of _store_mutex.
FindNoRecord(t) ==
  /\ AtCache(t, "incache") /\ cacheMx[crc[t]] = NONE
  /\ index[crc[t]][call[t].key] = NONE
  /\ storeMx' = NONE
  /\ crc' = [crc EXCEPT ![t] = NONE]
  /\ Goto(t, "secondmiss")
  /\ UNCHANGED <<call, inStore, made, cr, cacheVars, recVars, store, cacheMx, dustMx,
                 dust, sweepVars, fault>>

\* It has one: the iterator is kept over the unlock of the cache's mutex ...
FindRecord(t) ==
  /\ AtCache(t, "incache") /\ cacheMx[crc[t]] = NONE
  /\ index[crc[t]][call[t].key] # NONE
  /\ cr' = [cr EXCEPT ![t] = index[crc[t]][call[t].key]]
  /\ Goto(t, "hit")
  /\ UNCHANGED <<call, inStore, made, crc, cacheVars, recVars, store, mutexVars,
                 dust, sweepVars, fault>>

\* ... and read afterwards.  First unlock of _store_mutex.
FollowHit(t) ==
  /\ AtCache(t, "hit") /\ index[crc[t]][call[t].key] = cr[t]
  /\ storeMx' = NONE
  /\ crc' = [crc EXCEPT ![t] = NONE]
  /\ Goto(t, "touch")
  /\ UNCHANGED <<call, inStore, made, cr, cacheVars, recVars, store, cacheMx, dustMx,
                 dust, sweepVars, fault>>

\* update_last_use, after the unlock.
Touch(t) ==
  /\ AtRec(t, "touch")
  /\ stale' = stale \ {cr[t]}
  /\ Goto(t, "second")
  /\ UNCHANGED <<call, inStore, made, crc, cr, cacheVars, recs, keyOf, cacheOf, dangling,
                 store, mutexVars, dust, sweepVars, fault>>

\* The second unlock frees the mutex of whoever holds it by now.
SecondUnlock(t) ==
  /\ storeMx' = NONE
  /\ \/ /\ AtRec(t, "second")
        /\ inStore' = inStore \cup {t}
        /\ Goto(t, "use")
     \/ /\ Runs(t, "secondmiss")
        /\ Goto(t, "fetch")
        /\ UNCHANGED inStore
  /\ UNCHANGED <<call, made, crc, cr, cacheVars, recVars, store, cacheMx, dustMx,
                 dust, sweepVars, fault>>

\* Mutant: the arguments of the call are gone after the exchange.
FetchForgotten(t) ==
  /\ Runs(t, "fetch")
  /\ Goto(t, "add") /\ call' = [call EXCEPT ![t] = NONE]
  /\ UNCHANGED <<inStore, made, crc, cr, cacheVars, recVars, store, mutexVars, dust,
                 sweepVars, fault>>

\* The record is not in the store: it is asked for at the peer; the call to
\* the peer may throw (find_bqc).
Fetch(t) ==
  /\ Runs(t, "fetch")
  /\ \/ Goto(t, "add") /\ UNCHANGED call
     \/ Goto(t, "idle") /\ call' = [call EXCEPT ![t] = NONE]
  /\ UNCHANGED <<inStore, made, crc, cr, cacheVars, recVars, store, mutexVars, dust,
                 sweepVars, fault>>

-----------------------------------------------------------------------------
(* cr_store::add. *)

AddToCache(t) ==
  /\ Runs(t, "add") /\ storeMx = NONE /\ store[call[t].peer] # NONE
  /\ storeMx' = t
  /\ crc' = [crc EXCEPT ![t] = store[call[t].peer]]
  /\ Goto(t, "addcache")
  /\ UNCHANGED <<call, inStore, made, cr, cacheVars, recVars, store, cacheMx, dustMx,
                 dust, sweepVars, fault>>

\* A new cache enters the store only once its first record is in.
AddNewCache(t) ==
  /\ Runs(t, "add") /\ storeMx = NONE /\ store[call[t].peer] = NONE
  /\ storeMx' = t
  /\ made' = made \cup {t}
  /\ \E c \in Caches \ caches :
       /\ caches' = caches \cup {c}
       /\ peerOf' = [peerOf EXCEPT ![c] = call[t].peer]
       /\ index' = [index EXCEPT ![c] = NoRecords]
       /\ cacheMx' = [cacheMx EXCEPT ![c] = NONE]
       /\ crc' = [crc EXCEPT ![t] = c]
  /\ Goto(t, "addcache")
  /\ UNCHANGED <<call, inStore, cr, recVars, store, dustMx, dust, sweepVars, fault>>

\* cr_cache::add takes the cache's mutex and looks for an older record.
LockCache(t) ==
  LET r == index[crc[t]][call[t].key] IN
  /\ AtCache(t, "addcache") /\ cacheMx[crc[t]] = NONE
  /\ cacheMx' = [cacheMx EXCEPT ![crc[t]] = t]
  /\ cr' = [cr EXCEPT ![t] = r]
  /\ Goto(t, IF r = NONE THEN "insert" ELSE "undust")
  /\ UNCHANGED <<call, inStore, made, crc, cacheVars, recVars, store, storeMx,
                 dustMx, dust, sweepVars, fault>>

\* Mutant: the old record leaves the dust without _mem_dust_mutex.
UndustUnlocked(t) ==
  /\ AtCache(t, "undust")
  /\ dust' = dust \ {cr[t]}
  /\ cacheMx' = [cacheMx EXCEPT ![crc[t]] = NONE]
  /\ Goto(t, "delete")
  /\ UNCHANGED <<call, inStore, made, crc, cr, cacheVars, recVars, store, storeMx, dustMx,
                 sweepVars, fault>>

\* The old record leaves the dust, and the cache's mutex is released for its
\* destructor.
Undust(t) ==
  /\ AtCache(t, "undust") /\ dustMx = NONE
  /\ dust' = dust \ {cr[t]}
  /\ cacheMx' = [cacheMx EXCEPT ![crc[t]] = NONE]
  /\ Goto(t, "delete")
  /\ UNCHANGED <<call, inStore, made, crc, cr, cacheVars, recVars, store, storeMx, dustMx,
                 sweepVars, fault>>

Erase(r) == index' = [index EXCEPT ![cacheOf[r]][keyOf[r]] = NONE]

\* ~cached_record: cr_cache::remove, under the cache's mutex.
RemoveOld(t) ==
  LET r == cr[t] IN
  /\ AtRec(t, "delete") /\ cacheOf[r] \in caches /\ cacheMx[cacheOf[r]] = NONE
  /\ Erase(r)
  /\ Goto(t, "free")
  /\ UNCHANGED <<call, inStore, made, crc, cr, caches, peerOf, recVars, store, mutexVars,
                 dust, sweepVars, fault>>

IsEmpty(c) == index[c] = NoRecords

\* The memory of a record is freed: the pointers threads hold to it dangle.
FreeRec(r) ==
  /\ recs' = recs \ {r}
  /\ stale' = stale \ {r} /\ dangling' = dangling \ {r}
  /\ cr' = [t \in Threads |-> IF cr[t] = r THEN NONE ELSE cr[t]]
  /\ UNCHANGED keyOf

\* ~cached_record goes on: _rec is deleted, and _records.empty() is read
\* without the mutex: an empty cache is deleted by its last record.
FreeOld(t) ==
  LET r == cr[t] IN
  /\ AtRec(t, "free") /\ cacheOf[r] \in caches /\ r \notin dangling
  /\ IF IsEmpty(cacheOf[r])
     THEN /\ Goto(t, "dropcache")
          /\ dangling' = dangling \cup {r}
          /\ UNCHANGED <<cr, recs, keyOf, cacheOf, stale>>
     ELSE Goto(t, "relock") /\ FreeRec(r) /\ UNCHANGED cacheOf
  /\ UNCHANGED <<call, inStore, made, crc, cacheVars, store, mutexVars, dust,
                 sweepVars, fault>>

\* Mutant: the destructor of a cache does not leave the store.
FreeCacheKept(c) ==
  /\ caches' = caches \ {c}
  /\ cacheOf' = [r \in Recs |-> IF cacheOf[r] = c THEN NONE ELSE cacheOf[r]]
  /\ crc' = [t \in Threads |-> IF crc[t] = c THEN NONE ELSE crc[t]]
  /\ UNCHANGED <<peerOf, index, store>>

\* ~cr_cache: cr_store::remove erases the entry of the peer, whatever cache
\* it holds.
FreeCache(c) ==
  /\ store' = [store EXCEPT ![peerOf[c]] = NONE]
  /\ caches' = caches \ {c}
  /\ cacheOf' = [r \in Recs |-> IF cacheOf[r] = c THEN NONE ELSE cacheOf[r]]
  /\ crc' = [t \in Threads |-> IF crc[t] = c THEN NONE ELSE crc[t]]
  /\ UNCHANGED <<peerOf, index>>

\* ... which needs _store_mutex, the one cr_store::add holds.
DropCache(t) ==
  LET r == cr[t] IN
  /\ AtRec(t, "dropcache") /\ cacheOf[r] \in caches /\ storeMx = NONE
  /\ FreeCache(cacheOf[r]) /\ FreeRec(r)
  /\ Goto(t, "relock")
  /\ UNCHANGED <<call, inStore, made, mutexVars, dust, sweepVars, fault>>

Relock(t) ==
  /\ AtCache(t, "relock") /\ cacheMx[crc[t]] = NONE
  /\ cacheMx' = [cacheMx EXCEPT ![crc[t]] = t]
  /\ Goto(t, "insert")
  /\ UNCHANGED <<call, inStore, made, crc, cr, cacheVars, recVars, store, storeMx, dustMx,
                 dust, sweepVars, fault>>

\* A cached_record is made; hash_map::insert leaves an existing entry alone.
Insert(t) ==
  LET c == crc[t]  k == call[t].key IN
  /\ AtCache(t, "insert")
  /\ \E r \in Recs \ recs :
       /\ recs' = recs \cup {r}
       /\ keyOf' = [keyOf EXCEPT ![r] = k]
       /\ cacheOf' = [cacheOf EXCEPT ![r] = c]
       /\ stale' = stale \ {r} /\ dangling' = dangling \ {r}
       /\ index' = IF index[c][k] = NONE THEN [index EXCEPT ![c][k] = r] ELSE index
       /\ cr' = [cr EXCEPT ![t] = r]
  /\ Goto(t, "register")
  /\ UNCHANGED <<call, inStore, made, crc, caches, peerOf, store, mutexVars, dust,
                 sweepVars, fault>>

\* Mutant: the new record is not registered with the sweeper.
RegisterForgotten(t) ==
  /\ AtCache(t, "register") /\ AtRec(t, "register") /\ dustMx = NONE
  /\ cacheMx' = [cacheMx EXCEPT ![crc[t]] = NONE]
  /\ Goto(t, "stored")
  /\ UNCHANGED <<call, inStore, made, crc, cr, cacheVars, recVars, store, storeMx, dustMx,
                 dust, sweepVars, fault>>

\* register_sweepable, under the mutexes of the store and of the cache.
Register(t) ==
  /\ AtCache(t, "register") /\ AtRec(t, "register") /\ dustMx = NONE
  /\ dust' = dust \cup {cr[t]}
  /\ cacheMx' = [cacheMx EXCEPT ![crc[t]] = NONE]
  /\ Goto(t, "stored")
  /\ UNCHANGED <<call, inStore, made, crc, cr, cacheVars, recVars, store, storeMx,
                 dustMx, sweepVars, fault>>

\* A new cache enters the store, unless the peer has one by now: hash_map::insert
\* leaves an existing entry alone.  _store_mutex is released.
Stored(t) ==
  LET p == call[t].peer IN
  /\ Runs(t, "stored")
  /\ store' = IF t \in made /\ store[p] = NONE THEN [store EXCEPT ![p] = crc[t]]
                                                ELSE store
  /\ made' = made \ {t}
  /\ storeMx' = NONE
  /\ crc' = [crc EXCEPT ![t] = NONE]
  /\ Goto(t, "use")
  /\ UNCHANGED <<call, inStore, cr, cacheVars, recVars, cacheMx, dustMx, dust,
                 sweepVars, fault>>

\* The caller reads the record, without any lock; extract_queries deletes it
\* unless find_dbr said it was in the store.
Use(t) ==
  /\ AtRec(t, "use") /\ cr[t] \notin dangling
  /\ dangling' = IF call[t].by = "data" /\ t \notin inStore
                 THEN dangling \cup {cr[t]} ELSE dangling
  /\ call' = [call EXCEPT ![t] = NONE]
  /\ cr' = [cr EXCEPT ![t] = NONE]
  /\ Goto(t, "idle")
  /\ UNCHANGED <<inStore, made, crc, cacheVars, recs, keyOf, cacheOf, stale, store,
                 mutexVars,
                 dust, sweepVars, fault>>

-----------------------------------------------------------------------------
(* sweeper::sweep, its records: the whole loop runs under _mem_dust_mutex. *)

SweepBegin ==
  /\ sweepPc = "idle" /\ ~fault /\ dustMx = NONE
  /\ dustMx' = Sweeper
  /\ toVisit' = dust
  /\ sweepPc' = "scan"
  /\ UNCHANGED <<threadVars, cacheVars, recVars, store, storeMx, cacheMx, dust,
                 victim, fault>>

\* sweep_me() is false.
SweepSkip(r) ==
  /\ sweepPc = "scan" /\ ~fault /\ r \in toVisit /\ r \notin stale
  /\ toVisit' = toVisit \ {r}
  /\ UNCHANGED <<threadVars, cacheVars, recVars, store, mutexVars, dust,
                 sweepPc, victim, fault>>

SweepTake(r) ==
  /\ sweepPc = "scan" /\ ~fault /\ r \in toVisit /\ r \in stale
  /\ toVisit' = toVisit \ {r} /\ dust' = dust \ {r}
  /\ victim' = r
  /\ sweepPc' = "remove"
  /\ UNCHANGED <<threadVars, cacheVars, recVars, store, mutexVars, fault>>

\* ~cached_record, step by step as in RemoveOld, FreeOld and DropCache.
SweepRemove ==
  LET c == cacheOf[victim] IN
  /\ sweepPc = "remove" /\ ~fault
  /\ IF victim \in recs /\ c \in caches
     THEN /\ cacheMx[c] = NONE
          /\ Erase(victim)
          /\ sweepPc' = "free"
          /\ UNCHANGED <<threadVars, caches, peerOf, recVars, store, mutexVars,
                         dust, toVisit, victim, fault>>
     ELSE Fault

SweepFree ==
  LET c == cacheOf[victim] IN
  /\ sweepPc = "free" /\ ~fault
  /\ IF victim \in dangling \/ victim \notin recs \/ c \notin caches
     THEN Fault
     ELSE /\ IF IsEmpty(c)
             THEN /\ sweepPc' = "dropcache"
                  /\ dangling' = dangling \cup {victim}
                  /\ UNCHANGED <<cr, recs, keyOf, cacheOf, stale, victim>>
             ELSE /\ sweepPc' = "scan" /\ victim' = NONE
                  /\ FreeRec(victim) /\ UNCHANGED cacheOf
          /\ UNCHANGED <<pc, call, inStore, made, crc, cacheVars, store, mutexVars,
                         dust, toVisit, fault>>

SweepDropCache ==
  LET c == cacheOf[victim] IN
  /\ sweepPc = "dropcache" /\ ~fault
  /\ IF c \in caches
     THEN /\ storeMx = NONE
          /\ FreeCache(c) /\ FreeRec(victim)
          /\ victim' = NONE
          /\ sweepPc' = "scan"
          /\ UNCHANGED <<pc, call, inStore, made, mutexVars, dust, toVisit, fault>>
     ELSE Fault

SweepEnd ==
  /\ sweepPc = "scan" /\ ~fault /\ toVisit = {}
  /\ dustMx' = NONE
  /\ sweepPc' = "idle"
  /\ UNCHANGED <<threadVars, cacheVars, recVars, store, storeMx, cacheMx, dust,
                 toVisit, victim, fault>>

Reading == {"touch", "second", "register", "stored", "use"}

\* _record_cache_timeout seconds passed since the last find.  They do not pass
\* while a thread makes or reads the record.
Expire(r) ==
  /\ r \in recs /\ r \notin stale /\ ~fault
  /\ \A t \in Threads : cr[t] = r => pc[t] \notin Reading
  /\ stale' = stale \cup {r}
  /\ UNCHANGED <<threadVars, cacheVars, recs, keyOf, cacheOf, dangling, store,
                 mutexVars, dust, sweepVars, fault>>
-----------------------------------------------------------------------------
ThreadStep(t) ==
  \/ UseFreed(t) \/ FindNoCache(t) \/ FindCache(t) \/ FindNoRecord(t)
  \/ FindRecord(t) \/ FollowHit(t) \/ Touch(t)
  \/ SecondUnlock(t) \/ Fetch(t) \/ AddToCache(t) \/ AddNewCache(t)
  \/ LockCache(t) \/ Undust(t) \/ RemoveOld(t) \/ FreeOld(t) \/ DropCache(t)
  \/ Relock(t) \/ Insert(t) \/ Register(t) \/ Stored(t) \/ Use(t)

SweepStep == \/ SweepBegin \/ SweepRemove \/ SweepFree \/ SweepDropCache \/ SweepEnd
             \/ \E r \in Recs : SweepSkip(r) \/ SweepTake(r)

Next ==
  \/ \E t \in Threads : Begin(t) \/ ThreadStep(t)
  \/ SweepStep
  \/ \E r \in Recs : Expire(r)

Spec == Init /\ [][Next]_vars

(***************************************************************************)
(* Fairness: a thread that can go on does, a thread that waits for a mutex *)
(* which is free again and again gets it, and the main thread sweeps again *)
(* and again (listen_loop).  Whoever then waits for ever is in a deadlock. *)
(***************************************************************************)
FairSpec ==
  /\ Spec
  /\ \A t \in Threads : SF_vars(ThreadStep(t))
  /\ SF_vars(SweepStep)

-----------------------------------------------------------------------------
(* Properties. *)

Deleting == {"delete", "free", "dropcache"}

\* Every record in the memory dust exists, and every record is in the dust
\* unless somebody is making it or destroying it: the sweeper never meets a
\* freed record and none leaks (register_sweepable, unregister_sweepable).
DustIsExact ==
  /\ dust \subseteq recs
  /\ \A r \in recs \ dust :
       \/ victim = r
       \/ \E t \in Threads : cr[t] = r /\ pc[t] \in Deleting \cup {"register"}

\* What the store and its caches point to exists and is what it is filed as: a
\* find never follows an entry to freed memory, nor to another peer's record.
IndexIsLive ==
  /\ \A p \in Peers : store[p] # NONE => store[p] \in caches /\ peerOf[store[p]] = p
  /\ \A c \in caches, k \in Keys :
       index[c][k] # NONE => /\ index[c][k] \in recs
                             /\ keyOf[index[c][k]] = k /\ cacheOf[index[c][k]] = c

\* The record the sweeper destroys is never one that cr_cache::add replaces at
\* the same time (the `Beware' of cr_store.cpp:95).
NotBothDeleted ==
  \A t \in Threads : pc[t] \in Deleting /\ cr[t] # NONE => cr[t] # victim

\* No cache is left over: a cache without records is one that a thread fills
\* or that its last record is deleting.
EmptyCacheIsOwned ==
  \A c \in caches : IsEmpty(c) =>
    \/ \E t \in Threads : crc[t] = c
    \/ victim # NONE /\ cacheOf[victim] = c
-----------------------------------------------------------------------------
(* What makes these properties inductive. *)

Adding == {"addcache", "undust", "delete", "free", "dropcache", "relock",
           "insert", "register", "stored"}

\* A thread's pointers are good or NONE: its cache is its peer's, the record
\* it replaces or has made belongs to its cache, whose mutex it holds.
PointersInv ==
  \A t \in Threads :
    /\ cr[t] # NONE => cr[t] \in recs
    /\ crc[t] # NONE => crc[t] \in caches
    /\ pc[t] \in Adding /\ crc[t] # NONE => peerOf[crc[t]] = call[t].peer
    /\ pc[t] \in Deleting \cup {"undust", "register"} /\ cr[t] # NONE =>
         cacheOf[cr[t]] = crc[t]
    /\ pc[t] \in {"undust", "insert", "register"} /\ crc[t] # NONE =>
         cacheMx[crc[t]] = t

\* A record that is being destroyed has left the dust, in the end also its
\* cache; one that is being made is known to its maker only.
DestroyedInv ==
  \A t \in Threads :
    /\ pc[t] \in Deleting => cr[t] \notin dust
    /\ pc[t] \in {"free", "dropcache"} => \A c \in caches, k \in Keys :
                                              cr[t] # NONE => index[c][k] # cr[t]
    /\ pc[t] = "register" => /\ cr[t] \in recs \ dust
                             /\ cr[t] # victim
                             /\ \A u \in Threads \ {t} : cr[u] # cr[t]

\* The dust does not change under the sweeper, and its victim is its own.
SweepInv ==
  /\ sweepPc # "idle" => dustMx = Sweeper /\ toVisit \subseteq dust
  /\ sweepPc \in {"idle", "scan"} <=> victim = NONE
  /\ victim # NONE => victim \in recs \ dust
  /\ sweepPc \in {"free", "dropcache"} =>
       \A c \in caches, k \in Keys : index[c][k] # victim

\* An empty cache is a new one or has an eraser that has yet to look at it.
Owns(t, c) ==
  /\ crc[t] = c
  /\ \/ pc[t] \in {"addcache", "insert"}
     \/ pc[t] \in {"free", "dropcache"} /\ cr[t] # NONE

SweptEmpty(c) == sweepPc \in {"free", "dropcache"} /\ cacheOf[victim] = c

EmptyInv ==
  \A c \in caches : IsEmpty(c) => SweptEmpty(c) \/ \E t \in Threads : Owns(t, c)

StoreInv == /\ DustIsExact /\ IndexIsLive /\ NotBothDeleted /\ EmptyInv
            /\ PointersInv /\ DestroyedInv /\ SweepInv
-----------------------------------------------------------------------------
(* What comments of the code say, and the code does not do. *)

\* cr_store.h:26: when a cached_record times out, the sweeper deletes it.
RemovalIsAutomatic == \A r \in Recs : r \in stale ~> (r \notin stale \/ fault)

\* cr_store.cpp:94: an add updates the existing record with the new one; the
\* call that replaces a record returns.
UpdateCompletes ==
  \A t \in Threads : pc[t] = "delete" ~> (pc[t] = "use" \/ fault)

\* rank_estimators.cpp:449: a record that is in the store is not deleted by
\* those who read it.
StoredIsIntact == \A r \in recs \cap dangling : r \notin dust

\* cr_store.h:26: the sweeper deletes a record when it times out; a record
\* that is being read, and so has not timed out, is there.
ReadIsLive ==
  \A t \in Threads : pc[t] = "use" => cr[t] \in recs
=============================================================================
