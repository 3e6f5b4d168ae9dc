-------------------------- MODULE Changes_proofs --------------------------
(***************************************************************************)
(* Proofs about Configuration and Expansion, for any threads, objects and  *)
(* contents of the file, any searches, peers, feeds and engines, and any   *)
(* numbers of calls and edits.                                             *)
(***************************************************************************)
EXTENDS Configuration, Expansion, FiniteSetTheorems, TLAPS

-----------------------------------------------------------------------------
(* Configuration: the inductive invariant.                                 *)

\* What may be left of a call.
Rests == {Search, Suggest, Similarity, StoreQueries, SearchImg, Listen,
          <<"read", "lock", "unlock", "unread">>, <<"lock", "unlock", "unread">>,
          <<"unlock", "unread">>, <<"unread">>, <<>>, <<"read", "unread">>,
          <<"load", "read", "unlock", "unread">>, <<"read", "unlock", "unread">>,
          <<"throw", "unread">>, <<"read", "load", "unread">>, <<"load", "unread">>}

\* The rests that take the read lock, and those that only leave it.
WillRead == {Search, Suggest, Similarity, StoreQueries, SearchImg,
             <<"read", "lock", "unlock", "unread">>, <<"read", "unread">>,
             <<"load", "read", "unlock", "unread">>, <<"read", "unlock", "unread">>,
             <<"read", "load", "unread">>}
Reading == Rests \ (WillRead \cup {Listen, <<>>})

\* A step of a call leads from one rest to the next; "read" and "unread" are the steps
\* that change which of the sets it is in.
LEMMA RestsGoOn ==
  ASSUME NEW r \in Rests, r # <<>>
  PROVE  /\ Tail(r) \in Rests
         /\ Head(r) = "read" => r \in WillRead /\ Tail(r) \in Reading
         /\ Head(r) = "unread" => r \in Reading /\ Tail(r) = <<>>
         /\ Head(r) \notin {"read", "unread"} => (r \in WillRead) = (Tail(r) \in WillRead)
         /\ Head(r) \notin {"read", "unread"} /\ Tail(r) \in Reading => r \in Reading
<1> USE DEF Rests, WillRead, Reading, Search, Suggest, Similarity, StoreQueries, SearchImg,
        Listen
<1>1. CASE r = <<"load", "read", "lock", "unlock", "unread">>
  BY <1>1
<1>2. CASE r = <<"load", "read", "unread">>
  BY <1>2
<1>3. CASE r = <<"lock", "load", "read", "unlock", "unread">>
  BY <1>3
<1>4. CASE r = <<"read", "throw", "unread">>
  BY <1>4
<1>5. CASE r = <<"load", "read", "load", "unread">>
  BY <1>5
<1>6. CASE r = <<"load">>
  BY <1>6
<1>7. CASE r = <<"read", "lock", "unlock", "unread">>
  BY <1>7
<1>8. CASE r = <<"lock", "unlock", "unread">>
  BY <1>8
<1>9. CASE r = <<"unlock", "unread">>
  BY <1>9
<1>10. CASE r = <<"unread">>
  BY <1>10
<1>11. CASE r = <<"read", "unread">>
  BY <1>11
<1>12. CASE r = <<"load", "read", "unlock", "unread">>
  BY <1>12
<1>13. CASE r = <<"read", "unlock", "unread">>
  BY <1>13
<1>14. CASE r = <<"throw", "unread">>
  BY <1>14
<1>15. CASE r = <<"read", "load", "unread">>
  BY <1>15
<1>16. CASE r = <<"load", "unread">>
  BY <1>16
<1> QED
  BY <1>1, <1>2, <1>3, <1>4, <1>5, <1>6, <1>7, <1>8, <1>9, <1>10,
     <1>11, <1>12, <1>13, <1>14, <1>15, <1>16

\* A call begins with one of them, and holds no lock.
LEMMA ScriptsAreRests ==
  ASSUME NEW o, NEW s \in Scripts(o)
  PROVE  s \in Rests /\ s # <<>> /\ s \notin Reading
BY DEF Scripts, Rests, WillRead, Reading, Search, Words, Suggest, RecentQueries, QcRedir,
       Personalize, Similarity, StoreQueries, SearchImg, Listen

LEMMA EmptyRest == <<>> \in Rests /\ <<>> \notin WillRead /\ <<>> \notin Reading
BY DEF Rests, WillRead, Reading, Search, Suggest, Similarity, StoreQueries, SearchImg, Listen

-----------------------------------------------------------------------------
(* The inductive invariant.                                                *)

ConfTypes ==
    /\ conf \in Contents \cup {DEFAULT}
    /\ disk \in [there : BOOLEAN, opens : BOOLEAN, says : Contents, mtime : Nat]
    /\ disk.mtime \in 1 .. nedits + 1 /\ loaded \in 0 .. disk.mtime
    /\ writer \in Threads \cup {NOBODY}
    /\ readers \in [Threads -> Nat]
    /\ pc \in [Threads -> {"idle", "step", "wait", "reset", "parse", "stat"}]
    /\ script \in [Threads -> Rests]
    /\ nedits \in 0 .. MaxEdits /\ ncalls \in 0 .. MaxCalls
    /\ raced \in BOOLEAN

\* A thread is at one step of a call, and has left it only at its end; it is in the
\* middle of load_config only where its call loads.
ScriptsFollowed ==
    \A t \in Threads :
        /\ (script[t] = <<>>) = (pc[t] = "idle")
        /\ pc[t] \in {"wait", "reset", "parse", "stat"} => Head(script[t]) = "load"

\* Each call takes the read lock once, and what it has still to leave it holds.
ReadersCounted ==
    \A t \in Threads :
        /\ readers[t] <= ncalls /\ (script[t] \in WillRead => readers[t] < ncalls)
        /\ script[t] \in Reading => readers[t] > 0

\* The object is reset, read and stamped by the thread that holds the write lock, which
\* leaves no reader.
WriterAlone ==
    /\ \A t \in Threads : pc[t] \in {"reset", "parse", "stat"} => writer = t
    /\ writer # NOBODY => \A t \in Threads : readers[t] = 0

\* What was just read is what the file says, and what was read before is that or older.
Fresh ==
    ~raced /\ disk.there =>
        /\ \A t \in Threads : pc[t] = "stat" => conf = disk.says
        /\ writer = NOBODY /\ loaded = disk.mtime => conf = disk.says

ConfInv == ConfTypes /\ ScriptsFollowed /\ ReadersCounted /\ WriterAlone /\ Fresh

\* The steps of the specification, one by one.
LEMMA ConfActions ==
  ASSUME [ConfNext]_confVars
  PROVE  \/ Edit \/ TakeAway
         \/ \E t \in Threads : Call(t) \/ Read(t) \/ Unread(t) \/ Throw(t)
         \/ \E t \in Threads : LockQuery(t) \/ UnlockQuery(t) \/ Load(t) \/ WriteLock(t)
         \/ \E t \in Threads : Reset(t) \/ Parse(t) \/ Stat(t)
         \/ UNCHANGED confVars
BY Zenon DEF ConfNext, ConfSteps, ConfStep

\* What the next step of a thread's script, or its end, does to the threads.
Followed(t) ==
    /\ script' \in [Threads -> Rests]
    /\ pc' \in [Threads -> {"idle", "step", "wait", "reset", "parse", "stat"}]
    /\ ScriptsFollowed'
    /\ pc'[t] \in {"idle", "step"}
    /\ script'[t] = Tail(script[t])
    /\ \A s \in Threads \ {t} : pc'[s] = pc[s] /\ script'[s] = script[s]

LEMMA GoesFollows ==
  ASSUME ConfTypes, ScriptsFollowed, NEW t \in Threads, pc[t] # "idle", Goes(t)
  PROVE  Followed(t)
<1>1. script[t] \in Rests /\ script[t] # <<>>
  BY DEF ConfTypes, ScriptsFollowed
<1>2. Tail(script[t]) \in Rests
  BY <1>1, RestsGoOn
<1> QED
  BY <1>1, <1>2 DEF ConfTypes, ScriptsFollowed, Goes, Followed

\* So does one that leaves the count of readers as it is.
LEMMA GoesCounted ==
  ASSUME ConfTypes, ScriptsFollowed, ReadersCounted, NEW t \in Threads, pc[t] # "idle",
         Head(script[t]) \notin {"read", "unread"}, Goes(t), UNCHANGED <<readers, ncalls>>
  PROVE  ReadersCounted'
<1>1. script[t] \in Rests /\ script[t] # <<>>
  BY DEF ConfTypes, ScriptsFollowed
<1>2. /\ (script[t] \in WillRead) = (Tail(script[t]) \in WillRead)
      /\ Tail(script[t]) \in Reading => script[t] \in Reading
  BY <1>1, RestsGoOn
<1>3. SUFFICES ASSUME NEW s \in Threads
              PROVE  /\ readers'[s] <= ncalls'
                     /\ script'[s] \in WillRead => readers'[s] < ncalls'
                     /\ script'[s] \in Reading => readers'[s] > 0
  BY DEF ReadersCounted
<1>4. Followed(t)
  BY GoesFollows
<1> QED
  BY <1>2, <1>4 DEF ReadersCounted, Followed


\* Every step keeps the invariant, action by action.
LEMMA ConfInductive ==
  ASSUME ConfInv, [ConfNext]_confVars
  PROVE  ConfInv'
<1> USE ConfigurationAssumption DEF ConfInv
<1>1. CASE Edit
  <2>1. ConfTypes'
    BY <1>1 DEF Edit, ConfTypes
  <2>2. ScriptsFollowed'
    BY <1>1 DEF Edit, ConfTypes, ScriptsFollowed
  <2>3. ReadersCounted'
    BY <1>1 DEF Edit, ConfTypes, ReadersCounted
  <2>4. WriterAlone'
    BY <1>1 DEF Edit, ConfTypes, WriterAlone
  <2>5. Fresh'
    <3>1. PICK says \in Contents, opens \in BOOLEAN, m \in {disk.mtime, disk.mtime + 1} :
            /\ disk' = [there |-> TRUE, opens |-> opens, says |-> says, mtime |-> m]
            /\ raced' = (raced \/ m = disk.mtime \/ \E t \in Threads : pc[t] = "stat")
      BY <1>1 DEF Edit
    <3>2. CASE raced'
      BY <3>2 DEF Fresh
    <3>3. CASE ~raced'
      <4>1. disk'.mtime = disk.mtime + 1 /\ \A t \in Threads : pc[t] # "stat"
        BY <3>1, <3>3
      <4>2. loaded' # disk'.mtime /\ pc' = pc
        BY <1>1, <4>1 DEF Edit, ConfTypes
      <4> QED
        BY <4>1, <4>2 DEF Fresh
    <3> QED
      BY <3>2, <3>3
  <2> QED
    BY <2>1, <2>2, <2>3, <2>4, <2>5
<1>2. CASE TakeAway
  <2>1. ConfTypes'
    <3>1. /\ disk' \in [there : BOOLEAN, opens : BOOLEAN, says : Contents, mtime : Nat]
          /\ disk'.mtime = disk.mtime
      BY <1>2 DEF TakeAway, ConfTypes
    <3> QED
      BY <1>2, <3>1 DEF TakeAway, ConfTypes
  <2>2. ScriptsFollowed'
    BY <1>2 DEF TakeAway, ConfTypes, ScriptsFollowed
  <2>3. ReadersCounted'
    BY <1>2 DEF TakeAway, ConfTypes, ReadersCounted
  <2>4. WriterAlone'
    BY <1>2 DEF TakeAway, ConfTypes, WriterAlone
  <2>5. Fresh'
    BY <1>2 DEF TakeAway, ConfTypes, WriterAlone, Fresh
  <2> QED
    BY <2>1, <2>2, <2>3, <2>4, <2>5
<1>3. ASSUME NEW t \in Threads, Call(t) PROVE ConfInv'
  <2>1. ConfTypes'
    BY <1>3, ScriptsAreRests DEF Call, ConfTypes
  <2>2. ScriptsFollowed'
    BY <1>3, ScriptsAreRests DEF Call, ConfTypes, ScriptsFollowed
  <2>3. ReadersCounted'
    BY <1>3, ScriptsAreRests DEF Call, ConfTypes, ReadersCounted
  <2>4. WriterAlone'
    BY <1>3, ScriptsAreRests DEF Call, ConfTypes, WriterAlone
  <2>5. Fresh'
    BY <1>3, ScriptsAreRests DEF Call, ConfTypes, WriterAlone, Fresh
  <2> QED
    BY <2>1, <2>2, <2>3, <2>4, <2>5
<1>4. ASSUME NEW t \in Threads, Read(t) PROVE ConfInv'
  <2>1. pc[t] # "idle" /\ Goes(t)
    BY <1>4 DEF Read, At
  <2>2. Followed(t)
    BY <2>1, GoesFollows
  <2>3. script[t] \in Rests /\ script[t] # <<>>
    BY <2>1 DEF ConfTypes, ScriptsFollowed
  <2>4. script[t] \in WillRead /\ Tail(script[t]) \in Reading
    BY <1>4, <2>3, RestsGoOn DEF Read, At
  <2>5. Tail(script[t]) \notin WillRead
    BY <2>4 DEF Reading
  <2>6. /\ readers' \in [Threads -> Nat] /\ readers'[t] = readers[t] + 1
        /\ \A s \in Threads \ {t} : readers'[s] = readers[s]
    BY <1>4 DEF Read, ConfTypes
  <2>7. ConfTypes'
    BY <1>4, <2>2, <2>6 DEF Read, ConfTypes, Followed
  <2>8. ReadersCounted'
    <3>1. SUFFICES ASSUME NEW s \in Threads
                   PROVE  /\ readers'[s] <= ncalls'
                          /\ script'[s] \in WillRead => readers'[s] < ncalls'
                          /\ script'[s] \in Reading => readers'[s] > 0
      BY DEF ReadersCounted
    <3>2. ncalls' = ncalls /\ ncalls \in Nat /\ readers[s] \in Nat
      BY <1>4 DEF Read, ConfTypes
    <3>3. CASE s = t
      BY <3>2, <3>3, <2>2, <2>4, <2>5, <2>6 DEF ReadersCounted, Followed
    <3>4. CASE s # t
      BY <3>2, <3>4, <2>2, <2>6 DEF ReadersCounted, Followed
    <3> QED
      BY <3>3, <3>4
  <2>9. WriterAlone'
    BY <1>4, <2>2, <2>6, <2>5 DEF Read, ConfTypes, WriterAlone, Followed
  <2>10. Fresh'
    BY <1>4, <2>2 DEF Read, Fresh, Followed
  <2> QED
    BY <2>2, <2>7, <2>8, <2>9, <2>10 DEF Followed
<1>5. ASSUME NEW t \in Threads, Unread(t) PROVE ConfInv'
  <2>1. pc[t] # "idle" /\ Goes(t)
    BY <1>5 DEF Unread, At
  <2>2. Followed(t)
    BY <2>1, GoesFollows
  <2>3. script[t] \in Rests /\ script[t] # <<>>
    BY <2>1 DEF ConfTypes, ScriptsFollowed
  <2>4. script[t] \in Reading /\ Tail(script[t]) = <<>>
    BY <1>5, <2>3, RestsGoOn DEF Unread, At
  <2>5. Tail(script[t]) \notin WillRead /\ Tail(script[t]) \notin Reading /\ readers[t] > 0
    BY <2>4, EmptyRest DEF ReadersCounted
  <2>6. /\ readers' \in [Threads -> Nat] /\ readers'[t] = readers[t] - 1
        /\ \A s \in Threads \ {t} : readers'[s] = readers[s]
    BY <1>5, <2>5 DEF Unread, ConfTypes
  <2>7. ConfTypes'
    BY <1>5, <2>2, <2>6 DEF Unread, ConfTypes, Followed
  <2>8. ReadersCounted'
    <3>1. SUFFICES ASSUME NEW s \in Threads
                   PROVE  /\ readers'[s] <= ncalls'
                          /\ script'[s] \in WillRead => readers'[s] < ncalls'
                          /\ script'[s] \in Reading => readers'[s] > 0
      BY DEF ReadersCounted
    <3>2. ncalls' = ncalls /\ ncalls \in Nat /\ readers[s] \in Nat
      BY <1>5 DEF Unread, ConfTypes
    <3>3. CASE s = t
      BY <3>2, <3>3, <2>2, <2>4, <2>5, <2>6 DEF ReadersCounted, Followed
    <3>4. CASE s # t
      BY <3>2, <3>4, <2>2, <2>6 DEF ReadersCounted, Followed
    <3> QED
      BY <3>3, <3>4
  <2>9. WriterAlone'
    BY <1>5, <2>2, <2>6, <2>5 DEF Unread, ConfTypes, WriterAlone, Followed
  <2>10. Fresh'
    BY <1>5, <2>2 DEF Unread, Fresh, Followed
  <2> QED
    BY <2>2, <2>7, <2>8, <2>9, <2>10 DEF Followed
<1>6. ASSUME NEW t \in Threads, Throw(t) PROVE ConfInv'
  <2>1. CASE Goes(t)
    <3>1. pc[t] # "idle" /\ Goes(t)
      BY <1>6, <2>1 DEF Throw, At
    <3>2. Followed(t)
      BY <3>1, GoesFollows
    <3>3. script[t] \in Rests /\ script[t] # <<>>
      BY <3>1 DEF ConfTypes, ScriptsFollowed
    <3>4. ConfTypes'
      BY <1>6, <2>1, <3>2 DEF Throw, ConfTypes, Followed
    <3>5. ReadersCounted'
      BY <1>6, <2>1, <3>1, GoesCounted DEF Throw, At, ScriptsFollowed
    <3>6. WriterAlone'
      BY <1>6, <2>1, <3>2 DEF Throw, ConfTypes, WriterAlone, Followed
    <3>7. Fresh'
      BY <1>6, <2>1, <3>2 DEF Throw, ConfTypes, WriterAlone, Fresh, Followed
    <3> QED
      BY <3>2, <3>4, <3>5, <3>6, <3>7 DEF Followed
  <2>2. CASE script' = [script EXCEPT ![t] = <<>>] /\ pc' = [pc EXCEPT ![t] = "idle"]
    <3>1. ConfTypes'
      BY <1>6, <2>2, EmptyRest DEF Throw, At, ConfTypes
    <3>2. ScriptsFollowed'
      BY <1>6, <2>2, EmptyRest DEF Throw, At, ConfTypes, ScriptsFollowed
    <3>3. ReadersCounted'
      BY <1>6, <2>2, EmptyRest DEF Throw, At, ConfTypes, ReadersCounted
    <3>4. WriterAlone'
      BY <1>6, <2>2, EmptyRest DEF Throw, At, ConfTypes, WriterAlone
    <3>5. Fresh'
      BY <1>6, <2>2, EmptyRest DEF Throw, At, ConfTypes, WriterAlone, Fresh
    <3> QED
      BY <3>1, <3>2, <3>3, <3>4, <3>5
  <2> QED
    BY <1>6, <2>1, <2>2 DEF Throw
<1>7. ASSUME NEW t \in Threads, LockQuery(t) PROVE ConfInv'
  <2>1. pc[t] # "idle" /\ Goes(t)
    BY <1>7 DEF LockQuery, At
  <2>2. Followed(t)
    BY <2>1, GoesFollows
  <2>3. script[t] \in Rests /\ script[t] # <<>>
    BY <2>1 DEF ConfTypes, ScriptsFollowed
  <2>4. ConfTypes'
    BY <1>7, <2>2 DEF LockQuery, ConfTypes, Followed
  <2>5. ReadersCounted'
    BY <1>7, <2>1, GoesCounted DEF LockQuery, At, ScriptsFollowed
  <2>6. WriterAlone'
    BY <1>7, <2>2 DEF LockQuery, ConfTypes, WriterAlone, Followed
  <2>7. Fresh'
    BY <1>7, <2>2 DEF LockQuery, ConfTypes, WriterAlone, Fresh, Followed
  <2> QED
    BY <2>2, <2>4, <2>5, <2>6, <2>7 DEF Followed
<1>8. ASSUME NEW t \in Threads, UnlockQuery(t) PROVE ConfInv'
  <2>1. pc[t] # "idle" /\ Goes(t)
    BY <1>8 DEF UnlockQuery, At
  <2>2. Followed(t)
    BY <2>1, GoesFollows
  <2>3. script[t] \in Rests /\ script[t] # <<>>
    BY <2>1 DEF ConfTypes, ScriptsFollowed
  <2>4. ConfTypes'
    BY <1>8, <2>2 DEF UnlockQuery, ConfTypes, Followed
  <2>5. ReadersCounted'
    BY <1>8, <2>1, GoesCounted DEF UnlockQuery, At, ScriptsFollowed
  <2>6. WriterAlone'
    BY <1>8, <2>2 DEF UnlockQuery, ConfTypes, WriterAlone, Followed
  <2>7. Fresh'
    BY <1>8, <2>2 DEF UnlockQuery, ConfTypes, WriterAlone, Fresh, Followed
  <2> QED
    BY <2>2, <2>4, <2>5, <2>6, <2>7 DEF Followed
<1>9. ASSUME NEW t \in Threads, Load(t) PROVE ConfInv'
  <2>1. CASE Goes(t)
    <3>1. pc[t] # "idle" /\ Goes(t)
      BY <1>9, <2>1 DEF Load, At
    <3>2. Followed(t)
      BY <3>1, GoesFollows
    <3>3. script[t] \in Rests /\ script[t] # <<>>
      BY <3>1 DEF ConfTypes, ScriptsFollowed
    <3>4. ConfTypes'
      BY <1>9, <2>1, <3>2 DEF Load, ConfTypes, Followed
    <3>5. ReadersCounted'
      BY <1>9, <2>1, <3>1, GoesCounted DEF Load, At, ScriptsFollowed
    <3>6. WriterAlone'
      BY <1>9, <2>1, <3>2 DEF Load, ConfTypes, WriterAlone, Followed
    <3>7. Fresh'
      BY <1>9, <2>1, <3>2 DEF Load, ConfTypes, WriterAlone, Fresh, Followed
    <3> QED
      BY <3>2, <3>4, <3>5, <3>6, <3>7 DEF Followed
  <2>2. CASE FileChanged /\ pc' = [pc EXCEPT ![t] = "wait"] /\ UNCHANGED script
    <3>1. ConfTypes'
      BY <1>9, <2>2 DEF Load, At, FileChanged, ConfTypes
    <3>2. ScriptsFollowed'
      BY <1>9, <2>2 DEF Load, At, FileChanged, ConfTypes, ScriptsFollowed
    <3>3. ReadersCounted'
      BY <1>9, <2>2 DEF Load, At, FileChanged, ConfTypes, ReadersCounted
    <3>4. WriterAlone'
      BY <1>9, <2>2 DEF Load, At, FileChanged, ConfTypes, WriterAlone
    <3>5. Fresh'
      BY <1>9, <2>2 DEF Load, At, FileChanged, ConfTypes, WriterAlone, Fresh
    <3> QED
      BY <3>1, <3>2, <3>3, <3>4, <3>5
  <2> QED
    BY <1>9, <2>1, <2>2 DEF Load
<1>10. ASSUME NEW t \in Threads, WriteLock(t) PROVE ConfInv'
  <2>1. ConfTypes'
    BY <1>10 DEF WriteLock, NoReaders, ConfTypes
  <2>2. ScriptsFollowed'
    BY <1>10 DEF WriteLock, NoReaders, ConfTypes, ScriptsFollowed
  <2>3. ReadersCounted'
    BY <1>10 DEF WriteLock, NoReaders, ConfTypes, ReadersCounted
  <2>4. WriterAlone'
    BY <1>10 DEF WriteLock, NoReaders, ConfTypes, WriterAlone
  <2>5. Fresh'
    BY <1>10 DEF WriteLock, NoReaders, ConfTypes, WriterAlone, Fresh
  <2> QED
    BY <2>1, <2>2, <2>3, <2>4, <2>5
<1>11. ASSUME NEW t \in Threads, Reset(t) PROVE ConfInv'
  <2>1. CASE Goes(t)
    <3>1. pc[t] # "idle" /\ Goes(t)
      BY <1>11, <2>1 DEF Reset, At
    <3>2. Followed(t)
      BY <3>1, GoesFollows
    <3>3. script[t] \in Rests /\ script[t] # <<>>
      BY <3>1 DEF ConfTypes, ScriptsFollowed
    <3>4. ConfTypes'
      BY <1>11, <2>1, <3>2 DEF Reset, ConfTypes, Followed
    <3>5. ReadersCounted'
      BY <1>11, <2>1, <3>1, GoesCounted DEF Reset, At, ScriptsFollowed
    <3>6. WriterAlone'
      BY <1>11, <2>1, <3>2 DEF Reset, ConfTypes, WriterAlone, Followed
    <3>7. Fresh'
      BY <1>11, <2>1, <3>2 DEF Reset, ConfTypes, WriterAlone, Fresh, Followed
    <3> QED
      BY <3>2, <3>4, <3>5, <3>6, <3>7 DEF Followed
  <2>2. CASE pc' = [pc EXCEPT ![t] = "parse"] /\ UNCHANGED script
    <3>1. ConfTypes'
      BY <1>11, <2>2 DEF Reset, At, ConfTypes
    <3>2. ScriptsFollowed'
      BY <1>11, <2>2 DEF Reset, At, ConfTypes, ScriptsFollowed
    <3>3. ReadersCounted'
      BY <1>11, <2>2 DEF Reset, At, ConfTypes, ReadersCounted
    <3>4. WriterAlone'
      BY <1>11, <2>2 DEF Reset, At, ConfTypes, WriterAlone
    <3>5. Fresh'
      BY <1>11, <2>2 DEF Reset, At, ConfTypes, WriterAlone, Fresh
    <3> QED
      BY <3>1, <3>2, <3>3, <3>4, <3>5
  <2> QED
    BY <1>11, <2>1, <2>2 DEF Reset
<1>12. ASSUME NEW t \in Threads, Parse(t) PROVE ConfInv'
  <2>1. ConfTypes'
    BY <1>12 DEF Parse, ConfTypes
  <2>2. ScriptsFollowed'
    BY <1>12 DEF Parse, ConfTypes, ScriptsFollowed
  <2>3. ReadersCounted'
    BY <1>12 DEF Parse, ConfTypes, ReadersCounted
  <2>4. WriterAlone'
    BY <1>12 DEF Parse, ConfTypes, WriterAlone
  <2>5. Fresh'
    BY <1>12 DEF Parse, ConfTypes, WriterAlone, Fresh
  <2> QED
    BY <2>1, <2>2, <2>3, <2>4, <2>5
<1>13. ASSUME NEW t \in Threads, Stat(t) PROVE ConfInv'
  <2>1. pc[t] # "idle" /\ Goes(t)
    BY <1>13 DEF Stat, At
  <2>2. Followed(t)
    BY <2>1, GoesFollows
  <2>3. script[t] \in Rests /\ script[t] # <<>>
    BY <2>1 DEF ConfTypes, ScriptsFollowed
  <2>4. ConfTypes'
    BY <1>13, <2>2 DEF Stat, ConfTypes, Followed
  <2>5. ReadersCounted'
    BY <1>13, <2>1, GoesCounted DEF Stat, At, ScriptsFollowed
  <2>6. WriterAlone'
    BY <1>13, <2>2 DEF Stat, ConfTypes, WriterAlone, Followed
  <2>7. Fresh'
    BY <1>13, <2>2 DEF Stat, ConfTypes, WriterAlone, Fresh, Followed
  <2> QED
    BY <2>2, <2>4, <2>5, <2>6, <2>7 DEF Followed
<1>14. CASE UNCHANGED confVars
  BY <1>14 DEF confVars, ConfTypes, ScriptsFollowed, ReadersCounted, WriterAlone, Fresh
<1> QED
  BY ConfActions, <1>1, <1>2, <1>3, <1>4, <1>5, <1>6, <1>7, <1>8, <1>9, <1>10, <1>11, <1>12,
     <1>13, <1>14

\* The file is there at first.
LEMMA FirstFile ==
  ASSUME NEW d \in [there : {TRUE}, opens : {TRUE}, says : Contents, mtime : {1}]
  PROVE  /\ d \in [there : BOOLEAN, opens : BOOLEAN, says : Contents, mtime : Nat]
         /\ d.mtime = 1 /\ d.says \in Contents
<1>1. PICK says \in Contents :
        d = [there |-> TRUE, opens |-> TRUE, says |-> says, mtime |-> 1]
  OBVIOUS
<1> QED
  BY <1>1

\* The invariant holds at first.
LEMMA ConfInitially == ConfInit => ConfInv
<1> SUFFICES ASSUME ConfInit PROVE ConfInv
  OBVIOUS
<1> USE ConfigurationAssumption, EmptyRest DEF ConfInit
<1>1. ConfTypes
  <2>1. /\ disk \in [there : BOOLEAN, opens : BOOLEAN, says : Contents, mtime : Nat]
        /\ disk.mtime = 1 /\ disk.says \in Contents
    BY FirstFile, Zenon
  <2>2. /\ readers \in [Threads -> Nat] /\ script \in [Threads -> Rests]
        /\ pc \in [Threads -> {"idle", "step", "wait", "reset", "parse", "stat"}]
    OBVIOUS
  <2>3. /\ 1 \in 1 .. nedits + 1 /\ 1 \in 0 .. 1
        /\ nedits \in 0 .. MaxEdits /\ ncalls \in 0 .. MaxCalls
    OBVIOUS
  <2> QED
    BY <2>1, <2>2, <2>3, Zenon DEF ConfTypes
<1>2. ScriptsFollowed /\ ReadersCounted
  BY DEF ScriptsFollowed, ReadersCounted
<1>3. WriterAlone /\ Fresh
  BY DEF WriterAlone, Fresh
<1> QED
  BY <1>1, <1>2, <1>3 DEF ConfInv

\* The invariant holds in every reachable state.
THEOREM ConfInvariant == ConfSpec => []ConfInv
<1>1. ConfInv /\ [ConfNext]_confVars => ConfInv'
  BY ConfInductive
<1> QED
  BY <1>1, ConfInitially, PTL DEF ConfSpec

\* The variables of a configuration object and of its lock have their types, and a writer
\* excludes the readers (configuration_spec::load_config and its callers).
THEOREM ConfTypeCorrect == ConfSpec => []ConfTypeOK
<1>1. ConfInv => ConfTypeOK
  BY ConfigurationAssumption DEF ConfInv, ConfTypes, ReadersCounted, WriterAlone, ConfTypeOK
<1> QED
  BY <1>1, ConfInvariant, PTL

\* While nobody reloads, the object holds what the file says, or will be reloaded
\* (configuration_spec::load_config, check_file_changed).
THEOREM NeverStaleAlways == ConfSpec => []NeverStale
<1>1. ConfInv => NeverStale
  BY DEF ConfInv, Fresh, NeverStale
<1> QED
  BY <1>1, ConfInvariant, PTL

\* A call that reads under the lock sees one configuration from the lock to the unlock,
\* however many threads reload it, as long as the file is there.
THEOREM ReadersUndisturbedAlways == ConfSpec => ReadersUndisturbed
<1> DEFINE Undisturbed == (\E t \in Threads : readers[t] > 0 /\ readers'[t] > 0 /\ disk.there)
                            => conf' = conf
<1>1. ASSUME ConfInv, [ConfNext]_confVars PROVE [Undisturbed]_confVars
  <2> SUFFICES ASSUME NEW r \in Threads, readers[r] > 0, disk.there PROVE conf' = conf
    BY <1>1
  <2>1. ASSUME NEW t \in Threads, Reset(t) \/ Parse(t) PROVE FALSE
    BY <1>1, <2>1, ConfigurationAssumption DEF Reset, Parse, ConfInv, ConfTypes, WriterAlone
  <2>2. ASSUME NEW t \in Threads, Load(t) PROVE conf' = conf
    BY <2>2 DEF Load
  <2> QED
    BY <1>1, <2>1, <2>2, ConfActions DEF Edit, TakeAway, Call, Read, Unread, Throw, LockQuery,
       UnlockQuery, WriteLock, Stat, confVars
<1> QED
  BY <1>1, ConfInvariant, PTL DEF ConfSpec, ReadersUndisturbed

-----------------------------------------------------------------------------
(* Feeds as sets of pairs.                                                 *)

\* Feeds are functions from names to sets of addresses that are not empty.
LEMMA FeedsAreFunctions ==
  ASSUME NEW fs
  PROVE  fs \in AnyFeeds <=> /\ DOMAIN fs \subseteq Names
                             /\ fs \in [DOMAIN fs -> (SUBSET Addresses) \ {{}}]
<1>1. ASSUME fs \in AnyFeeds
      PROVE  DOMAIN fs \subseteq Names /\ fs \in [DOMAIN fs -> (SUBSET Addresses) \ {{}}]
  <2>1. PICK d \in SUBSET Names : fs \in [d -> (SUBSET Addresses) \ {{}}]
    BY <1>1 DEF AnyFeeds
  <2> QED
    BY <2>1
<1>2. ASSUME DOMAIN fs \subseteq Names, fs \in [DOMAIN fs -> (SUBSET Addresses) \ {{}}]
      PROVE  fs \in AnyFeeds
  BY <1>2 DEF AnyFeeds
<1> QED
  BY <1>1, <1>2

\* A pair is one of feeds when its URL is in the feed that find_feed returns.
LEMMA PairIsFound ==
  ASSUME NEW fs \in AnyFeeds
  PROVE  /\ \A n, u : <<n, u>> \in Pairs(fs) <=> u \in FindFeed(fs, n)
         /\ \A x \in Pairs(fs) : x = <<x[1], x[2]>>
         /\ Pairs(fs) \subseteq Names \X Addresses
         /\ \A n : n \in DOMAIN fs <=> FindFeed(fs, n) # {}
<1>1. DOMAIN fs \subseteq Names /\ fs \in [DOMAIN fs -> (SUBSET Addresses) \ {{}}]
  BY FeedsAreFunctions
<1>2. \A x : x \in Pairs(fs) <=> \E n \in DOMAIN fs : \E u \in fs[n] : x = <<n, u>>
  BY DEF Pairs
<1>3. \A n, u : <<n, u>> \in Pairs(fs) <=> u \in FindFeed(fs, n)
  BY <1>2 DEF FindFeed
<1>4. \A x \in Pairs(fs) : x = <<x[1], x[2]>> /\ x \in Names \X Addresses
  BY <1>1, <1>2
<1>5. \A n : n \in DOMAIN fs <=> FindFeed(fs, n) # {}
  BY <1>1 DEF FindFeed
<1> QED
  BY <1>3, <1>4, <1>5

\* Adding feeds is adding the URLs of each (feeds::add_feed).
LEMMA AddAllAdds ==
  ASSUME NEW fs \in AnyFeeds, NEW names \in SUBSET Names, NEW gs,
         \A n \in names : gs[n] \in SUBSET Addresses
  PROVE  /\ AddAll(fs, gs, names) \in AnyFeeds
         /\ \A n : FindFeed(AddAll(fs, gs, names), n)
                     = FindFeed(fs, n) \cup (IF n \in names THEN gs[n] ELSE {})
<1> DEFINE d == DOMAIN fs \cup {m \in names : gs[m] # {}}
           added(n) == FindFeed(fs, n) \cup (IF n \in names THEN gs[n] ELSE {})
<1>1. DOMAIN fs \subseteq Names /\ fs \in [DOMAIN fs -> (SUBSET Addresses) \ {{}}]
  BY FeedsAreFunctions
<1>2. AddAll(fs, gs, names) = [n \in d |-> added(n)]
  BY DEF AddAll
<1>3. d \subseteq Names /\ \A n \in d : added(n) \in (SUBSET Addresses) \ {{}}
  <2>1. d \subseteq Names
    BY <1>1
  <2>2. ASSUME NEW n \in d PROVE added(n) \in SUBSET Addresses /\ added(n) # {}
    <3>1. CASE n \in DOMAIN fs
      BY <1>1, <3>1 DEF FindFeed
    <3>2. CASE n \notin DOMAIN fs
      BY <1>1, <3>2 DEF FindFeed
    <3> QED
      BY <3>1, <3>2
  <2> QED
    BY <2>1, <2>2
<1>4. AddAll(fs, gs, names) \in AnyFeeds
  BY <1>2, <1>3, FeedsAreFunctions
<1>5. ASSUME NEW n, n \notin d PROVE added(n) = {}
  BY <1>1, <1>5 DEF FindFeed
<1> HIDE DEF d, added
<1>6. \A n : FindFeed(AddAll(fs, gs, names), n) = added(n)
  BY <1>2, <1>5 DEF FindFeed
<1> QED
  BY <1>4, <1>6 DEF added

LEMMA NoFeedsAreFeeds == NoFeeds \in AnyFeeds /\ \A n : FindFeed(NoFeeds, n) = {}
BY FeedsAreFunctions DEF NoFeeds, FindFeed

\* What the difference, the union and the intersection have of each name (feeds::diff,
\* feeds::sunion, feeds::inter).
LEMMA DiffIsDiff ==
  ASSUME NEW fs \in AnyFeeds, NEW gs \in AnyFeeds
  PROVE  /\ DiffFeeds(fs, gs) \in AnyFeeds
         /\ \A n : FindFeed(DiffFeeds(fs, gs), n)
                     = SymDiff(FindFeed(fs, n), FindFeed(gs, n))
<1> DEFINE D == DOMAIN fs \ DOMAIN gs
           E == DOMAIN gs \ DOMAIN fs
           common == [n \in DOMAIN fs \cap DOMAIN gs |-> UrlDiff(fs[n], gs[n])]
           one == AddAll(NoFeeds, fs, D)
           own == AddAll(one, gs, E)
<1>1. /\ DOMAIN fs \subseteq Names /\ fs \in [DOMAIN fs -> (SUBSET Addresses) \ {{}}]
      /\ DOMAIN gs \subseteq Names /\ gs \in [DOMAIN gs -> (SUBSET Addresses) \ {{}}]
  BY FeedsAreFunctions
<1>2. /\ one \in AnyFeeds
      /\ \A n : FindFeed(one, n) = IF n \in D THEN fs[n] ELSE {}
  <2>1. D \in SUBSET Names /\ \A n \in D : fs[n] \in SUBSET Addresses
    BY <1>1
  <2>2. /\ one \in AnyFeeds
        /\ \A n : FindFeed(one, n) = FindFeed(NoFeeds, n) \cup (IF n \in D THEN fs[n] ELSE {})
    BY <2>1, AddAllAdds, NoFeedsAreFeeds
  <2> QED
    BY <2>2, NoFeedsAreFeeds
<1>3. /\ own \in AnyFeeds
      /\ \A n : FindFeed(own, n) = FindFeed(one, n) \cup (IF n \in E THEN gs[n] ELSE {})
  <2>1. E \in SUBSET Names /\ \A n \in E : gs[n] \in SUBSET Addresses
    BY <1>1
  <2> HIDE DEF E, one
  <2> QED
    BY <2>1, <1>2, AddAllAdds
<1>4. \A n \in DOMAIN common : common[n] \in SUBSET Addresses
  BY <1>1 DEF UrlDiff, SymDiff
<1>5. DiffFeeds(fs, gs) = AddAll(own, common, DOMAIN common)
  BY DEF DiffFeeds
<1>6. /\ DiffFeeds(fs, gs) \in AnyFeeds
      /\ \A n : FindFeed(DiffFeeds(fs, gs), n)
                  = FindFeed(own, n) \cup (IF n \in DOMAIN common THEN common[n] ELSE {})
  <2>1. DOMAIN common \in SUBSET Names
    BY <1>1
  <2> HIDE DEF common, own
  <2> QED
    BY <2>1, <1>3, <1>4, <1>5, AddAllAdds
<1> QED
  BY <1>1, <1>2, <1>3, <1>6 DEF FindFeed, UrlDiff, SymDiff

LEMMA UnionIsUnion ==
  ASSUME NEW fs \in AnyFeeds, NEW gs \in AnyFeeds
  PROVE  /\ UnionFeeds(fs, gs) \in AnyFeeds
         /\ \A n : FindFeed(UnionFeeds(fs, gs), n) = FindFeed(fs, n) \cup FindFeed(gs, n)
<1> DEFINE D == DOMAIN fs
           E == DOMAIN gs \ DOMAIN fs
           one == AddAll(NoFeeds, fs, D)
           first == AddAll(one, gs, E)
           common == [n \in DOMAIN fs \cap DOMAIN gs |-> UrlUnion(fs[n], gs[n])]
           refused == {n \in DOMAIN common : ~NewFeed(first, n, common[n])}
           kept == RemoveFeeds(first, refused)
<1>1. /\ DOMAIN fs \subseteq Names /\ fs \in [DOMAIN fs -> (SUBSET Addresses) \ {{}}]
      /\ DOMAIN gs \subseteq Names /\ gs \in [DOMAIN gs -> (SUBSET Addresses) \ {{}}]
  BY FeedsAreFunctions
<1>2. /\ one \in AnyFeeds
      /\ \A n : FindFeed(one, n) = IF n \in D THEN fs[n] ELSE {}
  <2>1. D \in SUBSET Names /\ \A n \in D : fs[n] \in SUBSET Addresses
    BY <1>1
  <2>2. /\ one \in AnyFeeds
        /\ \A n : FindFeed(one, n) = FindFeed(NoFeeds, n) \cup (IF n \in D THEN fs[n] ELSE {})
    BY <2>1, AddAllAdds, NoFeedsAreFeeds
  <2> QED
    BY <2>2, NoFeedsAreFeeds
<1>3. /\ first \in AnyFeeds
      /\ \A n : FindFeed(first, n) = FindFeed(one, n) \cup (IF n \in E THEN gs[n] ELSE {})
  <2>1. E \in SUBSET Names /\ \A n \in E : gs[n] \in SUBSET Addresses
    BY <1>1
  <2> HIDE DEF E, one
  <2> QED
    BY <2>1, <1>2, AddAllAdds
<1>4. \A n \in DOMAIN common : common[n] \in SUBSET Addresses
  BY <1>1 DEF UrlUnion
<1>5. /\ kept \in AnyFeeds
      /\ \A n : FindFeed(kept, n) = IF n \in refused THEN {} ELSE FindFeed(first, n)
  <2> HIDE DEF first, refused
  <2>1. /\ DOMAIN kept = DOMAIN first \ refused
        /\ \A n \in DOMAIN kept : kept[n] = first[n]
        /\ kept = [n \in DOMAIN first \ refused |-> first[n]]
    BY DEF RemoveFeeds
  <2>2. DOMAIN first \subseteq Names /\ first \in [DOMAIN first -> (SUBSET Addresses) \ {{}}]
    BY <1>3, FeedsAreFunctions
  <2>3. kept \in AnyFeeds
    BY <2>1, <2>2, FeedsAreFunctions
  <2> QED
    BY <2>1, <2>3 DEF FindFeed
<1>6. UnionFeeds(fs, gs) = AddAll(kept, common, DOMAIN common)
  BY DEF UnionFeeds
<1>7. /\ UnionFeeds(fs, gs) \in AnyFeeds
      /\ \A n : FindFeed(UnionFeeds(fs, gs), n)
                  = FindFeed(kept, n) \cup (IF n \in DOMAIN common THEN common[n] ELSE {})
  <2>1. DOMAIN common \in SUBSET Names
    BY <1>1
  <2> HIDE DEF common, kept
  <2> QED
    BY <2>1, <1>4, <1>5, <1>6, AddAllAdds
<1>8. ASSUME NEW n
      PROVE  FindFeed(UnionFeeds(fs, gs), n) = FindFeed(fs, n) \cup FindFeed(gs, n)
  <2>1. FindFeed(first, n) = IF n \in D THEN fs[n] ELSE IF n \in E THEN gs[n] ELSE {}
    BY <1>2, <1>3
  <2> HIDE DEF first
  <2>2. CASE n \in DOMAIN common
    <3>1. common[n] = fs[n] \cup gs[n] /\ FindFeed(first, n) = fs[n]
      BY <2>1, <2>2 DEF UrlUnion
    <3>2. FindFeed(kept, n) \subseteq fs[n]
      BY <1>5, <3>1
    <3> QED
      BY <1>7, <2>2, <3>1, <3>2 DEF FindFeed
  <2>3. CASE n \notin DOMAIN common
    <3>1. FindFeed(kept, n) = FindFeed(first, n)
      BY <1>5, <2>3
    <3> QED
      BY <1>7, <2>1, <2>3, <3>1 DEF FindFeed
  <2> QED
    BY <2>2, <2>3
<1> QED
  BY <1>7, <1>8

LEMMA InterIsInter ==
  ASSUME NEW fs \in AnyFeeds, NEW gs \in AnyFeeds
  PROVE  /\ InterFeeds(fs, gs) \in AnyFeeds
         /\ \A n : FindFeed(InterFeeds(fs, gs), n) = FindFeed(fs, n) \cap FindFeed(gs, n)
<1> DEFINE common == [n \in DOMAIN fs \cap DOMAIN gs |-> UrlInter(gs[n], fs[n])]
<1>1. /\ DOMAIN fs \subseteq Names /\ fs \in [DOMAIN fs -> (SUBSET Addresses) \ {{}}]
      /\ DOMAIN gs \subseteq Names /\ gs \in [DOMAIN gs -> (SUBSET Addresses) \ {{}}]
  BY FeedsAreFunctions
<1>2. DOMAIN common \in SUBSET Names /\ \A n \in DOMAIN common : common[n] \in SUBSET Addresses
  BY <1>1 DEF UrlInter
<1>3. InterFeeds(fs, gs) = AddAll(NoFeeds, common, DOMAIN common)
  BY DEF InterFeeds
<1>4. /\ InterFeeds(fs, gs) \in AnyFeeds
      /\ \A n : FindFeed(InterFeeds(fs, gs), n)
                  = FindFeed(NoFeeds, n) \cup (IF n \in DOMAIN common THEN common[n] ELSE {})
  <2> DEFINE d == DOMAIN common
  <2>1. d \in SUBSET Names /\ \A n \in d : common[n] \in SUBSET Addresses
    BY <1>2
  <2>2. InterFeeds(fs, gs) = AddAll(NoFeeds, common, d)
    BY <1>3
  <2> HIDE DEF d
  <2>3. /\ InterFeeds(fs, gs) \in AnyFeeds
        /\ \A n : FindFeed(InterFeeds(fs, gs), n)
                    = FindFeed(NoFeeds, n) \cup (IF n \in d THEN common[n] ELSE {})
    <3> HIDE DEF common
    <3> QED
      BY <2>1, <2>2, AddAllAdds, NoFeedsAreFeeds
  <2> QED
    BY <2>3 DEF d
<1> QED
  BY <1>4, NoFeedsAreFeeds DEF FindFeed, UrlInter

\* Feeds of the same pairs are the same feeds.
LEMMA SamePairs ==
  ASSUME NEW fs \in AnyFeeds, NEW gs \in AnyFeeds, Pairs(fs) = Pairs(gs)
  PROVE  fs = gs
<1>1. /\ fs \in [DOMAIN fs -> (SUBSET Addresses) \ {{}}]
      /\ gs \in [DOMAIN gs -> (SUBSET Addresses) \ {{}}]
  BY FeedsAreFunctions
<1>2. ASSUME NEW n PROVE FindFeed(fs, n) = FindFeed(gs, n)
  <2>1. \A u : u \in FindFeed(fs, n) <=> u \in FindFeed(gs, n)
    BY PairIsFound
  <2> QED
    BY <2>1
<1>3. DOMAIN fs = DOMAIN gs
  <2>1. \A n : n \in DOMAIN fs <=> n \in DOMAIN gs
    BY <1>2, PairIsFound
  <2> QED
    BY <2>1
<1>4. \A n \in DOMAIN fs : fs[n] = gs[n]
  BY <1>2, <1>3 DEF FindFeed
<1> QED
  BY <1>1, <1>3, <1>4

LEMMA PairsAreFinite ==
  ASSUME NEW fs \in AnyFeeds
  PROVE  IsFiniteSet(Pairs(fs)) /\ Cardinality(Pairs(fs)) \in Nat
<1>1. IsFiniteSet(Names \X Addresses)
  BY FeedsAssumption, FS_Product
<1>2. IsFiniteSet(Pairs(fs))
  BY <1>1, PairIsFound, FS_Subset
<1> QED
  BY <1>2, FS_CardinalityType

\* The operations on feeds are those on sets of pairs of a name and a URL: no URL is lost or
\* invented when feeds of one name are merged, and feeds are found equal when they are
\* (feeds.cpp 365-560).
THEOREM FeedsArePairs == \A fs, gs \in AnyFeeds : FeedsAsPairs(fs, gs)
<1> SUFFICES ASSUME NEW fs \in AnyFeeds, NEW gs \in AnyFeeds
             PROVE  FeedsAsPairs(fs, gs)
  OBVIOUS
<1> DEFINE both == InterFeeds(fs, gs)
<1>1. Pairs(DiffFeeds(fs, gs)) = SymDiff(Pairs(fs), Pairs(gs))
  BY DiffIsDiff, PairIsFound DEF SymDiff
<1>2. Pairs(UnionFeeds(fs, gs)) = Pairs(fs) \cup Pairs(gs)
  BY UnionIsUnion, PairIsFound
<1>3. both \in AnyFeeds /\ Pairs(both) = Pairs(fs) \cap Pairs(gs)
  BY InterIsInter, PairIsFound
<1>4. ASSUME EqualFeeds(fs, gs) PROVE Pairs(fs) = Pairs(gs)
  <2>1. /\ Cardinality(Pairs(fs)) = Cardinality(Pairs(gs))
        /\ Cardinality(Pairs(fs) \cap Pairs(gs)) = Cardinality(Pairs(fs))
    BY <1>3, <1>4 DEF EqualFeeds, FeedsSize
  <2>2. IsFiniteSet(Pairs(fs)) /\ IsFiniteSet(Pairs(gs))
    BY PairsAreFinite
  <2>3. Pairs(fs) \cap Pairs(gs) = Pairs(fs)
    BY <2>1, <2>2, FS_Subset, FS_CardinalityType
  <2> QED
    BY <2>1, <2>2, <2>3, FS_Subset, FS_CardinalityType
<1>5. ASSUME Pairs(fs) = Pairs(gs) PROVE EqualFeeds(fs, gs)
  <2>1. fs = gs /\ both = fs
    BY <1>3, <1>5, SamePairs
  <2> QED
    BY <2>1 DEF EqualFeeds
<1> QED
  BY <1>1, <1>2, <1>3, <1>4, <1>5 DEF FeedsAsPairs

-----------------------------------------------------------------------------
(* Searches that expand a context: the inductive invariant.                *)

Places == {"idle", "ack", "create", "generate", "catchup", "forward", "expand", "unlock",
           "signal", "failed", "finish"}
WithFeeds == {"create", "generate", "catchup", "forward", "expand", "unlock"}
WorkerPlaces == {"none", "over", "fetch", "fill", "wait", "blocked", "woken", "rank",
                 "ranking"}

ExpansionTypes ==
    /\ engines \in AnyFeeds /\ pages \in Int /\ pages <= MaxExpansions
    /\ skipped \in BOOLEAN /\ renewed \in BOOLEAN
    /\ held \in Calls \cup {NOCALL} /\ ack \in Calls \cup {NOCALL}
    /\ estimator \in {NOCALL} \cup (Calls \X Workers)
    /\ at \in [Calls -> Places]
    /\ req \in [Calls -> Searches \cup {NoRequest}]
    /\ err \in [Calls -> {"ok", "params", "output"}]
    /\ page \in [Calls -> Int]
    /\ pers \in [Calls -> {"none", "begun", "joining", "done"}]
    /\ worker \in [Calls -> [Workers -> WorkerPlaces]]

\* Who holds the context and the mutex of the feeds, and for whom the horizon is no number.
ContextHeld ==
    \A c \in Calls :
        /\ at[c] \notin {"idle", "failed"} => held = c
        /\ at[c] \in WithFeeds => ack = c
        /\ at[c] \in {"catchup", "forward", "expand"} => req[c].horizon # BAD
        /\ at[c] = "failed" \/ err[c] = "params" => req[c].horizon = BAD
        /\ at[c] \in WithFeeds \cup {"ack"} => req[c] \in Searches
        /\ at[c] = "create" => req[c].prs
        /\ at[c] \in {"idle", "ack", "create", "generate"} => err[c] = "ok"

\* A search has a personalisation thread from its creation to the join; that one has
\* threads of its own while it joins them.
ThreadsCovered ==
    \A c \in Calls :
        /\ pers[c] # "none" => /\ req[c].prs
                               /\ at[c] \in (WithFeeds \ {"create"}) \cup {"signal", "failed"}
        /\ pers[c] # "joining" => \A w \in Workers : worker[c][w] \in {"none", "over"}

\* A thread that ranks holds the mutex of the estimators, unless that was made anew.
RankingHolds ==
    \A c \in Calls : \A w \in Workers :
        worker[c][w] = "ranking" => renewed \/ estimator = <<c, w>>

\* Who holds the mutex of the estimators ranks.
EstimatorHolds == estimator = NOCALL \/ worker[estimator[1]][estimator[2]] = "ranking"

\* All engines are among the seen ones for the pages below n.
AskedIn(seen, fs, n) ==
    \A e \in DOMAIN fs \ {SEEKS, DUMMY} : \A u \in fs[e] : \A p \in 0 .. n - 1 : <<e, u, p>> \in seen

\* What the context claims was asked for, and what the loops of expand have done so far.
PagesCovered ==
    \/ skipped
    \/ /\ AskedIn(asked, engines, pages)
       /\ \A c \in Calls :
            /\ at[c] = "catchup" => AskedIn(asked, Missing(c), page[c])
            /\ at[c] = "expand" /\ req[c].ccheck # "yes" => AskedIn(asked, engines, page[c])

ExpansionInv == /\ ExpansionTypes /\ ContextHeld /\ ThreadsCovered /\ RanksAfterFeeds
                /\ RankingHolds /\ EstimatorHolds /\ PagesCovered

\* The steps of the specification, one by one.
LEMMA ExpansionActions ==
  ASSUME [ExpansionNext]_expansionVars
  PROVE  \/ \E c \in Calls : \/ LockContext(c) \/ LockFeeds(c) \/ Create(c) \/ CreateFails(c)
                             \/ Generate(c) \/ CatchUp(c) \/ Forward(c) \/ Expand(c)
                             \/ UnlockFeeds(c) \/ Broadcast(c) \/ Joined(c) \/ Finish(c)
                             \/ Launch(c) \/ Join(c)
         \/ \E c \in Calls, w \in Workers :
                \/ Fetch(c, w) \/ Fill(c, w) \/ Wait(c, w) \/ Spurious(c, w)
                \/ Resume(c, w) \/ Rank(c, w) \/ Ranked(c, w)
         \/ OtherEstimator
         \/ UNCHANGED expansionVars
BY Zenon DEF ExpansionNext, ExpansionStep, GoesOn, PersStep, WorkerStep

\* Without more than one URL, and with one feed, there is nothing but that feed.
LEMMA OnlyOneFeed ==
  ASSUME NEW fs \in AnyFeeds, NEW name, HasFeed(fs, name), ~(FeedsSize(fs) > 1)
  PROVE  DOMAIN fs \ {name} = {}
<1>1. name \in DOMAIN fs /\ Cardinality(Pairs(fs)) <= 1
  BY PairsAreFinite DEF FeedsSize, HasFeed
<1>2. PICK u : u \in FindFeed(fs, name)
  BY <1>1, PairIsFound
<1> DEFINE one == {<<name, u>>}
<1>3. one \in SUBSET Pairs(fs) /\ Cardinality(one) = 1
  <2>1. <<name, u>> \in Pairs(fs)
    BY <1>2, PairIsFound
  <2>2. Cardinality({<<name, u>>}) = 1
    BY FS_Singleton
  <2> QED
    BY <2>1, <2>2
<1>4. IsFiniteSet(Pairs(fs)) /\ Cardinality(Pairs(fs)) \in Nat
  BY PairsAreFinite
<1> HIDE DEF one
<1>5. Cardinality(one) <= Cardinality(Pairs(fs))
  BY <1>3, <1>4, FS_Subset
<1>6. Cardinality(one) = Cardinality(Pairs(fs))
  BY <1>1, <1>3, <1>4, <1>5
<1>7. Pairs(fs) = one
  BY <1>3, <1>4, <1>6, FS_Subset
<1>8. ASSUME NEW n \in DOMAIN fs, n # name PROVE FALSE
  <2>1. PICK v : v \in FindFeed(fs, n)
    BY PairIsFound
  <2>2. <<n, v>> \in Pairs(fs)
    BY <2>1, PairIsFound
  <2> QED
    BY <2>2, <1>7, <1>8 DEF one
<1> QED
  BY <1>8

\* What is not fetched has no engine (query_context.cpp 311, 339).
LEMMA NothingToFetch ==
  ASSUME NEW fs \in AnyFeeds, ~NeedsCatchUp(fs) \/ ~NeedsFetch(fs)
  PROVE  DOMAIN fs \ {SEEKS, DUMMY} = {}
<1>1. CASE HasFeed(fs, SEEKS) /\ ~(FeedsSize(fs) > 1)
  BY <1>1, OnlyOneFeed
<1>2. CASE HasFeed(fs, DUMMY) /\ ~(FeedsSize(fs) > 1)
  BY <1>2, OnlyOneFeed
<1> QED
  BY <1>1, <1>2 DEF NeedsCatchUp, NeedsFetch

\* The difference that expand takes twice is what was asked for.
LEMMA MissingIsRequested ==
  ASSUME NEW c \in Calls, engines \in AnyFeeds, req[c].engines \in AnyFeeds
  PROVE  Missing(c) = req[c].engines
<1> DEFINE d == DiffFeeds(engines, req[c].engines)
<1>1. d \in AnyFeeds /\ Pairs(d) = SymDiff(Pairs(engines), Pairs(req[c].engines))
  BY DiffIsDiff, FeedsArePairs DEF FeedsAsPairs
<1>2. /\ Missing(c) \in AnyFeeds
      /\ Pairs(Missing(c)) = SymDiff(Pairs(engines), Pairs(d))
  <2>1. Missing(c) = DiffFeeds(engines, d)
    BY DEF Missing, Lacking
  <2> QED
    BY <1>1, <2>1, DiffIsDiff, FeedsArePairs DEF FeedsAsPairs
<1>3. Pairs(Missing(c)) = Pairs(req[c].engines)
  BY <1>1, <1>2 DEF SymDiff
<1> QED
  BY <1>2, <1>3, SamePairs

\* What expand makes of the feeds of the context is the union with those missing.
LEMMA UnitedIsUnion ==
  \A fs, gs \in AnyFeeds : United[fs][gs] = UnionFeeds(fs, gs)
BY DEF United

\* What was asked of two sets of feeds was asked of their union.
LEMMA AskedOfUnion ==
  ASSUME NEW fs \in AnyFeeds, NEW gs \in AnyFeeds, NEW n \in Int,
         AskedIn(asked, fs, n), AskedIn(asked, gs, n)
  PROVE  AskedIn(asked, UnionFeeds(fs, gs), n)
<1> DEFINE both == UnionFeeds(fs, gs)
<1>1. both \in AnyFeeds /\ \A e : FindFeed(both, e) = FindFeed(fs, e) \cup FindFeed(gs, e)
  BY UnionIsUnion
<1> HIDE DEF both
<1>2. SUFFICES ASSUME NEW e \in DOMAIN both \ {SEEKS, DUMMY}, NEW u \in both[e], NEW p \in 0 .. n - 1
              PROVE  <<e, u, p>> \in asked
  BY DEF AskedIn, both
<1>3. u \in FindFeed(both, e)
  BY DEF FindFeed
<1>4. CASE u \in FindFeed(fs, e)
  BY <1>4 DEF FindFeed, AskedIn
<1>5. CASE u \in FindFeed(gs, e)
  BY <1>5 DEF FindFeed, AskedIn
<1> QED
  BY <1>1, <1>3, <1>4, <1>5

\* A page of a loop of expand.
LEMMA PageAsked ==
  ASSUME NEW c \in Calls, NEW fs \in AnyFeeds, page[c] \in Int, AskedIn(asked, fs, page[c]),
         asked' = asked \cup {<<u.feed, u.url, page[c]>> : u \in UrlsAsked(fs)}
  PROVE  AskedIn(asked', fs, page[c] + 1)
<1> SUFFICES ASSUME NEW e \in DOMAIN fs \ {SEEKS, DUMMY}, NEW u \in fs[e], NEW p \in 0 .. page[c]
             PROVE  <<e, u, p>> \in asked'
  <2> DEFINE n == page[c] + 1
  <2>1. 0 .. n - 1 = 0 .. page[c]
    OBVIOUS
  <2> HIDE DEF n
  <2>2. AskedIn(asked', fs, n)
    BY <2>1 DEF AskedIn
  <2> QED
    BY <2>2 DEF n
<1>1. CASE p = page[c]
  <2>1. [feed |-> e, url |-> u] \in UrlsAsked(fs)
    BY DEF UrlsAsked
  <2> QED
    BY <1>1, <2>1
<1>2. CASE p # page[c]
  <2>1. p \in 0 .. page[c] - 1
    BY <1>2
  <2> QED
    BY <2>1 DEF AskedIn
<1> QED
  BY <1>1, <1>2

\* A step of the search c leaves the other searches where they are.
Moved(c) ==
    /\ at' \in [Calls -> Places] /\ req' \in [Calls -> Searches \cup {NoRequest}]
    /\ err' \in [Calls -> {"ok", "params", "output"}] /\ page' \in [Calls -> Int]
    /\ \A d \in Calls \ {c} : /\ at'[d] = at[d] /\ req'[d] = req[d]
                              /\ err'[d] = err[d] /\ page'[d] = page[d]

LEMMA PageMoves ==
  ASSUME ExpansionTypes, NEW c \in Calls, NEW fs, AskPage(c, fs), UNCHANGED req
  PROVE  Moved(c)
<1> USE DEF ExpansionTypes, Moved, Places
<1>1. CASE page' = [page EXCEPT ![c] = @ + 1] /\ UNCHANGED <<at, err>>
  BY <1>1
<1>2. CASE err' = [err EXCEPT ![c] = "output"] /\ Goto(c, "unlock") /\ UNCHANGED page
  BY <1>2 DEF Goto
<1> QED
  BY <1>1, <1>2 DEF AskPage

LEMMA SearchMoves ==
  ASSUME ExpansionTypes, NEW c \in Calls, GoesOn(c) \/ LockContext(c) \/ PersStep(c)
  PROVE  Moved(c)
<1> USE DEF ExpansionTypes, Moved, Places, fetchVars, persVars, Goto, Ends
<1>1. CASE LockContext(c)
  BY <1>1 DEF LockContext
<1>2. CASE LockFeeds(c) \/ Create(c) \/ CreateFails(c)
  <2>1. CASE LockFeeds(c)
    BY <2>1 DEF LockFeeds
  <2>2. CASE Create(c)
    BY <2>2 DEF Create
  <2>3. CASE CreateFails(c)
    BY <2>3 DEF CreateFails
  <2> QED
    BY <1>2, <2>1, <2>2, <2>3
<1>3. CASE Generate(c)
  <2>1. page' = [page EXCEPT ![c] = 0] /\ UNCHANGED req
    BY <1>3 DEF Generate
  <2>2. \E p \in Places : Goto(c, p)
    BY <1>3 DEF Generate
  <2>3. UNCHANGED err \/ err' = [err EXCEPT ![c] = "params"]
    BY <1>3 DEF Generate
  <2> QED
    BY <2>1, <2>2, <2>3
<1>4. CASE CatchUp(c)
  <2>1. CASE AskPage(c, Missing(c))
    BY <1>4, <2>1, PageMoves DEF CatchUp
  <2>2. CASE Goto(c, "forward") /\ UNCHANGED <<asked, page, err>>
    BY <1>4, <2>2 DEF CatchUp
  <2> QED
    BY <1>4, <2>1, <2>2 DEF CatchUp
<1>5. CASE Forward(c)
  <2>1. UNCHANGED <<req, err>> /\ \E p \in Places : Goto(c, p)
    BY <1>5 DEF Forward
  <2>2. \/ UNCHANGED page
        \/ page' = [page EXCEPT ![c] = pages]
        \/ page' = [page EXCEPT ![c] = 0]
    BY <1>5 DEF Forward
  <2>3. page' \in [Calls -> Int] /\ \A d \in Calls \ {c} : page'[d] = page[d]
    BY <2>2
  <2> QED
    BY <2>1, <2>3, ZenonT(30)
<1>6. CASE Expand(c)
  <2>1. CASE AskPage(c, engines)
    BY <1>6, <2>1, PageMoves DEF Expand
  <2>2. CASE Goto(c, "unlock") /\ UNCHANGED <<asked, page, err>>
    BY <1>6, <2>2 DEF Expand
  <2> QED
    BY <1>6, <2>1, <2>2 DEF Expand
<1>7. CASE UnlockFeeds(c)
  <2>1. CASE Ends(c)
    BY <1>7, <2>1 DEF UnlockFeeds
  <2>2. CASE UNCHANGED <<req, err, page>> /\ \E p \in Places : Goto(c, p)
    BY <1>7, <2>2 DEF UnlockFeeds
  <2> QED
    BY <1>7, <2>1, <2>2 DEF UnlockFeeds
<1>8. CASE Broadcast(c) \/ Launch(c) \/ Join(c)
  BY <1>8 DEF Broadcast, Launch, Join
<1>9. CASE Joined(c)
  <2>1. CASE Ends(c)
    BY <1>9, <2>1 DEF Joined
  <2>2. CASE UNCHANGED <<req, err, page>> /\ Goto(c, "finish")
    BY <1>9, <2>2 DEF Joined
  <2> QED
    BY <1>9, <2>1, <2>2 DEF Joined
<1>10. CASE Finish(c)
  BY <1>10 DEF Finish
<1> QED
  BY <1>1, <1>2, <1>3, <1>4, <1>5, <1>6, <1>7, <1>8, <1>9, <1>10 DEF GoesOn, PersStep

\* What a thread of a search does by itself: it goes to rank only without the feeds being
\* held, and ranks with the mutex of the estimators.
WorkerMoved(c, w) ==
    /\ UNCHANGED <<engines, pages, asked, skipped, left, held, ack, at, req, err, page, pers>>
    /\ UNCHANGED renewed
    /\ worker' \in [Calls -> [Workers -> WorkerPlaces]]
    /\ \A d \in Calls : \A v \in Workers : d # c \/ v # w => worker'[d][v] = worker[d][v]
    /\ worker[c][w] \notin {"none", "over"}
    /\ worker'[c][w] = "rank" => ack = NOCALL
    /\ \/ /\ UNCHANGED estimator /\ worker[c][w] # "ranking" /\ worker'[c][w] # "ranking"
       \/ worker[c][w] = "ranking" /\ worker'[c][w] = "over" /\ estimator' = NOCALL
       \/ /\ worker[c][w] = "rank" /\ worker'[c][w] = "ranking"
          /\ estimator = NOCALL /\ estimator' = <<c, w>>

LEMMA WorkerMoves ==
  ASSUME ExpansionTypes, NEW c \in Calls, NEW w \in Workers, WorkerStep(c, w) \/ Spurious(c, w)
  PROVE  WorkerMoved(c, w)
<1>1. PICK p \in WorkerPlaces : WorkerGoes(c, w, p)
  BY DEF WorkerStep, Fetch, Fill, Wait, Spurious, Resume, Rank, Ranked, WorkerPlaces
<1>2. /\ worker' \in [Calls -> [Workers -> WorkerPlaces]] /\ worker'[c][w] = p
      /\ \A d \in Calls : \A v \in Workers : d # c \/ v # w => worker'[d][v] = worker[d][v]
  BY <1>1 DEF ExpansionTypes, WorkerGoes
<1>3. UNCHANGED <<otherVars, renewed>>
  BY DEF WorkerStep, Fetch, Fill, Wait, Spurious, Resume, Rank, Ranked, otherVars
<1>4. \A q : WorkerGoes(c, w, q) => worker'[c][w] = q
  BY DEF ExpansionTypes, WorkerGoes
<1>5. /\ worker[c][w] \notin {"none", "over"}
      /\ worker'[c][w] = "rank" => ack = NOCALL
      /\ \/ /\ UNCHANGED estimator /\ worker[c][w] # "ranking" /\ worker'[c][w] # "ranking"
         \/ worker[c][w] = "ranking" /\ worker'[c][w] = "over" /\ estimator' = NOCALL
         \/ /\ worker[c][w] = "rank" /\ worker'[c][w] = "ranking"
            /\ estimator = NOCALL /\ estimator' = <<c, w>>
  <2>1. CASE Fetch(c, w)
    BY <2>1, <1>4 DEF Fetch
  <2>2. CASE Fill(c, w)
    BY <2>2, <1>4 DEF Fill
  <2>3. CASE Wait(c, w)
    BY <2>3, <1>4 DEF Wait
  <2>4. CASE Resume(c, w)
    BY <2>4, <1>4 DEF Resume
  <2>5. CASE Rank(c, w)
    BY <2>5, <1>4 DEF Rank, EstimatorFree
  <2>6. CASE Ranked(c, w)
    BY <2>6, <1>4 DEF Ranked
  <2>7. CASE Spurious(c, w)
    BY <2>7, <1>4 DEF Spurious, Blocked
  <2> QED
    BY <2>1, <2>2, <2>3, <2>4, <2>5, <2>6, <2>7 DEF WorkerStep
<1> QED
  BY <1>2, <1>3, <1>5 DEF WorkerMoved, otherVars, fetchVars

\* The steps of a search that leave its threads alone.
PlainStep(c) == \/ LockContext(c) \/ LockFeeds(c) \/ CreateFails(c) \/ Generate(c) \/ CatchUp(c)
                \/ Forward(c) \/ Expand(c) \/ UnlockFeeds(c) \/ Finish(c)

LEMMA PlainMoves ==
  ASSUME ExpansionTypes, ContextHeld, ThreadsCovered, NEW c \in Calls, PlainStep(c)
  PROVE  /\ UNCHANGED persVars
         /\ at[c] \notin {"signal", "failed"}
         /\ pers[c] # "none" => /\ req'[c].prs
                                /\ at'[c] \in (WithFeeds \ {"create"}) \cup {"signal", "failed"}
<1> USE DEF ContextHeld, ThreadsCovered, ExpansionTypes, WithFeeds, Goto
<1>1. UNCHANGED persVars
  BY DEF PlainStep, LockContext, LockFeeds, CreateFails, Generate, CatchUp, Forward, Expand,
     UnlockFeeds, Finish
<1>2. at[c] \notin {"signal", "failed"}
  BY DEF PlainStep, LockContext, LockFeeds, CreateFails, Generate, CatchUp, Forward, Expand,
     UnlockFeeds, Finish
<1>3. ASSUME pers[c] # "none"
      PROVE  /\ req'[c].prs
             /\ at'[c] \in (WithFeeds \ {"create"}) \cup {"signal", "failed"}
  <2>1. req[c].prs /\ at[c] \in WithFeeds \ {"create"}
    BY <1>2, <1>3
  <2>2. CASE Generate(c)
    BY <2>1, <2>2 DEF Generate
  <2>3. CASE CatchUp(c)
    BY <2>1, <2>3 DEF CatchUp, AskPage
  <2>4. CASE Forward(c)
    <3>1. UNCHANGED req /\ \E p \in {"unlock", "expand"} : Goto(c, p)
      BY <2>4 DEF Forward
    <3> QED
      BY <2>1, <3>1
  <2>5. CASE Expand(c)
    BY <2>1, <2>5 DEF Expand, AskPage
  <2>6. CASE UnlockFeeds(c)
    BY <2>1, <2>6 DEF UnlockFeeds
  <2> QED
    BY <2>1, <2>2, <2>3, <2>4, <2>5, <2>6 DEF PlainStep, LockContext, LockFeeds, CreateFails,
       Finish
<1> QED
  BY <1>1, <1>2, <1>3

\* The steps of the specification, by what they move.
LEMMA ExpansionKinds ==
  ASSUME [ExpansionNext]_expansionVars
  PROVE  \/ \E c \in Calls : PlainStep(c) \/ Create(c) \/ Broadcast(c) \/ Joined(c)
                             \/ Launch(c) \/ Join(c)
         \/ \E c \in Calls, w \in Workers : WorkerStep(c, w) \/ Spurious(c, w)
         \/ OtherEstimator
         \/ UNCHANGED expansionVars
BY ExpansionActions, Zenon DEF PlainStep, WorkerStep

LEMMA ConstantTypes ==
  /\ MaxExpansions \in Int
  /\ NOCALL \notin Calls
  /\ NOCALL \notin Calls \X Workers
  /\ \A s \in Searches : s.engines \in AnyFeeds /\ s.horizon \in Int \cup {BAD}
<1>1. MaxExpansions \in Int
  <2>1. MaxExpansions \in Nat \ {0}
    BY Zenon, ExpansionAssumption
  <2> QED
    BY <2>1
<1>2. NOCALL \notin Calls
  BY ExpansionAssumption
<1>3. NOCALL \notin Calls \X Workers
  BY ExpansionAssumption
<1>4. \A s \in Searches : s.engines \in AnyFeeds /\ s.horizon \in Int \cup {BAD}
  BY ExpansionAssumption
<1> QED
  BY <1>1, <1>2, <1>3, <1>4

\* Every step keeps the variables in their types.
LEMMA ExpansionTypesStep ==
  ASSUME ExpansionTypes, ContextHeld, [ExpansionNext]_expansionVars
  PROVE  ExpansionTypes'
<1> USE DEF ExpansionTypes, fetchVars, persVars
<1>1. ASSUME NEW c \in Calls,
             LockContext(c) \/ LockFeeds(c) \/ CreateFails(c) \/ Generate(c) \/ Forward(c)
      PROVE  ExpansionTypes'
  <2>1. Moved(c)
    BY <1>1, SearchMoves DEF GoesOn
  <2>2. /\ UNCHANGED <<fetchVars, persVars>>
        /\ held' \in {held, c, NOCALL} /\ ack' \in {ack, c, NOCALL}
    BY <1>1 DEF LockContext, LockFeeds, CreateFails, Generate, Forward
  <2> QED
    BY <2>1, <2>2 DEF Moved
<1>2. ASSUME NEW c \in Calls, CatchUp(c) PROVE ExpansionTypes'
  <2>1. Moved(c)
    BY <1>2, SearchMoves DEF GoesOn
  <2>2. engines' \in AnyFeeds
    <3>1. at[c] = "catchup" /\ req[c] \in Searches
      BY <1>2 DEF CatchUp, ContextHeld, WithFeeds
    <3>2. req[c].engines \in AnyFeeds
      BY <3>1, ConstantTypes
    <3>3. Missing(c) \in AnyFeeds
      BY <3>2, MissingIsRequested
    <3>4. UnionFeeds(engines, Missing(c)) \in AnyFeeds
      BY <3>3, UnionIsUnion
    <3>5. engines' = engines \/ engines' = UnionFeeds(engines, Missing(c))
      BY <1>2, <3>3, UnitedIsUnion DEF CatchUp
    <3> QED
      BY <3>4, <3>5
  <2>3. UNCHANGED <<pages, skipped, held, ack, persVars>>
    BY <1>2 DEF CatchUp
  <2> QED
    BY <2>1, <2>2, <2>3 DEF Moved
<1>3. ASSUME NEW c \in Calls, Expand(c) PROVE ExpansionTypes'
  <2>1. Moved(c)
    BY <1>3, SearchMoves DEF GoesOn
  <2>2. Horizon(c) \in Int /\ Horizon(c) <= MaxExpansions
    <3>1. req[c] \in Searches /\ req[c].horizon # BAD
      BY <1>3 DEF Expand, ContextHeld, WithFeeds
    <3>2. req[c].horizon \in Int
      BY <3>1, ConstantTypes
    <3>3. MaxExpansions \in Int
      BY ConstantTypes
    <3> QED
      BY <3>2, <3>3 DEF Horizon
  <2>3. UNCHANGED <<engines, held, ack, persVars>> /\ pages' \in {pages, Horizon(c)}
    BY <1>3 DEF Expand
  <2>4. skipped' \in BOOLEAN
    BY <1>3 DEF Expand
  <2> QED
    BY <2>1, <2>2, <2>3, <2>4 DEF Moved
<1>4. ASSUME NEW c \in Calls, UnlockFeeds(c) \/ Finish(c) PROVE ExpansionTypes'
  <2>1. Moved(c)
    BY <1>4, SearchMoves DEF GoesOn
  <2>2. /\ UNCHANGED <<fetchVars, persVars>>
        /\ held' \in {held, NOCALL} /\ ack' \in {ack, NOCALL}
    BY <1>4 DEF UnlockFeeds, Finish
  <2> QED
    BY <2>1, <2>2 DEF Moved
<1>5. ASSUME NEW c \in Calls, Create(c) \/ Broadcast(c) \/ Joined(c) \/ Launch(c) \/ Join(c)
      PROVE  ExpansionTypes'
  <2>1. Moved(c)
    BY <1>5, SearchMoves DEF GoesOn, PersStep
  <2>2. UNCHANGED <<fetchVars, held, ack>>
    BY <1>5 DEF Create, Broadcast, Joined, Launch, Join
  <2>3. /\ estimator' \in {estimator, NOCALL} /\ renewed' \in BOOLEAN
        /\ pers' \in [Calls -> {"none", "begun", "joining", "done"}]
    BY <1>5 DEF Create, Broadcast, Joined, Launch, Join
  <2>4. worker' \in [Calls -> [Workers -> WorkerPlaces]]
    <3>1. CASE Create(c) \/ Join(c)
      BY <3>1 DEF Create, Join
    <3>2. CASE Broadcast(c)
      BY <3>2 DEF Broadcast, WorkerPlaces
    <3>3. CASE Joined(c)
      BY <3>3 DEF Joined, WorkerPlaces
    <3>4. CASE Launch(c)
      BY <3>4 DEF Launch, WorkerPlaces
    <3> QED
      BY <1>5, <3>1, <3>2, <3>3, <3>4
  <2> QED
    BY <2>1, <2>2, <2>3, <2>4 DEF Moved
<1>6. ASSUME NEW c \in Calls, NEW w \in Workers, WorkerStep(c, w) \/ Spurious(c, w)
      PROVE  ExpansionTypes'
  <2>1. WorkerMoved(c, w)
    BY <1>6, WorkerMoves
  <2>2. estimator' \in {NOCALL} \cup (Calls \X Workers)
    BY <2>1 DEF WorkerMoved
  <2> QED
    BY <2>1, <2>2 DEF WorkerMoved
<1>7. CASE OtherEstimator
  BY <1>7 DEF OtherEstimator, otherVars
<1>8. CASE UNCHANGED expansionVars
  BY <1>8 DEF expansionVars
<1> QED
  BY ExpansionKinds, <1>1, <1>2, <1>3, <1>4, <1>5, <1>6, <1>7, <1>8 DEF PlainStep

\* Every step keeps who holds the context and the feeds.
LEMMA ContextHeldStep ==
  ASSUME ExpansionTypes, ContextHeld, ThreadsCovered, [ExpansionNext]_expansionVars
  PROVE  ContextHeld'
<1> USE DEF ExpansionTypes, ContextHeld, WithFeeds
<1>0. NOCALL \notin Calls
  BY ConstantTypes
<1>1. ASSUME NEW c \in Calls, LockContext(c) PROVE ContextHeld'
  <2>1. /\ Moved(c) /\ held = NOCALL /\ held' = c /\ at'[c] = "ack" /\ req'[c] \in Searches
        /\ ack' = ack /\ err'[c] = "ok"
    BY <1>1, SearchMoves DEF LockContext, Goto
  <2> QED
    BY <1>0, <2>1 DEF Moved
<1>2. ASSUME NEW c \in Calls, LockFeeds(c) PROVE ContextHeld'
  <2>1. /\ Moved(c) /\ held' = held /\ at[c] = "ack" /\ at'[c] \in {"create", "generate"}
        /\ req'[c] = req[c] /\ ack = NOCALL /\ ack' = c /\ err'[c] = err[c]
    BY <1>2, SearchMoves DEF GoesOn, LockFeeds, Goto
  <2>2. at'[c] = "create" => req[c].prs
    BY <1>2 DEF LockFeeds, Goto
  <2> QED
    BY <1>0, <2>1, <2>2 DEF Moved
<1>3. ASSUME NEW c \in Calls, Create(c) PROVE ContextHeld'
  <2>1. /\ Moved(c) /\ UNCHANGED <<held, ack>> /\ at[c] = "create" /\ at'[c] = "generate"
        /\ req'[c] = req[c] /\ err'[c] = err[c]
    BY <1>3, SearchMoves DEF GoesOn, Create, Goto
  <2> QED
    BY <2>1 DEF Moved
<1>4. ASSUME NEW c \in Calls, CreateFails(c) \/ Finish(c) PROVE ContextHeld'
  <2>1. /\ Moved(c) /\ at[c] \in {"create", "finish"} /\ at'[c] = "idle" /\ err'[c] = "ok"
        /\ held' = NOCALL /\ (at[c] = "create" => ack' = NOCALL)
        /\ (at[c] = "finish" => ack' = ack)
    BY <1>4, SearchMoves DEF GoesOn, CreateFails, Finish, Ends
  <2>2. \A d \in Calls \ {c} : at[d] \in {"idle", "failed"}
    BY <2>1
  <2> QED
    BY <2>1, <2>2 DEF Moved
<1>5. ASSUME NEW c \in Calls, Generate(c) PROVE ContextHeld'
  <2>1. Moved(c) /\ UNCHANGED <<held, ack>> /\ at[c] = "generate" /\ req'[c] = req[c]
    BY <1>5, SearchMoves DEF GoesOn, Generate
  <2>2. CASE req[c].horizon = BAD
    <3>1. err'[c] = "params" /\ at'[c] = "unlock"
      BY <1>5, <2>2 DEF Generate, Goto
    <3> QED
      BY <2>1, <2>2, <3>1 DEF Moved
  <2>3. CASE req[c].horizon # BAD
    <3>1. UNCHANGED err /\ \E p \in {"catchup", "forward"} : Goto(c, p)
      BY <1>5, <2>3 DEF Generate
    <3>2. at'[c] \in {"catchup", "forward"}
      BY <3>1 DEF Goto
    <3> QED
      BY <2>1, <2>3, <3>1, <3>2 DEF Moved
  <2> QED
    BY <2>2, <2>3
<1>6. ASSUME NEW c \in Calls, CatchUp(c) PROVE ContextHeld'
  <2>1. /\ Moved(c) /\ UNCHANGED <<held, ack>> /\ at[c] = "catchup" /\ req'[c] = req[c]
        /\ at'[c] \in {"catchup", "forward", "unlock"} /\ err'[c] \in {err[c], "output"}
    BY <1>6, SearchMoves DEF GoesOn, CatchUp, AskPage, Goto
  <2> QED
    BY <2>1 DEF Moved
<1>7. ASSUME NEW c \in Calls, Forward(c) PROVE ContextHeld'
  <2>1. /\ Moved(c) /\ UNCHANGED <<held, ack>> /\ at[c] = "forward" /\ req'[c] = req[c]
        /\ err'[c] = err[c] /\ \E p \in {"unlock", "expand"} : Goto(c, p)
    BY <1>7, SearchMoves DEF GoesOn, Forward
  <2>2. at'[c] \in {"unlock", "expand"}
    BY <2>1 DEF Goto
  <2> QED
    BY <2>1, <2>2 DEF Moved
<1>8. ASSUME NEW c \in Calls, Expand(c) PROVE ContextHeld'
  <2>1. /\ Moved(c) /\ UNCHANGED <<held, ack>> /\ at[c] = "expand" /\ req'[c] = req[c]
        /\ at'[c] \in {"expand", "unlock"} /\ err'[c] \in {err[c], "output"}
    BY <1>8, SearchMoves DEF GoesOn, Expand, AskPage, Goto
  <2> QED
    BY <2>1 DEF Moved
<1>9. ASSUME NEW c \in Calls, UnlockFeeds(c) PROVE ContextHeld'
  <2>1. Moved(c) /\ at[c] = "unlock" /\ ack' = NOCALL
    BY <1>9, SearchMoves DEF GoesOn, UnlockFeeds
  <2>2. \A d \in Calls \ {c} : at[d] \in {"idle", "failed"}
    BY <2>1
  <2>3. CASE Ends(c)
    BY <2>1, <2>2, <2>3 DEF Moved, Ends
  <2>4. CASE err[c] = "params" /\ Goto(c, "failed") /\ UNCHANGED <<req, err, page>>
    BY <2>1, <2>2, <2>4 DEF Moved, Goto
  <2>5. CASE /\ \E p \in {"signal", "finish"} : Goto(c, p)
             /\ UNCHANGED <<held, req, err, page>>
    <3>1. at'[c] \in {"signal", "finish"}
      BY <2>5 DEF Goto
    <3> QED
      BY <2>1, <2>2, <2>5, <3>1 DEF Moved
  <2> QED
    BY <1>9, <2>3, <2>4, <2>5 DEF UnlockFeeds
<1>10. ASSUME NEW c \in Calls, Broadcast(c) \/ Launch(c) \/ Join(c) PROVE ContextHeld'
  BY <1>10 DEF Broadcast, Launch, Join
<1>11. ASSUME NEW c \in Calls, Joined(c) PROVE ContextHeld'
  <2>1. /\ Moved(c) /\ UNCHANGED <<held, ack>>
        /\ \/ at[c] = "signal" /\ at'[c] = "finish" /\ req'[c] = req[c] /\ err'[c] = err[c]
           \/ at[c] = "failed" /\ at'[c] = "idle" /\ err'[c] = "ok"
    BY <1>11, SearchMoves, ZenonT(30) DEF GoesOn, Joined, Goto, Ends
  <2> QED
    BY <2>1 DEF Moved
<1>12. ASSUME NEW c \in Calls, NEW w \in Workers, WorkerStep(c, w) \/ Spurious(c, w)
       PROVE  ContextHeld'
  BY <1>12, WorkerMoves DEF WorkerMoved
<1>13. CASE OtherEstimator
  BY <1>13 DEF OtherEstimator, otherVars
<1>14. CASE UNCHANGED expansionVars
  BY <1>14 DEF expansionVars
<1> QED
  BY ExpansionKinds, <1>1, <1>2, <1>3, <1>4, <1>5, <1>6, <1>7, <1>8, <1>9, <1>10, <1>11,
     <1>12, <1>13, <1>14 DEF PlainStep

\* Every step keeps the threads with their searches.
LEMMA ThreadsCoveredStep ==
  ASSUME ExpansionTypes, ContextHeld, ThreadsCovered, [ExpansionNext]_expansionVars
  PROVE  ThreadsCovered'
<1> USE DEF ExpansionTypes, ThreadsCovered, WithFeeds, persVars
<1>1. ASSUME NEW c \in Calls, PlainStep(c) PROVE ThreadsCovered'
  <2>1. Moved(c)
    BY <1>1, SearchMoves DEF PlainStep, GoesOn
  <2>2. /\ UNCHANGED <<pers, worker>>
        /\ pers[c] # "none" => /\ req'[c].prs
                               /\ at'[c] \in (WithFeeds \ {"create"}) \cup {"signal", "failed"}
    BY <1>1, PlainMoves
  <2> QED
    BY <2>1, <2>2 DEF Moved
<1>2. ASSUME NEW c \in Calls, Create(c) PROVE ThreadsCovered'
  <2>1. /\ Moved(c) /\ UNCHANGED worker /\ at[c] = "create" /\ at'[c] = "generate"
        /\ req'[c] = req[c] /\ pers' = [pers EXCEPT ![c] = "begun"]
    BY <1>2, SearchMoves, ZenonT(30) DEF GoesOn, Create, Goto
  <2>2. req[c].prs
    BY <2>1 DEF ContextHeld
  <2> QED
    BY <2>1, <2>2 DEF Moved
<1>3. ASSUME NEW c \in Calls, Broadcast(c) PROVE ThreadsCovered'
  <2>1. /\ UNCHANGED <<at, req, pers>>
        /\ \A d \in Calls : \A w \in Workers :
              worker'[d][w] = IF worker[d][w] = "blocked" THEN "woken" ELSE worker[d][w]
    BY <1>3 DEF Broadcast, Blocked
  <2> QED
    BY <2>1
<1>4. ASSUME NEW c \in Calls, Joined(c) PROVE ThreadsCovered'
  <2>1. /\ Moved(c) /\ pers' = [pers EXCEPT ![c] = "none"]
        /\ worker' = [worker EXCEPT ![c] = [w \in Workers |-> "none"]]
    BY <1>4, SearchMoves DEF GoesOn, Joined
  <2> QED
    BY <2>1 DEF Moved
<1>5. ASSUME NEW c \in Calls, Launch(c) PROVE ThreadsCovered'
  <2>1. UNCHANGED <<at, req>> /\ pers[c] = "begun" /\ pers' = [pers EXCEPT ![c] = "joining"]
    BY <1>5 DEF Launch
  <2>2. \A d \in Calls \ {c} : worker'[d] = worker[d]
    BY <1>5 DEF Launch
  <2> QED
    BY <2>1, <2>2
<1>6. ASSUME NEW c \in Calls, Join(c) PROVE ThreadsCovered'
  <2>1. /\ UNCHANGED <<at, req, worker>> /\ pers[c] = "joining"
        /\ pers' = [pers EXCEPT ![c] = "done"]
        /\ \A w \in Workers : worker[c][w] \in {"none", "over"}
    BY <1>6 DEF Join, AllOver, Active
  <2> QED
    BY <2>1
<1>7. ASSUME NEW c \in Calls, NEW w \in Workers, WorkerStep(c, w) \/ Spurious(c, w)
      PROVE  ThreadsCovered'
  <2>1. WorkerMoved(c, w)
    BY <1>7, WorkerMoves
  <2>2. pers[c] = "joining"
    BY <2>1 DEF WorkerMoved
  <2>3. /\ UNCHANGED <<at, req, pers>>
        /\ \A d \in Calls : \A v \in Workers : d # c \/ v # w => worker'[d][v] = worker[d][v]
    BY <2>1 DEF WorkerMoved
  <2> QED
    BY <2>2, <2>3
<1>8. CASE OtherEstimator
  BY <1>8 DEF OtherEstimator, otherVars
<1>9. CASE UNCHANGED expansionVars
  BY <1>9 DEF expansionVars
<1> QED
  BY ExpansionKinds, <1>1, <1>2, <1>3, <1>4, <1>5, <1>6, <1>7, <1>8, <1>9

\* A thread ranks after generate, because it takes the mutex of the feeds before.
LEMMA RanksStep ==
  ASSUME ExpansionTypes, ContextHeld, ThreadsCovered, RanksAfterFeeds,
         [ExpansionNext]_expansionVars
  PROVE  RanksAfterFeeds'
<1> USE DEF ExpansionTypes, RanksAfterFeeds, persVars
<1>1. ASSUME NEW c \in Calls, PlainStep(c) PROVE RanksAfterFeeds'
  <2>1. Moved(c)
    BY <1>1, SearchMoves DEF PlainStep, GoesOn
  <2>2. UNCHANGED <<pers, worker>> /\ at[c] \notin {"signal", "failed"}
    BY <1>1, PlainMoves
  <2> QED
    BY <2>1, <2>2 DEF Moved
<1>2. ASSUME NEW c \in Calls, Create(c) \/ Join(c) PROVE RanksAfterFeeds'
  <2>1. Moved(c) /\ UNCHANGED worker /\ (at[c] = "create" \/ at' = at)
    BY <1>2, SearchMoves DEF GoesOn, PersStep, Create, Join
  <2> QED
    BY <2>1 DEF Moved
<1>3. ASSUME NEW c \in Calls, Broadcast(c) PROVE RanksAfterFeeds'
  <2>1. /\ UNCHANGED at
        /\ \A d \in Calls : \A w \in Workers :
              worker'[d][w] = IF worker[d][w] = "blocked" THEN "woken" ELSE worker[d][w]
    BY <1>3 DEF Broadcast, Blocked
  <2> QED
    BY <2>1
<1>4. ASSUME NEW c \in Calls, Joined(c) PROVE RanksAfterFeeds'
  <2>1. Moved(c) /\ worker' = [worker EXCEPT ![c] = [w \in Workers |-> "none"]]
    BY <1>4, SearchMoves DEF GoesOn, Joined
  <2> QED
    BY <2>1 DEF Moved
<1>5. ASSUME NEW c \in Calls, Launch(c) PROVE RanksAfterFeeds'
  <2>1. /\ UNCHANGED at /\ \A w \in Workers : worker'[c][w] \in {"fetch", "over"}
        /\ \A d \in Calls \ {c} : worker'[d] = worker[d]
    BY <1>5 DEF Launch
  <2> QED
    BY <2>1
<1>6. ASSUME NEW c \in Calls, NEW w \in Workers, WorkerStep(c, w) \/ Spurious(c, w)
      PROVE  RanksAfterFeeds'
  <2>1. WorkerMoved(c, w)
    BY <1>6, WorkerMoves
  <2>2. ack = NOCALL /\ worker[c][w] \notin {"none", "over"} => at[c] \in {"signal", "failed"}
    <3>1. NOCALL \notin Calls
      BY ConstantTypes
    <3>2. ASSUME ack = NOCALL, worker[c][w] \notin {"none", "over"}
          PROVE  at[c] \in {"signal", "failed"}
      <4>1. pers[c] = "joining" /\ at[c] \notin WithFeeds
        BY <3>1, <3>2 DEF ThreadsCovered, ContextHeld
      <4> QED
        BY <4>1 DEF ThreadsCovered
    <3> QED
      BY <3>2
  <2> QED
    BY <2>1, <2>2, SMTT(30) DEF WorkerMoved
<1>7. CASE OtherEstimator
  BY <1>7 DEF OtherEstimator, otherVars
<1>8. CASE UNCHANGED expansionVars
  BY <1>8 DEF expansionVars
<1> QED
  BY ExpansionKinds, <1>1, <1>2, <1>3, <1>4, <1>5, <1>6, <1>7, <1>8

\* Every step keeps the mutex of the estimators with the thread that ranks.
LEMMA RankingStep ==
  ASSUME ExpansionTypes, RankingHolds, [ExpansionNext]_expansionVars
  PROVE  RankingHolds'
<1> USE DEF ExpansionTypes, RankingHolds, persVars
<1>0. NOCALL \notin Calls \X Workers
  BY ConstantTypes
<1>1. ASSUME NEW c \in Calls, PlainStep(c) \/ Create(c) \/ Join(c) PROVE RankingHolds'
  <2>1. UNCHANGED <<estimator, renewed, worker>>
    BY <1>1 DEF PlainStep, LockContext, LockFeeds, CreateFails, Generate, CatchUp, Forward,
       Expand, UnlockFeeds, Finish, Create, Join
  <2> QED
    BY <2>1
<1>2. ASSUME NEW c \in Calls, Broadcast(c) PROVE RankingHolds'
  <2>1. /\ UNCHANGED <<estimator, renewed>>
        /\ \A d \in Calls : \A w \in Workers :
              worker'[d][w] = IF worker[d][w] = "blocked" THEN "woken" ELSE worker[d][w]
    BY <1>2 DEF Broadcast, Blocked
  <2> QED
    BY <2>1
<1>3. ASSUME NEW c \in Calls, Joined(c) PROVE RankingHolds'
  <2>1. /\ UNCHANGED <<estimator, renewed>>
        /\ worker' = [worker EXCEPT ![c] = [w \in Workers |-> "none"]]
    BY <1>3 DEF Joined
  <2>2. \A w \in Workers : worker'[c][w] = "none"
    BY <2>1
  <2>3. \A d \in Calls \ {c} : worker'[d] = worker[d]
    BY <2>1
  <2> QED
    BY <2>1, <2>2, <2>3
<1>4. ASSUME NEW c \in Calls, Launch(c) PROVE RankingHolds'
  <2>1. /\ renewed' = (renewed \/ estimator # NOCALL)
        /\ \A w \in Workers : worker'[c][w] \in {"fetch", "over"}
        /\ \A d \in Calls \ {c} : worker'[d] = worker[d]
    BY <1>4 DEF Launch
  <2>2. ASSUME NEW d \in Calls, NEW w \in Workers, worker'[d][w] = "ranking"
        PROVE  renewed'
    <3>1. worker[d][w] = "ranking"
      BY <2>1, <2>2
    <3>2. renewed \/ estimator = <<d, w>>
      BY <3>1
    <3>3. <<d, w>> # NOCALL
      BY <1>0
    <3> QED
      BY <2>1, <3>2, <3>3
  <2> QED
    BY <2>2
<1>5. ASSUME NEW c \in Calls, NEW w \in Workers, WorkerStep(c, w) \/ Spurious(c, w)
      PROVE  RankingHolds'
  <2>1. WorkerMoved(c, w)
    BY <1>5, WorkerMoves
  <2> QED
    BY <1>0, <2>1 DEF WorkerMoved
<1>6. CASE OtherEstimator
  BY <1>6 DEF OtherEstimator
<1>7. CASE UNCHANGED expansionVars
  BY <1>7 DEF expansionVars
<1> QED
  BY ExpansionKinds, <1>1, <1>2, <1>3, <1>4, <1>5, <1>6, <1>7

\* Every step keeps the mutex of the estimators with a thread that ranks.
LEMMA EstimatorStep ==
  ASSUME ExpansionTypes, ThreadsCovered, EstimatorHolds, [ExpansionNext]_expansionVars
  PROVE  EstimatorHolds'
<1> USE DEF ExpansionTypes, EstimatorHolds, persVars
<1>0. NOCALL \notin Calls \X Workers
  BY ConstantTypes
<1>1. ASSUME NEW c \in Calls, PlainStep(c) \/ Create(c) \/ Join(c) PROVE EstimatorHolds'
  <2>1. UNCHANGED <<estimator, worker>>
    BY <1>1 DEF PlainStep, LockContext, LockFeeds, CreateFails, Generate, CatchUp, Forward,
       Expand, UnlockFeeds, Finish, Create, Join
  <2> QED
    BY <2>1
<1>2. ASSUME NEW c \in Calls, Broadcast(c) PROVE EstimatorHolds'
  <2>1. /\ UNCHANGED estimator
        /\ \A d \in Calls : \A w \in Workers :
              worker'[d][w] = IF worker[d][w] = "blocked" THEN "woken" ELSE worker[d][w]
    BY <1>2 DEF Broadcast, Blocked
  <2> QED
    BY <2>1
<1>3. ASSUME NEW c \in Calls, Joined(c) PROVE EstimatorHolds'
  <2>1. UNCHANGED estimator /\ pers[c] = "done" /\ \A d \in Calls \ {c} : worker'[d] = worker[d]
    BY <1>3 DEF Joined
  <2>2. \A w \in Workers : worker[c][w] # "ranking"
    BY <2>1 DEF ThreadsCovered
  <2> QED
    BY <2>1, <2>2
<1>4. ASSUME NEW c \in Calls, Launch(c) PROVE EstimatorHolds'
  BY <1>4 DEF Launch
<1>5. ASSUME NEW c \in Calls, NEW w \in Workers, WorkerStep(c, w) \/ Spurious(c, w)
      PROVE  EstimatorHolds'
  <2>1. WorkerMoved(c, w)
    BY <1>5, WorkerMoves
  <2>2. CASE UNCHANGED estimator /\ worker[c][w] # "ranking"
    <3> SUFFICES ASSUME estimator # NOCALL
                 PROVE  worker'[estimator[1]][estimator[2]] = "ranking"
      BY <2>2
    <3>1. PICK d \in Calls, v \in Workers : estimator = <<d, v>>
      OBVIOUS
    <3>2. worker[d][v] = "ranking"
      BY <3>1
    <3>3. worker'[d][v] = "ranking"
      BY <2>1, <2>2, <3>2 DEF WorkerMoved
    <3> QED
      BY <3>1, <3>3
  <2>3. CASE estimator' = NOCALL
    BY <2>3
  <2>4. CASE estimator' = <<c, w>> /\ worker'[c][w] = "ranking"
    BY <2>4
  <2> QED
    BY <2>1, <2>2, <2>3, <2>4 DEF WorkerMoved
<1>6. CASE OtherEstimator
  BY <1>6 DEF OtherEstimator
<1>7. CASE UNCHANGED expansionVars
  BY <1>7 DEF expansionVars
<1> QED
  BY ExpansionKinds, <1>1, <1>2, <1>3, <1>4, <1>5, <1>6, <1>7

\* What was seen for more pages, or before, was seen.
LEMMA AskedAlready ==
  ASSUME NEW seen, NEW now, seen \subseteq now, NEW fs, NEW n \in Int, NEW m \in Int, m <= n,
         AskedIn(seen, fs, n)
  PROVE  AskedIn(now, fs, m)
<1> SUFFICES ASSUME NEW e \in DOMAIN fs \ {SEEKS, DUMMY}, NEW u \in fs[e], NEW p \in 0 .. m - 1
             PROVE  <<e, u, p>> \in now
  BY DEF AskedIn
<1>1. p \in 0 .. n - 1
  OBVIOUS
<1> QED
  BY <1>1 DEF AskedIn

\* Without a page nothing has to be seen.
LEMMA NoPageBelow == \A seen, fs : AskedIn(seen, fs, 0)
BY DEF AskedIn

\* The steps of a search that fetches nothing.
LEMMA OthersFetchNothing ==
  ASSUME ExpansionTypes, [ExpansionNext]_expansionVars
  PROVE  \/ \E c \in Calls : Generate(c) \/ CatchUp(c) \/ Forward(c) \/ Expand(c)
         \/ /\ UNCHANGED fetchVars
            /\ \A c \in Calls : at'[c] \in {"catchup", "expand"} =>
                 at'[c] = at[c] /\ page'[c] = page[c] /\ req'[c] = req[c]
<1> USE DEF ExpansionTypes, fetchVars
<1>1. ASSUME NEW c \in Calls,
             \/ LockContext(c) \/ LockFeeds(c) \/ Create(c) \/ CreateFails(c)
             \/ UnlockFeeds(c) \/ Joined(c) \/ Finish(c)
      PROVE  /\ UNCHANGED fetchVars
             /\ \A d \in Calls : at'[d] \in {"catchup", "expand"} =>
                  at'[d] = at[d] /\ page'[d] = page[d] /\ req'[d] = req[d]
  <2>1. Moved(c)
    BY <1>1, SearchMoves DEF GoesOn
  <2>2. UNCHANGED fetchVars
    BY <1>1 DEF LockContext, LockFeeds, Create, CreateFails, UnlockFeeds, Joined, Finish
  <2>3. \E p \in {"ack", "create", "generate", "idle", "failed", "signal", "finish"} :
           at' = [at EXCEPT ![c] = p]
    BY <1>1 DEF LockContext, LockFeeds, Create, CreateFails, UnlockFeeds, Joined, Finish,
       Ends, Goto
  <2> QED
    BY <2>1, <2>2, <2>3 DEF Moved
<1>2. ASSUME NEW c \in Calls, Broadcast(c) \/ Launch(c) \/ Join(c)
      PROVE  UNCHANGED <<fetchVars, at, page, req>>
  BY <1>2 DEF Broadcast, Launch, Join
<1>3. ASSUME NEW c \in Calls, NEW w \in Workers, WorkerStep(c, w) \/ Spurious(c, w)
      PROVE  UNCHANGED <<fetchVars, at, page, req>>
  BY <1>3, WorkerMoves DEF WorkerMoved
<1>4. CASE OtherEstimator
  BY <1>4 DEF OtherEstimator, otherVars
<1>5. CASE UNCHANGED expansionVars
  BY <1>5 DEF expansionVars
<1> QED
  BY ExpansionKinds, <1>1, <1>2, <1>3, <1>4, <1>5 DEF PlainStep

\* Every step keeps what the context claims to cover covered.
LEMMA PagesStep ==
  ASSUME ExpansionTypes, ContextHeld, PagesCovered, [ExpansionNext]_expansionVars
  PROVE  PagesCovered'
<1> USE DEF ExpansionTypes
<1>1. ASSUME NEW c \in Calls, Generate(c) PROVE PagesCovered'
  <2>1. Moved(c) /\ UNCHANGED fetchVars /\ at[c] = "generate" /\ page'[c] = 0
    BY <1>1, SearchMoves DEF GoesOn, Generate
  <2>2. \E p \in {"unlock", "catchup", "forward"} : Goto(c, p)
    BY <1>1 DEF Generate
  <2>3. at'[c] # "expand"
    BY <2>2 DEF Goto
  <2>4. \A d \in Calls \ {c} : at'[d] \notin {"catchup", "expand"}
    BY <2>1 DEF ContextHeld, Moved
  <2>5. AskedIn(asked', Missing(c)', 0)
    BY NoPageBelow
  <2> QED
    BY <2>1, <2>3, <2>4, <2>5 DEF PagesCovered, fetchVars
<1>2. ASSUME NEW c \in Calls, CatchUp(c) PROVE PagesCovered'
  <2> SUFFICES ASSUME ~skipped PROVE PagesCovered'
    BY <1>2 DEF CatchUp, PagesCovered
  <2>1. Moved(c) /\ UNCHANGED <<pages, skipped, req>> /\ at[c] = "catchup"
    BY <1>2, SearchMoves DEF GoesOn, CatchUp
  <2>2. \A d \in Calls \ {c} : at'[d] \notin {"catchup", "expand"}
    BY <2>1 DEF ContextHeld, Moved
  <2>3. /\ AskedIn(asked, engines, pages) /\ AskedIn(asked, Missing(c), page[c])
        /\ page[c] \in Int
    BY <2>1 DEF PagesCovered
  <2>4. req[c].engines \in AnyFeeds
    BY <2>1, ConstantTypes DEF ContextHeld, WithFeeds
  <2>5. Missing(c) \in AnyFeeds
    BY <2>4, MissingIsRequested
  <2>6. CASE AskPage(c, Missing(c)) /\ UNCHANGED engines
    <3>1. asked' = asked \cup {<<u.feed, u.url, page[c]>> : u \in UrlsAsked(Missing(c))}
      BY <2>6 DEF AskPage
    <3>2. AskedIn(asked', Missing(c), page[c] + 1)
      BY <2>3, <2>5, <3>1, PageAsked
    <3>3. AskedIn(asked', engines', pages')
      BY <2>1, <2>3, <2>6, <3>1, AskedAlready
    <3>4. \/ at'[c] = "unlock"
          \/ at'[c] = "catchup" /\ page'[c] = page[c] + 1
      BY <2>1, <2>6 DEF AskPage, Goto
    <3>5. Missing(c)' = Missing(c)
      BY <2>1, <2>6 DEF Missing
    <3> QED
      BY <2>2, <3>2, <3>3, <3>4, <3>5 DEF PagesCovered
  <2>7. CASE /\ ~(NeedsCatchUp(Missing(c)) /\ page[c] < pages)
             /\ engines' = UnionFeeds(engines, Missing(c)) /\ Goto(c, "forward")
             /\ UNCHANGED <<asked, page, err>>
    <3>1. AskedIn(asked, Missing(c), pages)
      <4>1. CASE ~NeedsCatchUp(Missing(c))
        BY <2>5, <4>1, NothingToFetch DEF AskedIn
      <4>2. CASE ~(page[c] < pages)
        BY <2>3, <4>2, AskedAlready
      <4> QED
        BY <2>7, <4>1, <4>2
    <3>2. AskedIn(asked', engines', pages')
      BY <2>1, <2>3, <2>5, <2>7, <3>1, AskedOfUnion
    <3>3. at'[c] = "forward"
      BY <2>7 DEF Goto
    <3> QED
      BY <2>2, <3>2, <3>3 DEF PagesCovered
  <2> QED
    BY <1>2, <2>1, <2>5, <2>6, <2>7, UnitedIsUnion DEF CatchUp
<1>3. ASSUME NEW c \in Calls, Forward(c) PROVE PagesCovered'
  <2> SUFFICES ASSUME ~skipped PROVE PagesCovered'
    BY <1>3 DEF Forward, PagesCovered, fetchVars
  <2>1. Moved(c) /\ UNCHANGED <<fetchVars, req>> /\ at[c] = "forward"
    BY <1>3, SearchMoves DEF GoesOn, Forward
  <2>2. \A d \in Calls \ {c} : at'[d] \notin {"catchup", "expand"}
    BY <2>1 DEF ContextHeld, Moved
  <2>3. AskedIn(asked', engines', pages')
    BY <2>1 DEF PagesCovered, fetchVars
  <2>4. \E p \in {"unlock", "expand"} : Goto(c, p)
    BY <1>3 DEF Forward
  <2>5. at'[c] # "catchup"
    BY <2>4 DEF Goto
  <2>6. at'[c] = "expand" => page'[c] \in {pages, 0}
    <3>1. at'[c] = "expand" =>
            page' = [page EXCEPT ![c] = IF req[c].ccheck = "" THEN pages ELSE 0]
      <4>1. CASE ChecksCache(c) /\ pages # 0 /\ Horizon(c) <= pages
        BY <1>3, <4>1 DEF Forward, Goto
      <4>2. CASE ~(ChecksCache(c) /\ pages # 0 /\ Horizon(c) <= pages)
        BY <1>3, <4>2 DEF Forward, Goto
      <4> QED
        BY <4>1, <4>2
    <3> QED
      BY <3>1
  <2>7. at'[c] = "expand" => AskedIn(asked', engines', page'[c])
    BY <2>1, <2>3, <2>6, NoPageBelow DEF fetchVars
  <2> QED
    BY <2>2, <2>3, <2>5, <2>7 DEF PagesCovered
<1>4. ASSUME NEW c \in Calls, Expand(c) PROVE PagesCovered'
  <2> SUFFICES ASSUME ~skipped, ~skipped' PROVE PagesCovered'
    BY <1>4 DEF Expand, PagesCovered
  <2>1. Moved(c) /\ UNCHANGED <<engines, req>> /\ at[c] = "expand"
    BY <1>4, SearchMoves DEF GoesOn, Expand
  <2>2. \A d \in Calls \ {c} : at'[d] \notin {"catchup", "expand"}
    BY <2>1 DEF ContextHeld, Moved
  <2>3. /\ AskedIn(asked, engines, pages)
        /\ req[c].ccheck # "yes" => AskedIn(asked, engines, page[c])
        /\ page[c] \in Int
    BY <2>1 DEF PagesCovered
  <2> DEFINE asks == NeedsFetch(engines) /\ req[c].ccheck # "yes" /\ page[c] < Horizon(c)
  <2>4. CASE asks
    <3>1. AskPage(c, engines) /\ UNCHANGED pages
      BY <1>4, <2>4 DEF Expand
    <3>2. asked' = asked \cup {<<u.feed, u.url, page[c]>> : u \in UrlsAsked(engines)}
      BY <3>1 DEF AskPage
    <3>3. AskedIn(asked', engines, page[c] + 1)
      BY <2>3, <2>4, <3>2, PageAsked
    <3>4. AskedIn(asked', engines, pages)
      BY <2>3, <3>2, AskedAlready
    <3>5. \/ at'[c] = "unlock"
          \/ at'[c] = "expand" /\ page'[c] = page[c] + 1
      BY <2>1, <3>1 DEF AskPage, Goto
    <3> QED
      BY <2>1, <2>2, <3>1, <3>3, <3>4, <3>5 DEF PagesCovered
  <2>5. CASE ~asks
    <3>1. /\ pages' = Horizon(c) /\ UNCHANGED asked /\ Goto(c, "unlock")
          /\ ~(req[c].ccheck = "yes" /\ Horizon(c) > pages)
      BY <1>4, <2>5 DEF Expand
    <3>2. Horizon(c) \in Int
      <4>1. req[c] \in Searches /\ req[c].horizon # BAD
        BY <2>1 DEF ContextHeld, WithFeeds
      <4>2. req[c].horizon \in Int
        BY <4>1, ConstantTypes
      <4>3. MaxExpansions \in Int
        BY ConstantTypes
      <4> QED
        BY <4>2, <4>3 DEF Horizon
    <3>3. AskedIn(asked, engines, Horizon(c))
      <4>1. CASE ~NeedsFetch(engines)
        BY <4>1, NothingToFetch DEF AskedIn
      <4>2. CASE req[c].ccheck = "yes"
        BY <2>3, <3>1, <3>2, <4>2, AskedAlready
      <4>3. CASE req[c].ccheck # "yes" /\ ~(page[c] < Horizon(c))
        BY <2>3, <3>2, <4>3, AskedAlready
      <4> QED
        BY <2>5, <4>1, <4>2, <4>3
    <3>4. at'[c] = "unlock"
      BY <3>1 DEF Goto
    <3> QED
      BY <2>1, <2>2, <3>1, <3>3, <3>4 DEF PagesCovered
  <2> QED
    BY <2>4, <2>5
<1>5. ASSUME UNCHANGED fetchVars,
             \A c \in Calls : at'[c] \in {"catchup", "expand"} =>
               at'[c] = at[c] /\ page'[c] = page[c] /\ req'[c] = req[c]
      PROVE  PagesCovered'
  <2>1. \A c \in Calls : at'[c] = "catchup" => Missing(c)' = Missing(c)
    BY <1>5 DEF Missing, fetchVars
  <2> QED
    BY <1>5, <2>1 DEF PagesCovered, fetchVars
<1> QED
  BY OthersFetchNothing, <1>1, <1>2, <1>3, <1>4, <1>5

LEMMA ExpansionInitially == ExpansionInit => ExpansionInv
<1> SUFFICES ASSUME ExpansionInit PROVE ExpansionInv
  OBVIOUS
<1> USE DEF ExpansionInit
<1>1. engines \in AnyFeeds /\ 0 <= MaxExpansions
  <2>1. \A s \in Searches : s.engines \in AnyFeeds
    BY ConstantTypes
  <2>2. MaxExpansions \in Nat \ {0}
    BY Zenon, ExpansionAssumption
  <2> QED
    BY <2>1, <2>2
<1>2. ExpansionTypes
  <2>1. engines \in AnyFeeds /\ pages \in Int /\ pages <= MaxExpansions
    BY <1>1
  <2>5. /\ skipped = FALSE /\ renewed = FALSE
        /\ held = NOCALL /\ ack = NOCALL /\ estimator = NOCALL
    OBVIOUS
  <2>2. /\ at \in [Calls -> Places]
        /\ err \in [Calls -> {"ok", "params", "output"}]
        /\ page \in [Calls -> Int]
        /\ pers \in [Calls -> {"none", "begun", "joining", "done"}]
    BY DEF Places
  <2>3. req \in [Calls -> Searches \cup {NoRequest}]
    OBVIOUS
  <2>4. worker \in [Calls -> [Workers -> WorkerPlaces]]
    BY DEF WorkerPlaces
  <2> QED
    BY <2>1, <2>2, <2>3, <2>4, <2>5 DEF ExpansionTypes
<1>3. ContextHeld /\ ThreadsCovered /\ RanksAfterFeeds /\ RankingHolds
      /\ EstimatorHolds
  BY DEF ContextHeld, ThreadsCovered, RanksAfterFeeds, RankingHolds, EstimatorHolds, WithFeeds
<1>4. PagesCovered
  BY NoPageBelow DEF PagesCovered
<1> QED
  BY <1>2, <1>3, <1>4 DEF ExpansionInv

LEMMA ExpansionInvStep ==
  ASSUME ExpansionInv, [ExpansionNext]_expansionVars
  PROVE  ExpansionInv'
<1>1. /\ ExpansionTypes /\ ContextHeld /\ ThreadsCovered /\ RanksAfterFeeds
      /\ RankingHolds /\ EstimatorHolds /\ PagesCovered
  BY DEF ExpansionInv
<1>2. ExpansionTypes' /\ ContextHeld' /\ ThreadsCovered'
  BY <1>1, ExpansionTypesStep, ContextHeldStep, ThreadsCoveredStep
<1>3. RanksAfterFeeds' /\ RankingHolds' /\ EstimatorHolds' /\ PagesCovered'
  BY <1>1, RanksStep, RankingStep, EstimatorStep, PagesStep
<1> QED
  BY <1>2, <1>3 DEF ExpansionInv

\* Searches on a cached context keep together who holds its mutex and that of the feeds,
\* which threads they have started, and which pages were asked of which engine
\* (websearch.cpp 1133-1330, query_context.cpp 268-480, rank_estimators.cpp 700-800).
THEOREM ExpansionInvariant == ExpansionSpec => []ExpansionInv
<1>1. ExpansionInit => ExpansionInv
  BY ExpansionInitially
<1>2. ExpansionInv /\ [ExpansionNext]_expansionVars => ExpansionInv'
  BY ExpansionInvStep
<1> QED
  BY <1>1, <1>2, PTL DEF ExpansionSpec

LEMMA ExpansionInvTypes == ExpansionInv => ExpansionTypeOK
<1> SUFFICES ASSUME ExpansionInv PROVE ExpansionTypeOK
  OBVIOUS
<1>1. /\ engines \in AnyFeeds /\ pages \in Int /\ pages <= MaxExpansions
      /\ held \in Calls \cup {NOCALL} /\ ack \in Calls \cup {NOCALL}
  BY DEF ExpansionInv, ExpansionTypes
<1>2. \A c \in Calls : pers[c] = "none" => Active(c) = {}
  BY DEF ExpansionInv, ThreadsCovered, Active
<1>3. estimator = NOCALL \/ worker[estimator[1]][estimator[2]] = "ranking"
  BY DEF ExpansionInv, EstimatorHolds
<1> QED
  BY <1>1, <1>2, <1>3 DEF ExpansionTypeOK

\* The variables of the searches keep their types; a search without a personalisation
\* thread has no thread of its estimators, and the mutex of these is held by one that ranks.
THEOREM ExpansionTypeCorrect == ExpansionSpec => []ExpansionTypeOK
BY ExpansionInvariant, ExpansionInvTypes, PTL

LEMMA ExpansionInvSafe == ExpansionInv => ExpansionSafe
<1> SUFFICES ASSUME ExpansionInv PROVE ExpansionSafe
  OBVIOUS
<1>1. RanksAfterFeeds
  BY DEF ExpansionInv
<1>2. WorkIsCovered
  <2> SUFFICES ASSUME NEW c \in Calls, Active(c) # {}
               PROVE  held = c \/ req[c].horizon = BAD
    BY DEF WorkIsCovered
  <2>1. pers[c] = "joining"
    BY DEF ExpansionInv, ThreadsCovered, Active
  <2>2. at[c] \in WithFeeds \cup {"signal", "failed"}
    BY <2>1 DEF ExpansionInv, ThreadsCovered
  <2> QED
    BY <2>2 DEF ExpansionInv, ContextHeld, WithFeeds
<1>3. RankingExclusive
  BY DEF ExpansionInv, RankingHolds, RankingExclusive
<1> QED
  BY <1>1, <1>2, <1>3 DEF ExpansionSafe

\* In a context that searches share, with any calls, peers and engines, a thread ranks
\* only when the search that started it has its feeds, works on the context only while that
\* search holds it or failed for its horizon, and ranks alone unless an estimator was
\* constructed meanwhile (rank_estimators.cpp 780, websearch.cpp 1142, 1176, 1188).
THEOREM ExpansionSafeAlways == ExpansionSpec => []ExpansionSafe
BY ExpansionInvariant, ExpansionInvSafe, PTL

LEMMA ExpansionInvPages == ExpansionInv => AllPagesAsked
<1> SUFFICES ASSUME ExpansionInv PROVE AllPagesAsked
  OBVIOUS
<1>1. PagesCovered
  BY DEF ExpansionInv
<1> QED
  BY <1>1 DEF PagesCovered, AskedIn, AllPagesAsked

\* Every page that a context claims was asked of every engine it claims, whichever searches
\* share it and whatever fails on the way, unless ccheck=yes moved the horizon
\* (query_context.cpp 318-352).
THEOREM AllPagesAskedAlways == ExpansionSpec => []AllPagesAsked
BY ExpansionInvariant, ExpansionInvPages, PTL
=============================================================================
