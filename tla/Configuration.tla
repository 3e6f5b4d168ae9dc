---------------------------- MODULE Configuration ----------------------------
(* One configuration object (configuration_spec): its reload from a file   *)
(* that an operator edits, under the read-write lock, and the calls that   *)
(* reload it and read it.  Each call is a short script of steps; what the  *)
(* options say is one content.                                             *)
EXTENDS Integers, Sequences, FiniteSets

CONSTANTS
    Threads,    \* client threads
    Objects,    \* configuration objects, by the name of their part
    Contents,   \* what the file may say
    MaxCalls,   \* bound of the calls
    MaxEdits,   \* bound of the changes of the file
    DEFAULT,    \* what set_default_config sets
    NOBODY

ASSUME ConfigurationAssumption ==
    /\ MaxCalls \in Nat /\ MaxEdits \in Nat
    /\ DEFAULT \notin Contents /\ NOBODY \notin Threads

VARIABLES
    object,   \* the object of this behaviour
    conf,     \* what it holds
    loaded,   \* _lastmodified
    disk,     \* the file: there, opens (may be read), says, mtime
    writer, readers,  \* _conf_rwlock: a thread or NOBODY, [Threads -> Nat]
    mutex,    \* _qc_mutex of the one query context, a thread or NOBODY
    pc, script,       \* where a thread is, and what is left of its call
    ncalls, nedits,   \* for the bounds
    raced,    \* an edit has no time of its own: a history variable
    leaked    \* a call ended with the lock held: a history variable

confVars == <<object, conf, loaded, disk, writer, readers, mutex, pc, script, ncalls,
              nedits, raced, leaked>>

(***************************************************************************)
(* The calls.                                                              *)
(***************************************************************************)
\* load_config, read lock, the work with a query context, unlock.
Search == <<"load", "read", "lock", "unlock", "unread">>
Words == <<"load", "read", "lock", "unlock", "unread">>
\* Without a context.
Suggest == <<"load", "read", "unread">>
RecentQueries == <<"load", "read", "unread">>

QcRedir == <<"load", "read", "unread">>
Personalize == <<"load", "read", "unread">>
\* The context first.
Similarity == <<"lock", "load", "read", "unlock", "unread">>
\* No load; what is done under the lock may throw past the unlock.
StoreQueries == <<"read", "throw", "unread">>
\* The constructor of an img_query_context loads again, under the read lock.
SearchImg == <<"load", "read", "load", "unread">>
\* listen_loop takes no lock to read.
Listen == <<"load">>

Scripts(o) == CASE o = "websearch" -> {Search, Words, Suggest, RecentQueries, Similarity}
                [] o = "query-capture" -> {QcRedir, StoreQueries}
                [] o = "cf" -> {Personalize}
                [] o = "img-websearch" -> {SearchImg}
                [] OTHER -> {Listen}

ConfTypeOK ==
    /\ conf \in Contents \cup {DEFAULT}
    /\ disk.mtime \in 1 .. MaxEdits + 1 /\ loaded \in 0 .. MaxEdits + 1
    /\ readers \in [Threads -> 0 .. MaxCalls]
    /\ writer # NOBODY => \A t \in Threads : readers[t] = 0

ConfInit ==
    /\ object \in Objects
    /\ disk \in [there : {TRUE}, opens : {TRUE}, says : Contents, mtime : {1}]
    /\ conf = disk.says /\ loaded = 1
    /\ writer = NOBODY /\ readers = [t \in Threads |-> 0] /\ mutex = NOBODY
    /\ pc = [t \in Threads |-> "idle"]
    /\ script = [t \in Threads |-> <<>>]
    /\ ncalls = 0 /\ nedits = 0 /\ raced = FALSE /\ leaked = FALSE

\* The operator edits the file, makes it unreadable or takes it away.  Two edits in
\* one second have one time, and so have an edit and a load in one second.
Edit ==
    /\ nedits < MaxEdits
    /\ nedits' = nedits + 1
    /\ \E says \in Contents, opens \in BOOLEAN, m \in {disk.mtime, disk.mtime + 1} :
         /\ disk' = [there |-> TRUE, opens |-> opens, says |-> says, mtime |-> m]
         /\ raced' = (raced \/ m = disk.mtime \/ \E t \in Threads : pc[t] = "stat")
    /\ UNCHANGED <<object, conf, loaded, writer, readers, mutex, pc, script, ncalls,
                   leaked>>

TakeAway ==
    /\ nedits < MaxEdits /\ disk.there
    /\ nedits' = nedits + 1
    /\ disk' = [disk EXCEPT !.there = FALSE, !.opens = FALSE]
    /\ UNCHANGED <<object, conf, loaded, writer, readers, mutex, pc, script, ncalls,
                   raced, leaked>>

Call(t) ==
    /\ pc[t] = "idle" /\ ncalls < MaxCalls
    /\ ncalls' = ncalls + 1
    /\ \E s \in Scripts(object) : script' = [script EXCEPT ![t] = s]
    /\ pc' = [pc EXCEPT ![t] = "step"]
    /\ UNCHANGED <<object, conf, loaded, disk, writer, readers, mutex, nedits, raced,
                   leaked>>

\* The next step of the script, or its end.
Goes(t) ==
    /\ script' = [script EXCEPT ![t] = Tail(@)]
    /\ pc' = [pc EXCEPT ![t] = IF Tail(script[t]) = <<>> THEN "idle" ELSE "step"]

At(t, step) == pc[t] = "step" /\ Head(script[t]) = step

(***************************************************************************)
(* The lock and the mutex.                                                 *)
(***************************************************************************)
Read(t) ==
    /\ At(t, "read") /\ writer = NOBODY
    /\ readers' = [readers EXCEPT ![t] = @ + 1]
    /\ Goes(t)
    /\ UNCHANGED <<object, conf, loaded, disk, writer, mutex, ncalls, nedits, raced,
                   leaked>>

Unread(t) ==
    /\ At(t, "unread")
    /\ readers' = [readers EXCEPT ![t] = @ - 1]
    /\ Goes(t)
    /\ UNCHANGED <<object, conf, loaded, disk, writer, mutex, ncalls, nedits, raced,
                   leaked>>

\* store_queries throws, or does not.
Throw(t) ==
    /\ At(t, "throw")
    /\ \/ Goes(t) /\ UNCHANGED leaked
       \/ /\ script' = [script EXCEPT ![t] = <<>>]
          /\ pc' = [pc EXCEPT ![t] = "idle"]
          /\ leaked' = TRUE
    /\ UNCHANGED <<object, conf, loaded, disk, writer, readers, mutex, ncalls, nedits,
                   raced>>

LockQuery(t) ==
    /\ At(t, "lock") /\ mutex = NOBODY
    /\ mutex' = t
    /\ Goes(t)
    /\ UNCHANGED <<object, conf, loaded, disk, writer, readers, ncalls, nedits, raced,
                   leaked>>

UnlockQuery(t) ==
    /\ At(t, "unlock")
    /\ mutex' = NOBODY
    /\ Goes(t)
    /\ UNCHANGED <<object, conf, loaded, disk, writer, readers, ncalls, nedits, raced,
                   leaked>>

(***************************************************************************)
(* load_config                                                             *)
(***************************************************************************)
FileChanged == disk.there /\ loaded # disk.mtime

\* check_file_changed.  Without a file the defaults are set, and no lock is taken.
Load(t) ==
    /\ At(t, "load")
    /\ IF FileChanged THEN pc' = [pc EXCEPT ![t] = "wait"] /\ UNCHANGED script
       ELSE Goes(t)
    /\ conf' = IF disk.there THEN conf ELSE DEFAULT
    /\ UNCHANGED <<object, loaded, disk, writer, readers, mutex, ncalls, nedits, raced,
                   leaked>>

\* Mutant: the write lock does not wait for readers.
NoReadersForgotten == TRUE

NoReaders == \A t \in Threads : readers[t] = 0

WriteLock(t) ==
    /\ pc[t] = "wait" /\ writer = NOBODY /\ NoReaders
    /\ writer' = t
    /\ pc' = [pc EXCEPT ![t] = "reset"]
    /\ UNCHANGED <<object, conf, loaded, disk, readers, mutex, script, ncalls, nedits,
                   raced, leaked>>

\* set_default_config, then fopen: when the file cannot be opened the function
\* returns, with the lock held.
Reset(t) ==
    /\ pc[t] = "reset"
    /\ conf' = DEFAULT
    /\ IF disk.opens THEN pc' = [pc EXCEPT ![t] = "parse"] /\ UNCHANGED <<script, leaked>>
       ELSE Goes(t) /\ leaked' = TRUE
    /\ UNCHANGED <<object, loaded, disk, writer, readers, mutex, ncalls, nedits, raced>>

\* Mutant: the defaults are set after the file has been read.
ParseThenDefault(t) ==
    /\ pc[t] = "parse"
    /\ conf' = DEFAULT
    /\ pc' = [pc EXCEPT ![t] = "stat"]
    /\ UNCHANGED <<object, loaded, disk, writer, readers, mutex, script, ncalls, nedits,
                   raced, leaked>>

\* An open file is read to its end even when it is edited meanwhile.
Parse(t) ==
    /\ pc[t] = "parse"
    /\ conf' = disk.says
    /\ pc' = [pc EXCEPT ![t] = "stat"]
    /\ UNCHANGED <<object, loaded, disk, writer, readers, mutex, script, ncalls, nedits,
                   raced, leaked>>

\* The time that is kept is the one the file has when it has been read.
Stat(t) ==
    /\ pc[t] = "stat"
    /\ loaded' = IF disk.there THEN disk.mtime ELSE 0
    /\ writer' = NOBODY
    /\ Goes(t)
    /\ UNCHANGED <<object, conf, disk, readers, mutex, ncalls, nedits, raced, leaked>>

ConfStep(t) == \/ Read(t) \/ Unread(t) \/ Throw(t) \/ LockQuery(t) \/ UnlockQuery(t)
               \/ Load(t) \/ WriteLock(t) \/ Reset(t) \/ Parse(t) \/ Stat(t)

ConfSteps == \E t \in Threads : ConfStep(t)

ConfNext == Edit \/ TakeAway \/ (\E t \in Threads : Call(t)) \/ ConfSteps

ConfSpec == ConfInit /\ [][ConfNext]_confVars

\* The program goes on while any thread can; the calls are bounded, so that no reader
\* keeps a writer out for ever.
ConfFairness == WF_confVars(ConfSteps)

-----------------------------------------------------------------------------
(* Properties.                                                             *)

\* A call that reads under the lock sees one configuration from the lock to the
\* unlock, however many threads reload it; unless the file is not there, when
\* load_config sets the defaults without the lock.
ReadersUndisturbed ==
    [][(\E t \in Threads : readers[t] > 0 /\ readers'[t] > 0 /\ disk.there)
        => conf' = conf]_confVars

\* While nobody reloads, the object holds what the file says or will reload it: the
\* time it keeps is not that of a file it has not read.  But for a change that has no
\* time of its own, and for one between the reading and the stat in load_config.
NeverStale ==
    (writer = NOBODY /\ disk.there /\ disk.opens /\ loaded = disk.mtime /\ ~raced)
        => conf = disk.says

\* The ways in which a call can wait for ever: load_config returned with the lock or
\* store_queries threw; the constructor of an image context reloads under the read
\* lock of its own thread; similarity reloads with the context that a reader waits for.
SelfWait == \E t \in Threads : pc[t] = "wait" /\ readers[t] > 0
Crossed == \E t, s \in Threads : /\ pc[t] = "wait" /\ mutex = t
                                 /\ readers[s] > 0 /\ At(s, "lock")

\* But for those three all calls end: the locks of load_config and of its callers are
\* released on all other paths.
CallsEnd == <>[](leaked \/ SelfWait \/ Crossed \/ \A t \in Threads : pc[t] = "idle")
============================================================================
