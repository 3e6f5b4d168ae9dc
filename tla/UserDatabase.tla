---------------------------- MODULE UserDatabase ----------------------------
(* The user database (user_db) under the calls of the capture plugins, of  *)
(* the recommendation pages and of the sweeper.  Each access to the hash   *)
(* database is atomic, under the mutex of dbsetmutex; a call makes several *)
(* of them, and other threads come in between.                             *)
(*                                                                         *)
(* A call is a sequence of groups of operations.  An operation that fails  *)
(* throws, and takes the rest of its group with it: one group per fragment *)
(* of a query, whose exceptions store_queries and remove_queries count,    *)
(* and one group for every other call.                                     *)
EXTENDS Records, Sequences

CONSTANTS
    Threads,    \* threads that serve clients
    Sweepers,   \* those that call sweeper::sweep: the one that listens, and httpserv's
    Retention,  \* age from which a sweep drops a record
    MaxTime,    \* bound of the clock
    MaxCalls,   \* bound of the number of calls
    Word,       \* number of values of uri_capture::_nr
    Hosts,      \* the keys of uri-capture that are hosts: those without a slash
    Files,      \* what the file of the database may hold when the program starts
    Amounts     \* the hits that RecordBook lets a call add or take back

ASSUME UserDatabaseAssumption ==
    /\ Sweepers \subseteq Threads /\ Hosts \subseteq Uris
    /\ Retention \in Nat /\ MaxTime \in Nat /\ MaxCalls \in Nat
    /\ IsFiniteSet(Queries) /\ IsFiniteSet(Fragments) /\ IsFiniteSet(Uris)
    /\ Word \in Nat /\ Word > Cardinality(Uris) + 2 * MaxCalls
    /\ \A f \in Files :
        /\ f = [k \in Keys |-> f[k]]
        /\ \A k \in Keys : f[k] # NONE =>
             /\ f[k] = [time |-> 0, data |-> f[k].data] /\ IsDataOf(k, f[k].data)
             /\ k \in Uris \ Hosts => f[k].data[Visits] > 0

VARIABLES
    db,      \* [Keys -> record or NONE]: the hash database
    iter,    \* its one iterator: the keys it has still to give out
    now,     \* the clock, in seconds
    nr,      \* uri_capture::_nr, the number of captured URIs
    multi,   \* several threads serve: the toggle multi_threaded, or httpserv beside the proxy
    calls,   \* number of calls made, for the bound
    pc, todo, got, val, left, doomed, date, due,  \* locals of the threads
    visits   \* [Uris -> Nat]: visits stored, a history variable

locals == <<pc, todo, got, val, left, doomed, date, due>>
dbVars == <<db, iter, now, nr, multi, calls, locals, visits>>

Steps == {"idle", "find", "get", "put", "out", "count", "uncount",
          "walk", "read", "prune"}

Here(k) == db[k] # NONE
Captured == {k \in Uris : Here(k)}

\* The operations of a call.
Add(k, d) == [time |-> -1, data |-> d, do |-> "add", key |-> k]
Restore(k, rec) == [time |-> rec.time, data |-> rec.data, do |-> "add", key |-> k]
Visit(k) == [time |-> -1, data |-> UriData(1), do |-> "visit", key |-> k]
Withdraw(k, q) == [do |-> "withdraw", key |-> k, entry |-> <<q, NONE>>]
Leave(k, half) == [do |-> "leave", key |-> k, entry |-> Visits, half |-> half]
Unclick(q, u) == [do |-> "unclick", key |-> Exact[q], entry |-> <<q, u>>]
ThumbDown(q, u, h) ==   \* a URL without a scheme has the host NONE
    [do |-> "thumb", key |-> Exact[q], entry |-> <<q, u>>, host |-> h]

Op(t) == Head(Head(todo[t]))

\* The step a call goes on with.
Entry(ops) == IF ops = <<>> THEN "idle"
              ELSE IF Head(Head(ops)).do = "add" THEN "get" ELSE "find"

\* The groups left when the operation of t is done, or has thrown.
Done(t) == IF Len(Head(todo[t])) > 1
           THEN <<Tail(Head(todo[t]))>> \o Tail(todo[t]) ELSE Tail(todo[t])
Thrown(t) == Tail(todo[t])
\* The groups left when the operation of t goes on as ops.
Instead(t, ops) == <<ops \o Tail(Head(todo[t]))>> \o Tail(todo[t])

GoOn(t, ops) == /\ todo' = [todo EXCEPT ![t] = ops]
                /\ pc' = [pc EXCEPT ![t] = Entry(ops)]

TypeOK ==
    /\ db = [k \in Keys |-> db[k]]
    /\ \A k \in Keys : Here(k) => db[k].time \in 0 .. MaxTime /\ IsDataOf(k, db[k].data)
    /\ iter \subseteq Keys
    /\ now \in 0 .. MaxTime /\ nr \in 0 .. Word - 1 /\ multi \in BOOLEAN
    /\ pc \in [Threads -> Steps]
    /\ \A t \in Threads : pc[t] \notin {"walk", "read", "prune"} =>
                            ((todo[t] = <<>>) = (pc[t] = "idle"))
    /\ doomed \in [Threads -> SUBSET Keys]

Init ==
    /\ db \in Files
    /\ nr = Cardinality({k \in Uris : db[k] # NONE})
    /\ iter = {} /\ now = 0 /\ calls = 0
    /\ multi \in BOOLEAN
    /\ pc = [t \in Threads |-> "idle"]
    /\ todo = [t \in Threads |-> <<>>]
    /\ got = [t \in Threads |-> NONE]
    /\ val = [t \in Threads |-> NONE]
    /\ left = [t \in Threads |-> 1]
    /\ doomed = [t \in Threads |-> {}]
    /\ date = [t \in Threads |-> 0]
    /\ due = [t \in Threads |-> {}]
    /\ visits = [k \in Uris |-> IF Here(k) /\ db[k].data[Visits] > 0
                               THEN db[k].data[Visits] ELSE 0]

(***************************************************************************)
(* The calls.  Unless several threads serve, one call ends before the next *)
(* begins.                                                                 *)
(***************************************************************************)
Free(t) == /\ pc[t] = "idle" /\ calls < MaxCalls
           /\ multi \/ \A s \in Threads : pc[s] = "idle"

Call(t, ops) ==
    /\ Free(t)
    /\ calls' = calls + 1
    /\ GoOn(t, ops)
    /\ left' = [left EXCEPT ![t] = 1]
    /\ UNCHANGED <<db, iter, now, nr, multi, got, val, doomed, date, due, visits>>

\* The fragments of a query in the order of a hash_multimap, which is any.
Orders(S) == {f \in [1 .. Cardinality(S) -> S] : \A i, j \in DOMAIN f :
                                                     f[i] = f[j] => i = j}
OneUrl(q, u, hits) == UrlData(q, [x \in {u} |-> hits])
StoreUrl(q, u, h) ==
    <<Add(Exact[q], OneUrl(q, u, 1))>> \o
    (IF h = u THEN <<>> ELSE <<Add(Exact[q], OneUrl(q, h, 1))>>)

\* store_queries with a URL that was followed: the URL and its host go into the
\* record of radius 0, the query alone into the others.
StoreQueries(t) ==
    \E q \in Queries, u, h \in Urls : \E f \in Orders(Halo[q]) :
      Call(t, [i \in DOMAIN f |-> IF f[i] = Exact[q] THEN StoreUrl(q, u, h)
                                  ELSE <<Add(f[i], QueryData(q))>>])

\* store_queries of a query alone.
StoreQuery(t) ==
    \E q \in Queries : \E f \in Orders(Halo[q]) :
      Call(t, [i \in DOMAIN f |-> <<Add(f[i], QueryData(q))>>])

RemoveQueries(t) ==
    \E q \in Queries : \E f \in Orders(Halo[q]) :
      Call(t, [i \in DOMAIN f |-> <<Withdraw(f[i], q)>>])

\* tbd with a URL, and thumb_down_url.
RemoveUrl(t) == \E q \in Queries, u \in Urls : Call(t, <<<<Unclick(q, u)>>>>)
ThumbDownUrl(t) ==
    \/ \E q \in Queries, u, h \in Urls, i \in Uris \ Hosts, j \in Hosts :
         /\ h # u
         /\ Call(t, <<<<ThumbDown(q, u, h), Leave(i, "uri"), Leave(j, "host")>>>>)
    \/ \E q \in Queries, u \in Urls, i \in Uris :
         Call(t, <<<<ThumbDown(q, u, NONE), Leave(i, "alone")>>>>)

\* store_uri for a URI and its host; the front page of a host has no URI.
StoreUri(t) ==
    \E i \in Uris \cup {NONE}, j \in Uris :
      Call(t, <<(IF i \in {j, NONE} THEN <<>> ELSE <<Visit(i)>>) \o <<Visit(j)>>>>)

(***************************************************************************)
(* The operations.                                                         *)
(***************************************************************************)
\* Other threads' walks: a record that is written may have been moved in the
\* file, before or behind the iterator.
Moved(k) == iter' \in IF \E s \in Threads : pc[s] \in {"walk", "read"}
                      THEN {iter \cup {k}, iter \ {k}} ELSE {{}}
Touched(k) == due' = [s \in Threads |-> due[s] \ {k}]

\* The program dies with whatever its threads were doing, and is started again:
\* uri_capture::start counts the records.
Restart ==
    /\ nr' = Cardinality(Captured) % Word
    /\ iter' = {}
    /\ pc' = [t \in Threads |-> "idle"]
    /\ todo' = [t \in Threads |-> <<>>]
    /\ got' = [t \in Threads |-> NONE]
    /\ val' = [t \in Threads |-> NONE]
    /\ left' = [t \in Threads |-> 1]
    /\ doomed' = [t \in Threads |-> {}]
    /\ date' = [t \in Threads |-> 0]
    /\ due' = [t \in Threads |-> {}]
    /\ UNCHANGED <<db, now, multi, calls, visits>>

Crash == Restart

\* What the record that find_dbr returned leads to.
Found(t) == db[Op(t).key]
FindVisit(t) ==
    /\ Op(t).do = "visit"
    /\ pc' = [pc EXCEPT ![t] = "get"]
    /\ UNCHANGED <<todo, left>>
FindWithdraw(t) ==
    /\ Op(t).do = "withdraw"
    /\ UNCHANGED left
    /\ IF Found(t) = NONE THEN GoOn(t, Thrown(t))
       ELSE IF Op(t).entry \notin DOMAIN Found(t).data
            THEN GoOn(t, Done(t))
            ELSE pc' = [pc EXCEPT ![t] = "out"] /\ UNCHANGED todo
FindLeave(t) ==
    /\ Op(t).do = "leave"
    /\ IF Found(t) = NONE THEN GoOn(t, Done(t)) /\ UNCHANGED left
       ELSE LET hits == Found(t).data[Visits]
            IN  IF Op(t).half # "host" \/ hits - left[t] <= 0
                THEN /\ pc' = [pc EXCEPT ![t] = "out"]
                     /\ left' = [left EXCEPT ![t] =
                                   IF Op(t).half = "uri" THEN hits ELSE @]
                     /\ UNCHANGED todo
                ELSE /\ GoOn(t, Instead(t, <<Add(Op(t).key, UriData(-left[t]))>>))
                     /\ UNCHANGED left
FindUnclick(t) ==
    /\ Op(t).do = "unclick"
    /\ Found(t) # NONE
    /\ UNCHANGED left
    /\ IF Op(t).entry \notin DOMAIN Found(t).data THEN GoOn(t, Thrown(t))
       ELSE GoOn(t, Instead(t, <<Add(Op(t).key, OneUrl(Op(t).entry[1], Op(t).entry[2],
                                               -Found(t).data[Op(t).entry]))>>))
FindThumb(t) ==
    /\ Op(t).do = "thumb"
    /\ UNCHANGED left
    /\ IF Found(t) = NONE THEN GoOn(t, Thrown(t))
       ELSE IF <<Op(t).entry[1], NONE>> \notin DOMAIN Found(t).data
            THEN GoOn(t, Thrown(t))
       ELSE LET e == Op(t).entry
                hits == IF e \notin DOMAIN Found(t).data THEN 1
                        ELSE IF Found(t).data[e] > 0 THEN Found(t).data[e] ELSE 1
                down(u) == Add(Op(t).key, OneUrl(e[1], u, -hits))
            IN  GoOn(t, Instead(t, <<down(e[2])>> \o
                                   IF Op(t).host = NONE THEN <<>> ELSE <<down(Op(t).host)>>))

\* find_dbr, and what the caller does with the record.
Find(t) ==
    /\ pc[t] = "find"
    /\ \/ FindVisit(t) \/ FindWithdraw(t) \/ FindLeave(t)
       \/ FindUnclick(t) \/ FindThumb(t)
    /\ got' = [got EXCEPT ![t] = IF pc'[t] = "out" \/ Op(t).do = "visit"
                                 THEN Found(t) ELSE NONE]
    /\ UNCHANGED <<db, iter, now, nr, multi, calls, val, doomed, date, due, visits>>

\* tbd follows the record of a query that has none: the program dies.
FindNull(t) ==
    /\ pc[t] = "find" /\ Op(t).do = "unclick" /\ ~Here(Op(t).key)
    /\ Restart

\* add_dbr: the record that is there is merged with the new one and serialized.
Get(t) ==
    /\ pc[t] = "get"
    /\ LET k == Op(t).key IN
         val' = [val EXCEPT ![t] =
           IF Here(k) THEN [time |-> now, data |-> Merge(db[k].data, Op(t).data)]
           ELSE [time |-> IF Op(t).time = -1 THEN now ELSE Op(t).time,
                 data |-> Op(t).data]]
    /\ pc' = [pc EXCEPT ![t] = "put"]
    /\ UNCHANGED <<db, iter, now, nr, multi, calls, todo, got, left, doomed, date,
                   due, visits>>

\* add_dbr: dbput, which takes the place of the record whatever it is by now.
Put(t) ==
    /\ pc[t] = "put"
    /\ LET k == Op(t).key IN
         /\ db' = [db EXCEPT ![k] = val[t]]
         /\ Moved(k) /\ Touched(k)
         /\ IF Op(t).do = "visit" /\ got[t] = NONE
            THEN pc' = [pc EXCEPT ![t] = "count"] /\ UNCHANGED todo
            ELSE GoOn(t, Done(t))
         /\ visits' = IF Op(t).do = "visit" THEN [visits EXCEPT ![k] = @ + 1]
                      ELSE visits
    /\ val' = [val EXCEPT ![t] = NONE]
    /\ got' = [got EXCEPT ![t] = NONE]
    /\ UNCHANGED <<now, nr, multi, calls, left, doomed, date>>

\* add_dbr: the database cannot be written.
PutFails(t) ==
    /\ pc[t] = "put"
    /\ GoOn(t, Thrown(t))
    /\ val' = [val EXCEPT ![t] = NONE]
    /\ got' = [got EXCEPT ![t] = NONE]
    /\ UNCHANGED <<db, iter, now, nr, multi, calls, left, doomed, date, due, visits>>

\* Mutant: the record goes with the first query that is taken out of it.
PutBackNothing(k, rec, rest) == <<>>

\* remove_query adds what is left of the record that it has read, and nothing when
\* no query is left.
PutBack(k, rec, rest) ==
    IF DOMAIN rest = {} THEN <<>> ELSE <<Restore(k, [rec EXCEPT !.data = rest])>>

\* remove_dbr in remove_query, and in remove_uri, which throws when the record has
\* gone.
Out(t) ==
    /\ pc[t] = "out"
    /\ LET k == Op(t).key
           rest == WithoutQuery(got[t].data, Op(t).entry[1])
           back == IF Op(t).do = "withdraw" THEN PutBack(k, got[t], rest) ELSE <<>>
       IN  /\ db' = [db EXCEPT ![k] = NONE]
           /\ Touched(k)
           /\ IF back # <<>> THEN GoOn(t, Instead(t, back))
              ELSE IF Op(t).do = "withdraw" THEN GoOn(t, Done(t))
              ELSE IF Here(k) THEN pc' = [pc EXCEPT ![t] = "uncount"] /\ UNCHANGED todo
              ELSE GoOn(t, Thrown(t))
    /\ UNCHANGED <<iter, now, nr, multi, calls, got, val, left, doomed, date, visits>>

\* _nr is counted up or down without a lock: one of two counts that meet may be
\* lost.  Below zero it starts again at the top.
Counts(t, step, d) ==
    /\ pc[t] = step
    /\ nr' \in {(nr + d + Word) % Word} \cup
               {nr : s \in {s \in Threads \ {t} : pc[s] \in {"count", "uncount"}}}
    /\ GoOn(t, Done(t))
    /\ UNCHANGED <<db, iter, now, multi, calls, got, val, left, doomed, date, due, visits>>

Count(t) == Counts(t, "count", 1)
Uncount(t) == Counts(t, "uncount", -1)

(***************************************************************************)
(* The sweep: prune_db of one plugin's records, called by sweep_records,   *)
(* which two threads may do at once.  dbiterinit puts the one iterator back *)
(* to the beginning, and what one walk gets from it the other does not: no *)
(* walk that another overlaps is due to find anything.                     *)
(***************************************************************************)
Old(k, d) == Here(k) /\ db[k].time < d

Walkers == {s \in Threads : pc[s] \in {"walk", "read"}}

Sweep(t, p) ==
    /\ t \in Sweepers /\ Free(t) /\ Retention > 0
    /\ calls' = calls + 1
    /\ date' = [date EXCEPT ![t] = now - Retention]
    /\ iter' = {k \in Keys : Here(k)}
    /\ due' = [s \in Threads |->
                 IF Walkers # {} THEN IF s \in Walkers \cup {t} THEN {} ELSE due[s]
                 ELSE IF s = t THEN {k \in Keys : Plugin(k) = p /\ Old(k, now - Retention)}
                 ELSE due[s]]
    /\ got' = [got EXCEPT ![t] = p]
    /\ pc' = [pc EXCEPT ![t] = "walk"]
    /\ UNCHANGED <<db, now, nr, multi, todo, val, left, doomed, visits>>

\* dbiternext
WalkNext(t) ==
    /\ pc[t] = "walk"
    /\ \E k \in {x \in iter : Here(x)} :
         /\ iter' = iter \ {k}
         /\ todo' = [todo EXCEPT ![t] = <<<<[do |-> "read", key |-> k]>>>>]
    /\ pc' = [pc EXCEPT ![t] = "read"]
    /\ UNCHANGED <<db, now, nr, multi, calls, got, val, left, doomed, date, due, visits>>

\* Mutant: the retention is one second more than it says.
WalkReadLate(t) ==
    /\ pc[t] = "read"
    /\ LET k == Op(t).key IN
         doomed' = [doomed EXCEPT ![t] =
           IF Plugin(k) = got[t] /\ Old(k, date[t] - 1) THEN @ \cup {k} ELSE @]
    /\ todo' = [todo EXCEPT ![t] = <<>>]
    /\ pc' = [pc EXCEPT ![t] = "walk"]
    /\ UNCHANGED <<db, iter, now, nr, multi, calls, got, val, left, date, due, visits>>

\* dbget of the key: the record goes when it is the plugin's and is old.
WalkRead(t) ==
    /\ pc[t] = "read"
    /\ LET k == Op(t).key IN
         doomed' = [doomed EXCEPT ![t] =
           IF Plugin(k) = got[t] /\ Old(k, date[t]) THEN @ \cup {k} ELSE @]
    /\ todo' = [todo EXCEPT ![t] = <<>>]
    /\ pc' = [pc EXCEPT ![t] = "walk"]
    /\ UNCHANGED <<db, iter, now, nr, multi, calls, got, val, left, date, due, visits>>

WalkEnds(t) ==
    /\ pc[t] = "walk"
    /\ \A k \in iter : ~Here(k)
    /\ pc' = [pc EXCEPT ![t] = "prune"]
    /\ iter' = {}
    /\ UNCHANGED <<db, now, nr, multi, calls, todo, got, val, left, doomed, date, due,
                   visits>>

\* remove_dbr of what the walk collected.
Prune(t) ==
    /\ pc[t] = "prune"
    /\ \E k \in doomed[t] :
         /\ db' = [db EXCEPT ![k] = NONE]
         /\ doomed' = [doomed EXCEPT ![t] = @ \ {k}]
         /\ Touched(k)
    /\ UNCHANGED <<iter, now, nr, multi, calls, pc, todo, got, val, left, date, visits>>

PruneEnds(t) ==
    /\ pc[t] = "prune" /\ doomed[t] = {}
    /\ pc' = [pc EXCEPT ![t] = "idle"]
    /\ got' = [got EXCEPT ![t] = NONE]
    /\ UNCHANGED <<db, iter, now, nr, multi, calls, todo, val, left, doomed, date, due,
                   visits>>

Tick == /\ now < MaxTime
        /\ now' = now + 1
        /\ UNCHANGED <<db, iter, nr, multi, calls, locals, visits>>

Next ==
    \/ \E t \in Threads :
         \/ StoreQueries(t) \/ StoreQuery(t) \/ RemoveQueries(t)
         \/ RemoveUrl(t) \/ ThumbDownUrl(t) \/ StoreUri(t)
         \/ Find(t) \/ FindNull(t) \/ Get(t) \/ Put(t) \/ PutFails(t) \/ Out(t)
         \/ Count(t) \/ Uncount(t)
         \/ \E p \in {"query-capture", "uri-capture"} : Sweep(t, p)
         \/ WalkNext(t) \/ WalkRead(t) \/ WalkEnds(t) \/ Prune(t) \/ PruneEnds(t)
    \/ Crash
    \/ Tick

Spec == Init /\ [][Next]_dbVars

-----------------------------------------------------------------------------
(* Properties.                                                             *)

\* However the threads interleave, and although updates of one thread can be
\* lost in those of another: no URI has more hits than visits of it were stored
\* (add_dbr merges with what is there, once).
NoOverCount ==
    \A k \in Uris : Here(k) => db[k].data[Visits] <= visits[k]

\* A program of one thread never counts fewer URIs than it has captured, so that
\* remove_uri does not count below zero (store_uri, remove_uri and start).  It may
\* count more: prune_db does not count down.
NrIsEnough ==
    (~multi /\ \A t \in Threads : pc[t] = "idle") => nr >= Cardinality(Captured)

\* The counts of uri-capture: visits of a URI, and URIs.
CountsAgree == NoOverCount /\ NrIsEnough

\* While other threads write, a walk of prune_db that no other walk overlaps misses no
\* record of its plugin that was too old when it began and has not been written since
\* (user_db.cpp 582-632; the iterator is shared, sweeper.cpp 183, httpserv.cpp 256).
PruneIsComplete ==
    \A t \in Threads : pc[t] = "prune" => due[t] \subseteq doomed[t]

\* The records as a caller may think of them: a record that remove_query has taken
\* out and not yet put back counts as there.  With several threads there is no such
\* view, and the book is left as it may be found.
Pending == {t \in Threads : todo[t] # <<>> /\ pc[t] \in {"get", "put"}
                            /\ Op(t).do = "add" /\ Op(t).time # -1}
BookView ==
    IF multi THEN CHOOSE f \in Files : TRUE
    ELSE [k \in Keys |->
            IF \E t \in Pending : Op(t).key = k
            THEN LET t == CHOOSE t \in Pending : Op(t).key = k
                 IN  [time |-> Op(t).time, data |-> Op(t).data]
            ELSE db[k]]
Rewriting == IF multi THEN {} ELSE {Op(t).key : t \in Pending}

\* With one thread (multi_threaded off), the calls of the plugins, the sweeper and a
\* program that dies do to the database what RecordBook says: a query is taken out of
\* a record and leaves the rest, a sweep drops old records only, and a record is lost
\* only while it is rewritten.
Book == INSTANCE RecordBook WITH
            book <- BookView, rewriting <- Rewriting, now <- IF multi THEN 0 ELSE now
IsBook == Book!Spec
============================================================================
