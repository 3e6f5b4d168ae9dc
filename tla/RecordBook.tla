----------------------------- MODULE RecordBook -----------------------------
(* What the user database promises to a program of one thread: a book of   *)
(* records to which each call of the capture plugins does one thing at     *)
(* once.  A record that is being rewritten when the program dies may be    *)
(* lost, no other.                                                         *)
EXTENDS Records

CONSTANTS
    Retention,  \* age from which a record may be dropped
    Files,      \* what the book may hold at first
    Amounts     \* the hits that one call may add, or take back

VARIABLES
    book,       \* [Keys -> record or NONE]
    rewriting,  \* keys whose record is out of the file for a moment
    now         \* the time

vars == <<book, rewriting, now>>

Present == {k \in Keys : book[k] # NONE}

Init == /\ book \in Files
        /\ rewriting = {}
        /\ now = 0

\* The deltas that the plugins add: what follows from one visit or one click,
\* and what takes hits back.
Deltas(k) ==
    IF k \in Uris THEN {UriData(h) : h \in Amounts}
    ELSE UNION {{QueryData(q)} \cup
                {UrlData(q, [x \in {u} |-> h]) : u \in Urls, h \in Amounts}
                : q \in Queries}

Only(k) == book'[k] # book[k] /\ \A j \in Keys \ {k} : book'[j] = book[j]

\* add_dbr
Credit(k) ==
    /\ Only(k)
    /\ \E d \in Deltas(k), s \in 0 .. now :
         book' = [book EXCEPT ![k] =
                    IF @ = NONE THEN [time |-> s, data |-> d]
                    ELSE [time |-> s, data |-> Merge(@.data, d)]]
    /\ book[k] # NONE => book'[k].time >= book[k].time
    /\ UNCHANGED <<rewriting, now>>

\* remove_query takes one query out of a record, and the record with the last.
Withdraw(k) ==
    /\ k \in Fragments \cap Present
    /\ Only(k)
    /\ \E q \in Queries :
         LET rest == WithoutQuery(book[k].data, q)
         IN  /\ <<q, NONE>> \in DOMAIN book[k].data
             /\ IF DOMAIN rest = {}
                THEN /\ book' = [book EXCEPT ![k] = NONE]
                     /\ UNCHANGED rewriting
                ELSE /\ book' = [book EXCEPT ![k].data = rest]
                     /\ rewriting' = rewriting \cup {k}
    /\ UNCHANGED now

Rewritten(k) ==
    /\ k \in rewriting
    /\ rewriting' = rewriting \ {k}
    /\ UNCHANGED <<book, now>>

\* remove_uri
Forget(k) ==
    /\ k \in Uris \cap Present
    /\ book' = [book EXCEPT ![k] = NONE]
    /\ UNCHANGED <<rewriting, now>>

\* prune_db drops a record that is older than the retention, and no other.
Expire(k) ==
    /\ k \in Present
    /\ book[k].time < now - Retention
    /\ book' = [book EXCEPT ![k] = NONE]
    /\ UNCHANGED <<rewriting, now>>

\* The program dies, or fails to write a record back.
Lose ==
    /\ book' = [k \in Keys |-> IF k \in rewriting THEN NONE ELSE book[k]]
    /\ rewriting' = {}
    /\ UNCHANGED now

Tick == now' = now + 1 /\ UNCHANGED <<book, rewriting>>

Next == \/ \E k \in Keys : \/ Credit(k) \/ Withdraw(k) \/ Rewritten(k)
                           \/ Forget(k) \/ Expire(k)
        \/ Lose
        \/ Tick

Spec == Init /\ [][Next]_vars
============================================================================
