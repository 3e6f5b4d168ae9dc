--------------------------- MODULE DatabaseRepair ---------------------------
(* What a start of the program does to a user database of an older version *)
(* (main, user_db_fix and the fix_issue_* functions of db_query_record):   *)
(* up to five fixes one after the other, each a walk through the file, and *)
(* then the version.  The program may die between any two steps and is     *)
(* started again on what the files then hold.                              *)
(*                                                                         *)
(* A record is a function from its queries to the radius and the hits per  *)
(* URL.  A record of uri-capture has the one query NONE, whose hits are    *)
(* those of the URL NONE.  Versions are in tenths.                         *)
EXTENDS Integers, FiniteSets

CONSTANTS
    Queries, Urls,  \* queries and URLs as they are spelled in records
    Keys, Uris,     \* keys of query-capture and of uri-capture
    Unreadable,         \* keys whose record cannot be read, or whose plugin is not loaded
    Chomped,        \* [Queries -> Queries]: without the blanks at the end
    Lowered,        \* [Queries -> Queries]: in lower case
    Unslashed,      \* [Urls -> Urls]: without the slash at the end
    Readable,       \* queries that are UTF-8
    Converted,      \* [Urls -> Urls \cup {NONE}]: in UTF-8, where that can be done
    WordsOf, WordsUnder,  \* numbers of words of a query, and of the fragment of a key
    Radius,         \* [Queries -> [SUBSET Keys -> Nat]]: fragments of a query
    OldFiles,       \* what the file may hold at first: [recs, version]
    MaxCrashes,     \* bound of the crashes
    NONE

AllKeys == Keys \cup Uris

\* What deserialize makes of the data of a query, and records of some queries.
AnyData == [radius : Int, urls : UNION {[us -> Int] : us \in SUBSET (Urls \cup {NONE})}]
RecordsOf(qs) == [qs -> AnyData]
HandsOf(qs) == [from : Keys, key : Keys, rec : RecordsOf(qs)]

\* A record of query-capture has its queries under fragments of them: the radius is the
\* number of words that the fragment leaves out.  One of uri-capture has its visits.
IsRecord(k, rec) ==
    /\ rec = [q \in DOMAIN rec |-> [radius |-> rec[q].radius, urls |-> rec[q].urls]]
    /\ \A q \in DOMAIN rec : rec[q].radius \in Int /\ rec[q].urls \in [DOMAIN rec[q].urls -> Int]
    /\ k \in Keys => /\ DOMAIN rec # {} /\ DOMAIN rec \subseteq Queries
                     /\ \A q \in DOMAIN rec : /\ rec[q].radius = WordsOf[q] - WordsUnder[k]
                                               /\ DOMAIN rec[q].urls \subseteq Urls
    /\ k \in Uris => DOMAIN rec = {NONE} /\ DOMAIN rec[NONE].urls \subseteq {NONE}

\* What each fix leaves alone.
Chomps(rec) == \A q \in DOMAIN rec : Chomped[q] = q
Unslashes(rec) == \A q \in DOMAIN rec : \A x \in DOMAIN rec[q].urls : Unslashed[x] = x
Converts(rec) == \A q \in DOMAIN rec :
    q \in Readable /\ \A x \in DOMAIN rec[q].urls : Converted[x] \in {x, NONE}
Lowers(rec) == \A q \in DOMAIN rec : Lowered[q] = q

\* Blanks at the end and upper case do not depend on one another, nor on what is UTF-8,
\* nor does a slash at the end; both leave the words.  A URL ends in one slash at most:
\* fix_issue_281 takes one.  A file has had the fixes of its version.
ASSUME RepairAssumption ==
    /\ Keys \cap Uris = {} /\ IsFiniteSet(Keys \cup Uris)
    /\ MaxCrashes \in Nat
    /\ \A q \in Queries :
        /\ WordsOf[q] \in Nat
        /\ Chomped[q] \in Queries /\ Chomped[Chomped[q]] = Chomped[q]
        /\ Lowered[q] \in Queries /\ Lowered[Lowered[q]] = Lowered[q]
        /\ Chomped[Lowered[q]] = Lowered[Chomped[q]]
        /\ WordsOf[Chomped[q]] = WordsOf[q] /\ WordsOf[Lowered[q]] = WordsOf[q]
        /\ q \in Readable => Chomped[q] \in Readable /\ Lowered[q] \in Readable
        /\ DOMAIN Radius[q] \subseteq Keys \ Unreadable
        /\ \A k \in DOMAIN Radius[q] : Radius[q][k] = WordsOf[q] - WordsUnder[k]
        /\ \E k \in DOMAIN Radius[q] : Radius[q][k] = 0
    /\ \A k \in Keys : WordsUnder[k] \in Nat
    /\ \A x \in Urls :
        /\ Unslashed[x] \in Urls /\ Unslashed[Unslashed[x]] = Unslashed[x]
        /\ Converted[x] # NONE =>
             /\ Converted[x] \in Urls /\ Converted[Converted[x]] = Converted[x]
             /\ Unslashed[x] = x => Unslashed[Converted[x]] = Converted[x]
        /\ Converted[x] \in {x, NONE} => Converted[Unslashed[x]] \in {Unslashed[x], NONE}
    /\ NONE \notin Queries \cup Urls \cup Keys \cup Uris
    /\ \A qs \in SUBSET (Queries \cup {NONE}) : NONE \notin RecordsOf(qs) /\ NONE \notin HandsOf(qs)
    /\ \A old \in OldFiles :
        /\ old.recs = [k \in AllKeys |-> old.recs[k]] /\ old.version \in {0, 3, 4, 5, 6}
        /\ \A k \in AllKeys : old.recs[k] # NONE => IsRecord(k, old.recs[k])
        /\ \A k \in Keys \ Unreadable : old.recs[k] # NONE =>
             /\ old.version >= 3 => Chomps(old.recs[k])
             /\ old.version >= 4 => Unslashes(old.recs[k])
             /\ old.version >= 5 => Converts(old.recs[k])
             /\ old.version >= 6 => Lowers(old.recs[k])

VARIABLES
    file,     \* [AllKeys -> record or NONE]: the local database
    version,  \* its record db-version; 0 when it has none
    far,      \* the version of the remote database
    remote,   \* the database of this run is remote
    tmp,      \* [AllKeys -> record or NONE]: seeks_user.db.tmp
    stage,    \* where main is
    walking,  \* a fix is in its walk
    seen,     \* db_version of main
    ferr,     \* ferr of main
    ahead,    \* keys the iterator has still to give out
    hand,     \* the record that a fix has taken out, with its key, or NONE
    crashes,  \* crashes so far
    lost,     \* keys of records that were lost out of a hand: a history variable
    failed,   \* a fix has failed or a write has: a history variable
    missed,   \* the fixes were left out, or a walk has missed a record: a history variable
    origin    \* the file at first: a history variable

repairVars == <<file, version, far, remote, tmp, stage, walking, seen, ferr, ahead,
                hand, crashes, lost, failed, missed, origin>>

Fixes == <<"169", "263", "281", "154", "575">>
Stages == {"open", "check", "unlink", "rename", "stamp", "serve"}
          \cup {Fixes[n] : n \in 1 .. 5}

NoRecords == [k \in AllKeys |-> NONE]
In(recs) == {k \in AllKeys : recs[k] # NONE}

\* number_records counts the record of the version too.
NumberRecords == Cardinality(In(file)) + (IF version = 0 THEN 0 ELSE 1)

-----------------------------------------------------------------------------
(* Records.                                                                *)

\* merge_with and query_data::merge
MergedRecord(old, new) ==
    LET hits(q, u) == (IF q \in DOMAIN old /\ u \in DOMAIN old[q].urls
                       THEN old[q].urls[u] ELSE 0)
                    + (IF q \in DOMAIN new /\ u \in DOMAIN new[q].urls
                       THEN new[q].urls[u] ELSE 0)
        urls(q) == (IF q \in DOMAIN old THEN DOMAIN old[q].urls ELSE {})
                   \cup (IF q \in DOMAIN new THEN DOMAIN new[q].urls ELSE {})
    IN  [q \in DOMAIN old \cup DOMAIN new |->
           [radius |-> IF q \in DOMAIN old THEN old[q].radius ELSE new[q].radius,
            urls |-> [u \in {x \in urls(q) : hits(q, x) # 0} |-> hits(q, u)]]]

Added(recs, k, rec) ==
    [recs EXCEPT ![k] = IF @ = NONE THEN rec ELSE MergedRecord(@, rec)]

\* What is renamed goes into the table after what is not; an insertion that finds
\* its name there is without effect.
Renamed(f, name) ==
    [y \in {name[x] : x \in DOMAIN f} |->
       IF y \in DOMAIN f /\ name[y] = y THEN f[y]
       ELSE f[CHOOSE x \in DOMAIN f : name[x] = y]]

RenamedUrls(rec, name) == [q \in DOMAIN rec |-> [rec[q] EXCEPT !.urls = Renamed(@, name)]]

Fix263(rec) == Renamed(rec, Chomped)
Fix281(rec) == RenamedUrls(rec, Unslashed)
Fix575(rec) == Renamed(rec, Lowered)

\* Queries that are not UTF-8 are dumped, and so are URLs that are not and cannot be
\* converted.
Convertible(rec, q) ==
    [rec[q] EXCEPT !.urls = [u \in {x \in DOMAIN @ : Converted[x] # NONE} |-> @[u]]]
Fix154(rec) ==
    RenamedUrls([q \in DOMAIN rec \cap Readable |-> Convertible(rec, q)], Converted)

\* A record that only loses URLs is not written.
Rewrites154(rec) ==
    \E q \in DOMAIN rec : \/ q \notin Readable
                          \/ \E u \in DOMAIN rec[q].urls : Converted[u] \notin {u, NONE}

Repaired(f, rec) == CASE f = "263" -> Fix263(rec)
                      [] f = "281" -> Fix281(rec)
                      [] f = "154" -> Fix154(rec)
                      [] f = "575" -> Fix575(rec)
                      [] OTHER -> rec

\* Mutant: a fix rewrites every record of query-capture that it meets.
RewritesAll(f, rec) == TRUE

Rewrites(f, rec) == IF f = "154" THEN Rewrites154(rec) ELSE Repaired(f, rec) # rec

\* The key of radius 0 of a query.
Exactly(q) == CHOOSE k \in DOMAIN Radius[q] : Radius[q][k] = 0

\* fix_issue_575 gives a record a new key when its query of radius 0 changes.
NewKey(f, k, rec) ==
    LET moved == {q \in DOMAIN rec : rec[q].radius = 0 /\ Lowered[q] # q}
    IN  IF f # "575" \/ moved = {} THEN k
        ELSE Exactly(Lowered[CHOOSE q \in moved : TRUE])

\* fix_issue_169 of a record: its queries of radius 0 are added to the new database
\* under all of their keys.  The test for radius 0 looks at the name of the query, a
\* pointer that is never null: the record with its URLs is copied under no key.
Fix169(recs, rec) ==
    LET of(k) == {q \in DOMAIN rec : rec[q].radius = 0 /\ k \in DOMAIN Radius[q]}
        alone(k) == [q \in of(k) |-> [radius |-> Radius[q][k], urls |-> [u \in {} |-> 0]]]
    IN  [k \in AllKeys |-> IF k \in Keys /\ of(k) # {} THEN Added(recs, k, alone(k))[k]
                           ELSE recs[k]]

-----------------------------------------------------------------------------
RepairTypeOK ==
    /\ stage \in Stages /\ walking \in BOOLEAN
    /\ {version, far, seen} \subseteq {0, 3, 4, 5, 6}
    /\ ahead \subseteq AllKeys /\ lost \subseteq Keys
    /\ hand # NONE => /\ stage \in {"263", "281", "154", "575"} /\ walking
                      /\ hand.key \in Keys
                      /\ DOMAIN hand.rec # {}
    /\ \A k \in AllKeys : file[k] # NONE => DOMAIN file[k] # {}

RepairInit ==
    /\ \E old \in OldFiles : file = old.recs /\ version = old.version
    /\ far \in {0, 6}
    /\ remote = FALSE /\ tmp = NoRecords
    /\ stage = "open" /\ walking = FALSE /\ seen = 0 /\ ferr = 0
    /\ ahead = {} /\ hand = NONE /\ crashes = 0 /\ lost = {}
    /\ failed = FALSE /\ missed = FALSE
    /\ origin = file

(***************************************************************************)
(* main                                                                    *)
(***************************************************************************)
\* The database is opened; a remote one that does not answer gives way to the local
\* one.
Open ==
    /\ stage = "open"
    /\ remote' \in BOOLEAN
    /\ seen' = IF remote' THEN far ELSE version
    /\ ferr' = 0
    /\ stage' = "check"
    /\ UNCHANGED <<file, version, far, tmp, walking, ahead, hand, crashes, lost, failed, missed,
                   origin>>

\* A remote database has more than one record.  With one record the fixes are left out
\* (number_records > 1), and the version is set all the same.
Check ==
    /\ stage = "check"
    /\ stage' = IF (remote \/ NumberRecords > 1) /\ seen # 6 THEN "169" ELSE "stamp"
    /\ missed' = (missed \/ (~remote /\ NumberRecords <= 1 /\ seen # 6))
    /\ UNCHANGED <<file, version, far, remote, tmp, walking, seen, ferr, ahead, hand,
                   crashes, lost, failed, origin>>

Applies(f) == CASE f = "169" -> seen = 0 /\ ~remote
                [] f = "263" -> seen < 3
                [] f = "281" -> seen < 4
                [] f = "154" -> seen < 5 /\ ~remote
                [] f = "575" -> seen < 6 /\ ~remote
                [] OTHER -> FALSE

After(f) == LET n == CHOOSE n \in 1 .. 5 : Fixes[n] = f
            IN  IF n = 5 THEN "stamp" ELSE Fixes[n + 1]

\* Mutant: a fix of a version too many is left out.
SkipToo(f) ==
    /\ stage = f /\ ~walking /\ (~Applies(f) \/ seen = 5)
    /\ stage' = After(f)
    /\ UNCHANGED <<file, version, far, remote, tmp, walking, seen, ferr, ahead, hand,
                   crashes, lost, failed, missed, origin>>

Skip(f) ==
    /\ stage = f /\ ~walking /\ ~Applies(f)
    /\ stage' = After(f)
    /\ UNCHANGED <<file, version, far, remote, tmp, walking, seen, ferr, ahead, hand,
                   crashes, lost, failed, missed, origin>>

\* A fix opens the local file, whatever database the run is on.
FixBegins(f) ==
    /\ stage = f /\ ~walking /\ Applies(f)
    /\ walking' = TRUE
    /\ ahead' = In(file)
    /\ UNCHANGED <<file, version, far, remote, tmp, stage, seen, ferr, hand, crashes,
                   lost, failed, missed, origin>>

\* It cannot be opened.  The next fix overwrites what main has kept of this.
FixFails(f) ==
    /\ stage = f /\ ~walking /\ Applies(f)
    /\ ferr' = -1
    /\ stage' = After(f)
    /\ failed' = TRUE
    /\ UNCHANGED <<file, version, far, remote, tmp, walking, seen, ahead, hand, crashes,
                   lost, missed, origin>>

\* The version is set when the last fix that ran has succeeded; a failure is not seen.
Stamp ==
    /\ stage = "stamp"
    /\ \/ /\ ferr = 0 /\ seen # 6
          /\ IF remote THEN far' = 6 /\ UNCHANGED version
                       ELSE version' = 6 /\ UNCHANGED far
       \/ UNCHANGED <<far, version>>
    /\ stage' = "serve"
    /\ UNCHANGED <<file, remote, tmp, walking, seen, ferr, ahead, hand, crashes, lost,
                   failed, missed, origin>>

\* The program is ended and started again.
Again ==
    /\ stage = "serve"
    /\ stage' = "open"
    /\ UNCHANGED <<file, version, far, remote, tmp, walking, seen, ferr, ahead, hand,
                   crashes, lost, failed, missed, origin>>

\* The program dies.
Dies ==
    /\ crashes < MaxCrashes /\ stage \notin {"open", "serve"}
    /\ crashes' = crashes + 1
    /\ stage' = "open" /\ walking' = FALSE /\ ahead' = {} /\ hand' = NONE
    /\ lost' = IF hand = NONE THEN lost ELSE lost \cup {hand.from}
    /\ UNCHANGED <<file, version, far, remote, tmp, seen, ferr, failed, missed, origin>>

(***************************************************************************)
(* user_db_fix::fix_issue_169: the records go into a new database, which   *)
(* takes the place of the old one.                                         *)
(***************************************************************************)
Copy(k) ==
    /\ stage = "169" /\ walking /\ k \in ahead
    /\ ahead' = ahead \ {k}
    /\ tmp' = IF k \in Unreadable THEN tmp
              ELSE IF k \in Uris THEN Added(tmp, k, file[k]) ELSE Fix169(tmp, file[k])
    /\ UNCHANGED <<file, version, far, remote, stage, walking, seen, ferr, hand,
                   crashes, lost, failed, missed, origin>>

SameNumber == Cardinality(In(tmp)) = NumberRecords

CopyEnds ==
    /\ stage = "169" /\ walking /\ ahead = {}
    /\ walking' = FALSE
    /\ IF SameNumber THEN stage' = "unlink" /\ UNCHANGED tmp
       ELSE stage' = "263" /\ tmp' = NoRecords
    /\ UNCHANGED <<file, version, far, remote, seen, ferr, ahead, hand, crashes, lost,
                   failed, missed, origin>>

Unlink ==
    /\ stage = "unlink"
    /\ file' = NoRecords /\ version' = 0
    /\ stage' = "rename"
    /\ UNCHANGED <<far, remote, tmp, walking, seen, ferr, ahead, hand, crashes, lost,
                   failed, missed, origin>>

\* The temporary file is in the working directory: a rename to another file system
\* fails, and an empty database is opened.
Rename ==
    /\ stage = "rename"
    /\ \/ file' = tmp /\ tmp' = NoRecords
       \/ UNCHANGED <<file, tmp>>
    /\ stage' = "263"
    /\ UNCHANGED <<version, far, remote, walking, seen, ferr, ahead, hand, crashes,
                   lost, failed, missed, origin>>

(***************************************************************************)
(* The other fixes: a record that changes is taken out and added again     *)
(* while the walk goes on, before the iterator or behind it.               *)
(***************************************************************************)
HandOf(f, k, rec) ==
    IF DOMAIN Repaired(f, rec) = {} THEN NONE
    ELSE [from |-> k, key |-> NewKey(f, k, rec), rec |-> Repaired(f, rec)]

Take(f, k) ==
    /\ stage = f /\ f # "169" /\ walking /\ hand = NONE /\ k \in ahead
    /\ ahead' = ahead \ {k}
    /\ IF k \in Keys \ Unreadable /\ file[k] # NONE /\ Rewrites(f, file[k])
       THEN /\ file' = [file EXCEPT ![k] = NONE]
            /\ hand' = HandOf(f, k, file[k])
       ELSE UNCHANGED <<file, hand>>
    /\ UNCHANGED <<version, far, remote, tmp, stage, walking, seen, ferr, crashes, lost,
                   failed, missed, origin>>

\* The record that it is merged into may be one that the walk has not met: when what is
\* put grows, the file moves it, behind the iterator perhaps.
PutBackRecord ==
    /\ hand # NONE
    /\ file' = Added(file, hand.key, hand.rec)
    /\ ahead' \in {ahead \cup {hand.key}, ahead \ {hand.key}}
    /\ missed' = (missed \/ hand.key \in ahead \ ahead')
    /\ hand' = NONE
    /\ UNCHANGED <<version, far, remote, tmp, stage, walking, seen, ferr, crashes, lost,
                   failed, origin>>

\* add_dbr fails; its result is not looked at.
PutBackFails ==
    /\ hand # NONE
    /\ lost' = lost \cup {hand.from} /\ failed' = TRUE
    /\ hand' = NONE
    /\ UNCHANGED <<file, version, far, remote, tmp, stage, walking, seen, ferr, ahead,
                   crashes, missed, origin>>

FixEnds(f) ==
    /\ stage = f /\ f # "169" /\ walking /\ hand = NONE /\ ahead = {}
    /\ walking' = FALSE
    /\ ferr' = 0
    /\ stage' = After(f)
    /\ UNCHANGED <<file, version, far, remote, tmp, seen, ahead, hand, crashes, lost,
                   failed, missed, origin>>

Fix(f) == \/ Skip(f) \/ FixBegins(f) \/ FixFails(f) \/ FixEnds(f)
          \/ \E k \in AllKeys : Take(f, k)

RepairStep ==
    \/ Open \/ Check \/ Stamp \/ CopyEnds \/ Unlink \/ Rename
    \/ PutBackRecord \/ PutBackFails
    \/ \E k \in AllKeys : Copy(k)
    \/ \E n \in 1 .. 5 : Fix(Fixes[n])

RepairNext == RepairStep \/ Again \/ Dies

RepairSpec == RepairInit /\ [][RepairNext]_repairVars

\* The start is one sequential program: it goes on while it can.
RepairFairness == WF_repairVars(RepairStep)

-----------------------------------------------------------------------------
(* Properties.                                                             *)

\* A local database that has been marked as of the version of the program needs no
\* fix any more, wherever the program died on the way: unless a fix failed (main
\* keeps only the last result), a start found one record (seeks.cpp 590), even if there
\* were more at first, or a record was merged behind the walk (user_db_fix.cpp 717-729).
MarkedIsFixed ==
    (version = 6 /\ ~failed /\ ~missed) =>
        \A f \in {"263", "281", "154", "575"} : \A k \in In(file) \ (Uris \cup Unreadable) :
            stage \in {"open", "serve"} => ~Rewrites(f, file[k])

\* What was captured with radius 0 in an old file is somewhere: in the file, in the
\* new file of fix 169 or in a hand, spelled as the fixes spell it; unless the
\* program died or failed to write with just that record in its hand.
Spelled(q) == Lowered[Chomped[q]]
Somewhere(q) == \/ \E k \in In(file) : q \in {Spelled(x) : x \in DOMAIN file[k] \ {NONE}}
                \/ \E k \in In(tmp) : q \in {Spelled(x) : x \in DOMAIN tmp[k] \ {NONE}}
                \/ hand # NONE /\ q \in {Spelled(x) : x \in DOMAIN hand.rec}
ExactKeptSafe ==
    \A k \in Keys : \A q \in IF origin[k] = NONE THEN {} ELSE DOMAIN origin[k] :
      (q \in Readable /\ origin[k][q].radius = 0 /\ lost = {} /\ k \notin Unreadable)
        => Somewhere(Spelled(q))

\* A record of uri-capture that can be read is never in neither file (fix_issue_169
\* replaces the old file only by one with as many records).  Of one that cannot be
\* read nothing is sure: its place in the count may be taken by a fragment.
UrisSurvive ==
    \A k \in Uris \ Unreadable : origin[k] # NONE => file[k] # NONE \/ tmp[k] # NONE

\* What the repair of a database promises wherever the program dies.
RepairSafe == MarkedIsFixed /\ ExactKeptSafe /\ UrisSurvive

\* A start comes to its end, although the walks of the fixes meet again records that
\* they have added.
RepairEnds == stage # "serve" ~> stage = "serve"
============================================================================
