------------------------- MODULE DatabaseRepair_proofs -------------------------
(* Proofs about DatabaseRepair: what the repair of an old user database     *)
(* promises, for all files, names, keys and numbers of crashes.             *)
EXTENDS DatabaseRepair, FiniteSetTheorems, TLAPS

\* The fixes that take records out and put them back.
Walks == {"263", "281", "154", "575"}
Versions == {0, 3, 4, 5, 6}

\* Records that a fix looks at.
Looked == Keys \ Unreadable

IsFile(recs) == /\ recs = [k \in AllKeys |-> recs[k]]
                /\ \A k \in AllKeys : recs[k] # NONE => IsRecord(k, recs[k])

\* The files hold records, and what is in a hand can be put back (user_db_fix.cpp
\* 709-729).
RepairTypes ==
    /\ stage \in Stages /\ walking \in BOOLEAN /\ remote \in BOOLEAN
    /\ failed \in BOOLEAN /\ missed \in BOOLEAN
    /\ version \in Versions /\ far \in Versions /\ seen \in Versions
    /\ IsFile(file) /\ IsFile(tmp) /\ IsFile(origin)
    /\ ahead \subseteq AllKeys /\ lost \subseteq Keys
    /\ walking => stage \in Walks \cup {"169"}
    /\ hand # NONE => /\ stage \in Walks /\ walking
                      /\ hand.from \in Looked /\ hand.key \in Looked
                      /\ hand.key \in Keys /\ IsRecord(hand.key, hand.rec)

\* Where main knows what about the database: its version as read, that fix 169 is for
\* local ones without a version, and that there is something to copy (seeks.cpp 586-602).
RepairPlaces ==
    /\ ~remote /\ stage \notin {"open", "serve"} => seen = version
    /\ stage \in {"unlink", "rename"} \/ (stage = "169" /\ walking) => ~remote /\ version = 0
    /\ stage = "169" /\ ~remote => In(file) # {}
    /\ stage = "169" /\ walking => ahead \subseteq In(file)
    /\ stage = "unlink" => ahead = {}
    /\ stage = "rename" => In(file) = {}

\* What a fix leaves alone, the version that has had it, and the stages of main that
\* come after it.
Left(f, rec) == CASE f = "263" -> Chomps(rec) [] f = "281" -> Unslashes(rec)
                  [] f = "154" -> Converts(rec) [] f = "575" -> Lowers(rec) [] OTHER -> TRUE
Since(f) == CASE f = "263" -> 3 [] f = "281" -> 4 [] f = "154" -> 5 [] OTHER -> 6
Later(f) == CASE f = "263" -> {"281", "154", "575", "stamp"}
              [] f = "281" -> {"154", "575", "stamp"}
              [] f = "154" -> {"575", "stamp"} [] OTHER -> {"stamp"}
Settled(f) == version >= Since(f) \/ (~remote /\ stage \in Later(f))

\* The records that a finished fix has nothing to do with; a walk, those behind it.
HasFixed(f, keys) == /\ \A k \in In(file) \cap keys : Left(f, file[k])
                     /\ hand # NONE => Left(f, hand.rec)
FixedInv ==
    ~failed /\ ~missed => \A f \in Walks :
        /\ Settled(f) => HasFixed(f, Looked)
        /\ stage = f /\ walking => HasFixed(f, Looked \ ahead)

\* A query of radius 0, spelled s once the fixes are through, in one record or file.
InRecord(k, rec, s) ==
    \E x \in DOMAIN rec \cap Readable : Spelled(x) = s /\ WordsOf[x] = WordsUnder[k]
InFile(recs, s) == \E k \in Looked : recs[k] # NONE /\ InRecord(k, recs[k], s)

\* The old file has gone and the new one is there (user_db_fix.cpp 142-149).
Gone == In(file) = {} /\ hand = NONE

\* Queries of radius 0 are in the file, in a hand, or in the new file when the old one
\* is gone; and so are records of uri-capture.
Found(s) == \/ InFile(file, s)
            \/ hand # NONE /\ InRecord(hand.key, hand.rec, s)
            \/ Gone /\ InFile(tmp, s)
Visited(k) == file[k] # NONE \/ (Gone /\ tmp[k] # NONE)
KeptInv ==
    /\ lost = {} => \A k \in Looked : origin[k] # NONE =>
        \A q \in DOMAIN origin[k] \cap Readable : origin[k][q].radius = 0 => Found(Spelled(q))
    /\ \A k \in Uris \ Unreadable : origin[k] # NONE => Visited(k)

\* What the walk of fix 169 has met is in the new file.
CopiedInv ==
    stage = "unlink" \/ (stage = "169" /\ walking) =>
        /\ \A k \in Looked \ ahead : file[k] # NONE =>
            \A q \in DOMAIN file[k] : WordsOf[q] = WordsUnder[k] =>
                tmp[Exactly(q)] # NONE /\ q \in DOMAIN tmp[Exactly(q)]
        /\ \A k \in Uris \ (Unreadable \cup ahead) : file[k] # NONE => tmp[k] # NONE

RepairInv == RepairTypes /\ RepairPlaces /\ FixedInv /\ KeptInv /\ CopiedInv

-----------------------------------------------------------------------------
(* Records.                                                                  *)

\* The assumptions, by what they are about.
LEMMA Names ==
  /\ \A k \in Keys : k \notin Uris
  /\ \A q \in Queries : /\ Chomped[q] \in Queries /\ Chomped[Chomped[q]] = Chomped[q]
                        /\ Lowered[q] \in Queries /\ Lowered[Lowered[q]] = Lowered[q]
                        /\ Chomped[Lowered[q]] = Lowered[Chomped[q]]
                        /\ q \in Readable => Chomped[q] \in Readable /\ Lowered[q] \in Readable
                        /\ WordsOf[q] \in Int
                        /\ WordsOf[Chomped[q]] = WordsOf[q] /\ WordsOf[Lowered[q]] = WordsOf[q]
  /\ \A x \in Urls : /\ Unslashed[x] \in Urls /\ Unslashed[Unslashed[x]] = Unslashed[x]
                     /\ Converted[x] # NONE =>
                          /\ Converted[x] \in Urls /\ Converted[Converted[x]] = Converted[x]
                          /\ Unslashed[x] = x => Unslashed[Converted[x]] = Converted[x]
                     /\ Converted[x] \in {x, NONE} => Converted[Unslashed[x]] \in {Unslashed[x], NONE}
  /\ \A k \in Keys : WordsUnder[k] \in Int
  /\ NONE \notin Queries /\ NONE \notin Urls /\ NONE \notin AllKeys
BY RepairAssumption DEF AllKeys

\* The key of radius 0 is one that can be read, and stands for all words of its query.
LEMMA ExactlyIs ==
  \A q \in Queries : Exactly(q) \in Looked /\ WordsUnder[Exactly(q)] = WordsOf[q]
                     /\ Exactly(q) \in DOMAIN Radius[q]
<1> SUFFICES ASSUME NEW q \in Queries
             PROVE  Exactly(q) \in Looked /\ WordsUnder[Exactly(q)] = WordsOf[q]
                    /\ Exactly(q) \in DOMAIN Radius[q]
  OBVIOUS
<1>1. /\ DOMAIN Radius[q] \subseteq Keys \ Unreadable
      /\ \A k \in DOMAIN Radius[q] : Radius[q][k] = WordsOf[q] - WordsUnder[k]
      /\ \E k \in DOMAIN Radius[q] : Radius[q][k] = 0
  BY RepairAssumption
<1>2. Exactly(q) \in DOMAIN Radius[q] /\ Radius[q][Exactly(q)] = 0
  BY <1>1 DEF Exactly
<1>3. WordsOf[q] - WordsUnder[Exactly(q)] = 0 /\ Exactly(q) \in Keys
  BY <1>1, <1>2
<1> QED
  BY <1>1, <1>2, <1>3, Names DEF Looked

\* A record is not the absence of one.
LEMMA RecordIs ==
  ASSUME NEW k \in AllKeys, NEW rec, IsRecord(k, rec)
  PROVE  rec # NONE /\ DOMAIN rec # {} /\ DOMAIN rec \subseteq Queries \cup {NONE}
<1>1. DOMAIN rec # {} /\ DOMAIN rec \subseteq Queries \cup {NONE}
  BY DEF IsRecord, AllKeys
<1>2. ASSUME NEW q \in DOMAIN rec PROVE rec[q] \in AnyData
  <2>1. /\ rec[q] = [radius |-> rec[q].radius, urls |-> rec[q].urls]
        /\ rec[q].radius \in Int /\ rec[q].urls \in [DOMAIN rec[q].urls -> Int]
    BY <1>2 DEF IsRecord
  <2>2. DOMAIN rec[q].urls \in SUBSET (Urls \cup {NONE})
    BY <1>2 DEF IsRecord, AllKeys
  <2>3. rec[q].urls \in UNION {[us -> Int] : us \in SUBSET (Urls \cup {NONE})}
    BY <2>1, <2>2
  <2> QED
    BY <2>1, <2>3 DEF AnyData
<1>3. rec = [q \in DOMAIN rec |-> [radius |-> rec[q].radius, urls |-> rec[q].urls]]
  BY DEF IsRecord
<1>4. rec \in RecordsOf(DOMAIN rec)
  BY <1>2, <1>3 DEF RecordsOf
<1> QED
  BY <1>1, <1>4, RepairAssumption

\* Neither is a record in a hand.
LEMMA HandIs ==
  ASSUME NEW k \in Keys, NEW j \in Keys, NEW rec, IsRecord(j, rec)
  PROVE  [from |-> k, key |-> j, rec |-> rec] # NONE
<1>1. rec \in RecordsOf(DOMAIN rec) /\ DOMAIN rec \in SUBSET (Queries \cup {NONE})
  <2>1. DOMAIN rec \subseteq Queries
    BY DEF IsRecord
  <2>2. ASSUME NEW q \in DOMAIN rec PROVE rec[q] \in AnyData
    <3>1. /\ rec[q] = [radius |-> rec[q].radius, urls |-> rec[q].urls]
          /\ rec[q].radius \in Int /\ rec[q].urls \in [DOMAIN rec[q].urls -> Int]
          /\ DOMAIN rec[q].urls \in SUBSET (Urls \cup {NONE})
      BY <2>2 DEF IsRecord
    <3>2. rec[q].urls \in UNION {[us -> Int] : us \in SUBSET (Urls \cup {NONE})}
      BY <3>1
    <3> QED
      BY <3>1, <3>2 DEF AnyData
  <2>3. rec = [q \in DOMAIN rec |-> [radius |-> rec[q].radius, urls |-> rec[q].urls]]
    BY DEF IsRecord
  <2> QED
    BY <2>1, <2>2, <2>3 DEF RecordsOf
<1>2. [from |-> k, key |-> j, rec |-> rec] \in HandsOf(DOMAIN rec)
  BY <1>1 DEF HandsOf
<1> QED
  BY <1>1, <1>2, RepairAssumption

\* merge_with: a merged record has the queries of both, and no URL that neither had
\* (db_query_record.cpp 328-353).
LEMMA MergedIs ==
  ASSUME NEW k \in AllKeys, NEW old, NEW new, IsRecord(k, old), IsRecord(k, new)
  PROVE  /\ IsRecord(k, MergedRecord(old, new))
         /\ DOMAIN MergedRecord(old, new) = DOMAIN old \cup DOMAIN new
         /\ \A q \in DOMAIN MergedRecord(old, new) :
              \A x \in DOMAIN MergedRecord(old, new)[q].urls :
                \/ q \in DOMAIN old /\ x \in DOMAIN old[q].urls
                \/ q \in DOMAIN new /\ x \in DOMAIN new[q].urls
<1> DEFINE m == MergedRecord(old, new)
           hits(q, x) == (IF q \in DOMAIN old /\ x \in DOMAIN old[q].urls THEN old[q].urls[x] ELSE 0)
                         + (IF q \in DOMAIN new /\ x \in DOMAIN new[q].urls THEN new[q].urls[x] ELSE 0)
           urls(q) == (IF q \in DOMAIN old THEN DOMAIN old[q].urls ELSE {})
                      \cup (IF q \in DOMAIN new THEN DOMAIN new[q].urls ELSE {})
           radius(q) == IF q \in DOMAIN old THEN old[q].radius ELSE new[q].radius
           kept(q) == [x \in {y \in urls(q) : hits(q, y) # 0} |-> hits(q, x)]
<1>1. m = [q \in DOMAIN old \cup DOMAIN new |-> [radius |-> radius(q), urls |-> kept(q)]]
  BY DEF MergedRecord
<1>2. DOMAIN m = DOMAIN old \cup DOMAIN new
  BY <1>1
<1>3. ASSUME NEW q \in DOMAIN m
      PROVE  /\ m[q].radius = radius(q) /\ m[q].urls = kept(q)
             /\ m[q] = [radius |-> m[q].radius, urls |-> m[q].urls]
             /\ DOMAIN m[q].urls \subseteq urls(q)
  <2>1. DOMAIN kept(q) \subseteq urls(q)
    OBVIOUS
  <2>2. m[q] = [radius |-> radius(q), urls |-> kept(q)]
    BY <1>1, <1>2, <1>3
  <2> HIDE DEF m, radius, kept
  <2>3. m[q].radius = radius(q) /\ m[q].urls = kept(q)
    BY <2>2
  <2> QED
    BY <2>1, <2>2, <2>3
<1>4. ASSUME NEW q \in DOMAIN m
      PROVE  m[q].radius \in Int /\ m[q].urls \in [DOMAIN m[q].urls -> Int]
  <2>1. radius(q) \in Int
    BY <1>2, <1>4 DEF IsRecord
  <2>2. \A x \in urls(q) : hits(q, x) \in Int
    BY <1>2, <1>4 DEF IsRecord
  <2>3. kept(q) \in [DOMAIN kept(q) -> Int]
    BY <2>2
  <2> QED
    BY <1>3, <1>4, <2>1, <2>3
<1>5. k \in Keys => \A q \in DOMAIN m : /\ m[q].radius = WordsOf[q] - WordsUnder[k]
                                        /\ DOMAIN m[q].urls \subseteq Urls
  <2>1. ASSUME k \in Keys, NEW q \in DOMAIN m
        PROVE  radius(q) = WordsOf[q] - WordsUnder[k] /\ urls(q) \subseteq Urls
    BY <1>2, <2>1 DEF IsRecord
  <2> HIDE DEF m, radius, urls, kept
  <2> QED
    BY <1>3, <2>1
<1>6. k \in Uris => DOMAIN m[NONE].urls \subseteq {NONE} /\ DOMAIN m = {NONE}
  BY <1>2, <1>3 DEF IsRecord
<1>7. k \in Keys => DOMAIN m # {} /\ DOMAIN m \subseteq Queries
  BY <1>2 DEF IsRecord
<1>8. m = [q \in DOMAIN m |-> [radius |-> m[q].radius, urls |-> m[q].urls]]
  <2>1. m = [q \in DOMAIN m |-> m[q]]
    BY <1>1
  <2> QED
    BY <1>3, <2>1
<1>9. IsRecord(k, m)
  BY <1>4, <1>5, <1>6, <1>7, <1>8 DEF IsRecord
<1> QED
  BY <1>2, <1>3, <1>9

-----------------------------------------------------------------------------
(* Fixes.                                                                    *)

\* The order of main (seeks.cpp 593-634).
LEMMA AfterIs ==
  /\ After("169") = "263" /\ After("263") = "281" /\ After("281") = "154"
  /\ After("154") = "575" /\ After("575") = "stamp"
  /\ \A n \in 1 .. 5 : Fixes[n] \in Walks \cup {"169"}
<1>1. /\ Fixes[1] = "169" /\ Fixes[2] = "263" /\ Fixes[3] = "281" /\ Fixes[4] = "154"
      /\ Fixes[5] = "575"
  BY DEF Fixes
<1>2. \A n \in 1 .. 5 : n = 1 \/ n = 2 \/ n = 3 \/ n = 4 \/ n = 5
  OBVIOUS
<1>3. \A n \in 1 .. 5 : /\ Fixes[n] = "169" => n = 1
                        /\ Fixes[n] = "263" => n = 2
                        /\ Fixes[n] = "281" => n = 3
                        /\ Fixes[n] = "154" => n = 4
                        /\ Fixes[n] = "575" => n = 5
  BY <1>1, <1>2
<1>4. ASSUME NEW f, NEW m \in 1 .. 5, Fixes[m] = f, \A n \in 1 .. 5 : Fixes[n] = f => n = m
      PROVE  After(f) = IF m = 5 THEN "stamp" ELSE Fixes[m + 1]
  <2> DEFINE c == CHOOSE n \in 1 .. 5 : Fixes[n] = f
  <2>1. c \in 1 .. 5 /\ Fixes[c] = f
    BY <1>4
  <2>2. c = m
    BY <1>4, <2>1
  <2>3. After(f) = IF c = 5 THEN "stamp" ELSE Fixes[c + 1]
    BY DEF After
  <2> HIDE DEF c
  <2> QED
    BY <2>2, <2>3
<1>5. \A n \in 1 .. 5 : Fixes[n] \in Walks \cup {"169"}
  BY <1>1, <1>2 DEF Walks
<1>6. /\ After("169") = IF 1 = 5 THEN "stamp" ELSE Fixes[1 + 1]
      /\ After("263") = IF 2 = 5 THEN "stamp" ELSE Fixes[2 + 1]
      /\ After("281") = IF 3 = 5 THEN "stamp" ELSE Fixes[3 + 1]
      /\ After("154") = IF 4 = 5 THEN "stamp" ELSE Fixes[4 + 1]
      /\ After("575") = IF 5 = 5 THEN "stamp" ELSE Fixes[5 + 1]
  BY <1>1, <1>3, <1>4
<1> QED
  BY <1>1, <1>5, <1>6

\* What is renamed keeps what it stands for; an insertion of a name that is there has no
\* effect (db_query_record.cpp 519-526).
LEMMA RenamedIs ==
  ASSUME NEW f, NEW name
  PROVE  /\ \A y : y \in DOMAIN Renamed(f, name) <=> \E x \in DOMAIN f : name[x] = y
         /\ Renamed(f, name) = [y \in DOMAIN Renamed(f, name) |-> Renamed(f, name)[y]]
         /\ \A y \in DOMAIN Renamed(f, name) :
              \E x \in DOMAIN f : name[x] = y /\ Renamed(f, name)[y] = f[x]
<1> DEFINE g == Renamed(f, name)
<1>1. /\ \A y : y \in DOMAIN g <=> \E x \in DOMAIN f : name[x] = y
      /\ g = [y \in DOMAIN g |-> g[y]]
      /\ \A y \in DOMAIN g : g[y] = IF y \in DOMAIN f /\ name[y] = y THEN f[y]
                                    ELSE f[CHOOSE x \in DOMAIN f : name[x] = y]
  BY DEF Renamed
<1>2. ASSUME NEW y \in DOMAIN g PROVE \E x \in DOMAIN f : name[x] = y /\ g[y] = f[x]
  <2>1. PICK x \in DOMAIN f : name[x] = y
    BY <1>1, <1>2
  <2>2. CASE y \in DOMAIN f /\ name[y] = y
    BY <1>1, <1>2, <2>2
  <2>3. CASE ~(y \in DOMAIN f /\ name[y] = y)
    <3>1. g[y] = f[CHOOSE z \in DOMAIN f : name[z] = y]
      BY <1>1, <1>2, <2>3
    <3> QED
      BY <2>1, <3>1
  <2> QED
    BY <2>2, <2>3
<1> QED
  BY <1>1, <1>2

\* Nothing is renamed exactly when every name is its own.
LEMMA RenamedSame ==
  ASSUME NEW f, NEW name, f = [x \in DOMAIN f |-> f[x]],
         \A x \in DOMAIN f : name[name[x]] = name[x]
  PROVE  Renamed(f, name) = f <=> \A x \in DOMAIN f : name[x] = x
<1>1. ASSUME Renamed(f, name) = f, NEW x \in DOMAIN f PROVE name[x] = x
  BY <1>1, RenamedIs
<1>2. ASSUME \A x \in DOMAIN f : name[x] = x PROVE Renamed(f, name) = f
  <2>1. DOMAIN Renamed(f, name) = DOMAIN f
    BY <1>2, RenamedIs
  <2>2. \A y \in DOMAIN f : Renamed(f, name)[y] = f[y]
    BY <1>2, <2>1, RenamedIs
  <2>3. Renamed(f, name) = [y \in DOMAIN f |-> Renamed(f, name)[y]]
    BY <2>1, RenamedIs
  <2> QED
    BY <2>2, <2>3
<1> QED
  BY <1>1, <1>2

\* A record of query-capture that may have lost all of its queries.
IsRest(k, rec) ==
    /\ rec = [q \in DOMAIN rec |-> [radius |-> rec[q].radius, urls |-> rec[q].urls]]
    /\ \A q \in DOMAIN rec : /\ rec[q].radius \in Int
                             /\ rec[q].urls \in [DOMAIN rec[q].urls -> Int]
                             /\ rec[q].radius = WordsOf[q] - WordsUnder[k]
                             /\ DOMAIN rec[q].urls \subseteq Urls
    /\ DOMAIN rec \subseteq Queries

LEMMA RestIs ==
  ASSUME NEW k \in Keys, NEW rec
  PROVE  IsRecord(k, rec) <=> IsRest(k, rec) /\ DOMAIN rec # {}
BY Names DEF IsRecord, IsRest

\* fix_issue_263 and fix_issue_575: names that leave the words alone.
LEMMA NamesFixed ==
  ASSUME NEW k \in Keys, NEW rec, IsRest(k, rec), NEW name,
         \A q \in Queries : name[q] \in Queries /\ WordsOf[name[q]] = WordsOf[q]
  PROVE  IsRest(k, Renamed(rec, name))
<1> DEFINE new == Renamed(rec, name)
<1>1. /\ \A y : y \in DOMAIN new <=> \E x \in DOMAIN rec : name[x] = y
      /\ new = [y \in DOMAIN new |-> new[y]]
      /\ \A y \in DOMAIN new : \E x \in DOMAIN rec : name[x] = y /\ new[y] = rec[x]
  BY RenamedIs
<1>2. DOMAIN new \subseteq Queries
  BY <1>1 DEF IsRest
<1>3. ASSUME NEW y \in DOMAIN new
      PROVE  /\ new[y].radius \in Int /\ new[y].urls \in [DOMAIN new[y].urls -> Int]
             /\ new[y].radius = WordsOf[y] - WordsUnder[k]
             /\ DOMAIN new[y].urls \subseteq Urls
             /\ new[y] = [radius |-> new[y].radius, urls |-> new[y].urls]
  <2>1. PICK x \in DOMAIN rec : name[x] = y /\ new[y] = rec[x]
    BY <1>1, <1>3
  <2>2. x \in Queries /\ WordsOf[y] = WordsOf[x]
    BY <2>1 DEF IsRest
  <2>3. rec[x] = [radius |-> rec[x].radius, urls |-> rec[x].urls]
    BY <2>1 DEF IsRest
  <2> QED
    BY <2>1, <2>2, <2>3 DEF IsRest
<1>4. new = [y \in DOMAIN new |-> [radius |-> new[y].radius, urls |-> new[y].urls]]
  BY <1>1, <1>3
<1> QED
  BY <1>2, <1>3, <1>4 DEF IsRest

\* fix_issue_281 and fix_issue_154: queries keep their names and their radius, URLs are
\* renamed.
LEMMA UrlsFixed ==
  ASSUME NEW k \in Keys, NEW rec, IsRest(k, rec), NEW name,
         \A q \in DOMAIN rec : \A x \in DOMAIN rec[q].urls : name[x] \in Urls
  PROVE  /\ IsRest(k, RenamedUrls(rec, name))
         /\ DOMAIN RenamedUrls(rec, name) = DOMAIN rec
         /\ \A q \in DOMAIN rec : RenamedUrls(rec, name)[q].urls = Renamed(rec[q].urls, name)
<1> DEFINE new == RenamedUrls(rec, name)
<1>1. DOMAIN new = DOMAIN rec /\ new = [q \in DOMAIN rec |-> new[q]]
  BY DEF RenamedUrls
<1>2. ASSUME NEW q \in DOMAIN rec
      PROVE  new[q] = [radius |-> rec[q].radius, urls |-> Renamed(rec[q].urls, name)]
  <2>1. rec[q] = [radius |-> rec[q].radius, urls |-> rec[q].urls]
    BY <1>2 DEF IsRest
  <2>2. new[q] = [rec[q] EXCEPT !.urls = Renamed(@, name)]
    BY <1>2 DEF RenamedUrls
  <2> QED
    BY <2>1, <2>2
<1>3. ASSUME NEW q \in DOMAIN rec
      PROVE  /\ new[q].radius = rec[q].radius /\ new[q].urls = Renamed(rec[q].urls, name)
             /\ new[q] = [radius |-> new[q].radius, urls |-> new[q].urls]
  <2> HIDE DEF new
  <2>1. new[q] = [radius |-> rec[q].radius, urls |-> Renamed(rec[q].urls, name)]
    BY <1>2, <1>3
  <2> QED
    BY <2>1
<1>4. ASSUME NEW q \in DOMAIN rec
      PROVE  /\ new[q].urls \in [DOMAIN new[q].urls -> Int]
             /\ DOMAIN new[q].urls \subseteq Urls
  <2> DEFINE us == Renamed(rec[q].urls, name)
  <2>1. /\ \A y : y \in DOMAIN us <=> \E x \in DOMAIN rec[q].urls : name[x] = y
        /\ us = [y \in DOMAIN us |-> us[y]]
        /\ \A y \in DOMAIN us : \E x \in DOMAIN rec[q].urls : name[x] = y /\ us[y] = rec[q].urls[x]
    BY RenamedIs
  <2>2. \A x \in DOMAIN rec[q].urls : name[x] \in Urls /\ rec[q].urls[x] \in Int
    BY <1>4 DEF IsRest
  <2>3. DOMAIN us \subseteq Urls /\ \A y \in DOMAIN us : us[y] \in Int
    BY <2>1, <2>2
  <2>4. us \in [DOMAIN us -> Int]
    BY <2>1, <2>3
  <2> QED
    BY <1>3, <1>4, <2>3, <2>4
<1>5. new = [q \in DOMAIN new |-> [radius |-> new[q].radius, urls |-> new[q].urls]]
  BY <1>1, <1>3
<1>6. ASSUME NEW q \in DOMAIN new
      PROVE  new[q].radius \in Int /\ new[q].radius = WordsOf[q] - WordsUnder[k]
  BY <1>1, <1>3, <1>6 DEF IsRest
<1>7. DOMAIN new \subseteq Queries
  BY <1>1 DEF IsRest
<1>8. IsRest(k, new)
  BY <1>1, <1>4, <1>5, <1>6, <1>7 DEF IsRest
<1> QED
  BY <1>1, <1>3, <1>8

\* What a fix promises of a record: it is fixed, it stays so for the other fixes, and no
\* query that is UTF-8 is lost.
Mends(f, k, rec, new) ==
    /\ IsRest(k, new)
    /\ Left(f, new) /\ \A g \in Walks : Left(g, rec) => Left(g, new)
    /\ \A x \in DOMAIN rec \cap Readable : \E y \in DOMAIN new \cap Readable :
         Spelled(y) = Spelled(x) /\ WordsOf[y] = WordsOf[x]

LEMMA LeftIs ==
  \A rec : /\ Left("263", rec) <=> Chomps(rec)
           /\ Left("281", rec) <=> Unslashes(rec)
           /\ Left("154", rec) <=> Converts(rec)
           /\ Left("575", rec) <=> Lowers(rec)
BY DEF Left

\* fix_issue_263 (db_query_record.cpp 499-528)
LEMMA Mends263 ==
  ASSUME NEW k \in Keys, NEW rec, IsRest(k, rec)
  PROVE  Mends("263", k, rec, Fix263(rec))
<1> DEFINE new == Renamed(rec, Chomped)
<1>1. /\ \A y : y \in DOMAIN new <=> \E x \in DOMAIN rec : Chomped[x] = y
      /\ \A y \in DOMAIN new : \E x \in DOMAIN rec : Chomped[x] = y /\ new[y] = rec[x]
  BY RenamedIs
<1>2. DOMAIN rec \subseteq Queries
  BY DEF IsRest
<1>3. IsRest(k, new)
  BY Names, NamesFixed
<1>4. Chomps(new)
  BY <1>1, <1>2, Names DEF Chomps
<1>5. Unslashes(rec) => Unslashes(new)
  BY <1>1 DEF Unslashes
<1>6. Converts(rec) => Converts(new)
  BY <1>1, <1>2, Names DEF Converts
<1>7. Lowers(rec) => Lowers(new)
  BY <1>1, <1>2, Names DEF Lowers
<1>8. ASSUME NEW x \in DOMAIN rec \cap Readable
      PROVE  \E y \in DOMAIN new \cap Readable : Spelled(y) = Spelled(x) /\ WordsOf[y] = WordsOf[x]
  <2>1. Chomped[x] \in DOMAIN new \cap Readable /\ WordsOf[Chomped[x]] = WordsOf[x]
    BY <1>1, <1>2, Names
  <2>2. Spelled(Chomped[x]) = Spelled(x)
    BY <1>2, Names DEF Spelled
  <2> QED
    BY <2>1, <2>2
<1> QED
  BY <1>3, <1>4, <1>5, <1>6, <1>7, <1>8, LeftIs DEF Mends, Fix263, Walks

\* fix_issue_575 (db_query_record.cpp 688-728)
LEMMA Mends575 ==
  ASSUME NEW k \in Keys, NEW rec, IsRest(k, rec)
  PROVE  Mends("575", k, rec, Fix575(rec))
<1> DEFINE new == Renamed(rec, Lowered)
<1>1. /\ \A y : y \in DOMAIN new <=> \E x \in DOMAIN rec : Lowered[x] = y
      /\ \A y \in DOMAIN new : \E x \in DOMAIN rec : Lowered[x] = y /\ new[y] = rec[x]
  BY RenamedIs
<1>2. DOMAIN rec \subseteq Queries
  BY DEF IsRest
<1>3. IsRest(k, new)
  BY Names, NamesFixed
<1>4. Lowers(new)
  BY <1>1, <1>2, Names DEF Lowers
<1>5. Unslashes(rec) => Unslashes(new)
  BY <1>1 DEF Unslashes
<1>6. Converts(rec) => Converts(new)
  BY <1>1, <1>2, Names DEF Converts
<1>7. Chomps(rec) => Chomps(new)
  BY <1>1, <1>2, Names DEF Chomps
<1>8. ASSUME NEW x \in DOMAIN rec \cap Readable
      PROVE  \E y \in DOMAIN new \cap Readable : Spelled(y) = Spelled(x) /\ WordsOf[y] = WordsOf[x]
  <2>1. Lowered[x] \in DOMAIN new \cap Readable /\ WordsOf[Lowered[x]] = WordsOf[x]
    BY <1>1, <1>2, Names
  <2>2. Spelled(Lowered[x]) = Spelled(x)
    BY <1>2, Names DEF Spelled
  <2> QED
    BY <2>1, <2>2
<1> QED
  BY <1>3, <1>4, <1>5, <1>6, <1>7, <1>8, LeftIs DEF Mends, Fix575, Walks

\* fix_issue_281 (db_query_record.cpp 530-577)
LEMMA Mends281 ==
  ASSUME NEW k \in Keys, NEW rec, IsRest(k, rec)
  PROVE  Mends("281", k, rec, Fix281(rec))
<1> DEFINE new == RenamedUrls(rec, Unslashed)
<1>1. \A q \in DOMAIN rec : q \in Queries /\ DOMAIN rec[q].urls \subseteq Urls
  BY DEF IsRest
<1>2. /\ IsRest(k, new) /\ DOMAIN new = DOMAIN rec
      /\ \A q \in DOMAIN rec : new[q].urls = Renamed(rec[q].urls, Unslashed)
  <2>1. \A q \in DOMAIN rec : \A x \in DOMAIN rec[q].urls : Unslashed[x] \in Urls
    BY <1>1, Names
  <2> QED
    BY <2>1, UrlsFixed
<1>3. ASSUME NEW q \in DOMAIN rec, NEW y \in DOMAIN new[q].urls
      PROVE  \E x \in DOMAIN rec[q].urls : Unslashed[x] = y /\ x \in Urls
  BY <1>1, <1>2, <1>3, RenamedIs
<1>4. Unslashes(new)
  BY <1>2, <1>3, Names DEF Unslashes
<1>5. Converts(rec) => Converts(new)
  BY <1>2, <1>3, Names DEF Converts
<1>6. (Chomps(rec) => Chomps(new)) /\ (Lowers(rec) => Lowers(new))
  BY <1>2 DEF Chomps, Lowers
<1> QED
  BY <1>2, <1>4, <1>5, <1>6, LeftIs DEF Mends, Fix281, Walks

\* fix_issue_154 (db_query_record.cpp 582-686)
LEMMA Mends154 ==
  ASSUME NEW k \in Keys, NEW rec, IsRest(k, rec)
  PROVE  Mends("154", k, rec, Fix154(rec))
<1> DEFINE utf == [q \in DOMAIN rec \cap Readable |-> Convertible(rec, q)]
           new == RenamedUrls(utf, Converted)
<1>1. \A q \in DOMAIN rec : q \in Queries /\ DOMAIN rec[q].urls \subseteq Urls
  BY DEF IsRest
<1>2. ASSUME NEW q \in DOMAIN rec
      PROVE  Convertible(rec, q) =
               [radius |-> rec[q].radius,
                urls |-> [x \in {y \in DOMAIN rec[q].urls : Converted[y] # NONE} |-> rec[q].urls[x]]]
  <2>1. rec[q] = [radius |-> rec[q].radius, urls |-> rec[q].urls]
    BY <1>2 DEF IsRest
  <2> QED
    BY <2>1 DEF Convertible
<1>3. DOMAIN utf = DOMAIN rec \cap Readable
  OBVIOUS
<1>4. ASSUME NEW q \in DOMAIN utf
      PROVE  /\ utf[q] = [radius |-> utf[q].radius, urls |-> utf[q].urls]
             /\ utf[q].radius = rec[q].radius
             /\ utf[q].urls \in [DOMAIN utf[q].urls -> Int]
             /\ DOMAIN utf[q].urls = {y \in DOMAIN rec[q].urls : Converted[y] # NONE}
  <2> DEFINE us == {y \in DOMAIN rec[q].urls : Converted[y] # NONE}
             hits == [x \in us |-> rec[q].urls[x]]
  <2>1. rec[q].urls \in [DOMAIN rec[q].urls -> Int]
    BY <1>4 DEF IsRest
  <2>2. utf[q] = Convertible(rec, q) /\ q \in DOMAIN rec
    BY <1>4
  <2>3. utf[q] = [radius |-> rec[q].radius, urls |-> hits]
    BY <1>2, <2>2
  <2>4. DOMAIN hits = us /\ hits \in [us -> Int]
    BY <2>1
  <2> HIDE DEF hits, us
  <2>5. utf[q].radius = rec[q].radius /\ utf[q].urls = hits
    BY <2>3
  <2> QED
    BY <2>3, <2>4, <2>5 DEF us
<1>5. IsRest(k, utf)
  <2>1. utf = [q \in DOMAIN utf |-> [radius |-> utf[q].radius, urls |-> utf[q].urls]]
    BY <1>4
  <2>2. \A q \in DOMAIN utf : /\ utf[q].radius \in Int
                              /\ utf[q].radius = WordsOf[q] - WordsUnder[k]
                              /\ DOMAIN utf[q].urls \subseteq Urls
    BY <1>1, <1>4 DEF IsRest
  <2> QED
    BY <1>1, <1>4, <2>1, <2>2 DEF IsRest
<1>6. \A q \in DOMAIN utf : \A x \in DOMAIN utf[q].urls : x \in Urls /\ Converted[x] \in Urls
  BY <1>1, <1>4, Names
<1>7. /\ IsRest(k, new) /\ DOMAIN new = DOMAIN utf
      /\ \A q \in DOMAIN utf : new[q].urls = Renamed(utf[q].urls, Converted)
  <2> HIDE DEF utf
  <2> QED
    BY <1>5, <1>6, UrlsFixed
<1>8. ASSUME NEW q \in DOMAIN utf, NEW y \in DOMAIN new[q].urls
      PROVE  \E x \in DOMAIN rec[q].urls : x \in Urls /\ Converted[x] = y /\ Converted[x] # NONE
  <2> HIDE DEF utf, new
  <2>1. y \in DOMAIN Renamed(utf[q].urls, Converted)
    BY <1>7, <1>8
  <2>2. PICK x \in DOMAIN utf[q].urls : Converted[x] = y
    BY <2>1, RenamedIs
  <2>3. x \in DOMAIN rec[q].urls /\ Converted[x] # NONE /\ x \in Urls
    BY <1>4, <1>6, <2>2
  <2> QED
    BY <2>2, <2>3
<1>9. Converts(new)
  <2> HIDE DEF utf, new
  <2> QED
    BY <1>3, <1>7, <1>8, Names DEF Converts
<1>10. Unslashes(rec) => Unslashes(new)
  <2> HIDE DEF utf, new
  <2>1. ASSUME Unslashes(rec), NEW q \in DOMAIN new, NEW y \in DOMAIN new[q].urls
        PROVE  Unslashed[y] = y
    <3>1. PICK x \in DOMAIN rec[q].urls : x \in Urls /\ Converted[x] = y /\ Converted[x] # NONE
      BY <1>7, <1>8, <2>1
    <3>2. Unslashed[x] = x
      BY <1>3, <1>7, <2>1, <3>1 DEF Unslashes
    <3> QED
      BY <3>1, <3>2, Names
  <2> QED
    BY <2>1 DEF Unslashes
<1>11. (Chomps(rec) => Chomps(new)) /\ (Lowers(rec) => Lowers(new))
  BY <1>3, <1>7 DEF Chomps, Lowers
<1>12. DOMAIN new = DOMAIN rec \cap Readable
  BY <1>3, <1>7
<1> QED
  BY <1>7, <1>9, <1>10, <1>11, <1>12, LeftIs DEF Mends, Fix154, Walks

LEMMA RepairedIs ==
  \A rec : /\ Repaired("263", rec) = Fix263(rec) /\ Repaired("281", rec) = Fix281(rec)
           /\ Repaired("154", rec) = Fix154(rec) /\ Repaired("575", rec) = Fix575(rec)
BY DEF Repaired

LEMMA Mended ==
  ASSUME NEW f \in Walks, NEW k \in Keys, NEW rec, IsRest(k, rec)
  PROVE  Mends(f, k, rec, Repaired(f, rec))
BY Mends263, Mends281, Mends154, Mends575, RepairedIs DEF Walks

\* A fix writes exactly the records that it has something to do with
\* (db_query_record.cpp 509, 551, 629 and 700).
LEMMA RewritesIs ==
  ASSUME NEW f \in Walks, NEW k \in Keys, NEW rec, IsRest(k, rec)
  PROVE  ~Rewrites(f, rec) <=> Left(f, rec)
<1>1. /\ rec = [q \in DOMAIN rec |-> rec[q]] /\ DOMAIN rec \subseteq Queries
      /\ \A q \in DOMAIN rec : /\ DOMAIN rec[q].urls \subseteq Urls
                               /\ rec[q].urls = [x \in DOMAIN rec[q].urls |-> rec[q].urls[x]]
                               /\ rec[q] = [radius |-> rec[q].radius, urls |-> rec[q].urls]
  <2>1. rec = [q \in DOMAIN rec |-> [radius |-> rec[q].radius, urls |-> rec[q].urls]]
    BY DEF IsRest
  <2>2. \A q \in DOMAIN rec : rec[q] = [radius |-> rec[q].radius, urls |-> rec[q].urls]
    BY <2>1
  <2>3. rec = [q \in DOMAIN rec |-> rec[q]]
    BY <2>1
  <2>4. \A q \in DOMAIN rec : /\ DOMAIN rec[q].urls \subseteq Urls
                              /\ rec[q].urls \in [DOMAIN rec[q].urls -> Int]
    BY DEF IsRest
  <2>5. DOMAIN rec \subseteq Queries
    BY DEF IsRest
  <2> QED
    BY <2>2, <2>3, <2>4, <2>5
<1>2. CASE f = "263"
  <2>1. \A q \in DOMAIN rec : Chomped[Chomped[q]] = Chomped[q]
    BY <1>1, Names
  <2>2. Renamed(rec, Chomped) = rec <=> Chomps(rec)
    BY <1>1, <2>1, RenamedSame DEF Chomps
  <2> QED
    BY <1>2, <2>2, RepairedIs, LeftIs DEF Rewrites, Fix263
<1>3. CASE f = "575"
  <2>1. \A q \in DOMAIN rec : Lowered[Lowered[q]] = Lowered[q]
    BY <1>1, Names
  <2>2. Renamed(rec, Lowered) = rec <=> Lowers(rec)
    BY <1>1, <2>1, RenamedSame DEF Lowers
  <2> QED
    BY <1>3, <2>2, RepairedIs, LeftIs DEF Rewrites, Fix575
<1>4. CASE f = "281"
  <2> DEFINE new == RenamedUrls(rec, Unslashed)
  <2>1. ASSUME NEW q \in DOMAIN rec
        PROVE  Renamed(rec[q].urls, Unslashed) = rec[q].urls
               <=> \A x \in DOMAIN rec[q].urls : Unslashed[x] = x
    <3>1. \A x \in DOMAIN rec[q].urls : Unslashed[Unslashed[x]] = Unslashed[x]
      BY <1>1, <2>1, Names
    <3>2. rec[q].urls = [x \in DOMAIN rec[q].urls |-> rec[q].urls[x]]
      BY <1>1, <2>1
    <3> QED
      BY <3>1, <3>2, RenamedSame
  <2>2. \A q \in DOMAIN rec : \A x \in DOMAIN rec[q].urls : Unslashed[x] \in Urls
    BY <1>1, Names
  <2>3. /\ DOMAIN new = DOMAIN rec
        /\ \A q \in DOMAIN rec : new[q].urls = Renamed(rec[q].urls, Unslashed)
    BY <2>2, UrlsFixed
  <2>4. ASSUME NEW q \in DOMAIN rec
        PROVE  new[q] = [rec[q] EXCEPT !.urls = Renamed(rec[q].urls, Unslashed)]
    BY <2>4 DEF RenamedUrls
  <2>5. new = [q \in DOMAIN rec |-> new[q]]
    BY DEF RenamedUrls
  <2>6. ASSUME Unslashes(rec) PROVE new = rec
    <3>1. ASSUME NEW q \in DOMAIN rec PROVE new[q] = rec[q]
      <4>1. Renamed(rec[q].urls, Unslashed) = rec[q].urls
        BY <2>1, <2>6, <3>1 DEF Unslashes
      <4>2. rec[q] = [radius |-> rec[q].radius, urls |-> rec[q].urls]
        BY <1>1, <3>1
      <4>3. [rec[q] EXCEPT !.urls = rec[q].urls] = rec[q]
        BY <4>2
      <4> QED
        BY <2>4, <3>1, <4>1, <4>3
    <3> HIDE DEF new
    <3> QED
      BY <1>1, <2>5, <3>1
  <2>7. ASSUME new = rec PROVE Unslashes(rec)
    <3> HIDE DEF new
    <3> QED
      BY <2>1, <2>3, <2>7 DEF Unslashes
  <2> QED
    BY <1>4, <2>6, <2>7, RepairedIs, LeftIs DEF Rewrites, Fix281
<1>5. CASE f = "154"
  BY <1>5, LeftIs DEF Rewrites, Rewrites154, Converts
<1> QED
  BY <1>2, <1>3, <1>4, <1>5 DEF Walks

\* The key of a record that is put back stands for as many words (db_query_record.cpp
\* 700-727).
LEMMA NewKeyIs ==
  ASSUME NEW f, NEW k \in Looked, NEW rec, IsRest(k, rec)
  PROVE  NewKey(f, k, rec) \in Looked /\ WordsUnder[NewKey(f, k, rec)] = WordsUnder[k]
<1> DEFINE moved == {q \in DOMAIN rec : rec[q].radius = 0 /\ Lowered[q] # q}
           q == CHOOSE q \in moved : TRUE
<1>1. CASE f # "575" \/ moved = {}
  BY <1>1 DEF NewKey
<1>2. CASE f = "575" /\ moved # {}
  <2>1. q \in moved
    BY <1>2
  <2> HIDE DEF q
  <2>2. q \in Queries /\ WordsOf[q] - WordsUnder[k] = 0
    BY <2>1 DEF IsRest
  <2>3. WordsOf[q] = WordsUnder[k] /\ Lowered[q] \in Queries /\ WordsOf[Lowered[q]] = WordsOf[q]
    BY <2>2, Names DEF Looked
  <2>4. NewKey(f, k, rec) = Exactly(Lowered[q])
    BY <1>2 DEF NewKey, q
  <2> QED
    BY <2>3, <2>4, ExactlyIs
<1> QED
  BY <1>1, <1>2

\* What a fix takes into its hand: nothing, when nothing of it is UTF-8.
LEMMA HandOfIs ==
  ASSUME NEW f \in Walks, NEW k \in Looked, NEW rec, IsRecord(k, rec),
         NEW h, h = HandOf(f, k, rec)
  PROVE  /\ h # NONE => /\ h.from \in Looked /\ h.key \in Looked /\ IsRecord(h.key, h.rec)
                        /\ WordsUnder[h.key] = WordsUnder[k]
                        /\ Mends(f, k, rec, h.rec)
         /\ h = NONE => DOMAIN rec \cap Readable = {}
<1>1. IsRest(k, rec) /\ k \in Keys
  BY RestIs DEF Looked
<1>2. Mends(f, k, rec, Repaired(f, rec))
  BY <1>1, Mended
<1>3. CASE DOMAIN Repaired(f, rec) = {}
  BY <1>2, <1>3 DEF Mends, HandOf
<1>4. CASE DOMAIN Repaired(f, rec) # {}
  <2> DEFINE j == NewKey(f, k, rec)
  <2>1. j \in Looked /\ j \in Keys /\ WordsUnder[j] = WordsUnder[k]
    BY <1>1, NewKeyIs DEF Looked
  <2>2. h = [from |-> k, key |-> j, rec |-> Repaired(f, rec)]
    BY <1>4 DEF HandOf
  <2> HIDE DEF j
  <2>3. IsRest(j, Repaired(f, rec))
    BY <1>2, <2>1 DEF Mends, IsRest
  <2>4. IsRecord(j, Repaired(f, rec))
    BY <1>4, <2>1, <2>3, RestIs
  <2>5. h # NONE
    BY <1>1, <2>1, <2>2, <2>4, HandIs
  <2> QED
    BY <1>2, <2>1, <2>2, <2>4, <2>5
<1> QED
  BY <1>3, <1>4

-----------------------------------------------------------------------------
(* Files.                                                                    *)

\* A file that has no less than another.
Grown(recs, new) ==
    \A k \in AllKeys : recs[k] # NONE => new[k] # NONE /\ DOMAIN recs[k] \subseteq DOMAIN new[k]

LEMMA GrownKeeps ==
  ASSUME NEW recs, NEW new, Grown(recs, new), NEW s, InFile(recs, s)
  PROVE  InFile(new, s)
<1>1. PICK k \in Looked : recs[k] # NONE /\ InRecord(k, recs[k], s)
  BY DEF InFile
<1>2. new[k] # NONE /\ DOMAIN recs[k] \subseteq DOMAIN new[k]
  BY <1>1 DEF Grown, Looked, AllKeys
<1>3. InRecord(k, new[k], s)
  BY <1>1, <1>2 DEF InRecord
<1> QED
  BY <1>2, <1>3 DEF InFile

\* user_db::add_dbr merges with what is there (user_db.cpp 410-479).
LEMMA AddedIs ==
  ASSUME NEW recs, IsFile(recs), NEW j \in AllKeys, NEW rec, IsRecord(j, rec),
         NEW new, new = Added(recs, j, rec)
  PROVE  /\ IsFile(new) /\ Grown(recs, new)
         /\ new[j] # NONE /\ DOMAIN rec \subseteq DOMAIN new[j]
         /\ new[j] = IF recs[j] = NONE THEN rec ELSE MergedRecord(recs[j], rec)
         /\ \A k \in AllKeys \ {j} : new[k] = recs[k]
<1>1. /\ recs = [k \in AllKeys |-> recs[k]]
      /\ \A k \in AllKeys : recs[k] # NONE => IsRecord(k, recs[k])
  BY DEF IsFile
<1>2. /\ new[j] = IF recs[j] = NONE THEN rec ELSE MergedRecord(recs[j], rec)
      /\ \A k \in AllKeys \ {j} : new[k] = recs[k]
      /\ new = [k \in AllKeys |-> new[k]]
  BY <1>1 DEF Added
<1>3. IsRecord(j, new[j]) /\ DOMAIN rec \subseteq DOMAIN new[j]
      /\ (recs[j] # NONE => DOMAIN recs[j] \subseteq DOMAIN new[j])
  <2>1. CASE recs[j] = NONE
    BY <1>2, <2>1
  <2>2. CASE recs[j] # NONE
    <3>1. IsRecord(j, recs[j])
      BY <1>1, <2>2
    <3>2. /\ IsRecord(j, MergedRecord(recs[j], rec))
          /\ DOMAIN MergedRecord(recs[j], rec) = DOMAIN recs[j] \cup DOMAIN rec
      BY <3>1, MergedIs
    <3> QED
      BY <1>2, <2>2, <3>2
  <2> QED
    BY <2>1, <2>2
<1>4. new[j] # NONE
  BY <1>3, RecordIs
<1>5. IsFile(new)
  BY <1>1, <1>2, <1>3 DEF IsFile
<1>6. Grown(recs, new)
  BY <1>2, <1>3, <1>4 DEF Grown
<1> QED
  BY <1>2, <1>3, <1>4, <1>5, <1>6

\* What both have left alone, their merge does.
LEMMA MergedLeft ==
  ASSUME NEW k \in Keys, NEW old, NEW new, IsRecord(k, old), IsRecord(k, new),
         NEW f \in Walks, Left(f, old), Left(f, new)
  PROVE  Left(f, MergedRecord(old, new))
<1> DEFINE m == MergedRecord(old, new)
<1>1. /\ DOMAIN m = DOMAIN old \cup DOMAIN new
      /\ \A q \in DOMAIN m : \A x \in DOMAIN m[q].urls :
           \/ q \in DOMAIN old /\ x \in DOMAIN old[q].urls
           \/ q \in DOMAIN new /\ x \in DOMAIN new[q].urls
  BY MergedIs DEF AllKeys
<1> HIDE DEF m
<1>2. CASE f = "263"
  BY <1>1, <1>2, LeftIs DEF Chomps, m
<1>3. CASE f = "281"
  BY <1>1, <1>3, LeftIs DEF Unslashes, m
<1>4. CASE f = "154"
  BY <1>1, <1>4, LeftIs DEF Converts, m
<1>5. CASE f = "575"
  BY <1>1, <1>5, LeftIs DEF Lowers, m
<1> QED
  BY <1>2, <1>3, <1>4, <1>5 DEF Walks

\* fix_issue_169 of a record of query-capture: the queries of radius 0 are in the new file
\* under their keys of radius 0 (db_query_record.cpp 455-497).
LEMMA Fix169Is ==
  ASSUME NEW recs, IsFile(recs), NEW k \in Keys, NEW rec, IsRecord(k, rec),
         NEW new, new = Fix169(recs, rec)
  PROVE  /\ IsFile(new) /\ Grown(recs, new)
         /\ \A q \in DOMAIN rec : WordsOf[q] = WordsUnder[k] =>
              new[Exactly(q)] # NONE /\ q \in DOMAIN new[Exactly(q)]
<1> DEFINE of(j) == {q \in DOMAIN rec : rec[q].radius = 0 /\ j \in DOMAIN Radius[q]}
           alone(j) == [q \in of(j) |-> [radius |-> Radius[q][j], urls |-> [x \in {} |-> 0]]]
<1>1. new = [j \in AllKeys |-> IF j \in Keys /\ of(j) # {} THEN Added(recs, j, alone(j))[j]
                                ELSE recs[j]]
  BY DEF Fix169
<1>2. \A q \in DOMAIN rec : q \in Queries /\ rec[q].radius = WordsOf[q] - WordsUnder[k]
  BY DEF IsRecord
<1>3. ASSUME NEW j \in Keys, of(j) # {}
      PROVE  IsRecord(j, alone(j)) /\ DOMAIN alone(j) = of(j)
  <2>1. DOMAIN alone(j) = of(j)
    OBVIOUS
  <2>2. ASSUME NEW q \in of(j)
        PROVE  /\ alone(j)[q].radius = WordsOf[q] - WordsUnder[j]
               /\ alone(j)[q].radius \in Int
               /\ alone(j)[q].urls \in [DOMAIN alone(j)[q].urls -> Int]
               /\ DOMAIN alone(j)[q].urls \subseteq Urls
               /\ alone(j)[q] = [radius |-> alone(j)[q].radius, urls |-> alone(j)[q].urls]
    <3>1. q \in Queries /\ j \in DOMAIN Radius[q]
      BY <1>2, <2>2
    <3>2. Radius[q][j] = WordsOf[q] - WordsUnder[j]
      BY <3>1, RepairAssumption
    <3>3. alone(j)[q] = [radius |-> Radius[q][j], urls |-> [x \in {} |-> 0]]
      BY <2>2
    <3>4. Radius[q][j] \in Int
      BY <3>1, <3>2, Names
    <3> HIDE DEF alone
    <3> QED
      BY <3>2, <3>3, <3>4
  <2>3. alone(j) = [q \in of(j) |-> [radius |-> alone(j)[q].radius, urls |-> alone(j)[q].urls]]
    <3>1. alone(j) = [q \in of(j) |-> alone(j)[q]]
      OBVIOUS
    <3> HIDE DEF alone
    <3> QED
      BY <2>2, <3>1
  <2>4. of(j) \subseteq Queries
    BY <1>2
  <2> HIDE DEF alone, of
  <2> QED
    BY <1>3, <2>1, <2>2, <2>3, <2>4, Names DEF IsRecord
<1>4. ASSUME NEW j \in Keys, of(j) # {}
      PROVE  /\ IsRecord(j, new[j]) /\ of(j) \subseteq DOMAIN new[j]
             /\ recs[j] # NONE => DOMAIN recs[j] \subseteq DOMAIN new[j]
  <2> DEFINE with == Added(recs, j, alone(j))
  <2> HIDE DEF alone, of
  <2>1. j \in AllKeys /\ IsRecord(j, alone(j)) /\ DOMAIN alone(j) = of(j)
    BY <1>3, <1>4 DEF AllKeys
  <2>2. /\ IsFile(with) /\ Grown(recs, with)
        /\ with[j] # NONE /\ DOMAIN alone(j) \subseteq DOMAIN with[j]
    BY <2>1, AddedIs
  <2>3. new[j] = with[j]
    BY <1>1, <1>4, <2>1
  <2> HIDE DEF with
  <2> QED
    BY <2>1, <2>2, <2>3 DEF IsFile, Grown
<1> HIDE DEF alone
<1>5. \A j \in AllKeys : ~(j \in Keys /\ of(j) # {}) => new[j] = recs[j]
  BY <1>1
<1>6. new = [j \in AllKeys |-> new[j]]
  BY <1>1
<1>7. IsFile(new)
  <2> HIDE DEF of
  <2> QED
    BY <1>4, <1>5, <1>6 DEF IsFile
<1>8. Grown(recs, new)
  <2> HIDE DEF of
  <2>1. \A j \in Keys : of(j) # {} => new[j] # NONE
    BY <1>4, RecordIs DEF AllKeys
  <2> QED
    BY <1>4, <1>5, <2>1 DEF Grown
<1>9. ASSUME NEW q \in DOMAIN rec, WordsOf[q] = WordsUnder[k]
      PROVE  new[Exactly(q)] # NONE /\ q \in DOMAIN new[Exactly(q)]
  <2>1. q \in Queries /\ WordsOf[q] \in Int /\ rec[q].radius = WordsOf[q] - WordsUnder[k]
    BY <1>2, Names
  <2>2. rec[q].radius = 0
    BY <1>9, <2>1
  <2>3. Exactly(q) \in Keys /\ Exactly(q) \in DOMAIN Radius[q]
    BY <2>1, ExactlyIs DEF Looked
  <2>4. q \in of(Exactly(q))
    BY <2>2, <2>3
  <2> HIDE DEF of
  <2>5. IsRecord(Exactly(q), new[Exactly(q)]) /\ q \in DOMAIN new[Exactly(q)]
    BY <1>4, <2>3, <2>4
  <2> QED
    BY <2>3, <2>5, RecordIs DEF AllKeys
<1> QED
  BY <1>7, <1>8, <1>9

-----------------------------------------------------------------------------
(* Steps.                                                                    *)

LEMMA RepairCases ==
  ASSUME RepairNext
  PROVE  \/ Open \/ Check \/ Stamp \/ CopyEnds \/ Unlink \/ Rename
         \/ PutBackRecord \/ PutBackFails \/ Again \/ Dies
         \/ \E k \in AllKeys : Copy(k)
         \/ \E f \in Walks \cup {"169"} : Skip(f) \/ FixBegins(f) \/ FixFails(f)
         \/ \E f \in Walks : FixEnds(f) \/ \E k \in AllKeys : Take(f, k)
<1>1. CASE \E n \in 1 .. 5 : Fix(Fixes[n])
  <2>1. PICK f \in Walks \cup {"169"} : Fix(f)
    BY <1>1, AfterIs
  <2>2. CASE FixEnds(f) \/ \E k \in AllKeys : Take(f, k)
    <3>1. f \in Walks
      BY <2>2 DEF FixEnds, Take
    <3> QED
      BY <2>2, <3>1
  <2> QED
    BY <2>1, <2>2 DEF Fix
<1> QED
  BY <1>1 DEF RepairNext, RepairStep

\* A walk leaves a record alone, or takes it out of the file.
LEMMA TakeIs ==
  ASSUME RepairTypes, NEW f \in Walks, NEW k \in AllKeys, Take(f, k)
  PROVE  \/ /\ file' = file /\ hand' = hand
            /\ k \in Looked /\ file[k] # NONE => Left(f, file[k])
         \/ /\ k \in Looked /\ k \in Keys /\ file[k] # NONE /\ IsRecord(k, file[k])
            /\ IsFile(file') /\ file'[k] = NONE
            /\ \A j \in AllKeys \ {k} : file'[j] = file[j]
            /\ hand' = HandOf(f, k, file[k])
<1>1. /\ file = [j \in AllKeys |-> file[j]]
      /\ \A j \in AllKeys : file[j] # NONE => IsRecord(j, file[j])
  BY DEF RepairTypes, IsFile
<1>2. CASE k \in Keys \ Unreadable /\ file[k] # NONE /\ Rewrites(f, file[k])
  <2>1. file' = [file EXCEPT ![k] = NONE] /\ hand' = HandOf(f, k, file[k])
    BY <1>2 DEF Take
  <2>2. /\ file' = [j \in AllKeys |-> file'[j]] /\ file'[k] = NONE
        /\ \A j \in AllKeys \ {k} : file'[j] = file[j]
    BY <1>1, <2>1
  <2>3. IsFile(file')
    BY <1>1, <2>2 DEF IsFile
  <2> QED
    BY <1>1, <1>2, <2>1, <2>2, <2>3 DEF Looked
<1>3. CASE ~(k \in Keys \ Unreadable /\ file[k] # NONE /\ Rewrites(f, file[k]))
  <2>1. file' = file /\ hand' = hand
    BY <1>3 DEF Take
  <2>2. ASSUME k \in Looked, file[k] # NONE PROVE Left(f, file[k])
    <3>1. k \in Keys /\ ~Rewrites(f, file[k]) /\ IsRecord(k, file[k])
      BY <1>1, <1>3, <2>2 DEF Looked
    <3> QED
      BY <3>1, RestIs, RewritesIs
  <2> QED
    BY <2>1, <2>2
<1> QED
  BY <1>2, <1>3

\* What is put back is merged with what has been put there.
LEMMA PutBackIs ==
  ASSUME RepairTypes, PutBackRecord
  PROVE  /\ hand.key \in Looked /\ hand.key \in Keys /\ IsRecord(hand.key, hand.rec)
         /\ IsFile(file') /\ Grown(file, file')
         /\ file'[hand.key] # NONE /\ DOMAIN hand.rec \subseteq DOMAIN file'[hand.key]
         /\ file'[hand.key] = IF file[hand.key] = NONE THEN hand.rec
                              ELSE MergedRecord(file[hand.key], hand.rec)
         /\ \A k \in AllKeys \ {hand.key} : file'[k] = file[k]
<1>1. /\ hand.key \in Looked /\ hand.key \in Keys /\ IsRecord(hand.key, hand.rec)
      /\ hand.key \in AllKeys /\ IsFile(file) /\ file' = Added(file, hand.key, hand.rec)
  BY DEF RepairTypes, PutBackRecord, AllKeys
<1> QED
  BY <1>1, AddedIs

\* What the copy of fix 169 adds (user_db_fix.cpp 83-128).
LEMMA CopyIs ==
  ASSUME RepairTypes, RepairPlaces, NEW k \in AllKeys, Copy(k)
  PROVE  /\ IsFile(tmp') /\ Grown(tmp, tmp')
         /\ k \in Looked => \A q \in DOMAIN file[k] : WordsOf[q] = WordsUnder[k] =>
                              tmp'[Exactly(q)] # NONE /\ q \in DOMAIN tmp'[Exactly(q)]
         /\ k \in Uris \ Unreadable => tmp'[k] # NONE
<1>1. file[k] # NONE /\ IsRecord(k, file[k]) /\ IsFile(tmp)
  BY DEF RepairTypes, RepairPlaces, Copy, In, IsFile
<1>2. CASE k \in Unreadable
  <2>1. tmp' = tmp
    BY <1>2 DEF Copy
  <2> QED
    BY <1>1, <1>2, <2>1 DEF Grown, Looked
<1>3. CASE k \in Uris \ Unreadable
  <2>1. tmp' = Added(tmp, k, file[k])
    BY <1>3 DEF Copy
  <2>2. IsFile(tmp') /\ Grown(tmp, tmp') /\ tmp'[k] # NONE
    BY <1>1, <2>1, AddedIs
  <2>3. k \notin Looked
    BY <1>3, Names DEF Looked
  <2> QED
    BY <2>2, <2>3
<1>4. CASE k \in Keys \ Unreadable
  <2>1. tmp' = Fix169(tmp, file[k]) /\ k \notin Uris
    BY <1>4, Names DEF Copy
  <2> QED
    BY <1>1, <1>4, <2>1, Fix169Is
<1> QED
  BY <1>2, <1>3, <1>4 DEF AllKeys

LEMMA EmptyFile == IsFile(NoRecords) /\ In(NoRecords) = {}
BY DEF IsFile, NoRecords, In

LEMMA StagesAre ==
  Stages = {"open", "check", "unlink", "rename", "stamp", "serve",
            "169", "263", "281", "154", "575"}
<1>1. /\ Fixes[1] = "169" /\ Fixes[2] = "263" /\ Fixes[3] = "281" /\ Fixes[4] = "154"
      /\ Fixes[5] = "575"
  BY DEF Fixes
<1>2. \A n \in 1 .. 5 : n = 1 \/ n = 2 \/ n = 3 \/ n = 4 \/ n = 5
  OBVIOUS
<1>3. {Fixes[n] : n \in 1 .. 5} = {"169", "263", "281", "154", "575"}
  <2>1. \A n \in 1 .. 5 : Fixes[n] \in {"169", "263", "281", "154", "575"}
    BY <1>1, <1>2
  <2>2. \A f \in {"169", "263", "281", "154", "575"} : \E n \in 1 .. 5 : Fixes[n] = f
    BY <1>1
  <2> QED
    BY <2>1, <2>2
<1> QED
  BY <1>3 DEF Stages

LEMMA TypesKept ==
  ASSUME RepairTypes, RepairPlaces, [RepairNext]_repairVars
  PROVE  RepairTypes'
<1>1. CASE RepairNext
  <2>1. CASE Open
    BY <2>1, StagesAre DEF Open, RepairTypes, Versions, Walks
  <2>2. CASE Check
    BY <2>2, StagesAre DEF Check, RepairTypes, Walks
  <2>3. CASE Stamp
    BY <2>3, StagesAre DEF Stamp, RepairTypes, Versions, Walks
  <2>4. CASE CopyEnds
    BY <2>4, EmptyFile, StagesAre DEF CopyEnds, RepairTypes, Walks
  <2>5. CASE Unlink
    BY <2>5, EmptyFile, StagesAre DEF Unlink, RepairTypes, Versions, Walks
  <2>6. CASE Rename
    BY <2>6, EmptyFile, StagesAre DEF Rename, RepairTypes, Walks
  <2>7. CASE Again
    BY <2>7, StagesAre DEF Again, RepairTypes, Walks
  <2>8. CASE Dies
    <3>1. hand = NONE \/ hand.from \in Keys
      BY DEF RepairTypes, Looked
    <3> QED
      BY <2>8, <3>1, StagesAre DEF Dies, RepairTypes
  <2>9. CASE PutBackFails
    BY <2>9 DEF PutBackFails, RepairTypes, Looked
  <2>10. CASE PutBackRecord
    <3>1. IsFile(file') /\ hand.key \in AllKeys
      BY <2>10, PutBackIs DEF AllKeys
    <3> QED
      BY <2>10, <3>1 DEF PutBackRecord, RepairTypes
  <2>11. ASSUME NEW k \in AllKeys, Copy(k) PROVE RepairTypes'
    BY <2>11, CopyIs DEF Copy, RepairTypes
  <2>12. ASSUME NEW f \in Walks \cup {"169"}, Skip(f) \/ FixBegins(f) \/ FixFails(f)
         PROVE  RepairTypes'
    <3>1. After(f) \in Stages /\ f \in Stages
      BY AfterIs, StagesAre DEF Walks
    <3>2. In(file) \subseteq AllKeys
      BY DEF In
    <3>3. CASE FixBegins(f)
      BY <3>2, <3>3 DEF FixBegins, RepairTypes
    <3>4. CASE Skip(f) \/ FixFails(f)
      <4>1. /\ stage' \in Stages /\ ~walking /\ hand = NONE /\ failed' \in BOOLEAN
            /\ UNCHANGED <<file, version, far, remote, tmp, walking, seen, ahead, hand, lost,
                           missed, origin>>
        BY <3>1, <3>4 DEF Skip, FixFails, RepairTypes
      <4> QED
        BY <4>1 DEF RepairTypes
    <3> QED
      BY <2>12, <3>3, <3>4
  <2>13. ASSUME NEW f \in Walks, FixEnds(f) PROVE RepairTypes'
    <3>1. After(f) \in Stages
      BY AfterIs, StagesAre DEF Walks
    <3> QED
      BY <2>13, <3>1 DEF FixEnds, RepairTypes
  <2>14. ASSUME NEW f \in Walks, NEW k \in AllKeys, Take(f, k) PROVE RepairTypes'
    <3>1. CASE file' = file /\ hand' = hand
      BY <2>14, <3>1 DEF Take, RepairTypes
    <3>2. CASE /\ k \in Looked /\ IsRecord(k, file[k]) /\ IsFile(file')
               /\ hand' = HandOf(f, k, file[k])
      <4>1. hand' # NONE => /\ hand'.from \in Looked /\ hand'.key \in Looked
                            /\ IsRecord(hand'.key, hand'.rec)
        BY <3>2, HandOfIs
      <4> QED
        BY <2>14, <3>2, <4>1 DEF Take, RepairTypes, Looked
    <3> QED
      BY <2>14, <3>1, <3>2, TakeIs
  <2> QED
    BY <1>1, <2>1, <2>2, <2>3, <2>4, <2>5, <2>6, <2>7, <2>8, <2>9, <2>10, <2>11, <2>12, <2>13,
       <2>14, RepairCases
<1>2. CASE UNCHANGED repairVars
  BY <1>2 DEF repairVars, RepairTypes
<1> QED
  BY <1>1, <1>2

\* number_records of an empty file (seeks.cpp 590).
LEMMA Counts ==
  /\ NumberRecords \in Int
  /\ In(file) = {} => ~(NumberRecords > 1)
<1>1. IsFiniteSet(In(file))
  <2>1. IsFiniteSet(AllKeys) /\ In(file) \subseteq AllKeys
    BY RepairAssumption DEF AllKeys, In
  <2> QED
    BY <2>1, FS_Subset
<1>2. Cardinality(In(file)) \in Nat
  BY <1>1, FS_CardinalityType
<1>3. In(file) = {} => Cardinality(In(file)) = 0
  BY FS_EmptySet
<1> QED
  BY <1>2, <1>3 DEF NumberRecords

\* Only the walk of fix 169 comes to the unlinking, and no fix comes back to fix 169.
LEMMA AfterPlaces ==
  \A f \in Walks \cup {"169"} : After(f) \notin {"169", "unlink", "rename", "open", "serve"}
BY AfterIs DEF Walks

LEMMA PlacesKept ==
  ASSUME RepairTypes, RepairPlaces, [RepairNext]_repairVars
  PROVE  RepairPlaces'
<1>1. CASE RepairNext
  <2>1. CASE Open
    BY <2>1 DEF Open, RepairPlaces
  <2>2. CASE Check
    <3>1. stage' = "169" /\ ~remote => In(file) # {}
      BY <2>2, Counts DEF Check
    <3>2. stage' \in {"169", "stamp"} /\ ~walking
      BY <2>2 DEF Check, RepairTypes, Walks
    <3> QED
      BY <2>2, <3>1, <3>2 DEF Check, RepairPlaces, In
  <2>3. CASE Stamp
    BY <2>3 DEF Stamp, RepairPlaces
  <2>4. CASE CopyEnds
    BY <2>4 DEF CopyEnds, RepairPlaces, In
  <2>5. CASE Unlink
    BY <2>5, EmptyFile DEF Unlink, RepairPlaces, In
  <2>6. CASE Rename
    BY <2>6 DEF Rename, RepairPlaces
  <2>7. CASE Again
    BY <2>7 DEF Again, RepairPlaces
  <2>8. CASE Dies
    BY <2>8 DEF Dies, RepairPlaces
  <2>9. CASE PutBackRecord \/ PutBackFails
    <3>1. /\ stage' = stage /\ stage \notin {"169", "unlink", "rename"}
          /\ UNCHANGED <<version, remote, seen, walking>>
      BY <2>9 DEF PutBackRecord, PutBackFails, RepairTypes, Walks
    <3> QED
      BY <3>1 DEF RepairPlaces
  <2>10. ASSUME NEW k \in AllKeys, Copy(k) PROVE RepairPlaces'
    BY <2>10 DEF Copy, RepairPlaces, In
  <2>11. ASSUME NEW f \in Walks \cup {"169"}, Skip(f) \/ FixFails(f) PROVE RepairPlaces'
    <3>1. /\ stage' \notin {"169", "unlink", "rename", "open", "serve"}
          /\ stage \notin {"open", "serve"}
          /\ UNCHANGED <<version, remote, seen>>
      BY <2>11, AfterPlaces DEF Skip, FixFails, Walks
    <3> QED
      BY <3>1 DEF RepairPlaces
  <2>12. ASSUME NEW f \in Walks \cup {"169"}, FixBegins(f) PROVE RepairPlaces'
    <3>1. /\ stage' = f /\ stage = f /\ f \notin {"unlink", "rename", "open", "serve"}
          /\ ahead' = In(file) /\ UNCHANGED <<file, version, remote, seen>>
      BY <2>12 DEF FixBegins, Walks
    <3>2. f = "169" => ~remote /\ version = 0
      BY <2>12, <3>1 DEF FixBegins, Applies, RepairPlaces
    <3> QED
      BY <3>1, <3>2 DEF RepairPlaces, In
  <2>13. ASSUME NEW f \in Walks, FixEnds(f) PROVE RepairPlaces'
    <3>1. /\ stage' \notin {"169", "unlink", "rename", "open", "serve"}
          /\ stage \notin {"open", "serve"}
          /\ UNCHANGED <<version, remote, seen>>
      BY <2>13, AfterPlaces DEF FixEnds, Walks
    <3> QED
      BY <3>1 DEF RepairPlaces
  <2>14. ASSUME NEW f \in Walks, NEW k \in AllKeys, Take(f, k) PROVE RepairPlaces'
    <3>1. /\ stage' = stage /\ stage \notin {"169", "unlink", "rename", "open", "serve"}
          /\ UNCHANGED <<version, remote, seen>>
      BY <2>14 DEF Take, Walks
    <3> QED
      BY <3>1 DEF RepairPlaces
  <2> QED
    BY <1>1, <2>1, <2>2, <2>3, <2>4, <2>5, <2>6, <2>7, <2>8, <2>9, <2>10, <2>11, <2>12, <2>13,
       <2>14, RepairCases
<1>2. CASE UNCHANGED repairVars
  BY <1>2 DEF repairVars, RepairPlaces, In
<1> QED
  BY <1>1, <1>2

LEMMA CopiedKept ==
  ASSUME RepairTypes, RepairPlaces, CopiedInv, [RepairNext]_repairVars
  PROVE  CopiedInv'
<1>1. CASE RepairNext
  <2>1. CASE CopyEnds
    <3>1. /\ stage = "169" /\ walking /\ ahead = {} /\ ahead' = {} /\ file' = file
          /\ (stage' = "unlink" /\ tmp' = tmp) \/ stage' = "263"
      BY <2>1 DEF CopyEnds
    <3> QED
      BY <3>1 DEF CopiedInv
  <2>2. ASSUME NEW k \in AllKeys, Copy(k) PROVE CopiedInv'
    <3>1. /\ stage = "169" /\ walking /\ ahead' = ahead \ {k} /\ file' = file
          /\ stage' = stage /\ walking' = walking
      BY <2>2 DEF Copy
    <3>2. /\ Grown(tmp, tmp')
          /\ k \in Looked => \A q \in DOMAIN file[k] : WordsOf[q] = WordsUnder[k] =>
                               tmp'[Exactly(q)] # NONE /\ q \in DOMAIN tmp'[Exactly(q)]
          /\ k \in Uris \ Unreadable => tmp'[k] # NONE
      BY <2>2, CopyIs
    <3>3. ASSUME NEW j \in Looked \ ahead', file[j] # NONE,
                 NEW q \in DOMAIN file[j], WordsOf[q] = WordsUnder[j]
          PROVE  tmp'[Exactly(q)] # NONE /\ q \in DOMAIN tmp'[Exactly(q)]
      <4>1. CASE j = k
        BY <3>2, <3>3, <4>1
      <4>2. CASE j \in Looked \ ahead
        <5>1. tmp[Exactly(q)] # NONE /\ q \in DOMAIN tmp[Exactly(q)]
          BY <3>1, <3>3, <4>2 DEF CopiedInv
        <5>2. q \in Queries
          BY <3>3 DEF RepairTypes, IsFile, IsRecord, Looked, AllKeys
        <5>3. Exactly(q) \in AllKeys
          BY <5>2, ExactlyIs DEF Looked, AllKeys
        <5> QED
          BY <3>2, <5>1, <5>3 DEF Grown
      <4> QED
        BY <3>1, <3>3, <4>1, <4>2
    <3>4. ASSUME NEW j \in Uris \ (Unreadable \cup ahead'), file[j] # NONE
          PROVE  tmp'[j] # NONE
      <4>1. CASE j = k
        BY <3>2, <3>4, <4>1
      <4>2. CASE j \notin ahead
        BY <3>1, <3>2, <3>4, <4>2 DEF CopiedInv, Grown, AllKeys
      <4> QED
        BY <3>1, <3>4, <4>1, <4>2
    <3> QED
      BY <3>1, <3>3, <3>4 DEF CopiedInv
  <2>3. ASSUME NEW f \in Walks \cup {"169"}, Skip(f) \/ FixFails(f) PROVE CopiedInv'
    <3>1. stage' \notin {"169", "unlink"}
      BY <2>3, AfterPlaces DEF Skip, FixFails
    <3> QED
      BY <3>1 DEF CopiedInv
  <2>4. ASSUME NEW f \in Walks \cup {"169"}, FixBegins(f) PROVE CopiedInv'
    <3>1. ahead' = In(file) /\ file' = file
      BY <2>4 DEF FixBegins
    <3>2. \A k \in (Looked \cup Uris) \ ahead' : file'[k] = NONE
      BY <3>1 DEF In, Looked, AllKeys
    <3> QED
      BY <3>2 DEF CopiedInv
  <2>5. CASE Check
    <3>1. stage' \in {"169", "stamp"} /\ ~walking'
      BY <2>5 DEF Check, RepairTypes, Walks
    <3> QED
      BY <3>1 DEF CopiedInv
  <2>6. CASE Open \/ Stamp \/ Unlink \/ Rename \/ Again \/ Dies
    <3>1. stage' \notin {"169", "unlink"}
      BY <2>6 DEF Open, Stamp, Unlink, Rename, Again, Dies
    <3> QED
      BY <3>1 DEF CopiedInv
  <2>7. CASE PutBackRecord \/ PutBackFails
    <3>1. stage' \notin {"169", "unlink"}
      BY <2>7 DEF PutBackRecord, PutBackFails, RepairTypes, Walks
    <3> QED
      BY <3>1 DEF CopiedInv
  <2>8. ASSUME NEW f \in Walks, FixEnds(f) \/ \E k \in AllKeys : Take(f, k) PROVE CopiedInv'
    <3>1. stage' \notin {"169", "unlink"}
      BY <2>8, AfterPlaces DEF FixEnds, Take, Walks
    <3> QED
      BY <3>1 DEF CopiedInv
  <2> QED
    BY <1>1, <2>1, <2>2, <2>3, <2>4, <2>5, <2>6, <2>7, <2>8, RepairCases
<1>2. CASE UNCHANGED repairVars
  BY <1>2 DEF repairVars, CopiedInv
<1> QED
  BY <1>1, <1>2

\* The stages that come after a fix, and when a fix is left out (seeks.cpp 593-634).
LEMMA LaterIs ==
  ASSUME NEW f \in Walks
  PROVE  /\ Later(f) \cap {"open", "check", "169", "263", "unlink", "rename", "serve"} = {}
         /\ "stamp" \in Later(f) /\ f \notin Later(f)
         /\ \A g \in Walks \cup {"169"} : After(g) \in Later(f) => g = f \/ g \in Later(f)
         /\ Since(f) \in 3 .. 6
         /\ ~remote => (Applies(f) <=> seen < Since(f))
<1>1. CASE f = "263"
  BY <1>1, AfterIs DEF Later, Since, Applies, Walks
<1>2. CASE f = "281"
  BY <1>2, AfterIs DEF Later, Since, Applies, Walks
<1>3. CASE f = "154"
  BY <1>3, AfterIs DEF Later, Since, Applies, Walks
<1>4. CASE f = "575"
  BY <1>4, AfterIs DEF Later, Since, Applies, Walks
<1> QED
  BY <1>1, <1>2, <1>3, <1>4 DEF Walks

\* A step that leaves the records alone and does not end a walk.
LEMMA NothingFixed ==
  ASSUME FixedInv, file' = file, hand' \in {hand, NONE},
         ~failed' /\ ~missed' => ~failed /\ ~missed,
         ~failed' /\ ~missed' => \A f \in Walks : Settled(f)' => Settled(f),
         ~walking' \/ stage' \notin Walks
  PROVE  FixedInv'
BY DEF FixedInv, HasFixed, In

LEMMA FixedKept ==
  ASSUME RepairTypes, RepairPlaces, FixedInv, [RepairNext]_repairVars
  PROVE  FixedInv'
<1>0. version \in Int
  BY DEF RepairTypes, Versions
<1>1. CASE RepairNext
  <2>1. CASE Open \/ Again \/ Dies
    <3>1. \A f \in Walks : Settled(f)' => Settled(f)
      BY <2>1, LaterIs DEF Open, Again, Dies, Settled, Since
    <3>2. ~walking' \/ stage' \notin Walks
      BY <2>1 DEF Open, Again, Dies, Walks
    <3> QED
      BY <2>1, <3>1, <3>2, NothingFixed DEF Open, Again, Dies
  <2>2. CASE Check
    <3>1. ASSUME ~missed', NEW f \in Walks, Settled(f)' PROVE Settled(f)
      <4>1. CASE version >= Since(f)
        BY <4>1 DEF Settled
      <4>2. CASE ~remote /\ stage' = "stamp"
        <5>1. seen = 6
          <6>1. missed' = (missed \/ (~remote /\ NumberRecords <= 1 /\ seen # 6))
            BY <2>2 DEF Check
          <6>2. ~remote /\ ~(NumberRecords <= 1 /\ seen # 6)
            BY <2>2, <3>1, <4>2, <6>1 DEF Check
          <6>3. ~(NumberRecords > 1 /\ seen # 6)
            BY <2>2, <4>2 DEF Check
          <6>4. NumberRecords \in Int
            BY Counts
          <6> HIDE DEF NumberRecords
          <6> QED
            BY <6>2, <6>3, <6>4
        <5>2. version = 6
          BY <2>2, <4>2, <5>1 DEF Check, RepairPlaces
        <5> QED
          BY <5>2, LaterIs DEF Settled
      <4> QED
        BY <2>2, <3>1, <4>1, <4>2, LaterIs DEF Check, Settled, Since
    <3>2. ~walking' \/ stage' \notin Walks
      BY <2>2 DEF Check, Walks
    <3> QED
      BY <2>2, <3>1, <3>2, NothingFixed DEF Check
  <2>3. CASE Stamp
    <3>1. ASSUME NEW f \in Walks, Settled(f)' PROVE Settled(f)
      <4>1. CASE remote \/ version' = version
        <5>1. version' = version /\ stage' = "serve"
          BY <2>3, <4>1 DEF Stamp
        <5> QED
          BY <3>1, <5>1, LaterIs DEF Settled, Since
      <4>2. CASE ~remote
        BY <2>3, <4>2, LaterIs DEF Stamp, Settled
      <4> QED
        BY <4>1, <4>2
    <3>2. ~walking' \/ stage' \notin Walks
      BY <2>3 DEF Stamp, Walks
    <3> QED
      BY <2>3, <3>1, <3>2, NothingFixed DEF Stamp
  <2>4. CASE CopyEnds \/ \E k \in AllKeys : Copy(k)
    <3>1. \A f \in Walks : Settled(f)' => Settled(f)
      BY <2>4, LaterIs DEF CopyEnds, Copy, Settled, Since
    <3>2. ~walking' \/ stage' \notin Walks
      BY <2>4 DEF CopyEnds, Copy, Walks
    <3> QED
      BY <2>4, <3>1, <3>2, NothingFixed DEF CopyEnds, Copy
  <2>5. CASE Unlink
    <3>1. In(file') = {} /\ hand' = NONE
      BY <2>5, EmptyFile DEF Unlink, RepairTypes, Walks
    <3> QED
      BY <3>1 DEF FixedInv, HasFixed, In
  <2>6. CASE Rename
    <3>1. version' = 0 /\ ~walking' /\ stage' = "263"
      BY <2>6 DEF Rename, RepairPlaces, RepairTypes, Walks
    <3>2. \A f \in Walks : ~Settled(f)'
      BY <3>1, LaterIs DEF Settled, Since
    <3> QED
      BY <3>1, <3>2 DEF FixedInv
  <2>7. CASE PutBackFails \/ \E f \in Walks \cup {"169"} : FixFails(f)
    BY <2>7 DEF PutBackFails, FixFails, FixedInv
  <2>8. ASSUME NEW f \in Walks \cup {"169"}, Skip(f) PROVE FixedInv'
    <3>1. ASSUME NEW g \in Walks, Settled(g)' PROVE Settled(g)
      <4>1. CASE version >= Since(g)
        BY <4>1 DEF Settled
      <4>2. CASE ~remote /\ After(f) \in Later(g)
        <5>1. CASE f \in Later(g)
          BY <2>8, <4>2, <5>1 DEF Skip, Settled
        <5>2. CASE f = g
          <6>1. ~Applies(g) /\ seen = version
            BY <2>8, <4>2, <5>2 DEF Skip, RepairPlaces, Walks
          <6> QED
            BY <1>0, <4>2, <6>1, LaterIs DEF Settled
        <5> QED
          BY <4>2, <5>1, <5>2, LaterIs
      <4> QED
        BY <2>8, <3>1, <4>1, <4>2 DEF Skip, Settled, Since
    <3> QED
      BY <2>8, <3>1, NothingFixed DEF Skip
  <2>9. ASSUME NEW f \in Walks \cup {"169"}, FixBegins(f) PROVE FixedInv'
    <3>1. /\ hand = NONE /\ hand' = NONE /\ file' = file /\ ahead' = In(file)
          /\ UNCHANGED <<stage, remote, version, failed, missed>>
      BY <2>9 DEF FixBegins, RepairTypes
    <3>2. \A g \in Walks : HasFixed(g, Looked \ ahead)'
      BY <3>1 DEF HasFixed, In
    <3> QED
      BY <3>1, <3>2 DEF FixedInv, HasFixed, Settled, In
  <2>10. CASE PutBackRecord
    <3> DEFINE j == hand.key
    <3>1. /\ j \in Keys /\ IsRecord(j, hand.rec)
          /\ file'[j] = IF file[j] = NONE THEN hand.rec ELSE MergedRecord(file[j], hand.rec)
          /\ \A k \in AllKeys \ {j} : file'[k] = file[k]
      BY <2>10, PutBackIs
    <3>2. ASSUME NEW f \in Walks, Left(f, hand.rec), file[j] = NONE \/ Left(f, file[j])
          PROVE  Left(f, file'[j])
      <4>1. file[j] # NONE => IsRecord(j, file[j])
        BY <3>1 DEF RepairTypes, IsFile, AllKeys
      <4> QED
        BY <3>1, <3>2, <4>1, MergedLeft
    <3> HIDE DEF j
    <3>3. hand # NONE /\ hand' = NONE /\ UNCHANGED <<stage, version, remote, walking, failed>>
      BY <2>10 DEF PutBackRecord
    <3>4. ASSUME NEW f \in Walks, HasFixed(f, Looked) PROVE HasFixed(f, Looked)'
      BY <3>1, <3>2, <3>3, <3>4 DEF HasFixed, In, Looked, AllKeys
    <3>5. ASSUME NEW f \in Walks, HasFixed(f, Looked \ ahead), ~missed'
          PROVE  HasFixed(f, Looked \ ahead)'
      <4>1. ahead' = ahead \cup {j} \/ (ahead' = ahead \ {j} /\ j \notin ahead)
        BY <2>10, <3>5 DEF PutBackRecord, j
      <4>2. CASE ahead' = ahead \cup {j}
        BY <3>1, <3>3, <3>5, <4>2 DEF HasFixed, In, Looked, AllKeys
      <4>3. CASE ahead' = ahead \ {j} /\ j \notin ahead
        BY <3>1, <3>2, <3>3, <3>5, <4>3 DEF HasFixed, In, Looked, AllKeys
      <4> QED
        BY <4>1, <4>2, <4>3
    <3>6. ~missed' => ~missed
      BY <2>10 DEF PutBackRecord
    <3> QED
      BY <3>3, <3>4, <3>5, <3>6 DEF FixedInv, Settled
  <2>11. ASSUME NEW f \in Walks, FixEnds(f) PROVE FixedInv'
    <3>1. /\ file' = file /\ hand' = hand /\ ahead = {} /\ stage = f /\ walking /\ ~walking'
          /\ stage' = After(f) /\ UNCHANGED <<version, remote, failed, missed>>
      BY <2>11 DEF FixEnds
    <3>2. ASSUME NEW g \in Walks, Settled(g)', ~failed, ~missed PROVE HasFixed(g, Looked)
      <4>1. CASE Settled(g)
        BY <3>2, <4>1 DEF FixedInv
      <4>2. CASE g = f
        BY <3>1, <3>2, <4>2 DEF FixedInv, HasFixed
      <4>3. Settled(g) \/ g = f
        BY <3>1, <3>2, LaterIs DEF Settled, Since
      <4> QED
        BY <4>1, <4>2, <4>3
    <3> QED
      BY <3>1, <3>2 DEF FixedInv, HasFixed, In
  <2>12. ASSUME NEW f \in Walks, NEW k \in AllKeys, Take(f, k) PROVE FixedInv'
    <3>1. /\ stage = f /\ walking /\ hand = NONE /\ ahead' = ahead \ {k}
          /\ UNCHANGED <<stage, walking, version, remote, failed, missed>>
      BY <2>12 DEF Take
    <3>2. CASE /\ file' = file /\ hand' = hand
               /\ k \in Looked /\ file[k] # NONE => Left(f, file[k])
      <4>1. ASSUME NEW g \in Walks, HasFixed(g, Looked) PROVE HasFixed(g, Looked)'
        BY <3>2, <4>1 DEF HasFixed, In
      <4>2. ASSUME HasFixed(f, Looked \ ahead) PROVE HasFixed(f, Looked \ ahead)'
        BY <3>1, <3>2, <4>2 DEF HasFixed, In
      <4> QED
        BY <3>1, <4>1, <4>2 DEF FixedInv, Settled
    <3>3. CASE /\ k \in Looked /\ k \in Keys /\ file[k] # NONE /\ IsRecord(k, file[k])
               /\ file'[k] = NONE /\ \A j \in AllKeys \ {k} : file'[j] = file[j]
               /\ hand' = HandOf(f, k, file[k])
      <4>1. hand' # NONE => Mends(f, k, file[k], hand'.rec)
        BY <3>3, HandOfIs
      <4>2. hand' # NONE => /\ Left(f, hand'.rec)
                            /\ \A g \in Walks : Left(g, file[k]) => Left(g, hand'.rec)
        BY <4>1 DEF Mends
      <4>3. ASSUME NEW g \in Walks, HasFixed(g, Looked) PROVE HasFixed(g, Looked)'
        BY <3>3, <4>2, <4>3 DEF HasFixed, In
      <4>4. ASSUME HasFixed(f, Looked \ ahead) PROVE HasFixed(f, Looked \ ahead)'
        BY <3>1, <3>3, <4>2, <4>4 DEF HasFixed, In
      <4> QED
        BY <3>1, <4>3, <4>4 DEF FixedInv, Settled
    <3> QED
      BY <2>12, <3>2, <3>3, TakeIs
  <2> QED
    BY <1>1, <2>1, <2>2, <2>3, <2>4, <2>5, <2>6, <2>7, <2>8, <2>9, <2>10, <2>11, <2>12,
       RepairCases
<1>2. CASE UNCHANGED repairVars
  BY <1>2 DEF repairVars, FixedInv, HasFixed, Settled, In
<1> QED
  BY <1>1, <1>2

\* What is found stays to be found.
LEMMA StillKept ==
  ASSUME KeptInv, origin' = origin,
         lost' = {} => lost = {} /\ \A s : Found(s) => Found(s)',
         \A k \in Uris \ Unreadable : Visited(k) => Visited(k)'
  PROVE  KeptInv'
BY DEF KeptInv

LEMMA KeptKept ==
  ASSUME RepairTypes, RepairPlaces, CopiedInv, KeptInv, [RepairNext]_repairVars
  PROVE  KeptInv'
<1>1. ASSUME file' = file, hand' = hand, tmp' = tmp, lost' = lost, origin' = origin
      PROVE  KeptInv'
  BY <1>1 DEF KeptInv, Found, Visited, InFile, Gone, In
<1>2. CASE RepairNext
  <2>1. CASE Open \/ Check \/ Stamp \/ Again
    BY <1>1, <2>1 DEF Open, Check, Stamp, Again
  <2>2. ASSUME NEW f \in Walks \cup {"169"},
               Skip(f) \/ FixBegins(f) \/ FixFails(f) \/ FixEnds(f)
        PROVE  KeptInv'
    BY <1>1, <2>2 DEF Skip, FixBegins, FixFails, FixEnds
  <2>3. CASE Dies
    <3>1. file' = file /\ tmp' = tmp /\ hand' = NONE /\ origin' = origin
      BY <2>3 DEF Dies
    <3>2. lost' = {} => lost = {} /\ hand = NONE
      BY <2>3 DEF Dies
    <3>3. hand = NONE => \A s : Found(s) => Found(s)'
      BY <3>1 DEF Found, InFile, Gone, In
    <3>4. \A k \in Uris : Visited(k) => Visited(k)'
      BY <3>1 DEF Visited, Gone, In
    <3> QED
      BY <3>1, <3>2, <3>3, <3>4, StillKept
  <2>4. CASE CopyEnds \/ \E k \in AllKeys : Copy(k)
    <3>1. file' = file /\ hand' = hand /\ lost' = lost /\ origin' = origin
      BY <2>4 DEF CopyEnds, Copy
    <3>2. ~Gone
      BY <2>4 DEF CopyEnds, Copy, RepairPlaces, Gone
    <3>3. \A s : Found(s) => Found(s)'
      BY <3>1, <3>2 DEF Found, InFile
    <3>4. \A k \in Uris : Visited(k) => Visited(k)'
      BY <3>1, <3>2 DEF Visited
    <3> QED
      BY <3>1, <3>3, <3>4, StillKept
  <2>5. CASE Unlink
    <3>1. /\ In(file') = {} /\ Gone' /\ hand = NONE /\ stage = "unlink" /\ ahead = {}
          /\ tmp' = tmp /\ lost' = lost /\ origin' = origin
      BY <2>5, EmptyFile DEF Unlink, RepairTypes, RepairPlaces, Walks, Gone, In
    <3>2. ASSUME NEW s, InFile(file, s) PROVE InFile(tmp, s)
      <4>1. PICK k \in Looked : file[k] # NONE /\ InRecord(k, file[k], s)
        BY <3>2 DEF InFile
      <4>2. PICK q \in DOMAIN file[k] \cap Readable : Spelled(q) = s /\ WordsOf[q] = WordsUnder[k]
        BY <4>1 DEF InRecord
      <4>3. tmp[Exactly(q)] # NONE /\ q \in DOMAIN tmp[Exactly(q)]
        BY <3>1, <4>1, <4>2 DEF CopiedInv
      <4>4. q \in Queries
        BY <4>1, <4>2 DEF RepairTypes, IsFile, IsRecord, Looked, AllKeys
      <4>5. Exactly(q) \in Looked /\ WordsUnder[Exactly(q)] = WordsOf[q]
        BY <4>4, ExactlyIs
      <4>6. InRecord(Exactly(q), tmp[Exactly(q)], s)
        BY <4>2, <4>3, <4>5 DEF InRecord
      <4> QED
        BY <4>3, <4>5, <4>6 DEF InFile
    <3>3. \A s : Found(s) => Found(s)'
      BY <3>1, <3>2 DEF Found, InFile
    <3>4. \A k \in Uris \ Unreadable : Visited(k) => Visited(k)'
      BY <3>1 DEF Visited, CopiedInv
    <3> QED
      BY <3>1, <3>3, <3>4, StillKept
  <2>6. CASE Rename
    <3>1. CASE file' = file /\ tmp' = tmp
      BY <1>1, <2>6, <3>1 DEF Rename
    <3>2. CASE file' = tmp
      <4>1. In(file) = {} /\ hand = NONE /\ hand' = NONE /\ lost' = lost /\ origin' = origin
        BY <2>6 DEF Rename, RepairPlaces, RepairTypes, Walks
      <4>2. \A s : ~InFile(file, s)
        BY <4>1 DEF InFile, In, Looked, AllKeys
      <4>3. \A s : Found(s) => Found(s)'
        BY <3>2, <4>1, <4>2 DEF Found, InFile
      <4>4. \A k \in Uris : Visited(k) => Visited(k)'
        BY <3>2, <4>1 DEF Visited, In, AllKeys
      <4> QED
        BY <4>1, <4>3, <4>4, StillKept
    <3> QED
      BY <2>6, <3>1, <3>2 DEF Rename
  <2>7. CASE PutBackFails
    <3>1. lost' # {} /\ file' = file /\ tmp' = tmp /\ hand' = NONE /\ origin' = origin
      BY <2>7 DEF PutBackFails
    <3>2. \A k \in Uris : Visited(k) => Visited(k)'
      BY <3>1 DEF Visited, Gone, In
    <3> QED
      BY <3>1, <3>2, StillKept
  <2>8. CASE PutBackRecord
    <3>1. /\ hand.key \in Looked /\ hand.key \in Keys
          /\ Grown(file, file')
          /\ file'[hand.key] # NONE /\ DOMAIN hand.rec \subseteq DOMAIN file'[hand.key]
      BY <2>8, PutBackIs
    <3>2. hand # NONE /\ lost' = lost /\ origin' = origin /\ ~Gone
      BY <2>8 DEF PutBackRecord, Gone
    <3>3. ASSUME NEW s, InRecord(hand.key, hand.rec, s) PROVE InFile(file', s)
      <4>1. InRecord(hand.key, file'[hand.key], s)
        BY <3>1, <3>3 DEF InRecord
      <4> QED
        BY <3>1, <4>1 DEF InFile
    <3>4. \A s : InFile(file, s) => InFile(file', s)
      BY <3>1, GrownKeeps
    <3>5. \A s : InFile(file, s)' <=> InFile(file', s)
      BY DEF InFile, InRecord
    <3>6. \A s : Found(s) => Found(s)'
      BY <3>2, <3>3, <3>4, <3>5 DEF Found
    <3>7. \A k \in Uris : Visited(k) => Visited(k)'
      BY <3>1, <3>2 DEF Visited, Grown, AllKeys
    <3> QED
      BY <3>2, <3>6, <3>7, StillKept
  <2>9. ASSUME NEW f \in Walks, NEW k \in AllKeys, Take(f, k) PROVE KeptInv'
    <3>1. hand = NONE /\ tmp' = tmp /\ lost' = lost /\ origin' = origin
      BY <2>9 DEF Take
    <3>2. CASE file' = file /\ hand' = hand
      BY <1>1, <3>1, <3>2
    <3>3. CASE /\ k \in Looked /\ k \in Keys /\ file[k] # NONE /\ IsRecord(k, file[k])
               /\ \A j \in AllKeys \ {k} : file'[j] = file[j]
               /\ hand' = HandOf(f, k, file[k])
      <4>1. /\ hand' # NONE => WordsUnder[hand'.key] = WordsUnder[k] /\ Mends(f, k, file[k], hand'.rec)
            /\ hand' = NONE => DOMAIN file[k] \cap Readable = {}
        BY <3>3, HandOfIs
      <4>2. ASSUME NEW s, InFile(file, s)
            PROVE  InFile(file', s) \/ (hand' # NONE /\ InRecord(hand'.key, hand'.rec, s))
        <5>1. PICK j \in Looked : file[j] # NONE /\ InRecord(j, file[j], s)
          BY <4>2 DEF InFile
        <5>2. CASE j # k
          <6>1. file'[j] = file[j]
            BY <3>3, <5>2 DEF Looked, AllKeys
          <6> QED
            BY <5>1, <6>1 DEF InFile
        <5>3. CASE j = k
          <6>1. PICK x \in DOMAIN file[k] \cap Readable : Spelled(x) = s /\ WordsOf[x] = WordsUnder[k]
            BY <5>1, <5>3 DEF InRecord
          <6>2. hand' # NONE
            BY <4>1, <6>1
          <6>3. PICK y \in DOMAIN hand'.rec \cap Readable :
                  Spelled(y) = Spelled(x) /\ WordsOf[y] = WordsOf[x]
            BY <4>1, <6>1, <6>2 DEF Mends
          <6>4. InRecord(hand'.key, hand'.rec, s)
            BY <4>1, <6>1, <6>2, <6>3 DEF InRecord
          <6> QED
            BY <6>2, <6>4
        <5> QED
          BY <5>2, <5>3
      <4>3. ~Gone
        BY <3>3 DEF Gone, In
      <4>4. \A s : InFile(file, s)' <=> InFile(file', s)
        BY DEF InFile, InRecord
      <4>5. \A s : InRecord(hand.key, hand.rec, s)' <=> InRecord(hand'.key, hand'.rec, s)
        BY DEF InRecord
      <4>6. \A s : Found(s) => Found(s)'
        BY <3>1, <4>2, <4>3, <4>4, <4>5 DEF Found
      <4>7. \A u \in Uris : Visited(u) => Visited(u)'
        BY <3>3, <4>3, Names DEF Visited, AllKeys
      <4> QED
        BY <3>1, <4>6, <4>7, StillKept
    <3> QED
      BY <2>9, <3>2, <3>3, TakeIs
  <2> QED
    BY <1>2, <2>1, <2>2, <2>3, <2>4, <2>5, <2>6, <2>7, <2>8, <2>9, RepairCases
<1>3. CASE UNCHANGED repairVars
  BY <1>1, <1>3 DEF repairVars
<1> QED
  BY <1>2, <1>3

LEMMA InitInv == RepairInit => RepairInv
<1> SUFFICES ASSUME RepairInit PROVE RepairInv
  OBVIOUS
<1>1. /\ stage = "open" /\ walking = FALSE /\ remote = FALSE /\ seen = 0 /\ ahead = {}
      /\ hand = NONE /\ lost = {} /\ failed = FALSE /\ missed = FALSE
      /\ far \in {0, 6} /\ tmp = NoRecords /\ origin = file
  BY DEF RepairInit
<1>2. PICK old \in OldFiles : file = old.recs /\ version = old.version
  BY DEF RepairInit
<1>3. /\ file = [k \in AllKeys |-> file[k]] /\ version \in Versions
      /\ \A k \in AllKeys : file[k] # NONE => IsRecord(k, file[k])
      /\ \A k \in Looked : file[k] # NONE =>
           /\ version >= 3 => Chomps(file[k])
           /\ version >= 4 => Unslashes(file[k])
           /\ version >= 5 => Converts(file[k])
           /\ version >= 6 => Lowers(file[k])
  BY <1>2, RepairAssumption DEF Looked, Versions
<1>4. RepairTypes
  BY <1>1, <1>3, EmptyFile, StagesAre DEF RepairTypes, IsFile, Versions
<1>5. RepairPlaces
  BY <1>1 DEF RepairPlaces
<1>6. FixedInv
  <2>1. ASSUME NEW f \in Walks, Settled(f), NEW k \in Looked, file[k] # NONE
        PROVE  Left(f, file[k])
    <3>1. version >= Since(f)
      BY <1>1, <2>1, LaterIs DEF Settled
    <3>2. CASE f = "263"
      BY <1>3, <2>1, <3>1, <3>2, LeftIs DEF Since
    <3>3. CASE f = "281"
      BY <1>3, <2>1, <3>1, <3>3, LeftIs DEF Since, Versions
    <3>4. CASE f = "154"
      BY <1>3, <2>1, <3>1, <3>4, LeftIs DEF Since
    <3>5. CASE f = "575"
      BY <1>3, <2>1, <3>1, <3>5, LeftIs DEF Since, Versions
    <3> QED
      BY <3>2, <3>3, <3>4, <3>5 DEF Walks
  <2> QED
    BY <1>1, <2>1 DEF FixedInv, HasFixed, In
<1>7. KeptInv
  <2>1. ASSUME NEW k \in Looked, origin[k] # NONE, NEW q \in DOMAIN origin[k] \cap Readable,
               origin[k][q].radius = 0
        PROVE  InFile(file, Spelled(q))
    <3>1. k \in Keys /\ k \in AllKeys /\ IsRecord(k, file[k]) /\ q \in DOMAIN file[k]
      BY <1>1, <1>3, <2>1 DEF Looked, AllKeys
    <3>2. q \in Queries /\ file[k][q].radius = WordsOf[q] - WordsUnder[k]
      BY <3>1 DEF IsRecord
    <3>3. WordsOf[q] = WordsUnder[k]
      BY <1>1, <2>1, <3>1, <3>2, Names
    <3>4. InRecord(k, file[k], Spelled(q))
      BY <2>1, <3>1, <3>3 DEF InRecord
    <3> QED
      BY <1>1, <2>1, <3>4 DEF InFile
  <2> QED
    BY <1>1, <2>1 DEF KeptInv, Found, Visited
<1>8. CopiedInv
  BY <1>1 DEF CopiedInv
<1> QED
  BY <1>4, <1>5, <1>6, <1>7, <1>8 DEF RepairInv

LEMMA NextInv == RepairInv /\ [RepairNext]_repairVars => RepairInv'
BY TypesKept, PlacesKept, FixedKept, KeptKept, CopiedKept DEF RepairInv

-----------------------------------------------------------------------------
(* Theorems.                                                                 *)

\* The repair keeps to what RepairInv says of the file, the new file, the walk and what
\* is in its hand (seeks.cpp 586-642, user_db_fix.cpp).
THEOREM RepairInvariant == RepairSpec => []RepairInv
BY InitInv, NextInv, PTL DEF RepairSpec

\* Whatever is in a file or in a hand is a record (db_query_record.cpp 499-728).
LEMMA InvTypes == RepairInv => RepairTypeOK
<1> SUFFICES ASSUME RepairInv PROVE RepairTypeOK
  OBVIOUS
<1>1. hand # NONE => /\ stage \in {"263", "281", "154", "575"} /\ walking
                     /\ hand.key \in Keys /\ DOMAIN hand.rec # {}
  BY DEF RepairInv, RepairTypes, Walks, IsRecord
<1>2. \A k \in AllKeys : file[k] # NONE => DOMAIN file[k] # {}
  BY RecordIs DEF RepairInv, RepairTypes, IsFile
<1> QED
  BY <1>1, <1>2 DEF RepairInv, RepairTypes, RepairTypeOK, Versions

THEOREM RepairTypeCorrect == RepairSpec => []RepairTypeOK
BY RepairInvariant, InvTypes, PTL

\* A local file that has the version of the program needs no fix (seeks.cpp 636-642).
LEMMA InvMarked == RepairInv => MarkedIsFixed
<1> SUFFICES ASSUME RepairInv, version = 6, ~failed, ~missed, NEW f \in Walks,
                    NEW k \in In(file) \ (Uris \cup Unreadable)
             PROVE  ~Rewrites(f, file[k])
  BY DEF MarkedIsFixed, Walks
<1>1. k \in Looked /\ k \in Keys /\ file[k] # NONE
  BY DEF In, AllKeys, Looked
<1>2. IsRecord(k, file[k])
  BY <1>1 DEF RepairInv, RepairTypes, IsFile, AllKeys
<1>3. Settled(f)
  BY LaterIs DEF Settled
<1>4. Left(f, file[k])
  BY <1>1, <1>3 DEF RepairInv, FixedInv, HasFixed
<1> QED
  BY <1>1, <1>2, <1>4, RestIs, RewritesIs

\* A query of radius 0 of the old file is somewhere (user_db_fix.cpp 83-154 and 709-729).
LEMMA InvExactKept == RepairInv => ExactKeptSafe
<1> SUFFICES ASSUME RepairInv, NEW k \in Keys, NEW q, k \notin Unreadable, lost = {},
                    q \in IF origin[k] = NONE THEN {} ELSE DOMAIN origin[k],
                    q \in Readable, origin[k][q].radius = 0
             PROVE  Somewhere(Spelled(q))
  BY DEF ExactKeptSafe
<1>1. ASSUME NEW j \in Keys, NEW rec, IsRecord(j, rec), NEW s, InRecord(j, rec, s)
      PROVE  s \in {Spelled(x) : x \in DOMAIN rec \ {NONE}} /\ s \in {Spelled(x) : x \in DOMAIN rec}
  <2>1. PICK x \in DOMAIN rec : Spelled(x) = s
    BY <1>1 DEF InRecord
  <2>2. x # NONE
    BY <1>1, <2>1, Names DEF IsRecord
  <2> QED
    BY <2>1, <2>2
<1>2. ASSUME NEW recs, IsFile(recs), NEW s, InFile(recs, s)
      PROVE  \E j \in In(recs) : s \in {Spelled(x) : x \in DOMAIN recs[j] \ {NONE}}
  <2>1. PICK j \in Looked : recs[j] # NONE /\ InRecord(j, recs[j], s)
    BY <1>2 DEF InFile
  <2>2. j \in Keys /\ j \in AllKeys /\ IsRecord(j, recs[j])
    BY <1>2, <2>1 DEF IsFile, Looked, AllKeys
  <2>3. s \in {Spelled(x) : x \in DOMAIN recs[j] \ {NONE}} /\ j \in In(recs)
    BY <1>1, <2>1, <2>2 DEF In
  <2> QED
    BY <2>3
<1>3. IsFile(file) /\ IsFile(tmp)
  BY DEF RepairInv, RepairTypes
<1>4. Found(Spelled(q))
  BY DEF RepairInv, KeptInv, Looked
<1>5. CASE InFile(file, Spelled(q))
  BY <1>2, <1>3, <1>5 DEF Somewhere
<1>6. CASE InFile(tmp, Spelled(q))
  BY <1>2, <1>3, <1>6 DEF Somewhere
<1>7. CASE hand # NONE /\ InRecord(hand.key, hand.rec, Spelled(q))
  <2>1. hand.key \in Keys /\ IsRecord(hand.key, hand.rec)
    BY <1>7 DEF RepairInv, RepairTypes
  <2> QED
    BY <1>1, <1>7, <2>1 DEF Somewhere
<1> QED
  BY <1>4, <1>5, <1>6, <1>7 DEF Found

\* So is a record of uri-capture (user_db_fix.cpp 142-149).
LEMMA InvUris == RepairInv => UrisSurvive
BY DEF RepairInv, KeptInv, Visited, UrisSurvive

\* What the repair promises: a file of this version is fixed, and nothing that was
\* captured exactly and no visit is lost, wherever the program dies.
THEOREM RepairSafeAlways == RepairSpec => []RepairSafe
<1>1. RepairInv => RepairSafe
  BY InvMarked, InvExactKept, InvUris DEF RepairSafe
<1> QED
  BY <1>1, RepairInvariant, PTL
================================================================================
