------------------------ MODULE UserDatabase_proofs ------------------------
(* What UserDatabase keeps, whatever the threads, the keys and the bounds. *)
(*                                                                         *)
(* TypeInv says of every record, and of every record that a thread has in  *)
(* hand, that it is of its plugin's kind, and of every thread that what is *)
(* left of its call is one that the calls can leave.  VisitsInv bounds the *)
(* hits of a URI by its visits, in the database and in the records that    *)
(* are about to be written.  NrInv says by how much the count of captured  *)
(* URIs may differ from their number at each step of a program of one      *)
(* thread.  WalkInv says where a record that a sweep owes is: before the   *)
(* iterator, in hand, or found.                                            *)
(* BookInv says that what the one thread of a program has in hand is what  *)
(* the database holds; by it, each step is one of RecordBook's or none.    *)
EXTENDS UserDatabase, FiniteSetTheorems, TLAPS

-----------------------------------------------------------------------------
(* Records.                                                                  *)

Data == UNION {[S -> Int] : S \in SUBSET Entries}
QueryHits == {d \in Data : /\ DOMAIN d # {}
                           /\ \A e \in DOMAIN d : e # Visits /\ <<e[1], NONE>> \in DOMAIN d}
DataOf(k) == IF k \in Uris THEN [{Visits} -> Int] ELSE QueryHits
\* A page has been visited as long as it is there; the hits of a host may have been
\* taken back by a thread that found more of them.
IsRecord(k, r) == /\ r = [time |-> r.time, data |-> r.data]
                  /\ r.time \in 0 .. MaxTime /\ r.data \in DataOf(k)
                  /\ k \in Uris \ Hosts => r.data[Visits] > 0

LEMMA Constants ==
  /\ \A q \in Queries : Halo[q] \subseteq Fragments /\ Exact[q] \in Fragments
  /\ \A k \in Uris : k \notin Fragments
  /\ \A k \in Fragments : k \notin Uris
  /\ NONE \notin Queries /\ NONE \notin Urls /\ NONE \notin Keys
  /\ Sweepers \subseteq Threads /\ Hosts \subseteq Uris
  /\ Retention \in Nat /\ MaxTime \in Nat /\ MaxCalls \in Nat /\ Word \in Nat
<1>1. /\ \A q \in Queries : Halo[q] \subseteq Fragments /\ Exact[q] \in Fragments
      /\ \A k \in Uris : k \notin Fragments
      /\ \A k \in Fragments : k \notin Uris
      /\ NONE \notin Queries /\ NONE \notin Urls /\ NONE \notin Keys
  BY RecordsAssumption DEF Keys
<1>2. /\ Sweepers \subseteq Threads /\ Hosts \subseteq Uris
      /\ Retention \in Nat /\ MaxTime \in Nat /\ MaxCalls \in Nat /\ Word \in Nat
  BY Zenon, UserDatabaseAssumption
<1> QED
  BY <1>1, <1>2

LEMMA DataIs ==
  ASSUME NEW k \in Keys
  PROVE  \A d : d \in DataOf(k) <=> IsDataOf(k, d)
<1>1. ASSUME NEW d, d \in DataOf(k) PROVE IsDataOf(k, d)
  <2>1. CASE k \in Uris
    BY <1>1, <2>1 DEF DataOf, IsDataOf
  <2>2. CASE k \notin Uris
    <3>1. d \in QueryHits
      BY <1>1, <2>2 DEF DataOf
    <3>2. PICK S \in SUBSET Entries : d \in [S -> Int]
      BY <3>1 DEF QueryHits, Data
    <3> QED
      BY <2>2, <3>1, <3>2 DEF QueryHits, IsDataOf
  <2> QED
    BY <2>1, <2>2
<1>2. ASSUME NEW d, IsDataOf(k, d) PROVE d \in DataOf(k)
  <2>1. CASE k \in Uris
    BY <1>2, <2>1 DEF DataOf, IsDataOf
  <2>2. CASE k \notin Uris
    <3>1. DOMAIN d \in SUBSET Entries
      BY <1>2, <2>2 DEF IsDataOf
    <3>2. d \in [DOMAIN d -> Int]
      BY <1>2 DEF IsDataOf
    <3>3. d \in Data
      BY <3>1, <3>2 DEF Data
    <3>4. d \in QueryHits
      BY <1>2, <2>2, <3>3 DEF QueryHits, IsDataOf
    <3> QED
      BY <2>2, <3>4 DEF DataOf
  <2> QED
    BY <2>1, <2>2
<1> QED
  BY <1>1, <1>2

\* A merge leaves a record of the same kind, and adds visits up.
LEMMA MergeKeeps ==
  ASSUME NEW k \in Keys, NEW old \in DataOf(k), NEW new \in DataOf(k)
  PROVE  /\ Merge(old, new) \in DataOf(k)
         /\ k \in Uris => Merge(old, new)[Visits] = old[Visits] + new[Visits]
<1> DEFINE both == DOMAIN old \cap DOMAIN new
           sum(e) == IF e = Visits THEN VisitsAddUp(old[e], new[e])
                     ELSE IF Cancels(e) THEN UrlAddsUp(old[e], new[e])
                     ELSE QueryStays(old[e], new[e])
           gone == {e \in both : Cancels(e) /\ sum(e) = 0}
           all == (DOMAIN old \cup DOMAIN new) \ gone
           m == [e \in all |-> IF e \in both THEN sum(e)
                               ELSE IF e \in DOMAIN old THEN old[e] ELSE new[e]]
<1>1. Merge(old, new) = m
  BY DEF Merge
<1>2. IsDataOf(k, old) /\ IsDataOf(k, new)
  BY DataIs
<1>3. \A e \in both : sum(e) \in Int
  BY <1>2 DEF IsDataOf, VisitsAddUp, UrlAddsUp, QueryStays
<1>4. \A e \in all : m[e] \in Int
  BY <1>2, <1>3 DEF IsDataOf
<1>5. DOMAIN m = all
  OBVIOUS
<1>6. CASE k \in Uris
  <2>1. ~Cancels(Visits) /\ DOMAIN old = {Visits} /\ DOMAIN new = {Visits}
    BY <1>2, <1>6 DEF Cancels, Visits, IsDataOf
  <2>2. all = {Visits} /\ m[Visits] = old[Visits] + new[Visits]
    BY <2>1 DEF VisitsAddUp
  <2>3. m \in [{Visits} -> Int]
    BY <1>4, <2>2
  <2> QED
    BY <1>1, <1>6, <2>2, <2>3 DEF DataOf
<1>7. CASE k \notin Uris
  <2>1. \A e \in DOMAIN old \cup DOMAIN new :
          e \in Entries \ {Visits} /\ <<e[1], NONE>> \in DOMAIN old \cup DOMAIN new
    BY <1>2, <1>7 DEF IsDataOf
  <2>2. \A e \in gone : e[2] # NONE
    BY DEF Cancels
  <2>3. \A q : <<q, NONE>> \notin gone
    BY <2>2
  <2> HIDE DEF gone, m, sum, both
  <2>4. \A e \in all : e \in Entries \ {Visits} /\ <<e[1], NONE>> \in all
    BY <2>1, <2>3
  <2>5. PICK e \in DOMAIN old : TRUE
    BY <1>2 DEF IsDataOf
  <2>6. <<e[1], NONE>> \in all
    BY <2>1, <2>3, <2>5
  <2>8. m = [x \in DOMAIN m |-> m[x]]
    BY DEF m
  <2>7. IsDataOf(k, m)
    BY <1>4, <1>5, <1>7, <2>4, <2>6, <2>8 DEF IsDataOf
  <2> QED
    BY <1>1, <1>7, <2>7, DataIs
<1> QED
  BY <1>6, <1>7

-----------------------------------------------------------------------------
(* Calls.                                                                    *)

\* What a call does, but for the visits of store_uri and the hits that remove_uri
\* takes back from a host.
QueryDeltas == UNION {{QueryData(q)} \cup {OneUrl(q, u, n) : u \in Urls, n \in Int} : q \in Queries}
Adds == [time : {-1}, data : QueryDeltas, do : {"add"}, key : Fragments]
Withdraws == [do : {"withdraw"}, key : Fragments, entry : Queries \X {NONE}]
Leaves == [do : {"leave"}, key : Uris \ Hosts, entry : {Visits}, half : {"uri"}]
          \cup [do : {"leave"}, key : Hosts, entry : {Visits}, half : {"host"}]
          \cup [do : {"leave"}, key : Uris, entry : {Visits}, half : {"alone"}]
Unclicks == [do : {"unclick"}, key : Fragments, entry : Queries \X Urls]
Thumbs == [do : {"thumb"}, key : Fragments, entry : Queries \X Urls, host : Urls \cup {NONE}]
Operations == Adds \cup Withdraws \cup Leaves \cup Unclicks \cup Thumbs

VisitOps == [time : {-1}, data : [{Visits} -> {1}], do : {"visit"}, key : Uris]
Discounts == [time : {-1}, data : [{Visits} -> {n \in Int : n < 0}], do : {"add"}, key : Hosts]

\* What remove_query puts back, with the time it had.
Restores == [time : 0 .. MaxTime, data : QueryHits, do : {"add"}, key : Fragments]

\* What the call does first may be what a step has made of one of its operations.
Heads == Operations \cup Discounts \cup Restores

Groups == Seq(Operations) \ {<<>>}

\* A call of store_uri, and one of the others: hits are taken back at once.
VisitCall(s) == \E g \in Seq(VisitOps) : s = <<g>> /\ Len(g) \in {1, 2}
OtherCall(s) == \E o \in Heads, rest \in Seq(Operations), more \in Seq(Groups) :
                   s = <<<<o>> \o rest>> \o more
Going(s) == s = <<>> \/ VisitCall(s) \/ OtherCall(s)

\* What an operation is.
LEMMA OperationIs ==
  ASSUME NEW o \in Heads \cup VisitOps
  PROVE  /\ o.key \in Keys
         /\ o.do \in {"add", "visit", "withdraw", "leave", "unclick", "thumb"}
         /\ o.do = "add" <=> o \in Adds \cup Discounts \cup Restores
         /\ o.do = "visit" <=> o \in VisitOps
         /\ o.do = "withdraw" <=> o \in Withdraws
         /\ o.do = "leave" <=> o \in Leaves
         /\ o.do = "unclick" <=> o \in Unclicks
         /\ o.do = "thumb" <=> o \in Thumbs
<1> USE Constants DEF Keys
<1>1. CASE o \in Adds
  BY <1>1 DEF Adds, Withdraws, Leaves, Unclicks, Thumbs, VisitOps
<1>2. CASE o \in Withdraws
  BY <1>2 DEF Adds, Withdraws, Leaves, Unclicks, Thumbs, VisitOps, Discounts, Restores
<1>3. CASE o \in Leaves
  BY <1>3 DEF Adds, Withdraws, Leaves, Unclicks, Thumbs, VisitOps, Discounts, Restores
<1>4. CASE o \in Unclicks
  BY <1>4 DEF Adds, Withdraws, Leaves, Unclicks, Thumbs, VisitOps, Discounts, Restores
<1>5. CASE o \in Thumbs
  BY <1>5 DEF Adds, Withdraws, Leaves, Unclicks, Thumbs, VisitOps, Discounts, Restores
<1>6. CASE o \in VisitOps
  BY <1>6 DEF Adds, Withdraws, Leaves, Unclicks, Thumbs, VisitOps, Discounts, Restores
<1>7. CASE o \in Discounts
  BY <1>7 DEF Adds, Withdraws, Leaves, Unclicks, Thumbs, VisitOps, Discounts
<1>8. CASE o \in Restores
  BY <1>8 DEF Restores, Withdraws, Leaves, Unclicks, Thumbs, VisitOps
<1> QED
  BY <1>1, <1>2, <1>3, <1>4, <1>5, <1>6, <1>7, <1>8 DEF Operations, Heads

LEMMA Split ==
  ASSUME NEW O, NEW q \in Seq(O), q # <<>>
  PROVE  /\ Head(q) \in O /\ Tail(q) \in Seq(O) /\ q = <<Head(q)>> \o Tail(q)
OBVIOUS

LEMMA NextOperation ==
  ASSUME NEW rest \in Seq(Operations), rest # <<>>, NEW more \in Seq(Groups)
  PROVE  OtherCall(<<rest>> \o more) /\ Head(Head(<<rest>> \o more)) \in Operations
<1>1. /\ Head(rest) \in Operations /\ Tail(rest) \in Seq(Operations)
      /\ rest = <<Head(rest)>> \o Tail(rest)
  BY Split, Zenon
<1>2. <<rest>> \o more = <<<<Head(rest)>> \o Tail(rest)>> \o more
  BY <1>1, Zenon
<1>3. OtherCall(<<rest>> \o more)
  <2>1. Head(rest) \in Heads
    BY <1>1 DEF Heads
  <2> QED
    BY <1>1, <1>2, <2>1, Zenon DEF OtherCall
<1>4. Head(<<rest>> \o more) = rest
  OBVIOUS
<1> QED
  BY <1>1, <1>3, <1>4

LEMMA NextGroup ==
  ASSUME NEW more \in Seq(Groups), more # <<>>
  PROVE  OtherCall(more) /\ Head(Head(more)) \in Operations
<1>1. Head(more) \in Groups /\ Tail(more) \in Seq(Groups) /\ more = <<Head(more)>> \o Tail(more)
  BY Split, Zenon
<1>2. Head(more) \in Seq(Operations) /\ Head(more) # <<>>
  BY <1>1 DEF Groups
<1>3. OtherCall(<<Head(more)>> \o Tail(more)) /\ Head(Head(<<Head(more)>> \o Tail(more))) \in Operations
  BY <1>1, <1>2, NextOperation, Zenon
<1> QED
  BY <1>1, <1>3, Zenon

\* The groups that are left when the first operation of s is done.
After(s) == IF Len(Head(s)) > 1 THEN <<Tail(Head(s))>> \o Tail(s) ELSE Tail(s)

LEMMA OtherCallGoesOn ==
  ASSUME NEW s, OtherCall(s)
  PROVE  /\ s # <<>> /\ Head(s) # <<>> /\ Head(Head(s)) \in Heads
         /\ After(s) = <<>> \/ (OtherCall(After(s)) /\ Head(Head(After(s))) \in Operations)
         /\ Tail(s) = <<>> \/ (OtherCall(Tail(s)) /\ Head(Head(Tail(s))) \in Operations)
         /\ \A p \in Heads :
               /\ OtherCall(<<<<p>> \o Tail(Head(s))>> \o Tail(s))
               /\ Head(Head(<<<<p>> \o Tail(Head(s))>> \o Tail(s))) = p
         /\ \A p, r \in Operations :
               /\ OtherCall(<<<<p, r>> \o Tail(Head(s))>> \o Tail(s))
               /\ Head(Head(<<<<p, r>> \o Tail(Head(s))>> \o Tail(s))) = p
<1>1. PICK o \in Heads, rest \in Seq(Operations), more \in Seq(Groups) :
         s = <<<<o>> \o rest>> \o more
  BY Zenon DEF OtherCall
<1>2. ASSUME NEW p \in Heads, NEW q \in Seq(Operations)
      PROVE  Head(Head(<<<<p>> \o q>> \o more)) = p /\ OtherCall(<<<<p>> \o q>> \o more)
  <2>1. OtherCall(<<<<p>> \o q>> \o more)
    BY <1>2, Zenon DEF OtherCall
  <2>2. <<p>> \o q \in Seq(Heads) /\ Head(<<p>> \o q) = p
    BY DEF Heads
  <2>3. Head(<<<<p>> \o q>> \o more) = <<p>> \o q
    OBVIOUS
  <2> QED
    BY <2>1, <2>2, <2>3
<1>3. /\ Tail(s) = more /\ s # <<>> /\ Head(s) # <<>>
      /\ Head(Head(s)) = o /\ Tail(Head(s)) = rest /\ Len(Head(s)) = 1 + Len(rest)
  <2>1. /\ <<o>> \o rest \in Seq(Heads) /\ Len(<<o>> \o rest) = 1 + Len(rest)
        /\ Head(<<o>> \o rest) = o /\ Tail(<<o>> \o rest) = rest /\ <<o>> \o rest # <<>>
    BY DEF Heads
  <2>2. Head(s) = <<o>> \o rest /\ Tail(s) = more /\ s # <<>>
    BY <1>1
  <2> QED
    BY <2>1, <2>2
<1>4. After(s) = <<>> \/ (OtherCall(After(s)) /\ Head(Head(After(s))) \in Operations)
  <2>1. CASE rest = <<>>
    <3>1. After(s) = more
      BY <1>3, <2>1 DEF After
    <3>2. more = <<>> \/ (OtherCall(more) /\ Head(Head(more)) \in Operations)
      BY NextGroup, Zenon
    <3> QED
      BY <3>1, <3>2, Zenon
  <2>2. CASE rest # <<>>
    <3>0. Len(Head(s)) > 1
      <4>1. Len(rest) \in Nat /\ Len(rest) # 0
        BY <2>2
      <4> QED
        BY <1>3, <4>1
    <3>1. After(s) = <<rest>> \o more
      BY <1>3, <3>0, Zenon DEF After
    <3> QED
      BY <2>2, <3>1, NextOperation, Zenon
  <2> QED
    BY <2>1, <2>2
<1>5. Tail(s) = <<>> \/ (OtherCall(Tail(s)) /\ Head(Head(Tail(s))) \in Operations)
  <2>1. more = <<>> \/ (OtherCall(more) /\ Head(Head(more)) \in Operations)
    BY NextGroup, Zenon
  <2> QED
    BY <1>3, <2>1, Zenon
<1>6. ASSUME NEW p \in Heads
      PROVE  /\ OtherCall(<<<<p>> \o Tail(Head(s))>> \o Tail(s))
             /\ Head(Head(<<<<p>> \o Tail(Head(s))>> \o Tail(s))) = p
  BY <1>2, <1>3, <1>6, Zenon
<1>7. ASSUME NEW p \in Operations, NEW r \in Operations
      PROVE  /\ OtherCall(<<<<p, r>> \o Tail(Head(s))>> \o Tail(s))
             /\ Head(Head(<<<<p, r>> \o Tail(Head(s))>> \o Tail(s))) = p
  <2>0. <<r>> \o rest \in Seq(Operations)
    OBVIOUS
  <2>1. <<p, r>> \o rest = <<p>> \o (<<r>> \o rest)
    <3> DEFINE two == <<p>> \o <<r>>
               q == <<r>> \o rest
    <3>1. /\ two \in Seq(Operations) /\ Len(two) = 2 /\ two[1] = p /\ two[2] = r
          /\ DOMAIN two = 1 .. 2
      OBVIOUS
    <3>2. two = <<p, r>>
      <4> HIDE DEF two
      <4> QED
        BY <3>1
    <3>3. /\ Len(two \o rest) = 2 + Len(rest) /\ Len(q) = 1 + Len(rest)
          /\ Len(<<p>> \o q) = 2 + Len(rest)
      OBVIOUS
    <3>4. two \o rest = <<p>> \o q
      OBVIOUS
    <3> QED
      BY <3>2, <3>4, Zenon
  <2>2. p \in Heads
    BY DEF Heads
  <2> QED
    BY <1>2, <1>3, <2>0, <2>1, <2>2, Zenon
<1> QED
  BY <1>3, <1>4, <1>5, <1>6, <1>7

LEMMA VisitCallGoesOn ==
  ASSUME NEW s, VisitCall(s)
  PROVE  /\ s # <<>> /\ Head(s) # <<>> /\ Head(Head(s)) \in VisitOps /\ Tail(s) = <<>>
         /\ Len(Head(s)) \in {1, 2}
         /\ \/ After(s) = <<>>
            \/ VisitCall(After(s)) /\ Len(Head(s)) = 2 /\ Len(Head(After(s))) = 1
<1>1. PICK g \in Seq(VisitOps) : s = <<g>> /\ Len(g) \in {1, 2}
  BY DEF VisitCall
<1>2. Head(s) = g /\ Tail(s) = <<>> /\ s # <<>> /\ g # <<>>
  BY <1>1
<1>3. Head(g) \in VisitOps /\ Tail(g) \in Seq(VisitOps) /\ Len(Tail(g)) = Len(g) - 1
  BY <1>1, <1>2
<1>4. CASE Len(g) = 1
  BY <1>1, <1>2, <1>3, <1>4 DEF After
<1>5. CASE Len(g) = 2
  <2>0. Len(g) > 1
    BY <1>5
  <2>1. After(s) = <<Tail(g)>> /\ Head(After(s)) = Tail(g)
    <3>1. <<Tail(g)>> \o <<>> = <<Tail(g)>> /\ Head(<<Tail(g)>>) = Tail(g)
      BY <1>3
    <3>2. Len(Head(s)) > 1 /\ <<Tail(Head(s))>> \o Tail(s) = <<Tail(g)>> \o <<>>
      BY <1>2, <2>0, Zenon
    <3>3. After(s) = <<Tail(g)>> \o <<>>
      BY <3>2, Zenon DEF After
    <3> QED
      BY <3>1, <3>3, Zenon
  <2>2. VisitCall(After(s))
    <3>1. Tail(g) \in Seq(VisitOps) /\ Len(Tail(g)) \in {1, 2}
      BY <1>3, <1>5
    <3> QED
      BY <2>1, <3>1, Zenon DEF VisitCall
  <2> QED
    BY <1>1, <1>2, <1>3, <1>5, <2>1, <2>2
<1> QED
  BY <1>1, <1>4, <1>5

\* What the constructors make.
LEMMA QueryDataIs ==
  ASSUME NEW q \in Queries
  PROVE  /\ QueryData(q) \in QueryHits
         /\ \A u \in Urls, n \in Int : OneUrl(q, u, n) \in QueryHits
<1>0. /\ NONE \notin Queries /\ NONE \notin Urls
      /\ \A u \in Urls \cup {NONE} : <<q, u>> \in Entries /\ <<q, u>> # Visits
  BY Constants DEF Entries, Visits
<1>1. QueryData(q) \in QueryHits
  <2> DEFINE S == {<<q, NONE>>}
  <2>1. QueryData(q) \in [S -> Int] /\ S \in SUBSET Entries
    BY <1>0 DEF QueryData
  <2>2. QueryData(q) \in Data
    BY <2>1 DEF Data
  <2>3. \A e \in S : e # Visits /\ <<e[1], NONE>> \in S
    BY <1>0
  <2> QED
    BY <2>1, <2>2, <2>3 DEF QueryHits
<1>2. ASSUME NEW u \in Urls, NEW n \in Int PROVE OneUrl(q, u, n) \in QueryHits
  <2> DEFINE S == {<<q, NONE>>, <<q, u>>}
             d == [e \in S |-> IF e[2] = NONE THEN 1 ELSE n]
  <2>1. OneUrl(q, u, n) = d
    <3>1. {<<q, NONE>>} \cup {<<q, x>> : x \in {u}} = S
      OBVIOUS
    <3>2. \A e \in S : e[2] # NONE => e[2] = u
      OBVIOUS
    <3> QED
      BY <3>1, <3>2 DEF OneUrl, UrlData
  <2>2. d \in [S -> Int] /\ S \in SUBSET Entries
    BY <1>0
  <2>3. d \in Data
    BY <2>2 DEF Data
  <2>4. \A e \in S : e # Visits /\ <<e[1], NONE>> \in S
    BY <1>0
  <2>5. DOMAIN d = S
    OBVIOUS
  <2>6. d \in QueryHits
    BY <2>3, <2>4, <2>5 DEF QueryHits
  <2> QED
    BY <2>1, <2>6
<1> QED
  BY <1>1, <1>2

LEMMA DeltasAre == QueryDeltas \subseteq QueryHits
BY QueryDataIs DEF QueryDeltas

LEMMA AddIs ==
  ASSUME NEW k \in Fragments
  PROVE  /\ \A d \in QueryDeltas : Add(k, d) \in Operations /\ <<Add(k, d)>> \in Groups
         /\ \A d \in QueryHits : \A rec :
              rec.time \in 0 .. MaxTime => Restore(k, [rec EXCEPT !.data = d]) \in Restores
<1>1. ASSUME NEW d \in QueryDeltas PROVE Add(k, d) \in Operations /\ <<Add(k, d)>> \in Groups
  <2>1. Add(k, d) \in Operations
    BY DEF Add, Operations, Adds
  <2> QED
    BY <2>1 DEF Groups
<1>2. ASSUME NEW d \in QueryHits, NEW rec, rec.time \in 0 .. MaxTime
      PROVE  Restore(k, [rec EXCEPT !.data = d]) \in Restores
  BY <1>2 DEF Restore, Restores
<1> QED
  BY <1>1, <1>2

\* A call goes on with the first operation of its groups, or has none.
Starts(ops) == \/ ops = <<>>
               \/ VisitCall(ops)
               \/ OtherCall(ops) /\ Head(Head(ops)) \in Operations

LEMMA Ordered ==
  ASSUME NEW q \in Queries, NEW f \in Orders(Halo[q])
  PROVE  /\ \A i \in DOMAIN f : f[i] \in Fragments
         /\ \A g : (\A i \in DOMAIN f : g[i] \in Groups) => [i \in DOMAIN f |-> g[i]] \in Seq(Groups)
<1>1. IsFiniteSet(Fragments)
  BY Zenon, UserDatabaseAssumption
<1>2. Halo[q] \subseteq Fragments
  BY Constants
<1>3. Cardinality(Halo[q]) \in Nat
  BY <1>1, <1>2, FS_Subset, FS_CardinalityType
<1>4. f \in [1 .. Cardinality(Halo[q]) -> Halo[q]]
  BY DEF Orders
<1> QED
  BY <1>2, <1>3, <1>4

LEMMA CallsStart ==
  ASSUME NEW t,
         \/ StoreQueries(t) \/ StoreQuery(t) \/ RemoveQueries(t) \/ RemoveUrl(t)
         \/ ThumbDownUrl(t) \/ StoreUri(t)
  PROVE  \E ops : Call(t, ops) /\ Starts(ops)
<1>0. \A ops \in Seq(Groups) : Starts(ops)
  BY NextGroup DEF Starts
<1>1. CASE StoreQueries(t)
  <2>1. PICK q \in Queries, u \in Urls, h \in Urls : \E f \in Orders(Halo[q]) :
          Call(t, [i \in DOMAIN f |-> IF f[i] = Exact[q] THEN StoreUrl(q, u, h)
                                      ELSE <<Add(f[i], QueryData(q))>>])
    BY <1>1 DEF StoreQueries
  <2>2. PICK f \in Orders(Halo[q]) :
          Call(t, [i \in DOMAIN f |-> IF f[i] = Exact[q] THEN StoreUrl(q, u, h)
                                      ELSE <<Add(f[i], QueryData(q))>>])
    BY <2>1
  <2> DEFINE g == [i \in DOMAIN f |-> IF f[i] = Exact[q] THEN StoreUrl(q, u, h)
                                      ELSE <<Add(f[i], QueryData(q))>>]
  <2>3. Exact[q] \in Fragments /\ QueryData(q) \in QueryDeltas
        /\ OneUrl(q, u, 1) \in QueryDeltas /\ OneUrl(q, h, 1) \in QueryDeltas
    BY Constants DEF QueryDeltas
  <2>4. StoreUrl(q, u, h) \in Groups
    <3>1. /\ Add(Exact[q], OneUrl(q, u, 1)) \in Operations
          /\ Add(Exact[q], OneUrl(q, h, 1)) \in Operations
      BY <2>3, AddIs
    <3> QED
      BY <3>1 DEF StoreUrl, Groups
  <2>5. \A i \in DOMAIN f : g[i] \in Groups
    BY <2>3, <2>4, Ordered, AddIs
  <2>6. g = [i \in DOMAIN f |-> g[i]]
    OBVIOUS
  <2> HIDE DEF g
  <2>7. g \in Seq(Groups)
    BY <2>5, <2>6, Ordered
  <2> QED
    BY <1>0, <2>2, <2>7 DEF g
<1>2. CASE StoreQuery(t)
  <2>1. PICK q \in Queries : \E f \in Orders(Halo[q]) :
          Call(t, [i \in DOMAIN f |-> <<Add(f[i], QueryData(q))>>])
    BY <1>2 DEF StoreQuery
  <2>2. PICK f \in Orders(Halo[q]) : Call(t, [i \in DOMAIN f |-> <<Add(f[i], QueryData(q))>>])
    BY <2>1
  <2> DEFINE g == [i \in DOMAIN f |-> <<Add(f[i], QueryData(q))>>]
  <2>3. QueryData(q) \in QueryDeltas
    BY DEF QueryDeltas
  <2>5. \A i \in DOMAIN f : g[i] \in Groups
    BY <2>3, Ordered, AddIs
  <2>6. g = [i \in DOMAIN f |-> g[i]]
    OBVIOUS
  <2> HIDE DEF g
  <2>7. g \in Seq(Groups)
    BY <2>5, <2>6, Ordered
  <2> QED
    BY <1>0, <2>2, <2>7 DEF g
<1>3. CASE RemoveQueries(t)
  <2>1. PICK q \in Queries : \E f \in Orders(Halo[q]) :
          Call(t, [i \in DOMAIN f |-> <<Withdraw(f[i], q)>>])
    BY <1>3 DEF RemoveQueries
  <2>2. PICK f \in Orders(Halo[q]) : Call(t, [i \in DOMAIN f |-> <<Withdraw(f[i], q)>>])
    BY <2>1
  <2> DEFINE g == [i \in DOMAIN f |-> <<Withdraw(f[i], q)>>]
  <2>3. \A k \in Fragments : Withdraw(k, q) \in Operations
    BY DEF Withdraw, Operations, Withdraws
  <2>4. \A k \in Fragments : <<Withdraw(k, q)>> \in Groups
    BY <2>3 DEF Groups
  <2>5. \A i \in DOMAIN f : g[i] \in Groups
    BY <2>4, Ordered
  <2>6. g = [i \in DOMAIN f |-> g[i]]
    OBVIOUS
  <2> HIDE DEF g
  <2>7. g \in Seq(Groups)
    BY <2>5, <2>6, Ordered
  <2> QED
    BY <1>0, <2>2, <2>7 DEF g
<1>4. CASE RemoveUrl(t)
  <2>1. PICK q \in Queries, u \in Urls : Call(t, <<<<Unclick(q, u)>>>>)
    BY <1>4 DEF RemoveUrl
  <2>2. Unclick(q, u) \in Operations
    BY Constants DEF Unclick, Operations, Unclicks
  <2>3. <<<<Unclick(q, u)>>>> \in Seq(Groups)
    BY <2>2 DEF Groups
  <2> QED
    BY <1>0, <2>1, <2>3
<1>5. CASE ThumbDownUrl(t)
  <2>1. CASE \E q \in Queries, u, h \in Urls, i \in Uris \ Hosts, j \in Hosts :
               /\ h # u
               /\ Call(t, <<<<ThumbDown(q, u, h), Leave(i, "uri"), Leave(j, "host")>>>>)
    <3>1. PICK q \in Queries, u, h \in Urls, i \in Uris \ Hosts, j \in Hosts :
               Call(t, <<<<ThumbDown(q, u, h), Leave(i, "uri"), Leave(j, "host")>>>>)
      BY <2>1
    <3>2. ThumbDown(q, u, h) \in Operations
      BY Constants DEF ThumbDown, Operations, Thumbs
    <3>3. Leave(i, "uri") \in Operations /\ Leave(j, "host") \in Operations
      BY Constants DEF Leave, Operations, Leaves
    <3>4. <<<<ThumbDown(q, u, h), Leave(i, "uri"), Leave(j, "host")>>>> \in Seq(Groups)
      BY <3>2, <3>3 DEF Groups
    <3> QED
      BY <1>0, <3>1, <3>4
  <2>2. CASE \E q \in Queries, u \in Urls, i \in Uris :
               Call(t, <<<<ThumbDown(q, u, NONE), Leave(i, "alone")>>>>)
    <3>1. PICK q \in Queries, u \in Urls, i \in Uris :
               Call(t, <<<<ThumbDown(q, u, NONE), Leave(i, "alone")>>>>)
      BY <2>2
    <3>2. ThumbDown(q, u, NONE) \in Operations
      BY Constants DEF ThumbDown, Operations, Thumbs
    <3>3. Leave(i, "alone") \in Operations
      BY Constants DEF Leave, Operations, Leaves
    <3>4. <<<<ThumbDown(q, u, NONE), Leave(i, "alone")>>>> \in Seq(Groups)
      BY <3>2, <3>3 DEF Groups
    <3> QED
      BY <1>0, <3>1, <3>4
  <2> QED
    BY <1>5, <2>1, <2>2 DEF ThumbDownUrl
<1>6. CASE StoreUri(t)
  <2>1. PICK i \in Uris \cup {NONE}, j \in Uris :
          Call(t, <<(IF i \in {j, NONE} THEN <<>> ELSE <<Visit(i)>>) \o <<Visit(j)>>>>)
    BY <1>6 DEF StoreUri
  <2> DEFINE g == (IF i \in {j, NONE} THEN <<>> ELSE <<Visit(i)>>) \o <<Visit(j)>>
  <2>2. \A k \in Uris : Visit(k) \in VisitOps
    BY DEF Visit, VisitOps, UriData
  <2>3. g \in Seq(VisitOps) /\ Len(g) \in {1, 2}
    <3>1. CASE i \in {j, NONE}
      BY <2>2, <3>1
    <3>2. CASE i \notin {j, NONE}
      BY <2>2, <3>2
    <3> QED
      BY <3>1, <3>2
  <2> HIDE DEF g
  <2>4. VisitCall(<<g>>)
    BY <2>3 DEF VisitCall
  <2> QED
    BY <2>1, <2>4 DEF Starts, g
<1> QED
  BY <1>1, <1>2, <1>3, <1>4, <1>5, <1>6

-----------------------------------------------------------------------------
(* Types.                                                                    *)

Working == {"find", "get", "put", "out", "count", "uncount"}

\* A thread and its call.
Fine(t) ==
    /\ pc[t] \in Steps /\ left[t] \in Nat \ {0} /\ date[t] \in Int
    /\ doomed[t] \in SUBSET Keys /\ due[t] \in SUBSET Keys
    /\ pc[t] \in {"idle", "walk", "prune"} => todo[t] = <<>>
    /\ pc[t] = "read" => \E k \in Keys : todo[t] = <<<<[do |-> "read", key |-> k]>>>>
    /\ pc[t] \in Working => VisitCall(todo[t]) \/ OtherCall(todo[t])
    /\ pc[t] = "find" => Op(t).do # "add"
    /\ pc[t] \in {"get", "put"} => Op(t).do \in {"add", "visit"}
    /\ pc[t] = "out" => Op(t).do \in {"withdraw", "leave"} /\ IsRecord(Op(t).key, got[t])
    /\ pc[t] = "count" => Op(t).do = "visit"
    /\ pc[t] = "uncount" => Op(t).do = "leave"
    /\ pc[t] = "put" => IsRecord(Op(t).key, val[t])

LocalShapes ==
    /\ pc = [t \in Threads |-> pc[t]] /\ todo = [t \in Threads |-> todo[t]]
    /\ got = [t \in Threads |-> got[t]] /\ val = [t \in Threads |-> val[t]]
    /\ left = [t \in Threads |-> left[t]] /\ doomed = [t \in Threads |-> doomed[t]]
    /\ date = [t \in Threads |-> date[t]] /\ due = [t \in Threads |-> due[t]]

Globals ==
    /\ db = [k \in Keys |-> db[k]] /\ visits \in [Uris -> Nat]
    /\ iter \in SUBSET Keys /\ now \in 0 .. MaxTime /\ nr \in 0 .. Word - 1
    /\ multi \in BOOLEAN /\ calls \in 0 .. MaxCalls
    /\ \A k \in Keys : Here(k) => IsRecord(k, db[k])

TypeInv == LocalShapes /\ Globals /\ \A t \in Threads : Fine(t)

\* A thread that another one's step leaves alone, but for what the sweep owes.
SameFor(s) ==
    /\ pc'[s] = pc[s] /\ todo'[s] = todo[s] /\ got'[s] = got[s] /\ val'[s] = val[s]
    /\ left'[s] = left[s] /\ doomed'[s] = doomed[s] /\ date'[s] = date[s]
    /\ due'[s] \subseteq due[s]

LEMMA SameIsFine == ASSUME NEW s \in Threads, Fine(s), SameFor(s) PROVE Fine(s)'
<1>1. Op(s)' = Op(s)
  BY DEF SameFor, Op
<1>2. due'[s] \in SUBSET Keys
  BY DEF SameFor, Fine
<1> QED
  BY <1>1, <1>2 DEF SameFor, Fine

\* The call of t goes on with ops.
LEMMA Resume ==
  ASSUME LocalShapes, NEW t \in Threads, NEW ops, GoOn(t, ops), Going(ops)
  PROVE  /\ pc' = [s \in Threads |-> pc'[s]] /\ todo' = [s \in Threads |-> todo'[s]]
         /\ \A s \in Threads \ {t} : pc'[s] = pc[s] /\ todo'[s] = todo[s]
         /\ todo'[t] = ops
         /\ \/ ops = <<>> /\ pc'[t] = "idle"
            \/ /\ VisitCall(ops) \/ OtherCall(ops)
               /\ pc'[t] \in {"find", "get"}
               /\ pc'[t] = "get" <=> Op(t)'.do = "add"
<1>1. pc'[t] = Entry(ops) /\ todo'[t] = ops
  BY DEF LocalShapes, GoOn
<1>2. /\ pc' = [s \in Threads |-> pc'[s]] /\ todo' = [s \in Threads |-> todo'[s]]
      /\ \A s \in Threads \ {t} : pc'[s] = pc[s] /\ todo'[s] = todo[s]
  BY DEF LocalShapes, GoOn
<1>3. Op(t)' = Head(Head(ops))
  BY <1>1 DEF Op
<1> QED
  BY <1>1, <1>2, <1>3 DEF Entry, Going

\* What is left of the call of t when its operation is done, has thrown, or leads to
\* what it adds.
LEMMA WhatIsLeft ==
  ASSUME NEW t \in Threads, VisitCall(todo[t]) \/ OtherCall(todo[t])
  PROVE  /\ Done(t) = After(todo[t]) /\ Thrown(t) = Tail(todo[t])
         /\ Going(Done(t)) /\ Going(Thrown(t))
         /\ Op(t) \in Heads \cup VisitOps
         /\ Op(t).do # "visit" =>
              /\ OtherCall(todo[t])
              /\ \A p \in Heads : Going(Instead(t, <<p>>))
              /\ \A p, r \in Operations : Going(Instead(t, <<p, r>>))
<1>1. Done(t) = After(todo[t]) /\ Thrown(t) = Tail(todo[t])
  BY DEF Done, Thrown, After
<1>2. CASE VisitCall(todo[t])
  <2>1. Op(t) \in VisitOps
    BY <1>2, VisitCallGoesOn DEF Op
  <2>2. Op(t).do = "visit"
    BY <2>1 DEF VisitOps
  <2> QED
    BY <1>1, <1>2, <2>1, <2>2, VisitCallGoesOn DEF Going
<1>3. CASE OtherCall(todo[t])
  <2>1. Op(t) \in Heads
    BY <1>3, OtherCallGoesOn DEF Op
  <2>2. Going(Done(t)) /\ Going(Thrown(t))
    <3>1. After(todo[t]) = <<>> \/ OtherCall(After(todo[t]))
      BY <1>3, OtherCallGoesOn, Zenon
    <3>2. Tail(todo[t]) = <<>> \/ OtherCall(Tail(todo[t]))
      BY <1>3, OtherCallGoesOn, Zenon
    <3>3. Done(t) = <<>> \/ OtherCall(Done(t))
      BY <1>1, <3>1, Zenon
    <3>4. Thrown(t) = <<>> \/ OtherCall(Thrown(t))
      BY <1>1, <3>2, Zenon
    <3> QED
      BY <3>3, <3>4, Zenon DEF Going
  <2>3. \A p \in Heads : Going(Instead(t, <<p>>))
    BY <1>3, OtherCallGoesOn, Zenon DEF Going, Instead
  <2>4. \A p, r \in Operations : Going(Instead(t, <<p, r>>))
    BY <1>3, OtherCallGoesOn, Zenon DEF Going, Instead
  <2> QED
    BY <1>1, <1>3, <2>1, <2>2, <2>3, <2>4
<1> QED
  BY <1>2, <1>3

\* The locals that the step of t does not name stay.
Rest(t) == \A s \in Threads \ {t} : SameFor(s)

LEMMA OneStep ==
  ASSUME TypeInv, NEW t \in Threads, Rest(t), LocalShapes', Globals', Fine(t)'
  PROVE  TypeInv'
<1>1. \A s \in Threads \ {t} : Fine(s)'
  BY SameIsFine DEF TypeInv, Rest
<1> QED
  BY <1>1 DEF TypeInv

LEMMA CallTypes ==
  ASSUME TypeInv, NEW t \in Threads, NEW ops, Call(t, ops), Starts(ops)
  PROVE  TypeInv'
<1>1. Free(t) /\ GoOn(t, ops)
  BY DEF Call
<1>2. Going(ops)
  BY DEF Starts, Going
<1>3. /\ pc' = [s \in Threads |-> pc'[s]] /\ todo' = [s \in Threads |-> todo'[s]]
      /\ \A s \in Threads \ {t} : pc'[s] = pc[s] /\ todo'[s] = todo[s]
      /\ todo'[t] = ops
      /\ \/ ops = <<>> /\ pc'[t] = "idle"
         \/ /\ VisitCall(ops) \/ OtherCall(ops)
            /\ pc'[t] \in {"find", "get"}
            /\ pc'[t] = "get" <=> Op(t)'.do = "add"
  BY <1>1, <1>2, Resume, Zenon DEF TypeInv
<1>4. /\ left' = [s \in Threads |-> left'[s]] /\ left'[t] = 1
      /\ \A s \in Threads \ {t} : left'[s] = left[s]
      /\ UNCHANGED <<got, val, doomed, date, due>>
  BY DEF Call, TypeInv, LocalShapes
<1>5. LocalShapes'
  BY <1>3, <1>4 DEF TypeInv, LocalShapes
<1>6. Globals'
  <2>1. UNCHANGED <<db, iter, now, nr, multi, visits>> /\ calls' = calls + 1 /\ calls < MaxCalls
    BY DEF Call, Free
  <2>2. calls' \in 0 .. MaxCalls
    BY <2>1, Constants DEF TypeInv, Globals
  <2> QED
    BY <2>1, <2>2 DEF TypeInv, Globals, Here
<1>7. Rest(t)
  BY <1>3, <1>4 DEF Rest, SameFor
<1>8. Fine(t)'
  <2>1. pc'[t] \in {"idle", "find", "get"} /\ pc'[t] \in Steps
    BY <1>3 DEF Steps
  <2>2. pc'[t] = "idle" => todo'[t] = <<>>
    BY <1>3
  <2>3. pc'[t] \in Working => VisitCall(todo'[t]) \/ OtherCall(todo'[t])
    BY <1>3 DEF Working
  <2>4. pc'[t] = "find" => Op(t)'.do # "add"
    BY <1>3
  <2>5. pc'[t] = "get" => Op(t)'.do = "add"
    BY <1>3
  <2> QED
    BY <1>4, <2>1, <2>2, <2>3, <2>4, <2>5 DEF TypeInv, Fine
<1> QED
  BY <1>5, <1>6, <1>7, <1>8, OneStep

\* The operation in hand.
LEMMA InHand ==
  ASSUME TypeInv, NEW t \in Threads, pc[t] \in Working
  PROVE  /\ VisitCall(todo[t]) \/ OtherCall(todo[t])
         /\ Op(t) \in Heads \cup VisitOps /\ Op(t).key \in Keys
         /\ Here(Op(t).key) => IsRecord(Op(t).key, db[Op(t).key])
<1>1. VisitCall(todo[t]) \/ OtherCall(todo[t])
  BY DEF TypeInv, Fine
<1>2. Op(t) \in Heads \cup VisitOps
  BY <1>1, WhatIsLeft, Zenon
<1>3. Op(t).key \in Keys
  BY <1>2, OperationIs
<1> QED
  BY <1>1, <1>2, <1>3 DEF TypeInv, Globals

LEMMA Joined ==
  ASSUME NEW a, NEW b
  PROVE  <<a>> \o <<>> = <<a>> /\ <<a>> \o <<b>> = <<a, b>>
<1>1. <<a>> \in Seq({a, b}) /\ <<b>> \in Seq({a, b})
  OBVIOUS
<1>2. <<a>> \o <<>> = <<a>>
  BY <1>1
<1> DEFINE two == <<a>> \o <<b>>
<1>3. two \in Seq({a, b}) /\ Len(two) = 2 /\ two[1] = a /\ two[2] = b /\ DOMAIN two = 1 .. 2
  BY <1>1
<1>4. two = <<a, b>>
  <2> HIDE DEF two
  <2> QED
    BY <1>3
<1> QED
  BY <1>2, <1>4

\* What find_dbr leads to: a visit, the end of the operation, a record taken out, or
\* hits taken back.
LEMMA FindIs ==
  ASSUME TypeInv, NEW t \in Threads, Find(t)
  PROVE  \/ /\ Op(t).do = "visit" /\ pc' = [pc EXCEPT ![t] = "get"] /\ UNCHANGED <<todo, left>>
         \/ /\ GoOn(t, Done(t)) \/ GoOn(t, Thrown(t))
            /\ Op(t).do # "visit" /\ UNCHANGED left
         \/ /\ pc' = [pc EXCEPT ![t] = "out"] /\ UNCHANGED <<todo, left>>
            /\ Op(t).do \in {"withdraw", "leave"} /\ Here(Op(t).key)
            /\ Op(t).do = "withdraw" => Op(t).entry \in DOMAIN db[Op(t).key].data
         \/ /\ pc' = [pc EXCEPT ![t] = "out"] /\ UNCHANGED todo
            /\ Op(t).do = "leave" /\ Here(Op(t).key) /\ Op(t).key \in Uris \ Hosts
            /\ left' = [left EXCEPT ![t] = db[Op(t).key].data[Visits]]
         \/ /\ \E p \in Adds : GoOn(t, Instead(t, <<p>>))
            /\ Op(t).do # "visit" /\ UNCHANGED left
         \/ /\ \E p \in Discounts : GoOn(t, Instead(t, <<p>>)) /\ p.key = Op(t).key
            /\ Op(t).do # "visit" /\ Here(Op(t).key) /\ UNCHANGED left
         \/ /\ \E p, r \in Adds : GoOn(t, Instead(t, <<p, r>>))
            /\ Op(t).do # "visit" /\ UNCHANGED left
<1> DEFINE o == Op(t)
<1>0. /\ pc[t] = "find" /\ o \in Heads \cup VisitOps
      /\ Here(o.key) => IsRecord(o.key, db[o.key])
      /\ Found(t) = db[o.key] /\ (Found(t) # NONE <=> Here(o.key))
  BY InHand DEF Find, Working, Found, Here
<1>1. left[t] \in Nat \ {0} /\ left = [s \in Threads |-> left[s]]
  BY DEF TypeInv, Fine, LocalShapes
<1>2. CASE FindVisit(t)
  BY <1>2 DEF FindVisit
<1>3. CASE FindWithdraw(t)
  <2>1. o.do = "withdraw"
    BY <1>3 DEF FindWithdraw
  <2>2. CASE Found(t) = NONE
    BY <1>3, <2>1, <2>2 DEF FindWithdraw
  <2>3. CASE Found(t) # NONE /\ o.entry \notin DOMAIN Found(t).data
    BY <1>3, <2>1, <2>3 DEF FindWithdraw
  <2>4. CASE Found(t) # NONE /\ o.entry \in DOMAIN Found(t).data
    BY <1>0, <1>3, <2>1, <2>4 DEF FindWithdraw
  <2> QED
    BY <2>2, <2>3, <2>4
<1>4. CASE FindLeave(t)
  <2>1. o.do = "leave" /\ o \in Leaves
    BY <1>0, <1>4, OperationIs DEF FindLeave
  <2>2. CASE Found(t) = NONE
    BY <1>4, <2>1, <2>2 DEF FindLeave
  <2> DEFINE hits == Found(t).data[Visits]
  <2>3. CASE Found(t) # NONE /\ (o.half # "host" \/ hits - left[t] <= 0)
    <3>1. /\ pc' = [pc EXCEPT ![t] = "out"] /\ UNCHANGED todo
          /\ left' = [left EXCEPT ![t] = IF o.half = "uri" THEN hits ELSE @]
      BY <1>4, <2>3 DEF FindLeave
    <3>2. CASE o.half = "uri"
      <4>1. o.key \in Uris \ Hosts
        BY <2>1, <3>2 DEF Leaves
      <4> QED
        BY <1>0, <2>1, <2>3, <3>1, <3>2, <4>1
    <3>3. CASE o.half # "uri"
      <4>1. left' = left
        BY <1>1, <3>1, <3>3
      <4> QED
        BY <1>0, <2>1, <2>3, <3>1, <4>1
    <3> QED
      BY <3>2, <3>3
  <2>4. CASE Found(t) # NONE /\ ~(o.half # "host" \/ hits - left[t] <= 0)
    <3>1. GoOn(t, Instead(t, <<Add(o.key, UriData(-left[t]))>>)) /\ UNCHANGED left
      BY <1>4, <2>4 DEF FindLeave
    <3>2. o.key \in Hosts
      BY <2>1, <2>4 DEF Leaves
    <3>3. Add(o.key, UriData(-left[t])) \in Discounts
      BY <1>1, <3>2 DEF Discounts, Add, UriData
    <3>4. Add(o.key, UriData(-left[t])).key = o.key
      BY DEF Add
    <3> QED
      BY <1>0, <2>1, <2>4, <3>1, <3>3, <3>4
  <2> QED
    BY <2>2, <2>3, <2>4
<1>5. CASE FindUnclick(t)
  <2>1. o.do = "unclick" /\ o \in Unclicks /\ Here(o.key)
    BY <1>0, <1>5, OperationIs DEF FindUnclick
  <2>2. o.key \in Fragments /\ o.entry[1] \in Queries /\ o.entry[2] \in Urls
    BY <2>1 DEF Unclicks
  <2>3. CASE o.entry \notin DOMAIN Found(t).data
    BY <1>5, <2>1, <2>3 DEF FindUnclick
  <2>4. CASE o.entry \in DOMAIN Found(t).data
    <3> DEFINE p == Add(o.key, OneUrl(o.entry[1], o.entry[2], -Found(t).data[o.entry]))
    <3>1. GoOn(t, Instead(t, <<p>>)) /\ UNCHANGED left
      BY <1>5, <2>4 DEF FindUnclick
    <3>2. Found(t).data[o.entry] \in Int
      <4>1. IsDataOf(o.key, Found(t).data)
        BY <1>0, <2>1, <2>2, DataIs DEF IsRecord, Keys
      <4> QED
        BY <2>4, <4>1 DEF IsDataOf
    <3>3. p \in Adds
      <4>1. OneUrl(o.entry[1], o.entry[2], -Found(t).data[o.entry]) \in QueryDeltas
        BY <2>2, <3>2 DEF QueryDeltas
      <4> QED
        BY <2>2, <4>1 DEF Add, Adds
    <3> QED
      BY <2>1, <3>1, <3>3
  <2> QED
    BY <2>3, <2>4
<1>6. CASE FindThumb(t)
  <2>1. o.do = "thumb" /\ o \in Thumbs
    BY <1>0, <1>6, OperationIs DEF FindThumb
  <2>2. /\ o.key \in Fragments /\ o.entry[1] \in Queries /\ o.entry[2] \in Urls
        /\ o.host \in Urls \cup {NONE}
    BY <2>1 DEF Thumbs
  <2>3. CASE Found(t) = NONE \/ <<o.entry[1], NONE>> \notin DOMAIN Found(t).data
    BY <1>6, <2>1, <2>3 DEF FindThumb
  <2>4. CASE ~(Found(t) = NONE \/ <<o.entry[1], NONE>> \notin DOMAIN Found(t).data)
    <3> DEFINE e == o.entry
               hits == IF e \notin DOMAIN Found(t).data THEN 1
                       ELSE IF Found(t).data[e] > 0 THEN Found(t).data[e] ELSE 1
               down(u) == Add(o.key, OneUrl(e[1], u, -hits))
    <3>1. /\ GoOn(t, Instead(t, <<down(e[2])>> \o
                                  IF o.host = NONE THEN <<>> ELSE <<down(o.host)>>))
          /\ UNCHANGED left
      BY <1>6, <2>4 DEF FindThumb
    <3>2. hits \in Int
      <4>1. IsDataOf(o.key, Found(t).data)
        BY <1>0, <2>2, <2>4, DataIs DEF IsRecord, Keys
      <4>2. e \in DOMAIN Found(t).data => Found(t).data[e] \in Int
        BY <4>1 DEF IsDataOf
      <4> QED
        BY <4>2
    <3>3. \A u \in Urls : down(u) \in Adds
      <4> HIDE DEF hits
      <4>1. \A u \in Urls : OneUrl(e[1], u, -hits) \in QueryDeltas
        BY <2>2, <3>2 DEF QueryDeltas
      <4> QED
        BY <2>2, <4>1 DEF Add, Adds
    <3> HIDE DEF down
    <3>4. CASE o.host = NONE
      <4>1. GoOn(t, Instead(t, <<down(e[2])>>))
        <5>1. <<down(e[2])>> \o <<>> = <<down(e[2])>>
          BY Joined
        <5> QED
          BY <3>1, <3>4, <5>1, Zenon
      <4> QED
        BY <2>1, <2>2, <3>1, <3>3, <4>1
    <3>5. CASE o.host # NONE
      <4>1. GoOn(t, Instead(t, <<down(e[2]), down(o.host)>>))
        <5>1. <<down(e[2])>> \o <<down(o.host)>> = <<down(e[2]), down(o.host)>>
          BY Joined
        <5> QED
          BY <3>1, <3>5, <5>1, Zenon
      <4> QED
        BY <2>1, <2>2, <3>1, <3>3, <3>5, <4>1
    <3> QED
      BY <3>4, <3>5
  <2> QED
    BY <2>3, <2>4
<1> QED
  BY <1>2, <1>3, <1>4, <1>5, <1>6 DEF Find

\* The call goes on with its next operations: what is left of it is in order.
LEMMA ResumeTypes ==
  ASSUME TypeInv, NEW t \in Threads, NEW ops, GoOn(t, ops), Going(ops),
         UNCHANGED <<doomed, date>>, LocalShapes', Globals',
         left'[t] \in Nat \ {0}, due'[t] \subseteq due[t],
         \A s \in Threads \ {t} : /\ got'[s] = got[s] /\ val'[s] = val[s] /\ left'[s] = left[s]
                                  /\ due'[s] \subseteq due[s]
  PROVE  TypeInv'
<1>1. /\ \A s \in Threads \ {t} : pc'[s] = pc[s] /\ todo'[s] = todo[s]
      /\ todo'[t] = ops
      /\ \/ ops = <<>> /\ pc'[t] = "idle"
         \/ /\ VisitCall(ops) \/ OtherCall(ops)
            /\ pc'[t] \in {"find", "get"}
            /\ pc'[t] = "get" <=> Op(t)'.do = "add"
  BY Resume, Zenon DEF TypeInv
<1>2. Rest(t)
  BY <1>1 DEF Rest, SameFor
<1>3. Fine(t)'
  <2>1. pc'[t] \in {"idle", "find", "get"} /\ pc'[t] \in Steps
    BY <1>1 DEF Steps
  <2>2. pc'[t] = "idle" => todo'[t] = <<>>
    BY <1>1
  <2>3. pc'[t] \in Working => VisitCall(todo'[t]) \/ OtherCall(todo'[t])
    BY <1>1 DEF Working
  <2>4. pc'[t] = "find" => Op(t)'.do # "add"
    BY <1>1
  <2>5. pc'[t] = "get" => Op(t)'.do = "add"
    BY <1>1
  <2>6. due'[t] \in SUBSET Keys /\ doomed'[t] \in SUBSET Keys /\ date'[t] \in Int
    BY DEF TypeInv, Fine
  <2> QED
    BY <2>1, <2>2, <2>3, <2>4, <2>5, <2>6 DEF Fine
<1> QED
  BY <1>2, <1>3, OneStep

\* The call stays with its operation.
LEMMA StayTypes ==
  ASSUME TypeInv, NEW t \in Threads, pc[t] \in Working, pc' = [pc EXCEPT ![t] = pc'[t]],
         UNCHANGED <<todo, doomed, date>>, LocalShapes', Globals',
         left'[t] \in Nat \ {0}, due'[t] \subseteq due[t],
         \A s \in Threads \ {t} : /\ got'[s] = got[s] /\ val'[s] = val[s] /\ left'[s] = left[s]
                                  /\ due'[s] \subseteq due[s],
         \/ pc'[t] = "get" /\ Op(t).do = "visit"
         \/ pc'[t] = "put" /\ Op(t).do \in {"add", "visit"} /\ IsRecord(Op(t).key, val'[t])
         \/ pc'[t] = "out" /\ Op(t).do \in {"withdraw", "leave"} /\ IsRecord(Op(t).key, got'[t])
         \/ pc'[t] = "count" /\ Op(t).do = "visit"
         \/ pc'[t] = "uncount" /\ Op(t).do = "leave"
  PROVE  TypeInv'
<1>1. \A s \in Threads \ {t} : pc'[s] = pc[s]
  BY DEF TypeInv, LocalShapes
<1>2. Rest(t)
  BY <1>1 DEF Rest, SameFor
<1>3. Fine(t)'
  <2>1. VisitCall(todo'[t]) \/ OtherCall(todo'[t])
    BY InHand
  <2>2. Op(t)' = Op(t)
    BY DEF Op
  <2>3. due'[t] \in SUBSET Keys /\ doomed'[t] \in SUBSET Keys /\ date'[t] \in Int
    BY DEF TypeInv, Fine
  <2>4. pc'[t] \in {"get", "put", "out", "count", "uncount"} /\ pc'[t] \in Steps
    BY DEF Steps
  <2> QED
    BY <2>1, <2>2, <2>3, <2>4 DEF Fine
<1> QED
  BY <1>2, <1>3, OneStep

LEMMA FindTypes == ASSUME TypeInv, NEW t \in Threads, Find(t) PROVE TypeInv'
<1>1. /\ pc[t] \in Working
      /\ UNCHANGED <<db, iter, now, nr, multi, calls, val, doomed, date, due, visits>>
      /\ got' = [got EXCEPT ![t] = IF pc'[t] = "out" \/ Op(t).do = "visit"
                                   THEN db[Op(t).key] ELSE NONE]
  BY DEF Find, Working, Found
<1>2. /\ VisitCall(todo[t]) \/ OtherCall(todo[t])
      /\ Op(t) \in Heads \cup VisitOps /\ Op(t).key \in Keys
      /\ Here(Op(t).key) => IsRecord(Op(t).key, db[Op(t).key])
  BY <1>1, InHand
<1>3. /\ got' = [s \in Threads |-> got'[s]] /\ \A s \in Threads \ {t} : got'[s] = got[s]
      /\ got'[t] = IF pc'[t] = "out" \/ Op(t).do = "visit" THEN db[Op(t).key] ELSE NONE
  BY <1>1 DEF TypeInv, LocalShapes
<1>4. Globals'
  BY <1>1 DEF TypeInv, Globals, Here
<1>5. ASSUME NEW ops, GoOn(t, ops), Going(ops), UNCHANGED left PROVE TypeInv'
  <2>1. LocalShapes'
    BY <1>1, <1>3, <1>5 DEF TypeInv, LocalShapes, GoOn
  <2>2. left'[t] \in Nat \ {0}
    BY <1>5 DEF TypeInv, Fine
  <2> QED
    BY <1>1, <1>3, <1>4, <1>5, <2>1, <2>2, ResumeTypes
<1>6. ASSUME pc' = [pc EXCEPT ![t] = "out"], UNCHANGED todo, Here(Op(t).key),
             Op(t).do \in {"withdraw", "leave"},
             \/ UNCHANGED left
             \/ left' = [left EXCEPT ![t] = db[Op(t).key].data[Visits]] /\ Op(t).key \in Uris \ Hosts
      PROVE  TypeInv'
  <2>1. pc'[t] = "out" /\ got'[t] = db[Op(t).key]
    BY <1>3, <1>6 DEF TypeInv, LocalShapes
  <2>2. LocalShapes'
    BY <1>1, <1>3, <1>6 DEF TypeInv, LocalShapes
  <2>3. left'[t] \in Nat \ {0} /\ \A s \in Threads \ {t} : left'[s] = left[s]
    <3>1. CASE UNCHANGED left
      BY <3>1 DEF TypeInv, Fine
    <3>2. CASE left' = [left EXCEPT ![t] = db[Op(t).key].data[Visits]] /\ Op(t).key \in Uris \ Hosts
      <4>1. db[Op(t).key].data[Visits] \in Int /\ db[Op(t).key].data[Visits] > 0
        BY <1>2, <1>6, <3>2 DEF IsRecord, DataOf
      <4> QED
        BY <3>2, <4>1 DEF TypeInv, LocalShapes
    <3> QED
      BY <1>6, <3>1, <3>2
  <2> QED
    BY <1>1, <1>2, <1>3, <1>4, <1>6, <2>1, <2>2, <2>3, StayTypes
<1>7. CASE Op(t).do = "visit" /\ pc' = [pc EXCEPT ![t] = "get"] /\ UNCHANGED <<todo, left>>
  <2>1. pc'[t] = "get"
    BY <1>7 DEF TypeInv, LocalShapes
  <2>2. LocalShapes' /\ left'[t] \in Nat \ {0}
    BY <1>1, <1>3, <1>7 DEF TypeInv, LocalShapes, Fine
  <2> QED
    BY <1>1, <1>3, <1>4, <1>7, <2>1, <2>2, StayTypes
<1>8. Going(Done(t)) /\ Going(Thrown(t))
  BY <1>2, WhatIsLeft, Zenon
<1>9. ASSUME Op(t).do # "visit"
      PROVE  /\ \A p \in Adds \cup Discounts : Going(Instead(t, <<p>>))
             /\ \A p, r \in Adds : Going(Instead(t, <<p, r>>))
  BY <1>2, <1>9, WhatIsLeft DEF Operations, Heads
<1> QED
  BY FindIs, <1>5, <1>6, <1>7, <1>8, <1>9

\* The count of captured URIs does not reach its width.
LEMMA Width ==
  /\ IsFiniteSet(Uris) /\ Cardinality(Uris) \in Nat
  /\ Word > Cardinality(Uris) + 2 * MaxCalls /\ Word \in Nat \ {0}
<1>1. IsFiniteSet(Uris) /\ Word > Cardinality(Uris) + 2 * MaxCalls
  BY Zenon, UserDatabaseAssumption
<1>2. Cardinality(Uris) \in Nat
  BY <1>1, FS_CardinalityType
<1> QED
  BY <1>1, <1>2, Constants

LEMMA Modulo ==
  ASSUME NEW w \in Nat \ {0}, NEW a \in Int
  PROVE  a % w \in 0 .. w - 1 /\ (a \in 0 .. w - 1 => a % w = a /\ (a + w) % w = a)
OBVIOUS

LEMMA CapturedFinite ==
  /\ IsFiniteSet(Captured) /\ Cardinality(Captured) \in Nat
  /\ Cardinality(Captured) <= Cardinality(Uris)
<1>1. Captured \subseteq Uris
  BY DEF Captured
<1> QED
  BY <1>1, Width, FS_Subset, FS_CardinalityType

LEMMA GetTypes == ASSUME TypeInv, NEW t \in Threads, Get(t) PROVE TypeInv'
<1>1. /\ pc[t] = "get" /\ pc' = [pc EXCEPT ![t] = "put"]
      /\ UNCHANGED <<db, iter, now, nr, multi, calls, todo, got, left, doomed, date, due, visits>>
  BY DEF Get
<1>2. /\ VisitCall(todo[t]) \/ OtherCall(todo[t])
      /\ Op(t) \in Heads \cup VisitOps /\ Op(t).key \in Keys
      /\ Here(Op(t).key) => IsRecord(Op(t).key, db[Op(t).key])
      /\ Op(t).do \in {"add", "visit"}
  BY <1>1, InHand DEF Working, TypeInv, Fine
<1> DEFINE k == Op(t).key
<1>3. /\ val' = [s \in Threads |-> val'[s]] /\ \A s \in Threads \ {t} : val'[s] = val[s]
      /\ val'[t] = IF Here(k) THEN [time |-> now, data |-> Merge(db[k].data, Op(t).data)]
                   ELSE [time |-> IF Op(t).time = -1 THEN now ELSE Op(t).time,
                         data |-> Op(t).data]
  BY DEF Get, TypeInv, LocalShapes
<1>4. /\ Op(t).time \in -1 .. MaxTime /\ Op(t).data \in DataOf(k)
      /\ k \in Uris \ Hosts => Op(t).data[Visits] > 0
  <2>1. CASE Op(t) \in Adds \cup Restores
    BY <2>1, Constants, DeltasAre DEF Adds, Restores, DataOf
  <2>2. CASE Op(t) \in Discounts
    <3>1. k \in Hosts /\ Op(t).time = -1 /\ Op(t).data \in [{Visits} -> {n \in Int : n < 0}]
      BY <2>2 DEF Discounts
    <3>2. [{Visits} -> {n \in Int : n < 0}] \subseteq [{Visits} -> Int]
      OBVIOUS
    <3>3. Op(t).data \in [{Visits} -> Int] /\ k \in Uris
      BY <3>1, <3>2, Constants
    <3> QED
      BY <3>1, <3>3, Constants DEF DataOf
  <2>3. CASE Op(t) \in VisitOps
    <3>1. k \in Uris /\ Op(t).time = -1 /\ Op(t).data \in [{Visits} -> {1}]
      BY <2>3 DEF VisitOps
    <3>2. [{Visits} -> {1}] \subseteq [{Visits} -> Int]
      OBVIOUS
    <3>3. Op(t).data \in [{Visits} -> Int] /\ Op(t).data[Visits] = 1
      BY <3>1, <3>2
    <3> QED
      BY <3>1, <3>3, Constants DEF DataOf
  <2>4. Op(t) \in Adds \cup Discounts \cup Restores \cup VisitOps
    BY <1>2, OperationIs
  <2> QED
    BY <2>1, <2>2, <2>3, <2>4
<1>5. IsRecord(k, val'[t])
  <2>0. now \in 0 .. MaxTime
    BY DEF TypeInv, Globals
  <2>1. CASE Here(k)
    <3>1. db[k].data \in DataOf(k) /\ (k \in Uris \ Hosts => db[k].data[Visits] > 0)
      BY <1>2, <2>1 DEF IsRecord
    <3>2. /\ Merge(db[k].data, Op(t).data) \in DataOf(k)
          /\ k \in Uris => Merge(db[k].data, Op(t).data)[Visits]
                            = db[k].data[Visits] + Op(t).data[Visits]
      BY <1>2, <1>4, <3>1, MergeKeeps
    <3>3. k \in Uris => db[k].data[Visits] \in Int /\ Op(t).data[Visits] \in Int
      BY <1>4, <3>1 DEF DataOf
    <3>4. k \in Uris \ Hosts => Merge(db[k].data, Op(t).data)[Visits] > 0
      BY <1>4, <3>1, <3>2, <3>3
    <3>5. /\ val'[t].time = now /\ val'[t].data = Merge(db[k].data, Op(t).data)
          /\ val'[t] = [time |-> val'[t].time, data |-> val'[t].data]
      BY <1>3, <2>1
    <3> QED
      BY <2>0, <3>2, <3>4, <3>5 DEF IsRecord
  <2>2. CASE ~Here(k)
    <3>1. /\ val'[t].time = IF Op(t).time = -1 THEN now ELSE Op(t).time
          /\ val'[t].data = Op(t).data
          /\ val'[t] = [time |-> val'[t].time, data |-> val'[t].data]
      BY <1>3, <2>2
    <3> QED
      BY <1>4, <2>0, <3>1, Constants DEF IsRecord
  <2> QED
    BY <2>1, <2>2
<1>6. Globals'
  BY <1>1 DEF TypeInv, Globals, Here
<1>7. LocalShapes' /\ pc'[t] = "put" /\ left'[t] \in Nat \ {0}
  BY <1>1, <1>3 DEF TypeInv, LocalShapes, Fine
<1> QED
  BY <1>1, <1>2, <1>3, <1>5, <1>6, <1>7, StayTypes DEF Working

\* What is written.
LEMMA PutIs ==
  ASSUME TypeInv, NEW t \in Threads, Put(t)
  PROVE  /\ pc[t] = "put" /\ UNCHANGED <<now, nr, multi, calls, left, doomed, date>>
         /\ db'[Op(t).key] = val[t] /\ \A k \in Keys \ {Op(t).key} : db'[k] = db[k]
         /\ db' = [k \in Keys |-> db'[k]]
         /\ val' = [s \in Threads |-> val'[s]] /\ \A s \in Threads \ {t} : val'[s] = val[s]
         /\ got' = [s \in Threads |-> got'[s]] /\ \A s \in Threads \ {t} : got'[s] = got[s]
         /\ due' = [s \in Threads |-> due[s] \ {Op(t).key}]
         /\ iter' \in {iter \cup {Op(t).key}, iter \ {Op(t).key}, {}}
         /\ \/ /\ Op(t).do = "visit" /\ got[t] = NONE
               /\ pc' = [pc EXCEPT ![t] = "count"] /\ UNCHANGED todo
            \/ /\ ~(Op(t).do = "visit" /\ got[t] = NONE)
               /\ GoOn(t, Done(t))
         /\ visits' = IF Op(t).do = "visit" THEN [visits EXCEPT ![Op(t).key] = @ + 1]
                      ELSE visits
<1>1. pc[t] = "put" /\ UNCHANGED <<now, nr, multi, calls, left, doomed, date>>
  BY DEF Put
<1>2. Op(t).key \in Keys
  BY <1>1, InHand DEF Working
<1>3. /\ db' = [db EXCEPT ![Op(t).key] = val[t]] /\ Moved(Op(t).key) /\ Touched(Op(t).key)
      /\ visits' = IF Op(t).do = "visit" THEN [visits EXCEPT ![Op(t).key] = @ + 1]
                   ELSE visits
      /\ IF Op(t).do = "visit" /\ got[t] = NONE
         THEN pc' = [pc EXCEPT ![t] = "count"] /\ UNCHANGED todo
         ELSE GoOn(t, Done(t))
      /\ val' = [val EXCEPT ![t] = NONE] /\ got' = [got EXCEPT ![t] = NONE]
  BY DEF Put
<1>4. /\ db'[Op(t).key] = val[t] /\ \A k \in Keys \ {Op(t).key} : db'[k] = db[k]
      /\ db' = [k \in Keys |-> db'[k]]
  BY <1>2, <1>3 DEF TypeInv, Globals
<1>5. /\ val' = [s \in Threads |-> val'[s]] /\ \A s \in Threads \ {t} : val'[s] = val[s]
      /\ got' = [s \in Threads |-> got'[s]] /\ \A s \in Threads \ {t} : got'[s] = got[s]
  BY <1>3 DEF TypeInv, LocalShapes
<1>6. iter' \in {iter \cup {Op(t).key}, iter \ {Op(t).key}, {}}
  BY <1>3 DEF Moved
<1>7. due' = [s \in Threads |-> due[s] \ {Op(t).key}]
  BY <1>3 DEF Touched
<1> QED
  BY <1>1, <1>3, <1>4, <1>5, <1>6, <1>7

LEMMA PutTypes == ASSUME TypeInv, NEW t \in Threads, Put(t) PROVE TypeInv'
<1> DEFINE k == Op(t).key
<1>1. /\ VisitCall(todo[t]) \/ OtherCall(todo[t])
      /\ Op(t) \in Heads \cup VisitOps /\ k \in Keys
      /\ IsRecord(k, val[t])
  BY PutIs, InHand DEF Working, TypeInv, Fine
<1>2. Globals'
  <2>1. visits' \in [Uris -> Nat]
    <3>1. Op(t).do = "visit" => k \in Uris
      BY <1>1, OperationIs DEF VisitOps
    <3>2. visits \in [Uris -> Nat]
      BY DEF TypeInv, Globals
    <3>3. visits' = IF Op(t).do = "visit" THEN [visits EXCEPT ![Op(t).key] = @ + 1]
                    ELSE visits
      BY PutIs
    <3>4. CASE Op(t).do = "visit"
      BY <3>1, <3>2, <3>3, <3>4
    <3>5. CASE Op(t).do # "visit"
      BY <3>2, <3>3, <3>5
    <3> QED
      BY <3>4, <3>5
  <2>2. iter' \in SUBSET Keys
    BY <1>1, PutIs DEF TypeInv, Globals
  <2>3. \A j \in Keys : Here(j)' => IsRecord(j, db'[j])
    BY <1>1, PutIs DEF TypeInv, Globals, Here
  <2> QED
    BY <2>1, <2>2, <2>3, PutIs DEF TypeInv, Globals, IsRecord
<1>3. /\ \A s \in Threads : due'[s] \subseteq due[s]
      /\ left'[t] \in Nat \ {0} /\ UNCHANGED <<doomed, date, left>>
  <2>1. due' = [s \in Threads |-> due[s] \ {k}] /\ UNCHANGED <<doomed, date, left>>
    BY PutIs
  <2>2. left[t] \in Nat \ {0}
    BY DEF TypeInv, Fine
  <2> QED
    BY <2>1, <2>2
<1>4. CASE GoOn(t, Done(t))
  <2>1. Going(Done(t))
    BY <1>1, WhatIsLeft, Zenon
  <2>2. LocalShapes'
    BY <1>4, PutIs DEF TypeInv, LocalShapes, GoOn
  <2> QED
    BY <1>2, <1>3, <1>4, <2>1, <2>2, PutIs, ResumeTypes
<1>5. CASE Op(t).do = "visit" /\ pc' = [pc EXCEPT ![t] = "count"] /\ UNCHANGED todo
  <2>1. LocalShapes' /\ pc'[t] = "count"
    BY <1>5, PutIs DEF TypeInv, LocalShapes
  <2>2. /\ pc[t] \in Working /\ pc' = [pc EXCEPT ![t] = pc'[t]]
        /\ UNCHANGED <<todo, doomed, date>>
        /\ \A s \in Threads \ {t} : /\ got'[s] = got[s] /\ val'[s] = val[s]
                                    /\ left'[s] = left[s] /\ due'[s] \subseteq due[s]
    BY <1>3, <1>5, <2>1, PutIs DEF Working
  <2> QED
    BY <1>2, <1>3, <1>5, <2>1, <2>2, StayTypes
<1> QED
  BY <1>4, <1>5, PutIs

LEMMA PutFailsTypes == ASSUME TypeInv, NEW t \in Threads, PutFails(t) PROVE TypeInv'
<1>1. /\ pc[t] = "put" /\ GoOn(t, Thrown(t))
      /\ val' = [val EXCEPT ![t] = NONE] /\ got' = [got EXCEPT ![t] = NONE]
      /\ UNCHANGED <<db, iter, now, nr, multi, calls, left, doomed, date, due, visits>>
  BY DEF PutFails
<1>2. Going(Thrown(t))
  BY <1>1, InHand, WhatIsLeft, Zenon DEF Working
<1>3. LocalShapes'
  BY <1>1 DEF TypeInv, LocalShapes, GoOn
<1>4. /\ \A s \in Threads \ {t} : val'[s] = val[s] /\ got'[s] = got[s]
      /\ left'[t] \in Nat \ {0}
  BY <1>1 DEF TypeInv, LocalShapes, Fine
<1>5. Globals'
  BY <1>1 DEF TypeInv, Globals, Here
<1> QED
  BY <1>1, <1>2, <1>3, <1>4, <1>5, ResumeTypes

\* What is left of the record of a fragment without a query.
LEMMA WithoutQueryIs ==
  ASSUME NEW d \in QueryHits, NEW q, DOMAIN WithoutQuery(d, q) # {}
  PROVE  WithoutQuery(d, q) \in QueryHits
<1> DEFINE S == {x \in DOMAIN d : x[1] # q}
           w == [e \in S |-> d[e]]
<1>1. WithoutQuery(d, q) = w /\ DOMAIN w = S /\ S # {}
  BY DEF WithoutQuery
<1>2. PICK T \in SUBSET Entries : d \in [T -> Int]
  BY DEF QueryHits, Data
<1>3. S \in SUBSET Entries /\ w \in [S -> Int]
  BY <1>2
<1>4. w \in Data
  BY <1>3 DEF Data
<1>5. \A e \in S : e # Visits /\ <<e[1], NONE>> \in S
  BY DEF QueryHits
<1> HIDE DEF w
<1> QED
  BY <1>1, <1>4, <1>5 DEF QueryHits

\* What remove_query leaves of the record it has read.
Left(t) == WithoutQuery(got[t].data, Op(t).entry[1])

\* What remove_query and remove_uri do with the record they have read.
LEMMA OutIs ==
  ASSUME TypeInv, NEW t \in Threads, Out(t)
  PROVE  /\ pc[t] = "out" /\ Op(t).key \in Keys /\ Op(t).do # "visit"
         /\ UNCHANGED <<iter, now, nr, multi, calls, got, val, left, doomed, date, visits>>
         /\ db'[Op(t).key] = NONE /\ \A k \in Keys \ {Op(t).key} : db'[k] = db[k]
         /\ db' = [k \in Keys |-> db'[k]]
         /\ due' = [s \in Threads |-> due[s] \ {Op(t).key}]
         /\ \/ /\ Op(t).do = "withdraw" /\ DOMAIN Left(t) # {} /\ Op(t).key \in Fragments
               /\ \E p \in Restores : /\ GoOn(t, Instead(t, <<p>>)) /\ p.key = Op(t).key
                                      /\ p.time = got[t].time /\ p.data = Left(t)
            \/ /\ GoOn(t, Done(t)) \/ GoOn(t, Thrown(t))
               /\ \/ Op(t).do = "withdraw" /\ DOMAIN Left(t) = {} /\ Op(t).key \in Fragments
                  \/ Op(t).do = "leave" /\ ~Here(Op(t).key)
            \/ /\ pc' = [pc EXCEPT ![t] = "uncount"] /\ UNCHANGED todo
               /\ Op(t).do = "leave" /\ Here(Op(t).key)
<1> DEFINE o == Op(t)
           rest == WithoutQuery(got[t].data, o.entry[1])
           back == IF o.do = "withdraw" THEN PutBack(o.key, got[t], rest) ELSE <<>>
<1>1. /\ pc[t] = "out" /\ o \in Heads \cup VisitOps /\ o.key \in Keys
      /\ o.do \in {"withdraw", "leave"} /\ IsRecord(o.key, got[t])
  BY InHand DEF Out, Working, TypeInv, Fine
<1>2. /\ db' = [db EXCEPT ![o.key] = NONE] /\ Touched(o.key)
      /\ UNCHANGED <<iter, now, nr, multi, calls, got, val, left, doomed, date, visits>>
      /\ IF back # <<>> THEN GoOn(t, Instead(t, back))
         ELSE IF o.do = "withdraw" THEN GoOn(t, Done(t))
         ELSE IF Here(o.key) THEN pc' = [pc EXCEPT ![t] = "uncount"] /\ UNCHANGED todo
         ELSE GoOn(t, Thrown(t))
  BY DEF Out
<1>3. /\ db'[o.key] = NONE /\ \A k \in Keys \ {o.key} : db'[k] = db[k]
      /\ db' = [k \in Keys |-> db'[k]]
  BY <1>1, <1>2 DEF TypeInv, Globals
<1>4. due' = [s \in Threads |-> due[s] \ {o.key}]
  BY <1>2 DEF Touched
<1>5. CASE o.do = "leave"
  <2>1. back = <<>>
    BY <1>5
  <2> HIDE DEF back
  <2> QED
    BY <1>1, <1>2, <1>3, <1>4, <1>5, <2>1
<1>6. CASE o.do = "withdraw"
  <2>0. o.key \in Fragments /\ rest = Left(t)
    BY <1>1, <1>6, OperationIs DEF Withdraws, Left
  <2>1. CASE DOMAIN rest = {}
    <3>1. back = <<>>
      BY <1>6, <2>1 DEF PutBack
    <3> HIDE DEF back
    <3> QED
      BY <1>1, <1>2, <1>3, <1>4, <1>6, <2>0, <2>1, <3>1
  <2>2. CASE DOMAIN rest # {}
    <3> DEFINE p == Restore(o.key, [got[t] EXCEPT !.data = rest])
    <3>2. got[t].data \in QueryHits /\ got[t].time \in 0 .. MaxTime
      BY <1>1, <2>0, Constants DEF IsRecord, DataOf
    <3>3. rest \in QueryHits
      BY <2>2, <3>2, WithoutQueryIs
    <3>4. p \in Restores
      <4> HIDE DEF rest
      <4> QED
        BY <2>0, <3>2, <3>3, AddIs
    <3>5. p.key = o.key /\ p.time = got[t].time /\ p.data = rest
      <4>1. got[t] = [time |-> got[t].time, data |-> got[t].data]
        BY <1>1 DEF IsRecord
      <4> HIDE DEF rest
      <4>2. [got[t] EXCEPT !.data = rest] = [time |-> got[t].time, data |-> rest]
        BY <4>1
      <4> QED
        BY <4>2 DEF Restore
    <3>6. back = <<p>>
      BY <1>6, <2>2 DEF PutBack
    <3>7. <<p>> # <<>>
      OBVIOUS
    <3>8. GoOn(t, Instead(t, <<p>>))
      <4> HIDE DEF back, p
      <4> QED
        BY <1>2, <3>6, <3>7
    <3> HIDE DEF back, p
    <3> QED
      BY <1>1, <1>2, <1>3, <1>4, <1>6, <2>0, <2>2, <3>4, <3>5, <3>8
  <2> QED
    BY <2>1, <2>2
<1> QED
  BY <1>1, <1>5, <1>6

LEMMA OutTypes == ASSUME TypeInv, NEW t \in Threads, Out(t) PROVE TypeInv'
<1> DEFINE k == Op(t).key
<1>1. /\ VisitCall(todo[t]) \/ OtherCall(todo[t])
      /\ Op(t) \in Heads \cup VisitOps
      /\ pc[t] \in Working /\ k \in Keys /\ Op(t).do # "visit"
      /\ UNCHANGED <<iter, now, nr, multi, calls, got, val, left, doomed, date, visits>>
  BY OutIs, InHand DEF Working
<1>2. due' = [s \in Threads |-> due[s] \ {k}] /\ \A s \in Threads : due'[s] \subseteq due[s]
  <2>1. due' = [s \in Threads |-> due[s] \ {k}]
    BY OutIs
  <2> QED
    BY <2>1
<1>3. Globals'
  <2>1. \A j \in Keys : Here(j)' => IsRecord(j, db'[j])
    BY <1>1, OutIs DEF TypeInv, Globals, Here
  <2> QED
    BY <1>1, <2>1, OutIs DEF TypeInv, Globals
<1>4. left'[t] \in Nat \ {0}
  BY <1>1 DEF TypeInv, Fine
<1>5. ASSUME NEW ops, GoOn(t, ops), Going(ops) PROVE TypeInv'
  <2>1. LocalShapes'
    BY <1>1, <1>2, <1>5 DEF TypeInv, LocalShapes, GoOn
  <2> QED
    BY <1>1, <1>2, <1>3, <1>4, <1>5, <2>1, ResumeTypes
<1>6. CASE pc' = [pc EXCEPT ![t] = "uncount"] /\ UNCHANGED todo /\ Op(t).do = "leave"
  <2>1. LocalShapes' /\ pc'[t] = "uncount"
    BY <1>1, <1>2, <1>6 DEF TypeInv, LocalShapes
  <2> QED
    BY <1>1, <1>2, <1>3, <1>4, <1>6, <2>1, StayTypes
<1>7. Going(Done(t)) /\ Going(Thrown(t)) /\ \A p \in Restores : Going(Instead(t, <<p>>))
  <2>1. Restores \subseteq Heads
    BY DEF Heads
  <2> QED
    BY <1>1, <2>1, WhatIsLeft
<1> QED
  BY <1>5, <1>6, <1>7, OutIs

LEMMA CountsTypes ==
  ASSUME TypeInv, NEW t \in Threads, NEW step \in {"count", "uncount"}, NEW d \in {-1, 1},
         Counts(t, step, d)
  PROVE  TypeInv'
<1>1. /\ pc[t] \in Working /\ GoOn(t, Done(t))
      /\ UNCHANGED <<db, iter, now, multi, calls, got, val, left, doomed, date, due, visits>>
  BY DEF Counts, Working
<1>2. Going(Done(t))
  BY <1>1, InHand, WhatIsLeft, Zenon
<1>3. LocalShapes' /\ left'[t] \in Nat \ {0}
  BY <1>1 DEF TypeInv, LocalShapes, Fine, GoOn
<1>4. nr' \in 0 .. Word - 1
  <2>1. nr \in 0 .. Word - 1 /\ Word \in Nat \ {0}
    BY Width DEF TypeInv, Globals
  <2>2. (nr + d + Word) % Word \in 0 .. Word - 1
    BY <2>1, Modulo
  <2>3. nr' = (nr + d + Word) % Word \/ nr' = nr
    BY DEF Counts
  <2> QED
    BY <2>1, <2>2, <2>3
<1>5. Globals'
  BY <1>1, <1>4 DEF TypeInv, Globals, Here
<1> QED
  BY <1>1, <1>2, <1>3, <1>5, ResumeTypes

LEMMA RestartTypes == ASSUME TypeInv, Restart PROVE TypeInv'
<1>1. LocalShapes'
  BY DEF Restart, LocalShapes
<1>2. nr' \in 0 .. Word - 1
  <2>1. nr' = Cardinality(Captured) % Word
    BY DEF Restart
  <2>2. Cardinality(Captured) \in Int /\ Word \in Nat \ {0}
    BY CapturedFinite, Width
  <2> HIDE DEF Captured
  <2> QED
    BY <2>1, <2>2, Modulo
<1>3. Globals'
  BY <1>2 DEF Restart, TypeInv, Globals, Here
<1>4. ASSUME NEW t \in Threads PROVE Fine(t)'
  BY DEF Restart, Fine, Working, Steps
<1> QED
  BY <1>1, <1>3, <1>4 DEF TypeInv

\* The sweep.
LEMMA WalkTypes ==
  ASSUME TypeInv, NEW t \in Threads,
         \/ \E p \in {"query-capture", "uri-capture"} : Sweep(t, p)
         \/ WalkNext(t) \/ WalkRead(t) \/ WalkEnds(t) \/ Prune(t) \/ PruneEnds(t)
  PROVE  TypeInv'
<1>0. /\ pc = [s \in Threads |-> pc[s]] /\ todo = [s \in Threads |-> todo[s]]
      /\ got = [s \in Threads |-> got[s]] /\ val = [s \in Threads |-> val[s]]
      /\ left = [s \in Threads |-> left[s]] /\ doomed = [s \in Threads |-> doomed[s]]
      /\ date = [s \in Threads |-> date[s]] /\ due = [s \in Threads |-> due[s]]
  BY DEF TypeInv, LocalShapes
<1>1. CASE \E p \in {"query-capture", "uri-capture"} : Sweep(t, p)
  <2>1. PICK p \in {"query-capture", "uri-capture"} : Sweep(t, p)
    BY <1>1
  <2>2. /\ pc[t] = "idle" /\ calls < MaxCalls /\ calls' = calls + 1
        /\ date' = [date EXCEPT ![t] = now - Retention]
        /\ iter' = {k \in Keys : Here(k)}
        /\ due' = [s \in Threads |-> due'[s]]
        /\ due'[t] \in SUBSET Keys /\ \A s \in Threads \ {t} : due'[s] \subseteq due[s]
        /\ got' = [got EXCEPT ![t] = p] /\ pc' = [pc EXCEPT ![t] = "walk"]
        /\ UNCHANGED <<db, now, nr, multi, todo, val, left, doomed, visits>>
    <3>1. due' = [s \in Threads |->
                    IF Walkers # {} THEN IF s \in Walkers \cup {t} THEN {} ELSE due[s]
                    ELSE IF s = t THEN {k \in Keys : Plugin(k) = p /\ Old(k, now - Retention)}
                    ELSE due[s]]
      BY <2>1 DEF Sweep
    <3>2. due' = [s \in Threads |-> due'[s]]
      BY <3>1
    <3>3. due'[t] \in SUBSET Keys /\ \A s \in Threads \ {t} : due'[s] \subseteq due[s]
      BY <3>1
    <3> QED
      BY <2>1, <3>2, <3>3 DEF Sweep, Free
  <2>3. LocalShapes'
    BY <1>0, <2>2 DEF LocalShapes
  <2>4. Globals'
    <3>1. calls' \in 0 .. MaxCalls /\ iter' \in SUBSET Keys
      BY <2>2, Constants DEF TypeInv, Globals
    <3> QED
      BY <2>2, <3>1 DEF TypeInv, Globals, Here
  <2>5. Rest(t)
    BY <1>0, <2>2 DEF Rest, SameFor
  <2>6. Fine(t)'
    <3>1. /\ pc'[t] = "walk" /\ todo'[t] = <<>> /\ date'[t] \in Int /\ due'[t] \in SUBSET Keys
          /\ left'[t] \in Nat \ {0} /\ doomed'[t] \in SUBSET Keys
      BY <1>0, <2>2, Constants DEF TypeInv, Globals, Fine
    <3> QED
      BY <3>1 DEF Fine, Working, Steps
  <2> QED
    BY <2>3, <2>4, <2>5, <2>6, OneStep
<1>2. CASE WalkNext(t)
  <2>1. PICK k \in iter : /\ iter' = iter \ {k}
                          /\ todo' = [todo EXCEPT ![t] = <<<<[do |-> "read", key |-> k]>>>>]
    BY <1>2 DEF WalkNext
  <2>2. /\ pc[t] = "walk" /\ pc' = [pc EXCEPT ![t] = "read"]
        /\ UNCHANGED <<db, now, nr, multi, calls, got, val, left, doomed, date, due, visits>>
    BY <1>2 DEF WalkNext
  <2>3. LocalShapes'
    BY <1>0, <2>1, <2>2 DEF LocalShapes
  <2>4. Globals'
    BY <2>1, <2>2 DEF TypeInv, Globals, Here
  <2>5. Rest(t)
    BY <1>0, <2>1, <2>2 DEF Rest, SameFor
  <2>6. Fine(t)'
    <3>1. pc'[t] = "read" /\ todo'[t] = <<<<[do |-> "read", key |-> k]>>>> /\ k \in Keys
      BY <1>0, <2>1, <2>2 DEF TypeInv, Globals
    <3>2. left'[t] \in Nat \ {0} /\ date'[t] \in Int /\ doomed'[t] \in SUBSET Keys
          /\ due'[t] \in SUBSET Keys
      BY <2>2 DEF TypeInv, Fine
    <3> QED
      BY <3>1, <3>2 DEF Fine, Working, Steps
  <2> QED
    BY <2>3, <2>4, <2>5, <2>6, OneStep
<1>3. CASE WalkRead(t)
  <2>1. /\ pc[t] = "read" /\ pc' = [pc EXCEPT ![t] = "walk"]
        /\ todo' = [todo EXCEPT ![t] = <<>>]
        /\ doomed' = [doomed EXCEPT ![t] =
             IF Plugin(Op(t).key) = got[t] /\ Old(Op(t).key, date[t])
             THEN @ \cup {Op(t).key} ELSE @]
        /\ UNCHANGED <<db, iter, now, nr, multi, calls, got, val, left, date, due, visits>>
    BY <1>3 DEF WalkRead
  <2>2. Op(t).key \in Keys
    <3>1. PICK k \in Keys : todo[t] = <<<<[do |-> "read", key |-> k]>>>>
      BY <2>1 DEF TypeInv, Fine
    <3> QED
      BY <3>1 DEF Op
  <2>3. LocalShapes'
    BY <1>0, <2>1 DEF LocalShapes
  <2>4. Globals'
    BY <2>1 DEF TypeInv, Globals, Here
  <2>5. Rest(t)
    BY <1>0, <2>1 DEF Rest, SameFor
  <2>6. Fine(t)'
    <3>1. /\ pc'[t] = "walk" /\ todo'[t] = <<>> /\ doomed'[t] \in SUBSET Keys
          /\ left'[t] \in Nat \ {0} /\ date'[t] \in Int /\ due'[t] \in SUBSET Keys
      BY <1>0, <2>1, <2>2 DEF TypeInv, Fine
    <3> QED
      BY <3>1 DEF Fine, Working, Steps
  <2> QED
    BY <2>3, <2>4, <2>5, <2>6, OneStep
<1>4. CASE WalkEnds(t)
  <2>1. /\ pc[t] = "walk" /\ pc' = [pc EXCEPT ![t] = "prune"] /\ iter' = {}
        /\ UNCHANGED <<db, now, nr, multi, calls, todo, got, val, left, doomed, date, due, visits>>
    BY <1>4 DEF WalkEnds
  <2>3. LocalShapes'
    BY <1>0, <2>1 DEF LocalShapes
  <2>4. Globals'
    BY <2>1 DEF TypeInv, Globals, Here
  <2>5. Rest(t)
    BY <1>0, <2>1 DEF Rest, SameFor
  <2>6. Fine(t)'
    <3>1. /\ pc'[t] = "prune" /\ todo'[t] = <<>> /\ doomed'[t] \in SUBSET Keys
          /\ left'[t] \in Nat \ {0} /\ date'[t] \in Int /\ due'[t] \in SUBSET Keys
      BY <1>0, <2>1 DEF TypeInv, Fine
    <3> QED
      BY <3>1 DEF Fine, Working, Steps
  <2> QED
    BY <2>3, <2>4, <2>5, <2>6, OneStep
<1>5. CASE Prune(t)
  <2>0. PICK k \in doomed[t] : /\ db' = [db EXCEPT ![k] = NONE]
                               /\ doomed' = [doomed EXCEPT ![t] = @ \ {k}]
                               /\ Touched(k)
    BY <1>5 DEF Prune
  <2>1. /\ pc[t] = "prune" /\ due' = [s \in Threads |-> due[s] \ {k}]
        /\ UNCHANGED <<iter, now, nr, multi, calls, pc, todo, got, val, left, date, visits>>
    BY <1>5, <2>0 DEF Prune, Touched
  <2>3. LocalShapes'
    BY <1>0, <2>0, <2>1 DEF LocalShapes
  <2>4. Globals'
    <3>1. db' = [j \in Keys |-> db'[j]] /\ \A j \in Keys : db'[j] = IF j = k THEN NONE ELSE db[j]
      BY <2>0 DEF TypeInv, Globals
    <3> QED
      BY <2>1, <3>1 DEF TypeInv, Globals, Here
  <2>5. Rest(t)
    BY <1>0, <2>0, <2>1 DEF Rest, SameFor
  <2>6. Fine(t)'
    <3>1. /\ pc'[t] = "prune" /\ todo'[t] = <<>> /\ doomed'[t] \in SUBSET Keys
          /\ left'[t] \in Nat \ {0} /\ date'[t] \in Int /\ due'[t] \in SUBSET Keys
      BY <1>0, <2>0, <2>1 DEF TypeInv, Fine
    <3> QED
      BY <3>1 DEF Fine, Working, Steps
  <2> QED
    BY <2>3, <2>4, <2>5, <2>6, OneStep
<1>6. CASE PruneEnds(t)
  <2>1. /\ pc[t] = "prune" /\ pc' = [pc EXCEPT ![t] = "idle"] /\ got' = [got EXCEPT ![t] = NONE]
        /\ UNCHANGED <<db, iter, now, nr, multi, calls, todo, val, left, doomed, date, due, visits>>
    BY <1>6 DEF PruneEnds
  <2>3. LocalShapes'
    BY <1>0, <2>1 DEF LocalShapes
  <2>4. Globals'
    BY <2>1 DEF TypeInv, Globals, Here
  <2>5. Rest(t)
    BY <1>0, <2>1 DEF Rest, SameFor
  <2>6. Fine(t)'
    <3>1. /\ pc'[t] = "idle" /\ todo'[t] = <<>> /\ doomed'[t] \in SUBSET Keys
          /\ left'[t] \in Nat \ {0} /\ date'[t] \in Int /\ due'[t] \in SUBSET Keys
      BY <1>0, <2>1 DEF TypeInv, Fine
    <3> QED
      BY <3>1 DEF Fine, Working, Steps
  <2> QED
    BY <2>3, <2>4, <2>5, <2>6, OneStep
<1> QED
  BY <1>1, <1>2, <1>3, <1>4, <1>5, <1>6

\* The program starts with what Files says, all of it as old as the clock.
LEMMA InitTypes == ASSUME Init PROVE TypeInv
<1>0. PICK f \in Files : db = f
  BY DEF Init
<1>1. /\ f = [k \in Keys |-> f[k]]
      /\ \A k \in Keys : f[k] # NONE => /\ f[k] = [time |-> 0, data |-> f[k].data]
                                        /\ IsDataOf(k, f[k].data)
                                        /\ k \in Uris \ Hosts => f[k].data[Visits] > 0
  BY Zenon, UserDatabaseAssumption
<1>2. /\ db = [k \in Keys |-> db[k]]
      /\ \A k \in Keys : Here(k) => IsRecord(k, db[k])
  <2>1. \A k \in Keys : f[k] # NONE => f[k].time = 0 /\ f[k] = [time |-> f[k].time, data |-> f[k].data]
    BY <1>1
  <2> QED
    BY <1>0, <1>1, <2>1, Constants, DataIs DEF Here, IsRecord
<1>3. visits \in [Uris -> Nat]
  <2>1. \A k \in Uris : Here(k) => db[k].data[Visits] \in Int
    BY <1>2 DEF IsRecord, DataOf, Keys
  <2>2. visits = [k \in Uris |-> IF Here(k) /\ db[k].data[Visits] > 0
                                 THEN db[k].data[Visits] ELSE 0]
    BY DEF Init
  <2> QED
    BY <2>1, <2>2
<1>4. nr \in 0 .. Word - 1
  <2>1. nr = Cardinality(Captured)
    BY DEF Init, Captured, Here
  <2> QED
    BY <2>1, CapturedFinite, Width, Constants
<1>5. /\ iter = {} /\ now = 0 /\ calls = 0 /\ multi \in BOOLEAN
      /\ pc = [t \in Threads |-> "idle"] /\ todo = [t \in Threads |-> <<>>]
      /\ got = [t \in Threads |-> NONE] /\ val = [t \in Threads |-> NONE]
      /\ left = [t \in Threads |-> 1] /\ doomed = [t \in Threads |-> {}]
      /\ date = [t \in Threads |-> 0] /\ due = [t \in Threads |-> {}]
  BY DEF Init
<1>6. LocalShapes
  BY <1>5 DEF LocalShapes
<1>7. Globals
  BY <1>2, <1>3, <1>4, <1>5, Constants DEF Globals
<1>8. ASSUME NEW t \in Threads PROVE Fine(t)
  BY <1>5 DEF Fine, Working, Steps
<1> QED
  BY <1>6, <1>7, <1>8 DEF TypeInv

LEMMA TickTypes == ASSUME TypeInv, Tick PROVE TypeInv'
<1>1. now < MaxTime /\ now' = now + 1 /\ UNCHANGED <<db, iter, nr, multi, calls, locals, visits>>
  BY DEF Tick
<1>2. now' \in 0 .. MaxTime
  BY <1>1, Constants DEF TypeInv, Globals
<1>3. LocalShapes' /\ Globals'
  BY <1>1, <1>2 DEF locals, TypeInv, LocalShapes, Globals, Here, IsRecord
<1>4. ASSUME NEW t \in Threads PROVE Fine(t)'
  <2>1. SameFor(t)
    BY <1>1 DEF SameFor, locals
  <2> QED
    BY <2>1, SameIsFine DEF TypeInv
<1> QED
  BY <1>3, <1>4 DEF TypeInv

LEMMA NextTypes == ASSUME TypeInv, [Next]_dbVars PROVE TypeInv'
<1>1. CASE UNCHANGED dbVars
  <2>1. LocalShapes' /\ Globals'
    BY <1>1 DEF dbVars, locals, TypeInv, LocalShapes, Globals, Here
  <2>2. ASSUME NEW t \in Threads PROVE Fine(t)'
    <3>1. SameFor(t)
      BY <1>1 DEF SameFor, dbVars, locals
    <3> QED
      BY <3>1, SameIsFine DEF TypeInv
  <2> QED
    BY <2>1, <2>2 DEF TypeInv
<1>2. ASSUME NEW t \in Threads, FindNull(t) PROVE TypeInv'
  BY <1>2, RestartTypes DEF FindNull
<1>3. CASE Crash
  BY <1>3, RestartTypes DEF Crash
<1>4. ASSUME NEW t \in Threads, Count(t) \/ Uncount(t) PROVE TypeInv'
  BY <1>4, CountsTypes DEF Count, Uncount
<1>5. ASSUME NEW t \in Threads,
             \/ StoreQueries(t) \/ StoreQuery(t) \/ RemoveQueries(t)
             \/ RemoveUrl(t) \/ ThumbDownUrl(t) \/ StoreUri(t)
      PROVE TypeInv'
  BY <1>5, CallsStart, CallTypes
<1> QED
  BY <1>1, <1>2, <1>3, <1>4, <1>5, FindTypes, GetTypes, PutTypes, PutFailsTypes, OutTypes,
     WalkTypes, TickTypes DEF Next

-----------------------------------------------------------------------------
(* Visits.                                                                   *)

\* A record of a URI, and one that is about to be written, has no more hits than there
\* were visits, with the visit that it is about to be counted for.
VisitsInv ==
    /\ \A k \in Uris : Here(k) => db[k].data[Visits] <= visits[k]
    /\ \A t \in Threads : pc[t] = "put" /\ Op(t).key \in Uris =>
         val[t].data[Visits] <= visits[Op(t).key] + IF Op(t).do = "visit" THEN 1 ELSE 0

LEMMA HitsAre ==
  ASSUME TypeInv
  PROVE  /\ \A k \in Uris : visits[k] \in Nat /\ (Here(k) => db[k].data[Visits] \in Int)
         /\ \A t \in Threads : pc[t] = "put" /\ Op(t).key \in Uris => val[t].data[Visits] \in Int
<1>1. ASSUME NEW k \in Uris, NEW r, IsRecord(k, r) PROVE r.data[Visits] \in Int
  BY <1>1 DEF IsRecord, DataOf
<1>2. \A k \in Uris : visits[k] \in Nat
  BY DEF TypeInv, Globals
<1>3. \A k \in Uris : Here(k) => IsRecord(k, db[k])
  BY DEF TypeInv, Globals, Keys
<1>4. \A t \in Threads : pc[t] = "put" => IsRecord(Op(t).key, val[t])
  BY DEF TypeInv, Fine
<1> QED
  BY <1>1, <1>2, <1>3, <1>4

\* A thread that is about to write, and was before.
LEMMA VisitsStay ==
  ASSUME VisitsInv, TypeInv, UNCHANGED visits,
         \A k \in Uris : Here(k)' => Here(k) /\ db'[k] = db[k],
         \A t \in Threads : pc'[t] = "put" =>
            pc[t] = "put" /\ todo'[t] = todo[t] /\ val'[t] = val[t]
  PROVE  VisitsInv'
BY DEF VisitsInv, Op

LEMMA GetVisits == ASSUME VisitsInv, TypeInv, NEW t \in Threads, Get(t) PROVE VisitsInv'
<1> DEFINE k == Op(t).key
<1>1. /\ pc[t] = "get" /\ UNCHANGED <<db, todo, visits>>
      /\ \A s \in Threads \ {t} : pc'[s] = pc[s] /\ val'[s] = val[s]
      /\ val'[t] = IF Here(k) THEN [time |-> now, data |-> Merge(db[k].data, Op(t).data)]
                   ELSE [time |-> IF Op(t).time = -1 THEN now ELSE Op(t).time,
                         data |-> Op(t).data]
  BY DEF Get, TypeInv, LocalShapes
<1>2. /\ Op(t) \in Adds \cup Discounts \cup Restores \cup VisitOps /\ k \in Keys
      /\ Here(k) => IsRecord(k, db[k])
  <2>1. /\ Op(t) \in Heads \cup VisitOps /\ k \in Keys
        /\ Here(k) => IsRecord(k, db[k])
        /\ Op(t).do \in {"add", "visit"}
    BY <1>1, InHand DEF Working, TypeInv, Fine
  <2> QED
    BY <2>1, OperationIs
<1>3. ASSUME k \in Uris
      PROVE  /\ Op(t).data \in DataOf(k)
             /\ Op(t).data[Visits] \in Int
             /\ Op(t).data[Visits] <= IF Op(t).do = "visit" THEN 1 ELSE 0
  <2>1. CASE Op(t) \in Adds \cup Restores
    BY <1>3, <2>1, Constants DEF Adds, Restores
  <2>2. CASE Op(t) \in Discounts
    <3>1. Op(t).do = "add" /\ Op(t).data \in [{Visits} -> {n \in Int : n < 0}]
      BY <2>2 DEF Discounts
    <3>2. [{Visits} -> {n \in Int : n < 0}] \subseteq [{Visits} -> Int]
      OBVIOUS
    <3>3. Op(t).data \in [{Visits} -> Int] /\ Op(t).data[Visits] < 0
      BY <3>1, <3>2
    <3> QED
      BY <1>3, <3>1, <3>3 DEF DataOf
  <2>3. CASE Op(t) \in VisitOps
    <3>1. Op(t).do = "visit" /\ Op(t).data \in [{Visits} -> {1}]
      BY <2>3 DEF VisitOps
    <3>2. [{Visits} -> {1}] \subseteq [{Visits} -> Int]
      OBVIOUS
    <3>3. Op(t).data \in [{Visits} -> Int] /\ Op(t).data[Visits] = 1
      BY <3>1, <3>2
    <3> QED
      BY <1>3, <3>1, <3>3 DEF DataOf
  <2> QED
    BY <1>2, <2>1, <2>2, <2>3
<1>4. ASSUME k \in Uris
      PROVE  val'[t].data[Visits] <= visits[k] + IF Op(t).do = "visit" THEN 1 ELSE 0
  <2>1. visits[k] \in Nat
    BY <1>4, HitsAre
  <2>2. CASE Here(k)
    <3>1. db[k].data \in DataOf(k) /\ db[k].data[Visits] \in Int
      BY <1>2, <1>4, <2>2, HitsAre DEF IsRecord
    <3>2. Merge(db[k].data, Op(t).data)[Visits] = db[k].data[Visits] + Op(t).data[Visits]
      BY <1>2, <1>3, <1>4, <3>1, MergeKeeps
    <3>3. val'[t].data = Merge(db[k].data, Op(t).data)
      BY <1>1, <2>2
    <3>4. db[k].data[Visits] <= visits[k]
      BY <1>4, <2>2 DEF VisitsInv
    <3> QED
      BY <1>3, <1>4, <2>1, <3>1, <3>2, <3>3, <3>4
  <2>3. CASE ~Here(k)
    <3>1. val'[t].data = Op(t).data
      BY <1>1, <2>3
    <3> QED
      BY <1>3, <1>4, <2>1, <3>1
  <2> QED
    BY <2>2, <2>3
<1>5. \A s \in Threads : Op(s)' = Op(s)
  BY <1>1 DEF Op
<1>6. \A s \in Threads : pc'[s] = "put" /\ Op(s).key \in Uris =>
         val'[s].data[Visits] <= visits[Op(s).key] + IF Op(s).do = "visit" THEN 1 ELSE 0
  BY <1>1, <1>4 DEF VisitsInv
<1> QED
  BY <1>1, <1>5, <1>6 DEF VisitsInv, Here

LEMMA PutVisits == ASSUME VisitsInv, TypeInv, NEW t \in Threads, Put(t) PROVE VisitsInv'
<1> DEFINE k == Op(t).key
<1>1. /\ pc[t] = "put" /\ k \in Keys
      /\ db'[k] = val[t] /\ \A j \in Keys \ {k} : db'[j] = db[j]
      /\ \A s \in Threads \ {t} : val'[s] = val[s]
      /\ visits' = IF Op(t).do = "visit" THEN [visits EXCEPT ![k] = @ + 1] ELSE visits
  BY PutIs, InHand DEF Working
<1>2. \A s \in Threads : pc'[s] = "put" => s # t /\ pc[s] = "put" /\ todo'[s] = todo[s]
  BY PutIs, <1>1, ZenonT(30) DEF GoOn, Entry, TypeInv, LocalShapes
<1>3. visits \in [Uris -> Nat]
  BY DEF TypeInv, Globals
<1>4. /\ \A j \in Uris : visits[j] <= visits'[j] /\ visits'[j] \in Nat
      /\ k \in Uris => visits'[k] = visits[k] + IF Op(t).do = "visit" THEN 1 ELSE 0
  <2>1. CASE Op(t).do = "visit"
    <3>1. visits' = [visits EXCEPT ![k] = @ + 1]
      BY <1>1, <2>1
    <3> QED
      BY <1>3, <2>1, <3>1
  <2>2. CASE Op(t).do # "visit"
    <3>1. visits' = visits
      BY <1>1, <2>2
    <3> QED
      BY <1>3, <2>2, <3>1
  <2> QED
    BY <2>1, <2>2
<1>5. ASSUME NEW j \in Uris, Here(j)' PROVE db'[j].data[Visits] <= visits'[j]
  <2>1. CASE j = k
    BY <1>1, <1>4, <2>1 DEF VisitsInv
  <2>2. CASE j # k
    <3>1. j \in Keys /\ db'[j] = db[j] /\ Here(j)
      BY <1>1, <1>5, <2>2 DEF Keys, Here
    <3>2. db[j].data[Visits] <= visits[j] /\ db[j].data[Visits] \in Int
      BY <3>1, HitsAre DEF VisitsInv
    <3> QED
      BY <1>3, <1>4, <3>1, <3>2
  <2> QED
    BY <2>1, <2>2
<1>6. ASSUME NEW s \in Threads, pc'[s] = "put", Op(s)'.key \in Uris
      PROVE  val'[s].data[Visits] <= visits'[Op(s)'.key] + IF Op(s)'.do = "visit" THEN 1 ELSE 0
  <2>1. s # t /\ pc[s] = "put" /\ Op(s)' = Op(s) /\ val'[s] = val[s]
    BY <1>1, <1>2, <1>6 DEF Op
  <2>2. /\ val[s].data[Visits] <= visits[Op(s).key] + IF Op(s).do = "visit" THEN 1 ELSE 0
        /\ val[s].data[Visits] \in Int
    BY <1>6, <2>1, HitsAre DEF VisitsInv
  <2> QED
    BY <1>3, <1>4, <1>6, <2>1, <2>2
<1> QED
  BY <1>5, <1>6 DEF VisitsInv

LEMMA InitVisits == ASSUME Init PROVE VisitsInv
<1>1. \A t \in Threads : pc[t] = "idle"
  BY DEF Init
<1>2. \A k \in Uris : Here(k) => db[k].data[Visits] \in Int
  BY InitTypes, HitsAre
<1>3. visits = [k \in Uris |-> IF Here(k) /\ db[k].data[Visits] > 0
                               THEN db[k].data[Visits] ELSE 0]
  BY DEF Init
<1> QED
  BY <1>1, <1>2, <1>3 DEF VisitsInv

\* A thread whose call goes on does not write yet.
LEMMA ResumedVisits ==
  ASSUME VisitsInv, TypeInv, NEW t \in Threads, NEW ops, GoOn(t, ops),
         UNCHANGED visits, \A s \in Threads \ {t} : val'[s] = val[s],
         \A k \in Uris : Here(k)' => Here(k) /\ db'[k] = db[k]
  PROVE  VisitsInv'
<1>1. \A s \in Threads : pc'[s] = "put" => s # t /\ pc[s] = "put" /\ todo'[s] = todo[s]
  BY DEF GoOn, Entry, TypeInv, LocalShapes
<1> QED
  BY <1>1, VisitsStay

LEMMA NextVisits == ASSUME VisitsInv, TypeInv, [Next]_dbVars PROVE VisitsInv'
<1>1. CASE UNCHANGED dbVars
  BY <1>1, VisitsStay DEF dbVars, locals, Here
<1>2. CASE Restart
  BY <1>2, VisitsStay DEF Restart, Here
<1>3. CASE Tick
  BY <1>3, VisitsStay DEF Tick, locals, Here
<1>4. ASSUME NEW t \in Threads, Find(t) PROVE VisitsInv'
  <2>1. UNCHANGED <<db, val, visits>>
    BY <1>4 DEF Find
  <2>2. ASSUME NEW to \in {"get", "out"}, pc' = [pc EXCEPT ![t] = to], UNCHANGED todo PROVE VisitsInv'
    BY <2>1, <2>2, VisitsStay DEF TypeInv, LocalShapes, Here
  <2> QED
    BY <1>4, <2>1, <2>2, FindIs, ResumedVisits DEF Here
<1>5. ASSUME NEW t \in Threads, Out(t) PROVE VisitsInv'
  <2>1. /\ UNCHANGED <<val, visits>> /\ Op(t).key \in Keys
        /\ \A k \in Uris : Here(k)' => Here(k) /\ db'[k] = db[k]
    BY <1>5, OutIs DEF Here, Keys
  <2>2. ASSUME pc' = [pc EXCEPT ![t] = "uncount"], UNCHANGED todo PROVE VisitsInv'
    BY <2>1, <2>2, VisitsStay DEF TypeInv, LocalShapes
  <2> QED
    BY <1>5, <2>1, <2>2, OutIs, ResumedVisits
<1>6. ASSUME NEW t \in Threads, PutFails(t) PROVE VisitsInv'
  <2>1. /\ UNCHANGED <<db, visits>> /\ GoOn(t, Thrown(t))
        /\ \A s \in Threads \ {t} : val'[s] = val[s]
    BY <1>6 DEF PutFails, TypeInv, LocalShapes
  <2> QED
    BY <2>1, ResumedVisits DEF Here
<1>7. ASSUME NEW t \in Threads, Count(t) \/ Uncount(t) PROVE VisitsInv'
  <2>1. UNCHANGED <<db, visits, val>> /\ GoOn(t, Done(t))
    BY <1>7 DEF Count, Uncount, Counts
  <2> QED
    BY <2>1, ResumedVisits DEF Here
<1>8. ASSUME NEW t \in Threads, NEW ops, Call(t, ops) PROVE VisitsInv'
  <2>1. UNCHANGED <<db, visits, val>> /\ GoOn(t, ops)
    BY <1>8 DEF Call
  <2> QED
    BY <2>1, ResumedVisits DEF Here
<1>9. ASSUME NEW t \in Threads,
             \/ \E p \in {"query-capture", "uri-capture"} : Sweep(t, p)
             \/ WalkNext(t) \/ WalkRead(t) \/ WalkEnds(t) \/ PruneEnds(t)
      PROVE  VisitsInv'
  <2>1. /\ UNCHANGED <<db, visits, val>> /\ \A s \in Threads \ {t} : todo'[s] = todo[s]
        /\ \E to \in {"walk", "read", "prune", "idle"} : pc' = [pc EXCEPT ![t] = to]
    BY <1>9 DEF Sweep, WalkNext, WalkRead, WalkEnds, PruneEnds, TypeInv, LocalShapes
  <2>2. \A s \in Threads : pc'[s] = "put" => s # t /\ pc[s] = "put"
    BY <2>1 DEF TypeInv, LocalShapes
  <2> QED
    BY <2>1, <2>2, VisitsStay DEF Here
<1>10. ASSUME NEW t \in Threads, Prune(t) PROVE VisitsInv'
  <2>1. PICK k \in doomed[t] : db' = [db EXCEPT ![k] = NONE]
    BY <1>10 DEF Prune
  <2>2. UNCHANGED <<pc, todo, val, visits>>
    BY <1>10 DEF Prune
  <2>3. \A j \in Uris : Here(j)' => Here(j) /\ db'[j] = db[j]
    BY <2>1 DEF TypeInv, Globals, Here, Keys
  <2> QED
    BY <2>2, <2>3, VisitsStay
<1> QED
  <2>1. CASE Crash
    BY <1>2, <2>1 DEF Crash
  <2>2. ASSUME NEW t \in Threads, FindNull(t) PROVE VisitsInv'
    BY <1>2, <2>2 DEF FindNull
  <2>3. ASSUME NEW t \in Threads,
               \/ StoreQueries(t) \/ StoreQuery(t) \/ RemoveQueries(t)
               \/ RemoveUrl(t) \/ ThumbDownUrl(t) \/ StoreUri(t)
        PROVE VisitsInv'
    BY <2>3, <1>8, CallsStart
  <2> QED
    BY <1>1, <1>3, <1>4, <1>5, <1>6, <1>7, <1>9, <1>10, <2>1, <2>2, <2>3, GetVisits, PutVisits
       DEF Next

-----------------------------------------------------------------------------
(* The number of captured URIs, in a program of one thread.                  *)

\* What the thread owes the count, and the visits that its call may still count.
Counting(t) == IF pc[t] = "count" THEN 1 ELSE IF pc[t] = "uncount" THEN -1 ELSE 0
Owed(t) == IF todo[t] # <<>> /\ Op(t).do = "visit" THEN Len(Head(todo[t])) ELSE 0

\* A record of a URI that is merged with is still there when it is written: it is a
\* visit of a new URI that counts it.
Steady(t) == pc[t] \in {"get", "put"} /\ Op(t).key \in Uris =>
               Here(Op(t).key) \/ (Op(t).do = "visit" /\ got[t] = NONE)

NrInv == ~multi =>
    /\ (\A t \in Threads : pc[t] = "idle") => nr >= Cardinality(Captured)
    /\ nr <= Cardinality(Uris) + 2 * calls
    /\ \A t \in Threads : pc[t] # "idle" =>
         /\ \A s \in Threads \ {t} : pc[s] = "idle"
         /\ nr + Counting(t) >= Cardinality(Captured)
         /\ nr + Owed(t) <= Cardinality(Uris) + 2 * calls
         /\ Steady(t)

\* A step of the one thread that is not idle afterwards, if any.
LEMMA OneCounts ==
  ASSUME TypeInv, TypeInv', NEW t \in Threads, \A s \in Threads \ {t} : pc'[s] = "idle",
         nr' + Counting(t)' >= Cardinality(Captured)',
         Owed(t)' \in Nat, nr' + Owed(t)' <= Cardinality(Uris) + 2 * calls', Steady(t)'
  PROVE  NrInv'
<1>1. nr' \in Nat /\ calls' \in Nat /\ Cardinality(Uris) \in Nat
  BY Width, Constants DEF TypeInv, Globals
<1>2. Cardinality(Captured)' \in Nat
  <2>1. Captured' \subseteq Uris
    BY DEF Captured
  <2> QED
    BY <2>1, Width, FS_Subset, FS_CardinalityType
<1>3. pc'[t] = "idle" => Counting(t)' = 0
  BY DEF Counting
<1>4. nr' <= Cardinality(Uris) + 2 * calls'
  <2> HIDE DEF Owed
  <2> QED
    BY <1>1
<1>5. pc'[t] = "idle" => nr' >= Cardinality(Captured)'
  <2> HIDE DEF Captured
  <2> QED
    BY <1>1, <1>2, <1>3
<1>6. (\A s \in Threads : pc'[s] = "idle") => pc'[t] = "idle"
  OBVIOUS
<1>7. \A s \in Threads : pc'[s] # "idle" => s = t
  OBVIOUS
<1> QED
  BY <1>4, <1>5, <1>6, <1>7 DEF NrInv

\* What is captured changes with a record of a URI alone.
LEMMA CapturedMoves ==
  ASSUME TypeInv, NEW k \in Keys, \A j \in Keys \ {k} : db'[j] = db[j]
  PROVE  /\ Cardinality(Captured)' \in Nat /\ Cardinality(Captured) \in Nat
         /\ Cardinality(Captured)' <= Cardinality(Captured) + 1
         /\ (k \notin Uris \/ Here(k)) => Cardinality(Captured)' <= Cardinality(Captured)
         /\ db'[k] = NONE => Cardinality(Captured)' <= Cardinality(Captured)
         /\ (k \in Uris /\ Here(k) /\ db'[k] = NONE) =>
              Cardinality(Captured)' = Cardinality(Captured) - 1
<1>1. IsFiniteSet(Captured) /\ Cardinality(Captured) \in Nat
  BY CapturedFinite
<1>2. Captured' \in {Captured, Captured \cup {k}, Captured \ {k}}
  BY DEF Captured, Here, Keys
<1>3. /\ Captured' = Captured \cup {k} /\ k \notin Captured =>
           k \in Uris /\ ~Here(k) /\ db'[k] # NONE
      /\ (k \in Uris /\ Here(k) /\ db'[k] = NONE) => k \in Captured /\ Captured' = Captured \ {k}
  BY DEF Captured, Here, Keys
<1> DEFINE C == Captured
           D == Captured'
<1> HIDE DEF C, D
<1>4. D = C \/ (D = C \cup {k} /\ k \notin C) \/ (D = C \ {k} /\ k \in C)
  BY <1>2 DEF C, D
<1>5. Cardinality(C \cup {k}) = IF k \in C THEN Cardinality(C) ELSE Cardinality(C) + 1
  BY <1>1, FS_AddElement DEF C
<1>6. Cardinality(C \ {k}) = IF k \in C THEN Cardinality(C) - 1 ELSE Cardinality(C)
  BY <1>1, FS_RemoveElement DEF C
<1>7. /\ D = C \cup {k} /\ k \notin C => k \in Uris /\ ~Here(k) /\ db'[k] # NONE
      /\ (k \in Uris /\ Here(k) /\ db'[k] = NONE) => k \in C /\ D = C \ {k}
  BY <1>3 DEF C, D
<1>8. Cardinality(C) \in Nat
  BY <1>1 DEF C
<1>9. /\ Cardinality(D) \in Nat /\ Cardinality(D) <= Cardinality(C) + 1
      /\ (k \notin Uris \/ Here(k)) => Cardinality(D) <= Cardinality(C)
      /\ db'[k] = NONE => Cardinality(D) <= Cardinality(C)
      /\ (k \in Uris /\ Here(k) /\ db'[k] = NONE) => Cardinality(D) = Cardinality(C) - 1
  <2>1. CASE D = C
    BY <1>6, <1>7, <1>8, <2>1
  <2>2. CASE D = C \cup {k} /\ k \notin C
    BY <1>5, <1>7, <1>8, <2>2
  <2>3. CASE D = C \ {k} /\ k \in C
    <3>1. Cardinality(D) = Cardinality(C) - 1 /\ Cardinality(D) \in Nat
      BY <1>1, <1>6, <2>3, FS_RemoveElement, FS_CardinalityType DEF C
    <3> QED
      BY <1>8, <3>1
  <2> QED
    BY <1>4, <2>1, <2>2, <2>3
<1> QED
  BY <1>1, <1>9 DEF C, D

LEMMA OwedIs ==
  ASSUME TypeInv, NEW t \in Threads
  PROVE  /\ Owed(t) \in Nat
         /\ pc[t] \in Working /\ Op(t).do = "visit" =>
              VisitCall(todo[t]) /\ Owed(t) = Len(Head(todo[t])) /\ Owed(t) \in {1, 2}
         /\ pc[t] \in Working /\ Op(t).do # "visit" => OtherCall(todo[t]) /\ Owed(t) = 0
         /\ pc[t] \notin Working => Owed(t) = 0
<1>1. CASE pc[t] \in Working
  <2>1. CASE VisitCall(todo[t])
    <3>1. Op(t) \in VisitOps /\ todo[t] # <<>> /\ Len(Head(todo[t])) \in {1, 2}
      BY <2>1, VisitCallGoesOn DEF Op
    <3>2. Op(t).do = "visit"
      BY <3>1 DEF VisitOps
    <3> QED
      BY <1>1, <2>1, <3>1, <3>2 DEF Owed
  <2>2. CASE OtherCall(todo[t])
    <3>1. Op(t) \in Heads
      BY <2>2, OtherCallGoesOn DEF Op
    <3>2. Op(t).do # "visit"
      BY <3>1, OperationIs DEF Heads, Operations, VisitOps, Adds, Discounts, Restores,
                               Withdraws, Leaves, Unclicks, Thumbs
    <3> QED
      BY <1>1, <2>2, <3>2 DEF Owed
  <2> QED
    BY <1>1, <2>1, <2>2, InHand
<1>2. CASE pc[t] = "read"
  <2>1. PICK k \in Keys : todo[t] = <<<<[do |-> "read", key |-> k]>>>>
    BY <1>2 DEF TypeInv, Fine
  <2>2. Op(t).do = "read"
    BY <2>1 DEF Op
  <2> QED
    BY <1>2, <2>2 DEF Owed, Working
<1>3. CASE pc[t] \in {"idle", "walk", "prune"}
  BY <1>3 DEF TypeInv, Fine, Owed, Working
<1>4. pc[t] \in Steps
  BY DEF TypeInv, Fine
<1> QED
  BY <1>1, <1>2, <1>3, <1>4 DEF Steps, Working

OwedSoFar ==
    \A s \in Threads :
        /\ Owed(s) \in Nat
        /\ pc[s] \in Working /\ Op(s).do = "visit" => Owed(s) \in {1, 2}
        /\ pc[s] \in Working /\ Op(s).do # "visit" => Owed(s) = 0
        /\ pc[s] \notin Working => Owed(s) = 0

LEMMA OwedAlways == TypeInv => OwedSoFar
BY OwedIs DEF OwedSoFar

LEMMA OwedNextly == TypeInv' => OwedSoFar'
BY OwedAlways, PTL

LEMMA OwedNext ==
  ASSUME TypeInv', NEW t \in Threads
  PROVE  /\ Owed(t)' \in Nat
         /\ pc'[t] \in Working /\ Op(t)'.do = "visit" => Owed(t)' \in {1, 2}
         /\ pc'[t] \in Working /\ Op(t)'.do # "visit" => Owed(t)' = 0
         /\ pc'[t] \notin Working => Owed(t)' = 0
BY OwedNextly DEF OwedSoFar

\* An operation that adds, and is one of a call's from the start, adds to a fragment.
LEMMA AddsAre ==
  ASSUME NEW o \in Operations, o.do = "add"
  PROVE  o \in Adds /\ o.key \in Fragments /\ o.key \notin Uris
<1>1. o \in Adds
  BY DEF Operations, Withdraws, Leaves, Unclicks, Thumbs
<1> QED
  BY <1>1, Constants DEF Adds

\* The operation is done or has thrown: fewer visits are owed, and the next one finds
\* its record first.
LEMMA ResumedCounts ==
  ASSUME TypeInv, TypeInv', NEW t \in Threads, pc[t] \in Working,
         GoOn(t, Done(t)) \/ GoOn(t, Thrown(t))
  PROVE  /\ \A s \in Threads \ {t} : pc'[s] = pc[s]
         /\ Counting(t)' = 0 /\ Steady(t)'
         /\ Owed(t)' + (IF Op(t).do = "visit" THEN 1 ELSE 0) <= Owed(t)
<1>1. /\ VisitCall(todo[t]) \/ OtherCall(todo[t])
      /\ Done(t) = After(todo[t]) /\ Thrown(t) = Tail(todo[t])
      /\ Going(Done(t)) /\ Going(Thrown(t))
  BY InHand, WhatIsLeft, Zenon
<1>2. PICK ops \in {Done(t), Thrown(t)} : GoOn(t, ops)
  OBVIOUS
<1>3. /\ \A s \in Threads \ {t} : pc'[s] = pc[s]
      /\ todo'[t] = ops
      /\ ops = <<>> => pc'[t] = "idle"
      /\ ops # <<>> => /\ pc'[t] \in {"find", "get"}
                       /\ pc'[t] = "get" <=> Op(t)'.do = "add"
  <2>1. Going(ops)
    BY <1>1, <1>2
  <2>2. /\ \A s \in Threads \ {t} : pc'[s] = pc[s]
        /\ todo'[t] = ops
        /\ \/ ops = <<>> /\ pc'[t] = "idle"
           \/ /\ VisitCall(ops) \/ OtherCall(ops)
              /\ pc'[t] \in {"find", "get"}
              /\ pc'[t] = "get" <=> Op(t)'.do = "add"
    BY <1>2, <2>1, Resume, Zenon DEF TypeInv
  <2>3. VisitCall(ops) \/ OtherCall(ops) => ops # <<>>
    BY VisitCallGoesOn, OtherCallGoesOn, Zenon
  <2> QED
    BY <2>2, <2>3, Zenon
<1>4. Op(t)' = Head(Head(ops))
  BY <1>3 DEF Op
<1>5. Counting(t)' = 0
  BY <1>3 DEF Counting
<1>6. CASE VisitCall(todo[t])
  <2>1. /\ Op(t) \in VisitOps /\ Len(Head(todo[t])) \in {1, 2}
        /\ Owed(t) = Len(Head(todo[t])) /\ Op(t).do = "visit"
    <3>1. Op(t) \in VisitOps /\ todo[t] # <<>> /\ Len(Head(todo[t])) \in {1, 2}
      BY <1>6, VisitCallGoesOn DEF Op
    <3>2. Op(t).do = "visit"
      BY <3>1 DEF VisitOps
    <3> QED
      BY <3>1, <3>2 DEF Owed
  <2>2. CASE ops = <<>>
    <3>1. Owed(t)' = 0 /\ pc'[t] \notin {"get", "put"}
      BY <1>3, <2>2 DEF Owed
    <3>2. Steady(t)'
      BY <3>1 DEF Steady
    <3>3. Owed(t)' + 1 <= Owed(t)
      <4>1. Owed(t) \in {1, 2}
        BY <2>1
      <4>2. Owed(t)' = 0
        BY <3>1
      <4> HIDE DEF Owed
      <4> QED
        BY <4>1, <4>2
    <3> QED
      BY <1>3, <1>5, <2>1, <3>2, <3>3
  <2>3. CASE ops # <<>>
    <3>1. VisitCall(ops) /\ Len(Head(todo[t])) = 2 /\ Len(Head(ops)) = 1
      BY <1>1, <1>2, <1>6, <2>3, VisitCallGoesOn
    <3>2. Op(t)' \in VisitOps
      BY <1>4, <3>1, VisitCallGoesOn
    <3>3. Op(t)'.do = "visit"
      BY <3>2 DEF VisitOps
    <3>4. Owed(t)' = 1
      BY <1>3, <2>3, <3>1, <3>3 DEF Owed
    <3>5. pc'[t] \notin {"get", "put"}
      BY <1>3, <3>3
    <3> QED
      BY <1>3, <1>5, <2>1, <3>1, <3>4, <3>5 DEF Steady
  <2> QED
    BY <2>2, <2>3
<1>7. CASE OtherCall(todo[t])
  <2>1. ops = <<>> \/ (OtherCall(ops) /\ Head(Head(ops)) \in Operations)
    <3>1. ops = After(todo[t]) \/ ops = Tail(todo[t])
      BY <1>1, <1>2
    <3>2. CASE ops = After(todo[t])
      BY <1>7, <3>2, OtherCallGoesOn, Zenon
    <3>3. CASE ops = Tail(todo[t])
      BY <1>7, <3>3, OtherCallGoesOn, Zenon
    <3> QED
      BY <3>1, <3>2, <3>3
  <2>2. Owed(t) \in Nat /\ Op(t).do # "visit"
    <3>1. Op(t) \in Heads
      BY <1>7, OtherCallGoesOn DEF Op
    <3>2. Op(t).do # "visit"
      BY <3>1 DEF Heads, Operations, VisitOps, Adds, Discounts, Restores, Withdraws,
                  Leaves, Unclicks, Thumbs
    <3> QED
      BY <3>2, OwedIs
  <2>3. Owed(t)' = 0
    <3>1. CASE ops = <<>>
      BY <1>3, <3>1 DEF Owed
    <3>2. CASE ops # <<>>
      <4>1. Op(t)' \in Operations
        BY <1>4, <2>1, <3>2
      <4>2. Op(t)'.do # "visit"
        BY <4>1 DEF Operations, Adds, Withdraws, Leaves, Unclicks, Thumbs
      <4> QED
        BY <4>2 DEF Owed
    <3> QED
      BY <3>1, <3>2
  <2>4. Steady(t)'
    <3>1. CASE pc'[t] \in {"get", "put"}
      <4>1. ops # <<>> /\ Op(t)'.do = "add"
        BY <1>3, <3>1
      <4>2. Op(t)' \in Operations
        BY <1>4, <2>1, <4>1
      <4>3. Op(t)'.key \notin Uris
        BY <4>1, <4>2, AddsAre
      <4> QED
        BY <4>3 DEF Steady
    <3>2. CASE pc'[t] \notin {"get", "put"}
      BY <3>2 DEF Steady
    <3> QED
      BY <3>1, <3>2
  <2> QED
    BY <1>3, <1>5, <2>2, <2>3, <2>4
<1> QED
  BY <1>1, <1>6, <1>7

LEMMA CallCounts ==
  ASSUME NrInv, ~multi, TypeInv, TypeInv', NEW t \in Threads, NEW ops, Call(t, ops), Starts(ops)
  PROVE  NrInv'
<1>1. /\ \A s \in Threads : pc[s] = "idle"
      /\ GoOn(t, ops) /\ calls' = calls + 1
      /\ UNCHANGED <<db, nr, multi>>
  BY DEF Call, Free
<1>2. Going(ops)
  BY DEF Starts, Going
<1>3. /\ \A s \in Threads \ {t} : pc'[s] = pc[s]
      /\ todo'[t] = ops
      /\ \/ ops = <<>> /\ pc'[t] = "idle"
         \/ /\ VisitCall(ops) \/ OtherCall(ops)
            /\ pc'[t] \in {"find", "get"}
            /\ pc'[t] = "get" <=> Op(t)'.do = "add"
  BY <1>1, <1>2, Resume, Zenon DEF TypeInv
<1>4. Op(t)' = Head(Head(ops))
  BY <1>3 DEF Op
<1>5. Counting(t)' = 0
  BY <1>3 DEF Counting
<1>6. Owed(t)' \in Nat /\ Owed(t)' <= 2
  <2>1. /\ Owed(t)' \in Nat
        /\ pc'[t] \in Working /\ Op(t)'.do = "visit" => Owed(t)' \in {1, 2}
        /\ pc'[t] \in Working /\ Op(t)'.do # "visit" => Owed(t)' = 0
        /\ pc'[t] \notin Working => Owed(t)' = 0
    BY OwedNext
  <2> QED
    BY <2>1
<1>7. Steady(t)'
  <2>1. CASE pc'[t] = "get"
    <3>1. Op(t)'.do = "add" /\ ops # <<>>
      BY <1>3, <2>1, VisitCallGoesOn, OtherCallGoesOn
    <3>2. Head(Head(ops)) \in VisitOps \cup Operations
      BY <3>1, VisitCallGoesOn DEF Starts
    <3>3. Op(t)' \in Operations
      BY <1>4, <3>1, <3>2 DEF VisitOps
    <3>4. Op(t)'.key \notin Uris
      BY <3>1, <3>3, AddsAre
    <3> QED
      BY <3>4 DEF Steady
  <2>2. CASE pc'[t] # "get"
    BY <1>3, <2>2 DEF Steady
  <2> QED
    BY <2>1, <2>2
<1>8. /\ nr >= Cardinality(Captured) /\ nr <= Cardinality(Uris) + 2 * calls
      /\ Captured' = Captured
  BY <1>1 DEF NrInv, Captured, Here
<1>9. nr \in Nat /\ calls \in Nat /\ Cardinality(Uris) \in Nat /\ Cardinality(Captured) \in Nat
  BY Width, CapturedFinite, Constants DEF TypeInv, Globals
<1>10. nr' + Counting(t)' >= Cardinality(Captured)'
  <2> HIDE DEF Captured
  <2> QED
    BY <1>1, <1>5, <1>8, <1>9
<1>11. nr' + Owed(t)' <= Cardinality(Uris) + 2 * calls'
  <2> HIDE DEF Owed
  <2> QED
    BY <1>1, <1>6, <1>8, <1>9
<1> QED
  BY <1>1, <1>3, <1>6, <1>7, <1>10, <1>11, OneCounts

\* The step of the one thread that is at work.
LEMMA WorkCounts ==
  ASSUME NrInv, ~multi, TypeInv, TypeInv', NEW t \in Threads, pc[t] # "idle",
         \A s \in Threads \ {t} : pc'[s] = pc[s], UNCHANGED calls,
         nr' + Counting(t)' >= Cardinality(Captured)',
         nr' + Owed(t)' <= nr + Owed(t), Steady(t)'
  PROVE  NrInv'
<1>1. Owed(t) \in Nat /\ Owed(t)' \in Nat
  <2>1. Owed(t) \in Nat
    BY OwedIs
  <2>3. Owed(t)' \in Nat
    BY OwedNext
  <2> QED
    BY <2>1, <2>3
<1>2. nr \in Nat /\ nr' \in Nat /\ calls \in Nat /\ Cardinality(Uris) \in Nat
  BY Width, Constants DEF TypeInv, Globals
<1>3. nr + Owed(t) <= Cardinality(Uris) + 2 * calls /\ \A s \in Threads \ {t} : pc[s] = "idle"
  BY DEF NrInv
<1>4. nr' + Owed(t)' <= Cardinality(Uris) + 2 * calls'
  <2> HIDE DEF Owed
  <2> QED
    BY <1>1, <1>2, <1>3
<1> QED
  BY <1>1, <1>3, <1>4, OneCounts

LEMMA FindCounts ==
  ASSUME NrInv, ~multi, TypeInv, TypeInv', NEW t \in Threads, Find(t) PROVE NrInv'
<1>1. /\ pc[t] = "find" /\ pc[t] \in Working
      /\ UNCHANGED <<db, nr, multi, calls>>
      /\ got' = [got EXCEPT ![t] = IF pc'[t] = "out" \/ Op(t).do = "visit"
                                   THEN db[Op(t).key] ELSE NONE]
  BY DEF Find, Working, Found
<1>2. /\ VisitCall(todo[t]) \/ OtherCall(todo[t])
      /\ Op(t) \in Heads \cup VisitOps /\ Op(t).key \in Keys
  BY <1>1, InHand
<1>3. /\ nr + Counting(t) >= Cardinality(Captured) /\ Counting(t) = 0
      /\ Captured' = Captured
  BY <1>1 DEF NrInv, Counting, Captured, Here
<1>4. nr \in Nat /\ Owed(t) \in Nat
  BY OwedIs DEF TypeInv, Globals
<1>5. ASSUME \A s \in Threads \ {t} : pc'[s] = pc[s], Counting(t)' = 0, Owed(t)' <= Owed(t),
             Owed(t)' \in Nat, Steady(t)'
      PROVE  NrInv'
  <2>1. nr' + Counting(t)' >= Cardinality(Captured)'
    BY <1>1, <1>3, <1>5
  <2>2. nr' + Owed(t)' <= nr + Owed(t)
    BY <1>1, <1>4, <1>5
  <2> QED
    BY <1>1, <1>5, <2>1, <2>2, WorkCounts
<1>6. Owed(t)' \in Nat
  BY OwedNext
<1>7. ASSUME NEW to \in {"get", "out"}, pc' = [pc EXCEPT ![t] = to], UNCHANGED todo,
             to = "get" => Op(t).do = "visit"
      PROVE  NrInv'
  <2>1. pc'[t] = to /\ \A s \in Threads \ {t} : pc'[s] = pc[s]
    BY <1>7 DEF TypeInv, LocalShapes
  <2>2. Op(t)' = Op(t) /\ Owed(t)' = Owed(t)
    BY <1>7 DEF Op, Owed
  <2>3. Counting(t)' = 0
    BY <2>1 DEF Counting
  <2>4. Steady(t)'
    <3>1. CASE to = "get"
      <4>1. got'[t] = db[Op(t).key]
        BY <1>1, <1>7, <3>1 DEF TypeInv, LocalShapes
      <4> QED
        BY <1>1, <1>7, <2>2, <3>1, <4>1 DEF Steady, Here
    <3>2. CASE to = "out"
      BY <2>1, <3>2 DEF Steady
    <3> QED
      BY <3>1, <3>2
  <2>5. Owed(t)' <= Owed(t)
    BY <1>4, <2>2
  <2> QED
    BY <1>5, <1>6, <2>1, <2>3, <2>4, <2>5
<1>8. ASSUME GoOn(t, Done(t)) \/ GoOn(t, Thrown(t)), Op(t).do # "visit" PROVE NrInv'
  <2>1. /\ \A s \in Threads \ {t} : pc'[s] = pc[s]
        /\ Counting(t)' = 0 /\ Steady(t)'
        /\ Owed(t)' + 0 <= Owed(t)
    BY <1>1, <1>8, ResumedCounts
  <2>2. Owed(t)' <= Owed(t)
    <3> HIDE DEF Owed
    <3> QED
      BY <1>6, <2>1
  <2> QED
    BY <1>5, <1>6, <2>1, <2>2
<1>9. ASSUME NEW ops, NEW p \in Adds \cup Discounts, GoOn(t, Instead(t, ops)),
             Going(Instead(t, ops)), Head(Head(Instead(t, ops))) = p,
             p \in Discounts => Here(p.key)
      PROVE  NrInv'
  <2>1. /\ \A s \in Threads \ {t} : pc'[s] = pc[s]
        /\ todo'[t] = Instead(t, ops)
        /\ pc'[t] \in {"idle", "find", "get"}
    BY <1>9, Resume, Zenon DEF TypeInv
  <2>2. Op(t)' = p
    BY <1>9, <2>1 DEF Op
  <2>3. Counting(t)' = 0
    BY <2>1 DEF Counting
  <2>4. p.do = "add"
    BY DEF Adds, Discounts
  <2>5. Owed(t)' = 0 /\ Owed(t)' <= Owed(t)
    <3>1. Owed(t)' = 0
      BY <2>2, <2>4 DEF Owed
    <3> QED
      BY <1>4, <3>1
  <2>6. Steady(t)'
    <3>1. p.key \in Uris => Here(p.key)'
      BY <1>1, <1>9, Constants DEF Adds, Here
    <3> QED
      BY <2>2, <3>1 DEF Steady
  <2> QED
    BY <1>5, <1>6, <2>1, <2>3, <2>5, <2>6
<1>10. ASSUME Op(t).do # "visit"
       PROVE  /\ \A p \in Adds \cup Discounts : Going(Instead(t, <<p>>))
              /\ \A p, r \in Adds : Going(Instead(t, <<p, r>>))
              /\ \A p \in Adds \cup Discounts : Head(Head(Instead(t, <<p>>))) = p
              /\ \A p, r \in Adds : Head(Head(Instead(t, <<p, r>>))) = p
  <2>1. OtherCall(todo[t])
    BY <1>2, <1>10, WhatIsLeft
  <2>2. /\ \A p \in Heads : Head(Head(Instead(t, <<p>>))) = p
        /\ \A p, r \in Operations : Head(Head(Instead(t, <<p, r>>))) = p
    BY <2>1, OtherCallGoesOn, Zenon DEF Instead
  <2>3. /\ \A p \in Heads : Going(Instead(t, <<p>>))
        /\ \A p, r \in Operations : Going(Instead(t, <<p, r>>))
    BY <1>2, <1>10, WhatIsLeft
  <2> QED
    BY <2>2, <2>3 DEF Operations, Heads
<1>11. \A p \in Adds : p \notin Discounts
  BY Constants DEF Adds, Discounts
<1> QED
  BY FindIs, <1>7, <1>8, <1>9, <1>10, <1>11

\* How much nr covers what is captured, and what the call may still count.
LEMMA InWork ==
  ASSUME NrInv, ~multi, TypeInv, NEW t \in Threads, pc[t] # "idle"
  PROVE  /\ nr + Counting(t) >= Cardinality(Captured) /\ Steady(t)
         /\ nr \in Nat /\ Owed(t) \in Nat /\ Cardinality(Captured) \in Nat
         /\ nr + Owed(t) <= Cardinality(Uris) + 2 * calls
         /\ nr + Owed(t) < Word
         /\ \A s \in Threads \ {t} : pc[s] = "idle"
<1>1. /\ nr + Counting(t) >= Cardinality(Captured) /\ Steady(t)
      /\ nr + Owed(t) <= Cardinality(Uris) + 2 * calls
      /\ \A s \in Threads \ {t} : pc[s] = "idle"
  BY DEF NrInv
<1>2. nr \in Nat /\ Owed(t) \in Nat /\ calls \in Nat /\ calls <= MaxCalls
  BY OwedIs, Constants DEF TypeInv, Globals
<1>3. Cardinality(Uris) \in Nat /\ Word > Cardinality(Uris) + 2 * MaxCalls /\ Word \in Nat
  BY Width
<1>4. nr + Owed(t) < Word
  <2> HIDE DEF Owed
  <2> QED
    BY <1>1, <1>2, <1>3, Constants
<1> QED
  BY <1>1, <1>2, <1>4, CapturedFinite

LEMMA GetCounts ==
  ASSUME NrInv, ~multi, TypeInv, TypeInv', NEW t \in Threads, Get(t) PROVE NrInv'
<1>1. /\ pc[t] = "get" /\ pc'[t] = "put" /\ \A s \in Threads \ {t} : pc'[s] = pc[s]
      /\ UNCHANGED <<db, nr, calls, todo, got>>
  BY DEF Get, TypeInv, LocalShapes
<1>2. Op(t)' = Op(t) /\ Owed(t)' = Owed(t) /\ Counting(t)' = Counting(t)
  BY <1>1 DEF Op, Owed, Counting
<1>3. Captured' = Captured
  BY <1>1 DEF Captured, Here
<1>4. nr + Counting(t) >= Cardinality(Captured) /\ Steady(t) /\ nr \in Nat /\ Owed(t) \in Nat
  BY <1>1, InWork
<1>5. Steady(t)'
  BY <1>1, <1>2, <1>4 DEF Steady, Here
<1>6. nr' + Owed(t)' <= nr + Owed(t)
  BY <1>1, <1>2, <1>4
<1> QED
  BY <1>1, <1>2, <1>3, <1>4, <1>5, <1>6, WorkCounts

LEMMA PutCounts ==
  ASSUME NrInv, ~multi, TypeInv, TypeInv', NEW t \in Threads, Put(t) PROVE NrInv'
<1> DEFINE k == Op(t).key
<1>1. /\ pc[t] = "put" /\ pc[t] \in Working /\ k \in Keys /\ UNCHANGED <<nr, multi, calls>>
      /\ \A j \in Keys \ {k} : db'[j] = db[j]
      /\ \/ /\ Op(t).do = "visit" /\ got[t] = NONE
            /\ pc' = [pc EXCEPT ![t] = "count"] /\ UNCHANGED todo
         \/ /\ ~(Op(t).do = "visit" /\ got[t] = NONE)
            /\ GoOn(t, Done(t))
  BY PutIs, InHand DEF Working
<1>2. /\ nr + Counting(t) >= Cardinality(Captured) /\ Steady(t)
      /\ nr \in Nat /\ Owed(t) \in Nat /\ Counting(t) = 0
  BY <1>1, InWork DEF Counting
<1>3. /\ Cardinality(Captured)' \in Nat /\ Cardinality(Captured) \in Nat
      /\ Cardinality(Captured)' <= Cardinality(Captured) + 1
      /\ (k \notin Uris \/ Here(k)) => Cardinality(Captured)' <= Cardinality(Captured)
  BY <1>1, CapturedMoves
<1>4. CASE /\ Op(t).do = "visit" /\ got[t] = NONE
           /\ pc' = [pc EXCEPT ![t] = "count"] /\ UNCHANGED todo
  <2>1. pc'[t] = "count" /\ \A s \in Threads \ {t} : pc'[s] = pc[s]
    BY <1>4 DEF TypeInv, LocalShapes
  <2>2. Counting(t)' = 1 /\ Owed(t)' = Owed(t) /\ Steady(t)'
    BY <1>4, <2>1 DEF Counting, Owed, Op, Steady
  <2>3. nr' + Counting(t)' >= Cardinality(Captured)'
    <3> HIDE DEF Captured
    <3> QED
      BY <1>1, <1>2, <1>3, <2>2
  <2>4. nr' + Owed(t)' <= nr + Owed(t)
    BY <1>1, <1>2, <2>2
  <2> QED
    BY <1>1, <2>1, <2>2, <2>3, <2>4, WorkCounts
<1>5. CASE ~(Op(t).do = "visit" /\ got[t] = NONE) /\ GoOn(t, Done(t))
  <2>1. /\ \A s \in Threads \ {t} : pc'[s] = pc[s]
        /\ Counting(t)' = 0 /\ Steady(t)'
        /\ Owed(t)' + (IF Op(t).do = "visit" THEN 1 ELSE 0) <= Owed(t)
    BY <1>1, <1>5, ResumedCounts
  <2>2. k \notin Uris \/ Here(k)
    BY <1>1, <1>2, <1>5 DEF Steady
  <2>3. nr' + Counting(t)' >= Cardinality(Captured)'
    <3> HIDE DEF Captured
    <3> QED
      BY <1>1, <1>2, <1>3, <2>1, <2>2
  <2>4. nr' + Owed(t)' <= nr + Owed(t)
    <3>1. Owed(t)' \in Nat
      BY OwedNext
    <3> HIDE DEF Owed
    <3>2. Owed(t)' <= Owed(t)
      BY <1>2, <2>1, <3>1
    <3> QED
      BY <1>1, <1>2, <3>1, <3>2
  <2> QED
    BY <1>1, <2>1, <2>3, <2>4, WorkCounts
<1> QED
  BY <1>1, <1>4, <1>5

LEMMA PutFailsCounts ==
  ASSUME NrInv, ~multi, TypeInv, TypeInv', NEW t \in Threads, PutFails(t) PROVE NrInv'
<1>1. /\ pc[t] = "put" /\ pc[t] \in Working /\ GoOn(t, Thrown(t))
      /\ UNCHANGED <<db, nr, calls>>
  BY DEF PutFails, Working
<1>2. /\ nr + Counting(t) >= Cardinality(Captured)
      /\ nr \in Nat /\ Owed(t) \in Nat /\ Counting(t) = 0
  BY <1>1, InWork DEF Counting
<1>3. /\ \A s \in Threads \ {t} : pc'[s] = pc[s]
      /\ Counting(t)' = 0 /\ Steady(t)'
      /\ Owed(t)' + (IF Op(t).do = "visit" THEN 1 ELSE 0) <= Owed(t)
  BY <1>1, ResumedCounts
<1>4. Captured' = Captured
  BY <1>1 DEF Captured, Here
<1>5. nr' + Owed(t)' <= nr + Owed(t)
  <2>1. Owed(t)' \in Nat
    BY OwedNext
  <2> HIDE DEF Owed
  <2>2. Owed(t)' <= Owed(t)
    BY <1>2, <1>3, <2>1
  <2> QED
    BY <1>1, <1>2, <2>1, <2>2
<1> QED
  BY <1>1, <1>2, <1>3, <1>4, <1>5, WorkCounts

LEMMA OutCounts ==
  ASSUME NrInv, ~multi, TypeInv, TypeInv', NEW t \in Threads, Out(t) PROVE NrInv'
<1> DEFINE k == Op(t).key
<1>1. /\ pc[t] = "out" /\ pc[t] \in Working /\ k \in Keys /\ Op(t).do # "visit"
      /\ UNCHANGED <<nr, calls>>
      /\ db'[k] = NONE /\ \A j \in Keys \ {k} : db'[j] = db[j]
  BY OutIs DEF Working
<1>2. /\ nr + Counting(t) >= Cardinality(Captured)
      /\ nr \in Nat /\ Owed(t) \in Nat /\ Counting(t) = 0
  BY <1>1, InWork DEF Counting
<1>3. /\ Cardinality(Captured)' \in Nat /\ Cardinality(Captured) \in Nat
      /\ Cardinality(Captured)' <= Cardinality(Captured)
      /\ (k \in Uris /\ Here(k)) => Cardinality(Captured)' = Cardinality(Captured) - 1
  BY <1>1, CapturedMoves
<1>4. /\ VisitCall(todo[t]) \/ OtherCall(todo[t])
      /\ Op(t) \in Heads \cup VisitOps
  BY <1>1, InHand
<1>5. CASE GoOn(t, Done(t)) \/ GoOn(t, Thrown(t))
  <2>1. /\ \A s \in Threads \ {t} : pc'[s] = pc[s]
        /\ Counting(t)' = 0 /\ Steady(t)'
        /\ Owed(t)' + 0 <= Owed(t)
    BY <1>1, <1>5, ResumedCounts
  <2>2. nr' + Counting(t)' >= Cardinality(Captured)'
    <3> HIDE DEF Captured
    <3> QED
      BY <1>1, <1>2, <1>3, <2>1
  <2>3. nr' + Owed(t)' <= nr + Owed(t)
    <3>1. Owed(t)' \in Nat
      BY OwedNext
    <3> HIDE DEF Owed
    <3> QED
      BY <1>1, <1>2, <2>1, <3>1
  <2> QED
    BY <1>1, <2>1, <2>2, <2>3, WorkCounts
<1>6. CASE /\ pc' = [pc EXCEPT ![t] = "uncount"] /\ UNCHANGED todo
           /\ Op(t).do = "leave" /\ Here(k)
  <2>1. pc'[t] = "uncount" /\ \A s \in Threads \ {t} : pc'[s] = pc[s]
    BY <1>6 DEF TypeInv, LocalShapes
  <2>2. Counting(t)' = -1 /\ Owed(t)' = Owed(t) /\ Steady(t)'
    BY <1>6, <2>1 DEF Counting, Owed, Op, Steady
  <2>3. k \in Uris
    <3>1. Op(t) \in Leaves
      BY <1>4, <1>6, OperationIs
    <3> QED
      BY <3>1, Constants DEF Leaves
  <2>4. nr' + Counting(t)' >= Cardinality(Captured)'
    <3> HIDE DEF Captured
    <3> QED
      BY <1>1, <1>2, <1>3, <1>6, <2>2, <2>3
  <2>5. nr' + Owed(t)' <= nr + Owed(t)
    BY <1>1, <1>2, <2>2
  <2> QED
    BY <1>1, <2>1, <2>2, <2>4, <2>5, WorkCounts
<1>7. ASSUME NEW p \in Restores, GoOn(t, Instead(t, <<p>>)) PROVE NrInv'
  <2>1. /\ Going(Instead(t, <<p>>)) /\ Head(Head(Instead(t, <<p>>))) = p
    <3>1. p \in Heads /\ OtherCall(todo[t])
      BY <1>1, <1>4, WhatIsLeft DEF Heads
    <3>2. Head(Head(Instead(t, <<p>>))) = p
      BY <3>1, OtherCallGoesOn, Zenon DEF Instead
    <3> QED
      BY <1>1, <1>4, <3>1, <3>2, WhatIsLeft
  <2>2. /\ \A s \in Threads \ {t} : pc'[s] = pc[s]
        /\ todo'[t] = Instead(t, <<p>>)
        /\ pc'[t] \in {"idle", "find", "get"}
    BY <1>7, <2>1, Resume, Zenon DEF TypeInv
  <2>3. Op(t)' = p
    BY <2>1, <2>2 DEF Op
  <2>4. p.do = "add" /\ p.key \notin Uris
    BY Constants DEF Restores
  <2>5. Counting(t)' = 0 /\ Owed(t)' = 0 /\ Steady(t)'
    BY <2>2, <2>3, <2>4 DEF Counting, Owed, Steady
  <2>6. nr' + Counting(t)' >= Cardinality(Captured)'
    <3> HIDE DEF Captured
    <3> QED
      BY <1>1, <1>2, <1>3, <2>5
  <2>7. nr' + Owed(t)' <= nr + Owed(t)
    BY <1>1, <1>2, <2>5
  <2> QED
    BY <1>1, <2>2, <2>5, <2>6, <2>7, WorkCounts
<1> QED
  BY <1>5, <1>6, <1>7, OutIs

LEMMA CountCounts ==
  ASSUME NrInv, ~multi, TypeInv, TypeInv', NEW t \in Threads, Count(t) \/ Uncount(t) PROVE NrInv'
<1>1. PICK step \in {"count", "uncount"}, d \in {-1, 1} :
         Counts(t, step, d) /\ (step = "count" <=> d = 1)
  BY DEF Count, Uncount
<1>2. /\ pc[t] = step /\ pc[t] \in Working /\ GoOn(t, Done(t))
      /\ UNCHANGED <<db, calls>>
      /\ nr' \in {(nr + d + Word) % Word} \cup
                 {nr : s \in {s \in Threads \ {t} : pc[s] \in {"count", "uncount"}}}
  BY <1>1 DEF Counts, Working
<1>3. /\ nr + Counting(t) >= Cardinality(Captured) /\ Counting(t) = d
      /\ nr \in Nat /\ Owed(t) \in Nat /\ Cardinality(Captured) \in Nat
      /\ nr + Owed(t) < Word
      /\ \A s \in Threads \ {t} : pc[s] = "idle"
  BY <1>1, <1>2, InWork DEF Counting
<1>4. /\ \A s \in Threads \ {t} : pc'[s] = pc[s]
      /\ Counting(t)' = 0 /\ Steady(t)'
      /\ Owed(t)' + (IF Op(t).do = "visit" THEN 1 ELSE 0) <= Owed(t)
  BY <1>2, ResumedCounts
<1>5. /\ d = 1 => Op(t).do = "visit" /\ Owed(t) \in {1, 2}
      /\ d = -1 => Op(t).do # "visit" /\ Owed(t) = 0
  <2>1. d = 1 => Op(t).do = "visit"
    BY <1>1, <1>2 DEF TypeInv, Fine
  <2>2. d = -1 => Op(t).do # "visit"
    BY <1>1, <1>2 DEF TypeInv, Fine
  <2> QED
    BY <1>2, <2>1, <2>2, OwedIs
<1>6. nr' = nr + d
  <2>1. nr' = (nr + d + Word) % Word
    BY <1>2, <1>3
  <2>2. nr + d \in 0 .. Word - 1
    <3> HIDE DEF Owed, Captured
    <3> QED
      BY <1>3, <1>5, Constants
  <2>3. (nr + d + Word) % Word = nr + d
    <3>1. \A a \in Int : a \in 0 .. Word - 1 => (a + Word) % Word = a
      BY Width, Modulo
    <3>2. nr + d \in Int
      BY <1>3
    <3> QED
      BY <2>2, <3>1, <3>2, Zenon
  <2> QED
    BY <2>1, <2>3
<1>7. Captured' = Captured
  BY <1>2 DEF Captured, Here
<1>8. nr' + Counting(t)' >= Cardinality(Captured)'
  <2> HIDE DEF Captured
  <2> QED
    BY <1>3, <1>4, <1>6, <1>7
<1>9. nr' + Owed(t)' <= nr + Owed(t)
  <2>1. Owed(t)' \in Nat
    BY OwedNext
  <2> HIDE DEF Owed
  <2> QED
    BY <1>3, <1>4, <1>5, <1>6, <2>1
<1> QED
  BY <1>2, <1>4, <1>8, <1>9, WorkCounts

LEMMA RestartCounts == ASSUME TypeInv, TypeInv', Restart PROVE NrInv'
<1>1. nr' = Cardinality(Captured) % Word /\ UNCHANGED <<db, calls>>
      /\ \A t \in Threads : pc'[t] = "idle"
  BY DEF Restart
<1>2. Captured' = Captured
  BY <1>1 DEF Captured, Here
<1>3. /\ Cardinality(Captured) \in 0 .. Word - 1 /\ Cardinality(Captured) <= Cardinality(Uris)
      /\ Cardinality(Uris) \in Nat /\ calls \in Nat
  BY CapturedFinite, Width, Constants DEF TypeInv, Globals
<1>4. nr' = Cardinality(Captured)
  <2> HIDE DEF Captured
  <2>1. \A a \in Int : a \in 0 .. Word - 1 => a % Word = a
    BY Width, Modulo
  <2>2. Cardinality(Captured) \in Int
    BY <1>3
  <2> QED
    BY <1>1, <1>3, <2>1, <2>2, Zenon
<1>5. nr' >= Cardinality(Captured)' /\ nr' <= Cardinality(Uris) + 2 * calls'
  <2> HIDE DEF Captured
  <2> QED
    BY <1>1, <1>2, <1>3, <1>4
<1> QED
  BY <1>1, <1>5 DEF NrInv

LEMMA WalkCounts ==
  ASSUME NrInv, ~multi, TypeInv, TypeInv', NEW t \in Threads,
         \/ \E p \in {"query-capture", "uri-capture"} : Sweep(t, p)
         \/ WalkNext(t) \/ WalkRead(t) \/ WalkEnds(t) \/ Prune(t) \/ PruneEnds(t)
  PROVE  NrInv'
<1>1. /\ pc[t] \notin {"count", "uncount"} /\ pc'[t] \in {"walk", "read", "prune", "idle"}
      /\ \A s \in Threads \ {t} : pc'[s] = pc[s]
      /\ UNCHANGED <<nr, multi>>
      /\ UNCHANGED calls \/ (calls' = calls + 1 /\ \A s \in Threads : pc[s] = "idle")
      /\ UNCHANGED calls => pc[t] # "idle"
  <2>1. CASE \E p \in {"query-capture", "uri-capture"} : Sweep(t, p)
    BY <2>1 DEF Sweep, Free, TypeInv, LocalShapes, Globals
  <2>2. CASE WalkNext(t) \/ WalkRead(t) \/ WalkEnds(t) \/ PruneEnds(t)
    BY <2>2 DEF WalkNext, WalkRead, WalkEnds, PruneEnds, TypeInv, LocalShapes
  <2>3. CASE Prune(t)
    BY <2>3 DEF Prune
  <2> QED
    BY <2>1, <2>2, <2>3
<1>2. Cardinality(Captured)' <= Cardinality(Captured)
  <2>1. CASE UNCHANGED db
    <3>1. Captured' = Captured
      BY <2>1 DEF Captured, Here
    <3> QED
      BY <3>1, CapturedFinite
  <2>2. CASE Prune(t)
    <3>1. PICK k \in doomed[t] : db' = [db EXCEPT ![k] = NONE]
      BY <2>2 DEF Prune
    <3>2. k \in Keys
      BY <3>1 DEF TypeInv, Fine
    <3>3. db'[k] = NONE /\ \A j \in Keys \ {k} : db'[j] = db[j]
      BY <3>1, <3>2 DEF TypeInv, Globals
    <3> QED
      BY <3>2, <3>3, CapturedMoves
  <2> QED
    BY <2>1, <2>2 DEF Sweep, WalkNext, WalkRead, WalkEnds, PruneEnds
<1>3. Counting(t)' = 0 /\ Steady(t)' /\ Owed(t)' = 0 /\ Counting(t) = 0
  <2>1. pc'[t] \notin Working
    BY <1>1 DEF Working
  <2> QED
    BY <1>1, <2>1, OwedNext DEF Counting, Steady
<1>4. nr \in Nat /\ Cardinality(Captured) \in Nat /\ calls \in Nat /\ Cardinality(Uris) \in Nat
      /\ Cardinality(Captured)' \in Nat
  <2>1. Captured' \subseteq Uris
    BY DEF Captured
  <2>2. Cardinality(Captured)' \in Nat
    BY <2>1, Width, FS_Subset, FS_CardinalityType
  <2> QED
    BY <2>2, CapturedFinite, Width, Constants DEF TypeInv, Globals
<1>5. CASE UNCHANGED calls
  <2>1. nr + Counting(t) >= Cardinality(Captured) /\ Owed(t) \in Nat
    BY <1>1, <1>5, InWork
  <2>2. nr' + Counting(t)' >= Cardinality(Captured)'
    <3> HIDE DEF Captured
    <3> QED
      BY <1>1, <1>2, <1>3, <1>4, <2>1
  <2>3. nr' + Owed(t)' <= nr + Owed(t)
    BY <1>1, <1>3, <1>4, <2>1
  <2> QED
    BY <1>1, <1>3, <1>5, <2>2, <2>3, WorkCounts
<1>6. CASE calls' = calls + 1 /\ \A s \in Threads : pc[s] = "idle"
  <2>1. nr >= Cardinality(Captured) /\ nr <= Cardinality(Uris) + 2 * calls
    BY <1>6 DEF NrInv
  <2>2. nr' + Counting(t)' >= Cardinality(Captured)'
    <3> HIDE DEF Captured
    <3> QED
      BY <1>1, <1>2, <1>3, <1>4, <2>1
  <2>3. nr' + Owed(t)' <= Cardinality(Uris) + 2 * calls'
    BY <1>1, <1>3, <1>4, <1>6, <2>1
  <2> QED
    BY <1>1, <1>3, <1>6, <2>2, <2>3, OneCounts
<1> QED
  BY <1>1, <1>5, <1>6

LEMMA InitCounts == ASSUME Init PROVE NrInv
<1>1. nr = Cardinality(Captured) /\ calls = 0 /\ \A t \in Threads : pc[t] = "idle"
  BY DEF Init, Captured, Here
<1>2. nr >= Cardinality(Captured) /\ nr <= Cardinality(Uris) + 2 * calls
  <2>1. Cardinality(Captured) \in Nat /\ Cardinality(Captured) <= Cardinality(Uris)
    BY CapturedFinite
  <2> HIDE DEF Captured
  <2> QED
    BY <1>1, <2>1, Width
<1> QED
  BY <1>1, <1>2 DEF NrInv

\* The toggle multi_threaded is read when the program starts.
LEMMA Toggle == ASSUME [Next]_dbVars PROVE UNCHANGED multi
<1>1. UNCHANGED multi \/ Next
  BY DEF dbVars
<1>2. ASSUME NEW t \in Threads, Put(t) PROVE UNCHANGED multi
  BY <1>2 DEF Put
<1>3. ASSUME NEW t \in Threads,
             \/ StoreQueries(t) \/ StoreQuery(t) \/ RemoveQueries(t)
             \/ RemoveUrl(t) \/ ThumbDownUrl(t) \/ StoreUri(t)
      PROVE UNCHANGED multi
  BY <1>3, CallsStart DEF Call
<1>4. ASSUME NEW t \in Threads,
             \/ Find(t) \/ FindNull(t) \/ Get(t) \/ PutFails(t) \/ Out(t)
             \/ Count(t) \/ Uncount(t)
      PROVE UNCHANGED multi
  BY <1>4 DEF Find, FindNull, Restart, Get, PutFails, Out, Count, Uncount, Counts
<1>5. ASSUME NEW t \in Threads,
             \/ \E p \in {"query-capture", "uri-capture"} : Sweep(t, p)
             \/ WalkNext(t) \/ WalkRead(t) \/ WalkEnds(t) \/ Prune(t) \/ PruneEnds(t)
      PROVE UNCHANGED multi
  BY <1>5 DEF Sweep, WalkNext, WalkRead, WalkEnds, Prune, PruneEnds
<1>6. CASE Crash \/ Tick
  BY <1>6 DEF Crash, Restart, Tick
<1> QED
  BY <1>1, <1>2, <1>3, <1>4, <1>5, <1>6 DEF Next

LEMMA NextCounts == ASSUME NrInv, TypeInv, TypeInv', [Next]_dbVars PROVE NrInv'
<1>1. multi' = multi
  BY Toggle
<1>2. CASE multi
  BY <1>1, <1>2 DEF NrInv
<1>3. CASE ~multi
  <2>1. CASE UNCHANGED dbVars
    BY <2>1 DEF dbVars, locals, NrInv, Counting, Owed, Op, Steady, Captured, Here
  <2>2. CASE Tick
    BY <2>2 DEF Tick, locals, NrInv, Counting, Owed, Op, Steady, Captured, Here
  <2>3. CASE Crash
    BY <2>3, RestartCounts DEF Crash
  <2>4. ASSUME NEW t \in Threads, FindNull(t) PROVE NrInv'
    BY <2>4, RestartCounts DEF FindNull
  <2>5. ASSUME NEW t \in Threads,
               \/ StoreQueries(t) \/ StoreQuery(t) \/ RemoveQueries(t)
               \/ RemoveUrl(t) \/ ThumbDownUrl(t) \/ StoreUri(t)
        PROVE NrInv'
    BY <1>3, <2>5, CallsStart, CallCounts
  <2> QED
    BY <1>3, <2>1, <2>2, <2>3, <2>4, <2>5, FindCounts, GetCounts, PutCounts, PutFailsCounts,
       OutCounts, CountCounts, WalkCounts DEF Next
<1> QED
  BY <1>2, <1>3

-----------------------------------------------------------------------------
(* The walk of a sweep.                                                      *)

\* What a walk still has to find is there, and old, and the plugin's: the iterator has
\* still to give it out, or it is being read, or it is found.  Walks that overlap are due
\* to find nothing.
WalkInv == \A t \in Threads :
    /\ pc[t] \in {"walk", "read"} =>
         \A s \in Threads \ {t} : pc[s] \in {"walk", "read"} => due[s] = {}
    /\ pc[t] \in {"walk", "read"} =>
         \A k \in due[t] :
            /\ Here(k) /\ db[k].time < date[t] /\ Plugin(k) = got[t]
            /\ k \in iter \cup doomed[t] \/ (pc[t] = "read" /\ k = Op(t).key)
    /\ pc[t] = "prune" => due[t] \subseteq doomed[t]

\* A walk goes on while another thread writes or removes a record, which it no longer
\* owes.
LEMMA WalkStays ==
  ASSUME WalkInv, NEW t \in Threads, pc'[t] = pc[t], todo'[t] = todo[t], got'[t] = got[t],
         doomed'[t] = doomed[t], date'[t] = date[t], due'[t] \subseteq due[t],
         pc[t] \in {"walk", "read"} =>
            \A k \in due'[t] : db'[k] = db[k] /\ (k \in iter => k \in iter')
  PROVE  /\ pc'[t] \in {"walk", "read"} =>
              \A k \in due'[t] :
                 /\ Here(k)' /\ db'[k].time < date'[t] /\ Plugin(k) = got'[t]
                 /\ k \in iter' \cup doomed'[t] \/ (pc'[t] = "read" /\ k = Op(t)'.key)
         /\ pc'[t] = "prune" => due'[t] \subseteq doomed'[t]
BY DEF WalkInv, Op, Here

\* A step of a thread that does not walk.
LEMMA OthersWalk ==
  ASSUME WalkInv, TypeInv, NEW t \in Threads, pc'[t] \notin {"walk", "read", "prune"},
         Rest(t),
         \A s \in Threads \ {t} : pc[s] \in {"walk", "read"} =>
            \A k \in due'[s] : db'[k] = db[k] /\ (k \in iter => k \in iter')
  PROVE  WalkInv'
<1>1. ASSUME NEW s \in Threads \ {t}
      PROVE  /\ pc'[s] \in {"walk", "read"} =>
                  \A k \in due'[s] :
                     /\ Here(k)' /\ db'[k].time < date'[s] /\ Plugin(k) = got'[s]
                     /\ k \in iter' \cup doomed'[s] \/ (pc'[s] = "read" /\ k = Op(s)'.key)
             /\ pc'[s] = "prune" => due'[s] \subseteq doomed'[s]
  BY WalkStays DEF Rest, SameFor
<1>2. ASSUME NEW r \in Threads \ {t}, NEW s \in Threads \ {t}, r # s,
             pc'[r] \in {"walk", "read"}, pc'[s] \in {"walk", "read"}
      PROVE  due'[s] = {}
  <2>1. pc'[r] = pc[r] /\ pc'[s] = pc[s] /\ due'[s] \subseteq due[s]
    BY DEF Rest, SameFor
  <2>2. due[s] = {}
    BY <1>2, <2>1 DEF WalkInv
  <2> QED
    BY <2>1, <2>2
<1> QED
  BY <1>1, <1>2 DEF WalkInv

LEMMA NextWalk ==
  ASSUME WalkInv, TypeInv, [Next]_dbVars
  PROVE  WalkInv'
<1>0. /\ pc = [s \in Threads |-> pc[s]] /\ todo = [s \in Threads |-> todo[s]]
      /\ got = [s \in Threads |-> got[s]] /\ val = [s \in Threads |-> val[s]]
      /\ left = [s \in Threads |-> left[s]] /\ doomed = [s \in Threads |-> doomed[s]]
      /\ date = [s \in Threads |-> date[s]] /\ due = [s \in Threads |-> due[s]]
  BY DEF TypeInv, LocalShapes
<1>1. CASE UNCHANGED dbVars
  BY <1>1 DEF dbVars, locals, WalkInv, Here, Op
<1>2. CASE Tick
  BY <1>2 DEF Tick, locals, WalkInv, Here, Op
<1>3. CASE Restart
  BY <1>3 DEF Restart, WalkInv
<1>4. ASSUME NEW t \in Threads, NEW ops, GoOn(t, ops),
             \A s \in Threads \ {t} : got'[s] = got[s] /\ val'[s] = val[s] /\ left'[s] = left[s]
                                      /\ doomed'[s] = doomed[s] /\ date'[s] = date[s]
                                      /\ due'[s] \subseteq due[s]
      PROVE  pc'[t] \notin {"walk", "read", "prune"} /\ Rest(t)
  BY <1>0, <1>4 DEF GoOn, Entry, Rest, SameFor
<1>5. ASSUME NEW t \in Threads, NEW to \in {"get", "put", "out", "count", "uncount"},
             pc' = [pc EXCEPT ![t] = to], UNCHANGED todo,
             \A s \in Threads \ {t} : got'[s] = got[s] /\ val'[s] = val[s] /\ left'[s] = left[s]
                                      /\ doomed'[s] = doomed[s] /\ date'[s] = date[s]
                                      /\ due'[s] \subseteq due[s]
      PROVE  pc'[t] \notin {"walk", "read", "prune"} /\ Rest(t)
  BY <1>0, <1>5 DEF Rest, SameFor
<1>6. ASSUME NEW t \in Threads, NEW ops, Call(t, ops) PROVE WalkInv'
  <2>1. pc'[t] \notin {"walk", "read", "prune"} /\ Rest(t)
    BY <1>0, <1>4, <1>6 DEF Call
  <2>2. UNCHANGED <<db, iter>>
    BY <1>6 DEF Call
  <2> QED
    BY <2>1, <2>2, OthersWalk
<1>7. ASSUME NEW t \in Threads, Find(t) PROVE WalkInv'
  <2>1. /\ UNCHANGED <<db, iter, val, doomed, date, due>>
        /\ \A s \in Threads \ {t} : got'[s] = got[s]
    BY <1>0, <1>7 DEF Find
  <2>2. \A s \in Threads \ {t} : left'[s] = left[s]
    BY <1>0, <1>7, FindIs
  <2>3. pc'[t] \notin {"walk", "read", "prune"} /\ Rest(t)
    BY <1>4, <1>5, <1>7, <2>1, <2>2, FindIs
  <2> QED
    BY <2>1, <2>3, OthersWalk
<1>8. ASSUME NEW t \in Threads, Get(t) PROVE WalkInv'
  <2>1. /\ UNCHANGED <<db, iter, todo, got, left, doomed, date, due>>
        /\ pc' = [pc EXCEPT ![t] = "put"]
        /\ \A s \in Threads \ {t} : val'[s] = val[s]
    BY <1>0, <1>8 DEF Get
  <2>2. pc'[t] \notin {"walk", "read", "prune"} /\ Rest(t)
    BY <1>5, <2>1
  <2> QED
    BY <2>1, <2>2, OthersWalk
<1>9. ASSUME NEW t \in Threads, Put(t) PROVE WalkInv'
  <2>1. /\ \A s \in Threads \ {t} : val'[s] = val[s] /\ got'[s] = got[s]
        /\ UNCHANGED <<left, doomed, date>>
        /\ due' = [s \in Threads |-> due[s] \ {Op(t).key}]
        /\ \A k \in Keys \ {Op(t).key} : db'[k] = db[k]
    BY <1>9, PutIs
  <2>2. \A s \in Threads : due'[s] = due[s] \ {Op(t).key}
    BY <2>1
  <2>3. pc'[t] \notin {"walk", "read", "prune"} /\ Rest(t)
    BY <1>4, <1>5, <1>9, <2>1, <2>2, PutIs
  <2>4. ASSUME NEW s \in Threads \ {t}, pc[s] \in {"walk", "read"}, NEW k \in due'[s]
        PROVE  db'[k] = db[k] /\ (k \in iter => k \in iter')
    <3>1. k # Op(t).key /\ k \in due[s]
      BY <2>2
    <3>2. k \in Keys
      BY <3>1 DEF TypeInv, Fine
    <3>3. Moved(Op(t).key)
      BY <1>9 DEF Put
    <3>4. iter' \in {iter \cup {Op(t).key}, iter \ {Op(t).key}}
      BY <2>4, <3>3 DEF Moved
    <3> QED
      BY <2>1, <3>1, <3>2, <3>4
  <2> QED
    BY <2>3, <2>4, OthersWalk
<1>10. ASSUME NEW t \in Threads, PutFails(t) PROVE WalkInv'
  <2>1. /\ UNCHANGED <<db, iter, left, doomed, date, due>> /\ GoOn(t, Thrown(t))
        /\ \A s \in Threads \ {t} : val'[s] = val[s] /\ got'[s] = got[s]
    BY <1>0, <1>10 DEF PutFails
  <2>2. pc'[t] \notin {"walk", "read", "prune"} /\ Rest(t)
    BY <1>4, <2>1
  <2> QED
    BY <2>1, <2>2, OthersWalk
<1>11. ASSUME NEW t \in Threads, Out(t) PROVE WalkInv'
  <2>1. /\ UNCHANGED <<iter, got, val, left, doomed, date>>
        /\ due' = [s \in Threads |-> due[s] \ {Op(t).key}]
        /\ \A k \in Keys \ {Op(t).key} : db'[k] = db[k]
    BY <1>11, OutIs
  <2>2. \A s \in Threads : due'[s] = due[s] \ {Op(t).key}
    BY <2>1
  <2>3. pc'[t] \notin {"walk", "read", "prune"} /\ Rest(t)
    BY <1>4, <1>5, <1>11, <2>1, <2>2, OutIs
  <2>4. ASSUME NEW s \in Threads \ {t}, NEW k \in due'[s]
        PROVE  db'[k] = db[k]
    <3>1. k # Op(t).key /\ k \in due[s]
      BY <2>2
    <3>2. k \in Keys
      BY <3>1 DEF TypeInv, Fine
    <3> QED
      BY <2>1, <3>1, <3>2
  <2> QED
    BY <2>1, <2>3, <2>4, OthersWalk
<1>12. ASSUME NEW t \in Threads, Count(t) \/ Uncount(t) PROVE WalkInv'
  <2>1. UNCHANGED <<db, iter, got, val, left, doomed, date, due>> /\ GoOn(t, Done(t))
    BY <1>12 DEF Count, Uncount, Counts
  <2>2. pc'[t] \notin {"walk", "read", "prune"} /\ Rest(t)
    BY <1>4, <2>1
  <2> QED
    BY <2>1, <2>2, OthersWalk
<1>13. ASSUME NEW t \in Threads, pc[t] \in {"walk", "read", "prune"},
              pc'[t] \in {"walk", "read"} => pc[t] \in {"walk", "read"} /\ due'[t] = due[t],
              \A s \in Threads \ {t} : /\ pc'[s] = pc[s] /\ todo'[s] = todo[s]
                                       /\ UNCHANGED <<got[s], doomed[s], date[s]>>
                                       /\ due'[s] \subseteq due[s],
              pc[t] = "prune" => /\ UNCHANGED iter
                                 /\ \A s \in Threads \ {t} : \A k \in due'[s] : db'[k] = db[k],
              pc'[t] \in {"walk", "read"} =>
                \A k \in due'[t] :
                   /\ Here(k)' /\ db'[k].time < date'[t] /\ Plugin(k) = got'[t]
                   /\ k \in iter' \cup doomed'[t] \/ (pc'[t] = "read" /\ k = Op(t)'.key),
              pc'[t] = "prune" => due'[t] \subseteq doomed'[t]
       PROVE  WalkInv'
  <2>1. ASSUME NEW s \in Threads \ {t}, pc[t] \in {"walk", "read"}, pc'[s] \in {"walk", "read"}
        PROVE  due'[s] = {}
    BY <1>13, <2>1 DEF WalkInv
  <2>2. ASSUME NEW s \in Threads \ {t}, pc'[t] \in {"walk", "read"}, pc'[s] \in {"walk", "read"}
        PROVE  due'[s] = {} /\ due'[t] = {}
    <3>1. due[t] = {}
      BY <1>13, <2>2 DEF WalkInv
    <3> QED
      BY <1>13, <2>1, <2>2, <3>1
  <2>3. ASSUME NEW r \in Threads \ {t}, NEW s \in Threads \ {t}, r # s,
               pc'[r] \in {"walk", "read"}, pc'[s] \in {"walk", "read"}
        PROVE  due'[s] = {}
    BY <1>13, <2>3 DEF WalkInv
  <2>4. ASSUME NEW s \in Threads \ {t}
        PROVE  /\ pc'[s] \in {"walk", "read"} =>
                    \A k \in due'[s] :
                       /\ Here(k)' /\ db'[k].time < date'[s] /\ Plugin(k) = got'[s]
                       /\ k \in iter' \cup doomed'[s] \/ (pc'[s] = "read" /\ k = Op(s)'.key)
               /\ pc'[s] = "prune" => due'[s] \subseteq doomed'[s]
    <3>1. CASE pc[t] = "prune"
      BY <1>13, <3>1, WalkStays
    <3>2. CASE pc[t] \in {"walk", "read"}
      <4>1. pc'[s] = "prune" => due'[s] \subseteq doomed'[s]
        BY <1>13 DEF WalkInv
      <4> QED
        BY <2>1, <3>2, <4>1
    <3> QED
      BY <1>13, <3>1, <3>2
  <2> QED
    BY <1>13, <2>2, <2>3, <2>4 DEF WalkInv
<1>14. ASSUME NEW t \in Threads, NEW p \in {"query-capture", "uri-capture"}, Sweep(t, p)
       PROVE  WalkInv'
  <2>1. /\ pc[t] = "idle" /\ pc'[t] = "walk"
        /\ iter' = {k \in Keys : Here(k)} /\ date'[t] = now - Retention /\ UNCHANGED db
        /\ got'[t] = p
        /\ \A s \in Threads \ {t} : /\ pc'[s] = pc[s] /\ UNCHANGED <<got[s], doomed[s], date[s]>>
    BY <1>0, <1>14 DEF Sweep, Free
  <2>2. \A s \in Threads \ {t} : IF s \in Walkers THEN due'[s] = {} ELSE due'[s] = due[s]
    BY <1>14 DEF Sweep
  <2>3. IF Walkers = {} THEN due'[t] = {k \in Keys : Plugin(k) = p /\ Old(k, now - Retention)}
        ELSE due'[t] = {}
    BY <1>14 DEF Sweep
  <2>4. \A s \in Threads \ {t} : pc'[s] \in {"walk", "read"} => s \in Walkers
    BY <2>1 DEF Walkers
  <2>5. \A s \in Threads \ {t} : pc'[s] = "prune" => due'[s] \subseteq doomed'[s]
    <3>1. ASSUME NEW s \in Threads \ {t}, pc'[s] = "prune" PROVE due'[s] \subseteq doomed'[s]
      <4>1. pc[s] = "prune" /\ s \notin Walkers
        BY <2>1, <3>1 DEF Walkers
      <4> QED
        BY <2>1, <2>2, <4>1 DEF WalkInv
    <3> QED
      BY <3>1
  <2>6. \A k \in due'[t] : /\ Here(k)' /\ db'[k].time < date'[t] /\ Plugin(k) = got'[t]
                            /\ k \in iter'
    BY <2>1, <2>3 DEF Old, Here
  <2>7. ASSUME NEW s \in Threads \ {t}, pc'[s] \in {"walk", "read"}
        PROVE  due'[s] = {} /\ due'[t] = {}
    BY <2>2, <2>3, <2>4, <2>7
  <2>8. ASSUME NEW s \in Threads, pc'[s] \in {"walk", "read"}
        PROVE  /\ \A r \in Threads \ {s} : pc'[r] \in {"walk", "read"} => due'[r] = {}
               /\ \A k \in due'[s] :
                     /\ Here(k)' /\ db'[k].time < date'[s] /\ Plugin(k) = got'[s]
                     /\ k \in iter' \cup doomed'[s] \/ (pc'[s] = "read" /\ k = Op(s)'.key)
    <3>1. CASE s = t
      BY <2>6, <2>7, <3>1
    <3>2. CASE s # t
      BY <2>7, <2>8, <3>2
    <3> QED
      BY <3>1, <3>2
  <2> QED
    BY <2>1, <2>5, <2>8 DEF WalkInv
<1>15. ASSUME NEW t \in Threads, WalkNext(t) PROVE WalkInv'
  <2>1. PICK k \in iter : /\ iter' = iter \ {k}
                          /\ todo' = [todo EXCEPT ![t] = <<<<[do |-> "read", key |-> k]>>>>]
    BY <1>15 DEF WalkNext
  <2>2. /\ pc[t] = "walk" /\ pc' = [pc EXCEPT ![t] = "read"]
        /\ UNCHANGED <<db, got, doomed, date, due>>
        /\ \A s \in Threads \ {t} : todo'[s] = todo[s]
    BY <1>0, <1>15 DEF WalkNext
  <2>3. pc'[t] = "read" /\ Op(t)'.key = k /\ \A s \in Threads \ {t} : pc'[s] = pc[s]
    BY <1>0, <2>1, <2>2 DEF Op
  <2> QED
    BY <1>13, <2>1, <2>2, <2>3 DEF WalkInv, Here
<1>16. ASSUME NEW t \in Threads, WalkRead(t) PROVE WalkInv'
  <2>1. /\ pc[t] = "read" /\ pc' = [pc EXCEPT ![t] = "walk"]
        /\ doomed' = [doomed EXCEPT ![t] =
             IF Plugin(Op(t).key) = got[t] /\ Old(Op(t).key, date[t])
             THEN @ \cup {Op(t).key} ELSE @]
        /\ UNCHANGED <<db, iter, got, date, due>>
        /\ \A s \in Threads \ {t} : todo'[s] = todo[s]
    BY <1>0, <1>16 DEF WalkRead
  <2>2. /\ pc'[t] = "walk" /\ \A s \in Threads \ {t} : pc'[s] = pc[s]
        /\ doomed[t] \subseteq doomed'[t] /\ \A s \in Threads \ {t} : doomed'[s] = doomed[s]
        /\ Plugin(Op(t).key) = got[t] /\ Old(Op(t).key, date[t]) => Op(t).key \in doomed'[t]
    BY <1>0, <2>1
  <2> QED
    BY <1>13, <2>1, <2>2 DEF WalkInv, Old, Here
<1>17. ASSUME NEW t \in Threads, WalkEnds(t) PROVE WalkInv'
  <2>1. /\ pc[t] = "walk" /\ pc' = [pc EXCEPT ![t] = "prune"]
        /\ \A k \in iter : ~Here(k)
        /\ UNCHANGED <<todo, got, date, doomed, due>>
    BY <1>17 DEF WalkEnds
  <2>2. pc'[t] = "prune" /\ \A s \in Threads \ {t} : pc'[s] = pc[s]
    BY <1>0, <2>1
  <2> QED
    BY <1>13, <2>1, <2>2 DEF WalkInv
<1>18. ASSUME NEW t \in Threads, Prune(t) PROVE WalkInv'
  <2>1. PICK k \in doomed[t] : /\ doomed' = [doomed EXCEPT ![t] = @ \ {k}] /\ Touched(k)
                               /\ db' = [db EXCEPT ![k] = NONE]
    BY <1>18 DEF Prune
  <2>2. /\ pc[t] = "prune" /\ UNCHANGED <<pc, todo, got, date, iter>>
        /\ due' = [s \in Threads |-> due[s] \ {k}]
    BY <1>18, <2>1 DEF Prune, Touched
  <2>3. due'[t] \subseteq doomed'[t]
    BY <1>0, <2>1, <2>2 DEF WalkInv
  <2>4. \A s \in Threads \ {t} : doomed'[s] = doomed[s] /\ due'[s] \subseteq due[s]
    BY <1>0, <2>1, <2>2
  <2>5. ASSUME NEW s \in Threads \ {t}, NEW x \in due'[s] PROVE db'[x] = db[x]
    <3>1. x # k /\ x \in Keys /\ db = [y \in Keys |-> db[y]]
      BY <2>2, <2>5 DEF TypeInv, Fine, Globals
    <3> QED
      BY <2>1, <3>1
  <2> QED
    BY <1>13, <2>2, <2>3, <2>4, <2>5 DEF WalkInv
<1>19. ASSUME NEW t \in Threads, PruneEnds(t) PROVE WalkInv'
  <2>1. /\ pc[t] = "prune" /\ pc'[t] = "idle" /\ UNCHANGED <<db, iter, todo, doomed, date, due>>
        /\ \A s \in Threads \ {t} : pc'[s] = pc[s] /\ got'[s] = got[s]
    BY <1>0, <1>19 DEF PruneEnds
  <2> QED
    BY <1>13, <2>1 DEF WalkInv
<1> QED
  <2>1. CASE Crash
    BY <1>3, <2>1 DEF Crash
  <2>2. ASSUME NEW t \in Threads, FindNull(t) PROVE WalkInv'
    BY <1>3, <2>2 DEF FindNull
  <2>3. ASSUME NEW t \in Threads,
               \/ StoreQueries(t) \/ StoreQuery(t) \/ RemoveQueries(t)
               \/ RemoveUrl(t) \/ ThumbDownUrl(t) \/ StoreUri(t)
        PROVE WalkInv'
    BY <2>3, <1>6, CallsStart
  <2> QED
    BY <1>1, <1>2, <1>7, <1>8, <1>9, <1>10, <1>11, <1>12, <1>14, <1>15, <1>16, <1>17, <1>18,
       <1>19, <2>1, <2>2, <2>3 DEF Next

-----------------------------------------------------------------------------
(* A program of one thread keeps the book.                                   *)

Walking == {"walk", "read", "prune"}

\* remove_query has taken a record out and has not yet put back what is left of it.
Restoring(t) == pc[t] \in {"get", "put"} /\ Op(t).do = "add" /\ Op(t).time # -1

\* What add_dbr is about to write is what it has read, and merged.
AsRead(t) ==
    LET k == Op(t).key
    IN  /\ val[t].time \in 0 .. now
        /\ val[t] = [time |-> val[t].time,
                     data |-> IF Here(k) THEN Merge(db[k].data, Op(t).data) ELSE Op(t).data]
        /\ Here(k) => db[k].time <= val[t].time
        /\ Restoring(t) => val[t].time = Op(t).time

\* What the thread holds of the database is what is there, for no other comes in
\* between.
InBook(t) ==
    /\ Restoring(t) => ~Here(Op(t).key) /\ Op(t).time \in 0 .. now
    /\ pc[t] = "out" => /\ Here(Op(t).key) /\ got[t] = db[Op(t).key]
                        /\ Op(t).do = "withdraw" => Op(t).entry \in DOMAIN got[t].data
    /\ pc[t] = "put" => AsRead(t)
    /\ pc[t] \in Walking => date[t] <= now - Retention
    /\ pc[t] \notin Walking => doomed[t] = {}
    /\ \A k \in doomed[t] : Here(k) => db[k].time < date[t]

BookInv == ~multi => /\ \A k \in Keys : Here(k) => db[k].time <= now
                     /\ \A t \in Threads : InBook(t)

\* Only t is at work.
Alone(t) == \A s \in Threads \ {t} : pc[s] = "idle"

\* The others stay idle.
LEMMA InBookNext ==
  ASSUME BookInv, ~multi, NEW t \in Threads, Alone(t),
         \A s \in Threads \ {t} : pc'[s] = pc[s] /\ doomed'[s] = doomed[s],
         \A k \in Keys : Here(k)' => db'[k].time <= now', InBook(t)'
  PROVE  BookInv'
<1>1. ASSUME NEW s \in Threads \ {t} PROVE InBook(s)'
  BY DEF BookInv, InBook, Alone, Restoring, Walking
<1> QED
  BY <1>1 DEF BookInv

\* t goes on with a step that holds nothing of the database.
LEMMA CalmNext ==
  ASSUME BookInv, ~multi, TypeInv, NEW t \in Threads, Alone(t), pc[t] \notin Walking,
         \A s \in Threads \ {t} : pc'[s] = pc[s], UNCHANGED doomed,
         pc'[t] \in {"idle", "find", "get", "count", "uncount"}, ~Restoring(t)',
         \A k \in Keys : Here(k)' => db'[k].time <= now'
  PROVE  BookInv'
<1>1. InBook(t)'
  BY DEF BookInv, InBook, Walking
<1> QED
  BY <1>1, InBookNext

\* An operation that a call has from its start restores nothing.
LEMMA Fresh ==
  ASSUME NEW o \in Operations \cup Discounts \cup VisitOps
  PROVE  ~(o.do = "add" /\ o.time # -1)
<1>1. o \in Heads \cup VisitOps
  BY DEF Heads
<1>2. o.do = "add" => o \in Adds \cup Discounts \cup Restores
  BY <1>1, OperationIs
<1>3. o \in VisitOps => o.do # "add"
  BY DEF VisitOps
<1>4. o \in Operations /\ o.do = "add" => o \in Adds
  BY AddsAre
<1> QED
  BY <1>3, <1>4 DEF Adds, Discounts

\* The call goes on with what was left of it.
LEMMA ResumesCalm ==
  ASSUME TypeInv, NEW t \in Threads, pc[t] \in Working,
         GoOn(t, Done(t)) \/ GoOn(t, Thrown(t))
  PROVE  /\ \A s \in Threads \ {t} : pc'[s] = pc[s]
         /\ pc'[t] \in {"idle", "find", "get"} /\ ~Restoring(t)'
<1>1. /\ VisitCall(todo[t]) \/ OtherCall(todo[t])
      /\ Done(t) = After(todo[t]) /\ Thrown(t) = Tail(todo[t])
      /\ Going(Done(t)) /\ Going(Thrown(t))
  BY InHand, WhatIsLeft, Zenon
<1>2. PICK ops \in {Done(t), Thrown(t)} : GoOn(t, ops)
  OBVIOUS
<1>3. /\ \A s \in Threads \ {t} : pc'[s] = pc[s]
      /\ todo'[t] = ops
      /\ \/ ops = <<>> /\ pc'[t] = "idle"
         \/ /\ VisitCall(ops) \/ OtherCall(ops)
            /\ pc'[t] \in {"find", "get"}
            /\ pc'[t] = "get" <=> Op(t)'.do = "add"
  <2>1. Going(ops)
    BY <1>1, <1>2
  <2> QED
    BY <1>2, <2>1, Resume, Zenon DEF TypeInv
<1>4. Op(t)' = Head(Head(ops))
  BY <1>3 DEF Op
<1>5. ops # <<>> => Head(Head(ops)) \in Operations \cup VisitOps
  <2>1. CASE VisitCall(todo[t])
    <3>1. CASE ops = Done(t)
      BY <1>1, <2>1, <3>1, VisitCallGoesOn
    <3>2. CASE ops = Thrown(t)
      BY <1>1, <2>1, <3>2, VisitCallGoesOn
    <3> QED
      BY <1>2, <3>1, <3>2
  <2>2. CASE OtherCall(todo[t])
    <3>1. CASE ops = Done(t)
      BY <1>1, <2>2, <3>1, OtherCallGoesOn
    <3>2. CASE ops = Thrown(t)
      BY <1>1, <2>2, <3>2, OtherCallGoesOn
    <3> QED
      BY <1>2, <3>1, <3>2
  <2> QED
    BY <1>1, <2>1, <2>2
<1>6. ~Restoring(t)'
  <2>1. CASE ops = <<>>
    <3>1. pc'[t] = "idle"
      BY <1>3, <2>1, VisitCallGoesOn, OtherCallGoesOn
    <3> QED
      BY <3>1 DEF Restoring
  <2>2. CASE ops # <<>>
    BY <1>4, <1>5, <2>2, Fresh DEF Restoring
  <2> QED
    BY <2>1, <2>2
<1> QED
  BY <1>3, <1>6

\* The call goes on with what a step has made of its operation.
LEMMA InsteadIs ==
  ASSUME TypeInv, NEW t \in Threads, pc[t] \in Working, Op(t).do # "visit",
         NEW ops, GoOn(t, Instead(t, ops)), NEW p \in Heads, p.do = "add",
         \/ ops = <<p>>
         \/ \E r \in Operations : ops = <<p, r>> /\ p \in Operations
  PROVE  /\ \A s \in Threads \ {t} : pc'[s] = pc[s]
         /\ pc'[t] = "get" /\ todo'[t] = Instead(t, ops) /\ Op(t)' = p
<1>1. OtherCall(todo[t])
  BY InHand, WhatIsLeft
<1>2. Going(Instead(t, ops)) /\ Head(Head(Instead(t, ops))) = p /\ Instead(t, ops) # <<>>
  <2>1. CASE ops = <<p>>
    BY <1>1, <2>1, OtherCallGoesOn, Zenon DEF Instead, Going
  <2>2. CASE \E r \in Operations : ops = <<p, r>> /\ p \in Operations
    <3>1. PICK r \in Operations : ops = <<p, r>> /\ p \in Operations
      BY <2>2
    <3>2. /\ OtherCall(<<<<p, r>> \o Tail(Head(todo[t]))>> \o Tail(todo[t]))
          /\ Head(Head(<<<<p, r>> \o Tail(Head(todo[t]))>> \o Tail(todo[t]))) = p
      BY <1>1, <3>1, OtherCallGoesOn, Zenon
    <3>3. OtherCall(Instead(t, ops)) /\ Head(Head(Instead(t, ops))) = p
      BY <3>1, <3>2, Zenon DEF Instead
    <3> QED
      BY <3>3, OtherCallGoesOn, Zenon DEF Going
  <2> QED
    BY <2>1, <2>2
<1>3. /\ \A s \in Threads \ {t} : pc'[s] = pc[s]
      /\ todo'[t] = Instead(t, ops)
      /\ \/ Instead(t, ops) = <<>> /\ pc'[t] = "idle"
         \/ /\ VisitCall(Instead(t, ops)) \/ OtherCall(Instead(t, ops))
            /\ pc'[t] \in {"find", "get"}
            /\ pc'[t] = "get" <=> Op(t)'.do = "add"
  BY <1>2, Resume, Zenon DEF TypeInv
<1>4. Op(t)' = p
  BY <1>2, <1>3 DEF Op
<1> QED
  BY <1>2, <1>3, <1>4

\* A call is no older than the clock, and what it does first restores nothing.
LEMMA CallBook ==
  ASSUME BookInv, ~multi, TypeInv, NEW t \in Threads, NEW ops, Call(t, ops), Starts(ops)
  PROVE  /\ BookInv' /\ UNCHANGED <<db, now, multi>>
         /\ Alone(t) /\ ~Restoring(t) /\ ~Restoring(t)'
         /\ \A s \in Threads \ {t} : pc'[s] = pc[s]
<1>1. /\ Free(t) /\ GoOn(t, ops) /\ UNCHANGED <<db, now, multi, doomed>>
      /\ Alone(t) /\ pc[t] = "idle"
  BY DEF Call, Free, Alone
<1>2. /\ \A s \in Threads \ {t} : pc'[s] = pc[s]
      /\ todo'[t] = ops
      /\ \/ ops = <<>> /\ pc'[t] = "idle"
         \/ /\ VisitCall(ops) \/ OtherCall(ops)
            /\ pc'[t] \in {"find", "get"}
            /\ pc'[t] = "get" <=> Op(t)'.do = "add"
  <2>1. Going(ops)
    BY DEF Starts, Going
  <2> QED
    BY <1>1, <2>1, Resume, Zenon DEF TypeInv
<1>3. Op(t)' = Head(Head(ops))
  BY <1>2 DEF Op
<1>4. ~Restoring(t)'
  <2>1. CASE ops = <<>>
    <3>1. pc'[t] = "idle"
      BY <1>2, <2>1, VisitCallGoesOn, OtherCallGoesOn
    <3> QED
      BY <3>1 DEF Restoring
  <2>2. CASE VisitCall(ops)
    BY <1>3, <2>2, VisitCallGoesOn, Fresh DEF Restoring
  <2>3. CASE OtherCall(ops) /\ Head(Head(ops)) \in Operations
    BY <1>3, <2>3, Fresh DEF Restoring
  <2> QED
    BY <2>1, <2>2, <2>3 DEF Starts
<1>5. \A k \in Keys : Here(k)' => db'[k].time <= now'
  BY <1>1 DEF BookInv, Here
<1>6. BookInv'
  BY <1>1, <1>2, <1>4, <1>5, CalmNext DEF Walking
<1> QED
  BY <1>1, <1>2, <1>4, <1>6 DEF Restoring

\* The record that is found is still what is there when it is used.
LEMMA FindBook ==
  ASSUME BookInv, ~multi, TypeInv, NEW t \in Threads, Alone(t), Find(t)
  PROVE  /\ BookInv' /\ UNCHANGED <<db, now, multi>>
         /\ ~Restoring(t) /\ ~Restoring(t)'
         /\ \A s \in Threads \ {t} : pc'[s] = pc[s]
<1>1. /\ pc[t] = "find" /\ pc[t] \in Working /\ pc[t] \notin Walking
      /\ UNCHANGED <<db, now, multi, doomed>>
      /\ got' = [got EXCEPT ![t] = IF pc'[t] = "out" \/ Op(t).do = "visit"
                                   THEN db[Op(t).key] ELSE NONE]
  BY DEF Find, Working, Walking, Found
<1>2. \A k \in Keys : Here(k)' => db'[k].time <= now'
  BY <1>1 DEF BookInv, Here
<1>3. ASSUME \A s \in Threads \ {t} : pc'[s] = pc[s],
             pc'[t] \in {"idle", "find", "get", "count", "uncount"}, ~Restoring(t)'
      PROVE  BookInv'
  BY <1>1, <1>2, <1>3, CalmNext
<1>4. CASE Op(t).do = "visit" /\ pc' = [pc EXCEPT ![t] = "get"] /\ UNCHANGED <<todo, left>>
  <2>1. /\ pc'[t] = "get" /\ \A s \in Threads \ {t} : pc'[s] = pc[s]
        /\ ~Restoring(t)'
    BY <1>4 DEF TypeInv, LocalShapes, Restoring, Op
  <2> QED
    BY <1>1, <1>3, <2>1 DEF Restoring
<1>5. CASE GoOn(t, Done(t)) \/ GoOn(t, Thrown(t))
  BY <1>1, <1>3, <1>5, ResumesCalm DEF Restoring
<1>6. CASE /\ pc' = [pc EXCEPT ![t] = "out"] /\ UNCHANGED todo
           /\ Here(Op(t).key)
           /\ Op(t).do = "withdraw" => Op(t).entry \in DOMAIN db[Op(t).key].data
  <2>1. /\ pc'[t] = "out" /\ \A s \in Threads \ {t} : pc'[s] = pc[s]
        /\ Op(t)' = Op(t) /\ got'[t] = db[Op(t).key]
    BY <1>1, <1>6 DEF TypeInv, LocalShapes, Op
  <2>2. InBook(t)'
    BY <1>1, <1>6, <2>1 DEF InBook, BookInv, Restoring, Walking, Here
  <2> QED
    BY <1>1, <1>2, <2>1, <2>2, InBookNext DEF Restoring
<1>7. ASSUME NEW ops, NEW p \in Adds \cup Discounts, GoOn(t, Instead(t, ops)),
             Op(t).do # "visit",
             \/ ops = <<p>>
             \/ \E r \in Operations : ops = <<p, r>> /\ p \in Operations
      PROVE  /\ BookInv' /\ ~Restoring(t)' /\ \A s \in Threads \ {t} : pc'[s] = pc[s]
  <2>1. p \in Heads /\ p.do = "add" /\ p.time = -1
    BY DEF Heads, Operations, Adds, Discounts
  <2>2. /\ \A s \in Threads \ {t} : pc'[s] = pc[s]
        /\ pc'[t] = "get" /\ Op(t)' = p
    BY <1>1, <1>7, <2>1, InsteadIs
  <2> QED
    BY <1>3, <2>1, <2>2 DEF Restoring
<1>8. Adds \subseteq Operations
  BY DEF Operations
<1> QED
  BY <1>1, <1>4, <1>5, <1>6, <1>7, <1>8, FindIs DEF Restoring

LEMMA GetBook ==
  ASSUME BookInv, ~multi, TypeInv, NEW t \in Threads, Alone(t), Get(t)
  PROVE  /\ BookInv' /\ UNCHANGED <<db, now, multi>>
         /\ Op(t)' = Op(t) /\ (Restoring(t)' <=> Restoring(t))
         /\ \A s \in Threads \ {t} : pc'[s] = pc[s]
<1> DEFINE k == Op(t).key
<1>1. /\ pc[t] = "get" /\ pc[t] \in Working
      /\ UNCHANGED <<db, now, multi, doomed, todo>>
      /\ pc'[t] = "put" /\ \A s \in Threads \ {t} : pc'[s] = pc[s]
      /\ Op(t)' = Op(t)
  BY DEF Get, Working, TypeInv, LocalShapes, Op
<1>2. val'[t] = IF Here(k) THEN [time |-> now, data |-> Merge(db[k].data, Op(t).data)]
                ELSE [time |-> IF Op(t).time = -1 THEN now ELSE Op(t).time,
                      data |-> Op(t).data]
  BY DEF Get, TypeInv, LocalShapes
<1>3. /\ k \in Keys /\ Op(t).do \in {"add", "visit"}
      /\ Op(t) \in Heads \cup VisitOps
  BY <1>1, InHand DEF TypeInv, Fine
<1>4. Restoring(t)' <=> Restoring(t)
  BY <1>1 DEF Restoring
<1>5. ~Restoring(t) => Op(t).time = -1
  <2>1. CASE Op(t).do = "add"
    BY <1>1, <2>1 DEF Restoring
  <2>2. CASE Op(t).do # "add"
    BY <1>3, <2>2, OperationIs DEF VisitOps
  <2> QED
    BY <2>1, <2>2
<1>6. Restoring(t) => ~Here(k) /\ Op(t).time \in 0 .. now
  BY DEF BookInv, InBook
<1>7. now \in Nat
  BY Constants DEF TypeInv, Globals
<1>8. (Here(k) => db[k].time <= now) /\ doomed[t] = {}
  BY <1>1, <1>3 DEF BookInv, InBook, Walking
<1>9. AsRead(t)'
  <2>1. CASE Here(k)
    <3>1. /\ val'[t].time = now
          /\ val'[t] = [time |-> val'[t].time, data |-> Merge(db[k].data, Op(t).data)]
      BY <1>2, <2>1
    <3> QED
      BY <1>1, <1>4, <1>6, <1>7, <1>8, <2>1, <3>1 DEF AsRead, Here
  <2>2. CASE ~Here(k)
    <3>1. /\ val'[t].time = IF Op(t).time = -1 THEN now ELSE Op(t).time
          /\ val'[t] = [time |-> val'[t].time, data |-> Op(t).data]
      BY <1>2, <2>2
    <3>2. val'[t].time \in 0 .. now
      BY <1>5, <1>6, <1>7, <3>1
    <3>3. Restoring(t) => val'[t].time = Op(t).time
      BY <1>6, <3>1
    <3> QED
      BY <1>1, <1>4, <2>2, <3>1, <3>2, <3>3 DEF AsRead, Here
  <2> QED
    BY <2>1, <2>2
<1>10. InBook(t)'
  BY <1>1, <1>4, <1>6, <1>8, <1>9 DEF InBook, Walking, Here
<1>11. \A j \in Keys : Here(j)' => db'[j].time <= now'
  BY <1>1 DEF BookInv, Here
<1> QED
  BY <1>1, <1>4, <1>10, <1>11, InBookNext

\* The record is written that was merged with what is there.
LEMMA PutBook ==
  ASSUME BookInv, ~multi, TypeInv, NEW t \in Threads, Alone(t), Put(t)
  PROVE  /\ BookInv' /\ UNCHANGED <<now, multi>> /\ ~Restoring(t)'
         /\ db' = [db EXCEPT ![Op(t).key] = val[t]] /\ AsRead(t)
         /\ \A s \in Threads \ {t} : pc'[s] = pc[s]
<1> DEFINE k == Op(t).key
<1>1. /\ pc[t] = "put" /\ pc[t] \in Working /\ pc[t] \notin Walking
      /\ UNCHANGED <<now, multi, doomed>>
      /\ db' = [db EXCEPT ![k] = val[t]]
      /\ db'[k] = val[t] /\ \A j \in Keys \ {k} : db'[j] = db[j]
  <2>1. db' = [db EXCEPT ![k] = val[t]]
    BY DEF Put
  <2> QED
    BY <2>1, PutIs DEF Working, Walking
<1>2. AsRead(t)
  BY <1>1 DEF BookInv, InBook
<1>3. \A j \in Keys : Here(j)' => db'[j].time <= now'
  BY <1>1, <1>2 DEF BookInv, Here, AsRead
<1>5. /\ \A s \in Threads \ {t} : pc'[s] = pc[s]
      /\ pc'[t] \in {"idle", "find", "get", "count"} /\ ~Restoring(t)'
  <2>1. CASE GoOn(t, Done(t))
    BY <1>1, <2>1, ResumesCalm
  <2>2. CASE pc' = [pc EXCEPT ![t] = "count"]
    BY <2>2 DEF TypeInv, LocalShapes, Restoring
  <2> QED
    BY <2>1, <2>2, PutIs
<1>6. BookInv'
  BY <1>1, <1>3, <1>5, CalmNext
<1> QED
  BY <1>1, <1>2, <1>5, <1>6

LEMMA PutFailsBook ==
  ASSUME BookInv, ~multi, TypeInv, NEW t \in Threads, Alone(t), PutFails(t)
  PROVE  /\ BookInv' /\ UNCHANGED <<db, now, multi>> /\ ~Restoring(t)'
         /\ \A s \in Threads \ {t} : pc'[s] = pc[s]
<1>1. /\ pc[t] = "put" /\ pc[t] \in Working /\ pc[t] \notin Walking
      /\ UNCHANGED <<db, now, multi, doomed>> /\ GoOn(t, Thrown(t))
  BY DEF PutFails, Working, Walking
<1>2. \A k \in Keys : Here(k)' => db'[k].time <= now'
  BY <1>1 DEF BookInv, Here
<1>3. /\ \A s \in Threads \ {t} : pc'[s] = pc[s]
      /\ pc'[t] \in {"idle", "find", "get"} /\ ~Restoring(t)'
  BY <1>1, ResumesCalm
<1> QED
  BY <1>1, <1>2, <1>3, CalmNext

\* A record goes: with its last query, for a moment, or with its URI.
LEMMA OutBook ==
  ASSUME BookInv, ~multi, TypeInv, NEW t \in Threads, Alone(t), Out(t)
  PROVE  /\ BookInv' /\ UNCHANGED <<now, multi>> /\ ~Restoring(t)
         /\ db' = [db EXCEPT ![Op(t).key] = NONE]
         /\ Here(Op(t).key) /\ got[t] = db[Op(t).key]
         /\ \A s \in Threads \ {t} : pc'[s] = pc[s]
         /\ \/ /\ Op(t).do = "withdraw" /\ DOMAIN Left(t) # {} /\ Op(t).key \in Fragments
               /\ Restoring(t)' /\ Op(t)'.key = Op(t).key
               /\ Op(t)'.time = got[t].time /\ Op(t)'.data = Left(t)
            \/ /\ Op(t).do = "withdraw" /\ DOMAIN Left(t) = {} /\ Op(t).key \in Fragments
               /\ ~Restoring(t)'
            \/ Op(t).do = "leave" /\ ~Restoring(t)'
<1> DEFINE k == Op(t).key
<1>1. /\ pc[t] = "out" /\ pc[t] \in Working /\ pc[t] \notin Walking /\ k \in Keys
      /\ UNCHANGED <<now, multi, doomed>> /\ Op(t).do # "visit"
      /\ db'[k] = NONE /\ \A j \in Keys \ {k} : db'[j] = db[j]
  BY OutIs DEF Working, Walking
<1>2. db' = [db EXCEPT ![k] = NONE]
  BY DEF Out
<1>3. /\ Here(k) /\ got[t] = db[k] /\ doomed[t] = {}
  BY <1>1 DEF BookInv, InBook
<1>4. \A j \in Keys : Here(j)' => db'[j].time <= now'
  BY <1>1 DEF BookInv, Here
<1>5. ASSUME \A s \in Threads \ {t} : pc'[s] = pc[s],
             pc'[t] \in {"idle", "find", "get", "count", "uncount"}, ~Restoring(t)'
      PROVE  BookInv'
  BY <1>1, <1>4, <1>5, CalmNext
<1>6. CASE /\ Op(t).do = "withdraw" /\ DOMAIN Left(t) # {} /\ k \in Fragments
           /\ \E p \in Restores : /\ GoOn(t, Instead(t, <<p>>)) /\ p.key = k
                                  /\ p.time = got[t].time /\ p.data = Left(t)
  <2>1. PICK p \in Restores : /\ GoOn(t, Instead(t, <<p>>)) /\ p.key = k
                              /\ p.time = got[t].time /\ p.data = Left(t)
    BY <1>6
  <2>2. p \in Heads /\ p.do = "add" /\ p.time \in 0 .. MaxTime
    BY DEF Heads, Restores
  <2>3. /\ \A s \in Threads \ {t} : pc'[s] = pc[s]
        /\ pc'[t] = "get" /\ Op(t)' = p
    BY <1>1, <2>1, <2>2, InsteadIs
  <2>4. p.time \in 0 .. now /\ p.time # -1
    <3>1. got[t].time <= now
      BY <1>1, <1>3 DEF BookInv
    <3> QED
      BY <2>1, <2>2, <3>1 DEF TypeInv, Globals
  <2>5. Restoring(t)'
    BY <2>2, <2>3, <2>4 DEF Restoring
  <2>6. InBook(t)'
    BY <1>1, <1>3, <2>1, <2>3, <2>4 DEF InBook, Walking, Here
  <2>7. BookInv'
    BY <1>1, <1>4, <2>3, <2>6, InBookNext
  <2> QED
    BY <1>1, <1>2, <1>3, <1>6, <2>1, <2>3, <2>5, <2>7 DEF Restoring
<1>7. CASE /\ GoOn(t, Done(t)) \/ GoOn(t, Thrown(t))
           /\ \/ Op(t).do = "withdraw" /\ DOMAIN Left(t) = {} /\ k \in Fragments
              \/ Op(t).do = "leave" /\ ~Here(k)
  BY <1>1, <1>2, <1>3, <1>5, <1>7, ResumesCalm DEF Restoring
<1>8. CASE /\ pc' = [pc EXCEPT ![t] = "uncount"] /\ Op(t).do = "leave"
  <2>1. pc'[t] = "uncount" /\ \A s \in Threads \ {t} : pc'[s] = pc[s]
    BY <1>8 DEF TypeInv, LocalShapes
  <2> QED
    BY <1>1, <1>2, <1>3, <1>5, <1>8, <2>1 DEF Restoring
<1> QED
  BY <1>6, <1>7, <1>8, OutIs

LEMMA CountBook ==
  ASSUME BookInv, ~multi, TypeInv, NEW t \in Threads, Alone(t), Count(t) \/ Uncount(t)
  PROVE  /\ BookInv' /\ UNCHANGED <<db, now, multi>> /\ ~Restoring(t) /\ ~Restoring(t)'
         /\ \A s \in Threads \ {t} : pc'[s] = pc[s]
<1>1. /\ pc[t] \in {"count", "uncount"} /\ pc[t] \in Working /\ pc[t] \notin Walking
      /\ UNCHANGED <<db, now, multi, doomed>> /\ GoOn(t, Done(t))
  BY DEF Count, Uncount, Counts, Working, Walking
<1>2. \A k \in Keys : Here(k)' => db'[k].time <= now'
  BY <1>1 DEF BookInv, Here
<1>3. /\ \A s \in Threads \ {t} : pc'[s] = pc[s]
      /\ pc'[t] \in {"idle", "find", "get"} /\ ~Restoring(t)'
  BY <1>1, ResumesCalm
<1> QED
  BY <1>1, <1>2, <1>3, CalmNext DEF Restoring

\* What the sweep collects is older than its date, and its date than the retention.
LEMMA SweepBook ==
  ASSUME BookInv, ~multi, TypeInv, NEW t \in Threads, Alone(t),
         \/ \E p \in {"query-capture", "uri-capture"} : Sweep(t, p)
         \/ WalkNext(t) \/ WalkRead(t) \/ WalkEnds(t) \/ PruneEnds(t)
  PROVE  /\ BookInv' /\ UNCHANGED <<db, now, multi>> /\ ~Restoring(t) /\ ~Restoring(t)'
         /\ \A s \in Threads \ {t} : pc'[s] = pc[s]
<1>1. /\ UNCHANGED <<db, now, multi>>
      /\ pc[t] \in {"idle", "walk", "read", "prune"}
      /\ pc'[t] \in {"idle", "walk", "read", "prune"}
      /\ \A s \in Threads \ {t} : pc'[s] = pc[s] /\ doomed'[s] = doomed[s]
  BY DEF Sweep, Free, WalkNext, WalkRead, WalkEnds, PruneEnds, TypeInv, LocalShapes
<1>2. ~Restoring(t) /\ ~Restoring(t)'
  BY <1>1 DEF Restoring
<1>3. \A k \in Keys : Here(k)' => db'[k].time <= now'
  BY <1>1 DEF BookInv, Here
<1>4. /\ pc[t] \in Walking => date[t] <= now - Retention
      /\ pc[t] \notin Walking => doomed[t] = {}
      /\ \A k \in doomed[t] : Here(k) => db[k].time < date[t]
  BY DEF BookInv, InBook
<1>5. CASE \E p \in {"query-capture", "uri-capture"} : Sweep(t, p)
  <2>1. /\ pc[t] = "idle" /\ UNCHANGED <<db, now, doomed>>
        /\ pc'[t] = "walk" /\ date'[t] = now - Retention
    BY <1>5 DEF Sweep, Free, TypeInv, LocalShapes
  <2>2. now - Retention <= now - Retention
    BY Constants DEF TypeInv, Globals
  <2>3. doomed'[t] = {}
    BY <1>4, <2>1 DEF Walking
  <2>4. InBook(t)'
    BY <1>2, <2>1, <2>2, <2>3 DEF InBook, Walking
  <2> QED
    BY <1>1, <1>2, <1>3, <2>4, InBookNext
<1>6. CASE WalkNext(t) \/ WalkEnds(t)
  <2>1. /\ pc[t] = "walk" /\ UNCHANGED <<db, now, doomed, date>>
        /\ pc'[t] \in {"read", "prune"}
    BY <1>6 DEF WalkNext, WalkEnds, TypeInv, LocalShapes
  <2>2. InBook(t)'
    BY <1>2, <1>4, <2>1 DEF InBook, Walking, Here
  <2> QED
    BY <1>1, <1>2, <1>3, <2>2, InBookNext
<1>7. CASE WalkRead(t)
  <2>1. /\ pc[t] = "read" /\ UNCHANGED <<db, now, date>>
        /\ pc'[t] = "walk"
        /\ doomed'[t] \subseteq doomed[t] \cup {k \in {Op(t).key} : Old(k, date[t])}
    BY <1>7 DEF WalkRead, TypeInv, LocalShapes
  <2>2. \A k \in doomed'[t] : Here(k) => db[k].time < date[t]
    BY <1>4, <2>1 DEF Old
  <2>3. InBook(t)'
    BY <1>2, <1>4, <2>1, <2>2 DEF InBook, Walking, Here
  <2> QED
    BY <1>1, <1>2, <1>3, <2>3, InBookNext
<1>8. CASE PruneEnds(t)
  <2>1. /\ doomed[t] = {} /\ UNCHANGED <<db, now, doomed>> /\ pc'[t] = "idle"
    BY <1>8 DEF PruneEnds, TypeInv, LocalShapes
  <2>2. InBook(t)'
    BY <1>2, <2>1 DEF InBook, Walking
  <2> QED
    BY <1>1, <1>2, <1>3, <2>2, InBookNext
<1> QED
  BY <1>1, <1>2, <1>5, <1>6, <1>7, <1>8

LEMMA PruneBook ==
  ASSUME BookInv, ~multi, TypeInv, NEW t \in Threads, Alone(t), Prune(t)
  PROVE  /\ BookInv' /\ UNCHANGED <<now, multi>> /\ ~Restoring(t) /\ ~Restoring(t)'
         /\ \A s \in Threads \ {t} : pc'[s] = pc[s]
         /\ \E k \in Keys : /\ db' = [db EXCEPT ![k] = NONE]
                            /\ Here(k) => db[k].time < now - Retention
<1>1. /\ pc[t] = "prune" /\ UNCHANGED <<now, multi, pc, date>>
      /\ \A s \in Threads \ {t} : doomed'[s] = doomed[s]
      /\ doomed'[t] \subseteq doomed[t]
  BY DEF Prune, TypeInv, LocalShapes
<1>2. PICK k \in doomed[t] : db' = [db EXCEPT ![k] = NONE]
  BY DEF Prune
<1>3. k \in Keys /\ date[t] \in Int
  BY DEF TypeInv, Fine
<1>4. db'[k] = NONE /\ \A j \in Keys \ {k} : db'[j] = db[j]
  BY <1>2, <1>3 DEF TypeInv, Globals
<1>5. /\ date[t] <= now - Retention
      /\ \A j \in doomed[t] : Here(j) => db[j].time < date[t]
  BY <1>1 DEF BookInv, InBook, Walking
<1>6. Here(k) => db[k].time < now - Retention
  <2>1. Here(k) => db[k].time \in Int
    BY <1>3 DEF TypeInv, Globals, IsRecord
  <2>2. now \in Int /\ Retention \in Int
    BY Constants DEF TypeInv, Globals
  <2>3. Here(k) => db[k].time < date[t]
    BY <1>5
  <2> QED
    BY <1>3, <1>5, <2>1, <2>2, <2>3
<1>7. \A j \in Keys : Here(j)' => db'[j].time <= now'
  BY <1>1, <1>4 DEF BookInv, Here
<1>8. \A j \in doomed'[t] : Here(j)' => db'[j].time < date'[t]
  <2>1. doomed[t] \subseteq Keys
    BY DEF TypeInv, Fine
  <2> QED
    BY <1>1, <1>4, <1>5, <2>1 DEF Here
<1>9. InBook(t)'
  BY <1>1, <1>5, <1>8 DEF InBook, Restoring, Walking
<1>10. BookInv'
  BY <1>1, <1>7, <1>9, InBookNext
<1> QED
  BY <1>1, <1>2, <1>3, <1>6, <1>10 DEF Restoring

LEMMA RestartBook ==
  ASSUME BookInv, ~multi, Restart
  PROVE  BookInv' /\ UNCHANGED <<db, now, multi>> /\ \A t \in Threads : pc'[t] = "idle"
<1>1. /\ UNCHANGED <<db, now, multi>>
      /\ \A t \in Threads : pc'[t] = "idle" /\ doomed'[t] = {}
  BY DEF Restart
<1> QED
  BY <1>1 DEF BookInv, InBook, Restoring, Walking, Here

LEMMA TickBook ==
  ASSUME BookInv, TypeInv, Tick
  PROVE  BookInv' /\ now' = now + 1 /\ UNCHANGED <<db, multi, pc, todo>>
<1>1. now' = now + 1 /\ UNCHANGED <<db, multi, locals>>
  BY DEF Tick
<1>2. now \in Nat
  BY Constants DEF TypeInv, Globals
<1>3. ASSUME ~multi, NEW t \in Threads PROVE InBook(t)'
  <2>1. Op(t)' = Op(t) /\ (Restoring(t)' <=> Restoring(t))
    BY <1>1 DEF locals, Op, Restoring
  <2>2. AsRead(t) => AsRead(t)'
    BY <1>1, <1>2, <2>1 DEF locals, AsRead, Here
  <2>3. date[t] \in Int
    BY DEF TypeInv, Fine
  <2>4. InBook(t)
    BY <1>3 DEF BookInv
  <2>5. pc[t] \in Walking => date'[t] <= now' - Retention
    BY <1>1, <1>2, <2>3, <2>4, Constants DEF locals, InBook
  <2>6. Restoring(t)' => ~Here(Op(t).key)' /\ Op(t)'.time \in 0 .. now'
    BY <1>1, <1>2, <2>1, <2>4 DEF InBook, Here
  <2> QED
    BY <1>1, <2>1, <2>2, <2>4, <2>5, <2>6 DEF locals, InBook, Here
<1>4. ASSUME ~multi, NEW k \in Keys, Here(k)' PROVE db'[k].time <= now'
  <2>1. db[k].time <= now /\ db[k].time \in Int
    BY <1>1, <1>4 DEF BookInv, Here, TypeInv, Globals, IsRecord
  <2> QED
    BY <1>1, <1>2, <2>1
<1> QED
  BY <1>1, <1>3, <1>4 DEF BookInv, locals

LEMMA InitBook == ASSUME Init PROVE BookInv
<1>1. now = 0 /\ \A t \in Threads : pc[t] = "idle" /\ doomed[t] = {}
  BY DEF Init
<1>2. \A k \in Keys : Here(k) => db[k].time = 0
  <2>1. PICK f \in Files : db = f
    BY DEF Init
  <2>2. \A k \in Keys : f[k] # NONE => f[k] = [time |-> 0, data |-> f[k].data]
    BY Zenon, UserDatabaseAssumption
  <2>3. ASSUME NEW k \in Keys, f[k] # NONE PROVE f[k].time = 0
    <3>1. f[k] = [time |-> 0, data |-> f[k].data]
      BY <2>2, <2>3
    <3>2. [time |-> 0, data |-> f[k].data].time = 0
      OBVIOUS
    <3> QED
      BY <3>1, <3>2
  <2> QED
    BY <2>1, <2>3 DEF Here
<1> QED
  BY <1>1, <1>2 DEF BookInv, InBook, Restoring, Walking

-----------------------------------------------------------------------------
(* What a program of one thread does to the book.                            *)

\* What BookView is: the database, and the record that is being put back.
Viewed == ~multi =>
    /\ (\A t \in Threads : ~Restoring(t)) => BookView = db /\ Rewriting = {}
    /\ \A t \in Threads : Alone(t) /\ Restoring(t) =>
         /\ BookView = [db EXCEPT ![Op(t).key] = [time |-> Op(t).time, data |-> Op(t).data]]
         /\ Rewriting = {Op(t).key}

LEMMA ViewIs == TypeInv => Viewed
<1> SUFFICES ASSUME TypeInv, ~multi
             PROVE  /\ (\A t \in Threads : ~Restoring(t)) => BookView = db /\ Rewriting = {}
                    /\ \A t \in Threads : Alone(t) /\ Restoring(t) =>
                         /\ BookView = [db EXCEPT ![Op(t).key] =
                                          [time |-> Op(t).time, data |-> Op(t).data]]
                         /\ Rewriting = {Op(t).key}
  BY DEF Viewed
<1>1. \A t \in Threads : t \in Pending <=> Restoring(t)
  <2>1. ASSUME NEW t \in Threads, pc[t] \in {"get", "put"} PROVE todo[t] # <<>>
    BY <2>1, InHand, VisitCallGoesOn, OtherCallGoesOn DEF Working
  <2> QED
    BY <2>1 DEF Pending, Restoring
<1>2. db = [k \in Keys |-> db[k]]
  BY DEF TypeInv, Globals
<1>3. ASSUME \A t \in Threads : ~Restoring(t) PROVE BookView = db /\ Rewriting = {}
  <2>1. Pending = {}
    BY <1>1, <1>3 DEF Pending
  <2> QED
    BY <1>2, <2>1 DEF BookView, Rewriting
<1>4. ASSUME NEW t \in Threads, Alone(t), Restoring(t)
      PROVE  /\ BookView = [db EXCEPT ![Op(t).key] =
                              [time |-> Op(t).time, data |-> Op(t).data]]
             /\ Rewriting = {Op(t).key}
  <2>1. \A s \in Threads \ {t} : ~Restoring(s)
    BY <1>4 DEF Alone, Restoring
  <2>2. Pending = {t}
    BY <1>1, <1>4, <2>1 DEF Pending
  <2>3. Rewriting = {Op(t).key}
    BY <2>2 DEF Rewriting
  <2>4. \A k \in Keys : (\E s \in Pending : Op(s).key = k) <=> k = Op(t).key
    BY <2>2
  <2>5. (CHOOSE s \in Pending : Op(s).key = Op(t).key) = t
    BY <2>2
  <2>6. BookView = [k \in Keys |-> IF k = Op(t).key
                                   THEN [time |-> Op(t).time, data |-> Op(t).data]
                                   ELSE db[k]]
    BY <2>4, <2>5 DEF BookView
  <2> QED
    BY <1>2, <2>3, <2>6
<1> QED
  BY <1>3, <1>4

LEMMA ViewNextIs == TypeInv' => Viewed'
BY ViewIs, PTL

\* The two views of a step of t.
LEMMA ViewOfStep ==
  ASSUME TypeInv, TypeInv', ~multi, UNCHANGED multi, NEW t \in Threads, Alone(t),
         \A s \in Threads \ {t} : pc'[s] = pc[s]
  PROVE  /\ ~Restoring(t) => BookView = db /\ Rewriting = {}
         /\ Restoring(t) =>
              /\ BookView = [db EXCEPT ![Op(t).key] =
                               [time |-> Op(t).time, data |-> Op(t).data]]
              /\ Rewriting = {Op(t).key}
         /\ ~Restoring(t)' => BookView' = db' /\ Rewriting' = {}
         /\ Restoring(t)' =>
              /\ BookView' = [db' EXCEPT ![Op(t)'.key] =
                                [time |-> Op(t)'.time, data |-> Op(t)'.data]]
              /\ Rewriting' = {Op(t)'.key}
<1>1. Viewed /\ Viewed'
  BY ViewIs, ViewNextIs
<1>2. Alone(t)'
  BY DEF Alone
<1>3. ~Restoring(t) => \A s \in Threads : ~Restoring(s)
  BY DEF Alone, Restoring
<1>4. ~Restoring(t)' => \A s \in Threads : ~Restoring(s)'
  BY DEF Alone, Restoring
<1> QED
  BY <1>1, <1>2, <1>3, <1>4 DEF Viewed

\* The book's operators are those of the records.
LEMMA SameRecords ==
  /\ Book!Keys = Keys
  /\ \A old, new : Book!Merge(old, new) = Merge(old, new)
  /\ \A d, q : Book!WithoutQuery(d, q) = WithoutQuery(d, q)
  /\ \A q \in Queries : Book!QueryData(q) = QueryData(q)
  /\ \A q \in Queries, u \in Urls, n \in Int :
       Book!UrlData(q, [x \in {u} |-> n]) = OneUrl(q, u, n)
  /\ \A n \in Int : Book!UriData(n) = UriData(n)
<1>1. Book!Keys = Keys
  BY DEF Keys, Book!Keys
<1>2. ASSUME NEW old, NEW new PROVE Book!Merge(old, new) = Merge(old, new)
  BY DEF Merge, Book!Merge, Visits, Book!Visits, Cancels, Book!Cancels,
         VisitsAddUp, Book!VisitsAddUp, UrlAddsUp, Book!UrlAddsUp, QueryStays, Book!QueryStays
<1>3. ASSUME NEW d, NEW q PROVE Book!WithoutQuery(d, q) = WithoutQuery(d, q)
  BY DEF WithoutQuery, Book!WithoutQuery
<1>4. ASSUME NEW q PROVE Book!QueryData(q) = QueryData(q)
  BY DEF QueryData, Book!QueryData
<1>5. ASSUME NEW q, NEW u, NEW n PROVE Book!UrlData(q, [x \in {u} |-> n]) = OneUrl(q, u, n)
  BY DEF OneUrl, UrlData, Book!UrlData
<1>6. ASSUME NEW n PROVE Book!UriData(n) = UriData(n)
  BY DEF UriData, Book!UriData, Visits, Book!Visits
<1> QED
  BY <1>1, <1>2, <1>3, <1>4, <1>5, <1>6

\* What the plugins add is what the book lets a call add.
LEMMA DeltasOf ==
  ASSUME Amounts = Int, NEW o \in Adds \cup Discounts \cup VisitOps
  PROVE  o.data \in Book!Deltas(o.key)
<1>1. CASE o \in Adds
  <2>1. o.key \notin Uris /\ o.data \in QueryDeltas
    BY <1>1, Constants DEF Adds
  <2>2. PICK q \in Queries : o.data \in {QueryData(q)} \cup {OneUrl(q, u, n) : u \in Urls, n \in Int}
    BY <2>1 DEF QueryDeltas
  <2>3. CASE o.data = QueryData(q)
    BY <2>1, <2>3, SameRecords DEF Book!Deltas
  <2>4. CASE \E u \in Urls, n \in Int : o.data = OneUrl(q, u, n)
    <3>1. PICK u \in Urls, n \in Int : o.data = OneUrl(q, u, n)
      BY <2>4
    <3>2. o.data = Book!UrlData(q, [x \in {u} |-> n])
      BY <3>1, SameRecords
    <3> DEFINE url(p, w, h) == Book!UrlData(p, [x \in {w} |-> h])
    <3>3. o.data = url(q, u, n)
      BY <3>2
    <3>4. Book!Deltas(o.key) =
            UNION {{Book!QueryData(p)} \cup {url(p, w, h) : w \in Urls, h \in Amounts}
                   : p \in Queries}
      BY <2>1 DEF Book!Deltas
    <3> HIDE DEF url
    <3> QED
      BY <3>3, <3>4
  <2> QED
    BY <2>2, <2>3, <2>4
<1>2. CASE o \in Discounts \cup VisitOps
  <2>1. o.key \in Uris
    BY <1>2, Constants DEF Discounts, VisitOps
  <2>2. PICK n \in Int : o.data = UriData(n)
    <3>1. /\ [{Visits} -> {m \in Int : m < 0}] \subseteq [{Visits} -> Int]
          /\ [{Visits} -> {1}] \subseteq [{Visits} -> Int]
      OBVIOUS
    <3>2. o.data \in [{Visits} -> Int]
      BY <1>2, <3>1 DEF Discounts, VisitOps
    <3>3. o.data = UriData(o.data[Visits]) /\ o.data[Visits] \in Int
      BY <3>2 DEF UriData
    <3> QED
      BY <3>3
  <2>3. o.data = Book!UriData(n)
    BY <2>2, SameRecords
  <2> QED
    BY <2>1, <2>3 DEF Book!Deltas
<1> QED
  BY <1>1, <1>2

\* A step that touches nothing of the book.
LEMMA Unread ==
  ASSUME TypeInv, TypeInv', ~multi, UNCHANGED <<db, now, multi>>, NEW t \in Threads, Alone(t),
         \A s \in Threads \ {t} : pc'[s] = pc[s], ~Restoring(t), ~Restoring(t)'
  PROVE  UNCHANGED Book!vars
<1>1. BookView = db /\ Rewriting = {} /\ BookView' = db' /\ Rewriting' = {}
  BY ViewOfStep
<1> QED
  BY <1>1 DEF Book!vars

\* What add_dbr writes is the record with what the call adds; the record that
\* remove_query puts back was never away.
LEMMA PutStep ==
  ASSUME Amounts = Int, BookInv, TypeInv, TypeInv', ~multi, NEW t \in Threads, Alone(t), Put(t)
  PROVE  [Book!Next]_Book!vars
<1> DEFINE k == Op(t).key
<1>1. /\ UNCHANGED <<now, multi>> /\ ~Restoring(t)'
      /\ db' = [db EXCEPT ![k] = val[t]] /\ AsRead(t)
      /\ \A s \in Threads \ {t} : pc'[s] = pc[s]
  BY PutBook
<1>2. /\ pc[t] = "put" /\ k \in Keys /\ Op(t) \in Heads \cup VisitOps
      /\ Op(t).do \in {"add", "visit"} /\ db = [j \in Keys |-> db[j]]
  BY PutIs, InHand DEF Working, TypeInv, Fine, Globals
<1>3. BookView' = db' /\ Rewriting' = {}
  BY <1>1, ViewOfStep
<1>4. CASE Restoring(t)
  <2>1. /\ BookView = [db EXCEPT ![k] = [time |-> Op(t).time, data |-> Op(t).data]]
        /\ Rewriting = {k}
    BY <1>1, <1>4, ViewOfStep
  <2>2. ~Here(k)
    BY <1>4 DEF BookInv, InBook
  <2>3. val[t] = [time |-> Op(t).time, data |-> Op(t).data]
    BY <1>1, <1>4, <2>2 DEF AsRead
  <2>4. BookView' = BookView
    BY <1>1, <1>3, <2>1, <2>3
  <2>5. Book!Rewritten(k)
    BY <1>1, <1>3, <2>1, <2>4 DEF Book!Rewritten
  <2> QED
    BY <1>2, <2>5, SameRecords DEF Book!Next
<1>5. CASE ~Restoring(t)
  <2>1. BookView = db /\ Rewriting = {}
    BY <1>1, <1>5, ViewOfStep
  <2>2. CASE db' = db
    BY <1>1, <1>3, <2>1, <2>2 DEF Book!vars
  <2>3. CASE db' # db
    <3>1. Op(t) \in Adds \cup Discounts \cup VisitOps
      <4>1. CASE Op(t).do = "add"
        <5>1. Op(t) \in Adds \cup Discounts \cup Restores
          BY <1>2, <4>1, OperationIs
        <5>2. Op(t).time = -1
          BY <1>2, <1>5, <4>1 DEF Restoring
        <5> QED
          BY <5>1, <5>2, Constants DEF Restores
      <4>2. CASE Op(t).do = "visit"
        BY <1>2, <4>2, OperationIs
      <4> QED
        BY <1>2, <4>1, <4>2
    <3> DEFINE d == Op(t).data
               s == val[t].time
    <3>2. d \in Book!Deltas(k) /\ s \in 0 .. now
      BY <1>1, <3>1, DeltasOf DEF AsRead
    <3>3. db' = [db EXCEPT ![k] = IF @ = NONE THEN [time |-> s, data |-> d]
                                  ELSE [time |-> s, data |-> Book!Merge(@.data, d)]]
      BY <1>1, SameRecords DEF AsRead, Here
    <3>4. db'[k] # db[k] /\ \A j \in Keys \ {k} : db'[j] = db[j]
      BY <1>1, <1>2, <2>3
    <3>5. db[k] # NONE => db'[k].time >= db[k].time
      <4>1. db'[k] = val[t]
        BY <1>1, <1>2
      <4>2. Here(k) => db[k].time <= val[t].time /\ db[k].time \in Int /\ val[t].time \in Int
        BY <1>1, <1>2 DEF AsRead, TypeInv, Globals, IsRecord
      <4> QED
        BY <4>1, <4>2 DEF Here
    <3>6. Book!Only(k)
      BY <1>3, <2>1, <3>4, SameRecords DEF Book!Only
    <3>7. Book!Credit(k)
      <4> HIDE DEF d, s
      <4> QED
        BY <1>1, <1>3, <2>1, <3>2, <3>3, <3>5, <3>6 DEF Book!Credit
    <3> QED
      BY <1>2, <3>7, SameRecords DEF Book!Next
  <2> QED
    BY <2>2, <2>3
<1> QED
  BY <1>4, <1>5

\* The record that was to be put back is lost, and no other.
LEMMA PutFailsStep ==
  ASSUME BookInv, TypeInv, TypeInv', ~multi, NEW t \in Threads, Alone(t), PutFails(t)
  PROVE  [Book!Next]_Book!vars
<1>1. /\ UNCHANGED <<db, now, multi>> /\ ~Restoring(t)'
      /\ \A s \in Threads \ {t} : pc'[s] = pc[s]
  BY PutFailsBook
<1>2. CASE ~Restoring(t)
  BY <1>1, <1>2, Unread
<1>3. CASE Restoring(t)
  <2>1. /\ BookView = [db EXCEPT ![Op(t).key] = [time |-> Op(t).time, data |-> Op(t).data]]
        /\ Rewriting = {Op(t).key} /\ BookView' = db /\ Rewriting' = {}
    BY <1>1, <1>3, ViewOfStep
  <2>2. db[Op(t).key] = NONE
    BY <1>3 DEF BookInv, InBook, Here
  <2>3. db = [k \in Keys |-> db[k]]
    BY DEF TypeInv, Globals
  <2>4. BookView' = [k \in Keys |-> IF k \in Rewriting THEN NONE ELSE BookView[k]]
    BY <2>1, <2>2, <2>3
  <2>5. Book!Lose
    BY <1>1, <2>1, <2>4, SameRecords DEF Book!Lose
  <2> QED
    BY <2>5 DEF Book!Next
<1> QED
  BY <1>2, <1>3

\* The program dies: what was to be put back is lost, and no other.
LEMMA RestartStep ==
  ASSUME BookInv, TypeInv, TypeInv', ~multi, Restart,
         \A t \in Threads : pc[t] # "idle" => Alone(t)
  PROVE  [Book!Next]_Book!vars
<1>1. UNCHANGED <<db, now, multi>> /\ \A t \in Threads : pc'[t] = "idle" /\ ~Restoring(t)'
  BY RestartBook DEF Restoring
<1>2. BookView' = db /\ Rewriting' = {}
  BY <1>1, ViewNextIs DEF Viewed
<1>3. db = [k \in Keys |-> db[k]]
  BY DEF TypeInv, Globals
<1>4. CASE \A t \in Threads : ~Restoring(t)
  <2>1. BookView = db /\ Rewriting = {}
    BY <1>4, ViewIs DEF Viewed
  <2> QED
    BY <1>1, <1>2, <2>1 DEF Book!vars
<1>5. ASSUME NEW t \in Threads, Restoring(t) PROVE Book!Lose
  <2>1. Alone(t)
    BY <1>5 DEF Restoring
  <2>2. /\ BookView = [db EXCEPT ![Op(t).key] = [time |-> Op(t).time, data |-> Op(t).data]]
        /\ Rewriting = {Op(t).key}
    BY <1>5, <2>1, ViewIs DEF Viewed
  <2>3. db[Op(t).key] = NONE
    BY <1>5 DEF BookInv, InBook, Here
  <2>4. BookView' = [k \in Keys |-> IF k \in Rewriting THEN NONE ELSE BookView[k]]
    BY <1>2, <1>3, <2>2, <2>3
  <2> QED
    BY <1>1, <1>2, <2>4, SameRecords DEF Book!Lose
<1> QED
  BY <1>4, <1>5 DEF Book!Next

\* remove_query leaves the other queries, and a record without any goes; remove_uri
\* takes the record of its URI.
LEMMA OutStep ==
  ASSUME BookInv, TypeInv, TypeInv', ~multi, NEW t \in Threads, Alone(t), Out(t)
  PROVE  [Book!Next]_Book!vars
<1> DEFINE k == Op(t).key
           rest == Left(t)
<1>1. /\ UNCHANGED <<now, multi>> /\ ~Restoring(t)
      /\ db' = [db EXCEPT ![k] = NONE]
      /\ Here(k) /\ got[t] = db[k]
      /\ \A s \in Threads \ {t} : pc'[s] = pc[s]
  BY OutBook
<1>2. /\ pc[t] = "out" /\ k \in Keys /\ Op(t) \in Heads \cup VisitOps
      /\ db = [j \in Keys |-> db[j]] /\ IsRecord(k, db[k])
  BY OutIs, InHand, <1>1 DEF Working, TypeInv, Globals
<1>3. BookView = db /\ Rewriting = {}
  BY <1>1, ViewOfStep
<1>4. k \in Book!Present
  BY <1>1, <1>2, <1>3, SameRecords DEF Book!Present, Here
<1>5. CASE Op(t).do = "leave" /\ ~Restoring(t)'
  <2>1. k \in Uris
    <3>1. Op(t) \in Leaves
      BY <1>2, <1>5, OperationIs
    <3> QED
      BY <3>1, Constants DEF Leaves
  <2>2. BookView' = db' /\ Rewriting' = {}
    BY <1>1, <1>5, ViewOfStep
  <2>3. Book!Forget(k)
    BY <1>1, <1>3, <1>4, <2>1, <2>2 DEF Book!Forget
  <2> QED
    BY <1>2, <2>3, SameRecords DEF Book!Next
<1>6. ASSUME Op(t).do = "withdraw", k \in Fragments
      PROVE  \E q \in Queries : /\ rest = Book!WithoutQuery(BookView[k].data, q)
                                /\ <<q, NONE>> \in DOMAIN BookView[k].data
                                /\ DOMAIN rest # DOMAIN db[k].data
  <2>1. Op(t).entry \in DOMAIN got[t].data
    BY <1>2, <1>6 DEF BookInv, InBook
  <2>2. Op(t) \in Withdraws
    BY <1>2, <1>6, OperationIs
  <2>3. PICK q \in Queries : Op(t).entry = <<q, NONE>>
    BY <2>2 DEF Withdraws
  <2>4. rest = WithoutQuery(db[k].data, q)
    BY <1>1, <2>3 DEF Left
  <2>5. <<q, NONE>> \notin DOMAIN rest
    BY <2>4 DEF WithoutQuery
  <2> HIDE DEF rest
  <2> QED
    BY <1>1, <1>3, <2>1, <2>3, <2>4, <2>5, SameRecords
<1>7. CASE Op(t).do = "withdraw" /\ k \in Fragments /\ DOMAIN rest = {} /\ ~Restoring(t)'
  <2>1. PICK q \in Queries : /\ rest = Book!WithoutQuery(BookView[k].data, q)
                             /\ <<q, NONE>> \in DOMAIN BookView[k].data
    BY <1>6, <1>7
  <2>2. BookView' = [BookView EXCEPT ![k] = NONE] /\ Rewriting' = Rewriting
    BY <1>1, <1>3, <1>7, ViewOfStep
  <2>3. Book!Only(k)
    BY <1>1, <1>2, <1>3, <2>2, SameRecords DEF Book!Only, Here
  <2> HIDE DEF rest
  <2>4. Book!Withdraw(k)
    BY <1>1, <1>4, <1>7, <2>1, <2>2, <2>3 DEF Book!Withdraw
  <2> QED
    BY <1>2, <2>4, SameRecords DEF Book!Next
<1>8. CASE /\ Op(t).do = "withdraw" /\ DOMAIN rest # {} /\ k \in Fragments
           /\ Restoring(t)' /\ Op(t)'.key = k
           /\ Op(t)'.time = got[t].time /\ Op(t)'.data = rest
  <2>1. PICK q \in Queries : /\ rest = Book!WithoutQuery(BookView[k].data, q)
                             /\ <<q, NONE>> \in DOMAIN BookView[k].data
                             /\ DOMAIN rest # DOMAIN db[k].data
    BY <1>6, <1>8
  <2> HIDE DEF rest
  <2>2. /\ BookView' = [db' EXCEPT ![k] = [time |-> db[k].time, data |-> rest]]
        /\ Rewriting' = {k}
    BY <1>1, <1>8, ViewOfStep
  <2>3. [db[k] EXCEPT !.data = rest] = [time |-> db[k].time, data |-> rest]
    <3>1. db[k] = [time |-> db[k].time, data |-> db[k].data]
      BY <1>2 DEF IsRecord
    <3> QED
      BY <3>1
  <2>4. BookView' = [BookView EXCEPT ![k].data = rest]
    <3>1. BookView' = [db EXCEPT ![k] = [time |-> db[k].time, data |-> rest]]
      BY <1>1, <1>2, <2>2
    <3> QED
      BY <1>2, <1>3, <2>3, <3>1
  <2>5. Book!Only(k)
    <3>1. BookView'[k].data = rest /\ \A j \in Keys \ {k} : BookView'[j] = BookView[j]
      BY <1>1, <1>2, <1>3, <2>2
    <3> QED
      BY <1>3, <2>1, <3>1, SameRecords DEF Book!Only
  <2>6. Rewriting' = Rewriting \cup {k}
    BY <1>3, <2>2
  <2>7. Book!Withdraw(k)
    BY <1>1, <1>4, <1>8, <2>1, <2>4, <2>5, <2>6 DEF Book!Withdraw
  <2> QED
    BY <1>2, <2>7, SameRecords DEF Book!Next
<1> QED
  BY <1>5, <1>7, <1>8, OutBook

\* A sweep drops what is older than the retention.
LEMMA PruneStep ==
  ASSUME BookInv, TypeInv, TypeInv', ~multi, NEW t \in Threads, Alone(t), Prune(t)
  PROVE  [Book!Next]_Book!vars
<1>1. /\ UNCHANGED <<now, multi>> /\ ~Restoring(t) /\ ~Restoring(t)'
      /\ \A s \in Threads \ {t} : pc'[s] = pc[s]
  BY PruneBook
<1>2. PICK k \in Keys : /\ db' = [db EXCEPT ![k] = NONE]
                        /\ Here(k) => db[k].time < now - Retention
  BY PruneBook
<1>3. BookView = db /\ Rewriting = {} /\ BookView' = db' /\ Rewriting' = {}
  BY <1>1, ViewOfStep
<1>4. CASE Here(k)
  <2>1. k \in Book!Present
    BY <1>3, <1>4, SameRecords DEF Book!Present, Here
  <2>2. Book!Expire(k)
    BY <1>1, <1>2, <1>3, <1>4, <2>1 DEF Book!Expire
  <2> QED
    BY <2>2, SameRecords DEF Book!Next
<1>5. CASE ~Here(k)
  <2>1. db' = db
    BY <1>2, <1>5 DEF Here, TypeInv, Globals
  <2> QED
    BY <1>1, <1>3, <2>1 DEF Book!vars
<1> QED
  BY <1>4, <1>5

\* Every step of a program of one thread keeps BookInv, and is one of the book's.
LEMMA NextBook ==
  ASSUME Amounts = Int, BookInv, NrInv, TypeInv, TypeInv', ~multi, Next
  PROVE  BookInv' /\ [Book!Next]_Book!vars
<1>0. \A t \in Threads : pc[t] # "idle" => Alone(t)
  BY InWork DEF Alone
<1>1. ASSUME NEW t \in Threads,
             \/ StoreQueries(t) \/ StoreQuery(t) \/ RemoveQueries(t)
             \/ RemoveUrl(t) \/ ThumbDownUrl(t) \/ StoreUri(t)
      PROVE  BookInv' /\ UNCHANGED Book!vars
  <2>1. PICK ops : Call(t, ops) /\ Starts(ops)
    BY <1>1, CallsStart
  <2> QED
    BY <2>1, CallBook, Unread
<1>2. ASSUME NEW t \in Threads, Find(t) PROVE BookInv' /\ UNCHANGED Book!vars
  BY <1>0, <1>2, FindBook, Unread DEF Find
<1>3. ASSUME NEW t \in Threads, Get(t) PROVE BookInv' /\ UNCHANGED Book!vars
  <2>1. Alone(t)
    BY <1>0, <1>3 DEF Get
  <2>2. /\ BookInv' /\ UNCHANGED <<db, now, multi>>
        /\ Op(t)' = Op(t) /\ (Restoring(t)' <=> Restoring(t))
        /\ \A s \in Threads \ {t} : pc'[s] = pc[s]
    BY <1>3, <2>1, GetBook
  <2>3. UNCHANGED <<BookView, Rewriting>>
    BY <2>1, <2>2, ViewOfStep
  <2> QED
    BY <2>2, <2>3 DEF Book!vars
<1>4. ASSUME NEW t \in Threads, Put(t) PROVE BookInv' /\ [Book!Next]_Book!vars
  BY <1>0, <1>4, PutBook, PutStep DEF Put
<1>5. ASSUME NEW t \in Threads, PutFails(t) PROVE BookInv' /\ [Book!Next]_Book!vars
  BY <1>0, <1>5, PutFailsBook, PutFailsStep DEF PutFails
<1>6. ASSUME NEW t \in Threads, Out(t) PROVE BookInv' /\ [Book!Next]_Book!vars
  BY <1>0, <1>6, OutBook, OutStep DEF Out
<1>7. ASSUME NEW t \in Threads, Count(t) \/ Uncount(t) PROVE BookInv' /\ UNCHANGED Book!vars
  BY <1>0, <1>7, CountBook, Unread DEF Count, Uncount, Counts
<1>8. ASSUME NEW t \in Threads,
             \/ \E p \in {"query-capture", "uri-capture"} : Sweep(t, p)
             \/ WalkNext(t) \/ WalkRead(t) \/ WalkEnds(t) \/ PruneEnds(t)
      PROVE  BookInv' /\ UNCHANGED Book!vars
  <2>1. Alone(t)
    BY <1>0, <1>8 DEF Sweep, Free, WalkNext, WalkRead, WalkEnds, PruneEnds, Alone
  <2> QED
    BY <1>8, <2>1, SweepBook, Unread
<1>9. ASSUME NEW t \in Threads, Prune(t) PROVE BookInv' /\ [Book!Next]_Book!vars
  BY <1>0, <1>9, PruneBook, PruneStep DEF Prune
<1>10. CASE Restart
  BY <1>0, <1>10, RestartBook, RestartStep
<1>11. CASE Tick
  <2>1. BookInv' /\ now' = now + 1 /\ UNCHANGED <<db, multi, pc, todo>>
    BY <1>11, TickBook
  <2>2. UNCHANGED <<BookView, Rewriting>>
    BY <2>1 DEF BookView, Rewriting, Pending, Op
  <2>3. Book!Tick
    BY <2>1, <2>2 DEF Book!Tick
  <2> QED
    BY <2>1, <2>3 DEF Book!Next
<1>12. ASSUME NEW t \in Threads, FindNull(t) PROVE Restart
  BY <1>12 DEF FindNull
<1> QED
  BY <1>1, <1>2, <1>3, <1>4, <1>5, <1>6, <1>7, <1>8, <1>9, <1>10, <1>11, <1>12 DEF Next, Crash

\* A step without anything of the database changes nothing of the book; a program of
\* several threads has no book.
LEMMA StepBook ==
  ASSUME Amounts = Int, BookInv, NrInv, TypeInv, TypeInv', [Next]_dbVars
  PROVE  BookInv' /\ [Book!Next]_Book!vars
<1>1. UNCHANGED multi
  BY Toggle
<1>2. CASE multi
  BY <1>1, <1>2 DEF BookInv, Book!vars, BookView, Rewriting
<1>3. CASE UNCHANGED dbVars
  <2>1. UNCHANGED <<db, now, multi, pc, todo, got, val, doomed, date>>
    BY <1>3 DEF dbVars, locals
  <2>2. BookInv'
    BY <2>1 DEF BookInv, InBook, AsRead, Restoring, Op, Here, Walking
  <2>3. UNCHANGED Book!vars
    BY <2>1 DEF Book!vars, BookView, Rewriting, Pending, Op
  <2> QED
    BY <2>2, <2>3
<1> QED
  BY <1>2, <1>3, NextBook

-----------------------------------------------------------------------------
(* The theorems.                                                             *)

\* Whatever the threads do, and whenever the program dies: every record of the user
\* database is of its plugin's kind (what add_dbr merges and remove_query puts back),
\* no older than the program's start, and a thread without a call has no operations left.
THEOREM DatabaseTypeCorrect == Spec => []TypeOK
<1>1. Init => TypeInv
  BY InitTypes
<1>2. TypeInv /\ [Next]_dbVars => TypeInv'
  BY NextTypes
<1>3. TypeInv => TypeOK
  <2> SUFFICES ASSUME TypeInv PROVE TypeOK
    OBVIOUS
  <2>1. /\ db = [k \in Keys |-> db[k]] /\ iter \subseteq Keys
        /\ now \in 0 .. MaxTime /\ nr \in 0 .. Word - 1 /\ multi \in BOOLEAN
    BY DEF TypeInv, Globals
  <2>2. \A k \in Keys : Here(k) => db[k].time \in 0 .. MaxTime /\ IsDataOf(k, db[k].data)
    BY DataIs DEF TypeInv, Globals, IsRecord
  <2>3. pc \in [Threads -> Steps] /\ doomed \in [Threads -> SUBSET Keys]
    BY DEF TypeInv, LocalShapes, Fine
  <2>4. ASSUME NEW t \in Threads, pc[t] \notin {"walk", "read", "prune"}
        PROVE  (todo[t] = <<>>) = (pc[t] = "idle")
    <3>1. pc[t] = "idle" => todo[t] = <<>>
      BY DEF TypeInv, Fine
    <3>2. pc[t] # "idle" => pc[t] \in Working
      BY <2>3, <2>4 DEF Steps, Working
    <3>3. pc[t] \in Working => todo[t] # <<>>
      BY InHand, VisitCallGoesOn, OtherCallGoesOn
    <3> QED
      BY <3>1, <3>2, <3>3
  <2> QED
    BY <2>1, <2>2, <2>3, <2>4 DEF TypeOK
<1> QED
  BY <1>1, <1>2, <1>3, PTL DEF Spec

\* The counts of uri-capture: however the updates of add_dbr of several threads get
\* lost in each other, no URI has more hits than visits of it were stored (store_uri);
\* and the count of captured URIs of a program of one thread covers them, so that
\* remove_uri does not count below zero.
THEOREM CountsAgreeAlways == Spec => []CountsAgree
<1>1. Init => TypeInv /\ VisitsInv /\ NrInv
  BY InitTypes, InitVisits, InitCounts
<1>2. TypeInv /\ VisitsInv /\ NrInv /\ [Next]_dbVars => (TypeInv /\ VisitsInv /\ NrInv)'
  BY NextTypes, NextVisits, NextCounts
<1>3. VisitsInv /\ NrInv => CountsAgree
  BY DEF VisitsInv, NrInv, CountsAgree, NoOverCount, NrIsEnough
<1> QED
  BY <1>1, <1>2, <1>3, PTL DEF Spec

\* Threads sweep while others serve: the records that a walk of prune_db was to find, which
\* no other walk overlaps, and that nobody has written since, are all among those it
\* removes, although the others' add_dbr and remove_dbr move records before and behind the
\* iterator.  Any number of threads may sweep (user_db.cpp 582-632).
THEOREM PruneIsCompleteAlways == Spec => []PruneIsComplete
<1>1. Init => TypeInv /\ WalkInv
  BY InitTypes DEF Init, WalkInv
<1>2. TypeInv /\ WalkInv /\ [Next]_dbVars => (TypeInv /\ WalkInv)'
  BY NextTypes, NextWalk
<1>3. WalkInv => PruneIsComplete
  BY DEF WalkInv, PruneIsComplete
<1> QED
  BY <1>1, <1>2, <1>3, PTL DEF Spec

\* With one thread (multi_threaded off), the user database implements the book of
\* records, when a call may add or take back any number of hits: add_dbr credits one
\* record and is never older than it, remove_query leaves the other queries, remove_uri
\* takes its own record only, prune_db drops what is older than the retention, and a
\* program that dies, or cannot write, loses only the record that it was rewriting.
THEOREM IsBookAlways == Amounts = Int => (Spec => IsBook)
<1> SUFFICES ASSUME Amounts = Int PROVE Spec => IsBook
  OBVIOUS
<1>1. Init => TypeInv /\ NrInv /\ BookInv
  BY InitTypes, InitCounts, InitBook
<1>2. TypeInv /\ NrInv /\ BookInv /\ [Next]_dbVars => (TypeInv /\ NrInv /\ BookInv)'
  BY NextTypes, NextCounts, StepBook
<1>3. Init => Book!Init
  <2> SUFFICES ASSUME Init PROVE Book!Init
    OBVIOUS
  <2>1. PICK f \in Files : db = f
    BY DEF Init
  <2>2. \A t \in Threads : ~Restoring(t)
    BY DEF Init, Restoring
  <2>3. CASE multi
    BY <2>1, <2>3 DEF Book!Init, BookView, Rewriting
  <2>4. CASE ~multi
    <3>1. BookView = db /\ Rewriting = {}
      BY <2>2, <2>4, InitTypes, ViewIs DEF Viewed
    <3> QED
      BY <2>1, <2>4, <3>1 DEF Book!Init, Init
  <2> QED
    BY <2>3, <2>4
<1>4. TypeInv /\ NrInv /\ BookInv /\ (TypeInv /\ NrInv /\ BookInv)' /\ [Next]_dbVars
        => [Book!Next]_Book!vars
  BY StepBook
<1> QED
  BY <1>1, <1>2, <1>3, <1>4, PTL DEF Spec, IsBook, Book!Spec
=============================================================================
