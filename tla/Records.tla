------------------------------ MODULE Records ------------------------------
(* The records of the user database (db_record, db_query_record and        *)
(* db_uri_record): what they hold, and how two of them are merged.         *)
(*                                                                         *)
(* A record has the time of its last update and its hits per entry.  The   *)
(* record of a query fragment (plugin query-capture) has an entry          *)
(* <<q, NONE>> for every query q captured under the fragment, and an entry *)
(* <<q, u>> for every URL or host u followed from q.  The record of a URI  *)
(* (plugin uri-capture) has the single entry Visits.  Titles, summaries    *)
(* and languages of URLs are left out.                                     *)
EXTENDS Integers, FiniteSets

CONSTANTS
    Queries,    \* captured queries
    Urls,       \* URLs and hosts captured for a query
    Fragments,  \* keys of the records of query-capture (hashes of fragments)
    Uris,       \* keys of the records of uri-capture
    Halo,       \* [Queries -> SUBSET Fragments]: the fragments of a query
    Exact,      \* [Queries -> Fragments]: the fragment of radius 0
    NONE        \* no URL, no record

ASSUME RecordsAssumption ==
    /\ Halo \in [Queries -> SUBSET Fragments]
    /\ Exact \in [Queries -> Fragments]
    /\ \A q \in Queries : Exact[q] \in Halo[q]
    /\ Fragments \cap Uris = {}
    /\ NONE \notin Queries \cup Urls \cup Fragments \cup Uris

\* generate_rkey puts the plugin's name before the key: two plugins never
\* share a record, so that the keys of both are one set here.
Keys == Fragments \cup Uris

Visits == <<NONE, NONE>>
Entries == (Queries \X (Urls \cup {NONE})) \cup {Visits}

\* What a record may hold: hits of the entry it has, and URLs of its queries only.
IsDataOf(k, d) ==
    /\ d = [e \in DOMAIN d |-> d[e]]
    /\ DOMAIN d # {} /\ \A e \in DOMAIN d : d[e] \in Int
    /\ IF k \in Uris THEN DOMAIN d = {Visits}
       ELSE \A e \in DOMAIN d : e \in Entries \ {Visits} /\ <<e[1], NONE>> \in DOMAIN d

Plugin(k) == IF k \in Uris THEN "uri-capture" ELSE "query-capture"

\* An entry that a merge takes out when its hits cancel: a URL of a query.
Cancels(e) == e[2] # NONE

\* Mutant: what is merged is added twice, as it is when add_dbr merges into the new
\* record and then again into the old one.
VisitsAddUpTwice(old, new) == old + 2 * new

\* db_uri_record::merge_with adds the hits up.
VisitsAddUp(old, new) == old + new

\* visited_url::merge: the hits add up; when they cancel, the merge of the query
\* takes the URL out.
UrlAddsUp(old, new) == old + new

\* query_data::merge: the hits of a query, always 1, are not updated.
QueryStays(old, new) == old

\* merge_with of two records: an entry that both have is merged, one that only one
\* of them has is taken over.
Merge(old, new) ==
    LET both == DOMAIN old \cap DOMAIN new
        sum(e) == IF e = Visits THEN VisitsAddUp(old[e], new[e])
                  ELSE IF Cancels(e) THEN UrlAddsUp(old[e], new[e])
                  ELSE QueryStays(old[e], new[e])
        gone == {e \in both : Cancels(e) /\ sum(e) = 0}
    IN  [e \in (DOMAIN old \cup DOMAIN new) \ gone |->
            IF e \in both THEN sum(e) ELSE IF e \in DOMAIN old THEN old[e] ELSE new[e]]

\* The constructors: a query alone, a query with a URL and hits for it, a URI.
QueryData(q) == [e \in {<<q, NONE>>} |-> 1]
UrlData(q, hits) ==
    [e \in {<<q, NONE>>} \cup {<<q, u>> : u \in DOMAIN hits} |->
        IF e[2] = NONE THEN 1 ELSE hits[e[2]]]
UriData(hits) == [e \in {Visits} |-> hits]

\* remove_query takes a query out of _related_queries, with its URLs.
WithoutQuery(data, q) == [e \in {x \in DOMAIN data : x[1] # q} |-> data[e]]
============================================================================
