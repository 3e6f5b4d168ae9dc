------------------------------ MODULE Expansion ------------------------------
(* One cached context under searches that expand and personalise it        *)
(* (websearch::perform_websearch, query_context::generate and expand,      *)
(* sort_rank::th_personalize, rank_estimator::peers_personalize,           *)
(* simple_re::personalize): the engines and pages it covers, the thread    *)
(* that each search starts to personalise while it fetches, and the        *)
(* threads of that one, for the local database and for each peer.          *)
EXTENDS Feeds

CONSTANTS
    Calls,          \* threads that search
    Peers,          \* living peers
    OWN,          \* the thread for the local database
    DUMMY,          \* the feed that stands for no engine
    Searches,       \* what a search may ask: [engines, horizon, ccheck, prs], where the
                    \* horizon BAD stands for no number
    MaxExpansions,  \* _max_expansions
    MaxSearches,    \* bound of the searches
    BAD, NOCALL

Workers == Peers \cup {OWN}

ASSUME ExpansionAssumption ==
    /\ \A s \in Searches : /\ s.engines \in AnyFeeds /\ s.horizon \in Int \cup {BAD}
                           /\ s.ccheck \in {"", "yes", "no"} /\ s.prs \in BOOLEAN
    /\ MaxExpansions \in Nat \ {0} /\ MaxSearches \in Nat
    /\ DUMMY \in Names \ {SEEKS}
    /\ OWN \notin Peers /\ NOCALL \notin Calls \cup (Calls \X Workers)

VARIABLES
    engines, pages,   \* _engines and _page_expansion
    asked,            \* pages asked for, as <<feed, URL, page>>: a history variable
    skipped,          \* a horizon was set without a fetch: a history variable
    held, ack,        \* holders of _qc_mutex and of _feeds_ack_mutex
    estimator,        \* holder of _est_mutex
    renewed,          \* _est_mutex was made anew while held: a history variable
    lfilter,          \* _lfilter: "none", "empty" or "full"
    at, req, err,     \* per search: where it is, what it asks, its error
    page,             \* per search: the next page of a loop of expand
    left,             \* per search: calls it may still make
    pers,             \* per search: its personalisation thread
    worker            \* per search and worker: where that thread is

expansionVars == <<engines, pages, asked, skipped, held, ack, estimator, renewed,
                   lfilter, at, req, err, page, left, pers, worker>>

fetchVars == <<engines, pages, asked, skipped>>
persVars == <<estimator, renewed, lfilter, pers, worker>>

Active(c) == {w \in Workers : worker[c][w] \notin {"none", "over"}}

ExpansionTypeOK ==
    /\ engines \in AnyFeeds
    /\ pages \in Int /\ pages <= MaxExpansions
    /\ held \in Calls \cup {NOCALL} /\ ack \in Calls \cup {NOCALL}
    /\ estimator = NOCALL \/ worker[estimator[1]][estimator[2]] = "ranking"
    /\ \A c \in Calls : pers[c] = "none" => Active(c) = {}

NoRequest == [engines |-> NoFeeds, horizon |-> 0, ccheck |-> "", prs |-> FALSE]

ExpansionInit ==
    /\ engines \in {s.engines : s \in Searches} /\ pages = 0 /\ asked = {} /\ skipped = FALSE
    /\ held = NOCALL /\ ack = NOCALL /\ estimator = NOCALL /\ renewed = FALSE
    /\ lfilter = "none"
    /\ at = [c \in Calls |-> "idle"]
    /\ req = [c \in Calls |-> NoRequest]
    /\ left = [c \in Calls |-> MaxSearches]
    /\ err = [c \in Calls |-> "ok"] /\ page = [c \in Calls |-> 0]
    /\ pers = [c \in Calls |-> "none"]
    /\ worker = [c \in Calls |-> [w \in Workers |-> "none"]]

\* The parameters of a call that is over are forgotten.
Ends(c) == /\ at' = [at EXCEPT ![c] = "idle"] /\ req' = [req EXCEPT ![c] = NoRequest]
           /\ err' = [err EXCEPT ![c] = "ok"] /\ page' = [page EXCEPT ![c] = 0]

Goto(c, where) == at' = [at EXCEPT ![c] = where]

(***************************************************************************)
(* perform_websearch                                                       *)
(***************************************************************************)
\* A call and its parameters.  A cached context, or one just registered, is locked.
LockContext(c) ==
    /\ at[c] = "idle" /\ held = NOCALL /\ left[c] > 0
    /\ held' = c
    /\ left' = [left EXCEPT ![c] = @ - 1]
    /\ \E s \in Searches : req' = [req EXCEPT ![c] = s]
    /\ Goto(c, "ack")
    /\ UNCHANGED <<fetchVars, ack, err, page, persVars>>

\* Mutant: the mutex of the feeds is taken by nobody before the thread is created.
LockFeedsForgotten(c) ==
    /\ at[c] = "ack" /\ ack = NOCALL
    /\ Goto(c, IF req[c].prs THEN "create" ELSE "generate")
    /\ UNCHANGED <<fetchVars, left, held, ack, req, err, page, persVars>>

LockFeeds(c) ==
    /\ at[c] = "ack" /\ ack = NOCALL
    /\ ack' = c
    /\ Goto(c, IF req[c].prs THEN "create" ELSE "generate")
    /\ UNCHANGED <<fetchVars, left, held, req, err, page, persVars>>

\* The personalisation thread, or an error of the call.
Create(c) ==
    /\ at[c] = "create"
    /\ pers' = [pers EXCEPT ![c] = "begun"]
    /\ Goto(c, "generate")
    /\ UNCHANGED <<fetchVars, left, held, ack, req, err, page, estimator, renewed, lfilter,
                   worker>>

CreateFails(c) ==
    /\ at[c] = "create"
    /\ held' = NOCALL /\ ack' = NOCALL
    /\ Ends(c)
    /\ UNCHANGED <<fetchVars, left, persVars>>

(***************************************************************************)
(* query_context::generate and expand                                      *)
(***************************************************************************)
Horizon(c) == LET h == IF req[c].horizon = 0 THEN 1 ELSE req[c].horizon
              IN  IF h > MaxExpansions THEN MaxExpansions ELSE h

ChecksCache(c) == req[c].ccheck \in {"", "yes"}

\* The feeds rs that are asked for and not among the feeds fs of the context, as the code
\* takes their difference twice; and both together.
Lacking[fs \in AnyFeeds] == [rs \in AnyFeeds |-> DiffFeeds(fs, DiffFeeds(fs, rs))]
United[fs \in AnyFeeds] == [rs \in AnyFeeds |-> UnionFeeds(fs, rs)]
Missing(c) == Lacking[engines][req[c].engines]

\* The catch-up makes an exception of this node alone, what follows of the feed
\* "dummy" alone as well.
NeedsCatchUp(fs) == FeedsSize(fs) > 1 \/ ~HasFeed(fs, SEEKS)
NeedsFetch(fs) == FeedsSize(fs) > 1 \/ ~(HasFeed(fs, SEEKS) \/ HasFeed(fs, DUMMY))

Generate(c) ==
    /\ at[c] = "generate"
    /\ page' = [page EXCEPT ![c] = 0]
    /\ IF req[c].horizon = BAD
       THEN err' = [err EXCEPT ![c] = "params"] /\ Goto(c, "unlock")
       ELSE /\ UNCHANGED err
            /\ LET common == InterFeeds(engines, req[c].engines)
               IN  Goto(c, IF ChecksCache(c) /\ ~EqualFeeds(req[c].engines, common)
                           THEN "catchup" ELSE "forward")
    /\ UNCHANGED <<fetchVars, left, held, ack, req, persVars>>

\* One page of a loop of expand: it is asked of all feeds, and some answer or none.
AskPage(c, fs) ==
    /\ asked' = asked \cup {<<u.feed, u.url, page[c]>> : u \in UrlsAsked(fs)}
    /\ \/ page' = [page EXCEPT ![c] = @ + 1] /\ UNCHANGED <<at, err>>
       \/ /\ err' = [err EXCEPT ![c] = "output"]
          /\ Goto(c, "unlock")
          /\ UNCHANGED page

\* Mutant: engines that come later are not asked for the pages before.
CatchUpAll(c) ==
    /\ at[c] = "catchup"
    /\ engines' = United[engines][Missing(c)]
    /\ Goto(c, "forward")
    /\ UNCHANGED <<left, asked, page, err, pages, skipped, held, ack, req, persVars>>

CatchUp(c) ==
    /\ at[c] = "catchup"
    /\ IF NeedsCatchUp(Missing(c)) /\ page[c] < pages
       THEN AskPage(c, Missing(c)) /\ UNCHANGED engines
       ELSE /\ engines' = United[engines][Missing(c)]
            /\ Goto(c, "forward")
            /\ UNCHANGED <<asked, page, err>>
    /\ UNCHANGED <<left, pages, skipped, held, ack, req, persVars>>

\* pages is unsigned when it is compared with 0.
Forward(c) ==
    /\ at[c] = "forward"
    /\ IF ChecksCache(c) /\ pages # 0 /\ Horizon(c) <= pages
       THEN Goto(c, "unlock") /\ UNCHANGED page
       ELSE /\ Goto(c, "expand")
            /\ page' = [page EXCEPT ![c] = IF req[c].ccheck = "" THEN pages ELSE 0]
    /\ UNCHANGED <<fetchVars, left, held, ack, req, err, persVars>>

\* With ccheck=yes nothing is fetched and the horizon is set all the same.
Expand(c) ==
    /\ at[c] = "expand"
    /\ LET fetches == NeedsFetch(engines) /\ req[c].ccheck # "yes"
       IN  IF fetches /\ page[c] < Horizon(c)
           THEN AskPage(c, engines) /\ UNCHANGED <<pages, skipped>>
           ELSE /\ pages' = Horizon(c)
                /\ skipped' = (skipped \/ (req[c].ccheck = "yes" /\ Horizon(c) > pages))
                /\ Goto(c, "unlock")
                /\ UNCHANGED <<asked, page, err>>
    /\ UNCHANGED <<left, engines, held, ack, req, persVars>>

(***************************************************************************)
(* perform_websearch, after generate                                       *)
(***************************************************************************)
\* After an error of the parameters the context is unlocked before the threads have
\* ended; after another one only when there are none.
UnlockFeeds(c) ==
    /\ at[c] = "unlock"
    /\ ack' = NOCALL
    /\ IF err[c] = "params" \/ (err[c] = "output" /\ ~req[c].prs)
       THEN /\ held' = NOCALL
            /\ IF req[c].prs THEN Goto(c, "failed") /\ UNCHANGED <<req, err, page>>
               ELSE Ends(c)
       ELSE /\ Goto(c, IF req[c].prs THEN "signal" ELSE "finish")
            /\ UNCHANGED <<held, req, err, page>>
    /\ UNCHANGED <<fetchVars, left, persVars>>

Blocked(c, w) == worker[c][w] = "blocked"

\* The call broadcasts until its thread is done.  The condition is that of the context.
Broadcast(c) ==
    /\ at[c] \in {"signal", "failed"} /\ pers[c] # "done"
    /\ \E d \in Calls, w \in Workers : Blocked(d, w)
    /\ worker' = [d \in Calls |-> [w \in Workers |->
                    IF Blocked(d, w) THEN "woken" ELSE worker[d][w]]]
    /\ UNCHANGED <<fetchVars, left, held, ack, at, req, err, page, estimator, renewed,
                   lfilter, pers>>

Joined(c) ==
    /\ at[c] \in {"signal", "failed"} /\ pers[c] = "done"
    /\ pers' = [pers EXCEPT ![c] = "none"]
    /\ worker' = [worker EXCEPT ![c] = [w \in Workers |-> "none"]]
    /\ IF at[c] = "signal" THEN Goto(c, "finish") /\ UNCHANGED <<req, err, page>>
       ELSE Ends(c)
    /\ UNCHANGED <<fetchVars, held, ack, left, estimator, renewed, lfilter>>

\* Sorting, ranking and rendering; then the context is unlocked.
Finish(c) ==
    /\ at[c] = "finish"
    /\ held' = NOCALL
    /\ Ends(c)
    /\ UNCHANGED <<fetchVars, ack, left, persVars>>

(***************************************************************************)
(* The threads of the personalisation.                                     *)
(***************************************************************************)
\* An estimator is constructed, which makes the mutex of all estimators anew, and one
\* thread is started for the local database and per living peer; a thread that
\* cannot be created, or a peer that is dead, is left out.
Launch(c) ==
    /\ pers[c] = "begun"
    /\ estimator' = NOCALL /\ renewed' = (renewed \/ estimator # NOCALL)
    /\ \E ws \in SUBSET Workers :
         worker' = [worker EXCEPT ![c] =
                      [w \in Workers |-> IF w \in ws THEN "fetch" ELSE "over"]]
    /\ pers' = [pers EXCEPT ![c] = "joining"]
    /\ UNCHANGED <<fetchVars, left, held, ack, at, req, err, page, lfilter>>

AllOver(c) == Active(c) = {}

Join(c) ==
    /\ pers[c] = "joining" /\ AllOver(c)
    /\ pers' = [pers EXCEPT ![c] = "done"]
    /\ UNCHANGED <<fetchVars, left, held, ack, at, req, err, page, estimator, renewed,
                   lfilter, worker>>

WorkerGoes(c, w, where) == worker' = [worker EXCEPT ![c][w] = where]
otherVars == <<fetchVars, left, held, ack, at, req, err, page, pers>>

\* The records of the database are fetched, or the thread ends with an error.  Then
\* the local thread clears the filter of the context and fills it; the others copy it
\* as it is, or build one of their own.
Fetch(c, w) ==
    /\ worker[c][w] = "fetch"
    /\ \/ WorkerGoes(c, w, "over") /\ UNCHANGED lfilter
       \/ w = OWN /\ lfilter' = "empty" /\ WorkerGoes(c, w, "fill")
       \/ w # OWN /\ WorkerGoes(c, w, "wait") /\ UNCHANGED lfilter
    /\ UNCHANGED <<otherVars, estimator, renewed>>

Fill(c, w) ==
    /\ worker[c][w] = "fill"
    /\ lfilter' = "full"
    /\ WorkerGoes(c, w, "wait")
    /\ UNCHANGED <<otherVars, estimator, renewed>>

\* cond_wait, after the mutex of the feeds was taken.
Wait(c, w) ==
    /\ worker[c][w] = "wait" /\ ack = NOCALL
    /\ WorkerGoes(c, w, "blocked")
    /\ UNCHANGED <<otherVars, estimator, renewed, lfilter>>

\* A condition may wake a thread for no reason.
Spurious(c, w) ==
    /\ Blocked(c, w)
    /\ WorkerGoes(c, w, "woken")
    /\ UNCHANGED <<otherVars, estimator, renewed, lfilter>>

\* It has the mutex of the feeds again, and leaves it.
Resume(c, w) ==
    /\ worker[c][w] = "woken" /\ ack = NOCALL
    /\ WorkerGoes(c, w, "rank")
    /\ UNCHANGED <<otherVars, estimator, renewed, lfilter>>

EstimatorFree == estimator = NOCALL

\* Without queries there is nothing to rank.
Rank(c, w) ==
    /\ worker[c][w] = "rank"
    /\ \/ /\ EstimatorFree
          /\ estimator' = <<c, w>> /\ WorkerGoes(c, w, "ranking")
       \/ WorkerGoes(c, w, "over") /\ UNCHANGED estimator
    /\ UNCHANGED <<otherVars, renewed, lfilter>>

Ranked(c, w) ==
    /\ worker[c][w] = "ranking"
    /\ estimator' = NOCALL
    /\ WorkerGoes(c, w, "over")
    /\ UNCHANGED <<otherVars, renewed, lfilter>>

\* A search on another context constructs an estimator.
OtherEstimator ==
    /\ estimator # NOCALL
    /\ estimator' = NOCALL /\ renewed' = TRUE
    /\ UNCHANGED <<otherVars, lfilter, worker>>

WorkerStep(c, w) == \/ Fetch(c, w) \/ Fill(c, w) \/ Wait(c, w)
                    \/ Resume(c, w) \/ Rank(c, w) \/ Ranked(c, w)
PersStep(c) == Launch(c) \/ Join(c)
GoesOn(c) == \/ LockFeeds(c) \/ Create(c) \/ CreateFails(c)
               \/ Generate(c) \/ CatchUp(c) \/ Forward(c) \/ Expand(c)
               \/ UnlockFeeds(c) \/ Broadcast(c) \/ Joined(c) \/ Finish(c)

ExpansionStep == \E c \in Calls : \/ GoesOn(c) \/ PersStep(c)
                                   \/ \E w \in Workers : WorkerStep(c, w)

ExpansionNext ==
    \/ ExpansionStep
    \/ \E c \in Calls : LockContext(c) \/ \E w \in Workers : Spurious(c, w)
    \/ OtherEstimator

ExpansionSpec == ExpansionInit /\ [][ExpansionNext]_expansionVars

\* The program goes on while any thread can.
ExpansionFairness == WF_expansionVars(ExpansionStep)

-----------------------------------------------------------------------------
(* Properties.                                                             *)

\* A thread that waits for the feeds ranks only when its search has them, although it
\* waits without a predicate: the mutex is taken before the thread is created and
\* kept to the end of generate (websearch.cpp 1142, 1176; rank_estimators.cpp 780).
RanksAfterFeeds ==
    \A c \in Calls, w \in Workers :
        worker[c][w] \in {"rank", "ranking"} => at[c] \in {"signal", "failed"}

\* The threads of a search work on the context while the search holds it, or it
\* failed for a bad expansion (websearch.cpp 1188: unlocked before they are joined).
WorkIsCovered ==
    \A c \in Calls : Active(c) # {} => held = c \/ req[c].horizon = BAD

\* Two threads rank at once only after an estimator was constructed meanwhile.
RankingExclusive ==
    \A c, d \in Calls : \A v, w \in Workers :
        (worker[c][v] = "ranking" /\ worker[d][w] = "ranking" /\ <<c, v>> # <<d, w>>)
            => renewed

\* What the threads of searches that share a context promise each other.
ExpansionSafe == RanksAfterFeeds /\ WorkIsCovered /\ RankingExclusive

\* Every page that a context claims to cover was asked of every engine it claims:
\* engines that come later catch up, whatever fails on the way; unless a search with
\* ccheck=yes moved the horizon without a fetch.  Neither this node nor "dummy" is an
\* engine (query_context.cpp 311, 339).
AllPagesAsked ==
    skipped \/ \A n \in DOMAIN engines \ {SEEKS, DUMMY} : \A u \in engines[n] :
                 \A p \in 0 .. pages - 1 : <<n, u, p>> \in asked

\* In the end all searches are over, with their threads: no broadcast is missed for
\* ever (rank_estimators.cpp 780 waits without a predicate, websearch.cpp 1317 repeats
\* the broadcast).
SearchesEnd == <>[](\A c \in Calls : at[c] = "idle" /\ Active(c) = {})
============================================================================
