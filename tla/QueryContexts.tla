--------------------------- MODULE QueryContexts ---------------------------
(***************************************************************************)
(* Life cycle of the cached query contexts of the websearch plugin: the    *)
(* request threads of the proxy share one query_context per query through  *)
(* websearch::_active_qcontexts, each context carries its own _qc_mutex,   *)
(* and the sweeper, run by the main thread, frees the contexts that have   *)
(* not been used for _query_context_delay seconds.                         *)
(*                                                                         *)
(* A context is an address out of Ctxs: `new' takes an address that is not *)
(* alive, `delete' gives it back and turns every pointer still held to it  *)
(* into NONE.  A step through a dangling or NULL pointer is undefined      *)
(* behaviour: it sets fault, and nothing is claimed of what follows.       *)
(***************************************************************************)
EXTENDS FiniteSets

CONSTANTS Threads,   \* threads that serve HTTP requests
          Keys,      \* hashes of (query, language)
          Ctxs,      \* addresses a query_context can be allocated at
          Sweeper,   \* the main thread, when it runs sweeper::sweep
          NONE,      \* NULL or dangling pointer, free mutex
          Handlers,  \* the CGI handlers that may be called
          BadParameters   \* whether searches come that generate() refuses with
                          \* SP_ERR_CGI_PARAMS

(***************************************************************************)
(* The CGI handlers that use a context:                                    *)
(*   search          perform_websearch, rendering (cgi_websearch_search)   *)
(*   snippet         fetch_snippet                                         *)
(*   words           words_query                                           *)
(*   wordsnippet     words_snippet                                         *)
(*   similarity      cgi_websearch_similarity                              *)
(*   select          POST and DELETE of cgi_websearch_search               *)
(*   title           cgi_websearch_neighbors_title                         *)
(*   urls            cgi_websearch_neighbors_url                           *)
(*   types           cgi_websearch_clustered_types                         *)
(*   clusterize      cgi_websearch_clusterize                              *)
(*   cache           cgi_websearch_search_cache                            *)
(*   recent          cgi_websearch_recent_queries                          *)
(*   suggestion      cf::cgi_suggestion                                    *)
(*   recommendation  cf::recommendation_get                                *)
(*   post            cf::recommendation_post                               *)
(*   delquery        cf::recommendation_delete without an url              *)
(*   delurl          cf::recommendation_delete with an url                 *)
(*   redir           query_capture::qc_redir                               *)
(***************************************************************************)
SearchHandlers == {"search", "snippet", "words", "wordsnippet", "similarity",
                   "select", "title", "urls", "types", "clusterize"}
CatchHandlers  == {"suggestion", "recommendation"}
LookupHandlers == {"cache", "post", "delquery", "delurl", "redir"}
AllHandlers    == SearchHandlers \cup CatchHandlers \cup LookupHandlers \cup {"recent"}

\* Handlers that destroy or unlock a context only while they hold its mutex.
LockingHandlers == AllHandlers \ {"clusterize", "post", "delquery"}

\* ... and that read and change it only then: qc_redir takes no mutex, and
\* select goes on in qc_redir.
DisciplinedHandlers == LockingHandlers \ {"redir", "select"}

ASSUME HandlersAssumption == Handlers \subseteq AllHandlers
ASSUME ParametersAssumption == BadParameters \in BOOLEAN
ASSUME NamesAssumption == /\ Sweeper \notin Threads
                          /\ NONE \notin Threads \cup Ctxs \cup {Sweeper}

Kinds == {"feed", "peer"}   \* snippets of a search engine, of peers only
Labels == {"idle", "catch", "new", "register", "lock1", "work1", "finish1",
           "straggle", "undust1", "destroy1", "lookup", "newprivate",
           "newpost", "lock2", "work2", "lock3", "work3", "unlocked", "touch",
           "undust2", "destroy2", "undust3", "destroy3", "lateunlock",
           "use", "recent"}

VARIABLES
  pc, req, cur,          \* per thread: next step, request served, its `qc'
  alive, key, registered, content, stale, holder,   \* per context
  active,                \* websearch::_active_qcontexts
  ctxOwner,              \* websearch::_context_mutex
  dust,                  \* seeks_proxy::_memory_dust, its query contexts
  sweepPc, toVisit, victim,   \* the loop of sweeper::sweep
  fault                  \* undefined behaviour reached

threadVars == <<pc, req, cur>>
ctxVars == <<alive, key, registered, content, stale, holder>>
sweepVars == <<sweepPc, toVisit, victim>>
vars == <<threadVars, ctxVars, active, ctxOwner, dust, sweepVars, fault>>

Requests == [h : AllHandlers, k : Keys, persf : BOOLEAN]

TypeOK ==
  /\ pc \in [Threads -> Labels]
  /\ req \in [Threads -> Requests \cup {NONE}]
  /\ \A t \in Threads : pc[t] # "idle" => req[t] \in Requests
  /\ cur \in [Threads -> Ctxs \cup {NONE}]
  /\ alive \subseteq Ctxs /\ registered \subseteq Ctxs /\ stale \subseteq Ctxs
  /\ key \in [Ctxs -> Keys \cup {NONE}]
  /\ content \in [Ctxs -> SUBSET Kinds]
  /\ holder \in [Ctxs -> Threads \cup {Sweeper, NONE}]
  /\ active \in [Keys -> Ctxs \cup {NONE}]
  /\ ctxOwner \in Threads \cup {NONE}
  /\ dust \subseteq Ctxs /\ toVisit \subseteq Ctxs
  /\ sweepPc \in {"idle", "scan", "delete"}
  /\ victim \in Ctxs \cup {NONE}
  /\ fault \in {"none", "freed", "null"}

Init ==
  /\ pc = [t \in Threads |-> "idle"]
  /\ req = [t \in Threads |-> NONE]
  /\ cur = [t \in Threads |-> NONE]
  /\ alive = {} /\ registered = {} /\ stale = {}
  /\ key = [o \in Ctxs |-> NONE]
  /\ content = [o \in Ctxs |-> {}]
  /\ holder = [o \in Ctxs |-> NONE]
  /\ active = [k \in Keys |-> NONE]
  /\ ctxOwner = NONE
  /\ dust = {}
  /\ sweepPc = "idle" /\ toVisit = {} /\ victim = NONE
  /\ fault = "none"

-----------------------------------------------------------------------------
(* Control of a request thread. *)

Goto(t, l) == pc' = [pc EXCEPT ![t] = l]

\* The handler returns.
EndRequest(t) == Goto(t, "idle") /\ req' = [req EXCEPT ![t] = NONE]
DropPointer(t) == cur' = [cur EXCEPT ![t] = NONE]
Return(t) == EndRequest(t) /\ DropPointer(t)

\* Mutant: perform_websearch frees the parameters the handler still needs.
AfterSearchFreed(t) == Goto(t, "lookup") /\ req' = [req EXCEPT ![t] = NONE]

\* perform_websearch returns SP_ERR_OK: to the client when it rendered, else
\* to the handler, which looks the context up again.
AfterSearch(t) == IF req[t].h = "search"
                  THEN EndRequest(t)
                  ELSE Goto(t, "lookup") /\ UNCHANGED req

Fault(f) == /\ fault' = f
            /\ UNCHANGED <<threadVars, ctxVars, active, ctxOwner, dust, sweepVars>>

\* Thread t is at one of the labels ls; after undefined behaviour nothing is
\* modelled.
Runs(t, ls) == pc[t] \in ls /\ fault = "none"

\* ... and its next step goes through the pointer cur[t].
At(t, ls) == Runs(t, ls) /\ cur[t] \in alive

\* The labels from which a step dereferences cur[t]; it is undefined if the
\* context has been deleted.
Using == {"register", "lock1", "work1", "finish1", "straggle", "destroy1",
          "lock2", "work2", "lock3", "work3", "unlocked", "destroy2",
          "destroy3", "lateunlock", "use"}

UseFreed(t) == Runs(t, Using) /\ cur[t] \notin alive /\ Fault("freed")

\* A request arrives at an idle thread.
Begin(t) ==
  /\ Runs(t, {"idle"})
  /\ \E h \in Handlers, k \in Keys, p \in BOOLEAN :
       /\ p => h \in SearchHandlers
       /\ req' = [req EXCEPT ![t] = [h |-> h, k |-> k, persf |-> p]]
       /\ Goto(t, CASE h \in SearchHandlers \cup CatchHandlers -> "catch"
                    [] h \in LookupHandlers -> "lookup"
                    [] h = "recent" -> "recent")
  /\ UNCHANGED <<cur, ctxVars, active, ctxOwner, dust, sweepVars, fault>>

-----------------------------------------------------------------------------
(* Catching, creating and registering a context. *)

\* Where a thread goes with a context it caught or registered.
LockLabel(t) == CASE req[t].h \in SearchHandlers -> "lock1"
                  [] req[t].h \in CatchHandlers -> "lock2"
                  [] OTHER -> "lock3"

\* Critical section of _context_mutex when the context exists.
Catch(t) ==
  LET o == active[req[t].k] IN
  /\ Runs(t, {"catch"}) /\ ctxOwner = NONE /\ o # NONE
  /\ cur' = [cur EXCEPT ![t] = o]
  /\ stale' = stale \ {o}
  /\ Goto(t, LockLabel(t))
  /\ UNCHANGED <<req, alive, key, registered, content, holder, active,
                 ctxOwner, dust, sweepVars, fault>>

\* ... and when it does not: the mutex is kept during the construction.
CatchMiss(t) ==
  /\ Runs(t, {"catch"}) /\ ctxOwner = NONE /\ active[req[t].k] = NONE
  /\ ctxOwner' = t
  /\ Goto(t, "new")
  /\ UNCHANGED <<req, cur, ctxVars, active, dust, sweepVars, fault>>

\* query_context's constructor: fresh mutex, time of use now, and it puts the
\* context into the memory dust, for which it needs _mem_dust_mutex.
Construct(o, k) ==
  /\ alive' = alive \cup {o}
  /\ key' = [key EXCEPT ![o] = k]
  /\ registered' = registered \ {o}
  /\ content' = [content EXCEPT ![o] = {}]
  /\ stale' = stale \ {o}
  /\ holder' = [holder EXCEPT ![o] = NONE]
  /\ dust' = dust \cup {o}

New(t) ==
  /\ Runs(t, {"new", "newprivate", "newpost"})
  /\ sweepPc = "idle"
  /\ \E o \in Ctxs \ alive : Construct(o, req[t].k) /\ cur' = [cur EXCEPT ![t] = o]
  /\ Goto(t, IF pc[t] = "newprivate" THEN "lock2" ELSE "register")
  /\ UNCHANGED <<req, active, ctxOwner, sweepVars, fault>>

\* register_qc: hash_map::insert does not replace an existing entry; the
\* context believes itself registered in any case.  A websearch or a
\* suggestion releases _context_mutex, recommendation_post never took it.
RegisterQc(t) ==
  LET o == cur[t] IN
  /\ At(t, {"register"})
  /\ active' = IF active[key[o]] = NONE THEN [active EXCEPT ![key[o]] = o]
                                        ELSE active
  /\ registered' = registered \cup {o}
  /\ ctxOwner' = IF ctxOwner = t THEN NONE ELSE ctxOwner
  /\ Goto(t, LockLabel(t))
  /\ UNCHANGED <<req, cur, alive, key, content, stale, holder, dust, sweepVars, fault>>

\* lookup_qc outside of _context_mutex.
Lookup(t) ==
  LET o == active[req[t].k] IN
  /\ Runs(t, {"lookup"}) /\ o # NONE
  /\ cur' = [cur EXCEPT ![t] = o]
  /\ stale' = stale \ {o}
  /\ Goto(t, CASE req[t].h = "delquery" -> "undust2"
               [] req[t].h = "redir" -> "use"
               [] OTHER -> "lock2")
  /\ UNCHANGED <<req, alive, key, registered, content, holder, active, ctxOwner,
                 dust, sweepVars, fault>>

\* similarity returns before it locks the context when there is no id.
SimilarityNoId(t) ==
  LET o == active[req[t].k] IN
  /\ Runs(t, {"lookup"}) /\ o # NONE /\ req[t].h = "similarity"
  /\ stale' = stale \ {o}
  /\ Return(t)
  /\ UNCHANGED <<alive, key, registered, content, holder, active, ctxOwner, dust,
                 sweepVars, fault>>

\* lookup_qc returned NULL: an empty private context, a context of its own
\* for a posted recommendation, a NULL dereference, or an early return.
LookupMiss(t) ==
  /\ Runs(t, {"lookup"}) /\ active[req[t].k] = NONE
  /\ CASE req[t].h \in {"urls", "types", "clusterize"} ->
            Goto(t, "newprivate") /\ UNCHANGED <<req, cur, fault>>
       [] req[t].h = "post" -> Goto(t, "newpost") /\ UNCHANGED <<req, cur, fault>>
       [] req[t].h = "title" -> fault' = "null" /\ UNCHANGED threadVars
       [] OTHER -> Return(t) /\ UNCHANGED fault
  /\ UNCHANGED <<ctxVars, active, ctxOwner, dust, sweepVars>>
-----------------------------------------------------------------------------
(* The context's mutex. *)

Locking == {"lock1", "lock2", "lock3"}

\* pthread_mutex_unlock on a default mutex does not look at the owner.
Unlock(o) == holder' = [holder EXCEPT ![o] = NONE]

\* reset_p2p_data deletes the snippets no search engine returned.
Reset(persf, c) == IF persf THEN c \ {"peer"} ELSE c
SetContent(o, c) == content' = [content EXCEPT ![o] = c]

BodyUnchanged == UNCHANGED <<alive, key, registered, stale, active, ctxOwner,
                             dust, sweepVars, fault>>

LockQc(t) ==
  LET o == cur[t] IN
  /\ At(t, Locking)
  /\ holder[o] = NONE
  /\ holder' = [holder EXCEPT ![o] = t]
  /\ Goto(t, CASE pc[t] = "lock1" -> "work1"
               [] pc[t] = "lock2" -> "work2"
               [] pc[t] = "lock3" -> "work3")
  /\ UNCHANGED <<req, cur, content>> /\ BodyUnchanged

-----------------------------------------------------------------------------
(* perform_websearch, once the context is locked. *)

\* generate() and the joined personalization thread fill the context.
Generate(t) ==
  LET o == cur[t] IN
  /\ At(t, {"work1"})
  /\ \E new \in SUBSET (IF req[t].persf THEN Kinds ELSE {"feed"}) :
       SetContent(o, content[o] \cup new)
  /\ Goto(t, "finish1")
  /\ UNCHANGED <<req, cur, holder>> /\ BodyUnchanged

\* Mutant: an early return of perform_websearch forgets the mutex.
GenerateFailsLocked(t) ==
  /\ At(t, {"work1"})
  /\ Return(t)
  /\ UNCHANGED <<content, holder>> /\ BodyUnchanged

\* A search that failed ends its handler; the neighbors of titles look the
\* context up before they see the error.
SearchFailed(t) == /\ IF req[t].h = "title" THEN Goto(t, "touch") /\ UNCHANGED req
                                            ELSE EndRequest(t)
                   /\ DropPointer(t)

\* Early returns.  Without personalization: any error of generate(), possibly
\* after the first result pages.  With it: the thread could not be created,
\* or the parameters were wrong, and then the mutex is released before the
\* personalization thread is joined.
GenerateFails(t) ==
  LET o == cur[t] IN
  /\ At(t, {"work1"})
  /\ IF req[t].persf
     THEN /\ UNCHANGED content
          /\ \/ SearchFailed(t)
             \/ BadParameters /\ Goto(t, "straggle") /\ UNCHANGED <<req, cur>>
     ELSE /\ \E new \in SUBSET {"feed"} : SetContent(o, content[o] \cup new)
          /\ SearchFailed(t)
  /\ Unlock(o)
  /\ BodyUnchanged

\* The personalization thread of such a request still uses the context.
Straggle(t) ==
  /\ At(t, {"straggle"})
  /\ \E new \in SUBSET {"peer"} : SetContent(cur[t], content[cur[t]] \cup new)
  /\ SearchFailed(t)
  /\ UNCHANGED holder /\ BodyUnchanged

\* The lookup of the neighbors of titles after a failed search: all it does is
\* to renew the time of the last use.
Touch(t) ==
  /\ Runs(t, {"touch"})
  /\ stale' = stale \ {active[req[t].k]}
  /\ Return(t)
  /\ UNCHANGED <<alive, key, registered, content, holder, active, ctxOwner, dust,
                 sweepVars, fault>>

\* Mutant: the mutex is released before an empty context is destroyed.
FinishSearchUnlocked(t) ==
  LET o == cur[t] IN
  /\ At(t, {"finish1"})
  /\ Unlock(o)
  /\ IF content[o] = {} THEN Goto(t, "undust1") /\ UNCHANGED <<req, cur>>
                        ELSE AfterSearch(t) /\ DropPointer(t)
  /\ UNCHANGED content /\ BodyUnchanged

\* Rendering, reset of the P2P data if this call rendered, and the end: an
\* empty context is destroyed, another one is unlocked.
FinishSearch(t) ==
  LET o == cur[t]
      c == Reset(req[t].persf /\ req[t].h = "search", content[o]) IN
  /\ At(t, {"finish1"})
  /\ SetContent(o, c)
  /\ IF c = {} THEN Goto(t, "undust1") /\ UNCHANGED <<req, cur, holder>>
               ELSE AfterSearch(t) /\ DropPointer(t) /\ Unlock(o)
  /\ BodyUnchanged

\* Mutant: the context is deleted without leaving the memory dust.
UndustForgotten(t) ==
  /\ Runs(t, {"undust1", "undust2", "undust3"})
  /\ Goto(t, "destroy1")
  /\ UNCHANGED <<req, cur, ctxVars, active, ctxOwner, dust, sweepVars, fault>>

\* sweeper::unregister_sweepable.
Undust(t) ==
  /\ Runs(t, {"undust1", "undust2", "undust3"})
  /\ sweepPc = "idle"
  /\ dust' = dust \ {cur[t]}
  /\ Goto(t, CASE pc[t] = "undust1" -> "destroy1"
               [] pc[t] = "undust2" -> "destroy2"
               [] pc[t] = "undust3" -> "destroy3")
  /\ UNCHANGED <<req, cur, ctxVars, active, ctxOwner, sweepVars, fault>>

\* Mutant: the destructor does not call unregister().
FreeRegistered(o) ==
  /\ alive' = alive \ {o}
  /\ registered' = registered \ {o}
  /\ key' = [key EXCEPT ![o] = NONE]
  /\ content' = [content EXCEPT ![o] = {}]
  /\ stale' = stale \ {o}
  /\ holder' = [holder EXCEPT ![o] = NONE]
  /\ cur' = [t \in Threads |-> IF cur[t] = o THEN NONE ELSE cur[t]]
  /\ UNCHANGED active

\* ~query_context: unregister() erases the entry of the context's key from
\* _active_qcontexts, whatever it points to, without _context_mutex.  The
\* pointers other threads hold to the context dangle from here on.
Free(o) ==
  /\ alive' = alive \ {o}
  /\ active' = IF o \in registered THEN [active EXCEPT ![key[o]] = NONE] ELSE active
  /\ registered' = registered \ {o}
  /\ key' = [key EXCEPT ![o] = NONE]
  /\ content' = [content EXCEPT ![o] = {}]
  /\ stale' = stale \ {o}
  /\ holder' = [holder EXCEPT ![o] = NONE]
  /\ cur' = [t \in Threads |-> IF cur[t] = o THEN NONE ELSE cur[t]]

Destroying == {"destroy1", "destroy2", "destroy3"}

DestroyQc(t) ==
  /\ At(t, Destroying)
  /\ Free(cur[t])
  /\ CASE pc[t] = "destroy1" -> AfterSearch(t)
       [] pc[t] = "destroy2" -> EndRequest(t)
       [] pc[t] = "destroy3" -> Goto(t, "lateunlock") /\ UNCHANGED req
  /\ UNCHANGED <<ctxOwner, dust, sweepVars, fault>>

-----------------------------------------------------------------------------
(* The bodies of the other handlers, once the context is locked. *)

Body(t, h) == At(t, {"work2"}) /\ req[t].h = h

\* Release the mutex and return, leaving content c.
Leave(t, c) == /\ SetContent(cur[t], c)
               /\ Unlock(cur[t])
               /\ Return(t)
               /\ BodyUnchanged

LeaveReset(t) == Leave(t, Reset(req[t].persf, content[cur[t]]))

\* An id that is missing or unknown makes no difference: reset and unlock.
SnippetBody(t) == Body(t, "snippet") /\ LeaveReset(t)
WordsBody(t) == Body(t, "words") /\ LeaveReset(t)

\* words_snippet returns without the reset when the snippet is unknown.
WordSnippetBody(t) ==
  Body(t, "wordsnippet") /\ (LeaveReset(t) \/ Leave(t, content[cur[t]]))

SimilarityBody(t) == Body(t, "similarity") /\ LeaveReset(t)
TitleBody(t) == Body(t, "title") /\ LeaveReset(t)

\* POST goes on in qc_redir with the url of the snippet, which looks the
\* context up once more; DELETE, and an unknown snippet, end here.
SelectBody(t) ==
  /\ Body(t, "select")
  /\ \/ LeaveReset(t)
     \/ /\ SetContent(cur[t], Reset(req[t].persf, content[cur[t]]))
        /\ Unlock(cur[t])
        /\ Goto(t, "lookup")
        /\ req' = [req EXCEPT ![t].h = "redir"]
        /\ DropPointer(t) /\ BodyUnchanged

\* Personalize, render, reset, unlock; the context stays even if nothing is
\* left in it.
SuggestionBody(t) ==
  Body(t, "suggestion") /\ Leave(t, Reset(TRUE, content[cur[t]]))
RecommendationBody(t) ==
  Body(t, "recommendation") /\ Leave(t, Reset(TRUE, content[cur[t]]))

\* Render, reset, and then as the end of perform_websearch.
LeaveOrDestroy(t) ==
  LET o == cur[t]
      c == Reset(req[t].persf, content[o]) IN
  IF c = {}
  THEN /\ SetContent(o, c)
       /\ Goto(t, "undust2")
       /\ UNCHANGED <<req, cur, holder>> /\ BodyUnchanged
  ELSE Leave(t, c)

UrlsBody(t) == Body(t, "urls") /\ LeaveOrDestroy(t)
TypesBody(t) == Body(t, "types") /\ LeaveOrDestroy(t)

\* clusterize: an empty context is unlocked after rendering, and the handler
\* goes on with it (ClusterizeRest).
ClusterizeBody(t) ==
  LET o == cur[t] IN
  /\ Body(t, "clusterize")
  /\ IF content[o] = {}
     THEN /\ Unlock(o)
          /\ Goto(t, "unlocked")
          /\ UNCHANGED <<req, cur, content>> /\ BodyUnchanged
     ELSE Leave(t, Reset(req[t].persf, content[o]))

ClusterizeRest(t) ==
  At(t, {"unlocked"}) /\ Leave(t, Reset(req[t].persf, content[cur[t]]))

\* search_cache: the mutex is released only if the cached page is found; a
\* page can only be cached in a snippet of a search engine.
CacheBody(t) ==
  LET o == cur[t] IN
  /\ Body(t, "cache")
  /\ \/ "feed" \in content[o] /\ Unlock(o)
     \/ UNCHANGED holder
  /\ Return(t)
  /\ UNCHANGED content /\ BodyUnchanged

\* recommendation_delete of an url: its snippet leaves the context.
DelUrlBody(t) ==
  /\ Body(t, "delurl")
  /\ \E c \in SUBSET content[cur[t]] : Leave(t, c)

\* recommendation_post in an existing context: the snippet it adds has no
\* engine.
PostBody(t) == Body(t, "post") /\ Leave(t, content[cur[t]] \cup {"peer"})

\* recommendation_post in the context it created: destroyed at once when the
\* url does not check, else after the record is stored; recommendation_post
\* then unlocks the mutex of the deleted context (label lateunlock, from which
\* only UseFreed is possible).
PostOwnBody(t) ==
  LET o == cur[t] IN
  /\ At(t, {"work3"})
  /\ \/ UNCHANGED content /\ Goto(t, "undust2")
     \/ SetContent(o, content[o] \cup {"peer"}) /\ Goto(t, "undust3")
  /\ UNCHANGED <<req, cur, holder>> /\ BodyUnchanged

\* qc_redir reads the context for the record it stores, without the mutex.
RedirUse(t) ==
  /\ At(t, {"use"})
  /\ Return(t)
  /\ UNCHANGED <<ctxVars, active, ctxOwner, dust, sweepVars, fault>>

\* render_cached_queries walks through the memory dust, without its mutex,
\* and locks one context after the other.
RecentNext(t) ==
  /\ Runs(t, {"recent"})
  /\ \/ Return(t)
     \/ /\ \E o \in dust : cur' = [cur EXCEPT ![t] = o]
        /\ Goto(t, "lock2") /\ UNCHANGED req
  /\ UNCHANGED <<ctxVars, active, ctxOwner, dust, sweepVars, fault>>

RecentBody(t) ==
  /\ Body(t, "recent")
  /\ Unlock(cur[t])
  /\ DropPointer(t)
  /\ Goto(t, "recent")
  /\ UNCHANGED <<req, content>> /\ BodyUnchanged

-----------------------------------------------------------------------------
(* The sweeper, and time. *)

\* _mem_dust_mutex is held from SweepBegin to SweepEnd: New and Undust wait.
SweepBegin ==
  /\ sweepPc = "idle" /\ fault = "none"
  /\ sweepPc' = "scan"
  /\ toVisit' = dust
  /\ UNCHANGED <<threadVars, ctxVars, active, ctxOwner, dust, victim, fault>>

\* Mutant: the iterator is not moved past a context that is not swept.
SweepSkipStuck(o) ==
  /\ sweepPc = "scan" /\ fault = "none" /\ o \in toVisit
  /\ holder[o] # NONE \/ o \notin stale
  /\ UNCHANGED vars

\* sweep_me answers no: the mutex is taken, or the context was used recently.
SweepSkip(o) ==
  /\ sweepPc = "scan" /\ fault = "none" /\ o \in toVisit
  /\ IF o \in alive
     THEN /\ holder[o] # NONE \/ o \notin stale
          /\ toVisit' = toVisit \ {o}
          /\ UNCHANGED <<threadVars, ctxVars, active, ctxOwner, dust, sweepPc,
                         victim, fault>>
     ELSE Fault("freed")

\* Mutant: sweep_me releases the mutex before it answers yes.
SweepTakeUnlocked(o) ==
  /\ sweepPc = "scan" /\ fault = "none" /\ o \in toVisit
  /\ o \in alive /\ holder[o] = NONE /\ o \in stale
  /\ dust' = dust \ {o}
  /\ toVisit' = toVisit \ {o}
  /\ victim' = o
  /\ sweepPc' = "delete"
  /\ UNCHANGED <<threadVars, ctxVars, active, ctxOwner, fault>>

\* sweep_me answers yes, keeping the mutex; the sweeper erases the context
\* from the dust, and then deletes it.
SweepTake(o) ==
  /\ sweepPc = "scan" /\ fault = "none" /\ o \in toVisit
  /\ o \in alive /\ holder[o] = NONE /\ o \in stale
  /\ holder' = [holder EXCEPT ![o] = Sweeper]
  /\ dust' = dust \ {o}
  /\ toVisit' = toVisit \ {o}
  /\ victim' = o
  /\ sweepPc' = "delete"
  /\ UNCHANGED <<threadVars, alive, key, registered, content, stale, active,
                 ctxOwner, fault>>

SweepDelete ==
  /\ sweepPc = "delete" /\ fault = "none"
  /\ IF victim \in alive
     THEN /\ Free(victim)
          /\ victim' = NONE
          /\ sweepPc' = "scan"
          /\ UNCHANGED <<pc, req, ctxOwner, dust, toVisit, fault>>
     ELSE Fault("freed")

SweepEnd ==
  /\ sweepPc = "scan" /\ fault = "none" /\ toVisit = {}
  /\ sweepPc' = "idle"
  /\ UNCHANGED <<threadVars, ctxVars, active, ctxOwner, dust, toVisit, victim, fault>>

\* _query_context_delay seconds passed since the last lookup.  They do not
\* pass between two instructions of a thread that is not blocked: a thread
\* that waits for the context's mutex is kept waiting by a holder.
Expire(o) ==
  /\ o \in alive /\ o \notin stale /\ fault = "none"
  /\ \A t \in Threads : cur[t] = o =>
       /\ pc[t] \in Locking => holder[o] # NONE
       /\ pc[t] # "register"
  /\ stale' = stale \cup {o}
  /\ UNCHANGED <<threadVars, alive, key, registered, content, holder, active,
                 ctxOwner, dust, sweepVars, fault>>

-----------------------------------------------------------------------------
\* The steps a request thread takes on its own.
ThreadStep(t) ==
  \/ UseFreed(t) \/ Catch(t) \/ CatchMiss(t) \/ New(t) \/ RegisterQc(t)
  \/ Lookup(t) \/ SimilarityNoId(t) \/ LookupMiss(t) \/ LockQc(t)
  \/ Generate(t) \/ GenerateFails(t) \/ Straggle(t) \/ Touch(t) \/ FinishSearch(t)
  \/ Undust(t) \/ DestroyQc(t)
  \/ SnippetBody(t) \/ WordsBody(t) \/ WordSnippetBody(t) \/ SimilarityBody(t)
  \/ TitleBody(t) \/ SelectBody(t) \/ SuggestionBody(t) \/ RecommendationBody(t)
  \/ UrlsBody(t) \/ TypesBody(t)
  \/ ClusterizeBody(t) \/ ClusterizeRest(t) \/ CacheBody(t) \/ DelUrlBody(t)
  \/ PostBody(t) \/ PostOwnBody(t) \/ RedirUse(t)
  \/ RecentNext(t) \/ RecentBody(t)

SweepStep == \/ SweepBegin \/ SweepDelete \/ SweepEnd
             \/ \E o \in Ctxs : SweepSkip(o) \/ SweepTake(o)

\* The end of what is modelled.
Halted == fault # "none" /\ UNCHANGED vars

Next ==
  \/ \E t \in Threads : Begin(t) \/ ThreadStep(t)
  \/ SweepStep
  \/ \E o \in Ctxs : Expire(o)
  \/ Halted

Spec == Init /\ [][Next]_vars

(***************************************************************************)
(* Fairness: a request thread that can go on does (POSIX threads, bounded  *)
(* network timeouts), and the main thread sweeps again and again, since    *)
(* listen_loop calls sweep before each accept.  Strong fairness for the    *)
(* two steps that need _mem_dust_mutex: between two sweeps the main thread *)
(* blocks in accept without the mutex, so a thread that waits for it gets  *)
(* it.  Nothing is assumed about who gets a context's mutex.               *)
(***************************************************************************)
FairSpec ==
  /\ Spec
  /\ \A t \in Threads : /\ WF_vars(ThreadStep(t))
                         /\ SF_vars(New(t)) /\ SF_vars(Undust(t))
  /\ WF_vars(SweepStep)

-----------------------------------------------------------------------------
(* Properties. *)

\* Every entry of _active_qcontexts points to a context that has not been
\* deleted, that is registered and that answers the entry's query: a lookup
\* never returns a dangling pointer (lookup_qc, register_qc, unregister).
ActiveIsLive ==
  \A k \in Keys : active[k] # NONE =>
    active[k] \in alive \cap registered /\ key[active[k]] = k

\* The labels between the lock of a context's mutex and its release or the
\* context's end.
Inside == {"work1", "finish1", "undust1", "destroy1", "work2", "work3",
           "undust2", "destroy2", "undust3", "destroy3"}

InsideIsLocked ==
  \A t \in Threads : pc[t] \in Inside => cur[t] \in alive /\ holder[cur[t]] = t

\* All the labels from which a step reads or changes what a context holds, or
\* destroys it: also behind the release of the mutex, and without it.
Working == Inside \cup {"unlocked", "straggle", "use", "lateunlock"}

\* A thread that reads or changes what a context holds, or is about to destroy
\* it, holds its mutex, so no two threads ever work on one context
\* (query_context.h:283).  It does not hold of qc_redir, clusterize and the
\* handlers of recommendations, nor when generate() refuses the parameters of
\* a personalized search.
WorkIsExclusive ==
  \A t \in Threads : pc[t] \in Working =>
    cur[t] \in alive /\ holder[cur[t]] = t

\* A context is only destroyed by whoever holds its mutex
\* (query_context.cpp:154).
DestroyedLocked ==
  [][\A o \in alive \ alive' :
       \/ holder[o] = Sweeper /\ victim = o
       \/ \E t \in Threads : /\ holder[o] = t /\ cur[t] = o
                             /\ pc[t] \in Destroying]_vars

\* What makes InsideIsLocked inductive when only locking handlers run: the
\* labels of the others are never reached, and a context that is being swept
\* belongs to the sweeper.
UndisciplinedLabels == {"newpost", "lock3", "work3", "unlocked", "undust3",
                        "destroy3", "lateunlock"}

LockingInv ==
  /\ InsideIsLocked
  /\ \A t \in Threads :
       /\ pc[t] \notin UndisciplinedLabels
       /\ pc[t] # "idle" => req[t].h \in LockingHandlers
       /\ pc[t] \in {"catch", "new", "register"} =>
            req[t].h \in SearchHandlers \cup CatchHandlers
  /\ sweepPc = "delete" => victim \in alive /\ holder[victim] = Sweeper

\* ... and WorkIsExclusive, when only disciplined handlers run and generate()
\* refuses no search.
DisciplineInv ==
  /\ LockingInv
  /\ \A t \in Threads :
       /\ pc[t] \notin {"straggle", "use"}
       /\ pc[t] # "idle" => req[t].h \in DisciplinedHandlers

\* Every context in the memory dust exists, and every context is in the dust
\* unless somebody is destroying it: none is swept twice and none leaks.
DustIsExact ==
  /\ dust \subseteq alive
  /\ \A o \in alive \ dust :
       \/ sweepPc = "delete" /\ victim = o
       \/ \E t \in Threads : pc[t] \in Destroying /\ cur[t] = o

\* What makes DustIsExact inductive: no thread points to a deleted context
\* unknowingly, a context about to be destroyed has left the dust, and the
\* dust does not change under the sweeper.
DustInv ==
  /\ DustIsExact
  /\ \A t \in Threads : cur[t] # NONE => cur[t] \in alive
  /\ \A t \in Threads : pc[t] \in Destroying => cur[t] \notin dust
  /\ sweepPc # "idle" => toVisit \subseteq dust
  /\ sweepPc = "delete" => /\ victim \in alive \ dust
                           /\ \A t \in Threads : pc[t] \in Destroying => cur[t] # victim

\* A context that believes itself registered is the one _active_qcontexts
\* holds for its query: one query has one context, and unregister() finds it.
RegisteredIsActive == \A o \in registered : active[key[o]] = o

\* Handlers that look a query up and register its context in one critical section
\* of _context_mutex; recommendation_post does without it.
RegisteringHandlers == AllHandlers \ {"post"}

\* What makes RegisteredIsActive inductive when only these run: who creates a context
\* holds the mutex, and there is none for its query in the meantime.
RegisteringInv ==
  /\ RegisteredIsActive
  /\ \A o \in registered : o \in alive /\ key[o] \in Keys
  /\ \A t \in Threads :
       /\ pc[t] # "newpost"
       /\ pc[t] # "idle" => req[t].h \in RegisteringHandlers
       /\ pc[t] \in {"new", "register"} => ctxOwner = t /\ active[req[t].k] = NONE
       /\ pc[t] = "register" => cur[t] = NONE \/ key[cur[t]] = req[t].k

\* The sweep loop ends, whatever the request threads hold: it only trylocks.
SweepEnds == sweepPc # "idle" ~> (sweepPc = "idle" \/ fault # "none")

\* A context that has not been used for the delay is reclaimed, unless it is
\* used again.
StaleIsReclaimed ==
  \A o \in Ctxs : o \in stale ~> (o \notin stale \/ fault # "none")

-----------------------------------------------------------------------------
(* What comments of the code say, and the code does not do. *)

\* websearch.cpp:1118: the context mutex lets simultaneous calls catch the
\* same context object; a caught context is there when its mutex is taken.
CaughtIsLive ==
  \A t \in Threads : pc[t] \in Locking => cur[t] \in alive

\* websearch.cpp:1399: after a websearch that returned SP_ERR_OK the second
\* lookup finds the context (`should never happen').
SecondLookupFinds ==
  \A t \in Threads : pc[t] = "lookup" /\ req[t].h = "snippet"
                       => active[req[t].k] # NONE
=============================================================================
