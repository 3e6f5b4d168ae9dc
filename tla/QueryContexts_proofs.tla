----------------------- MODULE QueryContexts_proofs -----------------------
(***************************************************************************)
(* Theorems about QueryContexts, for any number of threads, queries and    *)
(* addresses.                                                              *)
(***************************************************************************)
EXTENDS QueryContexts, TLAPS


\* The type invariant: every variable of the model stays in its type, and a
\* thread that serves a request has one.
THEOREM TypeCorrect == Spec => []TypeOK
<1> USE NamesAssumption, HandlersAssumption
<1>1. Init => TypeOK
  BY DEF Init, TypeOK, Labels
<1>2. TypeOK /\ [Next]_vars => TypeOK'
  <2> SUFFICES ASSUME TypeOK, [Next]_vars PROVE TypeOK'
    OBVIOUS
  <2>0. CASE UNCHANGED vars
    BY <2>0 DEF TypeOK, vars, threadVars, ctxVars, sweepVars
  <2>1. ASSUME NEW t \in Threads, Begin(t) PROVE TypeOK'
    BY <2>1 DEF TypeOK, Begin, Runs, Goto, Requests, Labels, ctxVars, sweepVars,
                SearchHandlers, CatchHandlers, LookupHandlers, AllHandlers
  <2>2. ASSUME NEW t \in Threads, ThreadStep(t) PROVE TypeOK'
    <3> USE DEF TypeOK, Runs, At, Goto, EndRequest, DropPointer, Return, ctxVars,
                sweepVars, threadVars, BodyUnchanged, Labels
    <3>1. CASE UseFreed(t)
      BY <3>1 DEF UseFreed, Fault
    <3>2. CASE Catch(t)
      BY <3>2 DEF Catch, LockLabel, Requests
    <3>3. CASE CatchMiss(t)
      BY <3>3 DEF CatchMiss
    <3>4. CASE New(t)
      BY <3>4 DEF New, Construct, Requests
    <3>5. CASE RegisterQc(t)
      BY <3>5 DEF RegisterQc, LockLabel
    <3>6. CASE Lookup(t)
      BY <3>6 DEF Lookup, Requests
    <3>7. CASE LookupMiss(t)
      BY <3>7 DEF LookupMiss
    <3>8. CASE LockQc(t)
      BY <3>8 DEF LockQc, Locking
    <3>a. ASSUME NEW o, NEW new, new \subseteq Kinds, SetContent(o, content[o] \cup new)
          PROVE  content' \in [Ctxs -> SUBSET Kinds]
      BY <3>a DEF SetContent
    <3>9. CASE Generate(t)
      <4>1. PICK new \in SUBSET Kinds : SetContent(cur[t], content[cur[t]] \cup new)
        BY <3>9 DEF Generate, Kinds
      <4> QED
        BY <3>9, <3>a, <4>1 DEF Generate
    <3>10. CASE GenerateFails(t)
      <4> USE DEF SearchFailed
      <4>1. UNCHANGED content \/
              \E new \in SUBSET Kinds : SetContent(cur[t], content[cur[t]] \cup new)
        BY <3>10 DEF GenerateFails, Kinds
      <4>2. content' \in [Ctxs -> SUBSET Kinds]
        BY <3>a, <4>1
      <4> QED
        BY <3>10, <4>2, ZenonT(30) DEF GenerateFails, Unlock
    <3>11. CASE Straggle(t)
      <4>1. PICK new \in SUBSET Kinds : SetContent(cur[t], content[cur[t]] \cup new)
        BY <3>11 DEF Straggle, Kinds
      <4> QED
        BY <3>11, <3>a, <4>1 DEF Straggle, SearchFailed
    <3>12. CASE FinishSearch(t)
      BY <3>12 DEF FinishSearch, Reset, SetContent, AfterSearch, Unlock
    <3>13. CASE Undust(t)
      BY <3>13 DEF Undust
    <3>14. CASE DestroyQc(t)
      BY <3>14, ZenonT(30) DEF DestroyQc, Destroying, Free, AfterSearch
    <3>15. CASE \/ SnippetBody(t) \/ WordsBody(t) \/ WordSnippetBody(t)
                \/ SimilarityBody(t) \/ TitleBody(t) \/ SuggestionBody(t)
                \/ RecommendationBody(t)
      <4>1. PICK c \in SUBSET Kinds : Leave(t, c)
        BY <3>15 DEF SnippetBody, WordsBody, WordSnippetBody, SimilarityBody,
             TitleBody, SuggestionBody, RecommendationBody, Body, LeaveReset, Reset
      <4> QED
        BY <4>1 DEF Leave, SetContent, Unlock
    <3>16. CASE UrlsBody(t) \/ TypesBody(t)
      BY <3>16 DEF UrlsBody, TypesBody, LeaveOrDestroy, Body, Leave, Reset,
           SetContent, Unlock
    <3>26. CASE SelectBody(t)
      <4>1. content' \in [Ctxs -> SUBSET Kinds]
        BY <3>26 DEF SelectBody, Body, LeaveReset, Leave, Reset, SetContent
      <4>2. req[t] \in Requests /\ [req[t] EXCEPT !.h = "redir"] \in Requests
        BY <3>26 DEF SelectBody, Body, Requests, AllHandlers, LookupHandlers
      <4> QED
        BY <3>26, <4>1, <4>2 DEF SelectBody, Body, LeaveReset, Leave, Unlock
    <3>27. CASE SimilarityNoId(t) \/ Touch(t)
      BY <3>27 DEF SimilarityNoId, Touch
    <3>17. CASE ClusterizeBody(t)
      BY <3>17 DEF ClusterizeBody, Body, Leave, Reset, SetContent, Unlock
    <3>18. CASE ClusterizeRest(t)
      BY <3>18 DEF ClusterizeRest, Leave, Reset, SetContent, Unlock
    <3>19. CASE CacheBody(t)
      BY <3>19 DEF CacheBody, Body, Unlock
    <3>b. {"peer"} \subseteq Kinds
      BY DEF Kinds
    <3>20. CASE DelUrlBody(t)
      BY <3>20 DEF DelUrlBody, Body, Leave, SetContent, Unlock
    <3>25. CASE PostBody(t)
      <4>1. content' \in [Ctxs -> SUBSET Kinds]
        BY <3>25, <3>b DEF PostBody, Leave, SetContent
      <4> QED
        BY <3>25, <4>1 DEF PostBody, Body, Leave, Unlock
    <3>21. CASE PostOwnBody(t)
      <4>1. UNCHANGED content \/ SetContent(cur[t], content[cur[t]] \cup {"peer"})
        BY <3>21 DEF PostOwnBody
      <4>2. content' \in [Ctxs -> SUBSET Kinds]
        BY <3>b, <4>1 DEF SetContent
      <4> QED
        BY <3>21, <4>2 DEF PostOwnBody
    <3>22. CASE RedirUse(t)
      BY <3>22 DEF RedirUse
    <3>23. CASE RecentNext(t)
      BY <3>23 DEF RecentNext
    <3>24. CASE RecentBody(t)
      BY <3>24 DEF RecentBody, Body, Unlock
    <3> QED
      BY <2>2, <3>1, <3>2, <3>3, <3>4, <3>5, <3>6, <3>7, <3>8, <3>9, <3>10,
         <3>11, <3>12, <3>13, <3>14, <3>15, <3>16, <3>17, <3>18, <3>19, <3>20,
         <3>21, <3>22, <3>23, <3>24, <3>25, <3>26, <3>27
         DEF ThreadStep
  <2>3. CASE SweepStep
    <3> USE DEF TypeOK, threadVars, ctxVars, sweepVars
    <3>1. CASE SweepBegin \/ SweepEnd
      BY <3>1 DEF SweepBegin, SweepEnd
    <3>2. CASE SweepDelete
      BY <3>2 DEF SweepDelete, Free, Fault
    <3>3. ASSUME NEW o \in Ctxs, SweepSkip(o) \/ SweepTake(o) PROVE TypeOK'
      BY <3>3 DEF SweepSkip, SweepTake, Fault
    <3> QED
      BY <2>3, <3>1, <3>2, <3>3 DEF SweepStep
  <2>4. ASSUME NEW o \in Ctxs, Expire(o) PROVE TypeOK'
    BY <2>4 DEF TypeOK, Expire, threadVars, sweepVars
  <2>5. CASE Halted
    BY <2>5, <2>0 DEF Halted
  <2> QED
    BY <2>0, <2>1, <2>2, <2>3, <2>4, <2>5 DEF Next
<1> QED
  BY <1>1, <1>2, PTL DEF Spec

-----------------------------------------------------------------------------
\* The contexts an active entry can point to, step by step: an action that
\* leaves the registry and the contexts' identity alone keeps ActiveIsLive.
LEMMA SameRegistry ==
  ASSUME ActiveIsLive, UNCHANGED <<active, alive, registered, key>>
  PROVE  ActiveIsLive'
  BY DEF ActiveIsLive

\* Deleting a context leaves no entry that points to it.
LEMMA FreeKeepsRegistry ==
  ASSUME TypeOK, ActiveIsLive, NEW o \in Ctxs, Free(o)
  PROVE  ActiveIsLive'
  BY NamesAssumption DEF TypeOK, ActiveIsLive, Free

\* A lookup never returns a context that has been deleted, whatever handlers
\* run, with or without the mutexes they should hold.
THEOREM RegistrySafe == Spec => []ActiveIsLive
<1>1. Init => ActiveIsLive
  BY DEF Init, ActiveIsLive
<1>2. TypeOK /\ ActiveIsLive /\ [Next]_vars => ActiveIsLive'
  <2> SUFFICES ASSUME TypeOK, ActiveIsLive, [Next]_vars PROVE ActiveIsLive'
    OBVIOUS
  <2> USE DEF ctxVars
  <2>0. CASE UNCHANGED vars
    BY <2>0, SameRegistry DEF vars
  <2>1. ASSUME NEW t \in Threads, Begin(t) PROVE ActiveIsLive'
    BY <2>1, SameRegistry DEF Begin
  <2>2. ASSUME NEW t \in Threads, New(t) PROVE ActiveIsLive'
    BY <2>2 DEF New, Construct, ActiveIsLive, TypeOK
  <2>3. ASSUME NEW t \in Threads, RegisterQc(t) PROVE ActiveIsLive'
    BY <2>3, NamesAssumption DEF RegisterQc, At, ActiveIsLive, TypeOK
  <2>4. ASSUME NEW t \in Threads, DestroyQc(t) PROVE ActiveIsLive'
    BY <2>4, FreeKeepsRegistry DEF DestroyQc, At, TypeOK
  <2>5. ASSUME NEW t \in Threads, ThreadStep(t), ~New(t), ~RegisterQc(t), ~DestroyQc(t)
        PROVE  ActiveIsLive'
    <3>1. UNCHANGED <<active, alive, registered, key>>
      BY <2>5 DEF ThreadStep, UseFreed, Fault, Catch, CatchMiss, Lookup, LookupMiss,
           LockQc, Generate, GenerateFails, Straggle, SearchFailed, Touch, FinishSearch, Undust,
           SnippetBody, WordsBody, WordSnippetBody,
           SimilarityBody, TitleBody, SelectBody, SuggestionBody,
           RecommendationBody, UrlsBody, TypesBody, LeaveReset, LeaveOrDestroy,
           SimilarityNoId, ClusterizeBody,
           ClusterizeRest, CacheBody, DelUrlBody, PostBody, PostOwnBody,
           RedirUse, RecentNext, RecentBody, Leave, BodyUnchanged
    <3> QED
      BY <3>1, SameRegistry
  <2>6. CASE SweepStep
    <3>1. CASE SweepDelete
      <4>1. CASE victim \in alive
        BY <3>1, <4>1, FreeKeepsRegistry DEF SweepDelete, TypeOK
      <4>2. CASE victim \notin alive
        BY <3>1, <4>2, SameRegistry DEF SweepDelete, Fault
      <4> QED
        BY <4>1, <4>2
    <3>2. CASE SweepBegin \/ SweepEnd \/ \E o \in Ctxs : SweepSkip(o) \/ SweepTake(o)
      BY <3>2, SameRegistry DEF SweepBegin, SweepEnd, SweepSkip, SweepTake, Fault
    <3> QED
      BY <2>6, <3>1, <3>2 DEF SweepStep
  <2>7. ASSUME NEW o \in Ctxs, Expire(o) PROVE ActiveIsLive'
    BY <2>7, SameRegistry DEF Expire
  <2>8. CASE Halted
    BY <2>0, <2>8 DEF Halted
  <2> QED
    BY <2>0, <2>1, <2>2, <2>3, <2>4, <2>5, <2>6, <2>7, <2>8 DEF Next
<1> QED
  BY <1>1, <1>2, TypeCorrect, PTL DEF Spec
-----------------------------------------------------------------------------
\* A step that leaves the dust, the contexts and every pointer alone, and in
\* which no thread enters or leaves a destruction, keeps DustInv.
LEMMA SameDust ==
  ASSUME DustInv, UNCHANGED <<alive, dust, sweepVars>>,
         \A t \in Threads : cur'[t] # NONE => cur'[t] \in alive,
         \A t \in Threads : (pc[t] \in Destroying \/ pc'[t] \in Destroying) =>
                               pc'[t] = pc[t] /\ cur'[t] = cur[t]
  PROVE  DustInv'
  BY DEF DustInv, DustIsExact, sweepVars

\* No thread unknowingly points to a deleted context, and what is about to be destroyed
\* has left the dust, whatever handlers run.
LEMMA DustKept == Spec => []DustInv
<1>1. Init => DustInv
  BY DEF Init, DustInv, DustIsExact, Destroying
<1>2. TypeOK /\ ActiveIsLive /\ DustInv /\ [Next]_vars => DustInv'
  <2> SUFFICES ASSUME TypeOK, ActiveIsLive, DustInv, [Next]_vars PROVE DustInv'
    OBVIOUS
  <2> USE NamesAssumption
  <2>0. CASE UNCHANGED vars
    BY <2>0 DEF vars, threadVars, ctxVars, sweepVars, DustInv, DustIsExact
  <2>1. ASSUME NEW t \in Threads, Begin(t) PROVE DustInv'
    <3>1. \A u \in Threads : cur'[u] = cur[u] /\ (pc'[u] # pc[u] =>
             pc[u] \notin Destroying /\ pc'[u] \notin Destroying)
      BY <2>1, HandlersAssumption DEF Begin, Runs, Goto, TypeOK, Destroying,
           SearchHandlers, CatchHandlers, LookupHandlers, AllHandlers
    <3> QED
      BY <2>1, <3>1, SameDust DEF Begin, DustInv, ctxVars
  <2>2. ASSUME NEW t \in Threads, New(t) PROVE DustInv'
    <3>1. PICK o \in Ctxs \ alive : Construct(o, req[t].k) /\ cur' = [cur EXCEPT ![t] = o]
      BY <2>2 DEF New
    <3>2. pc'[t] \notin Destroying /\ pc[t] \notin Destroying /\ sweepPc = "idle"
          /\ UNCHANGED sweepVars /\ \A u \in Threads : u # t => pc'[u] = pc[u]
      BY <2>2 DEF New, Runs, Goto, TypeOK, Destroying
    <3> QED
      BY <3>1, <3>2 DEF Construct, DustInv, DustIsExact, TypeOK, sweepVars
  <2>3. ASSUME NEW t \in Threads, Undust(t) PROVE DustInv'
    <3>1. pc'[t] \in Destroying /\ pc[t] \notin Destroying /\ sweepPc = "idle"
          /\ UNCHANGED <<sweepVars, cur, alive>> /\ \A u \in Threads : u # t => pc'[u] = pc[u]
      BY <2>3 DEF Undust, Runs, Goto, TypeOK, Destroying, ctxVars
    <3> QED
      BY <2>3, <3>1 DEF Undust, DustInv, DustIsExact, TypeOK, sweepVars
  <2>4. ASSUME NEW t \in Threads, DestroyQc(t) PROVE DustInv'
    <3>1. pc'[t] \notin Destroying /\ pc[t] \in Destroying
          /\ UNCHANGED <<sweepVars, dust>> /\ \A u \in Threads : u # t => pc'[u] = pc[u]
      BY <2>4 DEF DestroyQc, At, Runs, Goto, TypeOK, Destroying, AfterSearch, EndRequest
    <3>2. cur[t] \in alive /\ alive' = alive \ {cur[t]}
          /\ \A u \in Threads : cur'[u] = IF cur[u] = cur[t] THEN NONE ELSE cur[u]
      BY <2>4 DEF DestroyQc, At, Free
    <3>3. cur[t] \notin dust
      BY <3>1 DEF DustInv
    <3>4. ~(sweepPc = "delete" /\ victim = cur[t])
      BY <3>1 DEF DustInv
    <3> QED
      BY <3>1, <3>2, <3>3, <3>4 DEF DustInv, DustIsExact, TypeOK, sweepVars
  <2>5. ASSUME NEW t \in Threads, ThreadStep(t), ~New(t), ~Undust(t), ~DestroyQc(t)
        PROVE  DustInv'
    <3>1. UNCHANGED <<alive, dust, sweepVars>>
      BY <2>5 DEF ThreadStep, UseFreed, Fault, Catch, CatchMiss, RegisterQc, Lookup, LookupMiss,
           LockQc, Generate, GenerateFails, Straggle, SearchFailed, Touch, FinishSearch,
           SnippetBody, WordsBody, WordSnippetBody,
           SimilarityBody, TitleBody, SelectBody, SuggestionBody,
           RecommendationBody, UrlsBody, TypesBody, LeaveReset, LeaveOrDestroy,
           SimilarityNoId, ClusterizeBody,
           ClusterizeRest, CacheBody, DelUrlBody, PostBody, PostOwnBody,
           RedirUse, RecentNext, RecentBody, Leave, BodyUnchanged,
           ctxVars, sweepVars
    <3>2. /\ \A u \in Threads \ {t} : pc'[u] = pc[u] /\ cur'[u] = cur[u]
          /\ cur'[t] \in alive \cup {NONE}
          /\ pc'[t] # pc[t] \/ cur'[t] # cur[t] => pc[t] \notin Destroying /\ pc'[t] \notin Destroying
      <4> USE DEF TypeOK, Runs, At, Goto, EndRequest, DropPointer, Return,
                threadVars, BodyUnchanged, Destroying, DustInv
      <4>1. CASE UseFreed(t) \/ Catch(t) \/ CatchMiss(t)
        BY <2>5, <4>1 DEF UseFreed, Fault, Catch, CatchMiss, ActiveIsLive, LockLabel, Requests, SearchHandlers
      <4>2. CASE RegisterQc(t) \/ Lookup(t)
        BY <2>5, <4>2 DEF RegisterQc, Lookup, ActiveIsLive, LockLabel, Requests
      <4>3. CASE LookupMiss(t) \/ LockQc(t)
        BY <2>5, <4>3 DEF LookupMiss, LockQc, Locking
      <4>4. CASE Generate(t) \/ GenerateFails(t) \/ Straggle(t) \/ Touch(t) \/ FinishSearch(t)
        BY <2>5, <4>4 DEF Generate, GenerateFails, Straggle, SearchFailed, Touch, FinishSearch,
             AfterSearch
      <4>5. CASE \/ SnippetBody(t) \/ WordsBody(t) \/ WordSnippetBody(t)
                 \/ SimilarityBody(t) \/ TitleBody(t) \/ SuggestionBody(t)
                 \/ RecommendationBody(t)
        BY <2>5, <4>5, ZenonT(30) DEF SnippetBody, WordsBody, WordSnippetBody, SimilarityBody,
             TitleBody, SuggestionBody, RecommendationBody, Body, LeaveReset, Leave
      <4>8. CASE UrlsBody(t) \/ TypesBody(t) \/ SelectBody(t) \/ SimilarityNoId(t)
        BY <2>5, <4>8 DEF UrlsBody, TypesBody, SelectBody, SimilarityNoId,
             LeaveOrDestroy, Body, LeaveReset, Leave
      <4>6. CASE ClusterizeBody(t) \/ ClusterizeRest(t) \/ CacheBody(t) \/ DelUrlBody(t)
                 \/ PostBody(t) \/ PostOwnBody(t) \/ RedirUse(t)
        BY <2>5, <4>6 DEF ClusterizeBody, ClusterizeRest, CacheBody, DelUrlBody,
             PostBody, PostOwnBody, RedirUse, Body, Leave
      <4>7. CASE RecentNext(t) \/ RecentBody(t)
        BY <2>5, <4>7 DEF RecentNext, RecentBody, Body, DustIsExact
      <4> QED
        BY <2>5, <4>1, <4>2, <4>3, <4>4, <4>5, <4>6, <4>7, <4>8 DEF ThreadStep
    <3> QED
      BY <3>1, <3>2, SameDust DEF DustInv
  <2>6. CASE SweepStep
    <3>1. CASE SweepDelete
      <4>1. victim \in alive /\ Free(victim) /\ UNCHANGED <<pc, dust, toVisit>> /\ sweepPc' = "scan"
        BY <2>6, <3>1 DEF SweepDelete, DustInv
      <4> QED
        BY <3>1, <4>1 DEF Free, SweepDelete, DustInv, DustIsExact, TypeOK
    <3>2. CASE SweepBegin \/ SweepEnd
      BY <3>2 DEF SweepBegin, SweepEnd, DustInv, DustIsExact, threadVars, ctxVars
    <3>3. ASSUME NEW o \in Ctxs, SweepSkip(o) PROVE DustInv'
      BY <3>3 DEF SweepSkip, DustInv, DustIsExact, threadVars, ctxVars, Fault, sweepVars
    <3>4. ASSUME NEW o \in Ctxs, SweepTake(o) PROVE DustInv'
      BY <3>4 DEF SweepTake, DustInv, DustIsExact, threadVars, ctxVars
    <3> QED
      BY <2>6, <3>1, <3>2, <3>3, <3>4 DEF SweepStep
  <2>7. ASSUME NEW o \in Ctxs, Expire(o) PROVE DustInv'
    BY <2>7 DEF Expire, DustInv, DustIsExact, threadVars, sweepVars
  <2>8. CASE Halted
    BY <2>0, <2>8 DEF Halted
  <2> QED
    BY <2>0, <2>1, <2>2, <2>3, <2>4, <2>5, <2>6, <2>7, <2>8 DEF Next
<1> QED
  BY <1>1, <1>2, TypeCorrect, RegistrySafe, PTL DEF Spec

\* Nothing in the dust is ever freed, and nothing alive is outside of it but
\* what is being destroyed: no context is swept twice and none leaks,
\* whatever handlers run.
THEOREM DustSafe == Spec => []DustIsExact
<1>1. DustInv => DustIsExact
  BY DEF DustInv
<1> QED
  BY <1>1, DustKept, PTL
-----------------------------------------------------------------------------
\* Thread t, which holds the mutex of every context it is inside of, moves;
\* it enters a context only with its mutex, and no other thread's mutex is
\* touched.
LEMMA OneMoves ==
  ASSUME TypeOK, LockingInv, NEW t \in Threads,
         UNCHANGED <<alive, sweepVars>>,
         \A u \in Threads \ {t} :
           pc'[u] = pc[u] /\ cur'[u] = cur[u] /\ req'[u] = req[u],
         \A o \in alive : holder'[o] # holder[o] => holder[o] \in {NONE, t},
         pc'[t] \in Inside => cur'[t] \in alive /\ holder'[cur'[t]] = t,
         pc'[t] \notin UndisciplinedLabels,
         pc'[t] # "idle" => req'[t].h \in LockingHandlers,
         pc'[t] \in {"catch", "new", "register"} =>
           req'[t].h \in SearchHandlers \cup CatchHandlers
  PROVE  LockingInv'
  <1>1. InsideIsLocked'
    BY NamesAssumption DEF LockingInv, InsideIsLocked
  <1>2. (sweepPc = "delete" => victim \in alive /\ holder[victim] = Sweeper)'
    BY NamesAssumption DEF LockingInv, sweepVars
  <1> QED
    BY <1>1, <1>2 DEF LockingInv

\* Deleting a context does not disturb the threads inside other contexts.
LEMMA FreeKeepsOthers ==
  ASSUME TypeOK, InsideIsLocked, NEW o \in Ctxs, Free(o),
         NEW u \in Threads, pc'[u] \in Inside, pc'[u] = pc[u], holder[o] # u
  PROVE  cur'[u] \in alive' /\ holder'[cur'[u]] = u
  BY DEF TypeOK, InsideIsLocked, Free

\* LockingInv holds initially and every step of locking handlers and of
\* the sweeper keeps it.
LEMMA LockingInductive ==
  ASSUME Handlers \subseteq LockingHandlers
  PROVE  /\ Init => LockingInv
         /\ TypeOK /\ LockingInv /\ [Next]_vars => LockingInv'
<1>1. Init => LockingInv
  BY DEF Init, LockingInv, InsideIsLocked, Inside, UndisciplinedLabels
<1>2. ASSUME TypeOK, LockingInv, [Next]_vars PROVE LockingInv'
  <2> USE NamesAssumption, <1>2
  <2>0. CASE UNCHANGED vars
    BY <2>0 DEF vars, threadVars, ctxVars, sweepVars, LockingInv, InsideIsLocked
  <2>1. ASSUME NEW t \in Threads, Begin(t) PROVE LockingInv'
    <3>1. /\ pc'[t] \in {"catch", "lookup", "recent"}
          /\ req'[t].h \in LockingHandlers
          /\ pc'[t] = "catch" => req'[t].h \in SearchHandlers \cup CatchHandlers
          /\ \A u \in Threads \ {t} :
               pc'[u] = pc[u] /\ cur'[u] = cur[u] /\ req'[u] = req[u]
          /\ UNCHANGED <<alive, sweepVars, holder>>
      BY <2>1, HandlersAssumption DEF Begin, Goto, TypeOK, ctxVars,
           SearchHandlers, CatchHandlers, LookupHandlers, AllHandlers
    <3> QED
      BY <3>1, OneMoves DEF Inside, UndisciplinedLabels
  <2>2. ASSUME NEW t \in Threads, ThreadStep(t) PROVE LockingInv'
    <3> USE DEF TypeOK, Runs, At, Goto, EndRequest, DropPointer, Return, threadVars,
                ctxVars, BodyUnchanged
    <3>1. CASE UseFreed(t)
      BY <3>1, <2>0 DEF UseFreed, Fault, LockingInv, InsideIsLocked, sweepVars
    <3>2. CASE Catch(t) \/ CatchMiss(t)
      BY <3>2, OneMoves DEF Catch, CatchMiss, LockLabel, LockingInv, Inside,
           UndisciplinedLabels
    <3>3. CASE New(t)
      <4>1. PICK o \in Ctxs \ alive :
                Construct(o, req[t].k) /\ cur' = [cur EXCEPT ![t] = o]
        BY <3>3 DEF New
      <4>2. /\ pc'[t] \in {"lock2", "register"} /\ req' = req
            /\ pc'[t] = "register" => pc[t] = "new"
            /\ pc[t] \in {"new", "newprivate"}
            /\ \A u \in Threads \ {t} : pc'[u] = pc[u]
            /\ UNCHANGED sweepVars
        BY <3>3 DEF New, LockingInv, UndisciplinedLabels
      <4>3. InsideIsLocked'
        BY <4>1, <4>2 DEF Construct, LockingInv, InsideIsLocked, Inside
      <4>4. (sweepPc = "delete" => victim \in alive /\ holder[victim] = Sweeper)'
        BY <4>1, <4>2 DEF Construct, LockingInv, sweepVars
      <4> QED
        BY <4>2, <4>3, <4>4 DEF LockingInv, UndisciplinedLabels
    <3>4. CASE RegisterQc(t)
      BY <3>4, OneMoves DEF RegisterQc, LockLabel, LockingInv, Inside,
           UndisciplinedLabels
    <3>5. CASE Lookup(t)
      BY <3>5, OneMoves DEF Lookup, LockingInv, LockingHandlers, Inside,
           UndisciplinedLabels
    <3>6. CASE LookupMiss(t)
      <4>1. CASE req[t].h = "title"
        BY <3>6, <4>1, <2>0 DEF LookupMiss, LockingInv, InsideIsLocked, sweepVars
      <4>2. CASE req[t].h # "title"
        BY <3>6, <4>2, OneMoves DEF LookupMiss, LockingInv, LockingHandlers,
             Inside, UndisciplinedLabels
      <4> QED
        BY <4>1, <4>2
    <3>7. CASE LockQc(t)
      BY <3>7, OneMoves DEF LockQc, Locking, LockingInv, Inside, UndisciplinedLabels
    <3>8. CASE Generate(t)
      BY <3>8, OneMoves DEF Generate, LockingInv, InsideIsLocked, Inside,
           UndisciplinedLabels
    <3>9. CASE GenerateFails(t) \/ Straggle(t) \/ Touch(t)
      BY <3>9, OneMoves DEF GenerateFails, Straggle, SearchFailed, Touch, Unlock, LockingInv,
           InsideIsLocked, Inside, UndisciplinedLabels
    <3>10. CASE FinishSearch(t)
      BY <3>10, OneMoves DEF FinishSearch, AfterSearch, Unlock, LockingInv,
           InsideIsLocked, Inside, UndisciplinedLabels
    <3>11. CASE Undust(t)
      BY <3>11, OneMoves DEF Undust, LockingInv, InsideIsLocked, Inside,
           UndisciplinedLabels
    <3>12. CASE DestroyQc(t)
      <4>1. /\ cur[t] \in alive /\ holder[cur[t]] = t /\ Free(cur[t])
            /\ pc'[t] \in {"idle", "lookup"} /\ req'[t] \in {req[t], NONE}
            /\ pc[t] # "idle" /\ (pc'[t] = "lookup" => req'[t] = req[t])
            /\ \A u \in Threads \ {t} : pc'[u] = pc[u] /\ req'[u] = req[u]
            /\ UNCHANGED sweepVars
        BY <3>12, ZenonT(30) DEF DestroyQc, Destroying, AfterSearch, LockingInv,
             InsideIsLocked, Inside, UndisciplinedLabels
      <4>2. InsideIsLocked'
        BY <4>1, FreeKeepsOthers DEF LockingInv, InsideIsLocked, Inside
      <4>3. (sweepPc = "delete" => victim \in alive /\ holder[victim] = Sweeper)'
        BY <4>1 DEF Free, LockingInv, sweepVars
      <4> QED
        BY <4>1, <4>2, <4>3 DEF LockingInv, UndisciplinedLabels
    <3>13. CASE \/ SnippetBody(t) \/ WordsBody(t) \/ WordSnippetBody(t)
                \/ SimilarityBody(t) \/ TitleBody(t) \/ SuggestionBody(t)
                \/ RecommendationBody(t) \/ DelUrlBody(t)
      <4>1. At(t, {"work2"}) /\ Unlock(cur[t]) /\ Return(t) /\ BodyUnchanged
        BY <3>13 DEF SnippetBody, WordsBody, WordSnippetBody, SimilarityBody, TitleBody,
             SuggestionBody, RecommendationBody, DelUrlBody, Body, LeaveReset, Leave
      <4> QED
        BY <4>1, OneMoves DEF Unlock, LockingInv, InsideIsLocked, Inside,
             UndisciplinedLabels
    <3>14. CASE UrlsBody(t) \/ TypesBody(t)
      BY <3>14, OneMoves DEF UrlsBody, TypesBody, LeaveOrDestroy, Body, Leave, Unlock,
           LockingInv, InsideIsLocked, Inside, UndisciplinedLabels
    <3>18. CASE SelectBody(t)
      <4>1. pc'[t] = "lookup" => req'[t].h = "redir"
        BY <3>18 DEF SelectBody, LeaveReset, Leave, Body, Requests
      <4>2. "redir" \in LockingHandlers
        BY DEF LockingHandlers, AllHandlers, LookupHandlers
      <4> QED
        BY <3>18, <4>1, <4>2, OneMoves DEF SelectBody, LeaveReset, Leave, Body, Unlock,
             LockingInv, InsideIsLocked, Inside, UndisciplinedLabels
    <3>19. CASE SimilarityNoId(t)
      BY <3>19, OneMoves DEF SimilarityNoId, LockingInv, Inside, UndisciplinedLabels
    <3>15. CASE CacheBody(t) \/ RedirUse(t)
      BY <3>15, OneMoves DEF CacheBody, RedirUse, Body, Unlock, LockingInv,
           InsideIsLocked, Inside, UndisciplinedLabels
    <3>16. CASE RecentNext(t) \/ RecentBody(t)
      BY <3>16, OneMoves DEF RecentNext, RecentBody, Body, Unlock, LockingInv,
           InsideIsLocked, Inside, UndisciplinedLabels
    <3>17. CASE \/ ClusterizeBody(t) \/ ClusterizeRest(t) \/ PostBody(t)
                \/ PostOwnBody(t)
      BY <3>17 DEF ClusterizeBody, ClusterizeRest, PostBody, PostOwnBody, Body, LockingInv, LockingHandlers, UndisciplinedLabels
    <3> QED
      BY <2>2, <3>1, <3>2, <3>3, <3>4, <3>5, <3>6, <3>7, <3>8, <3>9, <3>10, <3>11,
         <3>12, <3>13, <3>14, <3>15, <3>16, <3>17, <3>18, <3>19 DEF ThreadStep
  <2>3. CASE SweepStep
    <3> USE DEF threadVars, ctxVars, LockingInv, InsideIsLocked
    <3>1. CASE SweepBegin \/ SweepEnd
      BY <3>1 DEF SweepBegin, SweepEnd
    <3>2. CASE SweepDelete
      <4>1. /\ victim \in alive /\ holder[victim] = Sweeper /\ Free(victim)
            /\ UNCHANGED <<pc, req>> /\ sweepPc' = "scan"
        BY <3>2 DEF SweepDelete
      <4>2. InsideIsLocked'
        BY <4>1, FreeKeepsOthers DEF TypeOK
      <4> QED
        BY <4>1, <4>2
    <3>3. ASSUME NEW o \in Ctxs, SweepSkip(o) PROVE LockingInv'
      BY <3>3 DEF SweepSkip, Fault, sweepVars
    <3>4. ASSUME NEW o \in Ctxs, SweepTake(o) PROVE LockingInv'
      BY <3>4 DEF SweepTake, TypeOK
    <3> QED
      BY <2>3, <3>1, <3>2, <3>3, <3>4 DEF SweepStep
  <2>4. ASSUME NEW o \in Ctxs, Expire(o) PROVE LockingInv'
    BY <2>4 DEF Expire, LockingInv, InsideIsLocked, threadVars, sweepVars
  <2>5. CASE Halted
    BY <2>0, <2>5 DEF Halted
  <2> QED
    BY <2>0, <2>1, <2>2, <2>3, <2>4, <2>5, <1>2 DEF Next
<1> QED
  BY <1>1, <1>2

\* DisciplineInv holds initially and every step of disciplined handlers and of
\* the sweeper keeps it: no thread reaches the personalization that outlives
\* the mutex, nor qc_redir.
LEMMA DisciplineInductive ==
  ASSUME Handlers \subseteq DisciplinedHandlers, ~BadParameters
  PROVE  /\ Init => DisciplineInv
         /\ TypeOK /\ DisciplineInv /\ [Next]_vars => DisciplineInv'
<1> DisciplinedHandlers \subseteq LockingHandlers
  BY DEF DisciplinedHandlers
<1>1. Init => DisciplineInv
  BY LockingInductive DEF Init, DisciplineInv
<1>2. ASSUME TypeOK, DisciplineInv, [Next]_vars PROVE DisciplineInv'
  <2>0. LockingInv'
    BY <1>2, LockingInductive DEF DisciplineInv
  <2>1. ASSUME NEW t \in Threads, Begin(t) \/ ThreadStep(t)
        PROVE  /\ pc'[t] \notin {"straggle", "use"}
               /\ pc'[t] # "idle" => req'[t].h \in DisciplinedHandlers
               /\ \A u \in Threads \ {t} : pc'[u] = pc[u] /\ req'[u] = req[u]
    <3> USE <1>2, <2>1 DEF TypeOK, DisciplineInv, Runs, At, Body, Goto, EndRequest,
                           DropPointer, Return, Leave, LeaveReset, LeaveOrDestroy, Fault,
                           threadVars
    <3>1. CASE Begin(t)
      BY <3>1, HandlersAssumption DEF Begin, SearchHandlers, CatchHandlers, LookupHandlers,
           AllHandlers
    <3>2. CASE \/ UseFreed(t) \/ Catch(t) \/ CatchMiss(t) \/ New(t) \/ RegisterQc(t)
               \/ SimilarityNoId(t) \/ LookupMiss(t) \/ LockQc(t) \/ Generate(t)
      BY <3>2 DEF UseFreed, Catch, CatchMiss, New, RegisterQc, SimilarityNoId, LookupMiss,
           LockQc, Generate, LockLabel, Locking
    <3>3. CASE Lookup(t)
      BY <3>3 DEF Lookup, DisciplinedHandlers
    <3>4. CASE \/ GenerateFails(t) \/ Straggle(t) \/ Touch(t) \/ FinishSearch(t) \/ Undust(t)
      BY <3>4 DEF GenerateFails, Straggle, SearchFailed, Touch, FinishSearch, AfterSearch,
           Undust
    <3>5. CASE DestroyQc(t)
      BY <3>5, ZenonT(30) DEF DestroyQc, Destroying, AfterSearch
    <3>6. CASE \/ SnippetBody(t) \/ WordsBody(t) \/ WordSnippetBody(t)
               \/ SimilarityBody(t) \/ TitleBody(t) \/ SuggestionBody(t)
               \/ RecommendationBody(t) \/ UrlsBody(t) \/ TypesBody(t)
      BY <3>6 DEF SnippetBody, WordsBody, WordSnippetBody, SimilarityBody, TitleBody,
           SuggestionBody, RecommendationBody, UrlsBody, TypesBody
    <3>7. CASE SelectBody(t)
      BY <3>7 DEF SelectBody, DisciplinedHandlers
    <3>8. CASE \/ ClusterizeBody(t) \/ ClusterizeRest(t) \/ CacheBody(t) \/ DelUrlBody(t)
               \/ PostBody(t) \/ PostOwnBody(t) \/ RedirUse(t)
      BY <3>8 DEF ClusterizeBody, ClusterizeRest, CacheBody, DelUrlBody, PostBody,
           PostOwnBody, RedirUse
    <3>9. CASE RecentNext(t) \/ RecentBody(t)
      BY <3>9 DEF RecentNext, RecentBody
    <3> QED
      BY <2>1, <3>1, <3>2, <3>3, <3>4, <3>5, <3>6, <3>7, <3>8, <3>9 DEF ThreadStep
  <2>2. ASSUME UNCHANGED <<pc, req>> PROVE DisciplineInv'
    BY <1>2, <2>0, <2>2 DEF DisciplineInv
  <2>3. SweepStep => UNCHANGED <<pc, req>>
    BY DEF SweepStep, SweepBegin, SweepEnd, SweepDelete, SweepSkip, SweepTake, Fault, threadVars
  <2>4. (\E o \in Ctxs : Expire(o)) \/ Halted \/ UNCHANGED vars => UNCHANGED <<pc, req>>
    BY DEF Expire, Halted, vars, threadVars
  <2>5. ASSUME NEW t \in Threads, Begin(t) \/ ThreadStep(t) PROVE DisciplineInv'
    BY <1>2, <2>0, <2>1, <2>5 DEF DisciplineInv
  <2> QED
    BY <1>2, <2>2, <2>3, <2>4, <2>5 DEF Next
<1> QED
  BY <1>1, <1>2

\* As long as only disciplined handlers are called, and generate() refuses no
\* search's parameters, a thread that reads, changes or destroys a context
\* holds its mutex: no two threads work on one context at a time.
THEOREM ExclusiveWork ==
  Handlers \subseteq DisciplinedHandlers /\ ~BadParameters => (Spec => []WorkIsExclusive)
<1> SUFFICES ASSUME Handlers \subseteq DisciplinedHandlers, ~BadParameters
             PROVE  Spec => []WorkIsExclusive
  OBVIOUS
<1>1. Init => DisciplineInv
  BY DisciplineInductive
<1>2. TypeOK /\ DisciplineInv /\ [Next]_vars => DisciplineInv'
  BY DisciplineInductive
<1>3. DisciplineInv => WorkIsExclusive
  BY DEF DisciplineInv, LockingInv, InsideIsLocked, WorkIsExclusive, Working,
       UndisciplinedLabels
<1> QED
  BY <1>1, <1>2, <1>3, TypeCorrect, PTL DEF Spec
\* As long as only locking handlers are called, every deletion of a
\* context is done by the thread, or the sweeper, that holds its mutex.
THEOREM LockedDestruction ==
  Handlers \subseteq LockingHandlers => (Spec => DestroyedLocked)
<1> SUFFICES ASSUME Handlers \subseteq LockingHandlers PROVE Spec => DestroyedLocked
  OBVIOUS
<1> DEFINE Locked == \A o \in alive \ alive' :
       \/ holder[o] = Sweeper /\ victim = o
       \/ \E t \in Threads : holder[o] = t /\ cur[t] = o /\ pc[t] \in Destroying
<1>1. Init => LockingInv
  BY LockingInductive
<1>2. TypeOK /\ LockingInv /\ [Next]_vars => LockingInv'
  BY LockingInductive
<1>3. LockingInv /\ [Next]_vars => [Locked]_vars
  <2> SUFFICES ASSUME LockingInv, Next PROVE Locked
    OBVIOUS
  <2>1. ASSUME NEW t \in Threads, DestroyQc(t) PROVE Locked
    BY <2>1 DEF DestroyQc, At, Runs, Free, Destroying, Inside, LockingInv,
         InsideIsLocked
  <2>2. CASE SweepDelete
    BY <2>2 DEF SweepDelete, Free, Fault, ctxVars, LockingInv
  <2>3. ASSUME NEW t \in Threads, Begin(t) \/ ThreadStep(t), ~DestroyQc(t)
        PROVE  alive \subseteq alive'
    BY <2>3 DEF Begin, ThreadStep, UseFreed, Fault, Catch, CatchMiss, New, Construct,
         RegisterQc, Lookup, LookupMiss, LockQc, Generate, GenerateFails, Straggle,
         SearchFailed, Touch, FinishSearch, Undust, SnippetBody, WordsBody, WordSnippetBody,
           SimilarityBody, TitleBody, SelectBody, SuggestionBody,
           RecommendationBody, UrlsBody, TypesBody, LeaveReset, LeaveOrDestroy,
           SimilarityNoId, ClusterizeBody, ClusterizeRest, CacheBody, DelUrlBody, PostBody,
         PostOwnBody, RedirUse, RecentNext, RecentBody, Leave,
         BodyUnchanged, ctxVars
  <2>4. ASSUME SweepStep, ~SweepDelete PROVE alive \subseteq alive'
    BY <2>4 DEF SweepStep, SweepBegin, SweepEnd, SweepSkip, SweepTake, Fault, ctxVars
  <2>5. ASSUME NEW o \in Ctxs, Expire(o) PROVE alive \subseteq alive'
    BY <2>5 DEF Expire
  <2>6. CASE Halted
    BY <2>6 DEF Halted, vars, ctxVars
  <2> QED
    BY <2>1, <2>2, <2>3, <2>4, <2>5, <2>6 DEF Next
<1>4. [Locked]_vars <=> [\A o \in alive \ alive' :
       \/ holder[o] = Sweeper /\ victim = o
       \/ \E t \in Threads : /\ holder[o] = t /\ cur[t] = o
                             /\ pc[t] \in Destroying]_vars
  OBVIOUS
<1> QED
  BY <1>1, <1>2, <1>3, <1>4, TypeCorrect, PTL DEF Spec, DestroyedLocked

-----------------------------------------------------------------------------
\* A step of one thread that neither touches the registry nor is about to.
LEMMA SameRegistering ==
  ASSUME RegisteringInv, NEW t \in Threads,
         UNCHANGED <<active, alive, registered, key, ctxOwner>>,
         \A u \in Threads \ {t} :
           pc'[u] = pc[u] /\ cur'[u] = cur[u] /\ req'[u] = req[u],
         pc'[t] \notin {"new", "register", "newpost"},
         pc'[t] # "idle" => req'[t].h \in RegisteringHandlers
  PROVE  RegisteringInv'
  BY DEF RegisteringInv, RegisteredIsActive

\* Deleting a context makes room for its query, and for no other.
LEMMA FreeKeepsRegistering ==
  ASSUME TypeOK, RegisteringInv, NEW o \in Ctxs, Free(o), UNCHANGED ctxOwner,
         \A u \in Threads :
           /\ pc'[u] # "newpost"
           /\ pc'[u] # "idle" => req'[u].h \in RegisteringHandlers
           /\ pc'[u] \in {"new", "register"} => pc'[u] = pc[u] /\ req'[u] = req[u]
  PROVE  RegisteringInv'
<1> USE NamesAssumption
<1>1. \A p \in registered' : p \in registered /\ p # o /\ key'[p] = key[p]
  BY DEF Free, TypeOK
<1>2. \A p \in registered' : key[p] # key[o] \/ o \notin registered
  BY <1>1 DEF RegisteringInv, RegisteredIsActive
<1>3. RegisteredIsActive'
  BY <1>1, <1>2 DEF Free, TypeOK, RegisteringInv, RegisteredIsActive
<1>4. (\A p \in registered : p \in alive /\ key[p] \in Keys)'
  BY <1>1 DEF Free, RegisteringInv
<1>5. \A k \in Keys : active[k] = NONE => active'[k] = NONE
  BY DEF Free, TypeOK
<1>6. ASSUME NEW u \in Threads, pc'[u] \in {"new", "register"}
      PROVE  /\ (ctxOwner = u /\ active[req[u].k] = NONE)'
             /\ (pc[u] = "register" => cur[u] = NONE \/ key[cur[u]] = req[u].k)'
  <2>1. pc[u] = pc'[u] /\ req'[u] = req[u] /\ req[u].k \in Keys
    BY <1>6 DEF TypeOK, Requests
  <2> QED
    BY <1>5, <1>6, <2>1 DEF Free, TypeOK, RegisteringInv
<1> QED
  BY <1>3, <1>4, <1>6 DEF RegisteringInv

\* RegisteringInv holds at first, and every step of the handlers that register under the
\* mutex and of the sweeper keeps it.
LEMMA RegisteringInductive ==
  ASSUME Handlers \subseteq RegisteringHandlers
  PROVE  /\ Init => RegisteringInv
         /\ TypeOK /\ DustInv /\ RegisteringInv /\ [Next]_vars => RegisteringInv'
<1>1. Init => RegisteringInv
  BY DEF Init, RegisteringInv, RegisteredIsActive
<1>2. ASSUME TypeOK, DustInv, RegisteringInv, [Next]_vars PROVE RegisteringInv'
  <2> USE NamesAssumption, <1>2
  <2>0. CASE UNCHANGED vars
    BY <2>0 DEF vars, threadVars, ctxVars, RegisteringInv, RegisteredIsActive
  <2>1. ASSUME NEW t \in Threads, Begin(t) PROVE RegisteringInv'
    <3>1. /\ pc'[t] \in {"catch", "lookup", "recent"}
          /\ req'[t].h \in RegisteringHandlers
          /\ \A u \in Threads \ {t} :
               pc'[u] = pc[u] /\ cur'[u] = cur[u] /\ req'[u] = req[u]
          /\ UNCHANGED <<active, alive, registered, key, ctxOwner>>
      BY <2>1, HandlersAssumption DEF Begin, Goto, TypeOK, ctxVars,
           SearchHandlers, CatchHandlers, LookupHandlers, AllHandlers
    <3> QED
      BY <3>1, SameRegistering
  <2>2. ASSUME NEW t \in Threads, ThreadStep(t) PROVE RegisteringInv'
    <3> USE DEF TypeOK, Runs, At, Goto, EndRequest, DropPointer, Return, threadVars,
                ctxVars, BodyUnchanged
    <3>1. CASE UseFreed(t)
      BY <3>1 DEF UseFreed, Fault, RegisteringInv, RegisteredIsActive
    <3>2. CASE Catch(t) \/ Lookup(t)
      BY <3>2, SameRegistering DEF Catch, Lookup, LockLabel, RegisteringInv
    <3>3. CASE CatchMiss(t)
      BY <3>3 DEF CatchMiss, RegisteringInv, RegisteredIsActive
    <3>4. CASE New(t)
      <4>1. PICK o \in Ctxs \ alive :
                Construct(o, req[t].k) /\ cur' = [cur EXCEPT ![t] = o]
        BY <3>4 DEF New
      <4>2. /\ req' = req /\ pc[t] \in {"new", "newprivate"}
            /\ pc'[t] = IF pc[t] = "new" THEN "register" ELSE "lock2"
            /\ \A u \in Threads \ {t} : pc'[u] = pc[u]
            /\ UNCHANGED <<active, ctxOwner>>
        BY <3>4 DEF New, RegisteringInv
      <4>3. \A p \in registered : p # o
        BY <4>1 DEF RegisteringInv
      <4>4. RegisteredIsActive' /\ (\A p \in registered : p \in alive /\ key[p] \in Keys)'
        BY <4>1, <4>2, <4>3 DEF Construct, RegisteringInv, RegisteredIsActive
      <4>5. \A u \in Threads \ {t} : cur'[u] = cur[u] /\ cur[u] # o
        BY <4>1 DEF DustInv
      <4>6. key'[o] = req[t].k /\ \A p \in Ctxs : p # o => key'[p] = key[p]
        BY <4>1 DEF Construct
      <4>7. \A u \in Threads : pc'[u] = "register" => cur'[u] = NONE \/ key'[cur'[u]] = req'[u].k
        BY <4>1, <4>2, <4>5, <4>6 DEF RegisteringInv
      <4> QED
        BY <4>2, <4>4, <4>7 DEF RegisteringInv
    <3>5. CASE RegisterQc(t)
      <4> DEFINE o == cur[t]
      <4>1. /\ pc[t] = "register" /\ o \in alive /\ o # NONE /\ key[o] = req[t].k
            /\ ctxOwner = t /\ req[t].k \in Keys /\ active[key[o]] = NONE
        BY <3>5 DEF RegisterQc, RegisteringInv, Requests
      <4>2. /\ active' = [active EXCEPT ![key[o]] = o] /\ registered' = registered \cup {o}
            /\ pc'[t] \in {"lock1", "lock2", "lock3"} /\ req' = req /\ cur' = cur
            /\ UNCHANGED <<key, alive>> /\ \A u \in Threads \ {t} : pc'[u] = pc[u]
        BY <3>5, <4>1 DEF RegisterQc, LockLabel
      <4>3. \A p \in registered : key[p] # key[o]
        BY <4>1 DEF RegisteringInv, RegisteredIsActive
      <4>4. RegisteredIsActive'
        BY <4>1, <4>2, <4>3 DEF RegisteringInv, RegisteredIsActive
      <4>5. \A u \in Threads \ {t} : pc[u] \notin {"new", "register"}
        BY <4>1 DEF RegisteringInv
      <4> QED
        BY <4>1, <4>2, <4>4, <4>5 DEF RegisteringInv
    <3>6. CASE LookupMiss(t)
      <4>1. CASE req[t].h = "title"
        BY <3>6, <4>1 DEF LookupMiss, RegisteringInv, RegisteredIsActive
      <4>2. CASE req[t].h # "title"
        BY <3>6, <4>2, SameRegistering DEF LookupMiss, RegisteringInv, RegisteringHandlers
      <4> QED
        BY <4>1, <4>2
    <3>7. CASE DestroyQc(t)
      <4>1. /\ cur[t] \in Ctxs /\ Free(cur[t]) /\ UNCHANGED ctxOwner
            /\ pc'[t] \in {"idle", "lookup", "lateunlock"} /\ req'[t] \in {req[t], NONE}
            /\ pc[t] # "idle" /\ (pc'[t] # "idle" => req'[t] = req[t])
            /\ \A u \in Threads \ {t} : pc'[u] = pc[u] /\ req'[u] = req[u]
        BY <3>7, ZenonT(30) DEF DestroyQc, Destroying, AfterSearch
      <4> QED
        BY <4>1, FreeKeepsRegistering DEF RegisteringInv
    <3>8. CASE LockQc(t) \/ Generate(t) \/ GenerateFails(t) \/ Straggle(t) \/ Touch(t) \/ Undust(t)
      BY <3>8, SameRegistering DEF LockQc, Generate, GenerateFails, Straggle, SearchFailed,
           Touch, Undust, Locking, RegisteringInv
    <3>9. CASE FinishSearch(t)
      BY <3>9, SameRegistering DEF FinishSearch, AfterSearch, RegisteringInv
    <3>10. CASE \/ SnippetBody(t) \/ WordsBody(t) \/ WordSnippetBody(t)
                \/ SimilarityBody(t) \/ TitleBody(t) \/ SuggestionBody(t)
                \/ RecommendationBody(t) \/ DelUrlBody(t) \/ PostBody(t) \/ ClusterizeRest(t)
      <4>1. Return(t) /\ BodyUnchanged
        BY <3>10 DEF SnippetBody, WordsBody, WordSnippetBody, SimilarityBody, TitleBody,
             SuggestionBody, RecommendationBody, DelUrlBody, PostBody, ClusterizeRest, Body,
             LeaveReset, Leave
      <4> QED
        BY <4>1, SameRegistering
    <3>11. CASE UrlsBody(t) \/ TypesBody(t) \/ SimilarityNoId(t) \/ CacheBody(t) \/ RedirUse(t)
      BY <3>11, SameRegistering DEF UrlsBody, TypesBody, LeaveOrDestroy, SimilarityNoId,
           CacheBody, RedirUse, Body, Leave, RegisteringInv
    <3>12. CASE SelectBody(t)
      <4>1. pc'[t] = "lookup" => req'[t].h = "redir"
        BY <3>12 DEF SelectBody, LeaveReset, Leave, Body, Requests
      <4>2. "redir" \in RegisteringHandlers
        BY DEF RegisteringHandlers, AllHandlers, LookupHandlers
      <4> QED
        BY <3>12, <4>1, <4>2, SameRegistering DEF SelectBody, LeaveReset, Leave, Body
    <3>13. CASE ClusterizeBody(t) \/ PostOwnBody(t)
      BY <3>13, SameRegistering DEF ClusterizeBody, PostOwnBody, Body, Leave, RegisteringInv
    <3>14. CASE RecentNext(t) \/ RecentBody(t)
      BY <3>14, SameRegistering DEF RecentNext, RecentBody, Body, RegisteringInv
    <3> QED
      BY <2>2, <3>1, <3>2, <3>3, <3>4, <3>5, <3>6, <3>7, <3>8, <3>9, <3>10, <3>11,
         <3>12, <3>13, <3>14 DEF ThreadStep
  <2>3. CASE SweepStep
    <3>1. CASE SweepDelete
      <4>1. CASE victim \in alive
        BY <3>1, <4>1, FreeKeepsRegistering DEF SweepDelete, TypeOK, RegisteringInv
      <4>2. CASE victim \notin alive
        BY <3>1, <4>2 DEF SweepDelete, Fault, threadVars, ctxVars, RegisteringInv,
             RegisteredIsActive
      <4> QED
        BY <4>1, <4>2
    <3>2. CASE SweepBegin \/ SweepEnd \/ \E o \in Ctxs : SweepSkip(o) \/ SweepTake(o)
      BY <3>2 DEF SweepBegin, SweepEnd, SweepSkip, SweepTake, Fault, threadVars, ctxVars,
           RegisteringInv, RegisteredIsActive
    <3> QED
      BY <2>3, <3>1, <3>2 DEF SweepStep
  <2>4. ASSUME NEW o \in Ctxs, Expire(o) PROVE RegisteringInv'
    BY <2>4 DEF Expire, threadVars, RegisteringInv, RegisteredIsActive
  <2>5. CASE Halted
    BY <2>0, <2>5 DEF Halted
  <2> QED
    BY <2>0, <2>1, <2>2, <2>3, <2>4, <2>5 DEF Next
<1> QED
  BY <1>1, <1>2

\* As long as recommendation_post is not called, a query has one context: what believes
\* itself registered is what _active_qcontexts holds, and unregister takes out its own entry.
THEOREM OneContextEach ==
  Handlers \subseteq RegisteringHandlers => (Spec => []RegisteredIsActive)
<1> SUFFICES ASSUME Handlers \subseteq RegisteringHandlers PROVE Spec => []RegisteredIsActive
  OBVIOUS
<1>1. Init => RegisteringInv
  BY RegisteringInductive
<1>2. TypeOK /\ DustInv /\ RegisteringInv /\ [Next]_vars => RegisteringInv'
  BY RegisteringInductive
<1>3. RegisteringInv => RegisteredIsActive
  BY DEF RegisteringInv
<1> QED
  BY <1>1, <1>2, <1>3, TypeCorrect, DustKept, PTL DEF Spec

=============================================================================
