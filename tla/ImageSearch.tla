----------------------------- MODULE ImageSearch ------------------------------
(* The search of images: which pages its contexts fetch from which engines  *)
(* with and without safe search, the calls that use a context with the locks *)
(* they take, and the merging of the images found (img_websearch).           *)
EXTENDS Engines, Snippets

CONSTANTS
    ImgDefaults,    \* _img_se_default: the engines that are asked by default
    MaxExpansions   \* _max_expansions

BAD == -1   \* an expansion that is not a number

-----------------------------------------------------------------------------
(* img_query_context.  A request r: horizon, ccheck and safesearch as they   *)
(* are given, the engines it names, those that give no output, and whether   *)
(* safe search is configured; what is fetched is noted with the mode that    *)
(* the engine was asked in and the mode that its answer was read in.         *)

EnginesOf(r) == IF r.names THEN r.engines ELSE ImgDefaults

MkImgContext(r) == [engines |-> EnginesOf(r), safe |-> r.configured, pages |-> 0, on |-> 0,
                    off |-> 0, fetched |-> {}, err |-> "OK"]

Unsafe(r) == r.safesearch = "off" \/ (r.safesearch = "" /\ ~r.configured)

\* expand_img: it stops at a page for which no engine gives an output.
ExpandImg(c, r, from, to, es) ==
    CASE c.err # "OK" \/ from >= to -> c
      [] c.err = "OK" /\ from < to /\ es \subseteq r.down ->
            [c EXCEPT !.err = IF es = {} THEN "NO_ENGINE" ELSE "NO_ENGINE_OUTPUT"]
      [] OTHER -> [c EXCEPT !.fetched = @ \cup
                     {[engine |-> e, page |-> p, asked |-> Unsafe(r), read |-> ~c.safe] :
                        e \in es, p \in from + 1 .. to}]

HorizonOf(r) == IF r.horizon = 0 THEN 1 ELSE Min({r.horizon, MaxExpansions})

ChecksImgCache(r) == r.ccheck \in {"", "yes"}

\* Engines that the context does not have: all those asked for are fetched, up to its page.
AddEngines(c, r) ==
    IF ~ChecksImgCache(r) \/ EnginesOf(r) \subseteq c.engines THEN c
    ELSE LET more == EnginesOf(r)
             d == IF more # {"seeks"} THEN ExpandImg(c, r, 0, c.pages, more) ELSE c
         IN  IF d.err = "OK" THEN [d EXCEPT !.engines = @ \cup more] ELSE d

\* Pages that were fetched in the other mode only are fetched again.  Without the parameter
\* they count as fetched in the configured mode.
Redo(c, r) ==
    LET off == ExpandImg([c EXCEPT !.safe = FALSE], r, c.off, c.pages, c.engines)
        on == ExpandImg([c EXCEPT !.safe = TRUE], r, c.on, c.pages, c.engines)
    IN  CASE c.err # "OK" \/ ~ChecksImgCache(r) -> c
          [] c.err = "OK" /\ ChecksImgCache(r) /\ r.safesearch = "off" ->
                IF off.err = "OK" THEN [off EXCEPT !.off = c.pages] ELSE off
          [] c.err = "OK" /\ ChecksImgCache(r) /\ r.safesearch = "on" ->
                IF on.err = "OK" THEN [on EXCEPT !.on = HorizonOf(r)] ELSE on
          [] c.err = "OK" /\ ChecksImgCache(r) /\ r.safesearch = "" ->
                IF r.configured THEN [c EXCEPT !.on = HorizonOf(r)]
                ELSE [c EXCEPT !.off = HorizonOf(r)]
          [] OTHER -> c

\* The pages that are new, or with ccheck=no all of them.  Whether there are engines to ask is
\* looked up among those of texts.
FetchPages(c, r) ==
    CASE r.onlySeeks \/ r.ccheck = "yes" -> c
      [] ~r.onlySeeks /\ r.ccheck = "" -> ExpandImg(c, r, c.pages, HorizonOf(r), c.engines)
      [] ~r.onlySeeks /\ r.ccheck = "no" -> ExpandImg(c, r, 0, HorizonOf(r), c.engines)
      [] OTHER -> c

GenerateImages(context, r) ==
    LET c == [context EXCEPT !.err = "OK"]
        d == FetchPages(Redo(AddEngines(c, r), r), r)
    IN  CASE r.horizon = BAD -> [c EXCEPT !.err = "CGI_PARAMS"]
          [] r.horizon # BAD /\ d.err # "OK" -> d
          [] OTHER -> [d EXCEPT !.pages = HorizonOf(r)]

AfterRequests(rs) == FoldLeft(GenerateImages, MkImgContext(rs[1]), rs)

-----------------------------------------------------------------------------
(* The calls.  w: what a call meets; the steps that matter to others are     *)
(* the locks, and what is done under them; SPAWN and JOIN of the thread that *)
(* personalises, which needs the estimators' mutex "ack".                    *)

Errors == {"OK", "CGI_PARAMS", "NO_ENGINE", "NO_ENGINE_OUTPUT", "PARSE"}

Take(m) == <<"take", m>>
Give(m) == <<"give", m>>
CREATE == <<"new", "context">>
DELETE == <<"delete", "context">>
STORE == <<"store", "query">>
SPAWN == <<"spawn", "thread">>
JOIN == <<"join", "thread">>

\* perform_img_websearch: an error that is not one of the parameters is passed over when the
\* results are personalised.
GivesUp(w) == w.err # "OK" /\ (~w.personal \/ w.err = "CGI_PARAMS")
OnlyIf(b, steps) == IF b THEN steps ELSE <<>>
PerformSteps(w) ==
    <<Take("registry")>> \o OnlyIf(~w.cached, <<CREATE>>)
    \o <<Give("registry"), Take("qc"), Take("ack")>>
    \o CASE w.personal /\ w.noThread -> <<Give("qc"), Give("ack")>>
         [] GivesUp(w) /\ ~(w.personal /\ w.noThread) ->
                OnlyIf(w.personal, <<SPAWN>>) \o <<Give("ack"), Give("qc")>>
                \o OnlyIf(w.personal, <<JOIN>>)
         [] OTHER ->
                OnlyIf(w.personal, <<SPAWN>>) \o <<Give("ack")>>
                \o OnlyIf(~w.cached /\ w.method = "put" /\ w.captures, <<STORE>>)
                \o OnlyIf(w.personal, <<JOIN>>) \o OnlyIf(w.empty, <<DELETE>>) \o <<Give("qc")>>

\* What is shown; a page that is "dyn" or of an output that is not known is not written.
Rendering(w) ==
    CASE ~w.render -> "nothing"
      [] w.render /\ w.ui = "stat" /\ w.output = "html" -> "html"
      [] w.render /\ w.xsl /\ w.output = "xml" -> "xml"
      [] w.render /\ w.output = "json" -> "json"
      [] OTHER -> "nothing"

SearchErr(w) == IF w.err = "NO_ENGINE_OUTPUT" THEN "SE_CONNECT" ELSE w.err
PerformErr(w) ==
    CASE w.personal /\ w.noThread -> "THREAD"
      [] ~(w.personal /\ w.noThread) /\ (GivesUp(w) \/ Rendering(w) = "nothing") -> SearchErr(w)
      [] OTHER -> "OK"

\* fetch_snippet: without a context the search is made first, and may leave none.
FetchSnippet(w) ==
    LET search == [w EXCEPT !.render = FALSE]
        found == w.cached \/ (PerformErr(search) = "OK" /\ ~w.empty)
    IN  [steps |-> OnlyIf(~w.cached, PerformSteps(search)) \o OnlyIf(found, <<Take("qc"), Give("qc")>>),
         err |-> CASE ~w.cached /\ PerformErr(search) # "OK" -> PerformErr(search)
                   [] (w.cached \/ PerformErr(search) = "OK") /\ ~found -> "MEMORY"
                   [] found /\ ~w.known -> "NOT_FOUND"
                   [] OTHER -> "OK"]

\* cgi_img_websearch_search: a click or a vote on an image needs its link first.
SearchImages(w) ==
    LET search == [w EXCEPT !.render = FALSE]
        link == FetchSnippet(w)
        body == IF w.id THEN link ELSE [steps |-> PerformSteps(w), err |-> PerformErr(w)]
    IN  CASE ~w.query -> [steps |-> <<>>, err |-> "CGI_PARAMS"]
          [] w.query /\ w.method \in {"post", "delete"} /\ ~w.id ->
                [steps |-> <<>>, err |-> "CGI_PARAMS"]
          [] w.query /\ w.method \in {"post", "delete"} /\ w.id -> link
          [] w.query /\ w.method = "other" -> [steps |-> <<>>, err |-> "MEMORY"]
          [] OTHER -> [body EXCEPT !.steps = <<Take("config")>> \o @ \o <<Give("config")>>]

-----------------------------------------------------------------------------
(* The images found.                                                        *)

image(id, es, rank) == [id |-> id, engines |-> es, rank |-> rank, seeks |-> 0, fresh |-> TRUE]

\* sort_merge_and_rank_snippets comes first and knows nothing of the engines of images: of an
\* image that is there already nothing is kept, and none is new afterwards.
MergeAsTexts(list) ==
    FoldLeft(LAMBDA acc, s :
                CASE s.fresh /\ (\E i \in DOMAIN acc : acc[i].id = s.id) -> acc
                  [] OTHER -> Append(acc, [s EXCEPT !.fresh = FALSE]),
             <<>>, list)

\* merge_img_snippets, for the images that are new (there are none left).
MergeImages(list) ==
    FoldLeft(LAMBDA acc, s :
                CASE s.fresh /\ (\E i \in DOMAIN acc : acc[i].id = s.id) ->
                        [i \in DOMAIN acc |->
                            IF acc[i].id # s.id \/ acc[i].engines = s.engines THEN acc[i]
                            ELSE [acc[i] EXCEPT
                                    !.rank = @ + s.rank, !.engines = @ \cup s.engines,
                                    !.seeks = Cardinality(acc[i].engines \cup s.engines)]]
                  [] s.fresh /\ ~\E i \in DOMAIN acc : acc[i].id = s.id ->
                        Append(acc, [s EXCEPT !.fresh = FALSE,
                                              !.seeks = Cardinality(s.engines)])
                  [] OTHER -> Append(acc, s),
             <<>>, list)

\* More engines first, then the smaller mean rank.
ImageBefore(a, b) ==
    IF a.seeks = b.seeks THEN a.rank * Cardinality(b.engines) < b.rank * Cardinality(a.engines)
    ELSE a.seeks > b.seeks
ShownImages(list) ==
    LET merged == StableSort(MergeAsTexts(list), LAMBDA a, b : a.seeks > b.seeks)
    IN  StableSort(MergeImages(merged), ImageBefore)

\* An image is shown when one of its engines is asked for.
ImageEnabled(i, r) == i.engines \cap EnginesOf(r) # {}

-----------------------------------------------------------------------------
(* Properties.                                                              *)

\* Whatever was asked before, failed or was asked with other engines, every engine of the
\* context was asked for each page up to the one it says it has (img_query_context.cpp 93-218).
EngineHasPages(rs) ==
    (\A i \in DOMAIN rs : rs[i].ccheck # "yes" /\ ~rs[i].onlySeeks) =>
        LET c == AfterRequests(rs)
        IN  \A e \in c.engines, p \in 1 .. c.pages :
                \E f \in c.fetched : f.engine = e /\ f.page = p

\* When each request says its mode and is answered by the same engines, the pages it asks for
\* are there in that mode, however the modes alternate (lines 164-186); and what is asked in
\* one mode is read in it.
ModesHavePages(rs) ==
    (\A i \in DOMAIN rs : /\ rs[i].safesearch \in {"on", "off"} /\ rs[i].ccheck = ""
                          /\ rs[i].down = {} /\ EnginesOf(rs[i]) = EnginesOf(rs[1])
                          /\ ~rs[i].onlySeeks /\ rs[i].horizon # BAD) =>
        LET c == AfterRequests(rs)
        IN  /\ \A e \in c.engines, p \in 1 .. HorizonOf(Last(rs)) :
                   \E f \in c.fetched : f.engine = e /\ f.page = p /\ f.asked = Unsafe(Last(rs))
            /\ \A f \in c.fetched : f.asked = f.read

Times(steps, what, i) == Cardinality({k \in 1 .. i : steps[k] = what})
Holds(steps, m, i) == Times(steps, Take(m), i) - Times(steps, Give(m), i)

\* However a call of the image search ends, it leaves no mutex locked and unlocks none that it
\* does not hold, and has ended the thread it started, for which it does not wait with the
\* mutex that thread needs (img_websearch.cpp 146-756).
CallsEndClean(w) ==
    LET s == SearchImages(w).steps IN
    /\ \A m \in {"registry", "qc", "ack", "config"} :
          /\ \A i \in DOMAIN s : Holds(s, m, i) \in {0, 1}
          /\ Holds(s, m, Len(s)) = 0
    /\ Times(s, SPAWN, Len(s)) = Times(s, JOIN, Len(s))
    /\ \A i \in DOMAIN s : s[i] = JOIN => Holds(s, "ack", i) = 0
    /\ \A i \in DOMAIN s : s[i] \in {CREATE, DELETE} =>
            \E m \in {"registry", "qc"} : Holds(s, m, i) = 1

\* Each image is shown once, and none is lost (sort_rank.cpp 99-106, img_sort_rank.cpp 51-137).
ImagesOnce(list) ==
    LET shown == ShownImages(list) IN
    /\ \A i, j \in DOMAIN shown : shown[i].id = shown[j].id => i = j
    /\ {s.id : s \in Range(shown)} = {s.id : s \in Range(list)}
=============================================================================
