------------------------------ MODULE Plugins ------------------------------
(* The plugins: loading, registering, starting and closing them, finding who *)
(* answers a page, choosing who sees a request, and the jobs of a filter     *)
(* plugin (plugin_manager.cpp, plugin_element.cpp, blocker.cpp).             *)
EXTENDS Urls, Functions, TLC

\* A plugin is [name, cgis, kinds]: the pages it answers and its elements.  pri[p] is its
\* place among the activated plugins, DEACTIVATED for the others.
DEACTIVATED == -1

NoPlugins == [plugins |-> <<>>, cgi |-> <<>>]

Activated(pri, p) == pri[p.name] # DEACTIVATED

\* Mutant: a page belongs to whoever names it last.
RegisterLast(reg, p, priority) ==
    [plugins |-> IF priority \in DOMAIN reg.plugins THEN reg.plugins
                 ELSE (priority :> p) @@ reg.plugins,
     cgi |-> [n \in p.cgis |-> p.name] @@ reg.cgi]

\* The plugin of a priority is the first one: a second deactivated plugin gets no place.
\* Its pages are registered nevertheless, and a page belongs to whoever names it first.
RegisterPlugin(reg, p, priority) ==
    [plugins |-> IF priority \in DOMAIN reg.plugins THEN reg.plugins
                 ELSE (priority :> p) @@ reg.plugins,
     cgi |-> reg.cgi @@ [n \in p.cgis |-> p.name]]

\* The libraries are loaded in the order the file system lists them; one that cannot be
\* opened or has no maker is passed over.
LoadAllPlugins(libraries, pri) ==
    FoldLeft(LAMBDA reg, p : RegisterPlugin(reg, p, pri[p.name]), NoPlugins,
             SelectSeq(libraries, LAMBDA p : p.loads))

ByPriority(reg) == SetToSortSeq(DOMAIN reg.plugins, <)

\* Activated plugins start in the order of their priorities, and their elements join the
\* lists in that order.
StartPlugins(reg, pri) ==
    LET order == ByPriority(reg)
    IN  SelectSeq([i \in DOMAIN order |-> reg.plugins[order[i]]], LAMBDA p : Activated(pri, p))

Elements(started, kind) == SelectSeq(started, LAMBDA p : kind \in p.kinds)

\* They are stopped in the opposite order, and every plugin with a place is deleted.
CloseAllPlugins(reg, pri) == [stopped |-> Reverse(StartPlugins(reg, pri)),
                              deleted |-> Range(reg.plugins)]

GetPlugin(reg, name) == SelectSeq([i \in DOMAIN ByPriority(reg) |-> reg.plugins[ByPriority(reg)[i]]],
                                  LAMBDA p : p.name = name)

\* Who answers a page: the plugin that names it, or the one that names the longest part
\* of its path in front of a slash; NONE for nobody.
FindPluginCgiDispatcher(cgi, path) ==
    LET prefixes == {n \in 1 .. Len(path) - 1 : SubSeq(path, 1, n) \in DOMAIN cgi}
    IN  CASE path \in DOMAIN cgi -> cgi[path]
          [] path \notin DOMAIN cgi /\ prefixes # {} ->
                cgi[SubSeq(path, 1, CHOOSE n \in prefixes : \A m \in prefixes : m <= n)]
          [] OTHER -> "NONE"

\* The elements whose patterns take the URL, behind what the client has already: the lists
\* of a client that is kept alive are not emptied between its requests.
GetUrlPlugins(has, elements, http) ==
    has \o SelectSeq(elements, LAMBDA p : MatchUrl(p.positive, p.negative, http))

-----------------------------------------------------------------------------
(* The jobs of a filter plugin: [dynamic, compiles].                         *)

NoJobs == [patterns |-> 0, joblist |-> <<>>, dynamic |-> FALSE]

\* Every pattern is the same pointer, to the line buffer of pcrs_load_code_file: only their
\* number counts.  lastjob is handed over by value and stays null: behind the first job none
\* is linked.  One dynamic job makes all of them dynamic, to be compiled for each request.
PcrsLoadCode(e, job) ==
    LET d == [e EXCEPT !.patterns = @ + 1]
    IN  CASE e.dynamic \/ job.dynamic -> [d EXCEPT !.dynamic = TRUE, !.joblist = <<>>]
          [] ~(e.dynamic \/ job.dynamic) /\ job.compiles /\ e.joblist = <<>> ->
                [d EXCEPT !.joblist = <<job>>]
          [] OTHER -> d

PcrsLoadCodeFile(jobs) == FoldLeft(PcrsLoadCode, NoJobs, jobs)

\* The buffer is gone when a request compiles its patterns: memory is what is found in its
\* place, once for each pattern, as a job that compiles or not.
CompileDynamic(e, memory) == SelectSeq(SubSeq(memory, 1, e.patterns), LAMBDA job : job.compiles)

Joblist(e, memory) == IF e.dynamic THEN CompileDynamic(e, memory) ELSE e.joblist

\* The jobs run until one fails; hits[job]: how often it hits, negative for an error.
Hits(jobs, hits) ==
    LET bad == {i \in DOMAIN jobs : hits[jobs[i].name] < 0}
        upto == IF bad = {} THEN Len(jobs)
                ELSE (CHOOSE i \in bad : \A j \in bad : i <= j) - 1
    IN  FoldLeft(LAMBDA n, job : n + hits[job.name], 0, SubSeq(jobs, 1, upto))

\* The filter's result is kept only if something hit.
PcrsPluginResponse(e, hits, memory) ==
    LET jobs == Joblist(e, memory) IN jobs # <<>> /\ Hits(jobs, hits) > 0

-----------------------------------------------------------------------------
(* Two of the plugins.                                                      *)

\* blocker: a browser that claims nothing else gets its page with status 200.
BlockUrl(agent) == IF agent = "mozilla" THEN 200 ELSE 403

\* no_tracking: the actions it asks for.
NoTrackingSays == "crunch-if-none-match" :> "" @@ "overwrite-last-modified" :> "randomize"

-----------------------------------------------------------------------------
(* Properties.                                                              *)

\* In whatever order the libraries are found, the activated plugins are all started, in
\* the order of the configuration, and nothing else is (plugin_manager.cpp 105-243).
OrderDoesntMatter(libraries, pri) ==
    LET reg == LoadAllPlugins(libraries, pri)
        started == StartPlugins(reg, pri)
    IN  /\ Range(started) = {p \in Range(libraries) : p.loads /\ Activated(pri, p)}
        /\ \A i, j \in DOMAIN started : i < j => pri[started[i].name] < pri[started[j].name]
        /\ CloseAllPlugins(reg, pri).stopped = Reverse(started)

\* A page that an activated plugin alone names is never answered by another plugin, and a
\* path below it neither, unless a longer part of the path is named (247-271).
PagesReachTheirPlugin(libraries, pri, path) ==
    LET reg == LoadAllPlugins(libraries, pri)
        loaded == {p \in Range(libraries) : p.loads}
        naming(n) == {p \in loaded : SubSeq(path, 1, n) \in p.cgis}
        longest == {n \in 1 .. Len(path) : naming(n) # {}}
        who == FindPluginCgiDispatcher(reg.cgi, path)
    IN  IF longest = {} THEN who = "NONE"
        ELSE LET n == CHOOSE n \in longest : \A m \in longest : m <= n
             IN  \E i \in DOMAIN libraries :
                    /\ libraries[i] \in naming(n) /\ who = libraries[i].name
                    /\ \A j \in 1 .. i - 1 : libraries[j] \notin naming(n)

\* A filter of fixed jobs answers exactly when the first of them that compiles hits: no job
\* is linked behind it.  One with a dynamic job runs none of its own: it answers for what
\* the memory holds where its line was, however its jobs are, when a job of that hits in
\* front of the first that fails (plugin_element.cpp 216-277, 279-334, 336-417).
JobsRun(jobs, hits, memory) ==
    LET dynamic == \E i \in DOMAIN jobs : jobs[i].dynamic
        runs == IF dynamic THEN memory ELSE jobs
        good == SelectSeq(runs, LAMBDA job : job.compiles)
        n(i) == hits[good[i].name]
        some == {i \in DOMAIN good : n(i) > 0 /\ \A j \in 1 .. i : n(j) >= 0}
    IN  PcrsPluginResponse(PcrsLoadCodeFile(jobs), hits, memory)
            <=> IF dynamic THEN some # {} ELSE 1 \in some
=============================================================================
