# Seeks: models, checks and proofs

Seeks is an HTTP proxy with plugins: a meta-search engine (`websearch`, and
`img_websearch` for images), a collaborative filter that shares queries and clicks
with peers (`cf`), the capture of queries and URIs into a Tokyo Cabinet database
(`query_capture`, `uri_capture`, `user_db`), and the services around them. One
process runs it: a main thread accepts connections, each connection gets a thread, a
search starts further threads, and the main thread frees what is no longer used
between two connections. Much of what can go wrong lies between these threads: who
may free an object, who holds which mutex, and which pointer is still good. The rest
lies in long sequences of steps that may each fail: an exchange of messages, the
repair of a file, a search that is widened again and again; and in sequential code
with many cases, such as headers, patterns, clusters and keys.

This directory holds TLA+ models of that program, runs of TLC on small instances of
them, and proofs, checked by TLAPS, that the main invariants hold for every number of
threads, objects and keys: those of contexts, records, connections, peers and clients, of
a search, a configuration, an exchange of messages and the user database. Paths below are relative to
`src/` of the repository's root directory `src`, so `proxy/sweeper.cpp` is
`src/src/proxy/sweeper.cpp`.

- [Inventory](#inventory): the parts, their state, their operations, what is hard.
- [Modules](#modules): how each module corresponds to the code.
- [Runs](#runs): what is checked, with which bounds and fairness.
- [Divergences](#divergences): where the code does not do what it says.
- [Proofs](#proofs): what is proved, from what, along which argument.
- [What is not modelled](#what-is-not-modelled) and [Plan](#plan).

`PROJECT.json` lists the components, the runs, the lines each definition models
(`map`), the hazards of the code with the properties that cover them, and for each
checked property a mutant: a plausible bug in one definition that TLC finds with
that property. The mutants stand in the modules before the definitions they
replace, each under a comment that begins with "Mutant:"; nothing else uses them.

## Inventory

| part | state | operations | module |
|---|---|---|---|
| query contexts, `plugins/websearch` | `_active_qcontexts` with `_context_mutex`; each context with its `_qc_mutex` and time of last use | about eighteen CGI handlers of `websearch`, `cf`, `query_capture` | `QueryContexts` |
| searches, `websearch.cpp`, `query_context.cpp` | engines and pages of a context, `_feeds_ack_mutex`, `_est_mutex`, `_lfilter` | `generate`, `expand`, `personalize` and the threads of a search | `Expansion`, `Feeds` |
| sweeper, `proxy/sweeper.cpp` | `_memory_dust` with `_mem_dust_mutex`, `_clients` | `sweep`, `register_sweepable`, `unregister_sweepable` | in the modules of what it frees |
| record store, `plugins/cf/cr_store.cpp` | `cr_store` -> `cr_cache` -> `cached_record`, with `_store_mutex` and a `_cache_mutex` each | `find`, `add`, `remove`, the destructors | `RecordStore` |
| peers, `plugins/cf/peer_list.cpp` | `_pl` and `_dpl`, `peer::_status`, `_retries` | `personalize_cb`, `dead_peer` and its `sweep_me` | `PeerMonitor` |
| ranks, `plugins/cf/rank_estimators.cpp`, `query_recommender.cpp` | the filter of one personalisation | `estimate_ranks`, `recommend_urls`, `recommend_queries` | `Ranking` |
| reusable connections, `proxy/gateway.cpp` | `_reusable_connection[100]`, `_connection_reuse_mutex` | `remember_connection`, `get_reusable_connection`, `mark_connection_unused`, ... | `ReusableConnections` |
| sockets, `proxy/gateway.cpp`, `spsockets.cpp` | descriptors, errno | `connect_to`, SOCKS 4, 4A and 5, `bind_port` | `Connecting` |
| client threads, `proxy/seeks_proxy.cpp` | `_clients`, a `client_state` per connection | `listen_loop`, `serve`, `chat` | `ClientList`, `Exchange` |
| headers, `proxy/parsers.cpp` | flags and headers of one `client_state` | `sed`, the parsers and adders of headers | `Headers` |
| filters and access, `proxy/filters.cpp`, `proxy_dts.cpp` | the buffer, lists of access and forwarding | `execute_content_filter`, `block_acl`, `forward_url` | `Filtering` |
| URLs and patterns, `proxy/urlmatch.cpp`, `loaders.cpp`, `encode.cpp` | none | `parse_http_request`, `url_match`, pattern files, quoting | `Urls`, `Encodings` |
| plugin manager, `proxy/plugin_manager.cpp` | tables of plugins and of CGI resources | load, register, start, close, find | `Plugins` |
| pages, `proxy/cgi.cpp`, `cgisimple.cpp` | none between requests but the toggle | `dispatch_cgi`, the handlers, `template_fill`, `finish_http_response` | `Pages`, `Templates` |
| HTTP server, `plugins/httpserv` | libevent's loop in a thread | its routes to CGI functions; calls the sweeper itself | `HttpServer` |
| configuration, `proxy/configuration_spec.cpp` and its subclasses | options with a read-write lock, time of the file | `load_config`, readers; what each option does | `Configuration`, `Options` |
| user database, `proxy/user_db.cpp` | one Tokyo Cabinet hash file, its iterator, `uri_capture::_nr` | `add_dbr`, `find_dbr`, `remove_dbr`, `prune_db` | `UserDatabase`, `Records`, `RecordBook` |
| capture, `plugins/query_capture`, `uri_capture` | records in the database | `store_queries`, `remove_query`, `store_uri`, ... | `UserDatabase` |
| repair, `proxy/user_db_fix.cpp` | the file of the database and its version | five fixes at a start | `DatabaseRepair` |
| database service, `plugins/udb_service` | none between calls | client and server of `find_dbr` and `find_bqc` | `PeerMonitor`, `HttpServer` (outcomes only) |
| engines, `websearch/se_handler.cpp`, `feeds.cpp`, `se_parser*.cpp` | flags and snippets of one parser | addresses, parser threads, call-backs of a parser | `Feeds`, `Engines` |
| snippets, `websearch/sort_rank.cpp`, `oskmeans.cpp`, ... | the snippets of one context | merge, order, similarity, clusters, summaries | `Snippets` |
| renderers, `websearch/*_renderer.cpp`, `xsl_serializer` | none | HTML, JSON, XML | `Renderers` |
| image search, `plugins/img_websearch` | contexts of images | `expand_img`, search, similarity, merge | `ImageSearch`, `Engines` |
| keys of queries, `lsh/mrf.cpp`, `qprocess.cpp`, `dht/DHTKey.cpp` | none | fragments of queries, distances, keys | `Hashing` |
| likeness of texts, `lsh/` | a hash table | add, remove, find | `Likeness` |
| parallel downloads, engines' pages, tools, `readable`, utilities | | | not modelled, see below |

How they interact: `serve` takes a request and gives it to a CGI handler (its own or
a plugin's) or to a server; a handler locks its configuration, looks a context up or
makes one, and a search starts a thread per engine and one that personalises, which
starts one per peer; those read the record store and the user database. After each
accept (and after each search of httpserv) `sweeper::sweep` walks the dust and the
client list. The shared state is the registry of contexts, the dust, the record store,
the peers, the table of connections, the client list, the configurations and the
database. Everything else belongs to one thread at a time.

What must be true of the parts, and why it is hard:

* **Contexts.** A look-up never returns a freed context; no two calls work on one;
  a context is in the sweeper's vector exactly as long as it lives; an unused one is
  freed. Hard because three locks (`_context_mutex`, `_qc_mutex`, `_mem_dust_mutex`)
  are taken in pieces, a pointer is caught before its mutex is, and eighteen handlers
  each do it their own way.
* **Searches.** A context has the pages it says it has; those who rank see what was
  fetched; all threads end. Hard because a search may ask for other engines, more
  pages, or neither, each fetch may fail, and the threads wait for one another without
  a predicate.
* **Record store.** Whatever the store leads to exists; no record is deleted twice.
  Hard because destructors reach back into the containers they are destroyed from
  ("removal trickles up"), with unlocks that are made twice, and because the sweeper
  comes from the other end.
* **Connections.** A socket is in the hands of one thread or in one slot; a request
  goes to the server it is for and does not read the rest of an earlier answer;
  idle connections are closed. Hard because descriptors come back from the kernel.
* **Peers.** A peer marked dead is tested again and marked back. Hard because
  several threads may find it dead at once, and the object that watches it is
  created by one thread and destroyed by the sweeper.
* **Clients.** A `client_state` is freed once, after its thread has finished, and
  the limit on connections holds. Hard because the list has no lock at all.
* **Exchanges.** An exchange ends; what is announced is what is sent; a connection is
  kept only when both sides agree where the answer ends. Hard because the answer comes
  in pieces of any size, is framed in four ways, may be filtered, and either side may
  fall silent at any byte.
* **Configuration.** Readers see one configuration; the file is read again when it has
  changed; nobody waits for ever. Hard because the lock is kept on some returns, and
  taken together with others in two orders.
* **Database.** No visit is lost or counted twice, a sweep drops what is old and
  nothing else. Hard because a change is a look-up, a merge and a put, the database has
  one iterator, and the program may die in between.
* **Pure parts.** Each has its own: a filtered answer is framed as announced, a
  pattern matches what it stands for, pages follow one another, keys are found again.
  Hard because of the number of cases, and of what one part leaves behind for another.

## Modules

Common conventions. Objects are addresses out of a finite constant set: `new` takes
one that is free, `delete` gives it back, so that an address can come back. A
pointer to an object that was deleted becomes `NONE` where a step through it is
undefined behaviour; such a step sets `fault` (contexts, store), after which the
model stops and nothing is claimed. Every operation on a container is atomic, and
so is every section of a mutex in which the thread waits for nothing; where a
section takes a further lock, or where the code releases one between two accesses,
it is cut into steps. Mutexes are glibc's default ones: not recursive, and an unlock
frees the mutex whoever holds it.

### QueryContexts (websearch.cpp, query_context.cpp, cf.cpp, query_capture.cpp, sweeper.cpp)

State: per thread its place `pc`, its request `req` and its `qc` (`cur`); per
context whether it is alive, its key, whether `register_qc` succeeded, what it
contains, whether its delay has passed and who holds its `_qc_mutex`;
`_active_qcontexts` (`active`), `_context_mutex` (`ctxOwner`), `_memory_dust`
(`dust`) and the place of `sweep`.

`Begin` starts one of the CGI handlers in the constant `Handlers`. The search
handlers go through `perform_websearch`: `Catch` or `CatchMiss` with `New`,
`Construct` and `RegisterQc` under `_context_mutex`, then `LockQc`, `Generate` or
`GenerateFails`, `FinishSearch` and, when the context stayed empty, its
destruction (`Undust`, `DestroyQc`). Those that need the context afterwards look it
up again (`Lookup`, `LookupMiss`) and do their own work: one `...Body` action for each
handler, with the early returns, unlocks and deletions of that handler.
`SweepBegin`, `SweepTake`, `SweepSkip`, `SweepDelete` and `SweepEnd` are
`sweeper::sweep` with `query_context::sweep_me`, whose trylock is what keeps it
from a context in use. `Straggle` is the personalisation of a search whose parameters were
refused, which goes on behind the unlock (`BadParameters` says whether such searches come);
`Touch` is the look-up that `neighbors_title` makes before it sees that its search failed. `Expire` is the passing of `_query_context_delay`.

### RecordStore (cr_store.cpp, rank_estimators.cpp, sweeper.cpp)

State: the live caches and records with their back pointers, the index of each
cache, the store, all three kinds of mutex, the dust, and per thread its place and
the pointers it carries. A call looks a record up (`FindNoCache`, `FindCache`,
`FindNoRecord`, `FindRecord`, `FollowHit`, `Touch`, with `SecondUnlock`), fetches it
from the peer on a miss (`Fetch`) and adds it (`AddToCache`, `AddNewCache`,
`LockCache`, then for a record to be replaced `Undust`, `RemoveOld`, `FreeOld`,
`DropCache`, `Relock`, and `Insert`, `Register`, `Stored`). The sweeper walks the
dust (`SweepTake`, `SweepRemove`, `SweepFree`, `SweepDropCache`). `Callers` says
whether callers that delete the data they were given run as well.
A record stored as NULL ("the peer has none") is not told apart from another.

### ReusableConnections (gateway.cpp, seeks_proxy.cpp)

State: the slots of the table (descriptor, destination, in use, age, latency); per
thread the socket in `csp->_sfd`, the destination noted in `_server_connection`,
the keep-alive flags (`keep`), the retries; per descriptor where it really leads,
whether the server is still there and whether an answer is unread. `Serve(t)` is a
thread through `serve` and `chat`: reuse of its own connection (`ReuseOwn`), the
table (`Clean`, `TakeSlot`, `NoSlot`), connecting, request, header and body with
their failures, and the decision (`NextRequest`, `Share`, `DontKeep`). A body ends where it
does (`ReadBody`), or where chat takes it to end (`StopEarly`): it guesses from the last bytes
of a read, and its count may be too high; Exchange has what leads to this. A request with
more behind it taints the socket before there is one (`ReadRequest`), and a tainted one is not
looked for in the table (`ForwardLabel`). Giving back
is two sections of `remember_connection` (`Unuse` or `NotRemembered`, then `Remember`
or `NoRoom`). `Watch`, `Monitor`, `Leave` are the thread that stays behind to close
idle connections. `HangUp` and `Tick` are the world. The kernel may return any
free descriptor. A destination stands for host, port and forwarding settings
together; `age` stops one past the timeout, where it makes no more difference.

### PeerMonitor (peer_list.cpp, rank_estimators.cpp, sweeper.cpp)

State: per peer its status, its count of failures and whether its node answers;
per thread the peer and the `dead_peer` in its hands; the allocated `dead_peer`s,
`_dpl`, the dust, the sweeper's place. `Start`, `Succeed`, `Fail`, `Tally`, `Mark`,
`New`, `Register` are a personalisation thread: the increment of `_retries` is a
read and a write, because no lock is held. `BeginSweep`, `Skip`, `Reap`, `Unlist`,
`Revive`, `EndSweep` are the sweep with `sweep_me`, `is_alive` and `~dead_peer`.
`PEER_NO_CONNECT` and `PEER_UNKNOWN` are one status, "dead": they differ in the log.
Calls to "sn" peers never fail, since `find_dbr_rsc_sn` swallows the errors.

### ClientList (seeks_proxy.cpp, sweeper.cpp, httpserv.cpp)

State: the list (`next`), the allocated clients, the flag `CSP_FLAG_ACTIVE`, the
running threads, and `listen_loop`'s and each sweeper's local variables. `Walk(s)`
is the walk of `sweep` step by step; `Listen` is `listen_loop`: `New`, `Accept`,
`Drop`, `Reject` or `Admit`, the two assignments that link (`Link`, `Publish`), and
`Spawn` or `SpawnFails`. `Finish` is the last assignment of `serve`. `Servers` is the
thread of the httpserv plugin, when it is there. Only the multi-threaded program is
modelled.

### Expansion, Feeds (websearch.cpp, query_context.cpp, sort_rank.cpp, rank_estimators.cpp, feeds.cpp)

One cached context and the searches that widen it. State: the engines and pages the
context has, who holds `_qc_mutex`, `_feeds_ack_mutex` and `_est_mutex`, `_lfilter`, and
per search its place in `perform_websearch`, its personalisation thread and the workers
of that one (the local database, `OWN`, and each peer). `Launch`, `Broadcast`, `Join`,
`LockContext`, `LockFeeds`, `Create`, `CreateFails`, `Generate`, `AskPage`, `CatchUp`,
`Forward`, `Expand`, `UnlockFeeds` and `Finish` are the search, `Fetch`, `Fill`, `Wait`,
`Spurious`, `Resume` and `Rank` the workers; `Wait` has no predicate, as in the code.
`asked` records which pages were fetched, `skipped` that `ccheck=yes` has set a horizon
without a fetch, and `renewed` that `_est_mutex` was initialised while held. The catch-up
makes an exception of this node alone, the expansion behind it of the feed "dummy" as well
(`NeedsCatchUp`, `NeedsFetch`). Feeds has
the sets of engines and their URLs with their operations, and which parser thread reads
which output.

### Configuration, Options (configuration_spec.cpp and the configurations of the parts)

Configuration is one object of any of five parts: its file, which an operator edits,
removes and makes unreadable; the read-write lock; the time of the file; and threads that
run the scripts of their calls (`Scripts`), each a sequence of reload, read lock, mutex of
a context, unlock. `Load`, `Reset`, `Parse` and `Stat` are `load_config`, which keeps the
write lock when the file does not open. Options says what the commands of each file do to
each object: the kind and default of each option, whether `set_default_config` sets it
again, and what is prepended or merged. `Load` is a whole reload.

### UserDatabase, Records, RecordBook (user_db.cpp, db_*record.cpp, query_capture.cpp, uri_capture.cpp)

Records merges records of queries and of URIs as their classes do. UserDatabase is the hash
file with its one iterator under calls of several threads: `StoreQueries`, `StoreUrl`,
`StoreUri`, `RemoveQueries`, `RemoveUrl`, `ThumbDownUrl`, `Sweep` are the calls; each does a
sequence of operations in groups, cut at each access to the file (`Find`, `Get`, `Put`, `Out`,
`Count`, `WalkNext`, `WalkRead`, `Prune`); `PutFails` and `FindNull` are the failures, `Crash`
ends the program between any two steps and starts it again. Any of the threads in `Sweepers`
may sweep, the main one and httpserv's, and at once: `dbiterinit` of the later walk puts the
one iterator back, and what one walk gets the other does not (`Walkers`, `due`). RecordBook is what this
promises to a program of one thread: every call does one thing at once, adds one of the hits
in `Amounts` or takes them back, and a record that
is being rewritten when the program dies may be lost, no other. `IsBook == Book!Spec` in
UserDatabase, with `BookView` as the refinement mapping: a record that `remove_query` has taken
out and not yet put back counts as there. With several threads there is no such view
(updates are lost), and none is claimed. Keys of URLs and of hosts share one name space:
`Hosts` are the keys of hosts among `Uris`, and since the key of a URL that has a host
begins with "http://", the URL and the host that `thumb_down_url` lowers are never one key.

### DatabaseRepair (user_db_fix.cpp, db_query_record.cpp, seeks.cpp)

A start on a file of an older version: `Open`, `Check`, the five fixes (`Fix`), each a walk that
takes a record out (`Take`) and puts what became of it back (`PutBackRecord`, `PutBackFails`),
the copy of fix 169 with its `Unlink` and `Rename`, and `Stamp`. `Dies` and `Again` are a crash
at any step and the next start. The walk may meet what it has written itself, as the
iterator of the file may. What normalises a query (blanks, case) or a URL is a function
given by constants; `RepairAssumption` says what is known of these functions (to cut blanks and
to lower letters can be done in either order, done once they have nothing left to do, and
neither changes the number of words) and of an old file: a record stands under fragments of
its queries, with as radius the number of words the fragment leaves out, and a file has had the
fixes of its version. `failed`, `missed` and `lost` record when the program did what takes a
promise away; the properties name them.

### Exchange (seeks_proxy.cpp)

One client through `serve` and `chat`: `Receive`, `Intercept` (plugins' actions, after the
headers were processed), `Crunched`, `ConnectAndSend`, `ReadHead` and `ReadBody` in pieces of
any size, `MarkerSeen`, `Finished`, `ServerEnds`, `HeadRefused`, `ReadTimeout`, `ReadFails`,
`ClientEnds`, `Account`, `Continue`, `Close`. A server that closes within the head
(`ServerEndsInHead`) is a blank line to the parser of heads, the IIS5 hack: if a head ends there
it is passed on, or kept to be filtered, and an error page follows it on the same connection.
Bytes are counted and not looked at; `LineEnds` says where the
lines of the head end, `told` and `out` what the client was sent, `end` how reading ended.

### Headers, Filtering (parsers.cpp, filters.cpp, proxy_dts.cpp)

Headers has one operator for each parser and each adder, in the tables of patterns that
`sed` goes through (`SedClient`, `SedServer`), and `UpdateServerHeaders`. A client state is a
record; where a header holds a number, the number is kept, otherwise a name. Filtering has
access rules with their masks bit by bit, forwarding, the buffer and its limit, dechunking,
decompression and the run of the filters with the headers afterwards.

### Urls, Encodings (urlmatch.cpp, loaders.cpp, encode.cpp, filters.cpp)

Requests and URLs as sequences of tokens; patterns of domains and hosts with the
matcher that does not go back (`SimpleMatch`); pattern files line by line. In Encodings
texts are sequences of character codes: URL and HTML quoting, and the last address in a
URL for fast redirects. The matches of paths are regular expressions (external).

### Plugins, Pages, Templates, HttpServer (plugin_manager.cpp, cgi.cpp, cgisimple.cpp, httpserv.cpp)

Plugins: the registry as a function of the libraries found and of the order in the
configuration. The patterns of a filter are a number: each is the same pointer, to a line
buffer that is gone when they are compiled, so that `memory` says what a request finds there. Pages: `DispatchCgi` finds who answers a request, each built-in page is an
operator, and `ErrorPage` and `Finished` are the response. Templates: loading with includes,
and `TemplateFill` over blocks and variables. HttpServer: `Serve` is the second door to the same
handlers, with its routes, statuses and sweeps; it extends Pages, so that both doors can
be compared on one request.

### Connecting (gateway.cpp, spsockets.cpp)

`ConnectTo` tries the addresses of a host, `Socks4Connect` and `Socks5Connect` negotiate, `BindPort`
listens. The world `w` has errno, the open sockets and the one in hand; each system call
has a set of outcomes that the environment chooses from.

### Snippets, Renderers (sort_rank.cpp, seeks_snippet.cpp, clustering.cpp, oskmeans.cpp, *_renderer.cpp)

A snippet is a record of what merging and ranking look at. Snippets merges answers
(`SortMergeAndRankSnippets`), sorts them by each order, chooses seeds and clusters over a
table of likenesses, and cuts summaries. Renderers says which of them a page shows, with
links, clusters, recommendations and the separators of JSON.

### Hashing, Likeness, Ranking (lsh/, dht/DHTKey.cpp, rank_estimators.cpp, query_recommender.cpp)

Hashing: keys as sets of bits, with the operators of `DHTKey`; the chains of words of a
query as `mrf` builds them, with its stack; distances of feature lists. Likeness: the table
of `LSHUniformHashTable` with its buckets, and projections of texts. Ranking: what one
personalisation keeps of the records it got, filters, raises and recommends. Hashes are
one-to-one names; ranks are signs, since their sizes are floating point.

### Engines, ImageSearch (se_handler.cpp, img_websearch)

Engines fills in the address of each engine of texts and images, and reads its answer. A
page is the sequence of what libxml2 calls back for: elements with their attributes, texts whole
or in pieces. Each engine's parser is three operators, `GgleStart`, `GgleText`, `GgleEnd`
and so on for all 23, over one record (`MkSeParser`): flags, texts that are being collected,
snippets made, listed and deleted, and the count; a write through a pointer to nothing or to what
was deleted sets `stray`. `Markup` is the page that a parser was written for, and external: the
results with each choice of their parts, with what the parser drops (addresses of other
services, blocks of the latest results) and what it takes apart. A text is the part of a result
that it comes from, so that what is mixed up shows. What `set_title`, `set_url` and their like
clean up in a text is left out, and so is that the handlers do not look at the `length` of a
text. ImageSearch: `GenerateImages` over a history of requests, each of the calls as a
list of steps that take and give mutexes (`PerformSteps` with every failure), and the merging
of images.

### How the modules are composed

The modules of the concurrent core meet in the sweeper: each has the part of it that frees
its objects. Four modules put parts side by side for TLC, of which one runs in each
behaviour (`part`), since they share no state: `MCEnding` (contexts, connections),
`MCApart` (peers, connections without sharing), `MCChanges` (repair, configuration, searches)
and `MCServing` (the client list, an exchange, and the pure parts). In MCServing `Pose` chooses
one input for one of the pure parts, and the invariants say what must be true of what
the program makes of it: all inputs up to a bound are visited. `MCQueryContexts`,
`MCRecordStore`, `MCReusableConnections` and `MCUserDatabase` name the constants and symmetry
of their instances. The `..._proofs` modules hold the theorems.

## Runs

| run | what it shows |
|---|---|
| `registry` | two threads with four handlers that break the locking rules (`select` searches and goes on in `qc_redir`) and refused parameters: look-ups never return a freed context and the dust is exact, even so |
| `discipline` | thirteen handlers that keep to the mutex: exclusive work, destruction under it |
| `ending` | sweeps end, unused contexts are freed; while a monitor waits, idle connections are closed or taken |
| `store` | store, dust and destructors agree, double unlock included |
| `shared` | with connection-sharing: exclusive sockets, no reuse over bytes known to be unread, the assertions of gateway.cpp |
| `apart` | dead peers are watched and marked back, nothing dangles; without connection-sharing requests go to the right server |
| `database` | with one thread the database is the book of records, crashes included; with two, no visit counts twice and no sweep misses an old record unless another overlaps it |
| `changes` | a repair survives crashes at any step and ends; configurations are read whole and not stale; searches have all their pages and end |
| `serving` | the client list and its limit; an exchange ends and sends what it announces; and the pure parts: headers, filters, URLs, plugins, pages, the two doors, sockets, results |
| `shared_catch`, `etag`, `toggle` | counterexamples, see below |

The properties of `serving` and `changes` are conjunctions of named parts, one for each thing
that is promised; the parts stand in the modules they are about, each with a comment that
names the code and says where the promise is limited. In words, the pure ones:

| part | what holds |
|---|---|
| `HeadersAgree` | a connection is kept only if the client asked for it, one Host header is sent, and the request goes where it says; the server's timeout is never exceeded; with no_tracking nothing that identifies passes |
| `FilterPipeline` | a mask is the first bits of an address, and an exception of a rule holds whatever follows; a buffer never outgrows its limit, loses nothing and sends nothing twice; a TRACE through proxies ends; a filtered answer is framed as its headers say |
| `UrlsAndPlugins` | no pattern matches a host it does not stand for, and a wider pattern takes more; a request that was put together is read back, the two parsers of URLs agree, forwarders are read back, paths are walked from the end; names of URLs are idempotent; line ends do not matter; a reload leaves what the file says but for the lists that grow; plugins start in the order of the configuration; pages reach their plugin; jobs of a filter run in their order until one fails; engines are sets of pairs, each answer meets its own parser and each output is freed once; quoted texts are read back; redirects go to the last address |
| `PagesSafe` | lengths are true, only own pages toggle, numbers are exact or refused, own pages are answered, errors of a server are told, menus lead on and links are complete; templates stand where they are included, blocks are cut, of each conditional one branch is left |
| `DoorsSafe` | both doors tell the same, and searches are swept |
| `SocketsSafe` | no socket leaks, whatever fails; of several attempts the last is left |
| `ResultsSafe` | each page is listed once, types and clusters partition the snippets, orders hold, seeds are distinct, contents are fetched once, neighbours are found once, a result two peers know is one; summaries fit, pages cover all snippets once and link back, formats agree, JSON is separated, answers in XML are whole; recent queries agree, a node says what is enabled; keys are on their circle and are read back, chains are all there, queries with the same words meet, texts are covered by their windows, a text finds its likes; distances are least, ranks and recommendations right; queries are quoted whole, pages of engines follow, and what is listed of an answer, wherever it is cut, are results of its page, in order, ranked without a gap and each with its own texts; images are fetched in the mode asked for, calls leave no mutex locked |

Bounds. Two threads are what each hazard of the core needs: one that is between two
steps and one that does something there (the sweeper or the monitor is a third). One
query is enough for contexts, since contexts of different queries share only the
containers, whose operations are atomic; two addresses let a context be freed,
replaced and its address come back while an old pointer is held. Two records
and two keys let a record be replaced while another keeps its cache alive, and
also be the only one of it. `shared` has three descriptors for two threads and two slots, so
that one can come back while others are held, and one destination, since sockets do not
depend on it; `apart` has two destinations, the least with which a request can go wrong.
One slot for two threads (`ending`) makes the table overflow; one descriptor is enough
there, since what closes idle connections does not depend on their number, and of the
handlers `types`, which resets its context when it leaves, and `select`, which redirects into
`qc_redir` without the mutex. `registry` and `shared_catch` have refused parameters as well. Three objects let both
threads make a `dead_peer` for one peer while a third is being destroyed. Four clients with
a limit of two let the walk meet finished clients at the head, in the middle and
at the end of the list. `Timeout`, `Retries` and `MaxRetries` are 0 or 1, the least with
which the outcomes of their comparison that a run needs occur.

`database` has two queries that share a fragment, two URLs, two URIs, two threads that both
sweep and are symmetric, two calls, three moments of time with a retention of one second, and starts on an empty and on a full file, with the
program of one thread or of several; the book's `Amounts` are -3 .. 3, which no call of the run goes beyond, the records of its full file are of time 0; with two calls each may be cut by the other at any
access. `changes` has eight old files that between them need each fix and hold each bad
entry (blanks, upper case, text that is not UTF-8, URLs to be cut, converted and dropped, a key
that cannot be read), one crash at any step; two threads, two calls, two edits, two contents of the file,
each of five objects; and two searches, a peer, two pages, engines that are added later, among
them the dummy feed.
In `serving` an answer has a head of two lines (`LineEnds` {0,2,3}) and a body of up to three
bytes, the end mark of chunks two, the buffer two, so that marks and limits are met across
pieces; a client has two requests. The pure inputs are sequences of up to three to five
elements over alphabets that have one member for each case the code tells apart;
`MCServing` gives each set.

Deadlock is checked in every run but `store` and `changes`: there the program really can
stop, in the lock cycles of cr_store.cpp and in the three waits of the configuration
described below; these runs show that their properties hold up to that point.

Fairness, with what justifies it:

* threads run when they can: weak fairness of each thread's steps (POSIX threads;
  every network operation has a time-out, so a call ends);
* sweeps recur: `listen_loop` sweeps before each accept. This takes it that
  connections keep arriving, and without them nothing is freed;
* a thread that waits for `_mem_dust_mutex` gets it in the end: strong fairness of
  that step, since between two sweeps the main thread blocks in `accept` without it;
* the clock runs (`Age`, `Tick`);
* `changes`: the program's own steps together are weakly fair: a start is sequential, and
  searches and calls go on while any of them can;
* `serving`: the main thread's walk and `listen_loop`, and the exchange's own steps with its
  timeouts (poll has one); not the client and not the server.

Nothing is assumed about threads of clients ending, requests arriving, peers answering,
servers hanging up, operators, crashes, or who wins the mutex of a context.

## Divergences

Three runs check what a comment says and show that the code does otherwise; the
traces are TLC's.

* `shared_catch` (`CaughtIsLive`): a search that found nothing deletes its context
  (websearch.cpp 1385) while another call has caught it and waits for its mutex.
  Line 1118: "Mutex allows multiple simultaneous calls to catch the same context
  object."
* `etag` (`EtagIsHeld`): no_tracking.cpp 57 sets the action that crunches If-None-Match and
  "avoids resending a tracking ETAG", but plugins act (seeks_proxy.cpp 1361) after the
  request's headers have been processed (1178): the first request of a connection sends
  the header.
* `toggle` (`ToggleShows`): cgi.cpp 539 says that toggle calls from elsewhere are modified
  "so that they only display the status": the parameter is removed, and the handler
  dereferences what it then finds (710), NULL.

The modules can show more of them. They are not among the runs, whose number is kept
small; the constants to see them with are given here.

| property | constants | what happens |
|---|---|---|
| `SecondLookupFinds` (QueryContexts) | `Handlers = {"snippet"}`, one thread | websearch.cpp 1399, "should never happen": after a search without snippets it does |
| `StaleIsReclaimed` | `Handlers = {"search", "cache"}`, one thread, `FairSpec` | `search_cache` returns with the mutex locked (websearch.cpp 622); the sweeper never gets it |
| `WorkIsExclusive` | `Handlers = {"suggestion", "clusterize"}` | `clusterize` unlocks twice (websearch.cpp 970 and 1017) and frees another call's mutex |
| `WorkIsExclusive` | `Handlers = {"select"}` | `qc_redir` reads the context that it looked up without its mutex (query_capture.cpp 238-245) |
| `WorkIsExclusive` | `Handlers = {"search"}`, `BadParameters = TRUE` | a personalised search with refused parameters is unlocked while its threads work on the context (websearch.cpp 1188-1203, 1265-1280) |
| `DestroyedLocked` | `Handlers = {"search", "delquery"}` | `recommendation_delete` deletes a context without its mutex (cf.cpp 606); query_context.cpp 154 says it is "locked in sweep_me() or before destruction" |
| `RegisteredIsActive` | `Handlers = {"post"}` | two contexts are registered for one query (cf.cpp 469) |
| `RemovalIsAutomatic` (RecordStore) | as `store`, every mutex fair | `add` takes store, cache and dust, the sweeper the other way round: both wait for ever (cr_store.h 26: "the sweeper deletes it") |
| `UpdateCompletes` | one key, one cache, two records, `FairSpec` | replacing the only record of a cache locks `_store_mutex` again in its holder (cr_store.cpp 100) |
| `StoredIsIntact` | `Callers = {"records", "data"}`, one thread, one record | a record just stored is deleted by its caller (rank_estimators.cpp 450) |
| `ReadIsLive` | two threads, two keys, three records | a record is deleted while it is read (cr_store.cpp 214) |
| `RightDestination` (ReusableConnections) | `Sharing = TRUE`, two destinations | `chat` closes a socket of the table without forgetting its slot (seeks_proxy.cpp 1431); the number comes back for another server |
| `IdleIsClosed` | two slots, fair | a connection remembered while the monitor leaves is watched by nobody (seeks_proxy.cpp 2204) |
| `LatencyIsOwn` | `Latencies = {0, 1}`, two slots | the times go to slot 0 (gateway.cpp 193) |
| `PeerRevived` (PeerMonitor) | a peer of resource "tt" | it is never tested and stays dead (peer_list.cpp 187), while ChangeLog 118 says that dead peers are marked back |
| `DeadAfterRetries` | one retry, `Spec` | `_retries` is never reset: after the first death one failure is enough (rank_estimators.cpp 188) |
| `SweptIsLive` (ClientList) | `Servers = {httpserv}`, three clients | two threads walk the list when the proxy and httpserv both run (httpserv.cpp 256) |

In the parts that were modelled as algorithms, each property says where the program does
otherwise, so that it holds of everything else. What is excepted there, and what the
modules reproduce beside:

* Configuration. `load_config` returns with the write lock when the file does not open
  (configuration_spec.cpp 82-86), `store_queries` leaves the read lock when it throws
  (query_capture.cpp 322-324), an image context reloads under the read lock of its own
  thread, and `similarity` takes the context before the lock where others take it after
  (websearch.cpp 846-860): the three waits of `CallsEnd`. A change of the file between
  its reading and the stat is not seen (`NeverStale`). Rules of access, forwarding and peers
  of an earlier file stay (proxy_configuration.cpp 469, 557; cf_configuration.cpp 64, 120);
  the directory of templates gets its prefix again (1184); a reload frees lists of stop
  words that threads use (lsh_configuration.cpp 83).
* Searches. `ccheck=yes` sets a horizon without fetching its pages (`skipped` in
  `AllPagesAsked`); a search with a bad horizon unlocks its context before it joins those
  who work on it (websearch.cpp 1188); each constructor of an estimator initialises the
  static mutex again, so that two threads may rank at once (rank_estimators.cpp 62,
  `renewed`); a parser thread that is not created shifts the outputs of the later ones
  (se_handler.cpp 887-901), and in image search its arguments are deleted and then used
  (se_handler_img.cpp 444).
* Configuration readers. The proxy's own threads read its configuration without the lock
  (seeks_proxy.cpp 2474); `ReadersUndisturbed` is about those that take it.
* Database. Two threads lose updates of each other (user_db.cpp, `add_dbr`), which
  `CountsAgree` lets pass, since it bounds hits from above; of two walks that overlap neither
  need find what is old (user_db.cpp 588, one iterator), so that `PruneIsComplete` is about the
  others; a prune may
  remove a record that was written again after the walk; `_nr` is not locked
  (uri_capture.cpp 360); `remove_query` loses the record it is rewriting when the program dies.
* Repair. `main` looks at the last result only (seeks.cpp 593-636), so that a database may be
  marked although a fix failed (`failed` in `MarkedIsFixed`). A start that finds one record
  skips the fixes and makes the mark (590-638), also when there were more at first: fix 154 may drop a
  record, a crash may lose one, and the next start then marks what the later fixes have not
  seen. Fix 575 may merge a record into one that its walk has not met, and since what is put
  grows the file may move it behind the iterator (user_db_fix.cpp 717-727); both are `missed` in
  `MarkedIsFixed`, and were found when its proof failed. Fix 281 takes one slash of a
  URL that ends in two (db_query_record.cpp 551), which `RepairAssumption` excludes. Fix 169
  tests a pointer for a radius.
* Exchanges. The status of an earlier answer is not reset, so that the answer behind a 304 may
  be taken for one without a body; plugins of a kept connection
  are added up. An answer in chunks is taken for complete when any read of it ends in
  0 CR LF CR LF (seeks_proxy.cpp 1687-1698), and the beginning of a line of the head may be counted
  as body (1918-1921, 2037-2049), so that an answer with a length ends that much early:
  `expected` then equals `byte_count`, nothing is tainted, and the next request of the connection
  reads the rest. `KeptIsWhole` makes an exception of just these bytes; `CleanReuse` is about what
  chat knows to be unread. A page follows the head on the wire when the server closes within
  it and the IIS5 hack ends it (2070-2081), and when nothing was counted of a body at a
  timeout (1585). A body that cannot be inflated goes out with a byte more than announced
  (parsers.cpp 462, `FilteredEndsWell`). A connection that succeeds is given up when errno
  is still that of an earlier one (seeks_proxy.cpp 1436, `LastIsLeft`).
* Filters. All patterns of a filter are one pointer to the line buffer of
  `pcrs_load_code_file`, which is overwritten by each line and is gone when a dynamic filter
  compiles it (plugin_element.cpp 219, 269-277, 297-304): such a filter never runs its own
  jobs. Of fixed jobs only the first one is linked, `lastjob` being handed over by value. `JobsRun`
  states both. A dynamic filter is compiled for each request into the one `_joblist` of its
  element, which threads share: this race is not modelled.
* URLs. The matcher does not go back, so that some hosts a pattern stands for are not
  matched (urlmatch.cpp 992-1004): `NoFalseMatch` is one direction only.
* Pages. A parameter that is not there is dereferenced (cgi.cpp 710, 755; cgisimple.cpp 386):
  `CRASH` in Pages; an unreadable file keeps its length (`LengthIsTrue`). The HTTP server
  answers a missing file with 200 (httpserv.cpp 503-507) and tells an engine that cannot be
  reached otherwise than the proxy (`DoorsAgree`).
* Results. With copies of a seed the arrays of k-means are written outside of their ends
  (oskmeans.cpp 170-216, `SeedsDistinct`); results of peers alone are merged by the order in
  which they come (`OneOfEachPage`); JSON of recommendations starts with a comma when its
  first snippet is not one (json_renderer.cpp 238); the template has eight places for
  clusters (static_renderer.cpp 339).
* Ranks. When all that is known of a page is a vote against it, its rank is 0/0 and nothing
  is raised (rank_estimators.cpp 958, `AllAreRaised`); negative votes of peers never change the
  filter (1506-1508); a page voted down comes back under another name; of two stop words
  that stand together one stays (1461-1466).
* Keys and likeness. A removal after a removal of the same text can fail
  (LSHUniformHashTable.h 391-426), and a text without a bucket is looked up through an iterator
  that was not set (557).
* Engines and images. With one result per page yahoo's second page is its first
  (`PagesFollow`). Without a safe search of its own a request is counted for the configured
  mode, whatever was fetched (img_query_context.cpp 164-192, `ModesHavePages`); an empty
  context of images is deleted and its mutex unlocked (img_websearch.cpp 748-753), and it is
  swept without a look at its mutex (img_query_context.cpp 51); of an image from
  several engines only the first one is shown (670).
* Parsers of pages (`ReadWhole`, `ReadSoFar`). Dokuwiki's and dotclear's never list the last result, and
  google's none after a block of the latest results, whose flag takes the end of the list
  (se_parser_ggle.cpp 329-334). Where a snippet is listed at once and checked when the next one
  begins, the last is not checked (exalead, flickr, wikimedia, the images of bing and of yahoo;
  at yahoo, whether it is one of its own news); bing's API, delicious, redmine and wordpress check none. Of an address that libxml2 hands out in
  pieces the RSS parser keeps the first, of a date twitter's the last. `se_parser_mediawiki`
  does not set `_results_flag`; the first link of the results raises it in time. An empty
  description in a feed of youtube loses the whole answer.

## Proofs

Each theorem holds for every value of the constants that meets the ASSUMEs of its
module: names that are distinct, numbers that are natural, finite sets of objects where
something is counted (PeerMonitor, Expansion, UserDatabase), line ends that are a finite set
of numbers with 0 in it (Exchange). TLC evaluates these assumptions in the runs. Two more
say what a module needs of the program: `Word > Cardinality(Uris) + 2 * MaxCalls` in
UserDatabase (a word of 32 bits outlasts the calls that are counted), and in the theorems
about ClientList the hypothesis
`Servers = {}`, since with httpserv's thread beside the proxy they are false. What
`RepairAssumption` says of names and old files is described with DatabaseRepair.

**QueryContexts_proofs.** `TypeCorrect`. `RegistrySafe`: `ActiveIsLive` is inductive with
the types, because `Free` clears the entry that leads to the freed context and
nothing else shrinks `alive`. `DustSafe` needs `DustInv`: no thread unknowingly
holds a pointer to a freed context, a context about to be destroyed has left the
dust, and the dust does not change while the sweeper walks it. Both are for every
set of handlers, those that break the rules included. `LockedDestruction` assumes
`Handlers \subseteq LockingHandlers`: in `LockingInv` a thread between lock and unlock of a
context holds its mutex, the steps that destroy or unlock without it are not reached,
and the sweeper's victim is locked by it. `ExclusiveWork` is about all steps that look into
a context, those behind an unlock too, and so assumes more: `Handlers \subseteq
DisciplinedHandlers`, without `qc_redir`, and `~BadParameters`; `DisciplineInv` adds that these
two are not reached. `OneContextEach` (`RegisteredIsActive`) assumes
`Handlers \subseteq RegisteringHandlers`, all but `recommendation_post`, with which it is false
(see the divergences): in `RegisteringInv` who creates a context holds `_context_mutex`
from the lookup to the registration, so that there is none for its query meanwhile, and
the sweeper, which frees without it, only makes room. Lemma `OneMoves` says once what is
common to most steps: one thread moves, the others and their contexts stay.

**RecordStore_proofs.** `StoreInv` joins the four properties with what the pointers
of a thread lead to (`PointersInv`), what has already left the dust and the index
while a record is destroyed (`DestroyedInv`), the sweeper's own part (`SweepInv`) and,
for empty caches, the sharper `EmptyInv`: it is a particular step of a particular
thread that takes care of the cache. The double unlock is a step like any other
here, so the proof shows that these properties do not rest on `_store_mutex`.
Theorems: `TypeCorrect`, `DustSafe`, `IndexSafe`, `DeletedOnce`, `CachesOwned`.

**ReusableConnections_proofs.** `SocketInv` ties the three properties about sockets
together: a thread's socket is open, a slot that waits holds an open socket
nobody holds, and one about to be remembered is in no slot. `AssertionsHold` follows
from it without a step. `OneMonitor` and `UnreadInv` (an unread answer is with a thread
that reads it or will not keep the socket) are inductive on top. `UnsharedGoesRight`
assumes `~Sharing` and shows the property that fails otherwise (see the divergences).
Theorems: `TypeCorrect`, `ExclusiveSockets`, `IdleSocketsFree`, `AssertionsHold`,
`MonitorIsAlone`, `NoGarbage`, `UnsharedGoesRight`. `NoGarbage` promises nothing of answers
that chat takes for complete too early (`StopEarly`): what these are is in Exchange.

**PeerMonitor_proofs.** `MonitorInv`: the three properties with what a thread and the
sweeper have in their hands at each place. `SweepInv` has the point of the argument:
once the key of the object to be destroyed was taken out of `_dpl`, nothing lists
that object, so its memory may go, although another object may be listed under the
key by then. Theorems: `TypeCorrect`, `PeersMonitored`, `NothingDangles`, `OwnedOnce`.

**UserDatabase_proofs.** A call is a list of groups of operations, so the types say first what
lists of operations there can be: `TypeInv` joins the shapes of local variables
(`LocalShapes`), the file and the clock (`Globals`) and, for each thread, that what is left
of its call is the rest of a call that could have begun (`Fine`). On top, `VisitsInv`: a
record in the file, or about to be written, has no more hits than visits, which merging
keeps (`MergeKeeps`). `NrInv`, for one thread, bounds the count from both sides: `_nr`
with what is still to be counted is no less than the captured URIs, and no more than the
URIs and two for each call; the second part is what keeps `_nr`, taken modulo a word, from
wrapping. `WalkInv`: an old record that a sweep has not yet doomed is still
in the iterator's hands, unless another walk overlaps it; `Sweepers` may be any threads. `BookInv` is for the refinement of RecordBook: in a program of one
thread a record in hand, read to be merged or pruned, is what the file holds (`AsRead`), one
that `remove_query` has taken out and not put back is what `BookView` shows for it (`Restoring`),
and no record is later than the clock. With it each action of the database is one step of the book or
leaves it as it is: `Put` is `Credit` or `Rewritten`, `Out` is `Withdraw` or `Forget`, `Prune` is
`Expire`, `Crash` and a `Put` that fails are `Lose`, and all else is a stutter; for several threads the
view stands still and nothing is claimed. The theorem has the hypothesis `Amounts = Int`, the book that
leaves open how many hits a call adds or takes back.
Theorems: `DatabaseTypeCorrect`, `CountsAgreeAlways`, `PruneIsCompleteAlways`, `IsBookAlways`.

**Changes_proofs.** Configuration: a thread is always at a rest of a script of
the code (`ScriptsFollowed`), and from the rest one reads whether it holds the read lock
(`ReadersCounted`), whether it may write (`WriterAlone`) and whether it has yet to reload
(`Fresh`). Theorems: `ConfTypeCorrect`, `NeverStaleAlways` and the action property
`ReadersUndisturbedAlways`. Feeds: `FeedsArePairs`, that union, difference and
intersection of engines with their URLs, as `feeds.cpp` does them, are those of the sets of pairs.
Expansion: `ExpansionInv` joins the types with who holds the context's mutex at which
place (`ContextHeld`), that a search leaves no thread behind (`ThreadsCovered`), that ranking
comes after its own fetches (`RanksAfterFeeds`, `RankingHolds`), that one thread ranks at a time until
the mutex is renewed (`EstimatorHolds`), and that the pages of the context and
those which a search is fetching now cover its horizon (`PagesCovered`). Theorems:
`ExpansionTypeCorrect`, `ExpansionSafeAlways`, `AllPagesAskedAlways`.

**Serving_proofs.** ClientList: the list is given by places, natural numbers that rise along it
(`InOrder`); taking out the element after the walk's and putting one in front keep
this order (`TakenOut`, `PutInFront`), from which follow that the walk never leaves the list, that no client is
listed twice and none is freed while it serves. `ListInv` adds the limit (`Capped`). Theorems:
`ClientsTypeCorrect`, `UsedIsLiveAlways`, `CapHoldsAlways`. Exchange: `ExchangeInv` says what is known
of the bytes when (`HeadComes`, `BodyComes`), that the client is told a head, a body and an end
in this order (`ToldInOrder`), that what has come of a body is what was passed on and, but for
a part of a line, what was counted (`CountIsBody`), when a connection may be kept and what
was read of its answer then (`Kept`, `KeptIsWhole`), and that a filtered
body is whole (`FilteredIsWhole`). Theorems: `ExchangeSafeAlways`, `ExchangeTypeCorrect`.

**DatabaseRepair_proofs.** The first half says what each fix does to one record, from what
`Renamed` does to any function (`RenamedIs`, `RenamedSame`): `Mends`, that a mended record is
one, is left alone by this fix from then on and by every fix that left it alone before, and has
each query that is UTF-8 under the name and the number of words it had; and `RewritesIs`, that a
fix writes exactly the records that it has something to do with. `MergedLeft` carries
this through `merge_with`, `Fix169Is` says what the copy adds. The second half is `RepairInv`:
where `main` is and what it knows of the version (`RepairPlaces`), that the records a finished
fix, or the part of a walk that is done, has behind it are left alone by it
(`FixedInv`), that a query of radius 0 and a visit are in the file or the hand, or in the new
file once the old one is gone (`KeptInv`), for which what the copy of fix 169 has passed must be
in the new file (`CopiedInv`). The words of a query carry the argument through a change of
keys: radius 0 is that the query has as many words as its key. Theorems:
`RepairInvariant`, `RepairTypeCorrect`, `RepairSafeAlways`.

Where numbers must be induced over, `LeastNat` (a set of natural numbers that is not empty has a
least member) stands in for the induction theorems, whose parameter is an operator: it follows
from the well-foundedness of `<`, which the library states without one. That
is how a finite set of numbers is shown to have a maximum (`FiniteHasMax`).

Only model-checked: liveness (`SweepEnds`, `StaleIsReclaimed`, `WatchedIsClosed`,
`PeerRevived`, `Reclaimed`, `ExchangeEnds`, `ChangesEnd`), which is beyond the prover; the
`RightDestination` as `apart` checks it
beside the peers (its theorem is `UnsharedGoesRight`); and the pure parts: `HeadersAgree`,
`FilterPipeline`, `UrlsAndPlugins`, `PagesSafe`, `DoorsSafe`, `SocketsSafe` and `ResultsSafe`. These rest on
recursive operators of Urls, Encodings, Templates, Hashing and Snippets, in the modules
that extend these too, or on folds: what a recursion or a fold computes for every
input would need induction over data.
Some theorems state properties that no run lists, because a stronger property or the proof
itself covers them: the type invariants, `EmptyCacheIsOwned`, `OneMonitor` and the inductive
invariants themselves; `RegisteredIsActive` is false in `registry`, where
`recommendation_post` runs. `FeedsAsPairs` is a part of `UrlsAndPlugins`.

## What is not modelled

* Data races inside one container operation (the renderers walk the dust without its
  mutex): container operations are atomic here.
* The end of the program: `gracious_exit`, `sweep_all_*`, signals, and the program
  without threads.
* libcurl, libxml2, libevent, zlib, pcre, OpenCV, protocol buffers and Tokyo Cabinet: what the
  code makes of their results is modelled, and that they may fail. Hence, of the parsers of
  engines' pages, which call-backs a page leads to; paths of patterns as regular expressions; and
  the likeness of pictures. Without threads all parsers share one list: bing's, which begins
  at an empty list, then reads nothing behind another engine.
* `curl_mget`: a thread per URL, joined in order, with nothing shared between them.
* The size of ranks and weights: floating point; only their sign is kept, or a table of whole
  numbers stands for it.
* Wording and layout of pages, logs, HTML descriptions of options, dates of cookies, titles and
  summaries of URLs in the database.
* Command line tools, option parsing and daemonisation; `readable`, which extracts the text of
  a page; the string functions of `utils` beyond those that the modules need.
* A reload of the list of peers under running personalisations: Options has what the reload
  does to the list, PeerMonitor what threads do with a peer, and they are not composed.

## Plan

Done: the contexts, record store, connections, peers and clients; searches,
configuration, user database, repair and exchange; the pure parts of serving and
searching; the proofs above. Next:

1. `MaskIsPrefix` of Filtering for addresses of any length.
2. An abstract sweeper (registered, swept once, freed) that QueryContexts, RecordStore
   and PeerMonitor refine.
3. The database service as an exchange: time-outs, empty and bad answers; PeerMonitor's
   calls become an abstraction of it. The peers' reload composed with PeerMonitor.
4. The end of the program: `gracious_exit` and `sweep_all_*` beside running threads.
