------------------------------- MODULE Options -------------------------------
(* What the options of the configuration files say, object by object        *)
(* (proxy_configuration, websearch_configuration, ...), and what a reload    *)
(* of a file leaves of what was loaded before.  A file is a sequence of      *)
(* commands, a command a name and the words behind it.                       *)
EXTENDS Integers, Sequences, FiniteSets, SequencesExt, TLC

CONSTANTS Numerals,    \* a function: the words that start with a number, and atoi of them
          BadWords     \* words that are no address and no pattern of URLs

Feed == INSTANCE Feeds WITH Names <- {0}, Addresses <- {}, SEEKS <- 0

Command(name, args) == [name |-> name, args |-> args]
Word(c, i) == IF i \in DOMAIN c.args THEN c.args[i] ELSE ""
Atoi(w) == IF w \in DOMAIN Numerals THEN Numerals[w] ELSE 0

\* An option with one value: how it is read, its default, and whether set_default_config
\* sets it again when the file is reloaded.
Opt(kind, default) == [kind |-> kind, default |-> default, reset |-> TRUE]
Lasting(kind, default) == [Opt(kind, default) EXCEPT !.reset = FALSE]
Said(kind, c) ==
    CASE kind = "switch" -> Atoi(Word(c, 1)) # 0
      [] kind = "number" -> Atoi(Word(c, 1))
      [] kind = "kilo" -> 1024 * Atoi(Word(c, 1))
      [] kind = "decimal" -> 10 * Atoi(Word(c, 1))        \* in tenths
      [] kind = "text" -> Word(c, 1)
Plain(options, s, c) ==
    IF c.name \in DOMAIN options
    THEN [s EXCEPT ![c.name] = Said(options[c.name].kind, c)] ELSE s
Fresh(options) == [o \in DOMAIN options |-> options[o].default]
Defaults(options, s) ==
    [o \in DOMAIN s |-> IF o \in DOMAIN options /\ options[o].reset
                        THEN options[o].default ELSE s[o]]

-----------------------------------------------------------------------------
(* The proxy.                                                               *)

ProxyAccept == "accept-intercepted-requests" :> Opt("switch", FALSE)
    @@ "admin-address" :> Lasting("text", "")
    @@ "allow-cgi-request-crunching" :> Lasting("switch", FALSE)
    @@ "buffer-limit" :> Opt("kilo", 4096 * 1024) @@ "confdir" :> Lasting("text", "")
    @@ "connection-sharing" :> Opt("switch", FALSE)
    @@ "cors-enabled" :> Opt("switch", FALSE)
    @@ "cors-allowed-domains" :> Opt("text", "*")
    @@ "ct-transfer-timeout" :> Opt("number", 3)
    @@ "ct-connect-timeout" :> Opt("number", 1)
ProxyRemote == "enable-remote-toggle" :> Opt("switch", FALSE)
    @@ "enable-remote-http-toggle" :> Lasting("switch", FALSE)
ProxyDirs == "forwarded-connect-retries" :> Opt("number", 0)
    @@ "hostname" :> Lasting("text", "")
    @@ "plugindir" :> Lasting("text", "") @@ "datadir" :> Lasting("text", "")
    @@ "logdir" :> Lasting("text", "") @@ "proxy-info-url" :> Lasting("text", "")
ProxyRest == "split-large-cgi-forms" :> Opt("switch", FALSE)
    @@ "toggle" :> Lasting("number", 1)
    @@ "user-manual" :> Opt("text", "manual")
    @@ "automatic-proxy-disable" :> Opt("switch", TRUE)
    @@ "user-db-file" :> Opt("text", "") @@ "user-db-startup-check" :> Opt("switch", TRUE)
    @@ "user-db-optimize" :> Opt("switch", TRUE)
    @@ "user-db-large" :> Opt("switch", FALSE)
    @@ "user-db-bnum" :> Opt("number", -1) @@ "url-source-code" :> Opt("text", "gitweb")
\* What the commands below are about; an address is a sequence: the host, then the port.
ProxyOwn == "keep-alive" :> Opt("switch", FALSE)
    @@ "keep-alive-timeout" :> Opt("number", 180)
    @@ "max-client-connections" :> Opt("number", 0)
    @@ "socket-timeout" :> Opt("number", 300)
    @@ "multi-threaded" :> Opt("switch", TRUE) @@ "runs" :> Lasting("switch", TRUE)
    @@ "user-db-haddr" :> Opt("text", <<>>) @@ "user-db-hport" :> Opt("number", 0)
    @@ "haddr" :> Lasting("text", <<>>) @@ "hport" :> Lasting("number", 0)
    @@ "debug" :> Lasting("text", {}) @@ "logfile" :> Lasting("text", <<>>)
    @@ "templdir" :> Lasting("text", <<>>) @@ "plugins" :> Lasting("text", <<>>)
    @@ "acl" :> Lasting("text", <<>>) @@ "forward-list" :> Lasting("text", <<>>)
ProxySaid == ProxyAccept @@ ProxyRemote @@ ProxyDirs @@ ProxyRest
ProxyOptions == ProxySaid @@ ProxyOwn

\* The priority of a plugin is how many there were before it.
ActivatedPlugin(s, name) ==
    IF name \in Range(s["plugins"]) THEN s ELSE [s EXCEPT !["plugins"] = Append(@, name)]
PluginActivated(s, name) == name \in Range(s["plugins"])
PluginPriority(s, name) ==
    IF PluginActivated(s, name)
    THEN (CHOOSE i \in DOMAIN s["plugins"] : s["plugins"][i] = name) - 1 ELSE -1

ProxyDefaults(s) == ActivatedPlugin(Defaults(ProxyOptions, s), "websearch")

\* deny-access, permit-access: a new rule comes before those that are there.
Access(s, c, action) ==
    IF Len(c.args) \notin 1 .. 2 \/ Range(c.args) \cap BadWords # {} THEN s
    ELSE [s EXCEPT !["acl"] = <<[action |-> action, args |-> c.args]>> \o @]

\* A forwarder or a gateway "." is none; the ports are those not given.
Via(w, port) == IF w = "." THEN <<>> ELSE <<w, port>>
Prepended(s, type, url, gateway, forward) ==
    IF url \in BadWords THEN s
    ELSE [s EXCEPT !["forward-list"] =
             <<[type |-> type, url |-> url, gateway |-> gateway, forward |-> forward]>> \o @]
Forward(s, c) ==
    IF Len(c.args) # 2 THEN s ELSE Prepended(s, "none", c.args[1], <<>>, Via(c.args[2], 8000))
ForwardSocks4(s, c) ==
    IF Len(c.args) # 3 THEN s
    ELSE Prepended(s, "4", c.args[1], Via(c.args[2], 1080), Via(c.args[3], 8000))
\* The gateway of these is parsed whatever it is.
ForwardSocks(s, c, type) ==
    IF Len(c.args) # 3 THEN s
    ELSE Prepended(s, type, c.args[1], <<c.args[2], 1080>>, Via(c.args[3], 8000))

KeepAliveTimeout(s, c) ==
    IF Word(c, 1) = "" THEN s
    ELSE IF Atoi(Word(c, 1)) > 0
         THEN [s EXCEPT !["keep-alive"] = TRUE, !["keep-alive-timeout"] = Atoi(Word(c, 1))]
         ELSE [s EXCEPT !["keep-alive"] = FALSE]
MaxClientConnections(s, c) ==
    IF Word(c, 1) = "" \/ Atoi(Word(c, 1)) < 0 THEN s
    ELSE [s EXCEPT !["max-client-connections"] = Atoi(Word(c, 1))]
\* A timeout that is none ends the program.
SocketTimeout(s, c) ==
    IF Word(c, 1) = "" THEN s
    ELSE IF Atoi(Word(c, 1)) > 0 THEN [s EXCEPT !["socket-timeout"] = Atoi(Word(c, 1))]
         ELSE [s EXCEPT !["runs"] = FALSE]

\* The log file is in the directory read so far; a process at the terminal has none.
Logfile(s, c, daemon) ==
    IF daemon THEN [s EXCEPT !["logfile"] = <<s["logdir"], Word(c, 1)>>] ELSE s

ProxyCommand(s, c) ==
    CASE c.name = "activated-plugin" -> ActivatedPlugin(s, Word(c, 1))
      [] c.name = "debug" -> [s EXCEPT !["debug"] = @ \cup {Atoi(Word(c, 1))}]
      [] c.name = "deny-access" -> Access(s, c, "deny")
      [] c.name = "permit-access" -> Access(s, c, "permit")
      [] c.name = "forward" -> Forward(s, c)
      [] c.name = "forward-socks4" -> ForwardSocks4(s, c)
      [] c.name = "forward-socks4a" -> ForwardSocks(s, c, "4A")
      [] c.name = "forward-socks5" -> ForwardSocks(s, c, "5")
      [] c.name = "keep-alive-timeout" -> KeepAliveTimeout(s, c)
      [] c.name = "listen-address" -> [s EXCEPT !["haddr"] = c.args]
      [] c.name = "logfile" -> Logfile(s, c, TRUE)
      [] c.name = "max-client-connections" -> MaxClientConnections(s, c)
      [] c.name = "single-threaded" -> [s EXCEPT !["multi-threaded"] = FALSE]
      [] c.name = "socket-timeout" -> SocketTimeout(s, c)
      [] c.name = "templdir" -> [s EXCEPT !["templdir"] = c.args]
      [] c.name = "user-db-address" -> [s EXCEPT !["user-db-haddr"] = c.args]
      [] OTHER -> Plain(ProxySaid, s, c)
ProxyHandle(s, c) == IF s["runs"] THEN ProxyCommand(s, c) ELSE s

\* parse_ip_host_port cuts the port off the address it is given.
ParseIpHostPort(addr) ==
    IF Len(addr) = 2 /\ Atoi(addr[2]) > 0 THEN [host |-> <<addr[1]>>, port |-> Atoi(addr[2])]
    ELSE [host |-> addr, port |-> 0]

\* Without threads there is no keep-alive; without keep-alive, of what the file says,
\* connections are not shared.
KeepAliveFinal(s) ==
    IF s["keep-alive"] THEN [s EXCEPT !["keep-alive"] = s["multi-threaded"]]
    ELSE [s EXCEPT !["connection-sharing"] = FALSE]

ProxyFinal(s0) ==
    LET s == KeepAliveFinal(s0)
        here == ParseIpHostPort(IF s["haddr"] = <<>> THEN <<"127.0.0.1", "8250">> ELSE s["haddr"])
        user == ParseIpHostPort(s["user-db-haddr"])
    IN  [s EXCEPT !["haddr"] = here.host, !["hport"] = here.port,
                  !["user-db-haddr"] = user.host,
                  !["user-db-hport"] = IF s["user-db-haddr"] = <<>> THEN @ ELSE user.port,
                  !["plugindir"] = IF @ = "" THEN "libdir" ELSE @,
                  !["datadir"] = IF @ = "" THEN "share" ELSE @,
                  \* in front of what the former load has made of it
                  !["templdir"] = <<IF s["datadir"] = "" THEN "share" ELSE s["datadir"]>> \o @]
ProxyLoad(s, file) ==
    LET r == FoldLeft(ProxyHandle, ProxyDefaults(s), file) IN IF r["runs"] THEN ProxyFinal(r) ELSE r

-----------------------------------------------------------------------------
(* Engines of websearch and of its images.  enabled and byDefault are feeds, *)
(* urls has the options of each URL, own tells that they are the defaults.   *)

Engines == [enabled |-> Feed!NoFeeds, byDefault |-> Feed!NoFeeds, urls |-> {}, own |-> FALSE]
WebEngines == {"google", "bing", "yahoo"}
ImgEngines == {"google_img", "flickr", "wcommons", "yahoo_img"}
AddedFeeds(fs, names) ==
    FoldLeft(LAMBDA acc, n : Feed!AddFeed(acc, n, {n}), fs, SetToSeq(names))

\* set_default_engines adds to what is there.
SetDefaultEngines(e) ==
    [enabled |-> AddedFeeds(e.enabled, WebEngines),
     byDefault |-> AddedFeeds(e.byDefault, WebEngines),
     urls |-> e.urls \cup WebEngines, own |-> TRUE]
SetDefaultImgEngines(e) ==
    [e EXCEPT !.enabled = AddedFeeds(@, ImgEngines), !.urls = @ \cup ImgEngines, !.own = TRUE]

\* The words of search-engine: a name, then threes: a URL, its name and "default" or not.
Threes(args) == {i \in 2 .. Len(args) : i % 3 = 2}
Added(e, args) ==
    LET all == {args[i] : i \in Threes(args)}
        some == {args[i] : i \in {j \in Threes(args) : args[j + 2] = "default"}}
    IN  [e EXCEPT !.enabled = Feed!AddFeed(@, args[1], all), !.urls = @ \cup all,
                  !.byDefault = Feed!AddFeed(@, args[1], some)]
WellFormed(args) == args # <<>> /\ (Len(args) - 1) % 3 = 0

\* The first engine of the file drops those that are there by default.
SearchEngine(e, args) ==
    IF ~WellFormed(args) THEN e ELSE Added(IF e.own THEN Engines ELSE e, args)
\* Of images, those searched by default stay.
ImgSearchEngine(e, args) ==
    IF ~WellFormed(args) THEN e
    ELSE Added(IF e.own THEN [Engines EXCEPT !.byDefault = e.byDefault] ELSE e, args)

WebOptions == "search-langage" :> Opt("text", "auto")
    @@ "search-results-page" :> Opt("number", 10)
    @@ "enable-thumbs" :> Opt("switch", FALSE)
    @@ "query-context-delay" :> Opt("number", 300)
    @@ "enable-js" :> Opt("switch", FALSE)
    @@ "enable-content-analysis" :> Opt("switch", FALSE)
    @@ "se-transfer-timeout" :> Opt("number", 5)
    @@ "se-connect-timeout" :> Opt("number", 3)
    @@ "enable-clustering" :> Opt("switch", FALSE)
    @@ "max-expansions" :> Opt("number", 100)
    @@ "extended-highlight" :> Opt("switch", FALSE)
WebShown == "show-node-ip" :> Opt("switch", FALSE)
    @@ "personalized-results" :> Opt("switch", TRUE)
    @@ "result-message" :> Opt("text", "")
    @@ "dynamic-ui" :> Opt("switch", FALSE) @@ "ui-theme" :> Opt("text", "compact")
    @@ "num-recommended-queries" :> Opt("number", 20)
    @@ "num-recent-queries" :> Opt("number", 20)
    @@ "cross-query-result-insertion" :> Opt("switch", TRUE)
    @@ "max-summary-length" :> Opt("number", 240)
WebOwn == "engines" :> Lasting("text", Engines)
    @@ "background-proxy-addr" :> Opt("text", "")
    @@ "background-proxy-port" :> Opt("number", 0)
WebDefaults(s) ==
    [Defaults(WebOptions @@ WebShown @@ WebOwn, s) EXCEPT !["engines"] = SetDefaultEngines(@)]

\* An address and a port; what is no pair takes the address away and leaves the port.
AddressPort(s, c, addr, port) ==
    IF Len(c.args) = 2 THEN [s EXCEPT ![addr] = c.args[1], ![port] = Atoi(c.args[2])]
    ELSE [s EXCEPT ![addr] = ""]
WebHandle(s, c) ==
    CASE c.name = "search-engine" -> [s EXCEPT !["engines"] = SearchEngine(@, c.args)]
      [] c.name = "background-proxy" ->
            AddressPort(s, c, "background-proxy-addr", "background-proxy-port")
      [] OTHER -> Plain(WebOptions @@ WebShown, s, c)

ImgOptions == "img-content-analysis" :> Opt("switch", FALSE)
    @@ "img-per-page" :> Opt("number", 30)
    @@ "safe-search" :> Opt("switch", TRUE)
ImgDefaults(s) ==
    [Defaults(ImgOptions, s) EXCEPT !["engines"] = SetDefaultImgEngines(@)]
ImgHandle(s, c) ==
    IF c.name = "img-search-engine" THEN [s EXCEPT !["engines"] = ImgSearchEngine(@, c.args)]
    ELSE Plain(ImgOptions, s, c)

-----------------------------------------------------------------------------
(* The other plugins.                                                       *)

CfOptions == "domain-name-weight" :> Opt("decimal", 7)
    @@ "record-cache-timeout" :> Opt("number", 600)
    @@ "dead-peer-check" :> Opt("number", 300) @@ "dead-peer-retries" :> Opt("number", 3)
    @@ "post-url-check" :> Opt("switch", TRUE) @@ "post-radius" :> Opt("number", 5)
    @@ "post-ua" :> Opt("text", "Mozilla")
    @@ "stop-words-filtering" :> Opt("switch", FALSE)
    @@ "remote-post" :> Opt("switch", TRUE) @@ "use-http-urls-only" :> Opt("switch", TRUE)
    @@ "cf-estimator" :> Opt("text", "sre")
CfOwn == "peers" :> Lasting("text", [k \in {} |-> ""])
\* cf-peer: the address and the resource; a peer that is there stays as it is.
CfHandle(s, c) ==
    IF c.name # "cf-peer" THEN Plain(CfOptions, s, c)
    ELSE IF c.args = <<>> \/ Len(c.args) > 4 \/ Len(c.args) % 2 # 0 THEN s
    ELSE [s EXCEPT !["peers"] = @ @@ (c.args[1] :> c.args[2])]

\* The lists of stop words, one of a language: those of the former load are freed.
LshOptions == "lsh-delims" :> Opt("text", "blanks")
    @@ "query-length-protection" :> Opt("switch", TRUE)
LshOwn == "lists" :> Opt("text", [g \in {} |-> ""])
LshHandle(s, c) ==
    IF c.name = "swl"      \* en-swl, fr-swl, ..., by the language
    THEN [s EXCEPT !["lists"] = @
    @@ (c.args[1] :> [file |-> c.args[2], loaded |-> FALSE])]
    ELSE Plain(LshOptions, s, c)
\* get_wordlist: a list is read when it is first asked for, and again when it could not be.
GetWordlist(s, lang, reads) ==
    IF lang \in DOMAIN s["lists"]
    THEN [s EXCEPT !["lists"][lang].loaded = @ \/ reads] ELSE s

QcOptions == "query-max-radius" :> Opt("number", 5)
    @@ "query-sweep-cycle" :> Opt("number", 2592000)
    @@ "query-retention" :> Opt("number", 31104000)
    @@ "protected-redirection" :> Opt("switch", FALSE)
    @@ "save-url-data" :> Opt("switch", TRUE)
    @@ "cross-post-url" :> Opt("text", "")
UcOptions == "uc-sweep-cycle" :> Opt("number", 2592000)
    @@ "uc-retention" :> Opt("number", 15552000)
HttpservOptions == "server-port" :> Opt("number", 8080)
    @@ "server-host" :> Opt("text", "localhost")
UdbOptions == "call-timeout" :> Opt("number", 3)
    @@ "p2p-proxy-addr" :> Lasting("text", "") @@ "p2p-proxy-port" :> Opt("number", -1)
UdbHandle(s, c) ==
    IF c.name = "p2p-proxy-addr" THEN AddressPort(s, c, "p2p-proxy-addr", "p2p-proxy-port")
    ELSE IF c.name = "call-timeout" THEN Plain(UdbOptions, s, c) ELSE s

-----------------------------------------------------------------------------
(* All of them.                                                             *)

Kinds == {"proxy", "websearch", "img-websearch", "cf", "lsh", "query-capture", "uri-capture",
          "httpserv", "udb-service"}
OptionsOf(kind) ==
    CASE kind = "proxy" -> ProxyOptions
      [] kind = "websearch" -> WebOptions @@ WebShown @@ WebOwn
      [] kind = "img-websearch" -> ImgOptions @@ ("engines" :> Lasting("text", Engines))
      [] kind = "cf" -> CfOptions @@ CfOwn
      [] kind = "lsh" -> LshOptions @@ LshOwn
      [] kind = "query-capture" -> QcOptions
      [] kind = "uri-capture" -> UcOptions
      [] kind = "httpserv" -> HttpservOptions
      [] kind = "udb-service" -> UdbOptions
Load(kind, s, file) ==
    CASE kind = "proxy" -> ProxyLoad(s, file)
      [] kind = "websearch" -> FoldLeft(WebHandle, WebDefaults(s), file)
      [] kind = "img-websearch" -> FoldLeft(ImgHandle, ImgDefaults(s), file)
      [] kind = "cf" -> FoldLeft(CfHandle, Defaults(CfOptions, s), file)
      [] kind = "lsh" -> FoldLeft(LshHandle, Defaults(LshOptions @@ LshOwn, s), file)
      [] kind = "udb-service" -> FoldLeft(UdbHandle, Defaults(UdbOptions, s), file)
      [] OTHER -> FoldLeft(LAMBDA x, c : Plain(OptionsOf(kind), x, c),
                           Defaults(OptionsOf(kind), s), file)

-----------------------------------------------------------------------------
(* Properties.  New: what a program that starts with the second file has; Again: what one *)
(* that has loaded the first has after reloading.                                          *)

Names(file, command) == \E c \in Range(file) : c.name = command /\ WellFormed(c.args)

\* A reload says what the new file says: of every option that has a default, and of the
\* engines and the address to listen at when the file gives them (set_default_config,
\* websearch_configuration.cpp 150-157, proxy_configuration.cpp 740-742, 1147-1160).
SaysTheFile(kind, file, new, again) ==
    /\ \A o \in DOMAIN OptionsOf(kind) : OptionsOf(kind)[o].reset => again[o] = new[o]
    /\ kind = "websearch" /\ Names(file, "search-engine")
            => again["engines"] = new["engines"]
    /\ kind = "img-websearch" /\ Names(file, "img-search-engine")
            => /\ again["engines"].enabled = new["engines"].enabled
               /\ again["engines"].urls = new["engines"].urls
    /\ kind = "proxy" /\ (\E c \in Range(file) : c.name = "listen-address" /\ c.args # <<>>)
            => again["haddr"] = new["haddr"] /\ again["hport"] = new["hport"]

\* What a reload cannot take back does not come before what the new file says: the rules
\* of access and forwarding of the new file are asked first, and a plugin keeps its
\* priority (proxy_configuration.cpp 205-210, 469, 557, 621, 688).
NewRulesFirst(new, again, old) ==
    /\ IsPrefix(new["acl"], again["acl"])
    /\ IsPrefix(new["forward-list"], again["forward-list"])
    /\ \A n \in Range(old["plugins"]) : PluginPriority(again, n) = PluginPriority(old, n)

\* Connections are shared only where they are kept alive, unless there is but one thread
\* (proxy_configuration.cpp 1113-1139).
SharedAreKept(new) ==
    new["connection-sharing"] => new["keep-alive"] \/ ~new["multi-threaded"]

ReloadsAgree(kind, second, old, new, again) ==
    /\ SaysTheFile(kind, second, new, again)
    /\ kind = "proxy" => NewRulesFirst(new, again, old) /\ SharedAreKept(again)
AfterReload(kind, second, old, new) ==
    (kind = "proxy" => old["runs"] /\ new["runs"]) =>
        ReloadsAgree(kind, second, old, new, Load(kind, old, second))
Reloads(kind, first, second) ==
    AfterReload(kind, second, Load(kind, Fresh(OptionsOf(kind)), first),
                Load(kind, Fresh(OptionsOf(kind)), second))
=============================================================================
