----------------------------- MODULE PoolConfig -----------------------------
(***************************************************************************)
(* How a configuration becomes a pool (src/config.rs, src/presets.rs,      *)
(* `init' and the start of `serve' in src/main.rs, RpcPool::new, and the   *)
(* constructor of the JavaScript class).  The daemon reads a file,         *)
(* expands its `${VAR}' references and validates it; a Rust caller fills   *)
(* in the fields and may expand them itself, again after a failure; a      *)
(* JavaScript caller hands over an object, and nothing is expanded.        *)
(*                                                                         *)
(* A string is a sequence of pieces: literal text, a reference, or a       *)
(* reference that is never closed.                                         *)
(***************************************************************************)
EXTENDS Integers, FiniteSets, SequencesExt

CONSTANTS
    Vars,       \* the environment variables that configurations refer to
    Values,     \* what they may be set to: strings
    Sources     \* the configurations as written, each with the way it takes

Piece == [kind: {"text", "ref", "open"}, of: STRING]
Str   == Seq(Piece)

Text(t) == [kind |-> "text", of |-> t]
Ref(v)  == [kind |-> "ref", of |-> v]
Open    == [kind |-> "open", of |-> ""]

Blank == Text(" ")

-----------------------------------------------------------------------------
(***************************************************************************)
(* Capabilities.  A method is mapped to one by its wire name (for_method), *)
(* a configuration names one in snake case (serde), or spells out another  *)
(* one as {other = "..."}, here <<"other", "...">>.                        *)
(***************************************************************************)
ForMethodNames ==
    [eth_call |-> "EthCall", eth_getLogs |-> "EthGetLogs",
     eth_blockNumber |-> "EthBlockNumber", eth_chainId |-> "EthChainId",
     eth_getBalance |-> "EthGetBalance",
     eth_getTransactionReceipt |-> "EthGetTransactionReceipt",
     eth_getTransactionCount |-> "EthGetTransactionCount",
     eth_sendRawTransaction |-> "EthSendRawTransaction",
     eth_estimateGas |-> "EthEstimateGas", eth_gasPrice |-> "EthGasPrice",
     eth_subscribe |-> "Subscribe", eth_unsubscribe |-> "Subscribe"]

ConfigNames ==
    [eth_call |-> "EthCall", eth_get_logs |-> "EthGetLogs",
     eth_block_number |-> "EthBlockNumber", eth_chain_id |-> "EthChainId",
     eth_get_balance |-> "EthGetBalance",
     eth_get_transaction_receipt |-> "EthGetTransactionReceipt",
     eth_get_transaction_count |-> "EthGetTransactionCount",
     eth_send_raw_transaction |-> "EthSendRawTransaction",
     eth_estimate_gas |-> "EthEstimateGas", eth_gas_price |-> "EthGasPrice",
     subscribe |-> "Subscribe"]

ForMethod(method) ==
    IF method \in DOMAIN ForMethodNames THEN <<ForMethodNames[method]>>
    ELSE <<"Other", method>>

\* What serde makes of a capability, if it is one.
IsCapability(name) == Len(name) = 2 \/ name[1] \in DOMAIN ConfigNames

Capability(name) ==
    IF Len(name) = 2 THEN <<"Other", name[2]>> ELSE <<ConfigNames[name[1]]>>

\* RpcEndpoint::supports
Supports(endpoint, method) ==
    \/ endpoint.capabilities = {}
    \/ \E name \in endpoint.capabilities : Capability(name) = ForMethod(method)

-----------------------------------------------------------------------------
\* How many strings each auth has.
Arity == [none |-> 0, url_key |-> 0, bearer |-> 1, header |-> 2]

\* An endpoint: its URL and the strings of its auth, in the order in which they
\* are expanded (the header's name and value; the bearer's token).
RpcEndpoint ==
    [url: Str, priority: Nat, capabilities: SUBSET Seq(STRING),
     auth: DOMAIN Arity, args: Seq(Str)]

Endpoint(url, priority) ==
    [url |-> url, priority |-> priority, capabilities |-> {}, auth |-> "none", args |-> <<>>]

RpcPoolConfig == [listen: Str, endpoints: Seq(RpcEndpoint)]

\* RpcPoolConfig, its listen address aside, from lists of URLs: from_urls and
\* the presets (`list'), whose order ranks; peers_for; and the daemon's `init',
\* also after its advice to add a keyed endpoint at priority 0.
Listed(urls, prio) == [i \in DOMAIN urls |-> Endpoint(urls[i], prio[i])]

\* Mutant: the first endpoint of a list gets the largest priority.
RankedBackwards(urls) == Listed(urls, [i \in DOMAIN urls |-> Len(urls) - i])

Ranked(urls)  == Listed(urls, [i \in DOMAIN urls |-> i - 1])
Peers(urls)   == Listed(urls, [i \in DOMAIN urls |-> 0])
Starter(urls) == Listed(urls, [i \in DOMAIN urls |-> 1])
KeyedStarter(urls) == Listed(urls, [i \in DOMAIN urls |-> IF i = 1 THEN 0 ELSE 1])

IsList(eps) ==
    LET urls == [i \in DOMAIN eps |-> eps[i].url]
    IN  eps \in {Ranked(urls), Peers(urls), Starter(urls), KeyedStarter(urls)}

Source == [path: {"toml", "rust", "js"}, list: BOOLEAN, config: RpcPoolConfig]

ASSUME PoolConfigAssumption ==
    /\ Vars \subseteq STRING
    /\ Values \subseteq Str
    /\ Sources \subseteq Source
    /\ \A s \in Sources :
          /\ \A i \in DOMAIN s.config.endpoints :
                Len(s.config.endpoints[i].args) = Arity[s.config.endpoints[i].auth]
          /\ s.list => IsList(s.config.endpoints)

-----------------------------------------------------------------------------
(***************************************************************************)
(* expand_env, from left to right and once: what a variable's value holds  *)
(* is not looked at again.  env maps the variables that are set.           *)
(***************************************************************************)
Missing(s, env) == {s[i].of : i \in {k \in DOMAIN s : s[k].kind = "ref"}} \ DOMAIN env

Closed(s) == \A i \in DOMAIN s : s[i].kind # "open"

\* Mutant: an unset variable is the empty string.
ExpandableIfClosed(s, env) == Closed(s)

Expandable(s, env) == Closed(s) /\ Missing(s, env) = {}

PieceIn(p, env) ==
    IF p.kind # "ref" THEN <<p>> ELSE IF p.of \in DOMAIN env THEN env[p.of] ELSE <<>>

Expand(s, env) == FlattenSeq([i \in DOMAIN s |-> PieceIn(s[i], env)])

\* Where a configuration's strings stand: the listen address, then for each
\* endpoint its URL and its auth's, in the order of resolve_env.
Places(cfg) ==
    {<<0, 0>>} \cup UNION {{i} \X (0 .. Len(cfg.endpoints[i].args)) : i \in DOMAIN cfg.endpoints}

StringAt(cfg, p) ==
    IF p[1] = 0 THEN cfg.listen
    ELSE IF p[2] = 0 THEN cfg.endpoints[p[1]].url
    ELSE cfg.endpoints[p[1]].args[p[2]]

Before(p, q) == p[1] < q[1] \/ (p[1] = q[1] /\ p[2] < q[2])

Resolvable(cfg, env) == \A p \in Places(cfg) : Expandable(StringAt(cfg, p), env)

(***************************************************************************)
(* RpcPoolConfig::resolve_env works in place and stops at the first string *)
(* that it cannot expand: those before it are left expanded.               *)
(***************************************************************************)
Reached(cfg, env, p) ==
    \A q \in Places(cfg) : q = p \/ Before(q, p) => Expandable(StringAt(cfg, q), env)

NewString(cfg, env, p) ==
    IF Reached(cfg, env, p) THEN Expand(StringAt(cfg, p), env) ELSE StringAt(cfg, p)

\* Mutant: the auth is taken out of the endpoint and lost if it fails.
NewArgsTaken(cfg, env, i) ==
    IF \A p \in {i} \X (1 .. Len(cfg.endpoints[i].args)) : Reached(cfg, env, p)
    THEN [j \in DOMAIN cfg.endpoints[i].args |-> NewString(cfg, env, <<i, j>>)]
    ELSE <<>>

NewArgs(cfg, env, i) ==
    [j \in DOMAIN cfg.endpoints[i].args |-> NewString(cfg, env, <<i, j>>)]

Resolved(cfg, env) ==
    [listen |-> NewString(cfg, env, <<0, 0>>),
     endpoints |-> [i \in DOMAIN cfg.endpoints |->
         [cfg.endpoints[i] EXCEPT !.url = NewString(cfg, env, <<i, 0>>),
                                  !.args = NewArgs(cfg, env, i)]]]

-----------------------------------------------------------------------------
Empty(s) == \A i \in DOMAIN s : s[i] = Blank

\* Mutant: endpoints of equal priority are taken for duplicates.
ValidIfRanked(cfg) ==
    /\ cfg.endpoints # <<>>
    /\ \A i \in DOMAIN cfg.endpoints : ~Empty(cfg.endpoints[i].url)
    /\ \A i, j \in DOMAIN cfg.endpoints :
          cfg.endpoints[i].priority = cfg.endpoints[j].priority => i = j

\* RpcPoolConfig::validate
Valid(cfg) ==
    /\ cfg.endpoints # <<>>
    /\ \A i \in DOMAIN cfg.endpoints : ~Empty(cfg.endpoints[i].url)
    /\ \A i, j \in DOMAIN cfg.endpoints :
          cfg.endpoints[i].url = cfg.endpoints[j].url => i = j

\* Deserialisation, of TOML or of a JavaScript object.
Parses(cfg) ==
    \A i \in DOMAIN cfg.endpoints :
        \A name \in cfg.endpoints[i].capabilities : IsCapability(name)

\* Mutant: endpoints of one priority in any order, here the reverse one.
PrecedesUnstable(eps, i, j) ==
    \/ eps[i].priority < eps[j].priority
    \/ eps[i].priority = eps[j].priority /\ i > j

\* The sort is stable: endpoints of one priority keep their order.
Precedes(eps, i, j) ==
    \/ eps[i].priority < eps[j].priority
    \/ eps[i].priority = eps[j].priority /\ i < j

\* The indices of the endpoints as RpcPool::new orders them.
EntryOrder(cfg) ==
    LET eps == cfg.endpoints
        Ahead(i) == {j \in DOMAIN eps : Precedes(eps, j, i)}
    IN  [k \in DOMAIN eps |-> CHOOSE i \in DOMAIN eps : Cardinality(Ahead(i)) = k - 1]

\* Auth::headers
Headers(endpoint) ==
    CASE endpoint.auth = "header" -> {<<endpoint.args[1], endpoint.args[2]>>}
      [] endpoint.auth = "bearer" ->
            {<< <<Text("Authorization")>>, <<Text("Bearer ")>> \o endpoint.args[1] >>}
      [] OTHER -> {}

-----------------------------------------------------------------------------
VARIABLES
    env,        \* the environment: a function on the variables that are set
    source,     \* the configuration as written, and its way: "toml", "rust", "js"
    config,     \* what has become of it
    resolved,   \* whether resolve_env has succeeded
    refusal,    \* why it was refused: "none", "parse", "env", "invalid"
    entries     \* the endpoints of the pool, as indices; <<>> = no pool yet

vars == <<env, source, config, resolved, refusal, entries>>

NoPool == entries = <<>>

Init ==
    /\ source \in Sources
    /\ config = source.config
    /\ env \in UNION {[set -> Values] : set \in SUBSET Vars}
    /\ resolved = FALSE
    /\ refusal = "none"
    /\ entries = <<>>

\* A configuration is refused; a process that read a file ends with it.
Refuse(why) == refusal' = why /\ UNCHANGED <<env, source, resolved, entries>>

\* RpcPoolConfig::from_toml_str
Load ==
    /\ source.path = "toml" /\ ~resolved /\ refusal = "none"
    /\ LET cfg == Resolved(config, env)
       IN  \/ ~Parses(config) /\ Refuse("parse") /\ UNCHANGED config
           \/ Parses(config) /\ ~Resolvable(config, env) /\ Refuse("env") /\ UNCHANGED config
           \/ /\ Parses(config) /\ Resolvable(config, env) /\ ~Valid(cfg)
              /\ Refuse("invalid") /\ UNCHANGED config
           \/ /\ Parses(config) /\ Resolvable(config, env) /\ Valid(cfg)
              /\ config' = cfg
              /\ resolved' = TRUE
              /\ UNCHANGED <<env, source, refusal, entries>>

\* RpcPoolConfig::resolve_env, called by a library caller, perhaps once more.
Resolve ==
    /\ source.path = "rust" /\ refusal = "none" /\ NoPool
    /\ config' = Resolved(config, env)
    /\ \/ ~Resolvable(config, env) /\ Refuse("env")
       \/ /\ Resolvable(config, env)
          /\ resolved' = TRUE
          /\ UNCHANGED <<env, source, refusal, entries>>

\* RpcPool::new
Build ==
    /\ NoPool /\ refusal = "none"
    /\ \/ ~Valid(config) /\ Refuse("invalid")
       \/ Valid(config) /\ entries' = EntryOrder(config) /\ UNCHANGED <<env, source, resolved, refusal>>
    /\ UNCHANGED config

\* By `serve', after the load; by a library caller, at will.
NewPool ==
    /\ source.path = "rust" \/ (source.path = "toml" /\ resolved)
    /\ Build

\* By the constructor of the JavaScript class, which first deserialises the
\* endpoints, and expands nothing.
NewJsPool ==
    /\ source.path = "js" /\ NoPool /\ refusal = "none"
    /\ \/ ~Parses(config) /\ Refuse("parse") /\ UNCHANGED config
       \/ Parses(config) /\ Build

\* A variable that was missing is set, and the daemon started again, or the
\* caller tries again with the same configuration value.
Export ==
    /\ NoPool
    /\ \E v \in Vars \ DOMAIN env, val \in Values :
          env' = [w \in DOMAIN env \cup {v} |-> IF w = v THEN val ELSE env[w]]
    /\ refusal' = IF refusal = "env" THEN "none" ELSE refusal
    /\ UNCHANGED <<source, config, resolved, entries>>

Next == Load \/ Resolve \/ NewPool \/ NewJsPool \/ Export

Spec == Init /\ [][Next]_vars

-----------------------------------------------------------------------------
\* Type invariant; a failed resolve_env leaves every string in its place.
TypeOK ==
    /\ DOMAIN env \subseteq Vars /\ \A v \in DOMAIN env : env[v] \in Values
    /\ source \in Sources
    /\ DOMAIN config.endpoints = DOMAIN source.config.endpoints
    /\ \A i \in DOMAIN config.endpoints :
          Len(config.endpoints[i].args) = Arity[config.endpoints[i].auth]
    /\ resolved \in BOOLEAN
    /\ refusal \in {"none", "parse", "invalid"} \cup (IF source.path = "js" THEN {} ELSE {"env"})
    /\ \A k \in DOMAIN entries : entries[k] \in DOMAIN config.endpoints

Pool == [k \in DOMAIN entries |-> config.endpoints[entries[k]]]

(***************************************************************************)
(* What the pool relies on (mod.rs:112-132, 211-265): every endpoint of    *)
(* the configuration is an entry once; better priorities come first and    *)
(* ties keep the order of the configuration, so that an index is a         *)
(* tie-breaker; and no two entries have the same URL, whatever the         *)
(* expansion made of them.                                                 *)
(***************************************************************************)
PoolIsRoutable ==
    ~NoPool =>
        /\ Len(entries) = Len(source.config.endpoints)
        /\ \A k, m \in DOMAIN entries : k < m =>
              /\ Pool[k].priority <= Pool[m].priority
              /\ Pool[k].priority = Pool[m].priority => entries[k] < entries[m]
              /\ Pool[k].url # Pool[m].url

(***************************************************************************)
(* The keys that reach the wire are the ones in the environment            *)
(* (config.rs:52-79): in the daemon, and after a successful resolve_env in *)
(* a library, the URL and the headers of every entry are those of the      *)
(* source with each reference replaced by the value of a variable that is  *)
(* set, once.  A caller that tries again after a failure is promised this  *)
(* only of values that do not look like references themselves.             *)
(***************************************************************************)
Plain == \A v \in DOMAIN env : \A i \in DOMAIN env[v] : env[v][i].kind = "text"

KeysReachTheWire ==
    resolved /\ (source.path = "toml" \/ Plain) =>
        \A k \in DOMAIN entries :
            LET written == source.config.endpoints[entries[k]]
            IN  /\ Missing(written.url, env) = {}
                /\ Pool[k].url = Expand(written.url, env)
                /\ \A h \in Headers(written) : Missing(h[1] \o h[2], env) = {}
                /\ Headers(Pool[k]) =
                      {<<Expand(h[1], env), Expand(h[2], env)>> : h \in Headers(written)}

(***************************************************************************)
(* The daemon starts on every configuration that is in order               *)
(* (config.rs:251-303, main.rs:126-137): it refuses a file only if that    *)
(* names no capability somewhere, refers to a variable that is not set,    *)
(* lists no endpoint, or has a blank URL or the same one twice once they   *)
(* are expanded.                                                           *)
(***************************************************************************)
InOrder(cfg) ==
    LET url == [i \in DOMAIN cfg.endpoints |-> Expand(cfg.endpoints[i].url, env)]
    IN  /\ Parses(cfg) /\ Resolvable(cfg, env)
        /\ cfg.endpoints # <<>> /\ \A i \in DOMAIN url : ~Empty(url[i])
        /\ Cardinality({url[i] : i \in DOMAIN url}) = Len(url)

StartsIfInOrder ==
    source.path = "toml" /\ refusal # "none" => ~InOrder(source.config)

(***************************************************************************)
(* The order of a list is the order of dispatch (config.rs:217-246,        *)
(* presets.rs:61-78): from_urls, a preset, its peers, and the file that    *)
(* `init' writes make entries in the order of the list, a keyed endpoint   *)
(* added at priority 0 to that file coming first.                          *)
(***************************************************************************)
ListOrderKept ==
    ~NoPool /\ source.list => \A k \in DOMAIN entries : entries[k] = k

(***************************************************************************)
(* README.md:159: `capabilities' holds the "Methods this endpoint may      *)
(* serve", and examples/rpc-pool.toml:51 lists "eth_getLogs" there.  So    *)
(* method names are never refused as capabilities, and an endpoint         *)
(* restricted to some serves just those.                                   *)
(***************************************************************************)
CapabilitiesAreMethods ==
    (\A i \in DOMAIN source.config.endpoints :
        \A name \in source.config.endpoints[i].capabilities : name[1] \in DOMAIN ForMethodNames) =>
        /\ refusal # "parse"
        /\ \A k \in DOMAIN entries : \A method \in DOMAIN ForMethodNames :
              Supports(Pool[k], method) <=>
                  Pool[k].capabilities = {} \/ <<method>> \in Pool[k].capabilities
=============================================================================
