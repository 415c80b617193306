---------------------------- MODULE MCPoolConfig ----------------------------
(***************************************************************************)
(* Small configurations for TLC.                                           *)
(***************************************************************************)
EXTENDS PoolConfig

\* A key, nothing, white space, and a value that looks like a reference.
KeyValues == {<<Text("k")>>, <<>>, <<Blank>>, <<Ref("KEY")>>}

Listen == <<Text("localhost")>>

Config(eps) == [listen |-> Listen, endpoints |-> eps]

Written(path, eps) == [path |-> path, list |-> FALSE, config |-> Config(eps)]

\* What two endpoints may look like.
Urls == {<<Text("a")>>, <<Blank>>, <<Text("a"), Ref("KEY")>>, <<Text("a"), Open>>}

WithAuth(ep) ==
    {ep,
     [ep EXCEPT !.auth = "bearer", !.args = <<<<Ref("TOKEN")>>>>],
     [ep EXCEPT !.auth = "header", !.args = <<<<Text("X-Key")>>, <<Ref("TOKEN"), Ref("KEY")>>>>]}

KeyedEndpoints == UNION {WithAuth(Endpoint(u, p)) : u \in Urls, p \in {0, 1}}

Keyed == {Written(path, <<e1, e2>>) : path \in {"toml", "rust", "js"},
                                      e1, e2 \in KeyedEndpoints}

\* Three plain endpoints of any priorities, and lists.
Plain3 == <<<<Text("a")>>, <<Text("b")>>, <<Text("c")>>>>

Prioritised ==
    {Written("rust", [i \in 1 .. 3 |-> Endpoint(Plain3[i], prio[i])]) : prio \in [1 .. 3 -> 0 .. 2]}

WithKeyedFirst(eps) == <<Endpoint(<<Text("d"), Ref("KEY")>>, 0)>> \o eps

Lists ==
    {[path |-> path, list |-> TRUE, config |-> Config(eps)] :
        path \in {"rust", "js"}, eps \in {Ranked(Plain3), Peers(Plain3)}}
    \cup
    {[path |-> "toml", list |-> TRUE, config |-> Config(eps)] :
        eps \in {Starter(Plain3), WithKeyedFirst(Starter(Plain3))}}

\* Endpoints restricted by the names that a configuration knows.
Restricted ==
    {Written(path, <<[Endpoint(Plain3[1], 0) EXCEPT !.capabilities = {name}]>>) :
        path \in {"toml", "js"}, name \in {<<"eth_get_logs">>, <<"other", "debug_trace">>}}

AllSources == Keyed \cup Prioritised \cup Lists \cup Restricted \cup {Written("toml", <<>>)}

\* The last but two of the endpoints of examples/rpc-pool.toml, and the next.
Sample ==
    {Written("toml",
        <<[Endpoint(Plain3[1], 3) EXCEPT
              !.capabilities = {<<"eth_call">>, <<"eth_getLogs">>, <<"eth_blockNumber">>,
                                <<"eth_chainId">>},
              !.auth = "header", !.args = <<<<Text("X-API-Key")>>, <<Ref("KEY")>>>>],
          Endpoint(Plain3[2], 10)>>)}
=============================================================================
