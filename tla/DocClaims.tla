----------------------------- MODULE DocClaims -----------------------------
(***************************************************************************)
(* Statements that the documentation or a comment makes about the pool and *)
(* that the code, as modelled in RpcPool, does not keep.  Each is checked  *)
(* by a run of its own in which TLC exhibits the disagreement.             *)
(***************************************************************************)
EXTENDS RpcPool

\* An upstream whose every reply is JSON that deserialises.
AlwaysValidJson(e) ==
    \A reply \in Upstream[e] :
        reply.delivered /\ Parse(reply.body) # "InvalidJson"

(***************************************************************************)
(* wire.rs:75-77 on the forwarding path: "only invalid JSON triggers       *)
(* failover".  So an endpoint whose bodies are all valid JSON without a    *)
(* malformed error member never counts as failed when forwarded to.        *)
(***************************************************************************)
OnlyInvalidJsonFailsOver ==
    Modes = {"forward"} =>
        \A e \in Endpoints : AlwaysValidJson(e) => health[e].failures = 0
=============================================================================
