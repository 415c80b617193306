-------------------------------- MODULE Wire --------------------------------
(***************************************************************************)
(* What the pool makes of an upstream's answer (src/pool/wire.rs).  A body *)
(* is abstracted to what serde sees of it: whether it deserialises at all, *)
(* and what its "error" and "result" members hold.  The id is never looked *)
(* at, so it is not part of the model.                                     *)
(***************************************************************************)

(***************************************************************************)
(* JsonRpcResponse.  An absent member and a null one are the same Option:  *)
(* None.  "malformed" is an error member without an integer code or a      *)
(* string message, which fails the whole deserialisation.                  *)
(***************************************************************************)
Body == [json: BOOLEAN,
         error: {"absent", "null", "envelope", "malformed"},
         result: {"absent", "null", "value"}]

\* What Transport::post_json_with_headers yields: Ok(body), or an Err that
\* stands for a non-2xx status, a refused connection or the transport's timeout.
Reply == [delivered: BOOLEAN, body: Body]

\* Mutant: a result member wins over an error member.
ParseResultFirst(b) ==
    IF ~b.json \/ b.error = "malformed" THEN "InvalidJson"
    ELSE IF b.result = "value" THEN "Result"
    ELSE IF b.error = "envelope" THEN "RpcError"
    ELSE "EmptyResult"

\* The common body of parse_rpc_response and classify_response.
Parse(b) ==
    IF ~b.json \/ b.error = "malformed" THEN "InvalidJson"
    ELSE IF b.error = "envelope" THEN "RpcError"
    ELSE IF b.result = "value" THEN "Result"
    ELSE "EmptyResult"

\* The outcomes each of them returns as Ok; every other one is an Err.
AcceptedBy(mode) ==
    IF mode = "call" THEN {"Result"}                \* parse_rpc_response
                     ELSE {"Result", "RpcError"}    \* classify_response

\* How one dispatch ends: "failed", or the kind of answer the caller gets.
Verdict(mode, reply) ==
    IF reply.delivered /\ Parse(reply.body) \in AcceptedBy(mode)
    THEN Parse(reply.body)
    ELSE "failed"

Verdicts == {"Result", "RpcError", "failed"}
=============================================================================
