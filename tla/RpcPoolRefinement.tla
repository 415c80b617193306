------------------------- MODULE RpcPoolRefinement -------------------------
(***************************************************************************)
(* RpcPool implements FailoverCall: however the candidates are filtered,   *)
(* sorted under moving loads, throttled and failed over, a caller sees a   *)
(* call that asks or excuses each endpoint once.                           *)
(***************************************************************************)
EXTENDS RpcPool

AbstractPhase ==
    [c \in Callers |-> IF pc[c] = "idle" THEN "idle"
                       ELSE IF pc[c] \in {"await", "leave"} THEN "asking"
                       ELSE "trying"]

AbstractAsked ==
    [c \in Callers |->
        IF pc[c] = "idle" THEN {}
        ELSE call[c].failed \cup (IF pc[c] \in {"await", "leave"} THEN {Target(c)} ELSE {})]

AbstractExcused ==
    [c \in Callers |->
        IF pc[c] = "idle" THEN {}
        ELSE call[c].incapable \cup call[c].cooling \cup call[c].throttled]

AbstractOutcome == [c \in Callers |-> call[c].outcome]

Failover == INSTANCE FailoverCall
            WITH phase <- AbstractPhase, asked <- AbstractAsked,
                 excused <- AbstractExcused, outcome <- AbstractOutcome

(***************************************************************************)
(* Every step of the pool is a step of FailoverCall, or none: no endpoint  *)
(* is asked twice or asked after being excused, none is silently left out  *)
(* of a refusal, the budget is kept, and only the endpoint being awaited   *)
(* can end a call (mod.rs:284-414).                                        *)
(***************************************************************************)
ImplementsFailoverCall == Failover!Spec
=============================================================================
