---------------------------- MODULE FailoverCall ----------------------------
(***************************************************************************)
(* What the pool promises of one call or forward, with nothing of how it   *)
(* chooses (src/pool/mod.rs:267-554): every endpoint is asked at most once *)
(* or excused, one request is awaited at a time, the first answer ends the *)
(* call, and an error is returned only when no endpoint is left or the     *)
(* retry budget is used up.  RpcPool is shown to implement this module     *)
(* (RpcPoolRefinement); Daemon uses it in the pool's place.                *)
(***************************************************************************)
EXTENDS Integers, FiniteSets

CONSTANTS
    Callers,      \* the tasks that use the pool
    Endpoints,    \* the endpoints of the pool
    MaxRetries    \* RpcPoolConfig.max_retries; 0 = try every candidate

ASSUME FailoverCallAssumption ==
    /\ IsFiniteSet(Endpoints)
    /\ MaxRetries \in Nat

VARIABLES
    phase,     \* "idle", "trying" the next endpoint, "asking" one
    asked,     \* the endpoints asked by the call under way
    excused,   \* those it passed over: incapable, in cooldown, throttled
    outcome    \* what the latest call ended in

callVars == <<phase, asked, excused, outcome>>

Init ==
    /\ phase = [c \in Callers |-> "idle"]
    /\ asked = [c \in Callers |-> {}]
    /\ excused = [c \in Callers |-> {}]
    /\ outcome = [c \in Callers |-> "none"]

Untouched(c) == Endpoints \ (asked[c] \cup excused[c])

BudgetUsed(c) == MaxRetries # 0 /\ Cardinality(asked[c]) >= MaxRetries

Begin(c) ==
    /\ phase[c] = "idle"
    /\ phase' = [phase EXCEPT ![c] = "trying"]
    /\ outcome' = [outcome EXCEPT ![c] = "none"]
    /\ UNCHANGED <<asked, excused>>

Excuse(c, e) ==
    /\ phase[c] = "trying"
    /\ e \in Untouched(c)
    /\ excused' = [excused EXCEPT ![c] = @ \cup {e}]
    /\ UNCHANGED <<phase, asked, outcome>>

Ask(c, e) ==
    /\ phase[c] = "trying"
    /\ e \in Untouched(c)
    /\ ~BudgetUsed(c)
    /\ asked' = [asked EXCEPT ![c] = @ \cup {e}]
    /\ phase' = [phase EXCEPT ![c] = "asking"]
    /\ UNCHANGED <<excused, outcome>>

\* The endpoint asked failed; on to the next one.
Fail(c) ==
    /\ phase[c] = "asking"
    /\ phase' = [phase EXCEPT ![c] = "trying"]
    /\ UNCHANGED <<asked, excused, outcome>>

End(c, how) ==
    /\ phase' = [phase EXCEPT ![c] = "idle"]
    /\ outcome' = [outcome EXCEPT ![c] = how]
    /\ asked' = [asked EXCEPT ![c] = {}]
    /\ excused' = [excused EXCEPT ![c] = {}]

\* The endpoint asked gave an answer: the call returns it.
Answer(c, how) == phase[c] = "asking" /\ how \in {"Result", "RpcError"} /\ End(c, how)

\* The future is dropped while it awaits.
Abandon(c) == phase[c] = "asking" /\ End(c, "Dropped")

\* Nothing left to try, or nothing left to try it with.
Refuse(c) ==
    /\ phase[c] = "trying"
    /\ Untouched(c) = {} \/ BudgetUsed(c)
    /\ End(c, IF asked[c] = {} THEN "NoCandidates" ELSE "AllFailed")

Next ==
    \E c \in Callers :
        \/ Begin(c) \/ Fail(c) \/ Abandon(c) \/ Refuse(c)
        \/ \E e \in Endpoints : Excuse(c, e) \/ Ask(c, e)
        \/ \E how \in {"Result", "RpcError"} : Answer(c, how)

Spec == Init /\ [][Next]_callVars
=============================================================================
