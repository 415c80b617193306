------------------------------ MODULE MCDaemon ------------------------------
(***************************************************************************)
(* A daemon with two clients for TLC.                                      *)
(***************************************************************************)
EXTENDS Daemon

Pair == 1 .. 2

Call(id)     == [id |-> id, method |-> TRUE]
NoMethod(id) == [id |-> id, method |-> FALSE]

\* One client posts a batch with an item that is no request in its midst, the
\* other a single request.
BatchAndSingle == <<{<<Call("a"), NoMethod("null"), Call("b")>>}, {<<Call("c")>>}>>

\* The labels of the two endpoints, the first one's coming last.
OwnLabels == <<2, 1>>

\* Both endpoints have the same label.
SharedLabel == <<1, 1>>
=============================================================================
