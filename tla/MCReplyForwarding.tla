------------------------- MODULE MCReplyForwarding -------------------------
(* Bounds of the TLC runs of ReplyForwarding. *)
EXTENDS ReplyForwarding

Bound(b) == [f \in Faults |-> IF f \in DOMAIN b THEN b[f] ELSE 0]

\* One of everything.
AnyFault == Bound([fold |-> 1, break |-> 1, fail |-> 1, late |-> 1, clear |-> 1, release |-> 1])
\* Nothing goes wrong.
NoFault  == Bound(<<>>)
=============================================================================
