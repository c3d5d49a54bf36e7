------------------------- MODULE MCMidTurnMessages -------------------------
(* Bounds of the TLC runs of MidTurnMessages: how often each fault happens. *)
EXTENDS MidTurnMessages

CONSTANTS m1, m2, m3

Bound(b) == [f \in Faults |-> IF f \in DOMAIN b THEN b[f] ELSE 0]

\* One of everything.
AnyFault == Bound([error |-> 1, stop |-> 1, late |-> 1, db |-> 1, crash |-> 1])
=============================================================================
