--------------------------- MODULE MCTaskDelivery ---------------------------
(* Bounds of the TLC runs of TaskDelivery: how often each fault may happen. *)
EXTENDS TaskDelivery

CONSTANTS o1, s1

Bound(b) == [f \in Faults |-> IF f \in DOMAIN b THEN b[f] ELSE 0]

\* Failures, a Stop, a crash and a user who replies and deletes; the turns are the
\* continuations.
AnyFault   == Bound([f \in Faults \ {"turn"} |-> 1])
\* The process dies once, or the user's own message starts a turn (Quota 1).
CrashOrTurn == Bound([crash |-> 1, turn |-> 1])
\* One Stop on a turn that reads the inbox.
StopTurn   == Bound([turn |-> 1, stop_turn |-> 1])
=============================================================================
