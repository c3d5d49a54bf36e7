------------------------- MODULE MCScheduleManager -------------------------
(* Bounds of the TLC runs of ScheduleManager. *)
EXTENDS ScheduleManager

CONSTANTS s1, s2

Bound(b) == [f \in Faults |-> IF f \in DOMAIN b THEN b[f] ELSE 0]

\* A one-shot and a rule of every instant that comes to an end.
SomeRules == { [start |-> 2, every |-> 0, until |-> 2],
               [start |-> 1, every |-> 1, until |-> 3] }
OneShots  == { [start |-> t, every |-> 0, until |-> t] : t \in 1..2 }

AnyFault == Bound([edit |-> 1, status |-> 1, delete |-> 1, toggle |-> 1, store |-> 1, crash |-> 1])
OneEdit  == Bound([edit |-> 1])
=============================================================================
