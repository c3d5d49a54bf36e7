--------------------------- MODULE MCGroupFanout ---------------------------
(* Bounds of the TLC runs of GroupFanout. *)
EXTENDS GroupFanout

CONSTANTS a, b, person

Bounded(b_) == [f \in Faults |-> IF f \in DOMAIN b_ THEN b_[f] ELSE 0]

NoFault  == Bounded(<<>>)
AnyFault == Bounded([f \in Faults |-> 1])
=============================================================================
