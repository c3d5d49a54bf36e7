-------------------------- MODULE MCEventDispatch --------------------------
(***************************************************************************)
(* Two rules and one slot: a standing rule that fires twice and a one-shot *)
(* with two triggers, so that both the queue and the slot are contended.   *)
(***************************************************************************)
EXTENDS EventDispatch

CONSTANTS watch, task1, w1, w2, t1, t2

MCRules  == {watch, task1}
MCOnce   == {task1}
MCRuleOf == [f \in Fires |-> IF f \in {w1, w2} THEN watch ELSE task1]
=============================================================================
