---------------------------- MODULE ResultLedger ----------------------------
(***************************************************************************)
(* What delivery of event-run results promises, with no inbox, turns or    *)
(* deliverers: a result that is owed is held by whoever takes the claim;   *)
(* the holder gives it to the origin's agent, or lets it go, and a result  *)
(* that was given or closed stays so.  A holder may die with the result in *)
(* its hands: nothing here says that a held result is ever given.          *)
(***************************************************************************)
EXTENDS Naturals

CONSTANT Runs

VARIABLES
  ledger,   \* where each result stands
  given     \* how often the agent was handed each result

vars == <<ledger, given>>

Standing == {"none", "owed", "held", "given", "closed", "erased"}

\* The results in S change standing as a whole: one transaction, one turn.
Move(S, from, to) ==
  /\ \A r \in S : ledger[r] \in from
  /\ ledger' = [r \in Runs |-> IF r \in S THEN to ELSE ledger[r]]

\* A run ends, or a reply makes a finished run run again.
Owe(S)    == Move(S, {"none"}, "owed") /\ UNCHANGED given
Resume(S) == Move(S, {"owed"}, "none") /\ UNCHANGED given

\* A claim is taken, and given back by the one who took it.
Hold(S)    == Move(S, {"owed"}, "held") /\ UNCHANGED given
Unhold(S)  == Move(S, {"held"}, "owed") /\ UNCHANGED given
Abandon(S) == Move(S, {"held"}, "none") /\ UNCHANGED given

Close(S) == Move(S, {"owed"}, "closed") /\ UNCHANGED given

\* The row is deleted before the result was given.
Erase(S) == Move(S, {"none", "owed", "held"}, "erased") /\ UNCHANGED given

\* Only a held result is handed over, and only once.  A row deleted after its
\* claim does not take it out of the turn that carries it.
Give(S) ==
  /\ Move(S, {"held", "erased"}, "given")
  /\ given' = [r \in Runs |-> IF r \in S THEN given[r] + 1 ELSE given[r]]

Init ==
  /\ ledger = [r \in Runs |-> "none"]
  /\ given  = [r \in Runs |-> 0]

Next ==
  \E S \in SUBSET Runs :
    \/ Owe(S) \/ Resume(S) \/ Hold(S) \/ Unhold(S) \/ Abandon(S)
    \/ Give(S) \/ Close(S) \/ Erase(S)

Spec == Init /\ [][Next]_vars
=============================================================================
