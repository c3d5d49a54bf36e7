---------------------- MODULE TaskDelivery_refinement ----------------------
(***************************************************************************)
(* TaskDelivery implements ResultLedger: under the mapping LedgerOf every  *)
(* step of the delivery machinery is a step of the ledger or a stutter.    *)
(***************************************************************************)
EXTENDS TaskDelivery_proofs

\* A firing that is about to insert its row has none yet, and an unspent rule
\* never had one.  Without it, an insert could bring a deleted row back.
Fresh == \A r \in Runs :
  /\ at[r] \in {"create", "record"} => status[r] = "absent" /\ task[r] # "active"
  /\ task[r] = "active" => status[r] = "absent"

\* The steps that start no firing, insert no row and revert no claim.
Settles == \A r \in Runs :
  /\ at'[r] \in {"create", "record"} => at'[r] = at[r]
  /\ task'[r] = "active" => task[r] = "active"
  /\ status[r] = "absent" => status'[r] = "absent"

LEMMA SettlesKeepsFresh ==
  ASSUME Fresh, Settles
  PROVE  Fresh'
BY DEF Fresh, Settles

LEMMA FreshInit == Init => Fresh
BY DEF Init, Fresh, Deliverers

LEMMA FreshStep ==
  ASSUME TypeOK, BootHasJob, Fresh, TypeOK', [Next]_vars
  PROVE  Fresh'
<1> USE DEF TypeOK, Deliverers, rowVars, convVars, procVars, bootVars
<1>1. ASSUME NEW r \in Runs, ClaimFire(r) \/ CreateRun(r) PROVE Fresh'
  BY <1>1, OnceAssumption DEF Fresh, ClaimFire, CreateRun, Moved, Goto
<1>2. ASSUME NEW r \in Runs, CreateFails(r) PROVE Fresh'
  BY <1>2 DEF Fresh, CreateFails, Moved, Goto
<1>3. ASSUME NEW r \in Runs, TimeoutClaim(r) PROVE Fresh'
  BY <1>3 DEF Fresh, TimeoutClaim, Moved, Goto
<1>4. ASSUME NEW r \in Runs, TimeoutRecord(r) PROVE Fresh'
  <2>1. /\ task[r] # "active" /\ UNCHANGED task
        /\ \E pc \in {"hook", "off"} : at' = [at EXCEPT ![r] = pc]
        /\ \E s \in {"done", status[r]} : status' = [status EXCEPT ![r] = s]
    BY <1>4 DEF Fresh, TimeoutRecord, Goto
  <2>2. QED
    BY <2>1 DEF Fresh
<1>5. ASSUME NEW r \in Runs, TimeoutRecordFails(r) PROVE Settles
  BY <1>5 DEF Settles, TimeoutRecordFails, Goto
<1>6. ASSUME NEW r \in Runs, NEW s \in Terminal \cup {"pending"}, RunEnds(r, s) PROVE Settles
  BY <1>6 DEF Settles, RunEnds, Goto
<1>7. ASSUME NEW r \in Runs, Reply(r) \/ StopRun(r) \/ DeleteRun(r) PROVE Settles
  BY <1>7 DEF Settles, Reply, StopRun, DeleteRun, Return, Goto, Terminal
<1>8. ASSUME NEW d \in Runs \cup {Boot}, Hook(d) PROVE Settles
  <2>1. \E pc \in {"off", "list"} : at' = [at EXCEPT ![d] = pc]
    BY <1>8 DEF Hook, Return, Goto
  <2>2. \A r \in Runs : task'[r] = "active" => task[r] = "active"
    BY <1>8 DEF Hook, CloseOut, Moved
  <2>3. QED
    BY <1>8, <2>1, <2>2 DEF Settles, Hook
<1>9. ASSUME NEW d \in Deliverers, FlushList(d) \/ FlushConv(d) \/ FlushClaim(d) PROVE Settles
  BY <1>9 DEF Settles, FlushList, FlushConv, FlushClaim, Return, Goto
<1>10. ASSUME NEW d \in Deliverers, FlushDrop(d) PROVE Settles
  BY <1>10 DEF Settles, FlushDrop, CloseOut, Moved
<1>11. ASSUME NEW d \in Deliverers, FlushInject(d) PROVE Settles
  BY <1>11 DEF Settles, FlushInject, Return, Goto
<1>12. ASSUME NEW d \in Deliverers, Release(d) PROVE Settles
  BY <1>12 DEF Settles, Release, Return, Goto
<1>13. ASSUME NEW d \in Deliverers, FlushFinish(d) PROVE Settles
  BY <1>13 DEF Settles, FlushFinish, Finish, Return, Goto
<1>14. ASSUME NEW d \in Deliverers, FlushListFails(d) \/ FlushRaises(d) \/ FlushInjectFails(d) PROVE Settles
  BY <1>14 DEF Settles, FlushListFails, FlushRaises, FlushInjectFails, Return, Goto
<1>15. ASSUME UserMessage \/ TurnStart \/ TurnBind \/ TurnEnd \/ TurnReset PROVE Settles
  BY <1>15 DEF Settles, UserMessage, TurnStart, TurnBind, TurnEnd, TurnReset
<1>16. ASSUME ReadClaimed \/ TurnFlush \/ ReadInbox \/ StopReading PROVE Settles
  BY <1>16 DEF Settles, ReadClaimed, TurnFlush, ReadInbox, StopReading, Return, Goto
<1>17. ASSUME ReadFinish \/ StopFinishing PROVE Settles
  BY <1>17 DEF Settles, ReadFinish, StopFinishing, Finish, Return, Goto
<1>18. ASSUME DropOrigin PROVE Settles
  BY <1>18 DEF Settles, DropOrigin, Return, Goto
<1>19. ASSUME Crash PROVE Settles
  BY <1>19 DEF Settles, Crash
<1>20. ASSUME Restart \/ SweepList \/ Reconcile PROVE Settles
  BY <1>20 DEF Settles, Restart, SweepList, Reconcile
<1>21. ASSUME SweepNext PROVE Settles
  BY <1>21 DEF Settles, SweepNext, CloseOut, Moved, Goto
<1>22. ASSUME UNCHANGED vars PROVE Settles
  BY <1>22 DEF Settles, vars
<1>23. ASSUME StoreFails PROVE Settles
  BY <1>23, StoreFailsEffect DEF Settles
<1>24. QED
  BY <1>1, <1>2, <1>3, <1>4, <1>5, <1>6, <1>7, <1>8, <1>9, <1>10, <1>11, <1>12, <1>13, <1>14,
     <1>15, <1>16, <1>17, <1>18, <1>19, <1>20, <1>21, <1>22, <1>23, SettlesKeepsFresh
     DEF StoreFails, Next, RunStep, Flush, FlushFault, TurnStep, BootStep

\* What both specifications keep: the parts each step of the refinement uses.
RInv == TypeOK /\ BootHasJob /\ OneHolder /\ Fresh

LEMMA RInvInvariant == Spec => []RInv
<1>1. TypeOK /\ BootHasJob /\ [Next]_vars => (TypeOK /\ BootHasJob)'
  BY TypeStep, BootJobStep
<1>2. TypeOK /\ BootHasJob /\ Fresh /\ TypeOK' /\ [Next]_vars => Fresh'
  BY FreshStep
<1>3. QED
  BY TypeInit, Inductive, FreshInit, <1>1, <1>2, PTL DEF Spec, RInv

-----------------------------------------------------------------------------
(* The mapping                                                             *)

\* A step that leaves the columns the mapping reads alone is a stutter.
LEMMA SameRows ==
  ASSUME UNCHANGED <<status, delivered, mode, told>>
  PROVE  UNCHANGED Ledger!vars
BY DEF Ledger!vars, LedgerOf

LEMMA SameStanding ==
  ASSUME told' = told, \A r \in Runs : LedgerOf(r)' = LedgerOf(r)
  PROVE  UNCHANGED Ledger!vars
BY DEF Ledger!vars

\* Results that change standing together make a Move of the ledger.
LEMMA MoveStep ==
  ASSUME NEW S \in SUBSET Runs, NEW from, NEW to,
         \A r \in S : LedgerOf(r) \in from /\ LedgerOf(r)' = to,
         \A r \in Runs \ S : LedgerOf(r)' = LedgerOf(r)
  PROVE  Ledger!Move(S, from, to)
BY DEF Ledger!Move

\* The same with nothing handed over: the move of one of the ledger's actions.
LEMMA LedgerMove ==
  ASSUME told' = told, NEW S \in SUBSET Runs, NEW to,
         \/ to \in {"owed"} /\ \A r \in S : LedgerOf(r) = "none"
         \/ to \in {"none", "held", "closed"} /\ \A r \in S : LedgerOf(r) = "owed"
         \/ to \in {"owed", "none"} /\ \A r \in S : LedgerOf(r) = "held"
         \/ to = "erased" /\ \A r \in S : LedgerOf(r) \in {"none", "owed", "held"},
         \A r \in S : LedgerOf(r)' = to,
         \A r \in Runs \ S : LedgerOf(r)' = LedgerOf(r)
  PROVE  Ledger!Next
<1> USE DEF Ledger!Next, Ledger!Owe, Ledger!Resume, Ledger!Hold, Ledger!Unhold,
            Ledger!Abandon, Ledger!Close, Ledger!Erase
<1>1. CASE to \in {"owed"} /\ \A r \in S : LedgerOf(r) = "none"
  <2>1. Ledger!Move(S, {"none"}, to)
    BY <1>1, MoveStep
  <2>2. QED
    BY <1>1, <2>1
<1>2. CASE to \in {"none", "held", "closed"} /\ \A r \in S : LedgerOf(r) = "owed"
  <2>1. Ledger!Move(S, {"owed"}, to)
    BY <1>2, MoveStep
  <2>2. QED
    BY <1>2, <2>1
<1>3. CASE to \in {"owed", "none"} /\ \A r \in S : LedgerOf(r) = "held"
  <2>1. Ledger!Move(S, {"held"}, to)
    BY <1>3, MoveStep
  <2>2. QED
    BY <1>3, <2>1
<1>4. CASE to = "erased" /\ \A r \in S : LedgerOf(r) \in {"none", "owed", "held"}
  <2>1. Ledger!Move(S, {"none", "owed", "held"}, to)
    BY <1>4, MoveStep
  <2>2. QED
    BY <1>4, <2>1
<1>5. QED
  BY <1>1, <1>2, <1>3, <1>4

\* A turn that shows the results in S to the agent, each claimed and unseen.
LEMMA GiveStep ==
  ASSUME RInv, NEW S \in SUBSET Runs,
         \A r \in S : delivered[r] /\ told[r] = 0 /\ mode[r] # "skipped",
         told' = [r \in Runs |-> IF r \in S THEN told[r] + 1 ELSE told[r]],
         UNCHANGED <<status, delivered>>,
         \A r \in Runs \ S : mode'[r] = mode[r]
  PROVE  Ledger!Next
<1> USE DEF RInv, TypeOK
<1>1. \A r \in S : LedgerOf(r) \in {"held", "erased"} /\ LedgerOf(r)' = "given"
  BY DEF LedgerOf
<1>2. \A r \in Runs \ S : LedgerOf(r)' = LedgerOf(r)
  BY DEF LedgerOf
<1>3. Ledger!Move(S, {"held", "erased"}, "given")
  BY <1>1, <1>2, MoveStep
<1>4. QED
  BY <1>3 DEF Ledger!Next, Ledger!Give

\* An unclaimed terminal row is closed out.
LEMMA CloseStep ==
  ASSUME RInv, NEW r \in Runs, NEW end, Claimable(r), CloseOut(r, end),
         UNCHANGED <<status, told>>
  PROVE  Ledger!Next
<1> USE DEF RInv, TypeOK
<1>1. told[r] = 0 /\ mode[r] # "skipped"
  BY DEF OneHolder, NeverResurrected, ClosedNeverHanded, Claimable
<1>2. LedgerOf(r) = "owed" /\ LedgerOf(r)' = "closed"
  BY <1>1 DEF LedgerOf, CloseOut, Claimable, Terminal
<1>3. \A q \in Runs \ {r} : LedgerOf(q)' = LedgerOf(q)
  BY DEF LedgerOf, CloseOut
<1>4. {r} \in SUBSET Runs /\ told' = told
  OBVIOUS
<1>5. QED
  BY <1>2, <1>3, <1>4, LedgerMove

\* An unclaimed terminal row is claimed, and nobody is told.
LEMMA HoldStep ==
  ASSUME RInv, NEW r \in Runs, Claimable(r), delivered' = [delivered EXCEPT ![r] = TRUE],
         UNCHANGED <<status, mode, told>>
  PROVE  Ledger!Next
<1> USE DEF RInv, TypeOK
<1>1. told[r] = 0 /\ mode[r] # "skipped"
  BY DEF OneHolder, NeverResurrected, ClosedNeverHanded, Claimable
<1>2. LedgerOf(r) = "owed" /\ LedgerOf(r)' = "held"
  BY <1>1 DEF LedgerOf, Claimable, Terminal
<1>3. \A q \in Runs \ {r} : LedgerOf(q)' = LedgerOf(q)
  BY DEF LedgerOf
<1>4. {r} \in SUBSET Runs /\ told' = told
  OBVIOUS
<1>5. QED
  BY <1>2, <1>3, <1>4, LedgerMove

\* Rows become terminal: what was owed to nobody is owed now; a row claimed
\* before its run was resumed stays claimed.
LEMMA EndStep ==
  ASSUME RInv, NEW S \in SUBSET Runs, NEW s \in Terminal \cup Active,
         \A r \in S : status[r] \in {"absent"} \cup Active,
         status' = [r \in Runs |-> IF r \in S THEN s ELSE status[r]],
         UNCHANGED <<delivered, mode, told>>
  PROVE  [Ledger!Next]_(Ledger!vars)
<1> USE DEF RInv, TypeOK
<1> DEFINE E == {r \in S : LedgerOf(r) = "none"}
<1>1. CASE s \in Active
  <2>1. \A r \in Runs : LedgerOf(r)' = LedgerOf(r)
    BY <1>1 DEF LedgerOf, Active, Terminal
  <2>2. QED
    BY <2>1, SameStanding
<1>2. CASE s \in Terminal
  <2>1. \A r \in E : LedgerOf(r)' = "owed"
    BY <1>2 DEF LedgerOf, Terminal
  <2>2. \A r \in Runs \ E : LedgerOf(r)' = LedgerOf(r)
    BY <1>2 DEF LedgerOf, Active, Terminal
  <2>3. \A r \in E : LedgerOf(r) = "none"
    OBVIOUS
  <2>4. E \in SUBSET Runs
    OBVIOUS
  <2> HIDE DEF E
  <2>5. Ledger!Next
    BY <2>1, <2>2, <2>3, <2>4, LedgerMove
  <2>6. QED
    BY <2>5
<1>3. QED
  BY <1>1, <1>2

\* Rows are deleted.
LEMMA EraseStep ==
  ASSUME RInv, NEW S \in SUBSET Runs,
         status' = [r \in Runs |-> IF r \in S THEN "deleted" ELSE status[r]],
         UNCHANGED <<delivered, mode, told>>
  PROVE  Ledger!Next
<1> USE DEF RInv, TypeOK
<1> DEFINE E == {r \in S : LedgerOf(r) \in {"none", "owed", "held"}}
<1>1. \A r \in E : LedgerOf(r)' = "erased"
  BY DEF LedgerOf
<1>2. \A r \in Runs \ E : LedgerOf(r)' = LedgerOf(r)
  BY DEF LedgerOf
<1>3. E \in SUBSET Runs /\ \A r \in E : LedgerOf(r) \in {"none", "owed", "held"}
  OBVIOUS
<1> HIDE DEF E
<1>4. QED
  BY <1>1, <1>2, <1>3, LedgerMove

\* Modes are recorded for rows whose claimer finishes: none was closed out.
LEMMA FinishStep ==
  ASSUME RInv, NEW S \in SUBSET Runs, Finish(S), \A r \in S : mode[r] # "skipped",
         UNCHANGED <<status, delivered, told>>
  PROVE  UNCHANGED Ledger!vars
<1>1. \A r \in Runs : LedgerOf(r)' = LedgerOf(r)
  BY DEF LedgerOf, Finish
<1>2. QED
  BY <1>1, SameStanding

\* What a deliverer or a starting turn holds was never closed out.
LEMMA HeldNotClosed ==
  ASSUME RInv
  PROVE  /\ \A d \in Deliverers : \A r \in mine[d] : r \in Runs /\ mode[r] # "skipped" /\ delivered[r]
         /\ \A r \in carried : r \in Runs /\ mode[r] # "skipped" /\ delivered[r] /\ told[r] = 0
BY DEF RInv, TypeOK, OneHolder, ClosedNeverHanded, Underway

-----------------------------------------------------------------------------
(* The steps                                                               *)

LEMMA RefinementInit == Init => Ledger!Init
BY DEF Init, Ledger!Init, LedgerOf, Terminal

LEMMA RefinementStep ==
  ASSUME RInv, [Next]_vars
  PROVE  [Ledger!Next]_(Ledger!vars)
<1> USE DEF rowVars, convVars, procVars, bootVars
<1>1. ASSUME NEW r \in Runs,
             \/ ClaimFire(r) \/ CreateFails(r) \/ TimeoutClaim(r)
             \/ TimeoutRecordFails(r) \/ StopRun(r)
      PROVE  UNCHANGED Ledger!vars
  BY <1>1, SameRows DEF ClaimFire, CreateFails, TimeoutClaim, TimeoutRecordFails, StopRun
<1>2. ASSUME NEW r \in Runs, CreateRun(r) PROVE [Ledger!Next]_(Ledger!vars)
  <2>1. status[r] = "absent" /\ UNCHANGED <<delivered, mode, told>>
    BY <1>2 DEF RInv, Fresh, CreateRun
  <2>2. CASE origin = "live"
    <3>1. status' = [q \in Runs |-> IF q \in {r} THEN "running" ELSE status[q]]
      BY <1>2, <2>2 DEF CreateRun, RInv, TypeOK
    <3>2. {r} \in SUBSET Runs /\ "running" \in Terminal \cup Active
          /\ \A q \in {r} : status[q] \in {"absent"} \cup Active
      BY <2>1 DEF Active
    <3>3. QED
      BY <2>1, <3>1, <3>2, EndStep
  <2>3. CASE origin # "live"
    <3>1. status' = status
      BY <1>2, <2>3 DEF CreateRun
    <3>2. QED
      BY <2>1, <3>1, SameRows
  <2>4. QED
    BY <2>2, <2>3
<1>3. ASSUME NEW r \in Runs, TimeoutRecord(r) PROVE [Ledger!Next]_(Ledger!vars)
  <2>1. status[r] = "absent" /\ UNCHANGED <<delivered, mode, told>>
    BY <1>3 DEF RInv, Fresh, TimeoutRecord
  <2>2. CASE origin = "live"
    <3>1. status' = [q \in Runs |-> IF q \in {r} THEN "done" ELSE status[q]]
      BY <1>3, <2>2 DEF TimeoutRecord, RInv, TypeOK
    <3>2. {r} \in SUBSET Runs /\ "done" \in Terminal \cup Active
          /\ \A q \in {r} : status[q] \in {"absent"} \cup Active
      BY <2>1 DEF Terminal
    <3>3. QED
      BY <2>1, <3>1, <3>2, EndStep
  <2>3. CASE origin # "live"
    <3>1. status' = status
      BY <1>3, <2>3 DEF TimeoutRecord
    <3>2. QED
      BY <2>1, <3>1, SameRows
  <2>4. QED
    BY <2>2, <2>3
<1>4. ASSUME NEW r \in Runs, NEW s \in Terminal \cup {"pending"}, RunEnds(r, s)
      PROVE  [Ledger!Next]_(Ledger!vars)
  <2>1. status' = [q \in Runs |-> IF q \in {r} THEN s ELSE status[q]]
    BY <1>4 DEF RunEnds, RInv, TypeOK
  <2>2. {r} \in SUBSET Runs /\ s \in Terminal \cup Active
        /\ \A q \in {r} : status[q] \in {"absent"} \cup Active
    BY <1>4 DEF RunEnds, Active
  <2>3. UNCHANGED <<delivered, mode, told>>
    BY <1>4 DEF RunEnds
  <2>4. QED
    BY <2>1, <2>2, <2>3, EndStep
<1>5. ASSUME NEW r \in Runs, Reply(r) PROVE [Ledger!Next]_(Ledger!vars)
  <2>1. /\ told' = told /\ {r} \in SUBSET Runs
        /\ status[r] \in Terminal \cup {"pending"} /\ status'[r] = "running"
        /\ UNCHANGED <<delivered, mode>>
        /\ \A q \in Runs \ {r} : status'[q] = status[q]
    BY <1>5 DEF Reply, RInv, TypeOK
  <2>2. \A q \in Runs \ {r} : LedgerOf(q)' = LedgerOf(q)
    BY <2>1 DEF LedgerOf
  <2>3. CASE LedgerOf(r) = "owed"
    <3>1. LedgerOf(r)' = "none"
      BY <2>1, <2>3 DEF LedgerOf, Terminal
    <3>2. QED
      BY <2>1, <2>2, <2>3, <3>1, LedgerMove
  <2>4. CASE LedgerOf(r) # "owed"
    <3>1. LedgerOf(r)' = LedgerOf(r)
      BY <2>1, <2>4 DEF LedgerOf, Terminal
    <3>2. QED
      BY <2>1, <2>2, <3>1, SameStanding
  <2>5. QED
    BY <2>3, <2>4
<1>6. ASSUME NEW r \in Runs, DeleteRun(r) PROVE Ledger!Next
  <2>1. status' = [q \in Runs |-> IF q \in {r} THEN "deleted" ELSE status[q]]
    BY <1>6 DEF DeleteRun, RInv, TypeOK
  <2>2. {r} \in SUBSET Runs /\ UNCHANGED <<delivered, mode, told>>
    BY <1>6 DEF DeleteRun
  <2>3. QED
    BY <2>1, <2>2, EraseStep
<1>7. ASSUME DropOrigin PROVE Ledger!Next
  <2>1. PICK S \in SUBSET Runs : status' = [r \in Runs |-> IF r \in S THEN "deleted" ELSE status[r]]
    BY <1>7 DEF DropOrigin
  <2>2. UNCHANGED <<delivered, mode, told>>
    BY <1>7 DEF DropOrigin
  <2>3. QED
    BY <2>1, <2>2, EraseStep
<1>8. ASSUME Restart PROVE [Ledger!Next]_(Ledger!vars)
  <2> DEFINE S == {r \in Runs : status[r] = "running"}
  <2>1. /\ S \in SUBSET Runs
        /\ status' = [r \in Runs |-> IF r \in S THEN "done" ELSE status[r]]
        /\ \A r \in S : status[r] \in {"absent"} \cup Active
        /\ "done" \in Terminal \cup Active
    BY <1>8 DEF Restart, Active, Terminal
  <2>2. UNCHANGED <<delivered, mode, told>>
    BY <1>8 DEF Restart
  <2> HIDE DEF S
  <2>3. QED
    BY <2>1, <2>2, EndStep
<1>9. ASSUME NEW d \in Runs \cup {Boot}, Hook(d) PROVE [Ledger!Next]_(Ledger!vars)
  <2>1. UNCHANGED <<status, told>>
    BY <1>9 DEF Hook
  <2>2. CASE UNCHANGED <<delivered, mode>>
    BY <2>1, <2>2, SameRows
  <2>3. CASE \E end \in {"completed", "cancelled"} :
               Claimable(Subject(d)) /\ CloseOut(Subject(d), end)
    <3>1. CASE Subject(d) \in Runs
      <4>1. Ledger!Next
        BY <2>1, <2>3, <3>1, CloseStep
      <4>2. QED
        BY <4>1
    <3>2. CASE Subject(d) \notin Runs
      <4>1. UNCHANGED <<delivered, mode>>
        BY <2>3, <3>2 DEF CloseOut, RInv, TypeOK
      <4>2. QED
        BY <2>1, <4>1, SameRows
    <3>3. QED
      BY <3>1, <3>2
  <2>4. QED
    BY <1>9, <2>2, <2>3 DEF Hook
<1>10. ASSUME NEW d \in Deliverers, FlushDrop(d) PROVE [Ledger!Next]_(Ledger!vars)
  <2>1. UNCHANGED <<status, told>>
    BY <1>10 DEF FlushDrop
  <2>2. PICK r \in drop[d] :
          IF Claimable(r) THEN CloseOut(r, "completed") ELSE UNCHANGED <<task, delivered, mode>>
    BY <1>10 DEF FlushDrop
  <2>3. r \in Runs
    BY DEF RInv, TypeOK
  <2>4. CASE Claimable(r)
    <3>1. Ledger!Next
      BY <2>1, <2>2, <2>3, <2>4, CloseStep
    <3>2. QED
      BY <3>1
  <2>5. CASE ~Claimable(r)
    BY <2>1, <2>2, <2>5, SameRows
  <2>6. QED
    BY <2>4, <2>5
<1>11. ASSUME NEW d \in Deliverers, FlushClaim(d) PROVE [Ledger!Next]_(Ledger!vars)
  <2>1. UNCHANGED <<status, mode, told>>
    BY <1>11 DEF FlushClaim
  <2>2. PICK r \in todo[d] :
          IF Claimable(r) THEN delivered' = [delivered EXCEPT ![r] = TRUE] ELSE UNCHANGED delivered
    BY <1>11 DEF FlushClaim
  <2>3. CASE Claimable(r)
    <3>1. r \in Runs
      BY <2>2 DEF RInv, TypeOK
    <3>2. Ledger!Next
      BY <2>1, <2>2, <2>3, <3>1, HoldStep
    <3>3. QED
      BY <3>2
  <2>4. CASE ~Claimable(r)
    BY <2>1, <2>2, <2>4, SameRows
  <2>5. QED
    BY <2>3, <2>4
<1>12. ASSUME NEW d \in Deliverers,
              \/ FlushList(d) \/ FlushConv(d) \/ FlushInject(d)
              \/ FlushListFails(d) \/ FlushRaises(d) \/ FlushInjectFails(d)
       PROVE  UNCHANGED Ledger!vars
  BY <1>12, SameRows
     DEF FlushList, FlushConv, FlushInject, FlushListFails, FlushRaises, FlushInjectFails
<1>13. ASSUME NEW d \in Deliverers, Release(d) PROVE [Ledger!Next]_(Ledger!vars)
  <2>1. UNCHANGED <<status, told>> /\ at[d] \in {"release", "read_release"}
    BY <1>13 DEF Release
  <2>2. CASE UNCHANGED <<delivered, mode>>
    BY <2>1, <2>2, SameRows
  <2>3. CASE \E r \in mine[d] : /\ delivered' = [delivered EXCEPT ![r] = FALSE]
                                /\ mode' = [mode EXCEPT ![r] = "null"]
    <3>1. PICK r \in mine[d] : /\ delivered' = [delivered EXCEPT ![r] = FALSE]
                               /\ mode' = [mode EXCEPT ![r] = "null"]
      BY <2>3
    <3>2. r \in Runs /\ delivered[r] /\ mode[r] # "skipped"
      BY HeldNotClosed
    <3>3. told[r] = 0
      BY <2>1 DEF RInv, OneHolder, Held
    <3>4. \A q \in Runs \ {r} : LedgerOf(q)' = LedgerOf(q)
      BY <2>1, <3>1 DEF LedgerOf, RInv, TypeOK
    <3>5. ~delivered'[r] /\ mode'[r] = "null" /\ {r} \in SUBSET Runs /\ told' = told
      BY <2>1, <3>1, <3>2 DEF RInv, TypeOK
    <3>6. CASE status[r] = "deleted"
      <4>1. LedgerOf(r)' = LedgerOf(r)
        BY <2>1, <3>2, <3>3, <3>5, <3>6 DEF LedgerOf
      <4>2. QED
        BY <2>1, <3>4, <4>1, SameStanding
    <3>7. CASE status[r] # "deleted"
      <4>1. LedgerOf(r) = "held" /\ LedgerOf(r)' \in {"owed", "none"}
        BY <2>1, <3>2, <3>3, <3>5, <3>7 DEF LedgerOf
      <4>2. Ledger!Next
        BY <3>4, <3>5, <4>1, LedgerMove
      <4>3. QED
        BY <4>2
    <3>8. QED
      BY <3>6, <3>7
  <2>4. QED
    BY <1>13, <2>2, <2>3 DEF Release
<1>14. ASSUME NEW d \in Deliverers, FlushFinish(d) PROVE UNCHANGED Ledger!vars
  <2>1. /\ mine[d] \in SUBSET Runs /\ Finish(mine[d])
        /\ UNCHANGED <<status, delivered, told>>
    BY <1>14 DEF FlushFinish, RInv, TypeOK
  <2>2. QED
    BY <2>1, HeldNotClosed, FinishStep
<1>15. ASSUME \/ UserMessage \/ TurnStart \/ ReadInbox \/ ReadClaimed \/ StopReading
              \/ TurnEnd \/ TurnFlush \/ TurnReset
       PROVE  UNCHANGED Ledger!vars
  BY <1>15, SameRows
     DEF UserMessage, TurnStart, ReadInbox, ReadClaimed, StopReading, TurnEnd, TurnFlush, TurnReset
<1>16. ASSUME TurnBind PROVE Ledger!Next
  <2>1. /\ carried \in SUBSET Runs
        /\ told' = [r \in Runs |-> IF r \in carried THEN told[r] + 1 ELSE told[r]]
        /\ UNCHANGED <<status, delivered, mode>>
    BY <1>16 DEF TurnBind, RInv, TypeOK
  <2>2. QED
    BY <2>1, HeldNotClosed, GiveStep
<1>17. ASSUME ReadFinish PROVE Ledger!Next
  <2>1. Turn \in Deliverers /\ mine[Turn] \in SUBSET Runs
    BY DEF Deliverers, RInv, TypeOK
  <2>2. /\ told' = [r \in Runs |-> IF r \in mine[Turn] THEN told[r] + 1 ELSE told[r]]
        /\ UNCHANGED <<status, delivered>>
        /\ \A r \in Runs \ mine[Turn] : mode'[r] = mode[r]
    BY <1>17 DEF ReadFinish, Finish
  <2>3. \A r \in mine[Turn] : told[r] = 0
    BY <1>17, <2>1 DEF ReadFinish, RInv, OneHolder, Held
  <2>4. \A r \in mine[Turn] : delivered[r] /\ mode[r] # "skipped"
    BY <2>1, HeldNotClosed
  <2>5. QED
    BY <2>1, <2>2, <2>3, <2>4, GiveStep
<1>18. ASSUME StopFinishing PROVE UNCHANGED Ledger!vars
  <2>1. Turn \in Deliverers /\ mine[Turn] \in SUBSET Runs
    BY DEF Deliverers, RInv, TypeOK
  <2>2. PICK S \in SUBSET mine[Turn] : Finish(S)
    BY <1>18 DEF StopFinishing
  <2>3. S \in SUBSET Runs /\ UNCHANGED <<status, delivered, told>>
    BY <1>18, <2>1 DEF StopFinishing
  <2>4. \A r \in S : mode[r] # "skipped"
    BY <2>1, HeldNotClosed
  <2>5. QED
    BY <2>2, <2>3, <2>4, FinishStep
<1>19. ASSUME SweepNext PROVE [Ledger!Next]_(Ledger!vars)
  <2>1. UNCHANGED <<status, told>>
    BY <1>19 DEF SweepNext
  <2>2. CASE UNCHANGED <<delivered, mode>>
    BY <2>1, <2>2, SameRows
  <2>3. CASE \E r \in Runs : Claimable(r) /\ CloseOut(r, "completed")
    <3>1. Ledger!Next
      BY <2>1, <2>3, CloseStep
    <3>2. QED
      BY <3>1
  <2>4. QED
    BY <1>19, <2>2, <2>3 DEF SweepNext, RInv, TypeOK
<1>20. ASSUME Crash \/ SweepList \/ Reconcile \/ UNCHANGED vars PROVE UNCHANGED Ledger!vars
  BY <1>20, SameRows DEF Crash, SweepList, Reconcile, vars
<1>21. ASSUME StoreFails PROVE [Ledger!Next]_(Ledger!vars)
  <2>1. /\ UNCHANGED <<status, mode, told>>
        /\ \/ UNCHANGED delivered
           \/ \E r \in Runs : Claimable(r) /\ delivered' = [delivered EXCEPT ![r] = TRUE]
    BY <1>21, StoreFailsEffect DEF RInv
  <2>2. CASE UNCHANGED delivered
    BY <2>1, <2>2, SameRows
  <2>3. CASE \E r \in Runs : Claimable(r) /\ delivered' = [delivered EXCEPT ![r] = TRUE]
    BY <2>1, <2>3, HoldStep
  <2>4. QED
    BY <2>1, <2>2, <2>3
<1>22. QED
  BY <1>1, <1>2, <1>3, <1>4, <1>5, <1>6, <1>7, <1>8, <1>9, <1>10, <1>11, <1>12, <1>13, <1>14,
     <1>15, <1>16, <1>17, <1>18, <1>19, <1>20, <1>21
     DEF StoreFails, Next, RunStep, Flush, FlushFault, TurnStep, BootStep

\* The delivery machinery implements the ledger of results: with any number of
\* deliverers, failures, stops, deletions and crashes, the rows move only as the
\* ledger allows and a result is given only by one who holds it.
THEOREM ImplementsLedgerAlways == Spec => ImplementsLedger
<1>1. RInv /\ [Next]_vars => [Ledger!Next]_(Ledger!vars)
  BY RefinementStep
<1>2. QED
  BY RInvInvariant, RefinementInit, <1>1, PTL DEF Spec, ImplementsLedger, Ledger!Spec
=============================================================================
