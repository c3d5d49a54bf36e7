----------------------- MODULE TaskDelivery_promises -----------------------
(***************************************************************************)
(* What TaskDelivery promises of the results it handles.  Of the rules that *)
(* fire once: none ends before its result is claimed, none loses its result *)
(* to the volume bounds.  Of every result: none is left in the inbox when   *)
(* everything has come to rest, and none that was claimed is lost.          *)
(***************************************************************************)
EXTENDS TaskDelivery_refinement

-----------------------------------------------------------------------------
(* Faults that are not spent                                               *)

LEMMA StoreFailsSpends ==
  ASSUME StoreFails
  PROVE  Spend("db") /\ UNCHANGED <<status, origin>>
BY DEF StoreFails, HookFails, FlushDropFails, ReleaseFails, SweepNextFails, rowVars

\* A fault that has not happened by the end of a step has not happened in it.
LEMMA NothingSpent ==
  ASSUME TypeOK, [Next]_vars, NEW F \in SUBSET Faults, \A f \in F : spent'[f] = 0
  PROVE  /\ \A f \in F : spent[f] = 0
         /\ \A f \in F : ~Spend(f)
<1>1. spent' = spent \/ \E f \in Faults : Spend(f)
  BY NextIsAnyAction, StoreFailsSpends
     DEF AnyAction, ClaimFire, CreateRun, CreateFails, TimeoutClaim, TimeoutRecord, TimeoutRecordFails,
         RunEnds, Reply, StopRun, DeleteRun, Hook, FlushList, FlushConv, FlushDrop, FlushClaim, FlushInject,
         Release, FlushFinish, FlushListFails, FlushRaises, FlushInjectFails, UserMessage, TurnStart,
         TurnBind, ReadInbox, ReadClaimed, ReadFinish, StopReading, StopFinishing, TurnEnd, TurnFlush,
         TurnReset, DropOrigin, Crash, Restart, SweepList, SweepNext, Reconcile, vars, Faults
<1>2. spent \in [Faults -> Nat]
  BY DEF TypeOK
<1>3. ASSUME NEW g \in Faults, Spend(g)
      PROVE  /\ spent'[g] = spent[g] + 1 /\ spent'[g] # 0
             /\ \A f \in Faults \ {g} : spent'[f] = spent[f]
  BY <1>2, <1>3 DEF Spend
<1>4. ASSUME NEW f \in F PROVE ~Spend(f)
  BY <1>3, <1>4
<1>5. ASSUME NEW f \in F PROVE spent[f] = 0
  <2>1. CASE spent' = spent
    BY <2>1
  <2>2. ASSUME NEW g \in Faults, Spend(g) PROVE spent[f] = 0
    BY <1>3, <1>4, <2>2
  <2>3. QED
    BY <1>1, <2>1, <2>2
<1>6. QED
  BY <1>4, <1>5

LEMMA CrashCounts ==
  ASSUME TypeOK, [Next]_vars, spent'["crash"] = 0
  PROVE  spent["crash"] = 0 /\ ~Crash
<1>1. {"crash"} \in SUBSET Faults
  BY DEF Faults
<1>2. QED
  BY <1>1, NothingSpent DEF Crash

-----------------------------------------------------------------------------
(* A spent rule's result is claimed                                        *)

Over == {"completed", "cancelled"}

\* A result in a deliverer's hands may still be released, so its rule goes on.
SpentIsClaimed ==
  spent["crash"] = 0 =>
    /\ phase = "up"
    /\ \A r \in Runs : task[r] \in Over => delivered[r]
    /\ \A d \in Deliverers : \A r \in mine[d] : task[r] \notin Over

\* The steps that end no rule, release nothing and claim nothing.
LEMMA EndsNothing ==
  ASSUME SpentIsClaimed, spent["crash"] = 0, phase' = phase,
         \A r \in Runs : task'[r] = task[r] \/ task'[r] \notin Over,
         \A r \in Runs : delivered[r] => delivered'[r],
         \A d \in Deliverers : mine'[d] \subseteq mine[d] /\ mine[d] \subseteq Runs
  PROVE  SpentIsClaimed'
BY DEF SpentIsClaimed

LEMMA ReturnLetsGo ==
  ASSUME TypeOK, NEW d \in Deliverers, Return(d)
  PROVE  /\ mine'[d] = {}
         /\ \A e \in Deliverers : mine'[e] \subseteq mine[e] /\ mine[e] \subseteq Runs
         /\ \A e \in Deliverers \ {d} : mine'[e] = mine[e]
BY DEF TypeOK, Return

\* A row that is closed out was in nobody's hands.
LEMMA CloseOutEnds ==
  ASSUME TypeOK, OneHolder, SpentIsClaimed, spent["crash"] = 0, phase' = phase,
         NEW r \in Runs, NEW end, Claimable(r), CloseOut(r, end),
         \A d \in Deliverers : mine'[d] \subseteq mine[d]
  PROVE  SpentIsClaimed'
<1>1. ~delivered[r] /\ \A d \in Deliverers : r \notin mine[d] /\ mine[d] \subseteq Runs
  BY DEF Claimable, OneHolder, TypeOK
<1>2. \A q \in Runs : /\ delivered'[q] = (delivered[q] \/ q = r)
                      /\ q # r => task'[q] = task[q]
  BY DEF CloseOut, Moved, TypeOK
<1>3. QED
  BY <1>1, <1>2 DEF SpentIsClaimed

\* What a deliverer finishes it lets go of.
LEMMA FinishEnds ==
  ASSUME TypeOK, OneHolder, SpentIsClaimed, spent["crash"] = 0, phase' = phase, delivered' = delivered,
         NEW d \in Deliverers, NEW S \in SUBSET mine[d], Finish(S), Return(d)
  PROVE  SpentIsClaimed'
<1>1. S \subseteq Runs /\ \A r \in S : delivered[r]
  BY DEF TypeOK, OneHolder
<1>2. \A r \in Runs : task'[r] = task[r] \/ (r \in S /\ task'[r] \in Over)
  BY DEF Finish, Over
<1>3. /\ mine'[d] = {}
      /\ \A e \in Deliverers \ {d} : mine'[e] = mine[e] /\ mine[e] \subseteq Runs /\ mine[e] \cap S = {}
  BY ReturnLetsGo DEF OneHolder
<1>4. QED
  BY <1>1, <1>2, <1>3 DEF SpentIsClaimed

LEMMA SpentIsClaimedInit == Init => SpentIsClaimed
BY DEF Init, SpentIsClaimed, Over

LEMMA SpentIsClaimedStep ==
  ASSUME TypeOK, OneHolder, BootHasJob, SpentIsClaimed, [Next]_vars
  PROVE  SpentIsClaimed'
<1> SUFFICES ASSUME spent'["crash"] = 0
             PROVE  SpentIsClaimed'
  BY DEF SpentIsClaimed
<1> USE DEF rowVars, convVars, procVars, bootVars
<1>0. /\ spent["crash"] = 0 /\ ~Crash /\ phase = "up"
      /\ \A d \in Deliverers : mine[d] \subseteq Runs
  BY CrashCounts DEF SpentIsClaimed, TypeOK
<1>1. ASSUME NEW r \in Runs, ClaimFire(r) \/ CreateFails(r) \/ TimeoutClaim(r)
      PROVE  SpentIsClaimed'
  <2>1. /\ UNCHANGED <<delivered, mine, phase>>
        /\ \A q \in Runs : task'[q] = task[q] \/ task'[q] \notin Over
    BY <1>1 DEF ClaimFire, CreateFails, TimeoutClaim, Moved, Over, TypeOK
  <2>2. QED
    BY <1>0, <2>1, EndsNothing
<1>2. ASSUME \/ \E r \in Runs : \/ CreateRun(r) \/ TimeoutRecord(r) \/ TimeoutRecordFails(r)
                                \/ \E s \in Terminal \cup {"pending"} : RunEnds(r, s)
                                \/ Reply(r) \/ DeleteRun(r)
             \/ \E d \in Deliverers : FlushConv(d) \/ FlushInjectFails(d)
             \/ UserMessage \/ TurnStart \/ TurnBind \/ ReadInbox \/ StopReading
             \/ TurnEnd \/ TurnFlush \/ TurnReset \/ UNCHANGED vars
      PROVE  SpentIsClaimed'
  <2>1. UNCHANGED <<task, delivered, mine, phase>>
    BY <1>2 DEF CreateRun, TimeoutRecord, TimeoutRecordFails, RunEnds, Reply, DeleteRun, FlushConv,
                FlushInjectFails, UserMessage, TurnStart, TurnBind, ReadInbox, StopReading, TurnEnd,
                TurnFlush, TurnReset, vars
  <2>2. QED
    BY <1>0, <2>1, EndsNothing
<1>3. ASSUME \/ \E r \in Runs : StopRun(r)
             \/ \E d \in Deliverers : FlushList(d) \/ FlushListFails(d) \/ FlushRaises(d) \/ FlushInject(d)
             \/ ReadClaimed \/ DropOrigin
      PROVE  SpentIsClaimed'
  <2>1. UNCHANGED <<task, delivered, phase>> /\ (UNCHANGED mine \/ \E d \in Deliverers : Return(d))
    BY <1>3 DEF StopRun, FlushList, FlushListFails, FlushRaises, FlushInject, ReadClaimed, DropOrigin,
                Deliverers
  <2>2. \A d \in Deliverers : mine'[d] \subseteq mine[d]
    BY <2>1, ReturnLetsGo
  <2>3. QED
    BY <1>0, <2>1, <2>2, EndsNothing
<1>4. ASSUME NEW d \in Runs \cup {Boot}, Hook(d) PROVE SpentIsClaimed'
  <2>1. UNCHANGED phase /\ \A e \in Deliverers : mine'[e] \subseteq mine[e]
    BY <1>4, ReturnLetsGo DEF Hook, Deliverers
  <2>2. CASE UNCHANGED <<task, delivered, mode>>
    BY <1>0, <2>1, <2>2, EndsNothing
  <2>3. CASE Claimable(Subject(d)) /\ \E end : CloseOut(Subject(d), end)
    BY <1>0, <1>4, <2>1, <2>3, SubjectIsRun, CloseOutEnds DEF Hook
  <2>4. QED
    BY <1>4, <2>2, <2>3 DEF Hook
<1>5. ASSUME NEW d \in Deliverers, FlushDrop(d) PROVE SpentIsClaimed'
  <2>1. PICK r \in drop[d] : IF Claimable(r) THEN CloseOut(r, "completed")
                                             ELSE UNCHANGED <<task, delivered, mode>>
    BY <1>5 DEF FlushDrop
  <2>2. UNCHANGED <<mine, phase>> /\ r \in Runs
    BY <1>5 DEF FlushDrop, TypeOK
  <2>3. CASE Claimable(r)
    BY <1>0, <2>1, <2>2, <2>3, CloseOutEnds
  <2>4. CASE ~Claimable(r)
    BY <1>0, <2>1, <2>2, <2>4, EndsNothing
  <2>5. QED
    BY <2>3, <2>4
<1>6. ASSUME NEW d \in Deliverers, FlushClaim(d) PROVE SpentIsClaimed'
  <2>1. PICK r \in todo[d] : IF Claimable(r)
                             THEN /\ delivered' = [delivered EXCEPT ![r] = TRUE]
                                  /\ mine' = [mine EXCEPT ![d] = @ \cup {r}]
                             ELSE UNCHANGED <<delivered, mine>>
    BY <1>6 DEF FlushClaim
  <2>2. UNCHANGED <<task, phase>> /\ r \in Runs
    BY <1>6 DEF FlushClaim, TypeOK
  <2>3. CASE Claimable(r)
    <3>1. ~delivered[r] /\ task[r] \notin Over
      BY <1>0, <2>2, <2>3 DEF Claimable, SpentIsClaimed
    <3>2. /\ \A q \in Runs : delivered[q] => delivered'[q]
          /\ \A e \in Deliverers : mine'[e] \subseteq mine[e] \cup {r}
      BY <2>1, <2>3 DEF TypeOK
    <3>3. QED
      BY <1>0, <2>2, <3>1, <3>2 DEF SpentIsClaimed
  <2>4. CASE ~Claimable(r)
    BY <1>0, <2>1, <2>2, <2>4, EndsNothing
  <2>5. QED
    BY <2>3, <2>4
<1>7. ASSUME NEW d \in Deliverers, Release(d) PROVE SpentIsClaimed'
  <2>1. UNCHANGED <<task, phase>>
    BY <1>7 DEF Release
  <2>2. CASE mine[d] = {}
    <3>1. UNCHANGED delivered /\ \A e \in Deliverers : mine'[e] \subseteq mine[e]
      BY <1>7, <2>2, ReturnLetsGo DEF Release
    <3>2. QED
      BY <1>0, <2>1, <3>1, EndsNothing
  <2>3. CASE mine[d] # {}
    <3>1. PICK r \in mine[d] : /\ delivered' = [delivered EXCEPT ![r] = FALSE]
                               /\ mine' = [mine EXCEPT ![d] = @ \ {r}]
      BY <1>7, <2>3 DEF Release
    <3>2. task[r] \notin Over /\ \A q \in Runs : q # r => delivered'[q] = delivered[q]
      BY <1>0, <3>1 DEF SpentIsClaimed, TypeOK
    <3>3. \A e \in Deliverers : mine'[e] \subseteq mine[e]
      BY <3>1 DEF TypeOK
    <3>4. QED
      BY <1>0, <2>1, <3>2, <3>3 DEF SpentIsClaimed
  <2>4. QED
    BY <2>2, <2>3
<1>8. ASSUME \/ \E d \in Deliverers : FlushFinish(d)
             \/ ReadFinish \/ StopFinishing
      PROVE  SpentIsClaimed'
  <2>1. /\ UNCHANGED <<delivered, phase>>
        /\ \E d \in Deliverers : \E S \in SUBSET mine[d] : Finish(S) /\ Return(d)
    BY <1>8 DEF FlushFinish, ReadFinish, StopFinishing, Deliverers
  <2>2. QED
    BY <1>0, <2>1, FinishEnds
<1>9. ASSUME Restart \/ SweepList \/ SweepNext \/ Reconcile PROVE SpentIsClaimed'
  BY <1>0, <1>9 DEF Restart, SweepList, SweepNext, Reconcile
<1>10. ASSUME StoreFails PROVE SpentIsClaimed'
  <2>1. /\ UNCHANGED <<task, phase>> /\ \A e \in Deliverers : mine'[e] \subseteq mine[e]
        /\ \A r \in Runs : delivered[r] => delivered'[r]
    BY <1>10, StoreFailsLetsGo DEF LetsGo
  <2>2. QED
    BY <1>0, <2>1, EndsNothing
<1>11. QED
  BY <1>0, <1>1, <1>2, <1>3, <1>4, <1>5, <1>6, <1>7, <1>8, <1>9, <1>10, NextIsAnyAction DEF AnyAction

-----------------------------------------------------------------------------
(* No one-shot is dropped                                                  *)

\* A run the boot sweep has listed as cancelled stays so until it is visited.
ListedCancelled ==
  /\ sweep # {} => phase = "sweep"
  /\ at[Boot] = "hook" => phase = "sweep"
  /\ \A x \in sweep : x[2] = "cancelled" => status[x[1]] \in {"cancelled", "deleted"}
  /\ at[Boot] = "hook" /\ job[2] = "cancelled" => status[job[1]] \in {"cancelled", "deleted"}
\* While the origin lives, a flush sets only standing results aside.
OnlyStanding == origin = "live" => \A d \in Deliverers : drop[d] \cap Once = {}

\* The steps that end no cancellation and pass the boot sweep no row.
LEMMA ListedStays ==
  ASSUME TypeOK, BootHasJob, ListedCancelled, phase' = phase, sweep' \subseteq sweep,
         at'[Boot] = "hook" => at[Boot] = "hook" /\ job' = job,
         \A r \in Runs : status[r] \in {"cancelled", "deleted"} => status'[r] \in {"cancelled", "deleted"}
  PROVE  ListedCancelled'
<1>1. \A x \in sweep : x[1] \in Runs
  BY DEF TypeOK
<1>2. at[Boot] = "hook" => job[1] \in Runs
  BY DEF TypeOK, BootHasJob
<1>3. QED
  BY <1>1, <1>2 DEF ListedCancelled

LEMMA ListedInit == Init => ListedCancelled /\ OnlyStanding
BY DEF Init, ListedCancelled, OnlyStanding, Deliverers

LEMMA ListedStep ==
  ASSUME TypeOK, BootHasJob, Fresh, ListedCancelled, [Next]_vars
  PROVE  ListedCancelled'
<1> USE DEF rowVars, convVars, procVars, bootVars
<1>0. /\ \A d \in Deliverers : at[d] \in DelivererPCs
      /\ Boot \in Deliverers /\ \A r \in Runs : r \in Deliverers /\ r # Boot
      /\ Turn \in Deliverers /\ Turn # Boot
  BY RunsAssumption DEF TypeOK, Deliverers, Turn, Boot
<1>1. ASSUME NEW r \in Runs, NEW s, status' = [status EXCEPT ![r] = s],
             status[r] \notin {"cancelled", "deleted"} \/ s = "deleted"
      PROVE  \A q \in Runs : status[q] \in {"cancelled", "deleted"} => status'[q] \in {"cancelled", "deleted"}
  BY <1>1 DEF TypeOK
<1>2. ASSUME NEW r \in Runs, CreateRun(r) \/ TimeoutRecord(r) PROVE ListedCancelled'
  <2>1. status[r] = "absent"
    BY <1>2 DEF Fresh, CreateRun, TimeoutRecord
  <2>2. UNCHANGED <<phase, sweep, job>> /\ at'[Boot] = at[Boot]
    BY <1>0, <1>2 DEF CreateRun, TimeoutRecord, Goto, TypeOK
  <2>3. UNCHANGED status \/ \E s : status' = [status EXCEPT ![r] = s]
    BY <1>2 DEF CreateRun, TimeoutRecord
  <2>4. QED
    BY <1>1, <2>1, <2>2, <2>3, ListedStays
<1>3. ASSUME NEW r \in Runs, NEW s \in Terminal \cup {"pending"}, RunEnds(r, s) PROVE ListedCancelled'
  <2>1. UNCHANGED <<phase, sweep, job>> /\ at'[Boot] = at[Boot]
    BY <1>0, <1>3 DEF RunEnds, Goto, TypeOK
  <2>2. QED
    BY <1>1, <1>3, <2>1, ListedStays DEF RunEnds
<1>4. ASSUME NEW r \in Runs, Reply(r) PROVE ListedCancelled'
  BY <1>4 DEF Reply, ListedCancelled
<1>5. ASSUME NEW r \in Runs, DeleteRun(r) PROVE ListedCancelled'
  BY <1>1, <1>5, ListedStays DEF DeleteRun
<1>6. ASSUME DropOrigin PROVE ListedCancelled'
  <2>1. UNCHANGED <<phase, sweep, job>> /\ at'[Boot] = at[Boot]
    BY <1>0, <1>6 DEF DropOrigin, Return, Goto, TypeOK
  <2>2. \A q \in Runs : status'[q] \in {status[q], "deleted"}
    BY <1>6 DEF DropOrigin
  <2>3. QED
    BY <2>1, <2>2, ListedStays
<1>7. ASSUME Crash PROVE ListedCancelled'
  BY <1>0, <1>7 DEF Crash, ListedCancelled
<1>8. ASSUME Restart PROVE ListedCancelled'
  BY <1>8 DEF Restart, ListedCancelled
<1>9. ASSUME SweepList PROVE ListedCancelled'
  BY <1>9 DEF SweepList, ListedCancelled
<1>10. ASSUME SweepNext PROVE ListedCancelled'
  <2>1. PICK x \in sweep : /\ sweep' = sweep \ {x}
                           /\ UNCHANGED <<at, job>> \/ (Goto(Boot, "hook") /\ job' = x)
    BY <1>10 DEF SweepNext
  <2>2. UNCHANGED <<status, phase>> /\ phase = "sweep"
    BY <1>10 DEF SweepNext
  <2>3. CASE UNCHANGED <<at, job>>
    BY <2>1, <2>2, <2>3, ListedStays
  <2>4. CASE Goto(Boot, "hook") /\ job' = x
    BY <2>1, <2>2, <2>4 DEF ListedCancelled
  <2>5. QED
    BY <2>1, <2>3, <2>4
<1>11. ASSUME Reconcile PROVE ListedCancelled'
  BY <1>11 DEF Reconcile, ListedCancelled
<1>12. ASSUME \E d \in Runs \cup {Boot} : Hook(d) PROVE ListedCancelled'
  <2>1. UNCHANGED <<status, phase, sweep, job>> /\ (at'[Boot] = "hook" => at[Boot] = "hook")
    BY <1>0, <1>12 DEF Hook, Goto, Return, TypeOK
  <2>2. QED
    BY <2>1, ListedStays
<1>13. ASSUME NEW r \in Runs,
              ClaimFire(r) \/ CreateFails(r) \/ TimeoutClaim(r) \/ TimeoutRecordFails(r) \/ StopRun(r)
       PROVE  ListedCancelled'
  <2>1. UNCHANGED <<status, phase, sweep, job>> /\ at'[Boot] = at[Boot]
    BY <1>0, <1>13 DEF ClaimFire, CreateFails, TimeoutClaim, TimeoutRecordFails, StopRun, Goto, Return, TypeOK
  <2>2. QED
    BY <2>1, ListedStays
<1>14. ASSUME NEW d \in Deliverers,
              \/ FlushList(d) \/ FlushConv(d) \/ FlushDrop(d) \/ FlushClaim(d)
              \/ FlushInject(d) \/ Release(d) \/ FlushFinish(d)
              \/ FlushListFails(d) \/ FlushRaises(d) \/ FlushInjectFails(d)
       PROVE  ListedCancelled'
  <2>1. UNCHANGED <<status, phase, sweep, job>> /\ (at'[Boot] = "hook" => at[Boot] = "hook")
    BY <1>0, <1>14 DEF FlushList, FlushConv, FlushDrop, FlushClaim, FlushInject, Release, FlushFinish,
                       FlushListFails, FlushRaises, FlushInjectFails, Goto, Return, TypeOK
  <2>2. QED
    BY <2>1, ListedStays
<1>15. ASSUME \/ UserMessage \/ TurnStart \/ TurnBind \/ ReadInbox \/ ReadClaimed \/ ReadFinish
              \/ StopReading \/ StopFinishing \/ TurnEnd \/ TurnFlush \/ TurnReset \/ UNCHANGED vars
       PROVE  ListedCancelled'
  <2>1. UNCHANGED <<status, phase, sweep, job>> /\ at'[Boot] = at[Boot]
    BY <1>0, <1>15 DEF UserMessage, TurnStart, TurnBind, ReadInbox, ReadClaimed, ReadFinish, StopReading,
                       StopFinishing, TurnEnd, TurnFlush, TurnReset, Goto, Return, TypeOK, vars
  <2>2. QED
    BY <2>1, ListedStays
<1>16. ASSUME StoreFails PROVE ListedCancelled'
  <2>1. UNCHANGED <<status, phase, job>> /\ sweep' \subseteq sweep /\ (at'[Boot] = "hook" => at[Boot] = "hook")
    BY <1>0, <1>16, StoreFailsEffect
  <2>2. QED
    BY <2>1, ListedStays
<1>17. QED
  BY <1>2, <1>3, <1>4, <1>5, <1>6, <1>7, <1>8, <1>9, <1>10, <1>11, <1>12, <1>13, <1>14, <1>15, <1>16,
     NextIsAnyAction DEF AnyAction

LEMMA OnlyStandingStep ==
  ASSUME TypeOK, BootHasJob, OnlyStanding, [Next]_vars
  PROVE  OnlyStanding'
<1> USE DEF rowVars, convVars, procVars, bootVars
<1> SUFFICES ASSUME origin' = "live"
             PROVE  \A d \in Deliverers : drop'[d] \cap Once = {}
  BY DEF OnlyStanding
<1>1. origin = "live" \/ (origin' = origin /\ ~DropOrigin)
  BY NextIsAnyAction, StoreFailsSpends
     DEF AnyAction, ClaimFire, CreateRun, CreateFails, TimeoutClaim, TimeoutRecord, TimeoutRecordFails,
         RunEnds, Reply, StopRun, DeleteRun, Hook, FlushList, FlushConv, FlushDrop, FlushClaim, FlushInject,
         Release, FlushFinish, FlushListFails, FlushRaises, FlushInjectFails, UserMessage, TurnStart,
         TurnBind, ReadInbox, ReadClaimed, ReadFinish, StopReading, StopFinishing, TurnEnd, TurnFlush,
         TurnReset, DropOrigin, Crash, Restart, SweepList, SweepNext, Reconcile, vars
<1>2. origin = "live" /\ \A d \in Deliverers : drop[d] \cap Once = {}
  BY <1>1 DEF OnlyStanding
<1>3. ASSUME NEW d \in Deliverers, FlushConv(d) PROVE drop'[d] \cap Once = {} /\ \A e \in Deliverers \ {d} : drop'[e] = drop[e]
  <2>1. PICK over \in SUBSET todo[d] : Partition(todo[d], over) /\ drop' = [drop EXCEPT ![d] = over]
    BY <1>2, <1>3 DEF FlushConv
  <2>2. QED
    BY <2>1 DEF Partition, TypeOK
<1>4. ASSUME ReadInbox PROVE drop'[Turn] \cap Once = {} /\ \A e \in Deliverers \ {Turn} : drop'[e] = drop[e]
  <2>1. PICK over \in SUBSET Inbox : Partition(Inbox, over) /\ drop' = [drop EXCEPT ![Turn] = over]
    BY <1>4 DEF ReadInbox
  <2>2. QED
    BY <2>1 DEF Partition, TypeOK, Deliverers
<1>5. ASSUME UNCHANGED drop PROVE \A d \in Deliverers : drop'[d] \subseteq drop[d]
  BY <1>5
<1>6. ASSUME NEW d \in Deliverers, Return(d) PROVE \A e \in Deliverers : drop'[e] \subseteq drop[e]
  BY <1>6 DEF Return, TypeOK
<1>7. ASSUME NEW r \in Runs,
             \/ ClaimFire(r) \/ CreateRun(r) \/ CreateFails(r) \/ TimeoutClaim(r) \/ TimeoutRecord(r)
             \/ TimeoutRecordFails(r) \/ Reply(r) \/ DeleteRun(r)
             \/ \E s \in Terminal \cup {"pending"} : RunEnds(r, s)
      PROVE  UNCHANGED drop
  BY <1>7 DEF ClaimFire, CreateRun, CreateFails, TimeoutClaim, TimeoutRecord, TimeoutRecordFails, Reply,
              DeleteRun, RunEnds
<1>8. ASSUME \/ UserMessage \/ TurnStart \/ TurnBind \/ TurnEnd \/ TurnFlush \/ TurnReset
             \/ Restart \/ SweepList \/ SweepNext \/ Reconcile \/ UNCHANGED vars
      PROVE  UNCHANGED drop
  BY <1>8 DEF UserMessage, TurnStart, TurnBind, TurnEnd, TurnFlush, TurnReset, Restart, SweepList,
              SweepNext, Reconcile, vars
<1>9. ASSUME NEW d \in Runs \cup {Boot}, Hook(d) PROVE \A e \in Deliverers : drop'[e] \subseteq drop[e]
  <2>1. UNCHANGED drop \/ Return(d)
    BY <1>9 DEF Hook
  <2>2. QED
    BY <2>1, <1>5, <1>6 DEF Deliverers
<1>10. ASSUME NEW d \in Deliverers,
              \/ FlushList(d) \/ FlushListFails(d) \/ FlushRaises(d) \/ FlushInject(d)
              \/ FlushInjectFails(d) \/ FlushClaim(d) \/ Release(d) \/ FlushFinish(d)
       PROVE  \A e \in Deliverers : drop'[e] \subseteq drop[e]
  <2>1. UNCHANGED drop \/ Return(d)
    BY <1>10 DEF FlushList, FlushListFails, FlushRaises, FlushInject, FlushInjectFails, FlushClaim, Release,
                 FlushFinish
  <2>2. QED
    BY <2>1, <1>5, <1>6
<1>11. ASSUME NEW d \in Deliverers, FlushDrop(d) PROVE \A e \in Deliverers : drop'[e] \subseteq drop[e]
  <2>1. PICK r \in drop[d] : drop' = [drop EXCEPT ![d] = @ \ {r}]
    BY <1>11 DEF FlushDrop
  <2>2. QED
    BY <2>1 DEF TypeOK
<1>12. ASSUME ReadClaimed \/ ReadFinish \/ StopFinishing \/ DropOrigin
       PROVE  \A e \in Deliverers : drop'[e] \subseteq drop[e]
  <2>1. UNCHANGED drop \/ Return(Turn)
    BY <1>12 DEF ReadClaimed, ReadFinish, StopFinishing, DropOrigin
  <2>2. QED
    BY <2>1, <1>5, <1>6 DEF Deliverers
<1>13. ASSUME StopReading \/ \E r \in Runs : StopRun(r) PROVE \A e \in Deliverers : drop'[e] \subseteq drop[e]
  <2>1. CASE StopReading
    BY <2>1 DEF StopReading, TypeOK
  <2>2. ASSUME NEW r \in Runs, StopRun(r) PROVE \A e \in Deliverers : drop'[e] \subseteq drop[e]
    BY <2>2, <1>6 DEF StopRun, Deliverers
  <2>3. QED
    BY <1>13, <2>1, <2>2
<1>14. ASSUME Crash PROVE \A e \in Deliverers : drop'[e] \subseteq drop[e]
  BY <1>14 DEF Crash
<1>15. ASSUME StoreFails PROVE \A e \in Deliverers : drop'[e] \subseteq drop[e]
  BY <1>15, StoreFailsEffect
<1>16. \/ \A e \in Deliverers : drop'[e] \subseteq drop[e]
       \/ ReadInbox \/ \E d \in Deliverers : FlushConv(d)
  BY <1>5, <1>7, <1>8, <1>9, <1>10, <1>11, <1>12, <1>13, <1>14, <1>15, NextIsAnyAction DEF AnyAction
<1>17. QED
  BY <1>2, <1>3, <1>4, <1>16

-----------------------------------------------------------------------------
OInv == RInv /\ BootHasJob /\ SpentIsClaimed /\ ListedCancelled /\ OnlyStanding

LEMMA OInvInvariant == Spec => []OInv
<1>1. RInv /\ BootHasJob /\ SpentIsClaimed /\ ListedCancelled /\ OnlyStanding /\ [Next]_vars
        => (BootHasJob /\ SpentIsClaimed /\ ListedCancelled /\ OnlyStanding)'
  BY BootJobStep, SpentIsClaimedStep, ListedStep, OnlyStandingStep DEF RInv
<1>2. Init => BootHasJob /\ SpentIsClaimed /\ ListedCancelled /\ OnlyStanding
  BY TypeInit, SpentIsClaimedInit, ListedInit
<1>3. QED
  BY RInvInvariant, <1>1, <1>2, PTL DEF Spec, OInv

\* A rule that fires once is spent only after delivery, as long as the process lives:
\* its result is then claimed for good, whatever fails, is stopped or resumed in between
\* (_finish_delivery, _close_out, clear_delivery_claim).
THEOREM SpentMeansClaimedAlways == Spec => []SpentMeansClaimed
<1>1. OInv => SpentMeansClaimed
  BY OnceAssumption DEF OInv, SpentIsClaimed, SpentMeansClaimed, Over
<1>2. QED
  BY OInvInvariant, <1>1, PTL

\* Only the rows a step closes out become "skipped".
LEMMA Skips ==
  ASSUME TypeOK, BootHasJob, [Next]_vars, NEW r \in Runs, mode[r] # "skipped", mode'[r] = "skipped"
  PROVE  /\ Claimable(r)
         /\ \/ \E d \in Runs \cup {Boot} : /\ Hook(d) /\ r = Subject(d)
                                           /\ Ended(d) = "cancelled" \/ origin = "gone"
            \/ \E d \in Deliverers : r \in drop[d]
            \/ r \notin Once
<1> USE DEF rowVars, convVars, procVars, bootVars
<1>1. ASSUME NEW q \in Runs, NEW end, CloseOut(q, end)
      PROVE  r = q
  BY <1>1 DEF CloseOut, TypeOK
<1>2. ASSUME NEW d \in Runs \cup {Boot}, Hook(d)
      PROVE  /\ Claimable(r) /\ r = Subject(d)
             /\ Ended(d) = "cancelled" \/ origin = "gone"
  <2>1. Subject(d) \in Runs
    BY <1>2, SubjectIsRun DEF Hook
  <2>2. /\ Claimable(Subject(d)) /\ \E end : CloseOut(Subject(d), end)
        /\ Ended(d) = "cancelled" \/ origin = "gone"
    BY <1>2 DEF Hook
  <2>3. QED
    BY <1>1, <2>1, <2>2
<1>3. ASSUME NEW d \in Deliverers, FlushDrop(d)
      PROVE  Claimable(r) /\ r \in drop[d]
  BY <1>1, <1>3 DEF FlushDrop, TypeOK
<1>4. ASSUME SweepNext
      PROVE  Claimable(r) /\ r \notin Once
  <2>1. PICK x \in sweep : x[1] \notin Once /\ Claimable(x[1]) /\ CloseOut(x[1], "completed")
    BY <1>4 DEF SweepNext
  <2>2. x[1] \in Runs
    BY <2>1 DEF TypeOK
  <2>3. QED
    BY <1>1, <2>1, <2>2
<1>5. ASSUME \/ \E d \in Deliverers : Release(d) \/ FlushFinish(d)
             \/ ReadFinish \/ StopFinishing
      PROVE  FALSE
  BY <1>5 DEF Release, FlushFinish, ReadFinish, StopFinishing, Finish, TypeOK
<1>6. ASSUME mode' = mode
      PROVE  FALSE
  BY <1>6
<1>7. ASSUME StoreFails
      PROVE  FALSE
  BY <1>6, <1>7, StoreFailsEffect
<1>8. QED
  BY <1>2, <1>3, <1>4, <1>5, <1>6, <1>7, NextIsAnyAction
     DEF AnyAction, ClaimFire, CreateRun, CreateFails, TimeoutClaim, TimeoutRecord, TimeoutRecordFails,
         RunEnds, Reply, StopRun, DeleteRun, FlushList, FlushConv, FlushClaim, FlushInject,
         FlushListFails, FlushRaises, FlushInjectFails, UserMessage, TurnStart,
         TurnBind, ReadInbox, ReadClaimed, StopReading, TurnEnd, TurnFlush,
         TurnReset, DropOrigin, Crash, Restart, SweepList, Reconcile, vars

\* A one-shot that is closed out while its origin lives stands cancelled.
LEMMA SkippedOneShot ==
  ASSUME TypeOK, BootHasJob, ListedCancelled, OnlyStanding, [Next]_vars, NEW r \in Once,
         mode[r] # "skipped", mode'[r] = "skipped", origin = "live"
  PROVE  status[r] = "cancelled"
<1>1. r \in Runs
  BY OnceAssumption
<1>2. /\ Claimable(r)
      /\ \E d \in Runs \cup {Boot} : at[d] = "hook" /\ r = Subject(d) /\ Ended(d) = "cancelled"
  BY <1>1, Skips DEF OnlyStanding, Hook
<1>3. status[r] \in Terminal
  BY <1>2 DEF Claimable
<1>4. PICK d \in Runs \cup {Boot} : at[d] = "hook" /\ r = Subject(d) /\ Ended(d) = "cancelled"
  BY <1>2
<1>5. CASE d = Boot
  BY <1>3, <1>4, <1>5 DEF ListedCancelled, Subject, Ended, Terminal
<1>6. CASE d # Boot
  BY <1>4, <1>6 DEF Subject, Ended
<1>7. QED
  BY <1>5, <1>6

\* The volume bounds never cost a one-shot its result: one that is closed out unreported
\* was cancelled or has no origin left to report to, boot and its stale list included
\* (_partition_pending, on_run_terminal, sweep_undelivered).
THEOREM OneShotsAreKept == Spec => OneShotNeverDropped
<1>1. OInv /\ [Next]_vars =>
        [\A r \in Once :
           mode[r] # "skipped" /\ mode'[r] = "skipped" => status[r] = "cancelled" \/ origin = "gone"]_vars
  <2> SUFFICES ASSUME OInv, [Next]_vars, NEW r \in Once, mode[r] # "skipped", mode'[r] = "skipped",
                      origin # "gone"
               PROVE  status[r] = "cancelled"
    OBVIOUS
  <2>1. origin = "live"
    BY DEF OInv, RInv, TypeOK
  <2>2. QED
    BY <2>1, SkippedOneShot DEF OInv, RInv
<1>2. QED
  BY OInvInvariant, <1>1, PTL DEF Spec, OneShotNeverDropped

-----------------------------------------------------------------------------
(* Every result in the inbox is attended to                                *)

\* No database call failed, no continuation could not be enqueued, nothing was stopped.
Calm == \A f \in {"db", "enqueue", "stop_run", "stop_turn"} : spent[f] = 0

\* Deliverer d is on its way to result r.
Awaits(d, r) ==
  \/ d \in Runs \cup {Boot} /\ at[d] = "hook" /\ Subject(d) = r
  \/ at[d] = "list"
  \/ at[d] = "conv" /\ r \in todo[d]
  \/ at[d] \in {"rows", "read_rows"} /\ r \in todo[d] \cup drop[d]

\* Somebody is still to look at r: a deliverer, the turn whose end flushes what parked,
\* or the boot sweep.
Expected(r) ==
  \/ \E d \in Deliverers : Awaits(d, r)
  \/ marker /\ turn \in {"live", "ending"}
  \/ phase \in {"down", "boot"}
  \/ \E x \in sweep : x[1] = r

\* Only a live turn is bound, so what parks is found at its end; nothing claimed is given back.
Attended == Calm =>
  /\ bound => turn = "live"
  /\ \A d \in Deliverers : at[d] \notin {"release", "read_release"}
  /\ \A r \in Inbox : Expected(r)

LEMMA AttendedInit == Init => Attended
BY DEF Init, Attended, Inbox, Claimable, Terminal, Deliverers

\* A step that puts no result into the inbox and takes away nobody who is on the way.
LEMMA StaysAttended ==
  ASSUME TypeOK, Attended, Calm, Calm', origin' \in {origin, "gone"},
         bound' => turn' = "live",
         \A d \in Deliverers : at'[d] \notin {"release", "read_release"},
         \A r \in Runs : r \in Inbox' /\ r \in Inbox /\ Expected(r) => Expected(r)',
         \A r \in Runs : r \in Inbox' /\ r \notin Inbox => Expected(r)'
  PROVE  Attended'
<1>1. \A r \in Inbox' : r \in Runs
  BY DEF Inbox
<1>2. QED
  BY <1>1 DEF Attended

\* Where the deliverers other than d are is as it was.
OthersStay(d) == \A e \in Deliverers \ {d} : at'[e] = at[e] /\ todo'[e] = todo[e] /\ drop'[e] = drop[e]

\* The boot sweep, the notices and their turn are as they were.
KeepsWatch ==
  /\ UNCHANGED <<bootVars, origin>>
  /\ marker => marker'
  /\ turn \in {"live", "ending"} => turn' \in {"live", "ending"}

LEMMA LocalStep ==
  ASSUME TypeOK, NEW d \in Deliverers, NEW pc,
         Goto(d, pc) \/ Return(d) \/ UNCHANGED at,
         UNCHANGED <<todo, drop>> \/ Return(d)
             \/ \E S \in SUBSET Runs, T \in SUBSET Runs :
                   todo' = [todo EXCEPT ![d] = S] /\ drop' = [drop EXCEPT ![d] = T]
  PROVE  OthersStay(d)
BY DEF TypeOK, OthersStay, Goto, Return

LEMMA StillExpected ==
  ASSUME TypeOK, NEW d \in Deliverers, OthersStay(d), KeepsWatch, NEW r \in Runs, Expected(r),
         Awaits(d, r) => Expected(r)'
  PROVE  Expected(r)'
<1>1. CASE \E e \in Deliverers \ {d} : Awaits(e, r)
  <2>1. PICK e \in Deliverers \ {d} : Awaits(e, r)
    BY <1>1
  <2>2. job' = job /\ at'[e] = at[e] /\ todo'[e] = todo[e] /\ drop'[e] = drop[e]
    BY DEF KeepsWatch, bootVars, OthersStay
  <2>3. Awaits(e, r)'
    BY <2>1, <2>2 DEF Awaits, Subject
  <2>4. QED
    BY <2>3 DEF Expected
<1>2. CASE marker /\ turn \in {"live", "ending"}
  BY <1>2 DEF KeepsWatch, Expected
<1>3. CASE phase \in {"down", "boot"} \/ \E x \in sweep : x[1] = r
  BY <1>3 DEF KeepsWatch, bootVars, Expected
<1>4. QED
  BY <1>1, <1>2, <1>3 DEF Expected

\* A step of one deliverer: what it awaited it awaits still, has claimed or has closed out.
LEMMA DelivererStep ==
  ASSUME TypeOK, Attended, Calm, Calm', NEW d \in Deliverers, OthersStay(d), KeepsWatch,
         bound' => turn' = "live", at'[d] \notin {"release", "read_release"},
         \A r \in Runs : r \in Inbox' => Expected(r)' \/ (r \in Inbox /\ ~Awaits(d, r))
  PROVE  Attended'
<1>1. \A e \in Deliverers : at'[e] \notin {"release", "read_release"}
  BY DEF OthersStay, Attended
<1>2. \A r \in Runs : r \in Inbox' => Expected(r)'
  BY StillExpected DEF Attended
<1>3. origin' = origin
  BY DEF KeepsWatch
<1>4. QED
  BY <1>1, <1>2, <1>3, StaysAttended

\* A row that is claimed or closed out leaves the inbox, and no other row enters it.
LEMMA ClaimLeaves ==
  ASSUME TypeOK, UNCHANGED <<status, origin>>, NEW r \in Runs, delivered' = [delivered EXCEPT ![r] = TRUE]
  PROVE  Inbox' = Inbox \ {r}
BY DEF TypeOK, Inbox, Claimable

LEMMA SameInbox ==
  ASSUME UNCHANGED <<status, origin, delivered>>
  PROVE  Inbox' = Inbox
BY DEF Inbox, Claimable

LEMMA RunsDeliver ==
  /\ Turn \in Deliverers /\ Boot \in Deliverers /\ Turn # Boot
  /\ \A r \in Runs : r \in Deliverers /\ r # Boot /\ r # Turn
BY RunsAssumption DEF Deliverers, Turn, Boot

\* Firing, ending and resuming a run.
LEMMA AttendedRunStep ==
  ASSUME TypeOK, Attended, Calm, Calm', NEW r \in Runs,
         \/ ClaimFire(r) \/ CreateRun(r) \/ TimeoutClaim(r) \/ TimeoutRecord(r)
         \/ \E s \in Terminal \cup {"pending"} : RunEnds(r, s)
         \/ Reply(r) \/ DeleteRun(r)
  PROVE  Attended'
<1> USE DEF rowVars, convVars, procVars
<1>1. UNCHANGED <<bootVars, origin, bound, turn, marker, todo, drop>> /\ r \in Deliverers
  BY RunsDeliver DEF ClaimFire, CreateRun, TimeoutClaim, TimeoutRecord, RunEnds, Reply, DeleteRun
<1>2. KeepsWatch /\ (bound' => turn' = "live")
  BY <1>1 DEF KeepsWatch, Attended
<1>3. at[r] \in {"off", "create", "record"} \/ UNCHANGED at
  BY DEF ClaimFire, CreateRun, TimeoutClaim, TimeoutRecord, RunEnds, Reply, DeleteRun
<1>4. UNCHANGED at \/ \E pc \in {"off", "create", "record", "hook"} : Goto(r, pc)
  BY DEF ClaimFire, CreateRun, TimeoutClaim, TimeoutRecord, RunEnds, Reply, DeleteRun
<1>5. OthersStay(r) /\ at'[r] \notin {"release", "read_release"}
  BY <1>1, <1>4 DEF OthersStay, Goto, TypeOK, Attended
<1>6. /\ \A q \in Runs \ {r} : status'[q] = status[q] /\ delivered'[q] = delivered[q]
      /\ delivered'[r] = delivered[r]
  BY DEF ClaimFire, CreateRun, TimeoutClaim, TimeoutRecord, RunEnds, Reply, DeleteRun, TypeOK
<1>7. Inbox' \subseteq Inbox \cup {r}
  BY <1>1, <1>6 DEF Inbox, Claimable
<1>8. ASSUME r \in Inbox' PROVE r \in Inbox \/ at'[r] = "hook"
  <2>1. CASE ClaimFire(r) \/ TimeoutClaim(r)
    BY <1>8, <2>1, SameInbox DEF ClaimFire, TimeoutClaim
  <2>2. CASE CreateRun(r)
    BY <1>8, <2>2 DEF CreateRun, TypeOK, Inbox, Claimable, Terminal
  <2>3. CASE TimeoutRecord(r)
    BY <1>8, <2>3, SameInbox, RunsDeliver DEF TimeoutRecord, Goto, TypeOK, Inbox
  <2>4. ASSUME NEW s \in Terminal \cup {"pending"}, RunEnds(r, s) PROVE at'[r] = "hook"
    BY <1>8, <2>4, RunsDeliver DEF RunEnds, Goto, TypeOK, Inbox, Claimable, Terminal
  <2>5. CASE Reply(r) \/ DeleteRun(r)
    BY <1>8, <2>5 DEF Reply, DeleteRun, TypeOK, Inbox, Claimable, Terminal
  <2>6. QED
    BY <2>1, <2>2, <2>3, <2>4, <2>5
<1>9. ASSUME NEW q \in Runs, q \in Inbox' PROVE Expected(q)' \/ (q \in Inbox /\ ~Awaits(r, q))
  <2>1. CASE q = r /\ at'[r] = "hook"
    BY <1>1, <2>1, RunsDeliver DEF Expected, Awaits, Subject
  <2>2. CASE q \in Inbox /\ UNCHANGED at
    BY <1>1, <2>2 DEF Attended, Expected, Awaits, Subject, bootVars
  <2>3. CASE q \in Inbox /\ ~UNCHANGED at
    BY <1>3, <2>3, RunsDeliver DEF Awaits
  <2>4. QED
    BY <1>7, <1>8, <1>9, <2>1, <2>2, <2>3
<1>10. QED
  BY <1>1, <1>2, <1>5, <1>9, DelivererStep

\* on_run_terminal: a result that is owed parks with the live turn or is listed at once.
LEMMA AttendedHook ==
  ASSUME TypeOK, BootHasJob, ListedCancelled, Attended, Calm, Calm', NEW d \in Runs \cup {Boot}, Hook(d)
  PROVE  Attended'
<1> USE DEF rowVars, convVars, procVars
<1>0. d \in Deliverers /\ Subject(d) \in Runs /\ at[d] = "hook"
  BY RunsDeliver, SubjectIsRun DEF Hook
<1>1. /\ UNCHANGED <<bootVars, origin, status, bound, turn>>
      /\ marker => marker'
  BY DEF Hook
<1>2. KeepsWatch /\ (bound' => turn' = "live")
  BY <1>1 DEF KeepsWatch, Attended
<1>3. (Goto(d, "list") /\ UNCHANGED <<todo, drop>>) \/ Return(d)
  BY DEF Hook
<1>4. OthersStay(d)
  BY <1>0, <1>3, LocalStep
<1>5. at'[d] \in {"list", "off"}
  BY <1>0, <1>3 DEF Goto, Return, TypeOK
<1>6. UNCHANGED delivered \/ delivered' = [delivered EXCEPT ![Subject(d)] = TRUE]
  BY DEF Hook, CloseOut
<1>7. Inbox' \subseteq Inbox
  BY <1>0, <1>1, <1>6, ClaimLeaves, SameInbox
<1>8. ASSUME NEW r \in Runs, r \in Inbox', r = Subject(d)
      PROVE  Expected(r)'
  <2>1. /\ r \in Inbox /\ status[r] = "done" /\ ~delivered[r] /\ origin = "live"
    BY <1>7, <1>8 DEF Inbox, Claimable, Terminal
  <2>2. Ended(d) # "cancelled"
    BY <1>0, <1>8, <2>1 DEF Ended, Subject, ListedCancelled
  <2>3. CASE bound
    <3>1. marker' /\ turn' = "live"
      BY <1>1, <1>8, <2>1, <2>2, <2>3 DEF Hook, Attended
    <3>2. QED
      BY <3>1 DEF Expected
  <2>4. CASE ~bound
    <3>1. Goto(d, "list")
      BY <1>8, <2>1, <2>2, <2>4 DEF Hook
    <3>2. at'[d] = "list"
      BY <1>0, <3>1 DEF Goto, TypeOK
    <3>3. QED
      BY <1>0, <3>2 DEF Expected, Awaits
  <2>5. QED
    BY <2>3, <2>4
<1>9. ASSUME NEW r \in Runs, r \in Inbox'
      PROVE  Expected(r)' \/ (r \in Inbox /\ ~Awaits(d, r))
  BY <1>0, <1>7, <1>8, <1>9 DEF Awaits
<1>10. QED
  BY <1>0, <1>2, <1>4, <1>5, <1>9, DelivererStep

\* The steps of a flush: the rows listed stay in its hands until each is claimed or closed out.
LEMMA AttendedFlush ==
  ASSUME TypeOK, Attended, Calm, Calm', NEW d \in Deliverers,
         FlushList(d) \/ FlushConv(d) \/ FlushInject(d) \/ FlushFinish(d)
  PROVE  Attended'
<1> USE DEF rowVars, convVars, procVars
<1>1. /\ UNCHANGED <<bootVars, origin, status, delivered, bound, turn, marker>>
  BY DEF FlushList, FlushConv, FlushInject, FlushFinish
<1>2. KeepsWatch /\ (bound' => turn' = "live") /\ Inbox' = Inbox
  BY <1>1, SameInbox DEF KeepsWatch, Attended
<1>3. CASE FlushList(d) /\ Inbox # {}
  <2>1. at' = [at EXCEPT ![d] = "conv"] /\ todo' = [todo EXCEPT ![d] = Inbox] /\ drop' = drop
    BY <1>3 DEF FlushList, Goto
  <2>2. OthersStay(d) /\ at'[d] = "conv" /\ todo'[d] = Inbox
    BY <2>1 DEF OthersStay, TypeOK
  <2>3. \A r \in Inbox' : Expected(r)'
    BY <1>2, <2>2 DEF Expected, Awaits
  <2>4. QED
    BY <1>2, <2>2, <2>3, DelivererStep
<1>4. CASE FlushConv(d)
  <2>1. PICK over \in SUBSET todo[d] : /\ drop' = [drop EXCEPT ![d] = over]
                                       /\ todo' = [todo EXCEPT ![d] = @ \ over]
    BY <1>4 DEF FlushConv
  <2>2. at' = [at EXCEPT ![d] = "rows"] /\ at[d] = "conv"
    BY <1>4 DEF FlushConv, Goto
  <2>3. OthersStay(d) /\ at'[d] = "rows" /\ todo'[d] \cup drop'[d] = todo[d]
    BY <2>1, <2>2 DEF OthersStay, TypeOK
  <2>4. ASSUME NEW r \in Runs, r \in Inbox' PROVE Expected(r)' \/ (r \in Inbox /\ ~Awaits(d, r))
    <3>1. CASE r \in todo[d]
      BY <2>3, <3>1 DEF Expected, Awaits
    <3>2. CASE r \notin todo[d]
      BY <1>2, <2>2, <2>4, <3>2 DEF Awaits
    <3>3. QED
      BY <3>1, <3>2
  <2>5. QED
    BY <1>2, <2>3, <2>4, DelivererStep
<1>5. CASE (FlushList(d) /\ Inbox = {}) \/ FlushInject(d) \/ FlushFinish(d)
  <2>1. /\ Return(d) \/ (Goto(d, "finish") /\ UNCHANGED <<todo, drop>>)
        /\ (at[d] = "rows" /\ todo[d] = {} /\ drop[d] = {}) \/ at[d] = "finish" \/ Inbox = {}
    BY <1>5 DEF FlushList, FlushInject, FlushFinish
  <2>2. OthersStay(d) /\ at'[d] \in {"off", "finish"}
    BY <2>1, LocalStep DEF Goto, Return, TypeOK
  <2>3. \A r \in Inbox' : r \in Inbox /\ ~Awaits(d, r)
    BY <1>2, <2>1 DEF Awaits
  <2>4. QED
    BY <1>2, <2>2, <2>3, DelivererStep
<1>6. QED
  BY <1>3, <1>4, <1>5

LEMMA AttendedRow ==
  ASSUME TypeOK, Attended, Calm, Calm', NEW d \in Deliverers, FlushDrop(d) \/ FlushClaim(d)
  PROVE  Attended'
<1> USE DEF rowVars, convVars, procVars
<1>1. /\ UNCHANGED <<bootVars, origin, status, bound, turn, marker, at>>
      /\ at[d] \in {"rows", "read_rows"}
  BY DEF FlushDrop, FlushClaim
<1>2. KeepsWatch /\ (bound' => turn' = "live")
  BY <1>1 DEF KeepsWatch, Attended
<1>3. PICK r \in todo[d] \cup drop[d] :
        /\ \/ todo' = [todo EXCEPT ![d] = @ \ {r}] /\ drop' = drop
           \/ drop' = [drop EXCEPT ![d] = @ \ {r}] /\ todo' = todo
        /\ IF Claimable(r) THEN delivered' = [delivered EXCEPT ![r] = TRUE] ELSE UNCHANGED delivered
  BY DEF FlushDrop, FlushClaim, CloseOut
<1>4. /\ r \in Runs
      /\ OthersStay(d) /\ todo[d] \cup drop[d] \subseteq todo'[d] \cup drop'[d] \cup {r}
  BY <1>1, <1>3 DEF OthersStay, TypeOK
<1>5. Inbox' = Inbox \ {r}
  <2>1. CASE Claimable(r)
    BY <1>1, <1>3, <1>4, <2>1, ClaimLeaves
  <2>2. CASE ~Claimable(r)
    BY <1>1, <1>3, <2>2, SameInbox DEF Inbox
  <2>3. QED
    BY <2>1, <2>2
<1>6. ASSUME NEW q \in Runs, q \in Inbox' PROVE Expected(q)' \/ (q \in Inbox /\ ~Awaits(d, q))
  <2>1. q \in Inbox /\ q # r
    BY <1>5, <1>6
  <2>2. CASE q \in todo[d] \cup drop[d]
    <3>1. q \in todo'[d] \cup drop'[d] /\ at'[d] \in {"rows", "read_rows"}
      BY <1>1, <1>4, <2>1, <2>2
    <3>2. QED
      BY <3>1 DEF Expected, Awaits
  <2>3. CASE q \notin todo[d] \cup drop[d]
    <3>1. ~Awaits(d, q)
      BY <1>1, <2>3 DEF Awaits
    <3>2. QED
      BY <2>1, <3>1
  <2>4. QED
    BY <2>2, <2>3
<1>7. at'[d] \notin {"release", "read_release"}
  BY <1>1
<1>8. QED
  BY <1>2, <1>4, <1>6, <1>7, DelivererStep

\* The turns of the origin: what parks with a live turn is listed when the turn ends.
LEMMA AttendedTurn ==
  ASSUME TypeOK, Attended, Calm, Calm',
         \/ UserMessage \/ TurnStart \/ TurnBind \/ TurnEnd \/ TurnFlush \/ TurnReset
         \/ ReadInbox \/ ReadClaimed \/ ReadFinish
  PROVE  Attended'
<1> USE DEF rowVars, convVars, procVars
<1>1. UNCHANGED <<bootVars, origin, status, delivered>> /\ Turn \in Deliverers
  BY RunsDeliver DEF UserMessage, TurnStart, TurnBind, TurnEnd, TurnFlush, TurnReset, ReadInbox, ReadClaimed,
                     ReadFinish
<1>2. Inbox' = Inbox
  BY <1>1, SameInbox
<1>3. CASE UserMessage \/ TurnStart \/ TurnBind \/ TurnEnd
  <2>1. /\ UNCHANGED <<marker, at, todo, drop>>
        /\ turn \in {"live", "ending"} => turn' \in {"live", "ending"}
        /\ bound' => turn' = "live"
    BY <1>3 DEF UserMessage, TurnStart, TurnBind, TurnEnd, Attended
  <2>2. KeepsWatch /\ OthersStay(Turn) /\ at'[Turn] \notin {"release", "read_release"}
    BY <1>1, <2>1 DEF KeepsWatch, OthersStay, Attended
  <2>3. ASSUME NEW r \in Runs, Awaits(Turn, r) PROVE Expected(r)'
    BY <1>1, <2>1, <2>3 DEF Expected, Awaits, Subject, bootVars
  <2>4. QED
    BY <1>1, <1>2, <2>1, <2>2, <2>3, DelivererStep
<1>4. CASE TurnFlush /\ marker
  <2>1. at' = [at EXCEPT ![Turn] = "list"] /\ UNCHANGED <<bound, todo, drop>> /\ turn = "ending"
    BY <1>4 DEF TurnFlush, Goto
  <2>2. at'[Turn] = "list" /\ ~bound /\ \A e \in Deliverers : at'[e] \in {at[e], "list"}
    BY <1>1, <2>1 DEF TypeOK, Attended
  <2>3. \A r \in Runs : Expected(r)'
    BY <1>1, <2>2 DEF Expected, Awaits
  <2>4. QED
    BY <1>1, <2>1, <2>2, <2>3, StaysAttended DEF Attended
<1>5. CASE (TurnFlush /\ ~marker) \/ TurnReset
  <2>1. /\ UNCHANGED <<bound, at, todo, drop>> /\ ~(marker /\ turn \in {"live", "ending"})
        /\ turn # "live"
    BY <1>5 DEF TurnFlush, TurnReset
  <2>2. \A r \in Runs : Expected(r) => Expected(r)'
    BY <1>1, <2>1 DEF Expected, Awaits, Subject, bootVars
  <2>3. QED
    BY <1>1, <1>2, <2>1, <2>2, StaysAttended DEF Attended
<1>6. CASE ReadInbox
  <2>1. PICK over \in SUBSET Inbox : /\ drop' = [drop EXCEPT ![Turn] = over]
                                     /\ todo' = [todo EXCEPT ![Turn] = Inbox \ over]
    BY <1>6 DEF ReadInbox
  <2>2. at' = [at EXCEPT ![Turn] = "read_rows"] /\ UNCHANGED <<bound, marker, turn>>
    BY <1>6 DEF ReadInbox, Goto
  <2>3. OthersStay(Turn) /\ at'[Turn] = "read_rows" /\ todo'[Turn] \cup drop'[Turn] = Inbox
    BY <1>1, <2>1, <2>2 DEF OthersStay, TypeOK
  <2>4. KeepsWatch /\ (bound' => turn' = "live")
    BY <1>1, <2>2 DEF KeepsWatch, Attended
  <2>5. \A r \in Inbox' : Expected(r)'
    BY <1>1, <1>2, <2>3 DEF Expected, Awaits
  <2>6. QED
    BY <1>1, <2>3, <2>4, <2>5, DelivererStep
<1>7. CASE ReadClaimed \/ ReadFinish
  <2>1. /\ Return(Turn) \/ (Goto(Turn, "read_finish") /\ UNCHANGED <<todo, drop>>)
        /\ UNCHANGED <<bound, marker, turn>>
        /\ (at[Turn] = "read_rows" /\ todo[Turn] = {} /\ drop[Turn] = {}) \/ at[Turn] = "read_finish"
    BY <1>7 DEF ReadClaimed, ReadFinish
  <2>2. OthersStay(Turn) /\ at'[Turn] \in {"off", "read_finish"}
    BY <1>1, <2>1, LocalStep DEF Goto, Return, TypeOK
  <2>3. KeepsWatch /\ (bound' => turn' = "live")
    BY <1>1, <2>1 DEF KeepsWatch, Attended
  <2>4. \A r \in Runs : ~Awaits(Turn, r)
    BY <2>1, RunsDeliver DEF Awaits
  <2>5. QED
    BY <1>1, <1>2, <2>2, <2>3, <2>4, DelivererStep
<1>8. QED
  BY <1>3, <1>4, <1>5, <1>6, <1>7

\* Deletion of the origin, a crash and the boot sequence.
LEMMA AttendedBoot ==
  ASSUME TypeOK, BootHasJob, ListedCancelled, Attended, Calm, Calm',
         DropOrigin \/ Crash \/ Restart \/ SweepList \/ SweepNext \/ Reconcile
  PROVE  Attended'
<1> USE DEF rowVars, convVars, procVars
<1>0. Turn \in Deliverers /\ Boot \in Deliverers
  BY RunsDeliver
<1>1. CASE DropOrigin
  <2>1. Inbox' = {} /\ ~bound' /\ \A d \in Deliverers : at'[d] \in {at[d], "off"}
    BY <1>0, <1>1 DEF DropOrigin, Inbox, Return, Goto, TypeOK
  <2>2. QED
    BY <2>1 DEF Attended
<1>2. CASE Crash \/ Restart
  <2>1. phase' \in {"down", "boot"} /\ (bound' => bound /\ turn' = turn)
        /\ \A d \in Deliverers : at'[d] \in {at[d], "off"}
    BY <1>2 DEF Crash, Restart
  <2>2. QED
    BY <2>1 DEF Attended, Expected
<1>3. CASE SweepList
  <2>1. /\ UNCHANGED <<status, delivered, origin, bound, turn, at>>
        /\ \A r \in Runs : Claimable(r) => <<r, status[r]>> \in sweep'
    BY <1>3 DEF SweepList
  <2>2. \A r \in Inbox : \E x \in sweep' : x[1] = r
    BY <2>1 DEF Inbox
  <2>3. QED
    BY <2>1, <2>2, SameInbox DEF Attended, Expected
<1>4. CASE SweepNext
  <2>1. PICK x \in sweep :
          /\ sweep' = sweep \ {x}
          /\ \/ /\ x[1] \notin Once /\ x[2] # "cancelled"
                /\ IF Claimable(x[1]) THEN CloseOut(x[1], "completed") ELSE UNCHANGED <<task, delivered, mode>>
                /\ UNCHANGED <<at, job>>
             \/ Goto(Boot, "hook") /\ job' = x /\ UNCHANGED delivered
    BY <1>4 DEF SweepNext
  <2>2. /\ UNCHANGED <<status, origin, bound, turn, marker, todo, drop, phase>>
        /\ at[Boot] = "off" /\ phase = "sweep" /\ x[1] \in Runs
    BY <1>4, <2>1 DEF SweepNext, TypeOK
  <2>3. \A r \in Runs : (\E y \in sweep : y[1] = r) => r = x[1] \/ \E y \in sweep' : y[1] = r
    BY <2>1
  <2>4. CASE UNCHANGED <<at, job>> /\ IF Claimable(x[1]) THEN delivered' = [delivered EXCEPT ![x[1]] = TRUE]
                                                         ELSE UNCHANGED delivered
    <3>1. Inbox' = Inbox \ {x[1]}
      <4>1. CASE Claimable(x[1])
        BY <2>2, <2>4, <4>1, ClaimLeaves
      <4>2. CASE ~Claimable(x[1])
        BY <2>2, <2>4, <4>2, SameInbox DEF Inbox
      <4>3. QED
        BY <4>1, <4>2
    <3>2. ASSUME NEW r \in Runs, r # x[1], Expected(r) PROVE Expected(r)'
      BY <2>2, <2>3, <2>4, <3>2 DEF Expected, Awaits, Subject
    <3>3. QED
      BY <2>2, <2>4, <3>1, <3>2, StaysAttended DEF Attended
  <2>5. CASE Goto(Boot, "hook") /\ job' = x /\ UNCHANGED delivered
    <3>1. /\ at'[Boot] = "hook" /\ \A d \in Deliverers \ {Boot} : at'[d] = at[d]
          /\ Subject(Boot)' = x[1]
      BY <1>0, <2>5 DEF Goto, TypeOK, Subject
    <3>2. \A d \in Deliverers : at'[d] \notin {"release", "read_release"}
      BY <3>1 DEF Attended
    <3>3. ASSUME NEW r \in Runs, Expected(r) PROVE Expected(r)'
      <4>1. CASE r = x[1]
        BY <1>0, <3>1, <4>1 DEF Expected, Awaits
      <4>2. CASE r # x[1] /\ \E d \in Deliverers : Awaits(d, r)
        <5>1. PICK d \in Deliverers \ {Boot} : Awaits(d, r)
          BY <2>2, <4>2 DEF Awaits
        <5>2. Awaits(d, r)'
          BY <2>2, <3>1, <5>1 DEF Awaits, Subject
        <5>3. QED
          BY <5>2 DEF Expected
      <4>3. CASE r # x[1] /\ ~(\E d \in Deliverers : Awaits(d, r))
        BY <2>2, <2>3, <3>3, <4>3 DEF Expected
      <4>4. QED
        BY <4>1, <4>2, <4>3
    <3>4. Inbox' = Inbox
      BY <2>2, <2>5, SameInbox
    <3>5. QED
      BY <2>2, <3>2, <3>3, <3>4, StaysAttended DEF Attended
  <2>6. QED
    BY <2>1, <2>4, <2>5 DEF CloseOut
<1>5. CASE Reconcile
  <2>1. UNCHANGED <<status, delivered, origin, convVars, procVars, sweep>> /\ phase = "sweep" /\ at[Boot] = "off"
    BY <1>5 DEF Reconcile
  <2>2. \A r \in Runs : Expected(r) => Expected(r)'
    BY <2>1 DEF Expected, Awaits, Subject
  <2>3. QED
    BY <2>1, <2>2, SameInbox, StaysAttended DEF Attended
<1>6. QED
  BY <1>1, <1>2, <1>3, <1>4, <1>5

LEMMA AttendedStep ==
  ASSUME TypeOK, BootHasJob, ListedCancelled, Attended, [Next]_vars
  PROVE  Attended'
<1> SUFFICES ASSUME Calm' PROVE Attended'
  BY DEF Attended
<1> DEFINE F == {"db", "enqueue", "stop_run", "stop_turn"}
<1>1. Calm /\ \A f \in F : ~Spend(f)
  <2>1. F \in SUBSET Faults
    BY DEF Faults
  <2>2. \A f \in F : spent'[f] = 0
    BY DEF Calm
  <2>3. QED
    BY <2>1, <2>2, NothingSpent DEF Calm
<1>2. \A d \in Deliverers : ~Release(d)
  BY <1>1 DEF Release, Attended
<1>3. /\ \A r \in Runs : ~CreateFails(r) /\ ~TimeoutRecordFails(r) /\ ~StopRun(r)
      /\ \A d \in Deliverers : ~FlushListFails(d) /\ ~FlushRaises(d) /\ ~FlushInjectFails(d)
      /\ ~StopReading /\ ~StopFinishing /\ ~StoreFails
  BY <1>1, StoreFailsSpends DEF CreateFails, TimeoutRecordFails, StopRun, FlushListFails, FlushRaises, FlushInjectFails,
              StopReading, StopFinishing
<1>4. ASSUME UNCHANGED vars PROVE Attended'
  BY <1>4 DEF vars, rowVars, convVars, procVars, bootVars, Attended, Calm, Inbox, Claimable, Expected, Awaits, Subject
<1>5. QED
  BY <1>1, <1>2, <1>3, <1>4, AttendedRunStep, AttendedHook, AttendedFlush, AttendedRow, AttendedTurn, AttendedBoot,
     NextIsAnyAction DEF AnyAction

LEMMA AttendedAlways == Spec => []Attended
<1>1. OInv /\ Attended /\ [Next]_vars => Attended'
  BY AttendedStep DEF OInv, RInv
<1>2. QED
  BY OInvInvariant, AttendedInit, <1>1, PTL DEF Spec

\* The handoff between a run's end and the origin's turn loses nothing: in whatever order
\* runs end, turns start, read and end, the process dies and boots, rows are deleted and
\* runs resumed, when everything has come to rest no finished result is left in the inbox.
\* That no database call failed, nothing was stopped and every continuation could be
\* enqueued is needed: each of those leaves a result behind for the next flush
\* (park_if_bound, flush_origin_inbox, sweep_undelivered).
THEOREM NothingStrandedWhenCalm == Spec => [](Calm => NothingStranded)
<1>1. OInv /\ Attended => (Calm => NothingStranded)
  <2> SUFFICES ASSUME OInv, Attended, Calm, Idle, NEW r \in Inbox
               PROVE  FALSE
    BY DEF NothingStranded
  <2>1. Expected(r) /\ phase = "up" /\ turn = "idle" /\ sweep = {}
    BY DEF Attended, OInv, ListedCancelled, Idle
  <2>2. \A d \in Deliverers : ~Awaits(d, r)
    BY DEF Idle, Awaits
  <2>3. QED
    BY <2>1, <2>2 DEF Expected
<1>2. QED
  BY OInvInvariant, AttendedAlways, <1>1, PTL

-----------------------------------------------------------------------------
(* Every claimed result is accounted for                                   *)

\* The process lives, no database call failed and nothing was stopped.
Unbroken == \A f \in {"db", "stop_run", "stop_turn", "crash"} : spent[f] = 0

\* The agent has seen the result, or a turn that is queued or starting carries it.
Afoot(r) == told[r] > 0 \/ r \in carried \/ \E i \in 1..Len(queue) : r \in queue[i]

\* What a deliverer puts down is in a turn by then, and no turn's results are overwritten.
Traced == Unbroken /\ origin = "live" =>
  /\ turn # "start" => carried = {}
  /\ \A r \in Runs : delivered[r] => mode[r] = "skipped" \/ Afoot(r) \/ \E d \in Deliverers : r \in mine[d]
  /\ \A d \in Deliverers : \A r \in mine[d] : at[d] = "finish" => Afoot(r)

LEMMA TracedInit == Init => Traced
BY DEF Init, Traced, Deliverers

\* A step that loses sight of no result: each is closed out, afoot, in somebody's hands or untouched.
LEMMA StaysTraced ==
  ASSUME TypeOK, Traced, Unbroken, Unbroken', origin = "live",
         turn' # "start" => carried' = {},
         \A r \in Runs : Afoot(r) => Afoot(r)',
         \A r \in Runs : delivered'[r] =>
           \/ mode'[r] = "skipped" \/ Afoot(r)' \/ \E d \in Deliverers : r \in mine'[d]
           \/ delivered[r] /\ (mode[r] = "skipped" => mode'[r] = "skipped") /\ \A d \in Deliverers : r \notin mine[d],
         \A d \in Deliverers : \A r \in mine'[d] : at'[d] = "finish" => Afoot(r)'
  PROVE  Traced'
BY DEF Traced

\* Where a deliverer takes nothing up and puts nothing down.
LEMMA NothingMoves ==
  ASSUME TypeOK, Traced, Unbroken, Unbroken', origin = "live",
         UNCHANGED <<queue, carried, told>>, turn' = "start" <=> turn = "start",
         \A d \in Deliverers : mine'[d] = mine[d],
         \A d \in Deliverers : at'[d] = "finish" => at[d] = "finish" \/ mine[d] = {},
         \A r \in Runs : \/ delivered'[r] = delivered[r] /\ mode'[r] = mode[r]
                         \/ mode'[r] = "skipped"
  PROVE  Traced'
<1>1. \A r \in Runs : Afoot(r)' <=> Afoot(r)
  BY DEF Afoot
<1>2. \A d \in Deliverers : \A r \in mine[d] : r \in Runs
  BY DEF TypeOK
<1>3. QED
  BY <1>1, <1>2 DEF Traced

LEMMA EmptyReturn ==
  ASSUME TypeOK, NEW d \in Deliverers, mine[d] = {}, Return(d)
  PROVE  /\ \A e \in Deliverers : mine'[e] = mine[e]
         /\ \A e \in Deliverers : at'[e] \in {at[e], "off"}
BY DEF TypeOK, Return, Goto

\* Another turn on the queue leaves every result where it was or brings it there.
LEMMA Queued ==
  ASSUME TypeOK, NEW S \in SUBSET Runs, queue' = Append(queue, S), UNCHANGED <<carried, told>>
  PROVE  /\ \A r \in Runs : Afoot(r) => Afoot(r)'
         /\ \A r \in S : Afoot(r)'
<1>1. queue \in Seq(SUBSET Runs) /\ Len(queue) \in Nat
  BY DEF TypeOK
<1>2. /\ Len(queue') = Len(queue) + 1
      /\ \A i \in 1..Len(queue) : queue'[i] = queue[i]
      /\ queue'[Len(queue) + 1] = S
  BY <1>1
<1>3. \A i \in 1..Len(queue) : i \in 1..Len(queue')
  BY <1>1, <1>2
<1>4. Len(queue) + 1 \in 1..Len(queue')
  BY <1>1, <1>2
<1>5. QED
  BY <1>2, <1>3, <1>4 DEF Afoot

LEMMA TracedRunStep ==
  ASSUME TypeOK, OneHolder, BootHasJob, Traced, Unbroken, Unbroken', origin = "live",
         \/ \E r \in Runs : \/ ClaimFire(r) \/ CreateRun(r) \/ TimeoutClaim(r) \/ TimeoutRecord(r)
                            \/ \E s \in Terminal \cup {"pending"} : RunEnds(r, s)
                            \/ Reply(r) \/ DeleteRun(r)
         \/ \E d \in Runs \cup {Boot} : Hook(d)
         \/ \E d \in Deliverers : \/ FlushList(d) \/ FlushConv(d) \/ FlushDrop(d) \/ FlushInjectFails(d)
                                  \/ FlushInject(d) /\ mine[d] = {}
         \/ ReadInbox \/ ReadClaimed \/ TurnEnd \/ TurnFlush \/ TurnReset
  PROVE  Traced'
<1> USE DEF rowVars, convVars, procVars
<1>1. UNCHANGED <<queue, carried, told>> /\ (turn' = "start" <=> turn = "start")
  BY DEF ClaimFire, CreateRun, TimeoutClaim, TimeoutRecord, RunEnds, Reply, DeleteRun, Hook, FlushList, FlushConv,
         FlushDrop, FlushInjectFails, FlushInject, ReadInbox, ReadClaimed, TurnEnd, TurnFlush, TurnReset
<1>2. \/ UNCHANGED <<mine, at>>
      \/ UNCHANGED mine /\ \E d \in Deliverers : \E pc \in DelivererPCs \ {"finish"} : Goto(d, pc)
      \/ \E d \in Deliverers : Return(d) /\ mine[d] = {}
  <2>1. \A d \in Deliverers : at[d] \in EmptyHanded => mine[d] = {}
    BY DEF OneHolder
  <2>2. ASSUME NEW d \in Runs \cup {Boot}, Hook(d)
        PROVE  (UNCHANGED mine /\ Goto(d, "list")) \/ (Return(d) /\ mine[d] = {})
    BY <2>1, <2>2, RunsDeliver DEF Hook, EmptyHanded
  <2>3. ASSUME NEW d \in Deliverers, FlushList(d)
        PROVE  (UNCHANGED mine /\ Goto(d, "conv")) \/ (Return(d) /\ mine[d] = {})
    BY <2>1, <2>3 DEF FlushList, EmptyHanded
  <2>4. ASSUME \/ \E r \in Runs : \/ ClaimFire(r) \/ CreateRun(r) \/ TimeoutClaim(r) \/ TimeoutRecord(r)
                                  \/ \E s \in Terminal \cup {"pending"} : RunEnds(r, s)
                                  \/ Reply(r) \/ DeleteRun(r)
        PROVE  \/ UNCHANGED <<mine, at>>
               \/ UNCHANGED mine /\ \E d \in Deliverers : \E pc \in {"create", "off", "record", "hook"} : Goto(d, pc)
    BY <2>4, RunsDeliver DEF ClaimFire, CreateRun, TimeoutClaim, TimeoutRecord, RunEnds, Reply, DeleteRun
  <2>5. ASSUME \/ ReadInbox \/ ReadClaimed \/ TurnEnd \/ TurnFlush \/ TurnReset
        PROVE  \/ UNCHANGED <<mine, at>>
               \/ UNCHANGED mine /\ \E pc \in {"read_rows", "read_finish", "list"} : Goto(Turn, pc)
               \/ Return(Turn) /\ mine[Turn] = {}
    BY <2>5 DEF ReadInbox, ReadClaimed, TurnEnd, TurnFlush, TurnReset
  <2>6. ASSUME NEW d \in Deliverers,
               FlushConv(d) \/ FlushDrop(d) \/ FlushInjectFails(d) \/ (FlushInject(d) /\ mine[d] = {})
        PROVE  \/ UNCHANGED <<mine, at>>
               \/ UNCHANGED mine /\ \E pc \in {"rows", "release"} : Goto(d, pc)
               \/ Return(d) /\ mine[d] = {}
    BY <2>6 DEF FlushConv, FlushDrop, FlushInjectFails, FlushInject
  <2>7. {"create", "off", "record", "hook", "list", "conv", "rows", "release", "read_rows", "read_finish"}
          \subseteq DelivererPCs \ {"finish"}
    BY DEF DelivererPCs
  <2>8. CASE \E d \in Runs \cup {Boot} : Hook(d)
    BY <2>2, <2>7, <2>8, RunsDeliver
  <2>9. CASE \E d \in Deliverers : FlushList(d)
    BY <2>3, <2>7, <2>9
  <2>10. CASE \E d \in Deliverers : \/ FlushConv(d) \/ FlushDrop(d) \/ FlushInjectFails(d)
                                    \/ FlushInject(d) /\ mine[d] = {}
    BY <2>6, <2>7, <2>10
  <2>11. CASE \E r \in Runs : \/ ClaimFire(r) \/ CreateRun(r) \/ TimeoutClaim(r) \/ TimeoutRecord(r)
                              \/ \E s \in Terminal \cup {"pending"} : RunEnds(r, s)
                              \/ Reply(r) \/ DeleteRun(r)
    BY <2>4, <2>7, <2>11
  <2>12. CASE ReadInbox \/ ReadClaimed \/ TurnEnd \/ TurnFlush \/ TurnReset
    BY <2>5, <2>7, <2>12, RunsDeliver
  <2>13. QED
    BY <2>8, <2>9, <2>10, <2>11, <2>12
<1>3. /\ \A d \in Deliverers : mine'[d] = mine[d]
      /\ \A d \in Deliverers : at'[d] = "finish" => at[d] = "finish"
  BY <1>2, EmptyReturn DEF Goto, TypeOK
<1>4. \/ UNCHANGED <<delivered, mode>>
      \/ \E q \in Runs : \E end : CloseOut(q, end)
  <2>1. ASSUME NEW d \in Runs \cup {Boot}, Hook(d) PROVE UNCHANGED <<delivered, mode>> \/ \E end : CloseOut(Subject(d), end)
    BY <2>1 DEF Hook
  <2>2. ASSUME NEW d \in Runs \cup {Boot}, Hook(d) PROVE Subject(d) \in Runs
    BY <2>2, SubjectIsRun DEF Hook
  <2>3. ASSUME NEW d \in Deliverers, FlushDrop(d) PROVE UNCHANGED <<delivered, mode>> \/ \E q \in Runs : \E end : CloseOut(q, end)
    BY <2>3 DEF FlushDrop, TypeOK
  <2>4. QED
    BY <2>1, <2>2, <2>3
       DEF ClaimFire, CreateRun, TimeoutClaim, TimeoutRecord, RunEnds, Reply, DeleteRun, FlushList, FlushConv,
           FlushInjectFails, FlushInject, ReadInbox, ReadClaimed, TurnEnd, TurnFlush, TurnReset
<1>5. \A r \in Runs : \/ delivered'[r] = delivered[r] /\ mode'[r] = mode[r]
                      \/ mode'[r] = "skipped"
  BY <1>4 DEF CloseOut, TypeOK
<1>6. QED
  BY <1>1, <1>3, <1>5, NothingMoves

\* A claimed result is in the hands of its claimer until a turn carries it or the agent has it.
LEMMA TracedClaims ==
  ASSUME TypeOK, OneHolder, Traced, Unbroken, Unbroken', origin = "live", NEW d \in Deliverers,
         FlushClaim(d) \/ (FlushInject(d) /\ mine[d] # {}) \/ FlushFinish(d) \/ Release(d)
  PROVE  Traced'
<1> USE DEF rowVars, convVars, procVars
<1>0. /\ \A e \in Deliverers : mine[e] \subseteq Runs
      /\ \A e \in Deliverers \ {d} : mine[e] \cap mine[d] = {}
      /\ turn' = turn /\ UNCHANGED <<carried, told>>
      /\ turn' # "start" => carried' = {}
  BY DEF TypeOK, OneHolder, Traced, FlushClaim, FlushInject, FlushFinish, Release
<1>1. CASE FlushClaim(d)
  <2>1. PICK r \in todo[d] : IF Claimable(r)
                             THEN /\ delivered' = [delivered EXCEPT ![r] = TRUE]
                                  /\ mine' = [mine EXCEPT ![d] = @ \cup {r}]
                             ELSE UNCHANGED <<delivered, mine>>
    BY <1>1 DEF FlushClaim
  <2>2. UNCHANGED <<at, mode, queue>> /\ at[d] # "finish" /\ r \in Runs
    BY <1>1, <2>1 DEF FlushClaim, TypeOK
  <2>3. \A q \in Runs : Afoot(q)' <=> Afoot(q)
    BY <1>0, <2>2 DEF Afoot
  <2>4. CASE ~Claimable(r)
    BY <1>0, <2>1, <2>2, <2>3, <2>4 DEF Traced
  <2>5. CASE Claimable(r)
    <3>1. /\ \A q \in Runs \ {r} : delivered'[q] = delivered[q]
          /\ \A e \in Deliverers \ {d} : mine'[e] = mine[e]
          /\ mine'[d] = mine[d] \cup {r}
      BY <2>1, <2>2, <2>5 DEF TypeOK
    <3>2. \A q \in Runs : delivered'[q] => mode'[q] = "skipped" \/ Afoot(q)' \/ \E e \in Deliverers : q \in mine'[e]
      BY <2>2, <2>3, <3>1 DEF Traced
    <3>3. \A e \in Deliverers : \A q \in mine'[e] : at'[e] = "finish" => Afoot(q)'
      BY <1>0, <2>2, <2>3, <3>1 DEF Traced
    <3>4. QED
      BY <1>0, <3>2, <3>3 DEF Traced
  <2>6. QED
    BY <2>4, <2>5
<1>2. CASE FlushInject(d) /\ mine[d] # {}
  <2>1. queue' = Append(queue, mine[d]) /\ UNCHANGED <<delivered, mode, mine>> /\ at' = [at EXCEPT ![d] = "finish"]
    BY <1>2 DEF FlushInject, Goto
  <2>2. /\ \A r \in Runs : Afoot(r) => Afoot(r)'
        /\ \A r \in mine[d] : Afoot(r)'
    BY <1>0, <2>1, Queued
  <2>3. \A e \in Deliverers : \A q \in mine'[e] : at'[e] = "finish" => Afoot(q)'
    BY <1>0, <2>1, <2>2 DEF TypeOK, Traced
  <2>4. QED
    BY <1>0, <2>1, <2>2, <2>3 DEF Traced
<1>3. CASE FlushFinish(d)
  <2>1. /\ UNCHANGED <<delivered, queue>> /\ Return(d) /\ at[d] = "finish"
        /\ \A q \in Runs : q \notin mine[d] => mode'[q] = mode[q]
    BY <1>3 DEF FlushFinish, Finish
  <2>2. /\ mine'[d] = {} /\ \A e \in Deliverers \ {d} : mine'[e] = mine[e] /\ at'[e] = at[e]
    BY <2>1 DEF Return, Goto, TypeOK
  <2>3. \A q \in Runs : Afoot(q)' <=> Afoot(q)
    BY <1>0, <2>1 DEF Afoot
  <2>4. \A q \in mine[d] : Afoot(q)
    BY <2>1 DEF Traced
  <2>5. \A q \in Runs : delivered[q] => mode'[q] = "skipped" \/ Afoot(q)' \/ \E e \in Deliverers : q \in mine'[e]
    BY <2>1, <2>2, <2>3, <2>4 DEF Traced
  <2>6. \A e \in Deliverers : \A q \in mine'[e] : at'[e] = "finish" => Afoot(q)'
    BY <1>0, <2>2, <2>3 DEF Traced
  <2>7. QED
    BY <1>0, <2>1, <2>5, <2>6 DEF Traced
<1>4. CASE Release(d) /\ mine[d] # {}
  <2>1. PICK r \in mine[d] : /\ delivered' = [delivered EXCEPT ![r] = FALSE]
                             /\ mode' = [mode EXCEPT ![r] = "null"]
                             /\ mine' = [mine EXCEPT ![d] = @ \ {r}]
                             /\ at' = at
    BY <1>4 DEF Release
  <2>2. UNCHANGED queue /\ r \in Runs /\ at[d] # "finish"
    BY <1>0, <1>4, <2>1 DEF Release
  <2>3. \A q \in Runs : Afoot(q)' <=> Afoot(q)
    BY <1>0, <2>2 DEF Afoot
  <2>4. /\ ~delivered'[r] /\ \A q \in Runs \ {r} : delivered'[q] = delivered[q] /\ mode'[q] = mode[q]
        /\ \A e \in Deliverers : mine[e] \ {r} \subseteq mine'[e] /\ mine'[e] \subseteq mine[e]
    BY <2>1, <2>2 DEF TypeOK
  <2>5. \A q \in Runs : delivered'[q] => mode'[q] = "skipped" \/ Afoot(q)' \/ \E e \in Deliverers : q \in mine'[e]
    <3>1. SUFFICES ASSUME NEW q \in Runs, delivered'[q], mode'[q] # "skipped", ~Afoot(q)'
                   PROVE  \E e \in Deliverers : q \in mine'[e]
      OBVIOUS
    <3>2. q # r /\ delivered[q] /\ mode[q] # "skipped" /\ ~Afoot(q)
      BY <2>3, <2>4, <3>1
    <3>3. PICK e \in Deliverers : q \in mine[e]
      BY <3>2 DEF Traced
    <3>4. QED
      BY <2>4, <3>2, <3>3
  <2>6. \A e \in Deliverers : \A q \in mine'[e] : at'[e] = "finish" => Afoot(q)'
    BY <1>0, <2>1, <2>3, <2>4 DEF Traced
  <2>7. QED
    BY <1>0, <2>5, <2>6 DEF Traced
<1>5. CASE Release(d) /\ mine[d] = {}
  <2>1. UNCHANGED <<delivered, mode, queue>> /\ Return(d)
    BY <1>5 DEF Release
  <2>2. /\ \A e \in Deliverers : mine'[e] = mine[e]
        /\ \A e \in Deliverers : at'[e] \in {at[e], "off"}
    BY <1>5, <2>1, EmptyReturn
  <2>3. QED
    BY <1>0, <2>1, <2>2, NothingMoves
<1>6. QED
  BY <1>1, <1>2, <1>3, <1>4, <1>5

\* A turn takes its results from the queue to the agent.
LEMMA TracedTurn ==
  ASSUME TypeOK, OneHolder, Traced, Unbroken, Unbroken', origin = "live",
         UserMessage \/ TurnStart \/ TurnBind \/ ReadFinish
  PROVE  Traced'
<1> USE DEF rowVars, convVars, procVars
<1>0. /\ \A e \in Deliverers : mine[e] \subseteq Runs
      /\ told \in [Runs -> Nat] /\ queue \in Seq(SUBSET Runs) /\ Len(queue) \in Nat
  BY DEF TypeOK
<1>1. CASE UserMessage
  <2>1. queue' = Append(queue, {}) /\ UNCHANGED <<delivered, mode, mine, at, carried, told, turn>>
    BY <1>1 DEF UserMessage
  <2>2. \A r \in Runs : Afoot(r) => Afoot(r)'
    BY <2>1, Queued
  <2>3. QED
    BY <1>0, <2>1, <2>2 DEF Traced
<1>2. CASE TurnStart
  <2>1. /\ carried' = Head(queue) /\ queue' = Tail(queue) /\ queue # <<>> /\ carried = {} /\ turn' = "start"
        /\ UNCHANGED <<delivered, mode, mine, at, told>>
    BY <1>2 DEF TurnStart, Traced
  <2>2. ASSUME NEW r \in Runs, Afoot(r) PROVE Afoot(r)'
    <3>1. CASE told[r] > 0
      BY <2>1, <3>1 DEF Afoot
    <3>2. CASE \E i \in 1..Len(queue) : r \in queue[i]
      <4>1. PICK i \in 1..Len(queue) : r \in queue[i]
        BY <3>2
      <4>2. CASE i = 1
        BY <2>1, <4>1, <4>2 DEF Afoot
      <4>3. CASE i # 1
        <5>1. i - 1 \in 1..Len(queue') /\ queue'[i - 1] = queue[i]
          BY <1>0, <2>1, <4>1, <4>3
        <5>2. QED
          BY <4>1, <5>1 DEF Afoot
      <4>4. QED
        BY <4>2, <4>3
    <3>3. QED
      BY <2>1, <2>2, <3>1, <3>2 DEF Afoot
  <2>3. QED
    BY <1>0, <2>1, <2>2 DEF Traced
<1>3. CASE TurnBind
  <2>1. /\ \A r \in Runs : told'[r] = IF r \in carried THEN told[r] + 1 ELSE told[r]
        /\ carried' = {} /\ UNCHANGED <<delivered, mode, mine, at, queue>>
    BY <1>3 DEF TurnBind
  <2>2. \A r \in Runs : Afoot(r) => Afoot(r)'
    BY <1>0, <2>1 DEF Afoot
  <2>3. QED
    BY <1>0, <2>1, <2>2 DEF Traced
<1>4. CASE ReadFinish
  <2>1. /\ \A r \in Runs : told'[r] = IF r \in mine[Turn] THEN told[r] + 1 ELSE told[r]
        /\ UNCHANGED <<delivered, turn, carried, queue>> /\ Return(Turn)
        /\ \A q \in Runs : q \notin mine[Turn] => mode'[q] = mode[q]
    BY <1>4 DEF ReadFinish, Finish
  <2>2. /\ mine'[Turn] = {} /\ \A e \in Deliverers \ {Turn} : mine'[e] = mine[e] /\ at'[e] = at[e]
    BY <2>1, RunsDeliver DEF Return, Goto, TypeOK
  <2>3. /\ \A r \in Runs : Afoot(r) => Afoot(r)'
        /\ \A r \in mine[Turn] : Afoot(r)'
    BY <1>0, <2>1, RunsDeliver DEF Afoot
  <2>4. \A q \in Runs : delivered[q] => mode'[q] = "skipped" \/ Afoot(q)' \/ \E e \in Deliverers : q \in mine'[e]
    BY <2>1, <2>2, <2>3 DEF Traced
  <2>5. \A e \in Deliverers : \A q \in mine'[e] : at'[e] = "finish" => Afoot(q)'
    BY <1>0, <2>2, <2>3 DEF Traced
  <2>6. QED
    BY <2>1, <2>4, <2>5 DEF Traced
<1>5. QED
  BY <1>1, <1>2, <1>3, <1>4

\* A deleted origin is not created again.
LEMMA OriginStaysGone ==
  ASSUME [Next]_vars, origin' = "live"
  PROVE  origin = "live" /\ ~DropOrigin
BY NextIsAnyAction, StoreFailsSpends
   DEF AnyAction, ClaimFire, CreateRun, CreateFails, TimeoutClaim, TimeoutRecord, TimeoutRecordFails,
       RunEnds, Reply, StopRun, DeleteRun, Hook, FlushList, FlushConv, FlushDrop, FlushClaim, FlushInject,
       Release, FlushFinish, FlushListFails, FlushRaises, FlushInjectFails, UserMessage, TurnStart,
       TurnBind, ReadInbox, ReadClaimed, ReadFinish, StopReading, StopFinishing, TurnEnd, TurnFlush,
       TurnReset, DropOrigin, Crash, Restart, SweepList, SweepNext, Reconcile, vars, rowVars, convVars,
       procVars, bootVars

LEMMA TracedStep ==
  ASSUME TypeOK, OneHolder, BootHasJob, SpentIsClaimed, Traced, [Next]_vars
  PROVE  Traced'
<1> SUFFICES ASSUME Unbroken', origin' = "live" PROVE Traced'
  BY DEF Traced
<1> DEFINE F == {"db", "stop_run", "stop_turn", "crash"}
<1>1. Unbroken /\ \A f \in F : ~Spend(f)
  <2>1. F \in SUBSET Faults
    BY DEF Faults
  <2>2. \A f \in F : spent'[f] = 0
    BY DEF Unbroken
  <2>3. QED
    BY <2>1, <2>2, NothingSpent DEF Unbroken
<1>2. origin = "live" /\ ~DropOrigin /\ phase = "up"
  BY <1>1, OriginStaysGone DEF Unbroken, SpentIsClaimed
<1>3. /\ \A r \in Runs : ~CreateFails(r) /\ ~TimeoutRecordFails(r) /\ ~StopRun(r)
      /\ \A d \in Deliverers : ~FlushListFails(d) /\ ~FlushRaises(d)
      /\ ~StopReading /\ ~StopFinishing /\ ~Crash /\ ~StoreFails
  BY <1>1, StoreFailsSpends DEF CreateFails, TimeoutRecordFails, StopRun, FlushListFails, FlushRaises,
              StopReading, StopFinishing, Crash
<1>4. ~Restart /\ ~SweepList /\ ~SweepNext /\ ~Reconcile
  BY <1>2 DEF Restart, SweepList, SweepNext, Reconcile
<1>5. ASSUME UNCHANGED vars PROVE Traced'
  BY <1>5 DEF vars, rowVars, convVars, procVars, bootVars, Traced, Unbroken, Afoot
<1>6. QED
  BY <1>1, <1>2, <1>3, <1>4, <1>5, TracedRunStep, TracedClaims, TracedTurn, NextIsAnyAction DEF AnyAction

LEMMA TracedAlways == Spec => []Traced
<1>1. OInv /\ Traced /\ [Next]_vars => Traced'
  BY TracedStep DEF OInv, RInv
<1>2. QED
  BY OInvInvariant, TracedInit, <1>1, PTL DEF Spec

\* No silent loss: while the process lives, a result somebody claimed was closed out, was seen
\* by the agent, or is on its way there - though continuations cannot be enqueued, rows are
\* deleted, runs resumed and the user keeps talking. A failing database call and a Stop are
\* excluded because they do lose results: both leave rows claimed that nobody reports
\* (flush_origin_inbox, read_origin_inbox, _finish_delivery).
THEOREM AccountedWhenUnbroken == Spec => [](Unbroken => Accounted)
<1>1. OInv /\ Traced => (Unbroken => Accounted)
  BY DEF Traced, Accounted, Underway, Afoot
<1>2. QED
  BY OInvInvariant, TracedAlways, <1>1, PTL

-----------------------------------------------------------------------------
(* Exactly once                                                            *)

\* A one-shot set aside unreported was cancelled, and without a reply it does not run again.
CancelledStays == origin = "live" /\ spent["reply"] = 0 =>
  \A r \in Once : mode[r] = "skipped" => status[r] \in {"cancelled", "deleted"}

LEMMA CancelledStaysStep ==
  ASSUME TypeOK, BootHasJob, Fresh, ListedCancelled, OnlyStanding, CancelledStays, [Next]_vars
  PROVE  CancelledStays'
<1> SUFFICES ASSUME origin' = "live", spent'["reply"] = 0, NEW r \in Once, mode'[r] = "skipped"
             PROVE  status'[r] \in {"cancelled", "deleted"}
  BY DEF CancelledStays
<1> USE DEF rowVars, convVars, procVars, bootVars
<1>0. r \in Runs /\ origin = "live" /\ ~DropOrigin
  BY OnceAssumption, OriginStaysGone
<1>1. spent["reply"] = 0 /\ \A q \in Runs : ~Reply(q)
  <2>1. {"reply"} \in SUBSET Faults
    BY DEF Faults
  <2>2. QED
    BY <2>1, NothingSpent DEF Reply
<1>2. status[r] \in {"cancelled", "deleted"}
  <2>1. CASE mode[r] = "skipped"
    BY <1>0, <1>1, <2>1 DEF CancelledStays
  <2>2. CASE mode[r] # "skipped"
    BY <1>0, <2>2, SkippedOneShot
  <2>3. QED
    BY <2>1, <2>2
<1>3. ASSUME NEW q \in Runs, NEW s, status' = [status EXCEPT ![q] = s],
             status[q] \notin {"cancelled", "deleted"} \/ s = "deleted"
      PROVE  status'[r] \in {"cancelled", "deleted"}
  BY <1>0, <1>2, <1>3 DEF TypeOK
<1>4. ASSUME NEW q \in Runs, CreateRun(q) \/ TimeoutRecord(q) \/ (\E s \in Terminal \cup {"pending"} : RunEnds(q, s))
                             \/ DeleteRun(q)
      PROVE  status'[r] \in {"cancelled", "deleted"}
  <2>1. UNCHANGED status \/ \E s : /\ status' = [status EXCEPT ![q] = s]
                                   /\ status[q] \notin {"cancelled", "deleted"} \/ s = "deleted"
    BY <1>4 DEF CreateRun, TimeoutRecord, RunEnds, DeleteRun, Fresh
  <2>2. QED
    BY <1>2, <1>3, <2>1
<1>5. ASSUME Restart PROVE status'[r] \in {"cancelled", "deleted"}
  BY <1>0, <1>2, <1>5 DEF Restart
<1>6. ASSUME status' = status PROVE status'[r] \in {"cancelled", "deleted"}
  BY <1>2, <1>6
<1>7. QED
  BY <1>0, <1>1, <1>4, <1>5, <1>6, NextIsAnyAction, StoreFailsSpends
     DEF AnyAction, ClaimFire, CreateFails, TimeoutClaim, TimeoutRecordFails, StopRun, Hook,
         FlushList, FlushConv, FlushDrop, FlushClaim, FlushInject, Release, FlushFinish, FlushListFails,
         FlushRaises, FlushInjectFails, UserMessage, TurnStart, TurnBind, ReadInbox, ReadClaimed, ReadFinish,
         StopReading, StopFinishing, TurnEnd, TurnFlush, TurnReset, Crash, SweepList, SweepNext, Reconcile, vars

LEMMA CancelledStaysAlways == Spec => []CancelledStays
<1>1. Init => CancelledStays
  BY OnceAssumption DEF Init, CancelledStays
<1>2. OInv /\ CancelledStays /\ [Next]_vars => CancelledStays'
  BY CancelledStaysStep DEF OInv, RInv
<1>3. QED
  BY OInvInvariant, <1>1, <1>2, PTL DEF Spec

\* "Exactly once" (event_task_delivery.py:35), both halves: when everything has come to rest,
\* each finished run has been told to the origin's agent, once, or its result was closed out
\* and never told; and a one-shot is told, unless a cancelled run was resumed by a reply.
ExactlyOnce ==
  Idle /\ origin = "live" =>
    \A r \in Runs : status[r] = "done" =>
      \/ told[r] = 1
      \/ told[r] = 0 /\ mode[r] = "skipped" /\ (r \in Once => spent["reply"] > 0)

THEOREM ExactlyOnceAtRest == Spec => [](Calm /\ Unbroken => ExactlyOnce)
<1>1. OInv /\ Attended /\ Traced /\ CancelledStays => (Calm /\ Unbroken => ExactlyOnce)
  <2> SUFFICES ASSUME OInv, Attended, Traced, CancelledStays, Calm, Unbroken, Idle, origin = "live",
                      NEW r \in Runs, status[r] = "done"
               PROVE  \/ told[r] = 1
                      \/ told[r] = 0 /\ mode[r] = "skipped" /\ (r \in Once => spent["reply"] > 0)
    BY DEF ExactlyOnce
  <2>1. TypeOK /\ OneHolder
    BY DEF OInv, RInv
  <2>2. r \notin Inbox
    <3>1. ASSUME r \in Inbox PROVE FALSE
      <4>1. Expected(r) /\ phase = "up" /\ turn = "idle" /\ sweep = {}
        BY <3>1 DEF Attended, OInv, ListedCancelled, Idle
      <4>2. \A d \in Deliverers : ~Awaits(d, r)
        BY DEF Idle, Awaits
      <4>3. QED
        BY <4>1, <4>2 DEF Expected
    <3>2. QED
      BY <3>1
  <2>3. delivered[r]
    BY <2>2 DEF Inbox, Claimable, Terminal
  <2>4. carried = {} /\ queue = <<>> /\ \A d \in Deliverers : mine[d] = {}
    BY <2>1 DEF Idle, Traced, OneHolder, EmptyHanded
  <2>5. mode[r] = "skipped" \/ told[r] > 0
    BY <2>3, <2>4 DEF Traced, Afoot
  <2>6. told[r] \in Nat /\ told[r] <= 1 /\ (mode[r] = "skipped" => told[r] = 0)
    BY <2>1 DEF TypeOK, OneHolder, HandedOnce, ClosedNeverHanded
  <2>7. mode[r] = "skipped" /\ r \in Once => spent["reply"] > 0
    <3>1. spent["reply"] \in Nat
      BY <2>1 DEF TypeOK, Faults
    <3>2. QED
      BY <3>1 DEF CancelledStays
  <2>8. QED
    BY <2>5, <2>6, <2>7
<1>2. QED
  BY OInvInvariant, AttendedAlways, TracedAlways, CancelledStaysAlways, <1>1, PTL
=============================================================================
