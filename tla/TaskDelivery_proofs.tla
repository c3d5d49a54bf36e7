------------------------ MODULE TaskDelivery_proofs ------------------------
EXTENDS TaskDelivery, SequenceTheorems, TLAPS

\* The locals of a deliverer that returns keep their types.
LEMMA ReturnTyped ==
  ASSUME TypeOK, NEW d \in Deliverers, Return(d)
  PROVE  /\ at' \in [Deliverers -> DelivererPCs]
         /\ todo' \in [Deliverers -> SUBSET Runs]
         /\ drop' \in [Deliverers -> SUBSET Runs]
         /\ mine' \in [Deliverers -> SUBSET Runs]
BY DEF TypeOK, Return, Goto, DelivererPCs

\* So do the columns of a row that is closed out.
LEMMA CloseOutTyped ==
  ASSUME TypeOK, NEW r \in Runs, NEW end \in {"completed", "cancelled"}, CloseOut(r, end)
  PROVE  /\ task' \in [Runs -> {"standing", "active", "triggered", "timed_out", "completed", "cancelled"}]
         /\ delivered' \in [Runs -> BOOLEAN]
         /\ mode' \in [Runs -> {"null", "reported", "skipped"}]
BY DEF TypeOK, CloseOut, Moved

\* The boot sweep is in on_run_terminal only with a row in hand.
BootHasJob == at[Boot] # "off" => job # NoJob

LEMMA TypeInit == Init => TypeOK /\ BootHasJob
<1>1. <<>> \in Seq(SUBSET Runs)
  BY EmptySeq
<1>2. ASSUME Init PROVE queue \in Seq(SUBSET Runs)
  BY <1>1, <1>2 DEF Init
<1>3. ASSUME Init PROVE job \in (Runs \X Terminal) \cup {NoJob}
  BY <1>3 DEF Init
<1>4. ASSUME Init PROVE bound \in BOOLEAN /\ marker \in BOOLEAN /\ delivered \in [Runs -> BOOLEAN]
  BY <1>4 DEF Init
<1>5. ASSUME Init
      PROVE  /\ task \in [Runs -> {"standing", "active", "triggered", "timed_out", "completed", "cancelled"}]
             /\ at \in [Deliverers -> DelivererPCs]
  BY <1>5, OnceAssumption DEF Init, DelivererPCs
<1>6. ASSUME Init
      PROVE  /\ todo \in [Deliverers -> SUBSET Runs]
             /\ drop \in [Deliverers -> SUBSET Runs]
             /\ mine \in [Deliverers -> SUBSET Runs]
  BY <1>6 DEF Init
<1>7. ASSUME Init PROVE BootHasJob
  BY <1>7 DEF Init, BootHasJob, Deliverers
<1>8. ASSUME Init
      PROVE  /\ status \in [Runs -> {"absent", "deleted"} \cup Active \cup Terminal]
             /\ mode \in [Runs -> {"null", "reported", "skipped"}]
             /\ origin \in {"live", "gone"} /\ carried \in SUBSET Runs
             /\ turn \in {"idle", "start", "live", "ending", "flushing"}
             /\ phase \in {"down", "boot", "sweep", "up"}
             /\ sweep \in SUBSET (Runs \X Terminal)
             /\ told \in [Runs -> Nat] /\ spent \in [Faults -> Nat]
  BY <1>8 DEF Init
<1>9. QED
  BY <1>2, <1>3, <1>4, <1>5, <1>6, <1>7, <1>8 DEF TypeOK

-----------------------------------------------------------------------------
(* Types, one group of variables after the other                           *)

RowTypes ==
  /\ task \in [Runs -> {"standing", "active", "triggered", "timed_out", "completed", "cancelled"}]
  /\ status \in [Runs -> {"absent", "deleted"} \cup Active \cup Terminal]
  /\ delivered \in [Runs -> BOOLEAN]
  /\ mode \in [Runs -> {"null", "reported", "skipped"}]

TurnTypes ==
  /\ origin \in {"live", "gone"}
  /\ bound \in BOOLEAN /\ marker \in BOOLEAN
  /\ queue \in Seq(SUBSET Runs)
  /\ turn \in {"idle", "start", "live", "ending", "flushing"}
  /\ carried \in SUBSET Runs

LocalTypes ==
  /\ at \in [Deliverers -> DelivererPCs]
  /\ todo \in [Deliverers -> SUBSET Runs]
  /\ drop \in [Deliverers -> SUBSET Runs]
  /\ mine \in [Deliverers -> SUBSET Runs]

RestTypes ==
  /\ job \in (Runs \X Terminal) \cup {NoJob}
  /\ phase \in {"down", "boot", "sweep", "up"}
  /\ sweep \in SUBSET (Runs \X Terminal)
  /\ told \in [Runs -> Nat]
  /\ spent \in [Faults -> Nat]

LEMMA TypeParts == TypeOK <=> RowTypes /\ TurnTypes /\ LocalTypes /\ RestTypes
BY DEF TypeOK, RowTypes, TurnTypes, LocalTypes, RestTypes

\* A close-out or a release of which a database call raises.
StoreFails ==
  \/ \E d \in Runs \cup {Boot} : HookFails(d)
  \/ \E d \in Deliverers : FlushDropFails(d) \/ ReleaseFails(d)
  \/ SweepNextFails

\* Next, as the list of its actions.
AnyAction ==
  \/ \E r \in Runs : \/ ClaimFire(r) \/ CreateRun(r) \/ CreateFails(r)
                     \/ TimeoutClaim(r) \/ TimeoutRecord(r) \/ TimeoutRecordFails(r)
                     \/ \E s \in Terminal \cup {"pending"} : RunEnds(r, s)
                     \/ Reply(r) \/ StopRun(r) \/ DeleteRun(r)
  \/ \E d \in Runs \cup {Boot} : Hook(d)
  \/ \E d \in Deliverers :
       \/ FlushList(d) \/ FlushConv(d) \/ FlushDrop(d) \/ FlushClaim(d)
       \/ FlushInject(d) \/ Release(d) \/ FlushFinish(d)
       \/ FlushListFails(d) \/ FlushRaises(d) \/ FlushInjectFails(d)
  \/ UserMessage \/ TurnStart \/ TurnBind \/ ReadInbox \/ ReadClaimed \/ ReadFinish
  \/ StopReading \/ StopFinishing \/ TurnEnd \/ TurnFlush \/ TurnReset
  \/ DropOrigin \/ Crash \/ Restart \/ SweepList \/ SweepNext \/ Reconcile
  \/ StoreFails \/ UNCHANGED vars

LEMMA NextIsAnyAction == [Next]_vars => AnyAction
BY DEF AnyAction, StoreFails, Next, RunStep, Flush, FlushFault, TurnStep, BootStep

\* The boot sweep's subject is the run of the row in its hands.
LEMMA SubjectIsRun ==
  ASSUME TypeOK, BootHasJob, NEW d \in Runs \cup {Boot}, at[d] = "hook"
  PROVE  Subject(d) \in Runs
<1>1. CASE d = Boot
  BY <1>1 DEF Subject, BootHasJob, TypeOK
<1>2. CASE d # Boot
  BY <1>2 DEF Subject
<1>3. QED
  BY <1>1, <1>2

\* At most it takes the claim of a row nobody claimed, and deliverers let go of rows.
LEMMA StoreFailsEffect ==
  ASSUME TypeOK, BootHasJob, StoreFails
  PROVE  /\ Spend("db")
         /\ UNCHANGED <<task, status, mode, origin, convVars, phase, job, told>>
         /\ \/ UNCHANGED delivered
            \/ \E r \in Runs : Claimable(r) /\ delivered' = [delivered EXCEPT ![r] = TRUE]
         /\ sweep' \subseteq sweep
         /\ LocalTypes'
         /\ \A d \in Deliverers : /\ mine'[d] \subseteq mine[d] /\ drop'[d] \subseteq drop[d]
                                  /\ at'[d] = at[d] \/ (at'[d] = "off" /\ mine'[d] = {})
<1> USE DEF CloseOutRaises, LocalTypes, bootVars, rowVars, procVars
<1>0. LocalTypes
  BY TypeParts
<1>1. ASSUME NEW d \in Runs \cup {Boot}, HookFails(d)
      PROVE  /\ \/ UNCHANGED delivered
                \/ \E r \in Runs : Claimable(r) /\ delivered' = [delivered EXCEPT ![r] = TRUE]
             /\ Return(d) /\ d \in Deliverers /\ Spend("db")
             /\ UNCHANGED <<task, status, mode, origin, convVars, phase, sweep, job, told>>
  BY <1>1, SubjectIsRun DEF HookFails, Deliverers
<1>2. ASSUME NEW d \in Deliverers, Return(d)
      PROVE  /\ LocalTypes'
             /\ \A e \in Deliverers : /\ mine'[e] \subseteq mine[e] /\ drop'[e] \subseteq drop[e]
                                      /\ at'[e] = at[e] \/ (at'[e] = "off" /\ mine'[e] = {})
  BY <1>0, <1>2, ReturnTyped DEF Return, Goto
<1>3. ASSUME NEW d \in Deliverers, FlushDropFails(d)
      PROVE  /\ Spend("db")
             /\ UNCHANGED <<task, status, mode, origin, convVars, bootVars, told, at, mine, todo>>
             /\ \E r \in Runs : /\ drop' = [drop EXCEPT ![d] = @ \ {r}]
                               /\ \/ UNCHANGED delivered
                                  \/ Claimable(r) /\ delivered' = [delivered EXCEPT ![r] = TRUE]
  BY <1>0, <1>3 DEF FlushDropFails
<1>4. ASSUME NEW d \in Deliverers, ReleaseFails(d)
      PROVE  /\ Spend("db")
             /\ UNCHANGED <<rowVars, origin, convVars, bootVars, told, at, todo, drop>>
             /\ \E r \in Runs : mine' = [mine EXCEPT ![d] = @ \ {r}]
  BY <1>0, <1>4 DEF ReleaseFails
<1>5. ASSUME SweepNextFails
      PROVE  /\ Spend("db") /\ sweep' \subseteq sweep
             /\ UNCHANGED <<task, status, mode, origin, convVars, procVars, phase, job, told>>
             /\ \/ UNCHANGED delivered
                \/ \E r \in Runs : Claimable(r) /\ delivered' = [delivered EXCEPT ![r] = TRUE]
  BY <1>5 DEF SweepNextFails, TypeOK
<1>6. CASE \E d \in Runs \cup {Boot} : HookFails(d)
  BY <1>1, <1>2, <1>6
<1>7. CASE \E d \in Deliverers : FlushDropFails(d)
  BY <1>0, <1>3, <1>7
<1>8. CASE \E d \in Deliverers : ReleaseFails(d)
  BY <1>0, <1>4, <1>8
<1>9. CASE SweepNextFails
  BY <1>0, <1>5, <1>9
<1>10. QED
  BY <1>6, <1>7, <1>8, <1>9 DEF StoreFails

LEMMA RowTypeStep ==
  ASSUME TypeOK, BootHasJob, [Next]_vars
  PROVE  RowTypes'
<1>0. RowTypes
  BY TypeParts
<1> USE DEF RowTypes
<1>1. CASE UNCHANGED rowVars
  BY <1>0, <1>1 DEF rowVars
<1>2. ASSUME NEW r \in Runs, ClaimFire(r) \/ CreateFails(r) \/ TimeoutClaim(r) PROVE RowTypes'
  <2>1. /\ UNCHANGED <<status, delivered, mode>>
        /\ \E from \in {"active", "triggered"} : \E to \in {"active", "triggered", "timed_out"} :
             task' = Moved(r, from, to)
    BY <1>2 DEF ClaimFire, CreateFails, TimeoutClaim
  <2>2. QED
    BY <1>0, <2>1 DEF Moved
<1>3. ASSUME NEW r \in Runs,
             \/ CreateRun(r) \/ TimeoutRecord(r) \/ Reply(r) \/ DeleteRun(r)
             \/ \E s \in Terminal \cup {"pending"} : RunEnds(r, s)
      PROVE  RowTypes'
  <2>1. /\ UNCHANGED <<task, delivered, mode>>
        /\ status' = status \/ \E s \in {"running", "pending", "deleted"} \cup Terminal :
                                 status' = [status EXCEPT ![r] = s]
    BY <1>3 DEF CreateRun, TimeoutRecord, Reply, DeleteRun, RunEnds, Terminal
  <2>2. QED
    BY <1>0, <2>1 DEF Active
<1>4. ASSUME NEW r \in Runs, NEW end \in {"completed", "cancelled"},
             CloseOut(r, end) \/ UNCHANGED <<task, delivered, mode>>, UNCHANGED status
      PROVE  RowTypes'
  BY <1>0, <1>4, CloseOutTyped
<1>5. ASSUME NEW d \in Runs \cup {Boot}, Hook(d) PROVE RowTypes'
  <2>1. Subject(d) \in Runs
    BY <1>5, SubjectIsRun DEF Hook
  <2>2. UNCHANGED status /\ \E end \in {"completed", "cancelled"} :
          CloseOut(Subject(d), end) \/ UNCHANGED <<task, delivered, mode>>
    BY <1>5 DEF Hook
  <2>3. QED
    BY <1>4, <2>1, <2>2
<1>6. ASSUME NEW d \in Deliverers, FlushDrop(d) PROVE RowTypes'
  <2>1. PICK r \in drop[d] : CloseOut(r, "completed") \/ UNCHANGED <<task, delivered, mode>>
    BY <1>6 DEF FlushDrop
  <2>2. r \in Runs /\ UNCHANGED status
    BY <1>6, <2>1 DEF FlushDrop, TypeOK
  <2>3. QED
    BY <1>4, <2>1, <2>2
<1>7. ASSUME NEW d \in Deliverers, FlushClaim(d) \/ Release(d) PROVE RowTypes'
  <2>1. todo[d] \subseteq Runs /\ mine[d] \subseteq Runs
    BY DEF TypeOK
  <2>2. UNCHANGED <<task, status>> /\ \/ UNCHANGED <<delivered, mode>>
                                       \/ \E r \in Runs : /\ \E b \in BOOLEAN : delivered' = [delivered EXCEPT ![r] = b]
                                                          /\ mode' = mode \/ mode' = [mode EXCEPT ![r] = "null"]
    BY <1>7, <2>1 DEF FlushClaim, Release
  <2>3. QED
    BY <1>0, <2>2
<1>8. ASSUME \/ \E d \in Deliverers : FlushFinish(d)
             \/ ReadFinish \/ StopFinishing
      PROVE  RowTypes'
  <2>1. PICK rows : Finish(rows)
    BY <1>8 DEF FlushFinish, ReadFinish, StopFinishing
  <2>2. UNCHANGED <<status, delivered>>
    BY <1>8 DEF FlushFinish, ReadFinish, StopFinishing
  <2>3. QED
    BY <1>0, <2>1, <2>2 DEF Finish
<1>9. ASSUME DropOrigin \/ Restart PROVE RowTypes'
  <2>1. UNCHANGED <<task, delivered, mode>>
    BY <1>9 DEF DropOrigin, Restart
  <2>2. PICK S \in SUBSET Runs, to \in {"deleted", "done"} :
          status' = [r \in Runs |-> IF r \in S THEN to ELSE status[r]]
    <3>1. CASE DropOrigin
      BY <3>1 DEF DropOrigin
    <3>2. CASE Restart
      <4>1. status' = [r \in Runs |-> IF r \in {q \in Runs : status[q] = "running"}
                                      THEN "done" ELSE status[r]]
        BY <3>2 DEF Restart
      <4>2. QED
        BY <4>1
    <3>3. QED
      BY <1>9, <3>1, <3>2
  <2>3. QED
    BY <1>0, <2>1, <2>2 DEF Terminal
<1>10. ASSUME SweepNext PROVE RowTypes'
  <2>1. PICK next \in sweep : CloseOut(next[1], "completed") \/ UNCHANGED <<task, delivered, mode>>
    BY <1>10 DEF SweepNext
  <2>2. next[1] \in Runs /\ UNCHANGED status
    BY <1>10, <2>1 DEF SweepNext, TypeOK
  <2>3. QED
    BY <1>4, <2>1, <2>2
<1>11. ASSUME Reconcile PROVE RowTypes'
  BY <1>0, <1>11 DEF Reconcile
<1>12. ASSUME \/ \E r \in Runs : TimeoutRecordFails(r) \/ StopRun(r)
              \/ \E d \in Deliverers : \/ FlushList(d) \/ FlushConv(d) \/ FlushInject(d)
                                       \/ FlushListFails(d) \/ FlushRaises(d) \/ FlushInjectFails(d)
              \/ UserMessage \/ TurnStart \/ TurnBind \/ ReadInbox \/ ReadClaimed \/ StopReading
              \/ TurnEnd \/ TurnFlush \/ TurnReset \/ Crash \/ SweepList \/ UNCHANGED vars
       PROVE  UNCHANGED rowVars
  BY <1>12 DEF TimeoutRecordFails, StopRun, FlushList, FlushConv, FlushInject, FlushListFails,
               FlushRaises, FlushInjectFails, UserMessage, TurnStart, TurnBind, ReadInbox, ReadClaimed,
               StopReading, TurnEnd, TurnFlush, TurnReset, Crash, SweepList, vars
<1>13. ASSUME StoreFails PROVE RowTypes'
  BY <1>0, <1>13, StoreFailsEffect
<1>14. QED
  BY <1>1, <1>2, <1>3, <1>5, <1>6, <1>7, <1>8, <1>9, <1>10, <1>11, <1>12, <1>13, NextIsAnyAction DEF AnyAction

LEMMA TurnTypeStep ==
  ASSUME TypeOK, BootHasJob, [Next]_vars
  PROVE  TurnTypes'
<1>0. TurnTypes
  BY TypeParts
<1> USE DEF TurnTypes
<1>1. CASE UNCHANGED <<origin, convVars>>
  BY <1>0, <1>1 DEF convVars
<1>2. ASSUME NEW d \in Runs \cup {Boot}, Hook(d) PROVE TurnTypes'
  BY <1>0, <1>2 DEF Hook
<1>3. ASSUME \/ \E d \in Deliverers : FlushRaises(d)
             \/ TurnEnd \/ TurnFlush \/ TurnReset
      PROVE  TurnTypes'
  BY <1>0, <1>3 DEF FlushRaises, TurnEnd, TurnFlush, TurnReset
<1>4. ASSUME NEW d \in Deliverers, FlushInject(d) PROVE TurnTypes'
  <2>1. mine[d] \in SUBSET Runs
    BY DEF TypeOK
  <2>2. Append(queue, mine[d]) \in Seq(SUBSET Runs)
    BY <1>0, <2>1, AppendProperties
  <2>3. QED
    BY <1>0, <1>4, <2>2 DEF FlushInject
<1>5. ASSUME UserMessage PROVE TurnTypes'
  <2>1. Append(queue, {}) \in Seq(SUBSET Runs)
    BY <1>0, AppendProperties
  <2>2. QED
    BY <1>0, <1>5, <2>1 DEF UserMessage
<1>6. ASSUME TurnStart PROVE TurnTypes'
  <2>1. Head(queue) \in SUBSET Runs /\ Tail(queue) \in Seq(SUBSET Runs)
    BY <1>0, <1>6, HeadTailProperties DEF TurnStart
  <2>2. QED
    BY <1>0, <1>6, <2>1 DEF TurnStart
<1>7. ASSUME TurnBind PROVE TurnTypes'
  BY <1>0, <1>7 DEF TurnBind
<1>8. ASSUME DropOrigin \/ Crash PROVE TurnTypes'
  <2>1. <<>> \in Seq(SUBSET Runs)
    BY EmptySeq
  <2>2. QED
    BY <1>0, <1>8, <2>1 DEF DropOrigin, Crash
<1>9. ASSUME \/ \E r \in Runs : \/ ClaimFire(r) \/ CreateRun(r) \/ CreateFails(r)
                                \/ TimeoutClaim(r) \/ TimeoutRecord(r) \/ TimeoutRecordFails(r)
                                \/ \E s \in Terminal \cup {"pending"} : RunEnds(r, s)
                                \/ Reply(r) \/ StopRun(r) \/ DeleteRun(r)
             \/ \E d \in Deliverers : \/ FlushList(d) \/ FlushConv(d) \/ FlushDrop(d) \/ FlushClaim(d)
                                      \/ Release(d) \/ FlushFinish(d)
                                      \/ FlushListFails(d) \/ FlushInjectFails(d)
             \/ ReadInbox \/ ReadClaimed \/ ReadFinish \/ StopReading \/ StopFinishing
             \/ Restart \/ SweepList \/ SweepNext \/ Reconcile \/ UNCHANGED vars
      PROVE  UNCHANGED <<origin, convVars>>
  BY <1>9 DEF ClaimFire, CreateRun, CreateFails, TimeoutClaim, TimeoutRecord, TimeoutRecordFails,
              RunEnds, Reply, StopRun, DeleteRun, FlushList, FlushConv, FlushDrop, FlushClaim,
              Release, FlushFinish, FlushListFails, FlushInjectFails, ReadInbox, ReadClaimed,
              ReadFinish, StopReading, StopFinishing, Restart, SweepList, SweepNext, Reconcile, vars
<1>10. ASSUME StoreFails PROVE UNCHANGED <<origin, convVars>>
  BY <1>10, StoreFailsEffect
<1>11. QED
  BY <1>1, <1>2, <1>3, <1>4, <1>5, <1>6, <1>7, <1>8, <1>9, <1>10, NextIsAnyAction DEF AnyAction

LEMMA LocalTypeStep ==
  ASSUME TypeOK, BootHasJob, [Next]_vars
  PROVE  LocalTypes'
<1>0. LocalTypes
  BY TypeParts
<1> USE DEF LocalTypes
<1>1. CASE UNCHANGED procVars
  BY <1>0, <1>1 DEF procVars
<1>2. ASSUME NEW d \in Deliverers, Return(d) PROVE LocalTypes'
  BY <1>2, ReturnTyped
<1>3. ASSUME NEW d \in Deliverers, NEW pc \in DelivererPCs, Goto(d, pc), UNCHANGED <<todo, drop, mine>>
      PROVE  LocalTypes'
  BY <1>0, <1>3 DEF Goto
<1>4. ASSUME NEW r \in Runs,
             \/ ClaimFire(r) \/ CreateRun(r) \/ CreateFails(r)
             \/ TimeoutClaim(r) \/ TimeoutRecord(r) \/ TimeoutRecordFails(r)
             \/ \E s \in Terminal \cup {"pending"} : RunEnds(r, s)
      PROVE  LocalTypes'
  <2>1. /\ UNCHANGED <<todo, drop, mine>>
        /\ UNCHANGED at \/ \E pc \in {"off", "create", "record", "hook"} : Goto(r, pc)
    BY <1>4 DEF ClaimFire, CreateRun, CreateFails, TimeoutClaim, TimeoutRecord, TimeoutRecordFails, RunEnds
  <2>2. r \in Deliverers /\ {"off", "create", "record", "hook"} \subseteq DelivererPCs
    BY DEF Deliverers, DelivererPCs
  <2>3. QED
    BY <1>1, <1>3, <2>1, <2>2 DEF procVars
<1>5. ASSUME NEW d \in Runs \cup {Boot}, Hook(d) PROVE LocalTypes'
  <2>1. d \in Deliverers /\ "list" \in DelivererPCs
    BY DEF Deliverers, DelivererPCs
  <2>2. Return(d) \/ (Goto(d, "list") /\ UNCHANGED <<todo, drop, mine>>)
    BY <1>5 DEF Hook
  <2>3. QED
    BY <1>2, <1>3, <2>1, <2>2
<1>6. ASSUME NEW d \in Deliverers, FlushList(d) \/ FlushConv(d) PROVE LocalTypes'
  <2>1. CASE Return(d)
    BY <1>2, <2>1
  <2>2. CASE ~Return(d)
    <3>1. Inbox \subseteq Runs /\ todo[d] \subseteq Runs
      BY DEF Inbox, TypeOK
    <3>2. PICK over \in SUBSET Runs, rest \in SUBSET Runs, pc \in {"conv", "rows"} :
            /\ todo' = [todo EXCEPT ![d] = rest]
            /\ drop' = drop \/ drop' = [drop EXCEPT ![d] = over]
            /\ mine' = mine /\ Goto(d, pc)
      <4>1. CASE FlushList(d)
        BY <2>2, <3>1, <4>1 DEF FlushList
      <4>2. CASE FlushConv(d)
        BY <3>1, <4>2 DEF FlushConv
      <4>3. QED
        BY <1>6, <4>1, <4>2
    <3>3. QED
      BY <1>0, <3>2 DEF Goto, DelivererPCs
  <2>3. QED
    BY <2>1, <2>2
<1>7. ASSUME NEW d \in Deliverers, FlushDrop(d) PROVE LocalTypes'
  <2>1. PICK r : drop' = [drop EXCEPT ![d] = @ \ {r}] /\ UNCHANGED <<at, todo, mine>>
    BY <1>7 DEF FlushDrop
  <2>2. QED
    BY <1>0, <2>1
<1>8. ASSUME NEW d \in Deliverers, FlushClaim(d) PROVE LocalTypes'
  <2>1. PICK r \in todo[d] :
          /\ todo' = [todo EXCEPT ![d] = @ \ {r}]
          /\ mine' = mine \/ mine' = [mine EXCEPT ![d] = @ \cup {r}]
          /\ UNCHANGED <<at, drop>>
    BY <1>8 DEF FlushClaim
  <2>2. mine[d] \cup {r} \in SUBSET Runs
    BY <1>0, <2>1
  <2>3. QED
    BY <1>0, <2>1, <2>2
<1>9. ASSUME NEW d \in Deliverers, Release(d) PROVE LocalTypes'
  <2>1. Return(d) \/ \E r : mine' = [mine EXCEPT ![d] = @ \ {r}] /\ UNCHANGED <<at, todo, drop>>
    BY <1>9 DEF Release
  <2>2. QED
    BY <1>0, <1>2, <2>1
<1>10. ASSUME NEW d \in Deliverers,
              \/ FlushInject(d) \/ FlushFinish(d)
              \/ FlushListFails(d) \/ FlushRaises(d) \/ FlushInjectFails(d)
       PROVE  LocalTypes'
  <2>1. Return(d) \/ \E pc \in {"finish", "release"} : Goto(d, pc) /\ UNCHANGED <<todo, drop, mine>>
    BY <1>10 DEF FlushInject, FlushFinish, FlushListFails, FlushRaises, FlushInjectFails
  <2>2. {"finish", "release"} \subseteq DelivererPCs
    BY DEF DelivererPCs
  <2>3. QED
    BY <1>2, <1>3, <2>1, <2>2
<1>11. ASSUME NEW r \in Runs, StopRun(r) PROVE LocalTypes'
  BY <1>2, <1>11 DEF StopRun, Deliverers
<1>12. Turn \in Deliverers /\ Boot \in Deliverers
  BY DEF Deliverers
<1>13. ASSUME ReadInbox PROVE LocalTypes'
  <2>1. PICK over \in SUBSET Inbox :
          /\ drop' = [drop EXCEPT ![Turn] = over]
          /\ todo' = [todo EXCEPT ![Turn] = Inbox \ over]
          /\ Goto(Turn, "read_rows") /\ mine' = mine
    BY <1>13 DEF ReadInbox
  <2>2. over \in SUBSET Runs /\ Inbox \ over \in SUBSET Runs
    BY DEF Inbox
  <2>3. QED
    BY <1>0, <1>12, <2>1, <2>2 DEF Goto, DelivererPCs
<1>14. ASSUME ReadClaimed \/ ReadFinish \/ StopFinishing \/ DropOrigin PROVE LocalTypes'
  <2>1. Return(Turn) \/ (Goto(Turn, "read_finish") /\ UNCHANGED <<todo, drop, mine>>)
    BY <1>14 DEF ReadClaimed, ReadFinish, StopFinishing, DropOrigin
  <2>2. "read_finish" \in DelivererPCs
    BY DEF DelivererPCs
  <2>3. QED
    BY <1>2, <1>3, <1>12, <2>1, <2>2
<1>15. ASSUME StopReading PROVE LocalTypes'
  BY <1>0, <1>12, <1>15 DEF StopReading, Goto, DelivererPCs
<1>16. ASSUME TurnFlush \/ SweepNext PROVE LocalTypes'
  <2>1. /\ UNCHANGED <<todo, drop, mine>>
        /\ UNCHANGED at \/ Goto(Turn, "list") \/ Goto(Boot, "hook")
    BY <1>16 DEF TurnFlush, SweepNext
  <2>2. {"list", "hook"} \subseteq DelivererPCs
    BY DEF DelivererPCs
  <2>3. QED
    BY <1>1, <1>3, <1>12, <2>1, <2>2 DEF procVars
<1>17. ASSUME Crash PROVE LocalTypes'
  BY <1>17 DEF Crash, DelivererPCs
<1>18. ASSUME \/ \E r \in Runs : Reply(r) \/ DeleteRun(r)
              \/ UserMessage \/ TurnStart \/ TurnBind \/ TurnEnd \/ TurnReset
              \/ Restart \/ SweepList \/ Reconcile \/ UNCHANGED vars
       PROVE  UNCHANGED procVars
  BY <1>18 DEF Reply, DeleteRun, UserMessage, TurnStart, TurnBind, TurnEnd, TurnReset,
               Restart, SweepList, Reconcile, vars
<1>19. ASSUME StoreFails PROVE LocalTypes'
  BY <1>19, StoreFailsEffect
<1>20. QED
  BY <1>1, <1>4, <1>5, <1>6, <1>7, <1>8, <1>9, <1>10, <1>11, <1>13, <1>14, <1>15, <1>16, <1>17, <1>18, <1>19,
     NextIsAnyAction DEF AnyAction

LEMMA SpentTyped ==
  ASSUME TypeOK, NEW f \in Faults, Spend(f)
  PROVE  spent' \in [Faults -> Nat]
BY DEF TypeOK, Spend

LEMMA RestTypeStep ==
  ASSUME TypeOK, BootHasJob, [Next]_vars
  PROVE  RestTypes'
<1>0. RestTypes
  BY TypeParts
<1>1. spent' \in [Faults -> Nat]
  <2>1. spent' = spent \/ \E f \in Faults : Spend(f)
    <3>1. {"db", "enqueue", "stop_run", "stop_turn", "turn", "reply", "delete", "drop", "crash"} \subseteq Faults
      BY DEF Faults
    <3>2. QED
      BY <3>1, NextIsAnyAction, StoreFailsEffect
         DEF AnyAction, ClaimFire, CreateRun, CreateFails, TimeoutClaim, TimeoutRecord, TimeoutRecordFails,
             RunEnds, Reply, StopRun, DeleteRun, Hook, FlushList, FlushConv, FlushDrop, FlushClaim,
             FlushInject, Release, FlushFinish, FlushListFails, FlushRaises, FlushInjectFails,
             UserMessage, TurnStart, TurnBind, ReadInbox, ReadClaimed, ReadFinish, StopReading,
             StopFinishing, TurnEnd, TurnFlush, TurnReset, DropOrigin, Crash, Restart, SweepList,
             SweepNext, Reconcile, vars
  <2>2. QED
    BY <1>0, <2>1, SpentTyped DEF RestTypes
<1>2. told' \in [Runs -> Nat]
  <2>1. told' = told \/ \E S : told' = [r \in Runs |-> IF r \in S THEN told[r] + 1 ELSE told[r]]
    <3>1. CASE TurnBind \/ ReadFinish
      BY <3>1 DEF TurnBind, ReadFinish
    <3>2. CASE ~(TurnBind \/ ReadFinish)
      BY <3>2, NextIsAnyAction, StoreFailsEffect
         DEF AnyAction, ClaimFire, CreateRun, CreateFails, TimeoutClaim, TimeoutRecord, TimeoutRecordFails,
             RunEnds, Reply, StopRun, DeleteRun, Hook, FlushList, FlushConv, FlushDrop, FlushClaim,
             FlushInject, Release, FlushFinish, FlushListFails, FlushRaises, FlushInjectFails,
             UserMessage, TurnStart, ReadInbox, ReadClaimed, StopReading,
             StopFinishing, TurnEnd, TurnFlush, TurnReset, DropOrigin, Crash, Restart, SweepList,
             SweepNext, Reconcile, vars
    <3>3. QED
      BY <3>1, <3>2
  <2>2. QED
    BY <1>0, <2>1 DEF RestTypes
<1>3. /\ job' \in (Runs \X Terminal) \cup {NoJob}
      /\ phase' \in {"down", "boot", "sweep", "up"}
      /\ sweep' \in SUBSET (Runs \X Terminal)
  <2> USE DEF RestTypes
  <2>1. CASE UNCHANGED bootVars
    BY <1>0, <2>1 DEF bootVars
  <2>2. CASE Crash
    BY <1>0, <2>2 DEF Crash
  <2>3. CASE Restart
    BY <1>0, <2>3 DEF Restart
  <2>4. CASE SweepList
    <3>1. {<<r, status[r]>> : r \in {q \in Runs : Claimable(q)}} \subseteq Runs \X Terminal
      BY DEF Claimable
    <3>2. QED
      BY <1>0, <2>4, <3>1 DEF SweepList
  <2>5. CASE SweepNext
    <3>1. PICK next \in sweep : sweep' = sweep \ {next} /\ (job' = job \/ job' = next) /\ phase' = phase
      BY <2>5 DEF SweepNext
    <3>2. QED
      BY <1>0, <3>1
  <2>6. CASE Reconcile
    BY <1>0, <2>6 DEF Reconcile
  <2>7. CASE StoreFails
    BY <1>0, <2>7, StoreFailsEffect
  <2>8. CASE ~(Crash \/ Restart \/ SweepList \/ SweepNext \/ Reconcile \/ StoreFails)
    <3>1. UNCHANGED bootVars
      BY <2>8, NextIsAnyAction
         DEF AnyAction, ClaimFire, CreateRun, CreateFails, TimeoutClaim, TimeoutRecord, TimeoutRecordFails,
             RunEnds, Reply, StopRun, DeleteRun, Hook, FlushList, FlushConv, FlushDrop, FlushClaim,
             FlushInject, Release, FlushFinish, FlushListFails, FlushRaises, FlushInjectFails,
             UserMessage, TurnStart, TurnBind, ReadInbox, ReadClaimed, ReadFinish, StopReading,
             StopFinishing, TurnEnd, TurnFlush, TurnReset, DropOrigin, vars
    <3>2. QED
      BY <2>1, <3>1
  <2>9. QED
    BY <2>2, <2>3, <2>4, <2>5, <2>6, <2>7, <2>8
<1>4. QED
  BY <1>1, <1>2, <1>3 DEF RestTypes

LEMMA TypeStep ==
  ASSUME TypeOK, BootHasJob, [Next]_vars
  PROVE  TypeOK'
<1>1. RowTypes' /\ TurnTypes' /\ LocalTypes' /\ RestTypes'
  BY RowTypeStep, TurnTypeStep, LocalTypeStep, RestTypeStep
<1>2. QED
  BY <1>1 DEF TypeOK, RowTypes, TurnTypes, LocalTypes, RestTypes

LEMMA BootJobStep ==
  ASSUME TypeOK, BootHasJob, [Next]_vars
  PROVE  BootHasJob'
<1> USE RunsAssumption DEF TypeOK, BootHasJob, Deliverers, Boot, Turn, procVars, bootVars, Goto, Return
<1>1. ASSUME NEW r \in Runs, ClaimFire(r) PROVE BootHasJob'
  BY <1>1 DEF ClaimFire
<1>2. ASSUME NEW r \in Runs, CreateRun(r) PROVE BootHasJob'
  BY <1>2 DEF CreateRun
<1>3. ASSUME NEW r \in Runs, CreateFails(r) PROVE BootHasJob'
  BY <1>3 DEF CreateFails
<1>4. ASSUME NEW r \in Runs, TimeoutClaim(r) PROVE BootHasJob'
  BY <1>4 DEF TimeoutClaim
<1>5. ASSUME NEW r \in Runs, TimeoutRecord(r) PROVE BootHasJob'
  BY <1>5 DEF TimeoutRecord
<1>6. ASSUME NEW r \in Runs, TimeoutRecordFails(r) PROVE BootHasJob'
  BY <1>6 DEF TimeoutRecordFails
<1>7. ASSUME NEW r \in Runs, NEW s \in Terminal \cup {"pending"}, RunEnds(r, s) PROVE BootHasJob'
  BY <1>7 DEF RunEnds
<1>8. ASSUME NEW r \in Runs, Reply(r) PROVE BootHasJob'
  BY <1>8 DEF Reply
<1>9. ASSUME NEW r \in Runs, StopRun(r) PROVE BootHasJob'
  BY <1>9 DEF StopRun
<1>10. ASSUME NEW r \in Runs, DeleteRun(r) PROVE BootHasJob'
  BY <1>10 DEF DeleteRun
<1>11. ASSUME NEW d \in Runs \cup {Boot}, Hook(d) PROVE BootHasJob'
  BY <1>11 DEF Hook
<1>12. ASSUME NEW d \in Deliverers, FlushList(d) PROVE BootHasJob'
  BY <1>12 DEF FlushList
<1>13. ASSUME NEW d \in Deliverers, FlushConv(d) PROVE BootHasJob'
  BY <1>13 DEF FlushConv
<1>14. ASSUME NEW d \in Deliverers, FlushDrop(d) PROVE BootHasJob'
  BY <1>14 DEF FlushDrop
<1>15. ASSUME NEW d \in Deliverers, FlushClaim(d) PROVE BootHasJob'
  BY <1>15 DEF FlushClaim
<1>16. ASSUME NEW d \in Deliverers, FlushInject(d) PROVE BootHasJob'
  BY <1>16 DEF FlushInject
<1>17. ASSUME NEW d \in Deliverers, Release(d) PROVE BootHasJob'
  BY <1>17 DEF Release
<1>18. ASSUME NEW d \in Deliverers, FlushFinish(d) PROVE BootHasJob'
  BY <1>18 DEF FlushFinish
<1>19. ASSUME NEW d \in Deliverers, FlushListFails(d) PROVE BootHasJob'
  BY <1>19 DEF FlushListFails
<1>20. ASSUME NEW d \in Deliverers, FlushRaises(d) PROVE BootHasJob'
  BY <1>20 DEF FlushRaises
<1>21. ASSUME NEW d \in Deliverers, FlushInjectFails(d) PROVE BootHasJob'
  BY <1>21 DEF FlushInjectFails
<1>22. ASSUME UserMessage PROVE BootHasJob'
  BY <1>22 DEF UserMessage
<1>23. ASSUME TurnStart PROVE BootHasJob'
  BY <1>23 DEF TurnStart
<1>24. ASSUME TurnBind PROVE BootHasJob'
  BY <1>24 DEF TurnBind
<1>25. ASSUME ReadClaimed PROVE BootHasJob'
  BY <1>25 DEF ReadClaimed
<1>26. ASSUME ReadFinish PROVE BootHasJob'
  BY <1>26 DEF ReadFinish
<1>27. ASSUME TurnEnd PROVE BootHasJob'
  BY <1>27 DEF TurnEnd
<1>28. ASSUME TurnFlush PROVE BootHasJob'
  BY <1>28 DEF TurnFlush
<1>29. ASSUME TurnReset PROVE BootHasJob'
  BY <1>29 DEF TurnReset
<1>30. ASSUME ReadInbox PROVE BootHasJob'
  BY <1>30 DEF ReadInbox
<1>31. ASSUME StopReading PROVE BootHasJob'
  BY <1>31 DEF StopReading
<1>32. ASSUME StopFinishing PROVE BootHasJob'
  BY <1>32 DEF StopFinishing
<1>33. ASSUME DropOrigin PROVE BootHasJob'
  BY <1>33 DEF DropOrigin
<1>34. ASSUME Crash PROVE BootHasJob'
  BY <1>34 DEF Crash
<1>35. ASSUME Restart PROVE BootHasJob'
  BY <1>35 DEF Restart
<1>36. ASSUME SweepList PROVE BootHasJob'
  BY <1>36 DEF SweepList
<1>37. ASSUME SweepNext PROVE BootHasJob'
  <2>1. \A next \in sweep : next # NoJob
    BY DEF NoJob, Terminal
  <2>2. PICK next \in sweep : UNCHANGED <<at, job>> \/ job' = next
    BY <1>37 DEF SweepNext
  <2>3. QED
    BY <1>37, <2>1, <2>2 DEF SweepNext
<1>38. ASSUME Reconcile PROVE BootHasJob'
  BY <1>38 DEF Reconcile
<1>39. CASE UNCHANGED vars
  BY <1>39 DEF vars
<1>40. ASSUME StoreFails PROVE BootHasJob'
  BY <1>40, StoreFailsEffect
<1>41. QED
  BY <1>1, <1>2, <1>3, <1>4, <1>5, <1>6, <1>7, <1>8, <1>9, <1>10, <1>11, <1>12, <1>13, <1>14, <1>15, <1>16, <1>17, <1>18, <1>19, <1>20, <1>21, <1>22, <1>23, <1>24, <1>25, <1>26, <1>27, <1>28, <1>29, <1>30, <1>31, <1>32, <1>33, <1>34, <1>35, <1>36, <1>37, <1>38, <1>39, <1>40
     DEF StoreFails, Next, RunStep, Flush, FlushFault, TurnStep, BootStep

\* TypeOK: every variable keeps the range the code gives it, whatever happens.
THEOREM TypeCorrect == Spec => []TypeOK
<1>1. TypeOK /\ BootHasJob /\ [Next]_vars => (TypeOK /\ BootHasJob)'
  BY TypeStep, BootJobStep
<1>2. QED
  BY TypeInit, <1>1, PTL DEF Spec

\* The steps that neither claim, queue, release nor hand over a result: holders
\* only let go, claims stay, and only an unclaimed row is closed out.
LetsGo ==
  /\ \A d \in Deliverers : mine'[d] \subseteq mine[d]
  /\ \A d \in Deliverers : at'[d] \in EmptyHanded => mine'[d] = {}
  /\ \A d \in Deliverers : at[d] = "finish" => at'[d] = "finish" \/ mine'[d] = {}
  /\ \A r \in Runs : delivered[r] => delivered'[r]
  /\ \A r \in Runs : mode'[r] = "skipped" => mode[r] = "skipped" \/ (~delivered[r] /\ delivered'[r])
  /\ told' = told
  /\ carried' \subseteq carried
  /\ queue' = queue \/ queue' = <<>>

LEMMA LetsGoKeepsOneHolder ==
  ASSUME TypeOK, OneHolder, TypeOK', LetsGo
  PROVE  OneHolder'
<1> USE DEF TypeOK, OneHolder, LetsGo
<1>1. \A d \in Deliverers : Held(d)' \subseteq Held(d) /\ Held(d) \subseteq Runs
  BY DEF Held
<1>2. \A i \in 1..Len(queue') : i \in 1..Len(queue) /\ queue'[i] = queue[i] /\ queue[i] \subseteq Runs
  <2>1. CASE queue' = <<>>
    BY <2>1, EmptySeq
  <2>2. CASE queue' = queue
    BY <2>2, ElementOfSeq
  <2>3. QED
    BY <2>1, <2>2
<1>3. \A d \in Deliverers : at'[d] \in EmptyHanded => mine'[d] = {}
  OBVIOUS
<1>4. \A d \in Deliverers : \A r \in mine'[d] : delivered'[r]
  OBVIOUS
<1>5. \A d, e \in Deliverers : d # e => mine'[d] \cap mine'[e] = {}
  OBVIOUS
<1>6. \A d \in Deliverers : \A r \in Held(d)' : told'[r] = 0 /\ r \notin carried'
  BY <1>1
<1>7. \A d \in Deliverers : \A i \in 1..Len(queue') : Held(d)' \cap queue'[i] = {}
  BY <1>1, <1>2
<1>8. \A i, j \in 1..Len(queue') : i # j => queue'[i] \cap queue'[j] = {}
  BY <1>2
<1>9. \A i \in 1..Len(queue') : \A r \in queue'[i] : delivered'[r] /\ told'[r] = 0 /\ r \notin carried'
  BY <1>2
<1>10. \A r \in carried' : delivered'[r] /\ told'[r] = 0
  OBVIOUS
<1>11. HandedOnce' /\ NeverResurrected'
  BY DEF HandedOnce, NeverResurrected
<1>12. ClosedNeverHanded'
  <2> SUFFICES ASSUME NEW r \in Runs, mode'[r] = "skipped"
               PROVE  delivered'[r] /\ told'[r] = 0 /\ ~Underway(r)'
    BY DEF ClosedNeverHanded
  <2>1. told[r] \in Nat
    OBVIOUS
  <2>2. told[r] = 0 /\ ~Underway(r)
    <3>1. CASE mode[r] = "skipped"
      BY <3>1 DEF ClosedNeverHanded
    <3>2. CASE ~delivered[r]
      BY <2>1, <3>2 DEF NeverResurrected, Underway
    <3>3. QED
      BY <3>1, <3>2
  <2>3. ~Underway(r)'
    BY <1>2, <2>2 DEF Underway
  <2>4. QED
    BY <2>2, <2>3 DEF ClosedNeverHanded
<1>13. QED
  BY <1>3, <1>4, <1>5, <1>6, <1>7, <1>8, <1>9, <1>10, <1>11, <1>12

LEMMA StoreFailsLetsGo ==
  ASSUME TypeOK, BootHasJob, OneHolder, StoreFails
  PROVE  LetsGo /\ UNCHANGED <<task, phase>>
<1>1. /\ UNCHANGED <<task, mode, convVars, phase, told>>
      /\ \A d \in Deliverers : /\ mine'[d] \subseteq mine[d]
                               /\ at'[d] = at[d] \/ (at'[d] = "off" /\ mine'[d] = {})
  BY StoreFailsEffect
<1>2. \A r \in Runs : delivered[r] => delivered'[r]
  <2>1. UNCHANGED delivered \/ \E r \in Runs : delivered' = [delivered EXCEPT ![r] = TRUE]
    BY StoreFailsEffect
  <2>2. QED
    BY <2>1 DEF TypeOK
<1>3. \A d \in Deliverers : at'[d] \in EmptyHanded => mine'[d] = {}
  BY <1>1 DEF OneHolder
<1>4. QED
  BY <1>1, <1>2, <1>3 DEF LetsGo, convVars

LEMMA OneHolderInit == Init => OneHolder
BY EmptySeq DEF Init, OneHolder, Held, HandedOnce, NeverResurrected, ClosedNeverHanded, Underway

LEMMA OneHolderStep ==
  ASSUME TypeOK, BootHasJob, OneHolder, TypeOK', [Next]_vars
  PROVE  OneHolder'
<1> USE DEF TypeOK, Deliverers, EmptyHanded, rowVars, convVars, procVars, bootVars
<1>1. ASSUME NEW r \in Runs, ClaimFire(r) PROVE OneHolder'
  <2>1. LetsGo
    BY <1>1 DEF LetsGo, OneHolder, ClaimFire, Goto
  <2>2. QED
    BY <2>1, LetsGoKeepsOneHolder
<1>2. ASSUME NEW r \in Runs, CreateRun(r) PROVE OneHolder'
  <2>1. LetsGo
    BY <1>2 DEF LetsGo, OneHolder, CreateRun, Goto
  <2>2. QED
    BY <2>1, LetsGoKeepsOneHolder
<1>3. ASSUME NEW r \in Runs, CreateFails(r) PROVE OneHolder'
  <2>1. LetsGo
    BY <1>3 DEF LetsGo, OneHolder, CreateFails, Goto
  <2>2. QED
    BY <2>1, LetsGoKeepsOneHolder
<1>4. ASSUME NEW r \in Runs, TimeoutClaim(r) PROVE OneHolder'
  <2>1. LetsGo
    BY <1>4 DEF LetsGo, OneHolder, TimeoutClaim, Goto
  <2>2. QED
    BY <2>1, LetsGoKeepsOneHolder
<1>5. ASSUME NEW r \in Runs, TimeoutRecord(r) PROVE OneHolder'
  <2>1. \E pc \in {"hook", "off"} : at' = [at EXCEPT ![r] = pc]
    BY <1>5 DEF TimeoutRecord, Goto
  <2>2. UNCHANGED <<delivered, mode, convVars, mine, told>>
    BY <1>5 DEF TimeoutRecord
  <2>3. at[r] = "record"
    BY <1>5 DEF TimeoutRecord
  <2>4. LetsGo
    BY <2>1, <2>2, <2>3 DEF LetsGo, OneHolder
  <2>5. QED
    BY <2>4, LetsGoKeepsOneHolder
<1>6. ASSUME NEW r \in Runs, TimeoutRecordFails(r) PROVE OneHolder'
  <2>1. LetsGo
    BY <1>6 DEF LetsGo, OneHolder, TimeoutRecordFails, Goto
  <2>2. QED
    BY <2>1, LetsGoKeepsOneHolder
<1>7. ASSUME NEW r \in Runs, NEW s \in Terminal \cup {"pending"}, RunEnds(r, s) PROVE OneHolder'
  <2>1. LetsGo
    BY <1>7 DEF LetsGo, OneHolder, RunEnds, Goto
  <2>2. QED
    BY <2>1, LetsGoKeepsOneHolder
<1>8. ASSUME NEW r \in Runs, Reply(r) PROVE OneHolder'
  <2>1. LetsGo
    BY <1>8 DEF LetsGo, OneHolder, Reply
  <2>2. QED
    BY <2>1, LetsGoKeepsOneHolder
<1>9. ASSUME NEW r \in Runs, StopRun(r) PROVE OneHolder'
  <2>1. LetsGo
    BY <1>9 DEF LetsGo, OneHolder, StopRun, Return, Goto
  <2>2. QED
    BY <2>1, LetsGoKeepsOneHolder
<1>10. ASSUME NEW r \in Runs, DeleteRun(r) PROVE OneHolder'
  <2>1. LetsGo
    BY <1>10 DEF LetsGo, OneHolder, DeleteRun
  <2>2. QED
    BY <2>1, LetsGoKeepsOneHolder
<1>11. ASSUME NEW d \in Runs \cup {Boot}, Hook(d) PROVE OneHolder'
  <2>1. at[d] = "hook" /\ mine[d] = {}
    BY <1>11 DEF Hook, OneHolder
  <2>2. UNCHANGED <<queue, carried, told>>
    BY <1>11 DEF Hook
  <2>3. /\ \A e \in Deliverers : mine'[e] \subseteq mine[e]
        /\ \E pc \in {"off", "list"} : at' = [at EXCEPT ![d] = pc]
    BY <1>11, <2>1 DEF Hook, Return, Goto
  <2>4. \/ UNCHANGED <<delivered, mode>>
        \/ \E q \in Runs : /\ ~delivered[q]
                           /\ delivered' = [delivered EXCEPT ![q] = TRUE]
                           /\ mode' = [mode EXCEPT ![q] = "skipped"]
    <3>1. CASE UNCHANGED <<task, delivered, mode>>
      BY <3>1
    <3>2. CASE \E end \in {"completed", "cancelled"} : CloseOut(Subject(d), end) /\ Claimable(Subject(d))
      <4>1. CASE Subject(d) \in Runs
        BY <3>2, <4>1 DEF CloseOut, Claimable
      <4>2. CASE Subject(d) \notin Runs
        <5>1. delivered' = delivered /\ mode' = mode
          BY <3>2, <4>2 DEF CloseOut
        <5>2. QED
          BY <5>1
      <4>3. QED
        BY <4>1, <4>2
    <3>3. QED
      BY <1>11, <3>1, <3>2 DEF Hook
  <2>5. LetsGo
    BY <2>1, <2>2, <2>3, <2>4 DEF LetsGo, OneHolder
  <2>6. QED
    BY <2>5, LetsGoKeepsOneHolder
<1>12. ASSUME NEW d \in Deliverers, FlushList(d) PROVE OneHolder'
  <2>1. at[d] = "list" /\ mine[d] = {}
    BY <1>12 DEF FlushList, OneHolder
  <2>2. UNCHANGED <<delivered, mode, convVars, told>>
    BY <1>12 DEF FlushList
  <2>3. /\ \A e \in Deliverers : mine'[e] \subseteq mine[e]
        /\ \E pc \in {"off", "conv"} : at' = [at EXCEPT ![d] = pc]
    BY <1>12, <2>1 DEF FlushList, Return, Goto
  <2>4. LetsGo
    BY <2>1, <2>2, <2>3 DEF LetsGo, OneHolder
  <2>5. QED
    BY <2>4, LetsGoKeepsOneHolder
<1>13. ASSUME NEW d \in Deliverers, FlushConv(d) PROVE OneHolder'
  <2>1. LetsGo
    BY <1>13 DEF LetsGo, OneHolder, FlushConv, Goto
  <2>2. QED
    BY <2>1, LetsGoKeepsOneHolder
<1>14. ASSUME NEW d \in Deliverers, FlushDrop(d) PROVE OneHolder'
  <2>1. LetsGo
    BY <1>14 DEF LetsGo, OneHolder, FlushDrop, CloseOut, Claimable
  <2>2. QED
    BY <2>1, LetsGoKeepsOneHolder
<1>15. ASSUME NEW d \in Deliverers, FlushClaim(d) PROVE OneHolder'
  <2>1. PICK r \in todo[d] :
          \/ UNCHANGED <<delivered, mine>>
          \/ /\ ~delivered[r]
             /\ delivered' = [delivered EXCEPT ![r] = TRUE]
             /\ mine' = [mine EXCEPT ![d] = @ \cup {r}]
    BY <1>15 DEF FlushClaim, Claimable
  <2>2. UNCHANGED <<mode, convVars, at, told>> /\ at[d] \notin EmptyHanded /\ r \in Runs
    BY <1>15 DEF FlushClaim
  <2>3. CASE UNCHANGED <<delivered, mine>>
    <3>1. LetsGo
      BY <2>2, <2>3 DEF LetsGo, OneHolder
    <3>2. QED
      BY <3>1, LetsGoKeepsOneHolder
  <2>4. CASE /\ ~delivered[r]
             /\ delivered' = [delivered EXCEPT ![r] = TRUE]
             /\ mine' = [mine EXCEPT ![d] = @ \cup {r}]
    <3>1. /\ \A e \in Deliverers : r \notin mine[e]
          /\ \A i \in 1..Len(queue) : r \notin queue[i]
          /\ r \notin carried
      BY <2>4 DEF OneHolder
    <3>2. told[r] = 0 /\ mode[r] # "skipped"
      BY <2>2, <2>4 DEF OneHolder, NeverResurrected, ClosedNeverHanded
    <3>3. \A e \in Deliverers : \A q \in mine'[e] : q \in mine[e] \/ (q = r /\ e = d)
      BY <2>4
    <3>4. \A e \in Deliverers : \A q \in Held(e)' : q \in Held(e) \/ (q = r /\ e = d)
      BY <2>2, <3>3 DEF Held
    <3>5. \A q \in Runs : delivered[q] => delivered'[q]
      BY <2>4
    <3>6. delivered'[r]
      BY <2>2, <2>4
    <3>7. \A e \in Deliverers : at'[e] \in EmptyHanded => mine'[e] = {}
      BY <2>2, <2>4, <3>3 DEF OneHolder
    <3>8. \A e \in Deliverers : \A q \in mine'[e] : delivered'[q]
      BY <3>3, <3>5, <3>6 DEF OneHolder
    <3>9. \A e, f \in Deliverers : e # f => mine'[e] \cap mine'[f] = {}
      <4> SUFFICES ASSUME NEW e \in Deliverers, NEW f \in Deliverers, e # f,
                        NEW q \in mine'[e], q \in mine'[f]
                 PROVE  FALSE
        OBVIOUS
      <4>1. \/ q \in mine[e] /\ q \in mine[f]
            \/ q = r /\ (q \in mine[e] \/ q \in mine[f] \/ e = f)
        BY <3>3
      <4>2. QED
        BY <3>1, <4>1 DEF OneHolder
    <3>10. \A e \in Deliverers : \A q \in Held(e)' : told'[q] = 0 /\ q \notin carried'
      BY <2>2, <3>1, <3>2, <3>4 DEF OneHolder
    <3>11. \A e \in Deliverers : \A i \in 1..Len(queue') : Held(e)' \cap queue'[i] = {}
      BY <2>2, <3>1, <3>4 DEF OneHolder
    <3>12. \A i, j \in 1..Len(queue') : i # j => queue'[i] \cap queue'[j] = {}
      BY <2>2 DEF OneHolder
    <3>13. \A i \in 1..Len(queue') : \A q \in queue'[i] : delivered'[q] /\ told'[q] = 0 /\ q \notin carried'
      BY <2>2, <3>5, ElementOfSeq DEF OneHolder
    <3>14. \A q \in carried' : delivered'[q] /\ told'[q] = 0
      BY <2>2, <3>5 DEF OneHolder
    <3>15. HandedOnce' /\ NeverResurrected'
      BY <2>2, <3>5 DEF OneHolder, HandedOnce, NeverResurrected
    <3>16. ClosedNeverHanded'
      BY <2>2, <3>2, <3>3, <3>5 DEF OneHolder, ClosedNeverHanded, Underway
    <3>17. QED
      BY <3>7, <3>8, <3>9, <3>10, <3>11, <3>12, <3>13, <3>14, <3>15, <3>16 DEF OneHolder
  <2>5. QED
    BY <2>1, <2>3, <2>4
<1>16. ASSUME NEW d \in Deliverers, FlushInject(d) PROVE OneHolder'
  <2>1. CASE mine[d] = {}
    <3>1. /\ UNCHANGED <<delivered, mode, queue, carried, told>>
          /\ at' = [at EXCEPT ![d] = "off"] /\ mine' = [mine EXCEPT ![d] = {}]
      BY <1>16, <2>1 DEF FlushInject, Return, Goto
    <3>2. LetsGo
      BY <3>1 DEF LetsGo, OneHolder
    <3>3. QED
      BY <3>2, LetsGoKeepsOneHolder
  <2>2. CASE mine[d] # {}
    <3>1. /\ at[d] = "rows" /\ at' = [at EXCEPT ![d] = "finish"]
          /\ queue' = Append(queue, mine[d])
          /\ UNCHANGED <<rowVars, carried, mine, told>>
      BY <1>16, <2>2 DEF FlushInject, Goto
    <3>2. queue \in Seq(SUBSET Runs) /\ mine[d] \in SUBSET Runs
      OBVIOUS
    <3>3. \A i \in 1..Len(queue') :
            \/ i = Len(queue) + 1 /\ queue'[i] = mine[d]
            \/ i \in 1..Len(queue) /\ queue'[i] = queue[i]
      BY <3>1, <3>2, AppendProperties
    <3>4. Held(d) = mine[d] /\ Held(d)' = {}
      BY <3>1 DEF Held
    <3>5. \A e \in Deliverers : e # d => Held(e)' = Held(e) /\ Held(e) \subseteq mine[e]
      BY <3>1 DEF Held
    <3>6. \A i \in 1..Len(queue) : mine[d] \cap queue[i] = {}
      BY <3>4 DEF OneHolder
    <3>7. \A r \in mine[d] : delivered[r] /\ told[r] = 0 /\ r \notin carried
      BY <3>4 DEF OneHolder
    <3>8. \A e \in Deliverers : at'[e] \in EmptyHanded => mine'[e] = {}
      BY <3>1 DEF OneHolder
    <3>9. \A e \in Deliverers : \A q \in mine'[e] : delivered'[q]
      BY <3>1 DEF OneHolder
    <3>10. \A e, f \in Deliverers : e # f => mine'[e] \cap mine'[f] = {}
      BY <3>1 DEF OneHolder
    <3>11. \A e \in Deliverers : \A q \in Held(e)' : told'[q] = 0 /\ q \notin carried'
      <4> SUFFICES ASSUME NEW e \in Deliverers, NEW q \in Held(e)'
                 PROVE  told'[q] = 0 /\ q \notin carried'
        OBVIOUS
      <4>1. e # d /\ q \in Held(e)
        BY <3>4, <3>5
      <4>2. QED
        BY <3>1, <4>1 DEF OneHolder
    <3>12. \A e \in Deliverers : \A i \in 1..Len(queue') : Held(e)' \cap queue'[i] = {}
      <4> SUFFICES ASSUME NEW e \in Deliverers, NEW i \in 1..Len(queue'), NEW q \in Held(e)', q \in queue'[i]
                 PROVE  FALSE
        OBVIOUS
      <4>1. e # d /\ q \in Held(e) /\ q \in mine[e]
        BY <3>4, <3>5
      <4>2. CASE q \in mine[d]
        BY <4>1, <4>2 DEF OneHolder
      <4>3. CASE i \in 1..Len(queue) /\ q \in queue[i]
        BY <4>1, <4>3 DEF OneHolder
      <4>4. QED
        BY <3>3, <4>2, <4>3
    <3>13. \A i, j \in 1..Len(queue') : i # j => queue'[i] \cap queue'[j] = {}
      <4> SUFFICES ASSUME NEW i \in 1..Len(queue'), NEW j \in 1..Len(queue'), i # j,
                        NEW q \in queue'[i], q \in queue'[j]
                 PROVE  FALSE
        OBVIOUS
      <4>1. \A k \in 1..Len(queue) : q \in queue[k] => q \notin mine[d]
        BY <3>6
      <4>2. CASE i \in 1..Len(queue) /\ j \in 1..Len(queue) /\ q \in queue[i] /\ q \in queue[j]
        BY <4>2 DEF OneHolder
      <4>3. QED
        BY <3>3, <4>1, <4>2
    <3>14. \A i \in 1..Len(queue') : \A q \in queue'[i] : delivered'[q] /\ told'[q] = 0 /\ q \notin carried'
      BY <3>1, <3>3, <3>7 DEF OneHolder
    <3>15. \A q \in carried' : delivered'[q] /\ told'[q] = 0
      BY <3>1 DEF OneHolder
    <3>16. HandedOnce' /\ NeverResurrected'
      BY <3>1 DEF OneHolder, HandedOnce, NeverResurrected
    <3>17. ClosedNeverHanded'
      BY <3>1, <3>3 DEF OneHolder, ClosedNeverHanded, Underway
    <3>18. QED
      BY <3>8, <3>9, <3>10, <3>11, <3>12, <3>13, <3>14, <3>15, <3>16, <3>17 DEF OneHolder
  <2>3. QED
    BY <2>1, <2>2
<1>17. ASSUME NEW d \in Deliverers, Release(d) PROVE OneHolder'
  <2>1. CASE mine[d] = {}
    <3>1. /\ UNCHANGED <<delivered, mode, queue, carried, told>>
          /\ at' = [at EXCEPT ![d] = "off"] /\ mine' = [mine EXCEPT ![d] = {}]
      BY <1>17, <2>1 DEF Release, Return, Goto
    <3>2. LetsGo
      BY <3>1 DEF LetsGo, OneHolder
    <3>3. QED
      BY <3>2, LetsGoKeepsOneHolder
  <2>2. CASE mine[d] # {}
    <3>1. PICK r \in mine[d] :
            /\ delivered' = [delivered EXCEPT ![r] = FALSE]
            /\ mode' = [mode EXCEPT ![r] = "null"]
            /\ mine' = [mine EXCEPT ![d] = @ \ {r}]
      BY <1>17, <2>2 DEF Release
    <3>2. /\ at[d] \in {"release", "read_release"}
          /\ UNCHANGED <<convVars, told, at>>
      BY <1>17, <2>2 DEF Release
    <3>3. r \in Held(d) /\ r \in Runs
      BY <3>1, <3>2 DEF Held
    <3>4. /\ told[r] = 0 /\ r \notin carried
          /\ \A i \in 1..Len(queue) : r \notin queue[i]
          /\ \A e \in Deliverers : r \in mine[e] => e = d
      BY <3>1, <3>3 DEF OneHolder
    <3>5. \A e \in Deliverers : mine'[e] \subseteq mine[e] /\ r \notin mine'[e]
      BY <3>1, <3>4
    <3>6. \A e \in Deliverers : Held(e)' \subseteq Held(e)
      BY <3>2, <3>5 DEF Held
    <3>7. \A q \in Runs : q # r => delivered'[q] = delivered[q] /\ mode'[q] = mode[q]
      BY <3>1
    <3>8. mode'[r] = "null"
      BY <3>1, <3>3
    <3>9. \A e \in Deliverers : at'[e] \in EmptyHanded => mine'[e] = {}
      BY <3>2, <3>5 DEF OneHolder
    <3>10. \A e \in Deliverers : \A q \in mine'[e] : delivered'[q]
      BY <3>5, <3>7 DEF OneHolder
    <3>11. \A e, f \in Deliverers : e # f => mine'[e] \cap mine'[f] = {}
      BY <3>5 DEF OneHolder
    <3>12. \A e \in Deliverers : \A q \in Held(e)' : told'[q] = 0 /\ q \notin carried'
      BY <3>2, <3>6 DEF OneHolder
    <3>13. \A e \in Deliverers : \A i \in 1..Len(queue') : Held(e)' \cap queue'[i] = {}
      BY <3>2, <3>6 DEF OneHolder
    <3>14. \A i, j \in 1..Len(queue') : i # j => queue'[i] \cap queue'[j] = {}
      BY <3>2 DEF OneHolder
    <3>15. \A i \in 1..Len(queue') : \A q \in queue'[i] : delivered'[q] /\ told'[q] = 0 /\ q \notin carried'
      BY <3>2, <3>4, <3>7, ElementOfSeq DEF OneHolder
    <3>16. \A q \in carried' : delivered'[q] /\ told'[q] = 0
      BY <3>2, <3>4, <3>7 DEF OneHolder
    <3>17. HandedOnce' /\ NeverResurrected'
      BY <3>2, <3>4, <3>7 DEF OneHolder, HandedOnce, NeverResurrected
    <3>18. ClosedNeverHanded'
      BY <3>2, <3>5, <3>7, <3>8 DEF OneHolder, ClosedNeverHanded, Underway
    <3>19. QED
      BY <3>9, <3>10, <3>11, <3>12, <3>13, <3>14, <3>15, <3>16, <3>17, <3>18 DEF OneHolder
  <2>3. QED
    BY <2>1, <2>2
<1>18. ASSUME NEW d \in Deliverers, FlushFinish(d) PROVE OneHolder'
  <2>1. LetsGo
    BY <1>18 DEF LetsGo, OneHolder, FlushFinish, Finish, Return, Goto
  <2>2. QED
    BY <2>1, LetsGoKeepsOneHolder
<1>19. ASSUME NEW d \in Deliverers, FlushListFails(d) PROVE OneHolder'
  <2>1. LetsGo
    BY <1>19 DEF LetsGo, OneHolder, FlushListFails, Return, Goto
  <2>2. QED
    BY <2>1, LetsGoKeepsOneHolder
<1>20. ASSUME NEW d \in Deliverers, FlushRaises(d) PROVE OneHolder'
  <2>1. LetsGo
    BY <1>20 DEF LetsGo, OneHolder, FlushRaises, Return, Goto
  <2>2. QED
    BY <2>1, LetsGoKeepsOneHolder
<1>21. ASSUME NEW d \in Deliverers, FlushInjectFails(d) PROVE OneHolder'
  <2>1. LetsGo
    BY <1>21 DEF LetsGo, OneHolder, FlushInjectFails, Goto
  <2>2. QED
    BY <2>1, LetsGoKeepsOneHolder
<1>22. ASSUME UserMessage PROVE OneHolder'
  <2>1. queue' = Append(queue, {}) /\ {} \in SUBSET Runs /\ queue \in Seq(SUBSET Runs)
    BY <1>22 DEF UserMessage
  <2>2. UNCHANGED <<rowVars, carried, procVars, told>>
    BY <1>22 DEF UserMessage
  <2>3. \A i \in 1..Len(queue') : queue'[i] = {} \/ (i \in 1..Len(queue) /\ queue'[i] = queue[i])
    BY <2>1, AppendProperties
  <2>4. \A d \in Deliverers : Held(d)' = Held(d)
    BY <2>2 DEF Held
  <2>5. \A e \in Deliverers : at'[e] \in EmptyHanded => mine'[e] = {}
    BY <2>2 DEF OneHolder
  <2>6. \A e \in Deliverers : \A q \in mine'[e] : delivered'[q]
    BY <2>2 DEF OneHolder
  <2>7. \A e, f \in Deliverers : e # f => mine'[e] \cap mine'[f] = {}
    BY <2>2 DEF OneHolder
  <2>8. \A e \in Deliverers : \A q \in Held(e)' : told'[q] = 0 /\ q \notin carried'
    BY <2>2, <2>4 DEF OneHolder
  <2>9. \A e \in Deliverers : \A i \in 1..Len(queue') : Held(e)' \cap queue'[i] = {}
    BY <2>3, <2>4 DEF OneHolder
  <2>10. \A i, j \in 1..Len(queue') : i # j => queue'[i] \cap queue'[j] = {}
    BY <2>3 DEF OneHolder
  <2>11. \A i \in 1..Len(queue') : \A q \in queue'[i] : delivered'[q] /\ told'[q] = 0 /\ q \notin carried'
    BY <2>2, <2>3 DEF OneHolder
  <2>12. \A q \in carried' : delivered'[q] /\ told'[q] = 0
    BY <2>2 DEF OneHolder
  <2>13. HandedOnce' /\ NeverResurrected'
    BY <2>2 DEF OneHolder, HandedOnce, NeverResurrected
  <2>14. ClosedNeverHanded'
    BY <2>2, <2>3 DEF OneHolder, ClosedNeverHanded, Underway
  <2>15. QED
    BY <2>5, <2>6, <2>7, <2>8, <2>9, <2>10, <2>11, <2>12, <2>13, <2>14 DEF OneHolder
<1>23. ASSUME TurnStart PROVE OneHolder'
  <2>1. /\ queue \in Seq(SUBSET Runs) /\ queue # <<>>
        /\ carried' = Head(queue) /\ queue' = Tail(queue)
    BY <1>23 DEF TurnStart
  <2>2. UNCHANGED <<rowVars, procVars, told>>
    BY <1>23 DEF TurnStart
  <2>3. 1 \in 1..Len(queue) /\ carried' = queue[1]
    BY <2>1, HeadTailProperties, EmptySeq
  <2>4. \A i \in 1..Len(queue') : i+1 \in 1..Len(queue) /\ i+1 # 1 /\ queue'[i] = queue[i+1]
    BY <2>1, HeadTailProperties
  <2>5. \A d \in Deliverers : Held(d)' = Held(d)
    BY <2>2 DEF Held
  <2>6. \A e \in Deliverers : at'[e] \in EmptyHanded => mine'[e] = {}
    BY <2>2 DEF OneHolder
  <2>7. \A e \in Deliverers : \A q \in mine'[e] : delivered'[q]
    BY <2>2 DEF OneHolder
  <2>8. \A e, f \in Deliverers : e # f => mine'[e] \cap mine'[f] = {}
    BY <2>2 DEF OneHolder
  <2>9. \A e \in Deliverers : \A q \in Held(e)' : told'[q] = 0 /\ q \notin carried'
    BY <2>2, <2>3, <2>5 DEF OneHolder
  <2>10. \A e \in Deliverers : \A i \in 1..Len(queue') : Held(e)' \cap queue'[i] = {}
    <3> SUFFICES ASSUME NEW e \in Deliverers, NEW i \in 1..Len(queue')
                 PROVE  Held(e)' \cap queue'[i] = {}
      OBVIOUS
    <3>1. Held(e) \cap queue[i+1] = {}
      BY <2>4 DEF OneHolder
    <3>2. QED
      BY <2>4, <2>5, <3>1
  <2>11. \A i, j \in 1..Len(queue') : i # j => queue'[i] \cap queue'[j] = {}
    <3> SUFFICES ASSUME NEW i \in 1..Len(queue'), NEW j \in 1..Len(queue'), i # j
                 PROVE  queue'[i] \cap queue'[j] = {}
      OBVIOUS
    <3>1. i+1 # j+1
      OBVIOUS
    <3>2. queue[i+1] \cap queue[j+1] = {}
      BY <2>4, <3>1 DEF OneHolder
    <3>3. QED
      BY <2>4, <3>2
  <2>12. \A i \in 1..Len(queue') : \A q \in queue'[i] : delivered'[q] /\ told'[q] = 0 /\ q \notin carried'
    <3> SUFFICES ASSUME NEW i \in 1..Len(queue'), NEW q \in queue'[i]
                 PROVE  delivered'[q] /\ told'[q] = 0 /\ q \notin carried'
      OBVIOUS
    <3>1. i+1 \in 1..Len(queue) /\ i+1 # 1 /\ q \in queue[i+1]
      BY <2>4
    <3>2. delivered[q] /\ told[q] = 0
      BY <3>1 DEF OneHolder
    <3>3. q \notin queue[1]
      BY <2>3, <3>1 DEF OneHolder
    <3>4. QED
      BY <2>2, <2>3, <3>2, <3>3
  <2>13. \A q \in carried' : delivered'[q] /\ told'[q] = 0
    BY <2>2, <2>3 DEF OneHolder
  <2>14. HandedOnce' /\ NeverResurrected'
    BY <2>2 DEF OneHolder, HandedOnce, NeverResurrected
  <2>15. ClosedNeverHanded'
    BY <2>2, <2>3, <2>4 DEF OneHolder, ClosedNeverHanded, Underway
  <2>16. QED
    BY <2>6, <2>7, <2>8, <2>9, <2>10, <2>11, <2>12, <2>13, <2>14, <2>15 DEF OneHolder
<1>24. ASSUME TurnBind PROVE OneHolder'
  <2>1. /\ carried' = {}
        /\ told' = [r \in Runs |-> IF r \in carried THEN told[r] + 1 ELSE told[r]]
    BY <1>24 DEF TurnBind
  <2>2. UNCHANGED <<rowVars, queue, procVars>>
    BY <1>24 DEF TurnBind
  <2>3. \A r \in Runs : r \in carried => told[r] = 0 /\ told'[r] = 1 /\ delivered[r]
    BY <2>1 DEF OneHolder
  <2>4. \A r \in Runs : r \notin carried => told'[r] = told[r]
    BY <2>1
  <2>5. \A d \in Deliverers : Held(d)' = Held(d) /\ Held(d) \subseteq Runs
    BY <2>2 DEF Held
  <2>6. \A i \in 1..Len(queue) : queue[i] \subseteq Runs
    BY ElementOfSeq
  <2>7. \A e \in Deliverers : at'[e] \in EmptyHanded => mine'[e] = {}
    BY <2>2 DEF OneHolder
  <2>8. \A e \in Deliverers : \A q \in mine'[e] : delivered'[q]
    BY <2>2 DEF OneHolder
  <2>9. \A e, f \in Deliverers : e # f => mine'[e] \cap mine'[f] = {}
    BY <2>2 DEF OneHolder
  <2>10. \A e \in Deliverers : \A q \in Held(e)' : told'[q] = 0 /\ q \notin carried'
    BY <2>1, <2>4, <2>5 DEF OneHolder
  <2>11. \A e \in Deliverers : \A i \in 1..Len(queue') : Held(e)' \cap queue'[i] = {}
    BY <2>2, <2>5 DEF OneHolder
  <2>12. \A i, j \in 1..Len(queue') : i # j => queue'[i] \cap queue'[j] = {}
    BY <2>2 DEF OneHolder
  <2>13. \A i \in 1..Len(queue') : \A q \in queue'[i] : delivered'[q] /\ told'[q] = 0 /\ q \notin carried'
    BY <2>1, <2>2, <2>4, <2>6 DEF OneHolder
  <2>14. \A q \in carried' : delivered'[q] /\ told'[q] = 0
    BY <2>1
  <2>15. HandedOnce' /\ NeverResurrected'
    <3> SUFFICES ASSUME NEW r \in Runs
                 PROVE  told'[r] <= 1 /\ (told'[r] > 0 => delivered'[r])
      BY DEF HandedOnce, NeverResurrected
    <3>1. CASE r \in carried
      BY <2>2, <2>3, <3>1
    <3>2. CASE r \notin carried
      BY <2>2, <2>4, <3>2 DEF OneHolder, HandedOnce, NeverResurrected
    <3>3. QED
      BY <3>1, <3>2
  <2>16. ClosedNeverHanded'
    BY <2>1, <2>2, <2>4 DEF OneHolder, ClosedNeverHanded, Underway
  <2>17. QED
    BY <2>7, <2>8, <2>9, <2>10, <2>11, <2>12, <2>13, <2>14, <2>15, <2>16 DEF OneHolder
<1>25. ASSUME ReadClaimed PROVE OneHolder'
  <2>1. LetsGo
    BY <1>25 DEF LetsGo, OneHolder, ReadClaimed, Return, Goto
  <2>2. QED
    BY <2>1, LetsGoKeepsOneHolder
<1>26. ASSUME ReadFinish PROVE OneHolder'
  <2>1. /\ told' = [r \in Runs |-> IF r \in mine[Turn] THEN told[r] + 1 ELSE told[r]]
        /\ mode' = [r \in Runs |-> IF r \in mine[Turn] THEN "reported" ELSE mode[r]]
        /\ at' = [at EXCEPT ![Turn] = "off"] /\ mine' = [mine EXCEPT ![Turn] = {}]
        /\ UNCHANGED <<delivered, queue, carried>>
    BY <1>26 DEF ReadFinish, Finish, Return, Goto
  <2>2. Held(Turn) = mine[Turn] /\ Held(Turn)' = {} /\ Turn \in Deliverers
    BY <1>26, <2>1 DEF ReadFinish, Held
  <2>3. /\ \A r \in mine[Turn] : delivered[r] /\ told[r] = 0 /\ r \notin carried
        /\ \A i \in 1..Len(queue) : mine[Turn] \cap queue[i] = {}
        /\ \A e \in Deliverers : e # Turn => mine[Turn] \cap mine[e] = {}
    BY <2>2 DEF OneHolder
  <2>4. \A e \in Deliverers : e # Turn => Held(e)' = Held(e) /\ Held(e) \subseteq mine[e]
    BY <2>1 DEF Held
  <2>5. \A e \in Deliverers : mine'[e] \subseteq mine[e] /\ mine'[e] \cap mine[Turn] = {}
    BY <2>1, <2>3
  <2>6. \A r \in Runs : IF r \in mine[Turn] THEN told'[r] = 1 /\ mode'[r] = "reported" /\ delivered[r]
                        ELSE told'[r] = told[r] /\ mode'[r] = mode[r]
    BY <2>1, <2>3
  <2>7. \A i \in 1..Len(queue) : queue[i] \subseteq Runs
    BY ElementOfSeq
  <2>8. \A e \in Deliverers : at'[e] \in EmptyHanded => mine'[e] = {}
    BY <2>1 DEF OneHolder
  <2>9. \A e \in Deliverers : \A q \in mine'[e] : delivered'[q]
    BY <2>1, <2>5 DEF OneHolder
  <2>10. \A e, f \in Deliverers : e # f => mine'[e] \cap mine'[f] = {}
    BY <2>5 DEF OneHolder
  <2>11. \A e \in Deliverers : \A q \in Held(e)' : told'[q] = 0 /\ q \notin carried'
    BY <2>1, <2>2, <2>3, <2>4, <2>6 DEF OneHolder
  <2>12. \A e \in Deliverers : \A i \in 1..Len(queue') : Held(e)' \cap queue'[i] = {}
    BY <2>1, <2>2, <2>4 DEF OneHolder
  <2>13. \A i, j \in 1..Len(queue') : i # j => queue'[i] \cap queue'[j] = {}
    BY <2>1 DEF OneHolder
  <2>14. \A i \in 1..Len(queue') : \A q \in queue'[i] : delivered'[q] /\ told'[q] = 0 /\ q \notin carried'
    BY <2>1, <2>3, <2>6, <2>7 DEF OneHolder
  <2>15. \A q \in carried' : delivered'[q] /\ told'[q] = 0
    BY <2>1, <2>3, <2>6 DEF OneHolder
  <2>16. HandedOnce' /\ NeverResurrected'
    BY <2>1, <2>6 DEF OneHolder, HandedOnce, NeverResurrected
  <2>17. ClosedNeverHanded'
    BY <2>1, <2>5, <2>6 DEF OneHolder, ClosedNeverHanded, Underway
  <2>18. QED
    BY <2>8, <2>9, <2>10, <2>11, <2>12, <2>13, <2>14, <2>15, <2>16, <2>17 DEF OneHolder
<1>27. ASSUME TurnEnd PROVE OneHolder'
  <2>1. LetsGo
    BY <1>27 DEF LetsGo, OneHolder, TurnEnd
  <2>2. QED
    BY <2>1, LetsGoKeepsOneHolder
<1>28. ASSUME TurnFlush PROVE OneHolder'
  <2>1. at' = [at EXCEPT ![Turn] = "list"] \/ UNCHANGED at
    BY <1>28 DEF TurnFlush, Goto
  <2>2. UNCHANGED <<delivered, mode, queue, carried, mine, told>>
    BY <1>28 DEF TurnFlush
  <2>3. Turn \in Deliverers /\ at[Turn] = "off"
    BY <1>28 DEF TurnFlush
  <2>4. LetsGo
    BY <2>1, <2>2, <2>3 DEF LetsGo, OneHolder
  <2>5. QED
    BY <2>4, LetsGoKeepsOneHolder
<1>29. ASSUME TurnReset PROVE OneHolder'
  <2>1. LetsGo
    BY <1>29 DEF LetsGo, OneHolder, TurnReset
  <2>2. QED
    BY <2>1, LetsGoKeepsOneHolder
<1>30. ASSUME ReadInbox PROVE OneHolder'
  <2>1. LetsGo
    BY <1>30 DEF LetsGo, OneHolder, ReadInbox, Goto
  <2>2. QED
    BY <2>1, LetsGoKeepsOneHolder
<1>31. ASSUME StopReading PROVE OneHolder'
  <2>1. LetsGo
    BY <1>31 DEF LetsGo, OneHolder, StopReading, Goto
  <2>2. QED
    BY <2>1, LetsGoKeepsOneHolder
<1>32. ASSUME StopFinishing PROVE OneHolder'
  <2>1. LetsGo
    BY <1>32 DEF LetsGo, OneHolder, StopFinishing, Finish, Return, Goto
  <2>2. QED
    BY <2>1, LetsGoKeepsOneHolder
<1>33. ASSUME DropOrigin PROVE OneHolder'
  <2>1. LetsGo
    BY <1>33 DEF LetsGo, OneHolder, DropOrigin, Return, Goto
  <2>2. QED
    BY <2>1, LetsGoKeepsOneHolder
<1>34. ASSUME Crash PROVE OneHolder'
  <2>1. LetsGo
    BY <1>34 DEF LetsGo, OneHolder, Crash
  <2>2. QED
    BY <2>1, LetsGoKeepsOneHolder
<1>35. ASSUME Restart PROVE OneHolder'
  <2>1. LetsGo
    BY <1>35 DEF LetsGo, OneHolder, Restart
  <2>2. QED
    BY <2>1, LetsGoKeepsOneHolder
<1>36. ASSUME SweepList PROVE OneHolder'
  <2>1. LetsGo
    BY <1>36 DEF LetsGo, OneHolder, SweepList
  <2>2. QED
    BY <2>1, LetsGoKeepsOneHolder
<1>37. ASSUME SweepNext PROVE OneHolder'
  <2>1. LetsGo
    BY <1>37 DEF LetsGo, OneHolder, SweepNext, CloseOut, Claimable, Goto
  <2>2. QED
    BY <2>1, LetsGoKeepsOneHolder
<1>38. ASSUME Reconcile PROVE OneHolder'
  <2>1. LetsGo
    BY <1>38 DEF LetsGo, OneHolder, Reconcile
  <2>2. QED
    BY <2>1, LetsGoKeepsOneHolder
<1>39. CASE UNCHANGED vars
  <2>1. LetsGo
    BY <1>39 DEF LetsGo, OneHolder, vars
  <2>2. QED
    BY <2>1, LetsGoKeepsOneHolder
<1>40. ASSUME StoreFails PROVE OneHolder'
  <2>1. LetsGo
    BY <1>40, StoreFailsLetsGo
  <2>2. QED
    BY <2>1, LetsGoKeepsOneHolder
<1>41. QED
  BY <1>1, <1>2, <1>3, <1>4, <1>5, <1>6, <1>7, <1>8, <1>9, <1>10, <1>11, <1>12, <1>13, <1>14, <1>15, <1>16, <1>17, <1>18, <1>19, <1>20, <1>21, <1>22, <1>23, <1>24, <1>25, <1>26, <1>27, <1>28, <1>29, <1>30, <1>31, <1>32, <1>33, <1>34, <1>35, <1>36, <1>37, <1>38, <1>39, <1>40
     DEF StoreFails, Next, RunStep, Flush, FlushFault, TurnStep, BootStep

LEMMA Inductive == Spec => [](TypeOK /\ OneHolder)
<1>1. TypeOK /\ BootHasJob /\ [Next]_vars => (TypeOK /\ BootHasJob)'
  BY TypeStep, BootJobStep
<1>2. TypeOK /\ BootHasJob /\ OneHolder /\ TypeOK' /\ [Next]_vars => OneHolder'
  BY OneHolderStep
<1>3. QED
  BY TypeInit, OneHolderInit, <1>1, <1>2, PTL DEF Spec

\* Exactly once, its at-most-once half: no result is handed to the origin's agent
\* twice, for any number of runs and any number of crashes, stops and failures.
THEOREM HandedOnceAlways == Spec => []HandedOnce
<1>1. OneHolder => HandedOnce
  BY DEF OneHolder
<1>2. QED
  BY Inductive, <1>1, PTL

\* A result the agent has seen stays claimed, so no flush, read or boot sweep
\* can find it in the inbox again.
THEOREM NeverResurrectedAlways == Spec => []NeverResurrected
<1>1. OneHolder => NeverResurrected
  BY DEF OneHolder
<1>2. QED
  BY Inductive, <1>1, PTL

\* A result that was closed out unreported never reaches the agent and is in
\* nobody's hands.
THEOREM ClosedNeverHandedAlways == Spec => []ClosedNeverHanded
<1>1. OneHolder => ClosedNeverHanded
  BY DEF OneHolder
<1>2. QED
  BY Inductive, <1>1, PTL
=============================================================================
