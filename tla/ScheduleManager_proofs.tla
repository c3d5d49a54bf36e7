----------------------- MODULE ScheduleManager_proofs -----------------------
(***************************************************************************)
(* Safety of ScheduleManager, for any subscriptions, any rules, any        *)
(* horizon and any faults, as often as Quota allows.                       *)
(***************************************************************************)
EXTENDS ScheduleManager, WellFoundedInduction, TLAPS

-----------------------------------------------------------------------------
(* Recurrences                                                             *)

\* A set of numbers that is not empty has a first one.
LEMMA FirstOf ==
  ASSUME NEW times \in SUBSET Nat, times # {}
  PROVE  \E t \in times : \A u \in times : t <= u
<1> DEFINE R == {p \in Nat \X Nat : p[1] < p[2]}
<1>1. IsWellFoundedOn(R, Nat)
  <2>1. R = OpToRel(<, Nat)
    BY DEF OpToRel
  <2>2. QED
    BY <2>1, NatLessThanWellFounded
<1>2. PICK t \in times : \A u \in times : ~(<<u, t>> \in R)
  <2> HIDE DEF R
  <2> QED BY <1>1, WFMin
<1>3. SUFFICES ASSUME NEW u \in times, ~(t <= u)
               PROVE  FALSE
  OBVIOUS
<1>4. t \in Nat /\ u \in Nat /\ u < t
  BY <1>3
<1>5. <<u, t>> \in R
  BY <1>4
<1>6. QED
  BY <1>2, <1>5

\* So the searches of recurrence.py return an instant of the rule, or nothing.
LEMMA EarliestIn ==
  ASSUME NEW times \in SUBSET Nat
  PROVE  /\ Earliest(times) \in Nat
         /\ Earliest(times) # 0 => Earliest(times) \in times
<1>1. CASE times = {}
  BY <1>1 DEF Earliest
<1>2. CASE times # {}
  BY <1>2, FirstOf DEF Earliest
<1>3. QED
  BY <1>1, <1>2

\* What a rule's searches return: an instant, and a later one than the search
\* started from (next_occurrence_after).
LEMMA Searches ==
  ASSUME NEW rule \in Rules \cup {NoRule}, NEW t \in Nat
  PROVE  /\ Seed(rule, t) \in Nat
         /\ NextAfter(rule, t) \in Nat
         /\ NextAfter(rule, t) # 0 => NextAfter(rule, t) > t
<1>1. rule.start \in Nat /\ rule.until \in Nat
  BY RulesAssumption, HorizonAssumption DEF RuleType, NoRule
<1>2. Occurrences(rule) \in SUBSET Nat
  BY <1>1 DEF Occurrences
<1>3. Seed(rule, t) \in Nat
  BY <1>2, EarliestIn DEF Seed
<1>4. {o \in Occurrences(rule) : o > t} \in SUBSET Nat
  BY <1>2
<1>5. /\ NextAfter(rule, t) \in Nat
      /\ NextAfter(rule, t) # 0 => NextAfter(rule, t) > t
  BY <1>4, EarliestIn DEF NextAfter
<1>6. QED
  BY <1>3, <1>5

-----------------------------------------------------------------------------
(* Types                                                                   *)

RowType == [status : { "absent", "active", "completed", "paused",
                       "cancelled", "deleted" },
            rule : Rules \cup {NoRule}, next : Nat, task : BOOLEAN, gen : Nat]

EntryType == [at : Nat, seq : Nat, sub : Subs]

RowsTyped ==
  /\ row \in [Subs -> RowType]
  /\ \A s \in Subs : row[s].status = "active" => row[s].next # 0

ManagerTyped == /\ \A e \in heap : e \in EntryType
                /\ latest \in [Subs -> Nat] /\ seq \in Nat

RestTyped == /\ feature \in BOOLEAN
             /\ loop \in {"down", "wait", "dispatch"} /\ now \in 1..Horizon
             /\ last \in [Subs -> FireType] /\ spent \in [Faults -> Nat]

LEMMA TypeParts == TypeOK <=> RowsTyped /\ ManagerTyped /\ RestTyped
BY DEF TypeOK, RowsTyped, RowType, ManagerTyped, EntryType, RestTyped

\* A fault is counted, and the store's counter never goes back.
LEMMA Spending ==
  ASSUME NEW fs, Spend(fs), spent \in [Faults -> Nat]
  PROVE  /\ spent' \in [Faults -> Nat]
         /\ spent'["store"] = 0 => spent["store"] = 0 /\ "store" \notin fs
<1>1. \A f \in Faults : spent[f] \in Nat
  OBVIOUS
<1>2. spent' = [f \in Faults |-> IF f \in fs THEN spent[f] + 1 ELSE spent[f]]
  BY DEF Spend
<1>3. spent' \in [Faults -> Nat]
  BY <1>1, <1>2
<1>4. "store" \in Faults
  BY DEF Faults
<1>5. spent'["store"] = IF "store" \in fs THEN spent["store"] + 1 ELSE spent["store"]
  BY <1>2, <1>4
<1>6. QED
  BY <1>1, <1>3, <1>4, <1>5

\* The manager's operations keep its types.
LEMMA ArmTyped ==
  ASSUME ManagerTyped, NEW s \in Subs, NEW at \in Nat, Arm(s, at)
  PROVE  ManagerTyped'
BY DEF ManagerTyped, EntryType, Arm

LEMMA DisarmTyped ==
  ASSUME ManagerTyped, NEW subs, Disarm(subs)
  PROVE  ManagerTyped'
BY DEF ManagerTyped, EntryType, Disarm

LEMMA ArmAllTyped ==
  ASSUME ManagerTyped, RowsTyped, NEW subs \in SUBSET Subs, ArmAll(subs)
  PROVE  ManagerTyped'
BY DEF ManagerTyped, RowsTyped, RowType, EntryType, ArmAll

LEMMA RefreshTyped ==
  ASSUME ManagerTyped, NEW s \in Subs, NEW r \in RowType, Refresh(s, r)
  PROVE  ManagerTyped'
<1>1. CASE Arm(s, r.next)
  <2>1. r.next \in Nat
    BY DEF RowType
  <2>2. QED
    BY <1>1, <2>1, ArmTyped
<1>2. CASE Disarm({s})
  BY <1>2, DisarmTyped
<1>3. QED
  BY <1>1, <1>2 DEF Refresh

LEMMA WriteTyped ==
  ASSUME TypeOK, NEW s \in Subs, NEW r \in RowType, NEW f, Write(s, r, f),
         r.status = "active" => r.next # 0,
         UNCHANGED <<feature, loop, now, last>>
  PROVE  TypeOK'
<1>1. RowsTyped /\ ManagerTyped /\ RestTyped
  BY TypeParts
<1>2. RowsTyped'
  <2>1. row' = [row EXCEPT ![s] = r]
    BY DEF Write
  <2>2. QED
    BY <1>1, <2>1 DEF RowsTyped
<1>3. ManagerTyped'
  <2>1. CASE Refresh(s, r)
    BY <1>1, <2>1, RefreshTyped
  <2>2. CASE UNCHANGED manager
    BY <1>1, <2>2 DEF ManagerTyped, manager
  <2>3. QED
    BY <2>1, <2>2 DEF Write
<1>4. spent' \in [Faults -> Nat]
  BY <1>1, Spending DEF Write, RestTyped
<1>5. RestTyped'
  BY <1>1, <1>4 DEF RestTyped
<1>6. QED
  BY <1>2, <1>3, <1>5, TypeParts, PTL

\* The instants of an edit, of a fire and of the clock.
LEMMA Instants ==
  ASSUME TypeOK, NEW s \in Subs
  PROVE  /\ now \in Nat /\ now # 0 /\ row[s] \in RowType
         /\ \A rule \in Rules \cup {NoRule} : Seed(rule, now) \in Nat
         /\ AfterFire(row[s]) \in Nat
         /\ AfterFire(row[s]) # 0 => AfterFire(row[s]) > row[s].next /\ AfterFire(row[s]) > now
<1>1. now \in Nat /\ now # 0 /\ row[s] \in RowType
  BY HorizonAssumption DEF TypeOK, RowType
<1>2. /\ row[s].rule \in Rules \cup {NoRule} /\ row[s].next \in Nat
  BY <1>1 DEF RowType
<1>3. \A rule \in Rules \cup {NoRule} : Seed(rule, now) \in Nat
  BY <1>1, Searches
<1>4. DEFINE t == IF row[s].next >= now THEN row[s].next ELSE now
<1>5. t \in Nat /\ t >= row[s].next /\ t >= now
  BY <1>1, <1>2
<1>6. AfterFire(row[s]) = NextAfter(row[s].rule, t)
  BY DEF AfterFire
<1>7. /\ NextAfter(row[s].rule, t) \in Nat
      /\ NextAfter(row[s].rule, t) # 0 => NextAfter(row[s].rule, t) > t
  <2> HIDE DEF t
  <2> QED BY <1>2, <1>5, Searches
<1>8. QED
  <2> HIDE DEF t
  <2> QED BY <1>1, <1>2, <1>3, <1>5, <1>6, <1>7

\* A row after an edit and after a change of status.
EditedRow(s, rule) ==
  LET next == Seed(rule, now) IN
  [row[s] EXCEPT !.rule = rule, !.next = next, !.gen = @ + 1,
                 !.status = IF @ = "cancelled" THEN @
                            ELSE IF next # 0 THEN "active" ELSE "completed"]

SetRow(s, st) ==
  LET next == IF st = "active" THEN Seed(row[s].rule, now) ELSE 0 IN
  [row[s] EXCEPT !.next = next, !.gen = @ + 1,
                 !.status = IF st = "active" /\ next = 0 THEN "completed" ELSE st]

LEMMA EditedTyped ==
  ASSUME TypeOK, NEW s \in Subs, NEW rule \in Rules
  PROVE  /\ EditedRow(s, rule) \in RowType
         /\ EditedRow(s, rule).status = "active" => EditedRow(s, rule).next # 0
         /\ EditedRow(s, rule).gen = row[s].gen + 1
         /\ EditedRow(s, rule).status \in {row[s].status, "active", "completed"}
<1>1. row[s] \in RowType /\ Seed(rule, now) \in Nat
  BY Instants
<1>2. DEFINE n == Seed(rule, now)
             t == IF row[s].status = "cancelled" THEN "cancelled"
                  ELSE IF n # 0 THEN "active" ELSE "completed"
<1>3. EditedRow(s, rule) =
        [row[s] EXCEPT !.rule = rule, !.next = n, !.gen = row[s].gen + 1, !.status = t]
  BY DEF EditedRow
<1>4. /\ n \in Nat /\ row[s].gen + 1 \in Nat /\ row[s].task \in BOOLEAN
      /\ t \in {row[s].status, "active", "completed"}
      /\ t \in { "absent", "active", "completed", "paused", "cancelled", "deleted" }
      /\ t = "active" => n # 0
  <2> HIDE DEF n
  <2> QED BY <1>1 DEF RowType, n
<1>5. /\ EditedRow(s, rule) \in RowType /\ EditedRow(s, rule).next = n
      /\ EditedRow(s, rule).gen = row[s].gen + 1 /\ EditedRow(s, rule).status = t
  <2> DEFINE g == row[s].gen + 1
  <2> HIDE DEF n, t, g
  <2>1. rule \in Rules \cup {NoRule}
    OBVIOUS
  <2>2. row[s] \in RowType /\ n \in Nat /\ g \in Nat
    BY <1>1, <1>4 DEF g
  <2>3. QED
    BY <1>3, <1>4, <2>1, <2>2 DEF g, RowType
<1>6. QED
  <2> HIDE DEF n, t
  <2> QED BY <1>4, <1>5

LEMMA SetTyped ==
  ASSUME TypeOK, NEW s \in Subs, NEW st \in {"active", "paused", "cancelled"}
  PROVE  /\ SetRow(s, st) \in RowType
         /\ SetRow(s, st).status = "active" => SetRow(s, st).next # 0
         /\ SetRow(s, st).gen = row[s].gen + 1
         /\ SetRow(s, st).status \in {"active", "paused", "cancelled", "completed"}
<1>1. row[s] \in RowType /\ row[s].rule \in Rules \cup {NoRule}
  BY Instants DEF RowType
<1>2. Seed(row[s].rule, now) \in Nat
  BY <1>1, Instants
<1>3. DEFINE n == IF st = "active" THEN Seed(row[s].rule, now) ELSE 0
             t == IF st = "active" /\ n = 0 THEN "completed" ELSE st
<1>4. SetRow(s, st) = [row[s] EXCEPT !.next = n, !.gen = row[s].gen + 1, !.status = t]
  BY DEF SetRow
<1>5. /\ n \in Nat /\ row[s].gen + 1 \in Nat /\ row[s].task \in BOOLEAN
      /\ t \in {"active", "paused", "cancelled", "completed"}
      /\ t = "active" => n # 0
  BY <1>1, <1>2 DEF RowType
<1>6. /\ SetRow(s, st) \in RowType /\ SetRow(s, st).next = n
      /\ SetRow(s, st).gen = row[s].gen + 1 /\ SetRow(s, st).status = t
  <2> DEFINE g == row[s].gen + 1
  <2> HIDE DEF n, t, g
  <2>1. t \in { "absent", "active", "completed", "paused", "cancelled", "deleted" }
    BY <1>5
  <2>2. row[s] \in RowType /\ n \in Nat /\ g \in Nat
    BY <1>1, <1>5 DEF g
  <2>3. QED
    BY <1>4, <1>5, <2>1, <2>2 DEF g, RowType
<1>7. QED
  <2> HIDE DEF n, t
  <2> QED BY <1>5, <1>6

\* What a fire leaves of the heap is some of it.
LEMMA AdvanceTyped ==
  ASSUME TypeOK, NEW e \in heap, Advance(e.sub, e)
  PROVE  RowsTyped' /\ ManagerTyped'
<1>1. e.sub \in Subs /\ RowsTyped /\ ManagerTyped /\ row[e.sub] \in RowType
  BY TypeParts, Instants DEF ManagerTyped, EntryType
<1>2. DEFINE next == AfterFire(row[e.sub])
<1>3. next \in Nat
  BY <1>1, Instants
<1>4. row' = [row EXCEPT ![e.sub].next = next,
                         ![e.sub].status = IF next = 0 THEN "completed" ELSE @]
  BY DEF Advance
<1>5. RowsTyped'
  <2> HIDE DEF next
  <2> QED BY <1>1, <1>3, <1>4 DEF RowsTyped, RowType
<1>6. Below(e) \subseteq heap
  BY DEF Below
<1>7. ManagerTyped'
  <2>1. CASE next # 0
    <3>1. /\ seq' = seq + 1 /\ latest' = [latest EXCEPT ![e.sub] = seq + 1]
          /\ heap' = Below(e) \cup {[at |-> next, seq |-> seq + 1, sub |-> e.sub]}
      BY <2>1 DEF Advance
    <3>2. QED
      <4> HIDE DEF next
      <4> QED BY <1>1, <1>3, <1>6, <3>1 DEF ManagerTyped, EntryType
  <2>2. CASE next = 0
    <3>1. heap' = Below(e) /\ latest' = [latest EXCEPT ![e.sub] = 0] /\ seq' = seq
      BY <2>2 DEF Advance
    <3>2. QED
      BY <1>1, <1>6, <3>1 DEF ManagerTyped
  <2>3. QED
    BY <2>1, <2>2
<1>8. QED
  BY <1>5, <1>7

LEMMA ConsumeTyped ==
  ASSUME ManagerTyped, NEW e \in heap, Consume(e.sub, e)
  PROVE  ManagerTyped'
<1>1. Below(e) \subseteq heap
  BY DEF Below
<1>2. QED
  BY <1>1 DEF ManagerTyped, EntryType, Consume

-----------------------------------------------------------------------------
(* Type correctness                                                        *)

LEMMA TypeInit == Init => TypeOK
<1> SUFFICES ASSUME Init PROVE TypeOK
  OBVIOUS
<1>1. Absent \in RowType /\ NoFire \in FireType
  BY DEF Absent, RowType, NoRule, NoFire, FireType
<1>2. Absent.status # "active"
  BY DEF Absent
<1>3. RowsTyped
  BY <1>1, <1>2 DEF Init, RowsTyped
<1>4. ManagerTyped
  BY DEF Init, ManagerTyped
<1>5. RestTyped
  BY <1>1, HorizonAssumption DEF Init, RestTyped
<1>6. QED
  BY <1>3, <1>4, <1>5, TypeParts

LEMMA TypeStep ==
  ASSUME TypeOK, Next
  PROVE  TypeOK'
<1>0. RowsTyped /\ ManagerTyped /\ RestTyped
  BY TypeParts
<1>1. ASSUME NEW s \in Subs, NEW rule \in Rules, NEW asked \in BOOLEAN, Create(s, rule, asked)
      PROVE  TypeOK'
  <2> DEFINE next == Seed(rule, now)
             r == [status |-> IF next # 0 THEN "active" ELSE "completed",
                   rule |-> rule, next |-> next, gen |-> 1,
                   task |-> asked /\ next # 0 /\ ~Recurs(rule)]
  <2>1. next \in Nat
    BY Instants
  <2>2. r \in RowType /\ (r.status = "active" => r.next # 0)
    <3> HIDE DEF next
    <3>1. (asked /\ next # 0 /\ ~Recurs(rule)) \in BOOLEAN
      OBVIOUS
    <3>2. QED
      BY <2>1, <3>1 DEF RowType
  <2>3. row' = [row EXCEPT ![s] = r]
    BY <1>1 DEF Create
  <2>4. RowsTyped'
    <3> HIDE DEF r
    <3> QED BY <1>0, <2>2, <2>3 DEF RowsTyped
  <2>5. ManagerTyped'
    <3>1. CASE Arm(s, next)
      <4> HIDE DEF next
      <4> QED BY <1>0, <2>1, <3>1, ArmTyped
    <3>2. CASE UNCHANGED manager
      BY <1>0, <3>2 DEF ManagerTyped, manager
    <3>3. QED
      BY <1>1, <3>1, <3>2 DEF Create
  <2>6. RestTyped'
    BY <1>0, <1>1 DEF RestTyped, Create
  <2>7. QED
    BY <2>4, <2>5, <2>6, TypeParts, PTL
<1>2. ASSUME NEW s \in Subs, NEW rule \in Rules, Edit(s, rule)
      PROVE  TypeOK'
  <2>1. Write(s, EditedRow(s, rule), "edit") /\ UNCHANGED <<feature, loop, now, last>>
    BY <1>2 DEF Edit, EditedRow
  <2>2. QED
    BY <2>1, EditedTyped, WriteTyped
<1>3. ASSUME NEW s \in Subs, NEW st \in {"active", "paused", "cancelled"}, SetStatus(s, st)
      PROVE  TypeOK'
  <2>1. Write(s, SetRow(s, st), "status") /\ UNCHANGED <<feature, loop, now, last>>
    BY <1>3 DEF SetStatus, SetRow
  <2>2. QED
    BY <2>1, SetTyped, WriteTyped
<1>4. ASSUME NEW s \in Subs, Delete(s)
      PROVE  TypeOK'
  <2>1. [Absent EXCEPT !.status = "deleted"] \in RowType
    BY DEF Absent, RowType, NoRule
  <2>2. RowsTyped'
    BY <1>0, <1>4, <2>1 DEF Delete, RowsTyped, Absent
  <2>3. ManagerTyped'
    BY <1>0, <1>4, DisarmTyped DEF Delete
  <2>4. spent' \in [Faults -> Nat]
    BY <1>0, <1>4, Spending DEF Delete, RestTyped
  <2>5. RestTyped'
    BY <1>0, <1>4, <2>4 DEF Delete, RestTyped
  <2>6. QED
    BY <2>2, <2>3, <2>5, TypeParts, PTL
<1>5. CASE Toggle
  <2>1. RowsTyped'
    BY <1>0, <1>5 DEF Toggle, RowsTyped
  <2>2. ManagerTyped'
    <3>1. CASE UNCHANGED manager
      BY <1>0, <3>1 DEF ManagerTyped, manager
    <3>2. QED
      BY <1>0, <1>5, <3>1, ArmAllTyped, DisarmTyped DEF Toggle
  <2>3. spent' \in [Faults -> Nat]
    BY <1>0, <1>5, Spending DEF Toggle, RestTyped
  <2>4. RestTyped'
    BY <1>0, <1>5, <2>3 DEF Toggle, RestTyped
  <2>5. QED
    BY <2>1, <2>2, <2>4, TypeParts, PTL
<1>6. ASSUME NEW e \in Due, Fire(e)
      PROVE  TypeOK'
  <2>1. e \in heap /\ e.sub \in Subs /\ row[e.sub] \in RowType
    BY <1>0, Instants DEF Due, ManagerTyped, EntryType
  <2>2. RowsTyped' /\ ManagerTyped'
    BY <1>6, <2>1, AdvanceTyped DEF Fire
  <2>3. [gen |-> row[e.sub].gen, occ |-> row[e.sub].next, at |-> now] \in FireType
    BY <1>0, <2>1, Instants DEF RowType, FireType
  <2>4. RestTyped'
    BY <1>0, <1>6, <2>3 DEF Fire, RestTyped
  <2>5. QED
    BY <2>2, <2>4, TypeParts, PTL
<1>7. ASSUME NEW e \in Due, FireNothing(e)
      PROVE  TypeOK'
  <2>1. e \in heap
    BY DEF Due
  <2>2. RowsTyped'
    BY <1>0, <1>7 DEF FireNothing, RowsTyped
  <2>3. ManagerTyped'
    BY <1>0, <1>7, <2>1, ConsumeTyped DEF FireNothing
  <2>4. spent' \in [Faults -> Nat]
    BY <1>0, <1>7, Spending DEF FireNothing, RestTyped
  <2>5. RestTyped'
    BY <1>0, <1>7, <2>4 DEF FireNothing, RestTyped
  <2>6. QED
    BY <2>2, <2>3, <2>5, TypeParts, PTL
<1>8. CASE EndDispatch
  BY <1>8 DEF EndDispatch, manager, TypeOK
<1>9. CASE Tick
  <2>1. now' \in 1..Horizon
    BY <1>0, <1>9, HorizonAssumption DEF Tick, RestTyped
  <2>2. QED
    BY <1>9, <2>1 DEF Tick, manager, TypeOK
<1>10. CASE Crash
  <2>1. spent' \in [Faults -> Nat]
    BY <1>0, <1>10, Spending DEF Crash, RestTyped
  <2>2. QED
    BY <1>10, <2>1 DEF Crash, TypeOK
<1>11. CASE Boot
  <2>1. RowsTyped'
    BY <1>0, <1>11 DEF Boot, RowsTyped
  <2>2. ManagerTyped'
    <3>1. CASE UNCHANGED manager
      BY <1>0, <3>1 DEF ManagerTyped, manager
    <3>2. QED
      BY <1>0, <1>11, <3>1, ArmAllTyped DEF Boot
  <2>3. spent' \in [Faults -> Nat]
    BY <1>0, <1>11, Spending DEF Boot, RestTyped
  <2>4. RestTyped'
    BY <1>0, <1>11, <2>3 DEF Boot, RestTyped
  <2>5. QED
    BY <2>1, <2>2, <2>4, TypeParts, PTL
<1>12. QED
  BY <1>1, <1>2, <1>3, <1>4, <1>5, <1>6, <1>7, <1>8, <1>9, <1>10, <1>11 DEF Next

LEMMA TypeStutter ==
  ASSUME TypeOK, UNCHANGED vars
  PROVE  TypeOK'
BY DEF TypeOK, vars, manager

\* Every variable keeps its type, and an active row has a time to fire at: no
\* sequence of edits, fires and restarts stores an active schedule that cannot
\* come due (create_event, update_event, set_status, claim_one_shot).
THEOREM TypeCorrect == Spec => []TypeOK
<1>1. TypeOK /\ [Next]_vars => TypeOK'
  BY TypeStep, TypeStutter
<1>2. QED
  BY TypeInit, <1>1, PTL DEF Spec

-----------------------------------------------------------------------------
(* The heap and the rows                                                   *)

\* Entries are numbered in the order they are pushed, from 1.
Numbered == /\ \A e \in heap : 0 < e.seq /\ e.seq <= seq
            /\ \A s \in Subs : latest[s] <= seq

DownIsEmpty == loop = "down" => heap = {}

Wanted(s) == row[s].status = "active" /\ row[s].next # 0 /\ feature

\* What belongs in the heap is in it, and nothing else is fresh.
Agree ==
  /\ \A s \in Subs : Wanted(s) => [at |-> row[s].next, seq |-> latest[s], sub |-> s] \in heap
  /\ \A e \in heap : Fresh(e) => Wanted(e.sub) /\ e.at = row[e.sub].next

Matched == loop # "down" /\ spent["store"] = 0 => Agree

\* Fresh entries of one subscription that agree with its row are one entry.
LEMMA AgreeIsMatch ==
  ASSUME ManagerTyped, Matched
  PROVE  HeapMatchesRows
<1> SUFFICES ASSUME loop # "down", spent["store"] = 0, NEW s \in Subs
             PROVE  LET armed == {e \in heap : e.sub = s /\ Fresh(e)} IN
                    IF row[s].status = "active" /\ row[s].next # 0 /\ feature
                    THEN \E e \in armed : armed = {e} /\ e.at = row[s].next
                    ELSE armed = {}
  BY DEF HeapMatchesRows
<1> DEFINE armed == {e \in heap : e.sub = s /\ Fresh(e)}
           one   == [at |-> row[s].next, seq |-> latest[s], sub |-> s]
<1>1. Agree
  BY DEF Matched
<1>2. \A e \in armed : Wanted(s) /\ e = one
  <2> SUFFICES ASSUME NEW e \in armed PROVE Wanted(s) /\ e = one
    OBVIOUS
  <2>1. e \in heap /\ e.sub = s /\ e.seq = latest[s]
    BY DEF Fresh
  <2>2. Wanted(s) /\ e.at = row[s].next
    BY <1>1, <2>1 DEF Agree, Fresh
  <2>3. e \in EntryType
    BY <2>1 DEF ManagerTyped
  <2>4. e = one
    BY <2>1, <2>2, <2>3 DEF EntryType
  <2>5. QED
    BY <2>2, <2>4
<1>3. CASE Wanted(s)
  <2>1. one \in armed
    BY <1>1, <1>3 DEF Agree, Fresh
  <2>2. armed = {one} /\ one.at = row[s].next
    BY <1>2, <2>1
  <2>3. QED
    BY <1>3, <2>1, <2>2 DEF Wanted
<1>4. CASE ~Wanted(s)
  <2>1. armed = {}
    BY <1>2, <1>4
  <2>2. QED
    BY <1>4, <2>1 DEF Wanted
<1>5. QED
  BY <1>3, <1>4

\* Numbering survives every operation.
LEMMA ArmNumbered ==
  ASSUME ManagerTyped, Numbered, NEW s \in Subs, NEW at, Arm(s, at)
  PROVE  Numbered'
BY DEF ManagerTyped, EntryType, Numbered, Arm

LEMMA DisarmNumbered ==
  ASSUME ManagerTyped, Numbered, NEW subs, Disarm(subs)
  PROVE  Numbered'
BY DEF ManagerTyped, EntryType, Numbered, Disarm

LEMMA ArmAllNumbered ==
  ASSUME ManagerTyped, Numbered, NEW subs \in SUBSET Subs, ArmAll(subs)
  PROVE  Numbered'
BY DEF ManagerTyped, EntryType, Numbered, ArmAll

LEMMA AdvanceNumbered ==
  ASSUME ManagerTyped, Numbered, NEW e \in heap, Advance(e.sub, e)
  PROVE  Numbered'
<1>1. Below(e) \subseteq heap /\ e.sub \in Subs
  BY DEF Below, ManagerTyped, EntryType
<1>2. DEFINE next == AfterFire(row[e.sub])
<1>3. CASE next # 0
  <2>1. /\ seq' = seq + 1 /\ latest' = [latest EXCEPT ![e.sub] = seq + 1]
        /\ heap' = Below(e) \cup {[at |-> next, seq |-> seq + 1, sub |-> e.sub]}
    BY <1>3 DEF Advance
  <2>2. QED
    <3> HIDE DEF next
    <3> QED BY <1>1, <2>1 DEF ManagerTyped, EntryType, Numbered
<1>4. CASE next = 0
  <2>1. heap' = Below(e) /\ latest' = [latest EXCEPT ![e.sub] = 0] /\ seq' = seq
    BY <1>4 DEF Advance
  <2>2. QED
    BY <1>1, <2>1 DEF ManagerTyped, EntryType, Numbered
<1>5. QED
  BY <1>3, <1>4

LEMMA ConsumeNumbered ==
  ASSUME ManagerTyped, Numbered, NEW e \in heap, Consume(e.sub, e)
  PROVE  Numbered'
<1>1. Below(e) \subseteq heap
  BY DEF Below
<1>2. QED
  BY <1>1 DEF ManagerTyped, EntryType, Numbered, Consume

\* A fresh entry takes the place of whatever the row had.
LEMMA ArmAgrees ==
  ASSUME ManagerTyped, Numbered, Agree, NEW s \in Subs, Arm(s, row'[s].next),
         row'[s].status = "active", row'[s].next # 0, feature, feature' = feature,
         \A u \in Subs : u # s => row'[u] = row[u]
  PROVE  Agree'
<1> DEFINE new == [at |-> row'[s].next, seq |-> seq + 1, sub |-> s]
<1>1. /\ heap' = heap \cup {new}
      /\ \A u \in Subs : latest'[u] = IF u = s THEN seq + 1 ELSE latest[u]
  BY DEF Arm, ManagerTyped
<1>2. \A u \in Subs : Wanted(u)' => [at |-> row'[u].next, seq |-> latest'[u], sub |-> u] \in heap'
  BY <1>1 DEF Agree, Wanted
<1>3. ASSUME NEW e \in heap', Fresh(e)'
      PROVE  Wanted(e.sub)' /\ e.at = row'[e.sub].next
  <2>1. CASE e = new
    BY <2>1 DEF Wanted
  <2>2. CASE e # new
    <3>1. e \in heap /\ e.sub \in Subs /\ e.seq \in Nat /\ e.seq <= seq /\ seq \in Nat
      BY <1>1, <2>2 DEF Numbered, ManagerTyped, EntryType
    <3>2. e.sub # s
      BY <1>1, <1>3, <3>1 DEF Fresh
    <3>3. Fresh(e)
      BY <1>1, <1>3, <3>1, <3>2 DEF Fresh
    <3>4. QED
      BY <3>1, <3>2, <3>3 DEF Agree, Wanted
  <2>3. QED
    BY <2>1, <2>2
<1>4. QED
  BY <1>2, <1>3 DEF Agree

\* A subscription that is disarmed has no fresh entry.
LEMMA DisarmAgrees ==
  ASSUME ManagerTyped, Numbered, Agree, NEW subs \in SUBSET Subs, Disarm(subs),
         \A s \in subs : ~(Wanted(s)'),
         \A u \in Subs : u \notin subs => row'[u] = row[u],
         feature' = feature
  PROVE  Agree'
<1>1. /\ heap' = heap
      /\ \A u \in Subs : latest'[u] = IF u \in subs THEN 0 ELSE latest[u]
  BY DEF Disarm, ManagerTyped
<1>2. \A u \in Subs : Wanted(u)' => [at |-> row'[u].next, seq |-> latest'[u], sub |-> u] \in heap'
  BY <1>1 DEF Agree, Wanted
<1>3. ASSUME NEW e \in heap', Fresh(e)'
      PROVE  Wanted(e.sub)' /\ e.at = row'[e.sub].next
  <2>1. e \in heap /\ e.sub \in Subs /\ e.seq \in Nat /\ 0 < e.seq
    BY <1>1 DEF Numbered, ManagerTyped, EntryType
  <2>2. e.sub \notin subs
    BY <1>1, <1>3, <2>1 DEF Fresh
  <2>3. Fresh(e)
    BY <1>1, <1>3, <2>1, <2>2 DEF Fresh
  <2>4. QED
    BY <2>1, <2>2, <2>3 DEF Agree, Wanted
<1>4. QED
  BY <1>2, <1>3 DEF Agree

\* Wholesale arming puts the heap right whatever it held.
LEMMA ArmAllAgrees ==
  ASSUME ManagerTyped, Numbered, ArmAll(Subs), feature', row' = row
  PROVE  Agree'
<1> DEFINE on == {s \in Subs : Runnable(row[s])}
<1>1. /\ heap' = heap \cup {[at |-> row[s].next, seq |-> seq + 1, sub |-> s] : s \in on}
      /\ \A u \in Subs : latest'[u] = IF u \in on THEN seq + 1 ELSE 0
  BY DEF ArmAll
<1>2. \A u \in Subs : Wanted(u)' <=> u \in on
  BY DEF Wanted, Runnable
<1>3. \A u \in Subs : Wanted(u)' => [at |-> row'[u].next, seq |-> latest'[u], sub |-> u] \in heap'
  <2> HIDE DEF on
  <2> QED BY <1>1, <1>2
<1>4. ASSUME NEW e \in heap', Fresh(e)'
      PROVE  Wanted(e.sub)' /\ e.at = row'[e.sub].next
  <2>1. e \notin heap
    <3>1. SUFFICES ASSUME e \in heap PROVE FALSE
      OBVIOUS
    <3>2. e.sub \in Subs /\ e.seq \in Nat /\ 0 < e.seq /\ e.seq <= seq /\ seq \in Nat
      BY <3>1 DEF Numbered, ManagerTyped, EntryType
    <3>3. latest'[e.sub] = seq + 1 \/ latest'[e.sub] = 0
      BY <1>1, <3>2
    <3>4. QED
      BY <1>4, <3>2, <3>3 DEF Fresh
  <2>2. PICK s \in on : e = [at |-> row[s].next, seq |-> seq + 1, sub |-> s]
    <3> HIDE DEF on
    <3> QED BY <1>1, <2>1
  <2>3. s \in Subs /\ e.sub = s /\ e.at = row[s].next
    BY <2>2
  <2>4. QED
    BY <1>2, <2>2, <2>3
<1>5. QED
  BY <1>3, <1>4 DEF Agree

\* Once everything is disarmed and nothing is wanted, they agree.
LEMMA DisarmAllAgrees ==
  ASSUME ManagerTyped, Numbered, Disarm(Subs), ~feature'
  PROVE  Agree'
<1>1. heap' = heap /\ \A u \in Subs : latest'[u] = 0
  BY DEF Disarm
<1>2. \A e \in heap' : ~(Fresh(e)')
  BY <1>1 DEF Numbered, ManagerTyped, EntryType, Fresh
<1>3. QED
  BY <1>2 DEF Agree, Wanted

\* A fire replaces the entry it pops, or the row is done with.
LEMMA AdvanceAgrees ==
  ASSUME TypeOK, Numbered, Agree, NEW e \in heap, Fresh(e), Advance(e.sub, e),
         row[e.sub].status = "active", feature, feature' = feature
  PROVE  Agree'
<1> DEFINE s    == e.sub
           next == AfterFire(row[s])
           new  == [at |-> next, seq |-> seq + 1, sub |-> s]
<1>1. /\ ManagerTyped /\ RowsTyped /\ s \in Subs /\ next \in Nat /\ row[s] \in RowType
  BY TypeParts, Instants DEF ManagerTyped, EntryType
<1>2. row' = [row EXCEPT ![s].next = next,
                         ![s].status = IF next = 0 THEN "completed" ELSE @]
  BY DEF Advance
<1>3. /\ row'[s].next = next
      /\ row'[s].status = IF next = 0 THEN "completed" ELSE "active"
      /\ \A u \in Subs : u # s => row'[u] = row[u]
  <2> HIDE DEF next, s
  <2>1. row[s].status = "active"
    BY DEF s
  <2>2. QED
    BY <1>1, <1>2, <2>1 DEF RowsTyped, RowType
<1>4. \A f \in heap : f # e /\ Fresh(f) => f \in Below(e) /\ f.sub # s
  <2> SUFFICES ASSUME NEW f \in heap, f # e, Fresh(f) PROVE f \in Below(e) /\ f.sub # s
    OBVIOUS
  <2>1. e \in EntryType /\ f \in EntryType
    BY <1>1 DEF ManagerTyped
  <2>2. ASSUME f.sub = s PROVE FALSE
    <3>1. e.at = f.at /\ e.seq = f.seq /\ e.sub = f.sub
      BY <2>2 DEF Agree, Fresh
    <3>2. QED
      BY <2>1, <3>1 DEF EntryType
  <2>3. QED
    BY <2>2 DEF Below
<1>5. CASE next # 0
  <2>1. /\ heap' = Below(e) \cup {new}
        /\ \A u \in Subs : latest'[u] = IF u = s THEN seq + 1 ELSE latest[u]
    BY <1>1, <1>5 DEF Advance, ManagerTyped
  <2>2. \A u \in Subs : Wanted(u)' => [at |-> row'[u].next, seq |-> latest'[u], sub |-> u] \in heap'
    <3> SUFFICES ASSUME NEW u \in Subs, Wanted(u)'
                 PROVE  [at |-> row'[u].next, seq |-> latest'[u], sub |-> u] \in heap'
      OBVIOUS
    <3>1. CASE u = s
      BY <1>3, <2>1, <3>1
    <3>2. CASE u # s
      <4> DEFINE old == [at |-> row[u].next, seq |-> latest[u], sub |-> u]
      <4>1. Wanted(u) /\ row'[u] = row[u] /\ latest'[u] = latest[u]
        BY <1>3, <2>1, <3>2 DEF Wanted
      <4>2. old \in heap /\ old.sub = u /\ Fresh(old)
        BY <4>1 DEF Agree, Fresh
      <4>3. old \in Below(e)
        BY <1>4, <3>2, <4>2
      <4>4. QED
        BY <2>1, <4>1, <4>3
    <3>3. QED
      BY <3>1, <3>2
  <2>3. ASSUME NEW f \in heap', Fresh(f)'
        PROVE  Wanted(f.sub)' /\ f.at = row'[f.sub].next
    <3>1. CASE f = new
      BY <1>3, <1>5, <3>1 DEF Wanted
    <3>2. CASE f # new
      <4>1. f \in heap /\ f # e
        BY <2>1, <3>2 DEF Below
      <4>2. f.sub \in Subs /\ f.seq \in Nat /\ f.seq <= seq /\ seq \in Nat
        BY <1>1, <4>1 DEF Numbered, ManagerTyped, EntryType
      <4>3. f.sub # s /\ Fresh(f)
        BY <2>1, <2>3, <4>2 DEF Fresh
      <4>4. QED
        BY <1>3, <4>1, <4>2, <4>3 DEF Agree, Wanted
    <3>3. QED
      BY <3>1, <3>2
  <2>4. QED
    BY <2>2, <2>3 DEF Agree
<1>6. CASE next = 0
  <2>1. /\ heap' = Below(e)
        /\ \A u \in Subs : latest'[u] = IF u = s THEN 0 ELSE latest[u]
    BY <1>1, <1>6 DEF Advance, ManagerTyped
  <2>2. \A u \in Subs : Wanted(u)' => [at |-> row'[u].next, seq |-> latest'[u], sub |-> u] \in heap'
    <3> SUFFICES ASSUME NEW u \in Subs, Wanted(u)'
                 PROVE  [at |-> row'[u].next, seq |-> latest'[u], sub |-> u] \in heap'
      OBVIOUS
    <3> DEFINE old == [at |-> row[u].next, seq |-> latest[u], sub |-> u]
    <3>1. u # s
      BY <1>3, <1>6 DEF Wanted
    <3>2. Wanted(u) /\ row'[u] = row[u] /\ latest'[u] = latest[u]
      BY <1>3, <2>1, <3>1 DEF Wanted
    <3>3. old \in heap /\ old.sub = u /\ Fresh(old)
      BY <3>2 DEF Agree, Fresh
    <3>4. old \in Below(e)
      BY <1>4, <3>1, <3>3
    <3>5. QED
      BY <2>1, <3>2, <3>4
  <2>3. ASSUME NEW f \in heap', Fresh(f)'
        PROVE  Wanted(f.sub)' /\ f.at = row'[f.sub].next
    <3>1. f \in heap /\ f # e /\ f.sub \in Subs /\ f.seq \in Nat /\ 0 < f.seq
      BY <1>1, <2>1 DEF Below, Numbered, ManagerTyped, EntryType
    <3>2. f.sub # s /\ Fresh(f)
      BY <2>1, <2>3, <3>1 DEF Fresh
    <3>3. QED
      BY <1>3, <3>1, <3>2 DEF Agree, Wanted
  <2>4. QED
    BY <2>2, <2>3 DEF Agree
<1>7. QED
  BY <1>5, <1>6

\* A row that is written and refreshed agrees with the heap again.
LEMMA RefreshAgrees ==
  ASSUME ManagerTyped, Numbered, Agree, row \in [Subs -> RowType],
         NEW s \in Subs, NEW r, row' = [row EXCEPT ![s] = r],
         r.status = "active" => r.next # 0,
         Refresh(s, r), feature' = feature
  PROVE  Agree'
<1>1. row'[s] = r /\ \A u \in Subs : u # s => row'[u] = row[u]
  OBVIOUS
<1>2. CASE Runnable(r) /\ feature
  <2>1. Arm(s, row'[s].next)
    BY <1>1, <1>2 DEF Refresh
  <2>2. row'[s].status = "active" /\ row'[s].next # 0
    BY <1>1, <1>2 DEF Runnable
  <2>3. QED
    BY <1>1, <1>2, <2>1, <2>2, ArmAgrees
<1>3. CASE ~(Runnable(r) /\ feature)
  <2>1. Disarm({s})
    BY <1>3 DEF Refresh
  <2>2. ~(Wanted(s)')
    BY <1>1, <1>3 DEF Wanted, Runnable
  <2>3. QED
    BY <1>1, <2>1, <2>2, DisarmAgrees
<1>4. QED
  BY <1>2, <1>3

LEMMA WriteHeap ==
  ASSUME TypeOK, Numbered, Matched, loop # "down",
         NEW s \in Subs, NEW r \in RowType, NEW f, Write(s, r, f),
         r.status = "active" => r.next # 0, UNCHANGED <<feature, loop>>
  PROVE  Numbered' /\ Matched'
<1>1. ManagerTyped /\ RowsTyped /\ spent \in [Faults -> Nat]
  BY TypeParts DEF RestTyped
<1>2. Numbered'
  BY <1>1, ArmNumbered, DisarmNumbered DEF Write, Refresh, Numbered, manager
<1>3. ASSUME spent'["store"] = 0
      PROVE  Agree'
  <2>1. spent["store"] = 0 /\ Refresh(s, r) /\ row' = [row EXCEPT ![s] = r]
    BY <1>1, <1>3, Spending DEF Write
  <2>2. QED
    BY <1>1, <2>1, RefreshAgrees DEF Matched, RowsTyped
<1>4. QED
  BY <1>2, <1>3 DEF Matched

HeapInv == Numbered /\ DownIsEmpty /\ Matched

LEMMA HeapStep ==
  ASSUME TypeOK, HeapInv, Next
  PROVE  HeapInv'
<1>0. /\ ManagerTyped /\ RowsTyped /\ spent \in [Faults -> Nat] /\ feature \in BOOLEAN
      /\ Numbered /\ DownIsEmpty /\ Matched
  BY TypeParts DEF RestTyped, HeapInv
<1>1. ASSUME NEW s \in Subs, NEW rule \in Rules, NEW asked \in BOOLEAN, Create(s, rule, asked)
      PROVE  HeapInv'
  <2> DEFINE next == Seed(rule, now)
  <2>1. /\ loop # "down" /\ feature /\ row[s].status = "absent"
        /\ UNCHANGED <<feature, loop, spent>>
        /\ \A u \in Subs : u # s => row'[u] = row[u]
        /\ row'[s].next = next
        /\ row'[s].status = IF next # 0 THEN "active" ELSE "completed"
    <3> HIDE DEF next
    <3> QED BY <1>0, <1>1 DEF Create, RowsTyped, next
  <2>2. CASE next # 0
    <3>1. Arm(s, row'[s].next)
      BY <1>1, <2>1, <2>2 DEF Create
    <3>2. Numbered'
      BY <1>0, <3>1, ArmNumbered
    <3>3. Agree => Agree'
      <4> HIDE DEF next
      <4> QED BY <1>0, <2>1, <2>2, <3>1, ArmAgrees
    <3>4. QED
      BY <1>0, <2>1, <3>2, <3>3 DEF HeapInv, DownIsEmpty, Matched
  <2>3. CASE next = 0
    <3>1. UNCHANGED manager
      BY <1>1, <2>3 DEF Create
    <3>2. Numbered'
      BY <1>0, <3>1 DEF Numbered, manager
    <3>3. ~Wanted(s) /\ ~(Wanted(s)')
      BY <2>1, <2>3 DEF Wanted
    <3>4. Agree => Agree'
      <4> HIDE DEF next
      <4> QED BY <1>0, <2>1, <3>1, <3>3 DEF Agree, Wanted, Fresh, manager, ManagerTyped, EntryType
    <3>5. QED
      BY <1>0, <2>1, <3>2, <3>4 DEF HeapInv, DownIsEmpty, Matched
  <2>4. QED
    BY <2>2, <2>3
<1>2. ASSUME NEW s \in Subs, NEW rule \in Rules, Edit(s, rule)
      PROVE  HeapInv'
  <2>1. Write(s, EditedRow(s, rule), "edit") /\ UNCHANGED <<feature, loop>> /\ loop # "down"
    BY <1>2 DEF Edit, EditedRow, Exists
  <2>2. Numbered' /\ Matched'
    BY <1>0, <2>1, EditedTyped, WriteHeap
  <2>3. QED
    BY <2>1, <2>2 DEF HeapInv, DownIsEmpty
<1>3. ASSUME NEW s \in Subs, NEW st \in {"active", "paused", "cancelled"}, SetStatus(s, st)
      PROVE  HeapInv'
  <2>1. Write(s, SetRow(s, st), "status") /\ UNCHANGED <<feature, loop>> /\ loop # "down"
    BY <1>3 DEF SetStatus, SetRow, Exists
  <2>2. Numbered' /\ Matched'
    BY <1>0, <2>1, SetTyped, WriteHeap
  <2>3. QED
    BY <2>1, <2>2 DEF HeapInv, DownIsEmpty
<1>4. ASSUME NEW s \in Subs, Delete(s)
      PROVE  HeapInv'
  <2>1. /\ loop # "down" /\ UNCHANGED <<feature, loop>> /\ Disarm({s})
        /\ \A u \in Subs : u # s => row'[u] = row[u]
        /\ row'[s].status = "deleted"
    BY <1>0, <1>4 DEF Delete, Exists, RowsTyped, Absent
  <2>2. Numbered'
    BY <1>0, <2>1, DisarmNumbered
  <2>3. Agree => Agree'
    <3>1. \A u \in {s} : ~(Wanted(u)')
      BY <2>1 DEF Wanted
    <3>2. {s} \in SUBSET Subs
      OBVIOUS
    <3>3. QED
      BY <1>0, <2>1, <3>1, <3>2, DisarmAgrees
  <2>4. spent'["store"] = 0 => spent["store"] = 0
    BY <1>0, <1>4, Spending DEF Delete
  <2>5. QED
    BY <1>0, <2>1, <2>2, <2>3, <2>4 DEF HeapInv, DownIsEmpty, Matched
<1>5. CASE Toggle
  <2>1. loop # "down" /\ loop' = loop /\ row' = row
    BY <1>5 DEF Toggle
  <2>2. Numbered'
    <3>1. CASE UNCHANGED manager
      BY <1>0, <3>1 DEF Numbered, manager
    <3>2. QED
      BY <1>0, <1>5, <3>1, ArmAllNumbered, DisarmNumbered DEF Toggle
  <2>3. ASSUME spent'["store"] = 0
        PROVE  Agree'
    <3>1. IF feature' THEN ArmAll(Subs) ELSE Disarm(Subs)
      BY <1>0, <1>5, <2>3, Spending DEF Toggle
    <3>2. QED
      BY <1>0, <2>1, <3>1, ArmAllAgrees, DisarmAllAgrees
  <2>4. QED
    BY <2>1, <2>2, <2>3 DEF HeapInv, DownIsEmpty, Matched
<1>6. ASSUME NEW e \in Due, Fire(e)
      PROVE  HeapInv'
  <2>1. e \in heap /\ Fresh(e)
    BY DEF Due
  <2>2. /\ loop = "wait" /\ loop' = "dispatch" /\ UNCHANGED <<feature, spent>>
        /\ row[e.sub].status = "active" /\ feature /\ Advance(e.sub, e)
    BY <1>6 DEF Fire
  <2>3. Numbered'
    BY <1>0, <2>1, <2>2, AdvanceNumbered
  <2>4. Agree => Agree'
    BY <1>0, <2>1, <2>2, AdvanceAgrees
  <2>5. QED
    BY <1>0, <2>2, <2>3, <2>4 DEF HeapInv, DownIsEmpty, Matched
<1>7. ASSUME NEW e \in Due, FireNothing(e)
      PROVE  HeapInv'
  <2>1. e \in heap /\ Fresh(e)
    BY DEF Due
  <2>2. loop = "wait" /\ loop' = loop /\ Consume(e.sub, e)
    BY <1>7 DEF FireNothing
  <2>3. Numbered'
    BY <1>0, <2>1, <2>2, ConsumeNumbered
  <2>4. spent'["store"] # 0
    <3>1. SUFFICES ASSUME spent'["store"] = 0 PROVE FALSE
      OBVIOUS
    <3>2. /\ spent["store"] = 0
          /\ ~(row[e.sub].status = "active" /\ feature /\ row[e.sub].next # 0)
      BY <1>0, <1>7, <3>1, Spending DEF FireNothing
    <3>3. Wanted(e.sub)
      BY <1>0, <2>1, <2>2, <3>2 DEF Matched, Agree
    <3>4. QED
      BY <3>2, <3>3 DEF Wanted
  <2>5. QED
    BY <2>2, <2>3, <2>4 DEF HeapInv, DownIsEmpty, Matched
<1>8. CASE EndDispatch
  BY <1>0, <1>8 DEF EndDispatch, HeapInv, Numbered, DownIsEmpty, Matched, Agree, Wanted,
                    Fresh, manager
<1>9. CASE Tick
  BY <1>0, <1>9 DEF Tick, HeapInv, Numbered, DownIsEmpty, Matched, Agree, Wanted, Fresh, manager
<1>10. CASE Crash
  BY <1>10 DEF Crash, HeapInv, Numbered, DownIsEmpty, Matched
<1>11. CASE Boot
  <2>1. loop = "down" /\ loop' = "wait" /\ UNCHANGED <<row, feature>> /\ heap = {}
    BY <1>0, <1>11 DEF Boot, DownIsEmpty
  <2>2. Numbered'
    <3>1. CASE UNCHANGED manager
      BY <1>0, <3>1 DEF Numbered, manager
    <3>2. QED
      BY <1>0, <1>11, <3>1, ArmAllNumbered DEF Boot
  <2>3. ASSUME spent'["store"] = 0
        PROVE  Agree'
    <3>1. IF feature THEN ArmAll(Subs) ELSE UNCHANGED manager
      BY <1>0, <1>11, <2>3, Spending DEF Boot
    <3>2. CASE feature
      BY <1>0, <2>1, <3>1, <3>2, ArmAllAgrees
    <3>3. CASE ~feature
      BY <2>1, <3>1, <3>3 DEF Agree, Wanted, manager
    <3>4. QED
      BY <3>2, <3>3
  <2>4. QED
    BY <2>1, <2>2, <2>3 DEF HeapInv, DownIsEmpty, Matched
<1>12. QED
  BY <1>1, <1>2, <1>3, <1>4, <1>5, <1>6, <1>7, <1>8, <1>9, <1>10, <1>11 DEF Next

LEMMA HeapInit == Init => HeapInv
BY DEF Init, HeapInv, Numbered, DownIsEmpty, Matched

LEMMA HeapStutter ==
  ASSUME HeapInv, UNCHANGED vars
  PROVE  HeapInv'
BY DEF HeapInv, Numbered, DownIsEmpty, Matched, Agree, Wanted, Fresh, vars, manager

-----------------------------------------------------------------------------
(* The occurrences that fire                                               *)

\* A row that may fire fires later than it last did; a change of it, counted by
\* gen, starts afresh.
Ahead ==
  \A s \in Subs :
    /\ row[s].status = "deleted" \/ last[s].gen <= row[s].gen
    /\ row[s].status = "absent" => row[s].gen = 0
    /\ row[s].status = "deleted" => row[s].next = 0
    /\ row[s].next # 0 /\ last[s].gen = row[s].gen =>
         row[s].next > last[s].occ /\ row[s].next > last[s].at

\* A row rewritten with the next gen is ahead.
LEMMA WriteAhead ==
  ASSUME TypeOK, Ahead, NEW s \in Subs, NEW r, row' = [row EXCEPT ![s] = r],
         last' = last, row[s].status # "deleted", r.gen = row[s].gen + 1,
         r.status \notin {"absent", "deleted"}
  PROVE  Ahead'
<1>1. /\ row[s] \in RowType /\ last[s] \in FireType /\ last[s].gen <= row[s].gen
      /\ row'[s] = r /\ \A u \in Subs : u # s => row'[u] = row[u]
  BY DEF TypeOK, RowType, Ahead
<1>2. r.gen # last[s].gen /\ last[s].gen <= r.gen
  BY <1>1 DEF RowType, FireType
<1>3. QED
  BY <1>1, <1>2 DEF Ahead

LEMMA AheadStep ==
  ASSUME TypeOK, Ahead, Next
  PROVE  Ahead'
<1>1. ASSUME NEW s \in Subs, NEW rule \in Rules, NEW asked \in BOOLEAN, Create(s, rule, asked)
      PROVE  Ahead'
  <2> DEFINE next == Seed(rule, now)
             r == [status |-> IF next # 0 THEN "active" ELSE "completed",
                   rule |-> rule, next |-> next, gen |-> 1,
                   task |-> asked /\ next # 0 /\ ~Recurs(rule)]
  <2>1. row' = [row EXCEPT ![s] = r] /\ last' = last /\ row[s].status = "absent"
    BY <1>1 DEF Create
  <2>2. r.gen = row[s].gen + 1
    BY <2>1 DEF Ahead
  <2>3. r.status \notin {"absent", "deleted"}
    OBVIOUS
  <2>4. QED
    <3> HIDE DEF r
    <3> QED BY <2>1, <2>2, <2>3, WriteAhead
<1>2. ASSUME NEW s \in Subs, NEW rule \in Rules, Edit(s, rule)
      PROVE  Ahead'
  <2>1. /\ row' = [row EXCEPT ![s] = EditedRow(s, rule)] /\ last' = last
        /\ row[s].status \notin {"absent", "deleted"}
    BY <1>2 DEF Edit, EditedRow, Write, Exists
  <2>2. QED
    BY <2>1, EditedTyped, WriteAhead
<1>3. ASSUME NEW s \in Subs, NEW st \in {"active", "paused", "cancelled"}, SetStatus(s, st)
      PROVE  Ahead'
  <2>1. /\ row' = [row EXCEPT ![s] = SetRow(s, st)] /\ last' = last
        /\ row[s].status \notin {"absent", "deleted"}
    BY <1>3 DEF SetStatus, SetRow, Write, Exists
  <2>2. QED
    BY <2>1, SetTyped, WriteAhead
<1>4. ASSUME NEW s \in Subs, Delete(s)
      PROVE  Ahead'
  BY <1>4 DEF Delete, Ahead, Absent, TypeOK
<1>5. ASSUME NEW e \in Due, Fire(e)
      PROVE  Ahead'
  <2> DEFINE s == e.sub
             next == AfterFire(row[s])
  <2>1. /\ s \in Subs /\ row[s] \in RowType /\ now \in Nat /\ next \in Nat
        /\ next # 0 => next > row[s].next /\ next > now
    <3>1. s \in Subs
      BY TypeParts DEF Due, ManagerTyped, EntryType
    <3>2. QED
      BY <3>1, Instants
  <2>2. /\ row' = [row EXCEPT ![s].next = next,
                              ![s].status = IF next = 0 THEN "completed" ELSE @]
        /\ last' = [last EXCEPT ![s] = [gen |-> row[s].gen, occ |-> row[s].next, at |-> now]]
        /\ row[s].status = "active"
    BY <1>5 DEF Fire, Advance
  <2>3. /\ row'[s].next = next /\ row'[s].gen = row[s].gen
        /\ row'[s].status \in {"active", "completed"}
        /\ last'[s] = [gen |-> row[s].gen, occ |-> row[s].next, at |-> now]
        /\ \A u \in Subs : u # s => row'[u] = row[u] /\ last'[u] = last[u]
    <3> HIDE DEF next, s
    <3> QED BY <2>1, <2>2 DEF TypeOK, RowType
  <2>4. QED
    <3> HIDE DEF next, s
    <3> QED BY <2>1, <2>3 DEF Ahead, RowType
<1>6. CASE UNCHANGED <<row, last>>
  BY <1>6 DEF Ahead
<1>7. QED
  BY <1>1, <1>2, <1>3, <1>4, <1>5, <1>6
  DEF Next, Toggle, FireNothing, EndDispatch, Tick, Crash, Boot

LEMMA AheadInit == Init => Ahead
BY DEF Init, Ahead, Absent, NoFire

\* What fires is due: the entry popped is the one its row asked for.
LEMMA EarlyStep ==
  ASSUME TypeOK, HeapInv, NeverEarly, Next
  PROVE  NeverEarly'
<1>1. spent \in [Faults -> Nat]
  BY DEF TypeOK
<1>2. ASSUME NEW e \in Due, Fire(e)
      PROVE  NeverEarly'
  <2> DEFINE s == e.sub
  <2>1. e \in heap /\ Fresh(e) /\ e.at <= now /\ s \in Subs
    BY TypeParts DEF Due, ManagerTyped, EntryType
  <2>2. /\ last' = [last EXCEPT ![s] = [gen |-> row[s].gen, occ |-> row[s].next, at |-> now]]
        /\ spent' = spent /\ loop = "wait"
    BY <1>2 DEF Fire
  <2>3. ASSUME spent["store"] = 0
        PROVE  row[s].next <= now
    BY <2>1, <2>2, <2>3 DEF HeapInv, Matched, Agree
  <2>4. QED
    <3> HIDE DEF s
    <3> QED BY <2>1, <2>2, <2>3 DEF NeverEarly, TypeOK
<1>3. CASE last' = last
  <2>1. spent'["store"] = 0 => spent["store"] = 0
    BY <1>1, Spending
    DEF Next, Create, Edit, SetStatus, Write, Delete, Toggle, Fire, FireNothing, EndDispatch,
        Tick, Crash, Boot
  <2>2. QED
    BY <1>3, <2>1 DEF NeverEarly
<1>4. QED
  BY <1>2, <1>3
  DEF Next, Create, Edit, SetStatus, Delete, Toggle, FireNothing, EndDispatch, Tick, Crash, Boot

LEMMA EarlyInit == Init => NeverEarly
BY DEF Init, NeverEarly, NoFire

-----------------------------------------------------------------------------
IInv == TypeOK /\ HeapInv /\ Ahead /\ NeverEarly

LEMMA InvariantHolds == Spec => []IInv
<1>1. Init => IInv
  BY TypeInit, HeapInit, AheadInit, EarlyInit DEF IInv
<1>2. ASSUME IInv, Next PROVE IInv'
  BY <1>2, TypeStep, HeapStep, AheadStep, EarlyStep DEF IInv
<1>3. ASSUME IInv, UNCHANGED vars PROVE IInv'
  <2>1. Ahead' /\ NeverEarly'
    BY <1>3 DEF IInv, Ahead, NeverEarly, vars
  <2>2. QED
    BY <1>3, <2>1, TypeStutter, HeapStutter DEF IInv
<1>4. QED
  BY <1>1, <1>2, <1>3, PTL DEF Spec

\* The heap agrees with the rows whatever stale entries it holds: arming, lazy
\* invalidation, wholesale toggles, fires and restarts keep exactly one fresh entry
\* for each schedule that can fire, due when its row says (_arm, refresh, remove,
\* refresh_feature, _fire, start).
THEOREM HeapFollowsRows == Spec => []HeapMatchesRows
<1>1. IInv => HeapMatchesRows
  BY TypeParts, AgreeIsMatch DEF IInv, HeapInv
<1>2. QED
  BY <1>1, InvariantHolds, PTL

\* Nothing is dispatched before its time, though the loop acts on the heap and not
\* on the row (_run_loop, _fire).
THEOREM NothingEarly == Spec => []NeverEarly
BY InvariantHolds, PTL DEF IInv

\* No occurrence fires twice and no backlog is replayed, over crashes and restarts,
\* because the pointer is advanced past now before the dispatch (_fire).
THEOREM NothingReplayed == Spec => NoReplay
<1>1. ASSUME IInv, [Next]_vars
      PROVE  [\A s \in Subs :
                last'[s] # last[s] /\ last'[s].gen = last[s].gen =>
                  last'[s].occ > last[s].at /\ last'[s].occ > last[s].occ]_vars
  <2>1. ASSUME NEW e \in Due, Fire(e), NEW s \in Subs,
               last'[s] # last[s], last'[s].gen = last[s].gen
        PROVE  last'[s].occ > last[s].at /\ last'[s].occ > last[s].occ
    <3>1. /\ last' = [last EXCEPT ![e.sub] =
                       [gen |-> row[e.sub].gen, occ |-> row[e.sub].next, at |-> now]]
          /\ row[e.sub].next # 0
      BY <2>1 DEF Fire
    <3>2. /\ s = e.sub
          /\ last'[s] = [gen |-> row[s].gen, occ |-> row[s].next, at |-> now]
      BY <1>1, <2>1, <3>1 DEF IInv, TypeOK
    <3>3. QED
      BY <1>1, <2>1, <3>1, <3>2 DEF IInv, Ahead
  <2>2. (\E e \in Due : Fire(e)) \/ last' = last
    BY <1>1
    DEF Next, Create, Edit, SetStatus, Delete, Toggle, FireNothing, EndDispatch, Tick, Crash,
        Boot, vars
  <2>3. QED
    BY <2>1, <2>2
<1>2. QED
  BY <1>1, InvariantHolds, PTL DEF Spec, NoReplay

-----------------------------------------------------------------------------
(* What the loop takes from the heap                                       *)

\* The loop finds something to fire whenever a row is overdue, and what it finds
\* is overdue, and no other row was due earlier.
ServesEarliest ==
  /\ (\E s \in Subs : Overdue(s)) => Due # {}
  /\ \A e \in Due :
       /\ Overdue(e.sub)
       /\ \A s \in Subs : Overdue(s) => row[e.sub].next <= row[s].next

\* The entry of a row that is overdue.
Entry(s) == [at |-> row[s].next, seq |-> latest[s], sub |-> s]

LEMMA OverdueEntry ==
  ASSUME Agree, NEW s \in Subs, Overdue(s)
  PROVE  Entry(s) \in heap /\ Fresh(Entry(s)) /\ Entry(s).at <= now
BY DEF Agree, Overdue, Runnable, Wanted, Entry, Fresh

LEMMA DueIsOverdue ==
  ASSUME TypeOK, Agree, NEW e \in Due
  PROVE  /\ Overdue(e.sub)
         /\ \A s \in Subs : Overdue(s) => row[e.sub].next <= row[s].next
<1>1. /\ e \in heap /\ Fresh(e) /\ e.at <= now
      /\ \A f \in heap : Fresh(f) => ~Precedes(f, e)
  BY DEF Due
<1>2. e.sub \in Subs /\ e.at \in Nat /\ Wanted(e.sub) /\ e.at = row[e.sub].next
  BY <1>1 DEF TypeOK, Agree
<1>3. Overdue(e.sub)
  BY <1>1, <1>2 DEF Overdue, Runnable, Wanted
<1>4. ASSUME NEW s \in Subs, Overdue(s) PROVE row[e.sub].next <= row[s].next
  <2>1. ~Precedes(Entry(s), e)
    BY <1>1, <1>4, OverdueEntry
  <2>2. Entry(s).at = row[s].next /\ row[s].next \in Nat
    BY DEF Entry, TypeOK
  <2>3. QED
    BY <1>2, <2>1, <2>2 DEF Precedes
<1>5. QED
  BY <1>3, <1>4

LEMMA SomethingIsDue ==
  ASSUME TypeOK, Agree, NEW s \in Subs, Overdue(s)
  PROVE  Due # {}
<1> DEFINE live   == {e \in heap : Fresh(e)}
           times  == {e.at : e \in live}
<1>1. Entry(s) \in live /\ Entry(s).at <= now
  BY OverdueEntry
<1>2. \A e \in live : e.at \in Nat /\ e.seq \in Nat
  BY DEF TypeOK
<1>3. PICK t \in times : \A u \in times : t <= u
  <2>1. times \in SUBSET Nat /\ times # {}
    BY <1>1, <1>2
  <2> HIDE DEF times
  <2>2. QED
    BY <2>1, FirstOf
<1> DEFINE first == {e \in live : e.at = t}
           seqs  == {e.seq : e \in first}
<1>4. PICK n \in seqs : \A k \in seqs : n <= k
  <2>1. seqs \in SUBSET Nat /\ seqs # {}
    BY <1>2
  <2> HIDE DEF seqs
  <2>2. QED
    BY <2>1, FirstOf
<1>5. PICK e \in live : e.at = t /\ e.seq = n
  OBVIOUS
<1>6. ASSUME NEW f \in live PROVE ~Precedes(f, e)
  <2>1. t <= f.at
    BY <1>3
  <2>2. f.at = t => n <= f.seq
    BY <1>4
  <2>3. QED
    BY <1>2, <1>5, <2>1, <2>2 DEF Precedes
<1>7. e.at <= now
  <2>1. t <= Entry(s).at
    BY <1>1, <1>3
  <2>2. Entry(s).at \in Nat /\ now \in Nat
    BY <1>1, <1>2, HorizonAssumption DEF TypeOK
  <2>3. QED
    BY <1>1, <1>2, <1>5, <2>1, <2>2
<1>8. QED
  BY <1>5, <1>6, <1>7 DEF Due

\* The heap computes what the rows say, its stale entries and its tie-breaks
\* notwithstanding: as long as no storage call raised, the waiting loop has an entry
\* to take exactly when some row is overdue, and that entry's row is overdue and was
\* due first.  No overdue row is waited past, so all OverdueIsServed still asks for
\* is that the loop is woken (_run_loop).
THEOREM EarliestIsServed ==
  Spec => [](loop = "wait" /\ spent["store"] = 0 => ServesEarliest)
<1>1. ASSUME IInv, loop = "wait", spent["store"] = 0 PROVE ServesEarliest
  <2>1. TypeOK /\ Agree
    BY <1>1 DEF IInv, HeapInv, Matched
  <2>2. QED
    BY <2>1, DueIsOverdue, SomethingIsDue DEF ServesEarliest
<1>2. IInv => (loop = "wait" /\ spent["store"] = 0 => ServesEarliest)
  BY <1>1
<1>3. QED
  BY <1>2, InvariantHolds, PTL

-----------------------------------------------------------------------------
(* The manager keeps to the timetable                                      *)

\* A one-shot is due at its only instant.
Pointed ==
  \A s \in Subs :
    row[s].next # 0 /\ ~Recurs(row[s].rule) => row[s].next = row[s].rule.start

\* What the manager searches is what the timetable searches.
LEMMA SameSearch ==
  /\ \A T : Table!First(T) = Earliest(T)
  /\ \A rule, t : Table!OnOrAfter(Occurrences(rule), t) = Seed(rule, t)
<1>1. \A T : Table!First(T) = Earliest(T)
  BY DEF Table!First, Earliest
<1>2. QED
  BY <1>1 DEF Table!OnOrAfter, Seed

LEMMA SeedIsPoint ==
  ASSUME NEW rule \in Rules \cup {NoRule}, NEW t, ~Recurs(rule), Seed(rule, t) # 0
  PROVE  Seed(rule, t) = rule.start
<1>1. rule.start \in Nat
  BY RulesAssumption DEF RuleType, NoRule
<1>2. {o \in Occurrences(rule) : o >= t} \subseteq {rule.start}
  BY DEF Occurrences
<1>3. QED
  BY <1>1, <1>2, EarliestIn DEF Seed

\* What a write makes of the pointer and the rule.
LEMMA EditedFields ==
  ASSUME TypeOK, NEW s \in Subs, NEW rule \in Rules
  PROVE  EditedRow(s, rule).next = Seed(rule, now) /\ EditedRow(s, rule).rule = rule
<1>1. row[s] \in RowType
  BY Instants
<1>2. PICK n : n = Seed(rule, now)
  OBVIOUS
<1>3. PICK t, g : EditedRow(s, rule)
                    = [row[s] EXCEPT !.rule = rule, !.next = n, !.gen = g, !.status = t]
  BY <1>2 DEF EditedRow
<1>4. EditedRow(s, rule).next = n /\ EditedRow(s, rule).rule = rule
  BY <1>1, <1>3 DEF RowType
<1>5. QED
  BY <1>2, <1>4

LEMMA SetFields ==
  ASSUME TypeOK, NEW s \in Subs, NEW st
  PROVE  SetRow(s, st).next \in {0, Seed(row[s].rule, now)} /\ SetRow(s, st).rule = row[s].rule
<1>1. row[s] \in RowType
  BY Instants
<1>2. PICK n : n = IF st = "active" THEN Seed(row[s].rule, now) ELSE 0
  OBVIOUS
<1>3. PICK t, g : SetRow(s, st) = [row[s] EXCEPT !.next = n, !.gen = g, !.status = t]
  BY <1>2 DEF SetRow
<1>4. SetRow(s, st).next = n /\ SetRow(s, st).rule = row[s].rule
  BY <1>1, <1>3 DEF RowType
<1>5. QED
  BY <1>2, <1>4

\* A step writes one row, with a pointer seeded from now, fires, or is elsewhere.
Writes(s, r) ==
  /\ row' = [row EXCEPT ![s] = r] /\ UNCHANGED <<feature, loop, now, last>> /\ loop # "down"
  /\ r.rule \in Rules \cup {NoRule} /\ r.next \in {0, Seed(r.rule, now)}

Elsewhere ==
  \/ Toggle
  \/ \E e \in Due : FireNothing(e)
  \/ EndDispatch \/ Tick \/ Crash \/ Boot

LEMMA RowSteps ==
  ASSUME TypeOK, Next
  PROVE  \/ \E s \in Subs : \E r : Writes(s, r)
         \/ \E e \in Due : Fire(e)
         \/ Elsewhere
<1>1. ASSUME NEW s \in Subs, NEW rule \in Rules, NEW asked \in BOOLEAN, Create(s, rule, asked)
      PROVE  \E r : Writes(s, r)
  <2> DEFINE r == [status |-> IF Seed(rule, now) # 0 THEN "active" ELSE "completed",
                   rule |-> rule, next |-> Seed(rule, now), gen |-> 1,
                   task |-> asked /\ Seed(rule, now) # 0 /\ ~Recurs(rule)]
  <2>1. row' = [row EXCEPT ![s] = r] /\ UNCHANGED <<feature, loop, now, last>> /\ loop # "down"
    BY <1>1 DEF Create
  <2>2. r.rule = rule /\ r.next = Seed(rule, now)
    OBVIOUS
  <2>3. QED
    <3> HIDE DEF r
    <3> QED BY <2>1, <2>2 DEF Writes
<1>2. ASSUME NEW s \in Subs, NEW rule \in Rules, Edit(s, rule)
      PROVE  \E r : Writes(s, r)
  <2>1. /\ row' = [row EXCEPT ![s] = EditedRow(s, rule)] /\ loop # "down"
        /\ UNCHANGED <<feature, loop, now, last>>
    BY <1>2 DEF Edit, EditedRow, Write, Exists
  <2>2. PICK r : r = EditedRow(s, rule)
    OBVIOUS
  <2>3. r.next = Seed(rule, now) /\ r.rule = rule
    BY <2>2, EditedFields
  <2>4. QED
    BY <2>1, <2>2, <2>3 DEF Writes
<1>3. ASSUME NEW s \in Subs, NEW st \in {"active", "paused", "cancelled"}, SetStatus(s, st)
      PROVE  \E r : Writes(s, r)
  <2>1. /\ row' = [row EXCEPT ![s] = SetRow(s, st)] /\ loop # "down"
        /\ UNCHANGED <<feature, loop, now, last>>
    BY <1>3 DEF SetStatus, SetRow, Write, Exists
  <2>2. row[s].rule \in Rules \cup {NoRule}
    BY Instants DEF RowType
  <2>3. PICK r : r = SetRow(s, st)
    OBVIOUS
  <2>4. r.next \in {0, Seed(r.rule, now)} /\ r.rule = row[s].rule
    BY <2>3, SetFields
  <2>5. QED
    BY <2>1, <2>2, <2>3, <2>4 DEF Writes
<1>4. ASSUME NEW s \in Subs, Delete(s)
      PROVE  \E r : Writes(s, r)
  <2> DEFINE r == [Absent EXCEPT !.status = "deleted"]
  <2>1. /\ row' = [row EXCEPT ![s] = r] /\ loop # "down"
        /\ UNCHANGED <<feature, loop, now, last>>
    BY <1>4 DEF Delete, Exists
  <2>2. r.rule = NoRule /\ r.next = 0
    BY DEF Absent
  <2>3. QED
    <3> HIDE DEF r
    <3> QED BY <2>1, <2>2 DEF Writes
<1>5. QED
  BY <1>1, <1>2, <1>3, <1>4
  DEF Next, Elsewhere

\* What a fire makes of its row.
LEMMA FiredRow ==
  ASSUME TypeOK, NEW e \in Due, Fire(e)
  PROVE  /\ e.sub \in Subs
         /\ row'[e.sub].rule = row[e.sub].rule /\ row'[e.sub].next = AfterFire(row[e.sub])
         /\ row'[e.sub].status = IF AfterFire(row[e.sub]) = 0 THEN "completed" ELSE "active"
         /\ \A u \in Subs : u # e.sub => row'[u] = row[u]
         /\ row[e.sub].status = "active" /\ row[e.sub].next # 0
<1> DEFINE s == e.sub
           next == AfterFire(row[s])
<1>1. s \in Subs
  BY TypeParts DEF Due, ManagerTyped, EntryType
<1>2. /\ row' = [row EXCEPT ![s].next = next,
                            ![s].status = IF next = 0 THEN "completed" ELSE @]
      /\ row[s].status = "active" /\ row[s].next # 0
  BY DEF Fire, Advance
<1>3. QED
  <2> HIDE DEF next, s
  <2>1. row \in [Subs -> RowType]
    BY TypeParts DEF RowsTyped
  <2>2. QED
    BY <1>1, <1>2, <2>1 DEF RowType, s, next

LEMMA PointedStep ==
  ASSUME TypeOK, Pointed, Next
  PROVE  Pointed'
<1>1. row \in [Subs -> RowType]
  BY TypeParts DEF RowsTyped
<1>2. ASSUME NEW s \in Subs, NEW r, Writes(s, r)
      PROVE  Pointed'
  <2>1. /\ row'[s] = r /\ \A u \in Subs : u # s => row'[u] = row[u]
        /\ r.rule \in Rules \cup {NoRule} /\ r.next \in {0, Seed(r.rule, now)}
    BY <1>1, <1>2 DEF Writes
  <2>2. r.next # 0 /\ ~Recurs(r.rule) => r.next = r.rule.start
    BY <2>1, SeedIsPoint
  <2>3. QED
    BY <2>1, <2>2 DEF Pointed
<1>3. ASSUME NEW e \in Due, Fire(e)
      PROVE  Pointed'
  <2>1. ~Recurs(row[e.sub].rule) => AfterFire(row[e.sub]) = 0
    BY DEF AfterFire, NextAfter
  <2>2. QED
    BY <1>3, <2>1, FiredRow DEF Pointed
<1>4. CASE Elsewhere
  BY <1>4 DEF Pointed, Elsewhere, Toggle, FireNothing, EndDispatch, Tick, Crash, Boot
<1>5. QED
  BY <1>2, <1>3, <1>4, RowSteps

\* A write is a change of the timetable.
LEMMA TableChange ==
  ASSUME TypeOK, NEW s \in Subs, NEW r, Writes(s, r)
  PROVE  Table!Change(s)
<1>1. row \in [Subs -> RowType]
  BY TypeParts DEF RowsTyped
<1>2. /\ row'[s] = r /\ \A u \in Subs : u # s => row'[u] = row[u]
      /\ UNCHANGED <<feature, loop, now, last>> /\ loop # "down"
      /\ r.next \in {0, Seed(r.rule, now)}
  BY <1>1 DEF Writes
<1>3. (IF Runnable(row'[s]) THEN row'[s].next ELSE 0)
        \in {0, Table!OnOrAfter(Occurrences(row'[s].rule), now)}
  BY <1>2, SameSearch
<1>4. QED
  BY <1>2, <1>3 DEF Table!Change

\* A fire is the timetable's, of the one due first unless a storage call raised.
LEMMA TableFire ==
  ASSUME IInv, Pointed, NEW e \in Due, Fire(e)
  PROVE  Table!Fire(e.sub)
<1> DEFINE D(u) == IF Runnable(row[u]) THEN row[u].next ELSE 0
<1>0. TypeOK
  BY DEF IInv
<1>s. PICK s \in Subs : s = e.sub
  BY <1>0, FiredRow
<1>1. /\ loop = "wait" /\ feature /\ loop' = "dispatch" /\ UNCHANGED <<feature, now>>
      /\ last' = [last EXCEPT ![s] = [gen |-> row[s].gen, occ |-> row[s].next, at |-> now]]
  BY <1>s DEF Fire
<1>2. /\ row'[s].rule = row[s].rule /\ row'[s].next = AfterFire(row[s])
      /\ row'[s].status = IF AfterFire(row[s]) = 0 THEN "completed" ELSE "active"
      /\ \A u \in Subs : u # s => row'[u] = row[u]
      /\ row[s].status = "active" /\ row[s].next # 0
  BY <1>0, <1>s, FiredRow
<1>3. row[s].next \in Nat /\ now \in Nat /\ \A u \in Subs : row[u].next \in Nat
  BY <1>0, Instants DEF RowType
<1>4. D(s) = row[s].next /\ D(s) # 0
  BY <1>2 DEF Runnable
<1>5. ASSUME spent["store"] = 0
      PROVE  D(s) <= now /\ \A u \in Subs : D(u) # 0 => D(s) <= D(u)
  <2>1. /\ Overdue(s)
        /\ \A u \in Subs : Overdue(u) => row[s].next <= row[u].next
    BY <1>0, <1>1, <1>5, <1>s, DueIsOverdue DEF IInv, HeapInv, Matched
  <2>2. ASSUME NEW u \in Subs, D(u) # 0 PROVE D(s) <= D(u)
    <3>1. D(u) = row[u].next /\ Runnable(row[u])
      BY <2>2
    <3>2. CASE row[u].next <= now
      BY <1>1, <1>4, <2>1, <3>1, <3>2 DEF Overdue
    <3>3. CASE ~(row[u].next <= now)
      BY <1>3, <1>4, <2>1, <3>1, <3>3 DEF Overdue
    <3>4. QED
      BY <3>2, <3>3
  <2>3. QED
    BY <1>4, <2>1, <2>2 DEF Overdue
<1>6. AfterFire(row[s]) = Table!After(Occurrences(row[s].rule), IF D(s) >= now THEN D(s) ELSE now)
  <2>1. PICK t \in Nat : t = IF row[s].next >= now THEN row[s].next ELSE now
    BY <1>3
  <2>2. t >= row[s].next
    BY <1>3, <2>1
  <2>3. Table!After(Occurrences(row[s].rule), t) = Earliest({o \in Occurrences(row[s].rule) : o > t})
    BY SameSearch DEF Table!After
  <2>4. CASE Recurs(row[s].rule)
    BY <1>4, <2>1, <2>3, <2>4 DEF AfterFire, NextAfter
  <2>5. CASE ~Recurs(row[s].rule)
    <3>1. Occurrences(row[s].rule) = {row[s].next}
      BY <1>2, <2>5 DEF Pointed, Occurrences
    <3>2. {o \in Occurrences(row[s].rule) : o > t} = {}
      BY <1>3, <2>2, <3>1
    <3>3. AfterFire(row[s]) = 0
      BY <2>5 DEF AfterFire, NextAfter
    <3>4. QED
      BY <1>4, <2>1, <2>3, <3>2, <3>3 DEF Earliest
  <2>6. QED
    BY <2>4, <2>5
<1>7. \A u \in Subs : (IF Runnable(row'[u]) THEN row'[u].next ELSE 0)
                        = IF u = s THEN AfterFire(row[s]) ELSE D(u)
  BY <1>2 DEF Runnable
<1>8. \A u \in Subs : [occ |-> last'[u].occ, at |-> last'[u].at]
                        = IF u = s THEN [occ |-> D(s), at |-> now]
                          ELSE [occ |-> last[u].occ, at |-> last[u].at]
  BY <1>0, <1>1, <1>4 DEF TypeOK
<1>9. \A u \in Subs : Occurrences(row'[u].rule) = Occurrences(row[u].rule)
  BY <1>2
<1>10. QED
  <2>1. spent["store"] # 0 \/ Table!Foremost(s)
    BY <1>5 DEF Table!Foremost
  <2> HIDE DEF D
  <2>2. QED
    BY <1>1, <1>4, <1>6, <1>7, <1>8, <1>9, <2>1, <1>s DEF Table!Fire, D

\* The count of storage calls that raised never goes back.
LEMMA TroubleStays ==
  ASSUME TypeOK, Next
  PROVE  spent["store"] # 0 => spent'["store"] # 0
<1>1. (\E fs : Spend(fs)) \/ UNCHANGED spent
  <2>1. ASSUME NEW s \in Subs
        PROVE  /\ \A rule \in Rules, asked \in BOOLEAN : Create(s, rule, asked) => UNCHANGED spent
               /\ \A rule \in Rules : Edit(s, rule) => \E fs : Spend(fs)
               /\ \A st \in {"active", "paused", "cancelled"} :
                    SetStatus(s, st) => \E fs : Spend(fs)
               /\ Delete(s) => \E fs : Spend(fs)
    BY DEF Create, Edit, SetStatus, Write, Delete
  <2>2. \A e \in Due : Fire(e) \/ FireNothing(e) => (\E fs : Spend(fs)) \/ UNCHANGED spent
    BY DEF Fire, FireNothing
  <2>3. Toggle \/ EndDispatch \/ Tick \/ Crash \/ Boot => (\E fs : Spend(fs)) \/ UNCHANGED spent
    BY DEF Toggle, EndDispatch, Tick, Crash, Boot
  <2>4. QED
    BY <2>1, <2>2, <2>3 DEF Next
<1>2. QED
  BY <1>1, Spending, TypeParts DEF RestTyped

LEMMA TableStep ==
  ASSUME IInv, Pointed, Next
  PROVE  Table!Next
<1>0. TypeOK
  BY DEF IInv
<1>1. CASE \E s \in Subs : \E r : Writes(s, r)
  BY <1>0, <1>1, TableChange, TroubleStays DEF Table!Next
<1>2. CASE \E e \in Due : Fire(e)
  BY <1>0, <1>2, FiredRow, TableFire, TroubleStays DEF Table!Next
<1>3. CASE Elsewhere
  <2>1. CASE Toggle
    BY <1>0, <2>1, TroubleStays DEF Toggle, Table!Next, Table!Switch
  <2>2. CASE \E e \in Due : FireNothing(e)
    BY <1>0, <2>2, TroubleStays DEF FireNothing, Table!Next, Table!Rest
  <2>3. CASE EndDispatch
    BY <1>0, <2>3, TroubleStays DEF EndDispatch, Table!Next, Table!Return
  <2>4. CASE Tick
    BY <1>0, <2>4, TroubleStays DEF Tick, Table!Next, Table!Tick
  <2>5. CASE Crash
    BY <1>0, <2>5, TroubleStays DEF Crash, Table!Next, Table!Die
  <2>6. CASE Boot
    BY <1>0, <2>6, TroubleStays DEF Boot, Table!Next, Table!Start
  <2>7. QED
    BY <1>3, <2>1, <2>2, <2>3, <2>4, <2>5, <2>6 DEF Elsewhere
<1>4. QED
  BY <1>0, <1>1, <1>2, <1>3, RowSteps

\* The manager keeps to the timetable: a fire is of the one due first, at its time,
\* and passes over what was missed, whatever the heap, the stale entries, the order
\* of the entries and the restarts have been.
THEOREM KeepsTheTimetable == Spec => ImplementsTimetable
<1>1. Init => Pointed /\ Table!Init
  BY DEF Init, Pointed, Absent, NoFire, Runnable, Faults, Table!Init
<1>2. IInv /\ Pointed /\ [Next]_vars => Pointed'
  <2>1. TypeOK /\ Pointed /\ UNCHANGED vars => Pointed'
    BY DEF Pointed, vars
  <2>2. QED
    BY <2>1, PointedStep DEF IInv
<1>3. IInv /\ Pointed /\ [Next]_vars => [Table!Next]_(Table!vars)
  <2>1. UNCHANGED vars => UNCHANGED Table!vars
    BY DEF vars, Table!vars, Runnable
  <2>2. QED
    BY <2>1, TableStep
<1>4. QED
  BY <1>1, <1>2, <1>3, InvariantHolds, PTL DEF Spec, ImplementsTimetable, Table!Spec
=============================================================================
