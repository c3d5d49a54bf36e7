-------------------------- MODULE ScheduleManager --------------------------
(***************************************************************************)
(* The time-driven trigger engine (app/events/schedule_manager.py): a heap *)
(* of due times with lazily invalidated entries and the one task that      *)
(* sleeps until the earliest, composed with the rows it is armed from      *)
(* (storage/schedule_event_storage.py), the edits of them                  *)
(* (calendar/provider.py) and a profile's feature switch.                  *)
(*                                                                         *)
(* Every caller is on the event loop, and the storage calls are            *)
(* synchronous: an edit with its refresh is one step, and so is a fire up  *)
(* to the await of the dispatch.  Time is counted in instants at which     *)
(* something is due; 0 is no time.                                         *)
(***************************************************************************)
EXTENDS Naturals, FiniteSets, Functions

CONSTANTS
  Subs,      \* the subscriptions
  Rules,     \* the timings a subscription may be given
  Horizon,   \* the last instant of a run
  Budget,    \* how often each of these may happen
  Quota      \* how many of them may happen in all

Faults == { "edit",     \* a change of timing
            "status",   \* pause, cancel, resume
            "delete",   \* the row is deleted
            "toggle",   \* the feature switch is flipped
            "store",    \* a storage call raises
            "crash" }   \* the process dies

\* every = 0: a one-shot.
RuleType == [start : 1..Horizon, every : Nat, until : Nat]

ASSUME RulesAssumption   == Rules \subseteq RuleType
ASSUME HorizonAssumption == Horizon \in Nat \ {0}
ASSUME BudgetAssumption  == Budget \in [Faults -> Nat] /\ Quota \in Nat

VARIABLES
  row,       \* the subscription's row
  feature,   \* the profile's Calendar & Schedule switch
  heap,      \* _heap, stale entries included
  latest,    \* _latest_seq; 0: disarmed
  seq,       \* _seq
  loop,      \* _run_loop: not started, waiting, in the dispatch of a fire
  now,       \* time.time()
  last,      \* history: the last occurrence dispatched for each subscription
  spent      \* history: how much of Budget is used

manager == <<heap, latest, seq>>
vars == <<row, feature, manager, loop, now, last, spent>>

Spend(fs) ==
  /\ \A f \in fs : spent[f] < Budget[f]
  /\ SumFunction(spent) + Cardinality(fs) <= Quota
  /\ spent' = [f \in Faults |-> IF f \in fs THEN spent[f] + 1 ELSE spent[f]]

NoRule == [start |-> 0, every |-> 0, until |-> 0]
FireType == [gen : Nat, occ : Nat, at : Nat]
NoFire == [gen |-> 0, occ |-> 0, at |-> 0]
Absent == [status |-> "absent", rule |-> NoRule, next |-> 0, task |-> FALSE, gen |-> 0]

-----------------------------------------------------------------------------
(* calendar/recurrence.py                                                  *)

Recurs(rule) == rule.every # 0

\* The until bound is inclusive.
Occurrences(rule) ==
  IF Recurs(rule)
  THEN {t \in rule.start..rule.until : (t - rule.start) % rule.every = 0}
  ELSE {rule.start}

\* The first of a set of instants; 0 if there is none.
Earliest(times) ==
  IF times = {} THEN 0 ELSE CHOOSE t \in times : \A u \in times : t <= u

\* first_occurrence_on_or_after.
Seed(rule, t) == Earliest({o \in Occurrences(rule) : o >= t})

\* next_occurrence_after: nothing follows a one-shot.
NextAfter(rule, t) ==
  IF Recurs(rule) THEN Earliest({o \in Occurrences(rule) : o > t}) ELSE 0

-----------------------------------------------------------------------------
(* Arming                                                                  *)

\* A row that belongs in the heap.
Runnable(r) == r.status = "active" /\ r.next # 0

\* _arm: a fresh entry, which makes every older one of the subscription stale.
Arm(s, at) ==
  /\ seq' = seq + 1
  /\ latest' = [latest EXCEPT ![s] = seq + 1]
  /\ heap' = heap \cup {[at |-> at, seq |-> seq + 1, sub |-> s]}

\* remove: the entries stay in the heap.
Disarm(subs) ==
  /\ latest' = [s \in Subs |-> IF s \in subs THEN 0 ELSE latest[s]]
  /\ UNCHANGED <<heap, seq>>

\* Rows that belong in the heap are armed, the others removed from it.  They share
\* a number, which only tells the entries of one row apart.
ArmAll(subs) ==
  LET on == {s \in subs : Runnable(row[s])} IN
  /\ seq' = seq + 1
  /\ latest' = [s \in Subs |-> IF s \in on THEN seq + 1
                               ELSE IF s \in subs THEN 0 ELSE latest[s]]
  /\ heap' = heap \cup {[at |-> row[s].next, seq |-> seq + 1, sub |-> s] : s \in on}

\* Mutant: a row that is armed already is left as it is.
RefreshOnce(s, r) ==
  IF Runnable(r) /\ feature
  THEN IF latest[s] = 0 THEN Arm(s, r.next) ELSE UNCHANGED manager
  ELSE Disarm({s})

\* refresh, given the row just written.
Refresh(s, r) ==
  IF Runnable(r) /\ feature THEN Arm(s, r.next) ELSE Disarm({s})

\* The row is written, then refreshed; refresh logs a lookup that raises.
Write(s, r, f) ==
  /\ row' = [row EXCEPT ![s] = r]
  /\ \/ Refresh(s, r) /\ Spend({f})
     \/ Spend({f, "store"}) /\ UNCHANGED manager

-----------------------------------------------------------------------------
(* calendar/provider.py and the API                                        *)

Exists(s) == loop # "down" /\ row[s].status \notin {"absent", "deleted"}

\* Mutant: every row starts out active.
CreateActive(s, rule, asked) ==
  LET next == Seed(rule, now) IN
  /\ loop # "down" /\ row[s].status = "absent" /\ feature
  /\ row' = [row EXCEPT ![s] =
       [status |-> "active", rule |-> rule, next |-> next, gen |-> 1,
        task |-> asked /\ ~Recurs(rule)]]
  /\ IF next # 0 THEN Arm(s, next) ELSE UNCHANGED manager
  /\ UNCHANGED <<feature, loop, now, last, spent>>

\* create_event: a row with no occurrence to come is stored as completed, and is
\* no task.
Create(s, rule, asked) ==
  LET next == Seed(rule, now) IN
  /\ loop # "down" /\ row[s].status = "absent" /\ feature
  /\ row' = [row EXCEPT ![s] =
       [status |-> IF next # 0 THEN "active" ELSE "completed",
        rule |-> rule, next |-> next, gen |-> 1,
        task |-> asked /\ next # 0 /\ ~Recurs(rule)]]
  /\ IF next # 0 THEN Arm(s, next) ELSE UNCHANGED manager
  /\ UNCHANGED <<feature, loop, now, last, spent>>

\* update_event with a new timing: the pointer is seeded again, and with it the
\* status unless the row is cancelled.  A task may not become a recurrence.
Edit(s, rule) ==
  LET next == Seed(rule, now) IN
  /\ Exists(s) /\ ~(row[s].task /\ Recurs(rule))
  /\ Write(s, [row[s] EXCEPT
                 !.rule = rule, !.next = next, !.gen = @ + 1,
                 !.status = IF @ = "cancelled" THEN @
                            ELSE IF next # 0 THEN "active" ELSE "completed"],
           "edit")
  /\ UNCHANGED <<feature, loop, now, last>>

\* set_status: pausing or cancelling clears the pointer, resuming seeds it from
\* now.  A task may not be paused.
SetStatus(s, st) ==
  LET next == IF st = "active" THEN Seed(row[s].rule, now) ELSE 0 IN
  /\ Exists(s) /\ ~(row[s].task /\ st = "paused")
  /\ Write(s, [row[s] EXCEPT
                 !.next = next, !.gen = @ + 1,
                 !.status = IF st = "active" /\ next = 0 THEN "completed" ELSE st],
           "status")
  /\ UNCHANGED <<feature, loop, now, last>>

\* delete_event: the row goes and the subscription is disarmed.
Delete(s) ==
  /\ Exists(s) /\ Spend({"delete"})
  /\ row' = [row EXCEPT ![s] = [Absent EXCEPT !.status = "deleted"]]
  /\ Disarm({s})
  /\ UNCHANGED <<feature, loop, now, last>>

\* The switch is saved and the profile's rows are armed or disarmed wholesale,
\* unless they cannot be listed.
Toggle ==
  /\ loop # "down"
  /\ feature' = ~feature
  /\ \/ /\ Spend({"toggle"})
        /\ IF feature' THEN ArmAll(Subs) ELSE Disarm(Subs)
     \/ Spend({"toggle", "store"}) /\ UNCHANGED manager
  /\ UNCHANGED <<row, loop, now, last>>

-----------------------------------------------------------------------------
(* The scheduler task                                                      *)

Fresh(e) == latest[e.sub] = e.seq

Precedes(e, f) == e.at < f.at \/ (e.at = f.at /\ e.seq < f.seq)

\* The fresh entries at the top of the heap that have come due.
Due == {e \in heap : /\ Fresh(e) /\ e.at <= now
                     /\ \A f \in heap : Fresh(f) => ~Precedes(f, e)}

\* What is left when the loop has popped down to e and past it.
Below(e) == {f \in heap : f # e /\ (Fresh(f) \/ ~Precedes(f, e))}

\* Mutant: the search for the next occurrence starts at the one that fired.
AfterFireBacklog(r) == NextAfter(r.rule, r.next)

\* The next occurrence after the one that fires and after now: a backlog is
\* fired once.
AfterFire(r) == NextAfter(r.rule, IF r.next >= now THEN r.next ELSE now)

\* Mutant: the entry popped is not replaced.
AdvanceOnly(s, e) ==
  LET next == AfterFire(row[s]) IN
  /\ row' = [row EXCEPT ![s].next = next,
                        ![s].status = IF next = 0 THEN "completed" ELSE @]
  /\ heap' = Below(e) /\ latest' = [latest EXCEPT ![s] = 0] /\ UNCHANGED seq

\* update_next_fire and _arm, or claim_one_shot: before the dispatch.
Advance(s, e) ==
  LET next == AfterFire(row[s]) IN
  /\ row' = [row EXCEPT ![s].next = next,
                        ![s].status = IF next = 0 THEN "completed" ELSE @]
  /\ IF next # 0
     THEN /\ seq' = seq + 1
          /\ latest' = [latest EXCEPT ![s] = seq + 1]
          /\ heap' = Below(e) \cup {[at |-> next, seq |-> seq + 1, sub |-> s]}
     ELSE heap' = Below(e) /\ latest' = [latest EXCEPT ![s] = 0] /\ UNCHANGED seq

\* The popped entry is consumed whatever follows.
Consume(s, e) ==
  heap' = Below(e) /\ latest' = [latest EXCEPT ![s] = 0] /\ UNCHANGED seq

\* _fire, up to the await of the dispatch.
Fire(e) ==
  LET r == row[e.sub] IN
  /\ loop = "wait" /\ r.status = "active" /\ feature /\ r.next # 0
  /\ Advance(e.sub, e)
  /\ last' = [last EXCEPT ![e.sub] = [gen |-> r.gen, occ |-> r.next, at |-> now]]
  /\ loop' = "dispatch"
  /\ UNCHANGED <<feature, now, spent>>

\* The row says otherwise by now, or a storage call of _fire raises.
FireNothing(e) ==
  LET r == row[e.sub] IN
  /\ loop = "wait"
  /\ \/ ~(r.status = "active" /\ feature /\ r.next # 0) /\ UNCHANGED spent
     \/ Spend({"store"})
  /\ Consume(e.sub, e)
  /\ UNCHANGED <<row, feature, loop, now, last>>

\* The dispatch returned or raised; a failure is journalled.
EndDispatch ==
  /\ loop = "dispatch"
  /\ loop' = "wait"
  /\ UNCHANGED <<row, feature, manager, now, last, spent>>

Tick ==
  /\ now < Horizon
  /\ now' = now + 1
  /\ UNCHANGED <<row, feature, manager, loop, last, spent>>

Crash ==
  /\ loop # "down" /\ Spend({"crash"})
  /\ loop' = "down"
  /\ heap' = {} /\ seq' = 0 /\ latest' = [s \in Subs |-> 0]
  /\ UNCHANGED <<row, feature, now, last>>

\* Mutant: what came due while the process was down is not armed.
BootFuture ==
  /\ loop = "down"
  /\ loop' = "wait"
  /\ IF feature THEN ArmAll({s \in Subs : row[s].next > now}) ELSE UNCHANGED manager
  /\ UNCHANGED <<row, feature, now, last, spent>>

\* start: every active row of an enabled profile is armed, past due ones too.
Boot ==
  /\ loop = "down"
  /\ loop' = "wait"
  /\ \/ /\ IF feature THEN ArmAll(Subs) ELSE UNCHANGED manager
        /\ UNCHANGED spent
     \/ Spend({"store"}) /\ UNCHANGED manager
  /\ UNCHANGED <<row, feature, now, last>>

-----------------------------------------------------------------------------
Init ==
  /\ row = [s \in Subs |-> Absent]
  /\ feature = TRUE
  /\ heap = {} /\ latest = [s \in Subs |-> 0] /\ seq = 0
  /\ loop = "down" /\ now = 1
  /\ last = [s \in Subs |-> NoFire]
  /\ spent = [f \in Faults |-> 0]

Next ==
  \/ \E s \in Subs :
       \/ \E rule \in Rules :
            \/ \E asked \in BOOLEAN : Create(s, rule, asked)
            \/ Edit(s, rule)
       \/ \E st \in {"active", "paused", "cancelled"} : SetStatus(s, st)
       \/ Delete(s)
  \/ Toggle
  \/ \E e \in Due : Fire(e) \/ FireNothing(e)
  \/ EndDispatch \/ Tick \/ Crash \/ Boot

Spec == Init /\ [][Next]_vars

\* The clock runs, the scheduler task is woken when something is due, a dispatch
\* returns, and a process that died is started again.
Fairness ==
  /\ WF_vars(Tick) /\ WF_vars(EndDispatch) /\ WF_vars(Boot)
  /\ WF_vars(\E e \in Due : Fire(e) \/ FireNothing(e))

FairSpec == Spec /\ Fairness

-----------------------------------------------------------------------------
(* Properties                                                              *)

\* Every variable keeps its type, and an active row has a time to fire at.
TypeOK ==
  /\ \A s \in Subs : row[s].status = "active" => row[s].next # 0
  /\ row \in [Subs -> [status : { "absent", "active", "completed", "paused",
                                  "cancelled", "deleted" },
                       rule : Rules \cup {NoRule}, next : Nat,
                       task : BOOLEAN, gen : Nat]]
  /\ feature \in BOOLEAN
  /\ \A e \in heap : e \in [at : Nat, seq : Nat, sub : Subs]
  /\ latest \in [Subs -> Nat] /\ seq \in Nat
  /\ loop \in {"down", "wait", "dispatch"} /\ now \in 1..Horizon
  /\ last \in [Subs -> FireType]
  /\ spent \in [Faults -> Nat]

\* The heap agrees with the rows, stale entries aside: while the process is up
\* and no storage call has raised, a subscription has a fresh entry exactly when
\* it is active in an enabled profile, and the entry is due when the row says.
HeapMatchesRows ==
  loop # "down" /\ spent["store"] = 0 =>
    \A s \in Subs :
      LET armed == {e \in heap : e.sub = s /\ Fresh(e)} IN
      IF row[s].status = "active" /\ row[s].next # 0 /\ feature
      THEN \E e \in armed : armed = {e} /\ e.at = row[s].next
      ELSE armed = {}

\* An occurrence is never dispatched before its time, an edit's stale entry
\* notwithstanding, unless a refresh lost its lookup.
NeverEarly ==
  spent["store"] = 0 => \A s \in Subs : last[s].occ <= last[s].at

\* Between two changes of a subscription each fire is of a later occurrence than
\* the one before, and of one later than the moment that one was dispatched:
\* crashes, restarts and a clock that passed several slots dispatch nothing twice
\* and replay no backlog.
NoReplay ==
  [][\A s \in Subs :
       last'[s] # last[s] /\ last'[s].gen = last[s].gen =>
         last'[s].occ > last[s].at /\ last'[s].occ > last[s].occ]_vars

\* A row seen as a timetable, and the manager as what keeps to it.
Table == INSTANCE Timetable WITH
  times   <- [s \in Subs |-> Occurrences(row[s].rule)],
  due     <- [s \in Subs |-> IF Runnable(row[s]) THEN row[s].next ELSE 0],
  fired   <- [s \in Subs |-> [occ |-> last[s].occ, at |-> last[s].at]],
  on      <- feature,
  server  <- loop,
  trouble <- spent["store"] # 0

\* The heap, its stale entries, the order of its entries and the restarts do not
\* show: the manager does what a scheduler would that looked at the rows alone and
\* fired the one due first.
ImplementsTimetable == Table!Spec

Overdue(s) == Runnable(row[s]) /\ feature /\ row[s].next <= now

\* What has come due is dispatched, unless somebody changes the row or the switch
\* first, across stale entries, dispatches of other rows and restarts; only a
\* storage call that raises keeps it waiting.
OverdueIsServed ==
  \A s \in Subs : Overdue(s) ~> (~Overdue(s) \/ spent["store"] > 0)

\* "Schedule tasks are never scanned: they fire at a known time, so 'it never
\* happened' is not a state they can reach" (task_timeout_manager.py:18-19): a
\* task that is over has fired.
TaskHappens ==
  \A s \in Subs : row[s].task /\ row[s].status = "completed" => last[s] # NoFire
=============================================================================
