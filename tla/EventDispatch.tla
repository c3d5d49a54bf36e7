--------------------------- MODULE EventDispatch ---------------------------
(***************************************************************************)
(* How a fired trigger becomes an isolated run                             *)
(* (app/events/run_dispatcher.py): a FIFO and one worker per rule, a       *)
(* process-wide semaphore, the gate and the claim of a one-shot, the run   *)
(* row, and the stages of the trigger turn in its hidden conversation      *)
(* (stream_runner.run_agent_to_bus).  A reply typed in that conversation   *)
(* runs on another worker, the conversation's own (queue.py), so two turns *)
(* of one run may meet.                                                    *)
(*                                                                         *)
(* The delivery of the result is TaskDelivery; what becomes of each typed  *)
(* message is MidTurnMessages.                                             *)
(***************************************************************************)
EXTENDS Naturals, Sequences, FiniteSets

CONSTANTS
  Fires,    \* the triggers that occur; each makes at most one run
  Rules,    \* the subscriptions they belong to
  RuleOf,   \* the rule of each
  Once,     \* the one-shot rules
  Slots,    \* max_parallel_runs
  Allowed,  \* the faults and user interventions that may happen, each once
  Quota     \* how many of them may happen in one behaviour

Who   == {"fire", "reply"}   \* the trigger turn; a turn of the conversation's queue
Turns == Fires \X Who

Faults == { "stop",    \* Stop while the agent loop of a turn runs
            "kill",    \* Stop at another await of a turn
            "raise",   \* a turn raises outside its agent loop
            "db",      \* a database call raises
            "reply",   \* the user writes in a run's hidden conversation
            "again",   \* and once more, there or in another
            "remove",  \* a rule is deleted
            "crash" }  \* the process dies and boots again

ASSUME RuleAssumption   == RuleOf \in [Fires -> Rules] /\ Once \subseteq Rules
ASSUME SlotsAssumption  == Slots \in Nat \ {0}
ASSUME FaultAssumption  == Allowed \subseteq Faults /\ Quota \in Nat

VARIABLES
  task,     \* task_status of a rule; "standing" for those without one
  queue,    \* _sub_queues
  line,     \* the workers waiting for the semaphore, first come first served
  free,     \* the semaphore's value
  dead,     \* rules whose worker task has ended
  at,       \* where the job of a trigger is
  status,   \* event_runs.status; "absent" before the insert, "deleted" after
  rid,      \* event_runs.run_id: whose turn a deletion would cancel
  stage,    \* where each turn is in run_agent_to_bus
  bound,    \* task_result_inbox._conv_to_run of the hidden conversation
  parked,   \* a reply waits in the inbox of the hidden conversation
  replies,  \* turns in the hidden conversation's queue
  gone,     \* runs whose conversation's worker task has ended
  removing, \* rules whose runs are deleted and whose row is about to be
  orphaned, \* history: runs a turn of which ended with its outcome unwritten
  spent     \* history: the faults that happened

dispatch == <<queue, line, free, dead, at>>
conv     == <<bound, parked, replies, gone>>
vars == <<task, dispatch, status, rid, stage, conv, removing, orphaned, spent>>

Spend(f) ==
  /\ f \in Allowed \ spent /\ Cardinality(spent) < Quota
  /\ spent' = spent \cup {f}

\* TaskSubscriptionMixin._claim: one conditional UPDATE of task_status.
Moved(s, from, to) == [task EXCEPT ![s] = IF @ = from THEN to ELSE @]

\* Where a job holds a slot.
Holding == {"gate", "create", "run"}
Handled == {"over", "rejected", "spent", "failed"}

GoJob(f, pc)  == at' = [at EXCEPT ![f] = pc]
GoTurn(t, pc) == stage' = [stage EXCEPT ![t] = pc]

\* The worker leaves "async with sem" and waits for its next job.
Leave(f, pc) == GoJob(f, pc) /\ free' = free + 1

\* Busy: the rule's worker has taken a job and not returned from it.
Busy(s) == \E f \in Fires : RuleOf[f] = s /\ at[f] \in {"line"} \cup Holding

-----------------------------------------------------------------------------
(* The per-rule queue, the semaphore and _execute up to the turn           *)

\* A manager's fan-out: a spent one-shot is skipped, any other rule's job goes
\* on its queue.  _ensure_worker starts a worker with the queue, never again.
Dispatch(f) ==
  /\ at[f] = "new" /\ task[RuleOf[f]] \in {"standing", "active"}
  /\ queue' = [queue EXCEPT ![RuleOf[f]] = Append(@, f)]
  /\ GoJob(f, "queued")
  /\ UNCHANGED <<task, line, free, dead, status, rid, stage, conv, removing, orphaned, spent>>

\* The worker takes its next job and asks for a slot.
Take(s) ==
  /\ s \notin dead /\ ~Busy(s) /\ queue[s] # <<>>
  /\ GoJob(Head(queue[s]), "line")
  /\ queue' = [queue EXCEPT ![s] = Tail(@)]
  /\ line' = Append(line, Head(queue[s]))
  /\ UNCHANGED <<task, free, dead, status, rid, stage, conv, removing, orphaned, spent>>

\* Mutant: a dropped job gives back its slot twice.
EnterDroppedTwice ==
  /\ line # <<>> /\ free > 0
  /\ line' = Tail(line)
  /\ LET f == Head(line) IN
       IF RuleOf[f] \in Once /\ task[RuleOf[f]] # "active"
       THEN Leave(f, "spent")
       ELSE GoJob(f, "gate") /\ free' = free - 1
  /\ UNCHANGED <<task, queue, dead, status, rid, stage, conv, removing, orphaned, spent>>

\* A slot is granted, and with no await in between a one-shot that is no longer
\* armed is dropped (_task_still_armed).
Enter ==
  /\ line # <<>> /\ free > 0
  /\ line' = Tail(line)
  /\ LET f == Head(line) IN
       IF RuleOf[f] \in Once /\ task[RuleOf[f]] # "active"
       THEN GoJob(f, "spent") /\ UNCHANGED free
       ELSE GoJob(f, "gate")  /\ free' = free - 1
  /\ UNCHANGED <<task, queue, dead, status, rid, stage, conv, removing, orphaned, spent>>

\* Mutant: the row count of the claim's UPDATE is not looked at.
MatchUnclaimed(f) ==
  /\ at[f] = "gate"
  /\ task' = Moved(RuleOf[f], "active", "triggered")
  /\ GoJob(f, "create")
  /\ UNCHANGED <<queue, line, free, dead, status, rid, stage, conv, removing, orphaned, spent>>

\* The gate lets the event through, or fails and lets it through; the one-shot
\* is claimed.  A lost claim drops the job.
Match(f) ==
  /\ at[f] = "gate"
  /\ LET s == RuleOf[f] IN
       IF s \in Once /\ task[s] # "active"
       THEN Leave(f, "spent") /\ UNCHANGED task
       ELSE GoJob(f, "create") /\ task' = Moved(s, "active", "triggered") /\ UNCHANGED free
  /\ UNCHANGED <<queue, line, dead, status, rid, stage, conv, removing, orphaned, spent>>

\* The claim raises: taken for a lost one, though the rule stays armed.
ClaimFails(f) ==
  /\ at[f] = "gate" /\ RuleOf[f] \in Once /\ Spend("db")
  /\ Leave(f, "spent")
  /\ UNCHANGED <<task, queue, line, dead, status, rid, stage, conv, removing, orphaned>>

\* The gate rejects: no claim, no run.
Reject(f) ==
  /\ at[f] = "gate"
  /\ Leave(f, "rejected")
  /\ UNCHANGED <<task, queue, line, dead, status, rid, stage, conv, removing, orphaned, spent>>

\* Conversation and row are created and the turn is entered.
CreateRun(f) ==
  /\ at[f] = "create"
  /\ status' = [status EXCEPT ![f] = "running"]
  /\ GoJob(f, "run") /\ GoTurn(<<f, "fire">>, "start")
  /\ UNCHANGED <<task, queue, line, free, dead, rid, conv, removing, orphaned, spent>>

\* Mutant: the error path returns with the slot.
CreateFailsHolding(f) ==
  /\ at[f] = "create" /\ Spend("db")
  /\ task' = Moved(RuleOf[f], "triggered", "active")
  /\ GoJob(f, "failed")
  /\ UNCHANGED <<queue, line, free, dead, status, rid, stage, conv, removing, orphaned>>

\* Creating either raises: what exists is discarded, the claim is reverted.
CreateFails(f) ==
  /\ at[f] = "create" /\ Spend("db")
  /\ task' = Moved(RuleOf[f], "triggered", "active")
  /\ Leave(f, "failed")
  /\ UNCHANGED <<queue, line, dead, status, rid, stage, conv, removing, orphaned>>

\* TaskTimeoutManager.sweep_once: the deadline of a one-shot passed.
TimeoutClaim(s) ==
  /\ task[s] = "active"
  /\ task' = [task EXCEPT ![s] = "timed_out"]
  /\ UNCHANGED <<dispatch, status, rid, stage, conv, removing, orphaned, spent>>

-----------------------------------------------------------------------------
(* The stages of a turn                                                    *)

\* update_status of a row that may have been deleted: no row, no effect.
Wrote(f, s) == [status EXCEPT ![f] = IF @ = "deleted" THEN @ ELSE s]

\* The row becomes this turn's: running, its run_id the target of a cancel.
TurnMark(t) ==
  /\ stage[t] = "start"
  /\ status' = Wrote(t[1], "running")
  /\ rid' = [rid EXCEPT ![t[1]] = t[2]]
  /\ GoTurn(t, "early")
  /\ UNCHANGED <<task, dispatch, conv, removing, orphaned, spent>>

\* The write raises: logged, the turn goes on.
TurnMarkFails(t) ==
  /\ stage[t] = "start" /\ Spend("db")
  /\ GoTurn(t, "early")
  /\ UNCHANGED <<task, dispatch, status, rid, conv, removing, orphaned>>

\* bind_run, the first statement of the try.
TurnBind(t) ==
  /\ stage[t] = "early"
  /\ bound' = [bound EXCEPT ![t[1]] = t[2]]
  /\ GoTurn(t, "agent")
  /\ UNCHANGED <<task, dispatch, status, rid, parked, replies, gone, removing, orphaned, spent>>

\* The agent's next step takes what waits in the inbox.
Absorb(t) ==
  /\ stage[t] = "agent" /\ parked[t[1]]
  /\ parked' = [parked EXCEPT ![t[1]] = FALSE]
  /\ UNCHANGED <<task, dispatch, status, rid, stage, bound, replies, gone, removing, orphaned, spent>>

LoopEnds(t) ==
  /\ stage[t] = "agent"
  /\ GoTurn(t, "finish")
  /\ UNCHANGED <<task, dispatch, status, rid, conv, removing, orphaned, spent>>

\* Stop inside the agent loop is caught there.
Stop(t) ==
  /\ stage[t] = "agent" /\ Spend("stop")
  /\ GoTurn(t, "stopped")
  /\ UNCHANGED <<task, dispatch, status, rid, conv, removing, orphaned>>

\* The row has an outcome, or a turn queued that will write one.
Settles(f) == orphaned' = orphaned \ {f}

\* Stages from which a turn still writes its outcome to the row.
Unwritten == {"start", "early", "agent", "stopped", "finish", "failing"}

\* The turn will not write its outcome, if it has not yet.
Orphans(t) == orphaned' = IF stage[t] \in Unwritten THEN orphaned \cup {t[1]} ELSE orphaned

\* Mutant: only a turn that was not stopped has its outcome recorded.
TurnWriteUnstopped(t) ==
  /\ stage[t] \in {"finish", "stopped"}
  /\ IF stage[t] = "stopped"
     THEN UNCHANGED <<status, rid, orphaned>>
     ELSE /\ \E s \in {"done", "pending"} : status' = Wrote(t[1], s)
          /\ rid' = [rid EXCEPT ![t[1]] = t[2]] /\ Settles(t[1])
  /\ GoTurn(t, "hook")
  /\ UNCHANGED <<task, dispatch, conv, removing, spent>>

\* 6c: the final status is written, with the run id; 6d and what follows come next.
TurnWrite(t) ==
  /\ stage[t] \in {"finish", "stopped"}
  /\ \E s \in IF stage[t] = "stopped" THEN {"cancelled"} ELSE {"done", "pending"} :
       status' = Wrote(t[1], s)
  /\ rid' = [rid EXCEPT ![t[1]] = t[2]]
  /\ GoTurn(t, "hook") /\ Settles(t[1])
  /\ UNCHANGED <<task, dispatch, conv, removing, spent>>

\* The write raises: logged, the row keeps its status.
TurnWriteFails(t) ==
  /\ stage[t] \in {"finish", "stopped"} /\ Spend("db")
  /\ GoTurn(t, "hook") /\ Orphans(t)
  /\ UNCHANGED <<task, dispatch, status, rid, conv, removing>>

\* unbind_run drops the binding if it is still this turn's.
Unbound(t) == [bound EXCEPT ![t[1]] = IF @ = t[2] THEN "none" ELSE @]

\* The finally block begins with the unbind.
TurnEnd(t) ==
  /\ stage[t] = "hook"
  /\ bound' = Unbound(t)
  /\ GoTurn(t, "leave")
  /\ UNCHANGED <<task, dispatch, status, rid, parked, replies, gone, removing, orphaned, spent>>

\* What waits in the inbox becomes a follow-up turn, if there is a conversation.
FollowUp(f) == parked[f] /\ status[f] # "deleted"

\* The finally block goes on with the inbox.  A message that is queued starts the
\* conversation's worker again if it has ended, but not the one that queues it.
Flush(t) ==
  /\ parked' = [parked EXCEPT ![t[1]] = FALSE]
  /\ replies' = [replies EXCEPT ![t[1]] = IF FollowUp(t[1]) THEN @ + 1 ELSE @]
  /\ gone' = IF t[2] = "reply" /\ stage[t] = "dying" THEN gone \cup {t[1]}
             ELSE IF FollowUp(t[1]) THEN gone \ {t[1]} ELSE gone

\* A turn is left.  Cancelled, it takes its worker with it, and releases its slot
\* on the way out.
Left(t) ==
  /\ Flush(t)
  /\ GoTurn(t, "off")
  /\ IF t[2] = "reply"
     THEN UNCHANGED <<at, free, dead>>
     ELSE IF stage[t] = "dying"
     THEN Leave(t[1], "killed") /\ dead' = dead \cup {RuleOf[t[1]]}
     ELSE Leave(t[1], "over") /\ UNCHANGED dead
  /\ UNCHANGED <<task, queue, line, rid, bound, removing>>

\* A turn returns, is cancelled, or is a trigger turn that raised, which
\* _execute records as failed.
TurnLeave(t) ==
  /\ stage[t] \in {"leave", "failing", "dying"}
  /\ Left(t)
  /\ IF stage[t] = "failing"
     THEN status' = Wrote(t[1], "done") /\ Settles(t[1])
     ELSE UNCHANGED <<status, orphaned>>
  /\ UNCHANGED spent

\* That record raises too: logged.
FailureUnwritten(t) ==
  /\ stage[t] = "failing" /\ Spend("db")
  /\ Left(t) /\ Orphans(t)
  /\ UNCHANGED status

\* Where a turn is inside its try.
Tried == {"agent", "finish", "stopped", "hook"}

\* A turn raises inside the try but outside the agent loop.  Of a trigger turn
\* _execute hears; a reply turn's exception ends in its worker, which goes on.
Raise(t) ==
  /\ stage[t] \in Tried /\ Spend("raise")
  /\ bound' = Unbound(t)
  /\ \/ t[2] = "fire"  /\ GoTurn(t, "failing") /\ UNCHANGED orphaned
     \/ t[2] = "reply" /\ GoTurn(t, "leave") /\ Orphans(t)
  /\ UNCHANGED <<task, dispatch, status, rid, parked, replies, gone, removing>>

\* Between its registration in _running_runs and its try; a reply's run id is
\* known to who sent it, a trigger turn's only from the row it marks.
Untried(t) == stage[t] = "early" \/ (t[2] = "reply" /\ stage[t] = "start")

\* Mutant: a cancelled worker keeps its slot.
KillEarlyHolding(t) ==
  /\ Untried(t) /\ Spend("kill")
  /\ GoTurn(t, "off") /\ Orphans(t)
  /\ IF t[2] = "fire"
     THEN GoJob(t[1], "killed") /\ dead' = dead \cup {RuleOf[t[1]]} /\ UNCHANGED gone
     ELSE gone' = gone \cup {t[1]} /\ UNCHANGED <<at, dead>>
  /\ UNCHANGED <<task, queue, line, free, status, rid, bound, parked, replies, removing>>

\* Stop before the try: nothing catches it, neither in the turn nor in either
\* worker.  The rule's worker is not replaced, the conversation's is by the next
\* message.
KillEarly(t) ==
  /\ Untried(t) /\ Spend("kill")
  /\ GoTurn(t, "off") /\ Orphans(t)
  /\ IF t[2] = "fire"
     THEN Leave(t[1], "killed") /\ dead' = dead \cup {RuleOf[t[1]]} /\ UNCHANGED gone
     ELSE gone' = gone \cup {t[1]} /\ UNCHANGED <<at, free, dead>>
  /\ UNCHANGED <<task, queue, line, status, rid, bound, parked, replies, removing>>

\* Stop inside the try and outside the agent loop: the finally block runs, then
\* the worker ends.
Kill(t) ==
  /\ stage[t] \in Tried /\ Spend("kill")
  /\ bound' = Unbound(t)
  /\ GoTurn(t, "dying") /\ Orphans(t)
  /\ UNCHANGED <<task, dispatch, status, rid, parked, replies, gone, removing>>

TurnStep(t) ==
  \/ TurnMark(t) \/ TurnBind(t) \/ LoopEnds(t)
  \/ TurnWrite(t) \/ TurnEnd(t) \/ TurnLeave(t)

-----------------------------------------------------------------------------
(* Replies, removal of a rule, restart                                     *)

\* POST in the hidden conversation: a bound turn takes the message, otherwise
\* the row is set to running and a turn is queued.  At its cap the inbox of a
\* bound turn refuses, and the message is queued as well.  _ensure_worker starts
\* a worker in the place of one that has ended.
Reply(f) ==
  /\ status[f] \notin {"absent", "deleted"}
  /\ Spend(IF "reply" \in spent THEN "again" ELSE "reply")
  /\ \/ /\ bound[f] # "none"
        /\ parked' = [parked EXCEPT ![f] = TRUE]
        /\ UNCHANGED <<status, replies, gone, orphaned>>
     \/ /\ status' = [status EXCEPT ![f] = "running"]
        /\ replies' = [replies EXCEPT ![f] = @ + 1]
        /\ gone' = gone \ {f} /\ Settles(f)
        /\ UNCHANGED parked
  /\ UNCHANGED <<task, dispatch, rid, stage, bound, removing>>

\* The conversation's worker starts its next turn.
ReplyStart(f) ==
  /\ f \notin gone /\ stage[<<f, "reply">>] = "off" /\ replies[f] > 0
  /\ replies' = [replies EXCEPT ![f] = @ - 1]
  /\ GoTurn(<<f, "reply">>, "start")
  /\ UNCHANGED <<task, dispatch, status, rid, bound, parked, gone, removing, orphaned, spent>>

RunsOf(s) == {f \in Fires : RuleOf[f] = s /\ status[f] \notin {"absent", "deleted"}}

\* What task.cancel() does to a turn: caught in the agent loop, fatal elsewhere.
Interrupted(pc) ==
  CASE pc = "agent" -> "stopped"
    [] pc \in {"start", "early", "finish", "stopped", "hook"} -> "dying"
    [] OTHER -> pc

\* delete_runs_for_subscription: the turn each running row names is cancelled,
\* the rows go, and the hidden conversations with their queues and workers.
RemoveRuns(s) ==
  /\ task[s] # "removed" /\ s \notin removing /\ Spend("remove")
  /\ LET hit == {t \in RunsOf(s) \X Who :
                   t[2] = "reply" \/ (status[t[1]] = "running" /\ rid[t[1]] = "fire")}
     IN  /\ stage' = [t \in Turns |-> IF t \in hit THEN Interrupted(stage[t]) ELSE stage[t]]
         /\ bound' = [f \in Fires |->
              IF <<f, bound[f]>> \in hit /\ stage'[<<f, bound[f]>>] = "dying" THEN "none" ELSE bound[f]]
  /\ status' = [f \in Fires |-> IF f \in RunsOf(s) THEN "deleted" ELSE status[f]]
  /\ replies' = [f \in Fires |-> IF f \in RunsOf(s) THEN 0 ELSE replies[f]]
  /\ removing' = removing \cup {s}
  /\ UNCHANGED <<task, dispatch, rid, parked, gone, orphaned>>

\* store.delete: the rule is gone; its queue and worker are not.
RemoveRule(s) ==
  /\ s \in removing
  /\ removing' = removing \ {s}
  /\ task' = [task EXCEPT ![s] = "removed"]
  /\ UNCHANGED <<dispatch, status, rid, stage, conv, orphaned, spent>>

\* Crash, and boot's recover_after_restart before anything else: queues,
\* workers and turns are gone, a running row is failed.
Restart ==
  /\ Spend("crash")
  /\ queue' = [s \in Rules |-> <<>>] /\ line' = <<>> /\ free' = Slots /\ dead' = {}
  /\ at' = [f \in Fires |-> IF at[f] \in {"queued", "line"} \cup Holding THEN "lost" ELSE at[f]]
  /\ stage' = [t \in Turns |-> "off"]
  /\ bound' = [f \in Fires |-> "none"]
  /\ parked' = [f \in Fires |-> FALSE]
  /\ replies' = [f \in Fires |-> 0]
  /\ removing' = {} /\ gone' = {} /\ orphaned' = {}
  /\ status' = [f \in Fires |-> IF status[f] = "running" THEN "done" ELSE status[f]]
  /\ UNCHANGED <<task, rid>>

-----------------------------------------------------------------------------
Init ==
  /\ task   = [s \in Rules |-> IF s \in Once THEN "active" ELSE "standing"]
  /\ queue  = [s \in Rules |-> <<>>] /\ line = <<>>
  /\ free   = Slots /\ dead = {}
  /\ at     = [f \in Fires |-> "new"]
  /\ status = [f \in Fires |-> "absent"]
  /\ rid    = [f \in Fires |-> "none"]
  /\ stage  = [t \in Turns |-> "off"]
  /\ bound  = [f \in Fires |-> "none"]
  /\ parked  = [f \in Fires |-> FALSE]
  /\ replies = [f \in Fires |-> 0]
  /\ removing = {} /\ gone = {} /\ orphaned = {}
  /\ spent = {}

JobStep(f)  == Match(f) \/ Reject(f) \/ CreateRun(f)
JobFault(f) == ClaimFails(f) \/ CreateFails(f) \/ Reply(f)
TurnFault(t) ==
  \/ TurnMarkFails(t) \/ TurnWriteFails(t) \/ FailureUnwritten(t)
  \/ Stop(t) \/ Raise(t) \/ KillEarly(t) \/ Kill(t) \/ Absorb(t)

Next ==
  \/ \E f \in Fires : Dispatch(f) \/ JobStep(f) \/ JobFault(f) \/ ReplyStart(f)
  \/ \E s \in Rules : Take(s) \/ TimeoutClaim(s) \/ RemoveRuns(s) \/ RemoveRule(s)
  \/ \E t \in Turns : TurnStep(t) \/ TurnFault(t)
  \/ Enter \/ Restart

Spec == Init /\ [][Next]_vars

\* The event loop runs every rule's worker that can run, the semaphore is first
\* come first served, and an agent loop ends (it has a step limit).  Triggers,
\* users, faults and the conversations' workers are free.
Fairness ==
  /\ \A f \in Fires : WF_vars(JobStep(f) \/ TurnStep(<<f, "fire">>))
  /\ \A s \in Rules : WF_vars(Take(s)) /\ WF_vars(RemoveRule(s))
  /\ WF_vars(Enter)

FairSpec == Spec /\ Fairness

-----------------------------------------------------------------------------
(* Properties                                                              *)

\* Every variable stays in the range the code gives it.
TypeOK ==
  /\ task \in [Rules -> {"standing", "active", "triggered", "timed_out", "removed"}]
  /\ queue \in [Rules -> Seq(Fires)]
  /\ line \in Seq(Fires)
  /\ free \in 0..Slots
  /\ dead \in SUBSET Rules
  /\ at \in [Fires -> {"new", "queued", "line", "killed", "lost"} \cup Holding \cup Handled]
  /\ status \in [Fires -> {"absent", "running", "pending", "done", "cancelled", "deleted"}]
  /\ rid \in [Fires -> {"none"} \cup Who]
  /\ stage \in [Turns -> {"off", "start", "early", "agent", "stopped", "finish",
                          "hook", "leave", "failing", "dying"}]
  /\ bound \in [Fires -> {"none"} \cup Who]
  /\ parked \in [Fires -> BOOLEAN]
  /\ replies \in [Fires -> Nat]
  /\ gone \in SUBSET Fires
  /\ removing \in SUBSET Rules
  /\ orphaned \in SUBSET Fires
  /\ spent \in SUBSET Faults

\* run_dispatcher.py:249: the single firing of a one-shot is consumed once, by
\* one of its triggers or by its deadline, whatever happens between the cheap
\* check, the gate's answer and the claim, and across reverted claims.
OneOutcome == \A s \in Once :
  LET ran == {f \in Fires : RuleOf[f] = s /\ status[f] # "absent"}
  IN  /\ Cardinality(ran) <= 1
      /\ task[s] = "timed_out" => ran = {}

\* run_dispatcher.py:8, the global bound: however a job ends, dropped, failed,
\* over or cancelled with its worker, its slot is free again, and only once.
SlotsConserved == free + Cardinality({f \in Fires : at[f] \in Holding}) = Slots

\* A row says "running" only while some turn of its conversation is queued or
\* has its outcome still to write: with two turns in one conversation, Stop,
\* replies, removals and boots, no row is left running otherwise.  The code does
\* leave one in these cases, until its next message or the next boot: a turn of
\* it ended with no outcome written (cancelled outside its agent loop, a reply
\* turn that raised there, a failed write), or its conversation's worker was
\* cancelled with the message still queued.
RunningIsLive == \A f \in Fires :
  status[f] = "running" /\ f \notin orphaned \cup gone
  => replies[f] > 0 \/ \E w \in Who : stage[<<f, w>>] \in Unwritten

\* Every queued trigger is run, rejected, dropped as spent or journalled as
\* failed, unless the process dies first or its own rule's worker was killed:
\* the death of one rule's worker never starves another rule.
EventuallyHandled == \A f \in Fires :
  at[f] = "queued" ~> (at[f] \in Handled \cup {"lost"} \/ RuleOf[f] \in dead)

\* "[cli]cremind skill-events.md":144: a standing rule "keeps firing, and
\* reporting, indefinitely": a trigger queued for one gets its run.
StandingKeepsFiring == \A f \in Fires :
  RuleOf[f] \notin Once /\ at[f] = "queued" ~> at[f] \in Handled \cup {"lost"}
=============================================================================
