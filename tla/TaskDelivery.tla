---------------------------- MODULE TaskDelivery ----------------------------
(***************************************************************************)
(* How the result of an event run is handed back to the conversation that  *)
(* registered the rule (app/events/event_task_delivery.py), together with  *)
(* the state it works on: the event_runs rows, the task_status of one-shot *)
(* rules, the transient inbox (task_result_inbox.py), the origin's turns   *)
(* (queue.py, stream_runner.py) and the boot sequence (server.py).         *)
(*                                                                         *)
(* One origin conversation: everything below is keyed by its id in the     *)
(* code, so results owed to different conversations never meet.  A run r   *)
(* stands for one firing; for r \in Once it is also the rule, because a    *)
(* one-shot rule has at most one firing.                                   *)
(*                                                                         *)
(* Coroutines interleave at their awaits: every action below is one        *)
(* stretch between two awaits, or one database transaction.                *)
(***************************************************************************)
EXTENDS Naturals, Sequences, FiniteSets

CONSTANTS
  Runs,     \* event runs whose result is deliverable (deliver_to_origin)
  Once,     \* those of one-shot rules (trigger_payload["once"])
  Cap,      \* max_results_per_delivery: standing results in one turn
  Budget,   \* how often each fault or user intervention may happen
  Quota     \* how many of them may meet in one behavior

\* The two deliverers that are not the terminal hook of a run.
Turn == "turn"    \* the origin's own turn: get_event_task_results and the turn-end flush
Boot == "boot"    \* sweep_undelivered, run sequentially at boot
NoJob == <<"none", "none">>
Deliverers == Runs \cup {Turn, Boot}

Faults == { "turn",      \* an ordinary user message starts a turn of the origin
            "reply",     \* the user replies in a run's hidden conversation
            "delete",    \* the user deletes a run row
            "drop",      \* the origin conversation is deleted
            "stop_run",  \* Stop on a hidden run while its terminal hook runs
            "stop_turn", \* Stop on the origin's turn while it reads the inbox
            "db",        \* a database call raises
            "enqueue",   \* composing or enqueueing the continuation raises
            "crash" }    \* the process dies

ASSUME RunsAssumption   == Turn \notin Runs /\ Boot \notin Runs
ASSUME OnceAssumption   == Once \subseteq Runs
ASSUME CapAssumption    == Cap \in Nat
ASSUME BudgetAssumption == Budget \in [Faults -> Nat] /\ Quota \in Nat

VARIABLES
  task,       \* task_status of a one-shot's rule; "standing" for the others
  status,     \* event_runs.status; "absent" before the insert, "deleted" after
  delivered,  \* event_runs.origin_delivered_at IS NOT NULL
  mode,       \* event_runs.origin_delivery_mode
  origin,     \* the origin conversation: "live" or "gone"
  bound,      \* task_result_inbox._conv_to_run has the origin
  marker,     \* task_result_inbox._pending[origin]
  queue,      \* the origin's FIFO of turns; each carries the results injected by it
  turn,       \* where the origin's worker is in its current turn
  carried,    \* the results the current turn was started with
  at,         \* where each deliverer is ("off": not running)
  job,        \* what the boot sweep passes to on_run_terminal: a row, its status
  todo,       \* rows a deliverer still has to claim (or, later, to finish)
  drop,       \* rows a deliverer still has to close out
  mine,       \* rows a deliverer claimed and has not disposed of
  phase,      \* "down", "boot" (recovered), "sweep" (the boot sweep runs), "up"
  sweep,      \* rows the boot sweep still has to visit, with the status listed
  told,       \* history: how often the origin's agent was handed each result
  spent       \* history: how much of Budget is used

rowVars  == <<task, status, delivered, mode>>
convVars == <<bound, marker, queue, turn, carried>>
procVars == <<at, todo, drop, mine>>
bootVars == <<phase, sweep, job>>
vars == <<rowVars, origin, convVars, procVars, bootVars, told, spent>>

\* "completed" and "failed" are one value here: delivery never tells them apart.
Terminal == {"done", "cancelled"}
Active   == {"running", "pending"}

\* Mutant: the UPDATE lost its "origin_delivered_at IS NULL".
ClaimableTwice(r) == status[r] \in Terminal

\* A terminal row nobody has claimed: what claim_delivery's UPDATE can match.
Claimable(r) == status[r] \in Terminal /\ ~delivered[r]

\* list_pending_for_origin: the inbox.  A deleted origin leaves NULL behind.
Inbox == IF origin = "live"
         THEN {r \in Runs : Claimable(r) /\ status[r] # "cancelled"}
         ELSE {}

\* Mutant: the volume bounds apply to one-shot rows too.
PartitionAll(rows, over) ==
  /\ over \subseteq rows
  /\ Cardinality(rows \ over) <= Cap

\* _partition_pending: only standing rows are closed out, those past the age
\* bound and all but the newest Cap of the rest; a one-shot row is always kept.
\* Which standing rows are left depends on clock and finish order alone.
Partition(rows, over) ==
  /\ over \subseteq rows \ Once
  /\ Cardinality((rows \ Once) \ over) <= Cap

Spend(f) ==
  /\ spent[f] < Budget[f]
  /\ Cardinality({g \in Faults : spent[g] > 0} \cup {f}) <= Quota
  /\ spent' = [spent EXCEPT ![f] = @ + 1]

\* TaskSubscriptionMixin._claim: one conditional UPDATE of task_status.
Moved(r, from, to) == [task EXCEPT ![r] = IF @ = from THEN to ELSE @]

Goto(d, pc) == at' = [at EXCEPT ![d] = pc]

\* A deliverer returns to its caller and its locals go out of scope.
Return(d) ==
  /\ Goto(d, "off")
  /\ todo' = [todo EXCEPT ![d] = {}]
  /\ drop' = [drop EXCEPT ![d] = {}]
  /\ mine' = [mine EXCEPT ![d] = {}]

-----------------------------------------------------------------------------
(* Firing, running and timing out                                          *)

\* run_dispatcher._execute up to the claim: a one-shot's single firing is
\* consumed by the conditional UPDATE active -> triggered.
ClaimFire(r) ==
  /\ phase # "down" /\ origin = "live"
  /\ at[r] = "off" /\ status[r] = "absent"
  /\ r \in Once => task[r] = "active"
  /\ task' = Moved(r, "active", "triggered")
  /\ Goto(r, "create")
  /\ UNCHANGED <<status, delivered, mode, origin, convVars, todo, drop, mine, bootVars, told, spent>>

\* The row is inserted as running and the agent starts in the hidden
\* conversation.  Without an origin the run is not deliverable (deliver_to_origin).
CreateRun(r) ==
  /\ at[r] = "create"
  /\ status' = IF origin = "live" THEN [status EXCEPT ![r] = "running"] ELSE status
  /\ Goto(r, "off")
  /\ UNCHANGED <<task, delivered, mode, origin, convVars, todo, drop, mine, bootVars, told, spent>>

\* Creating the conversation or the row raises: the claim is reverted.
CreateFails(r) ==
  /\ at[r] = "create" /\ Spend("db")
  /\ task' = Moved(r, "triggered", "active")
  /\ Goto(r, "off")
  /\ UNCHANGED <<status, delivered, mode, origin, convVars, todo, drop, mine, bootVars, told>>

\* Mutant: the rule ends with its run, before anybody claimed the result.
RunEndsRule(r, s) ==
  /\ status[r] = "running" /\ at[r] = "off" /\ phase # "down"
  /\ status' = [status EXCEPT ![r] = s]
  /\ IF s = "pending"
     THEN UNCHANGED <<at, task>>
     ELSE Goto(r, "hook") /\ task' = Moved(r, "triggered", "completed")
  /\ UNCHANGED <<delivered, mode, origin, convVars, todo, drop, mine, bootVars, told, spent>>

\* stream_runner 6c/6d: the final status is written; a terminal one enters
\* on_run_terminal, a pending one waits for the user's reply.
RunEnds(r, s) ==
  /\ status[r] = "running" /\ at[r] = "off" /\ phase # "down"
  /\ status' = [status EXCEPT ![r] = s]
  /\ IF s = "pending"
     THEN UNCHANGED at
     ELSE Goto(r, "hook")
  /\ UNCHANGED <<task, delivered, mode, origin, convVars, todo, drop, mine, bootVars, told, spent>>

\* A reply in the hidden conversation, to a pending run or to a finished one,
\* sets the row back to running.  A timeout row has no conversation.  Boot resumes
\* a run whose reply a crash stranded, and takes requests when it is through.
Reply(r) ==
  /\ phase \in {"boot", "up"} /\ at[r] = "off" /\ Spend("reply")
  /\ status[r] \in Terminal \cup {"pending"} /\ task[r] # "timed_out"
  /\ status' = [status EXCEPT ![r] = "running"]
  /\ UNCHANGED <<task, delivered, mode, origin, convVars, procVars, bootVars, told>>

\* TaskTimeoutManager.sweep_once: the deadline passed, active -> timed_out.
TimeoutClaim(r) ==
  /\ phase # "down" /\ origin = "live"
  /\ r \in Once /\ task[r] = "active" /\ at[r] = "off"
  /\ task' = Moved(r, "active", "timed_out")
  /\ Goto(r, "record")
  /\ UNCHANGED <<status, delivered, mode, origin, convVars, todo, drop, mine, bootVars, told, spent>>

\* deliver_timeout: a failed row is recorded, then handed to on_run_terminal.
\* Without an origin the row is not deliverable and of no concern here.
TimeoutRecord(r) ==
  /\ at[r] = "record"
  /\ IF origin = "live"
     THEN status' = [status EXCEPT ![r] = "done"] /\ Goto(r, "hook")
     ELSE UNCHANGED status /\ Goto(r, "off")
  /\ UNCHANGED <<task, delivered, mode, origin, convVars, todo, drop, mine, bootVars, told, spent>>

\* The insert raises: deliver_timeout logs and gives up.
TimeoutRecordFails(r) ==
  /\ at[r] = "record" /\ Spend("db")
  /\ Goto(r, "off")
  /\ UNCHANGED <<rowVars, origin, convVars, todo, drop, mine, bootVars, told>>

-----------------------------------------------------------------------------
(* on_run_terminal                                                         *)

\* The run whose terminal hook a deliverer executes, and the status it is
\* called with: the one just written, or the one the boot sweep listed.
Subject(d) == IF d = Boot THEN job[1] ELSE d
Ended(d)   == IF d = Boot THEN job[2] ELSE status[d]

\* The row is taken out of the inbox without being reported, and its rule ends.
CloseOut(r, end) ==
  /\ delivered' = [delivered EXCEPT ![r] = TRUE]
  /\ mode' = [mode EXCEPT ![r] = "skipped"]
  /\ task' = Moved(r, "triggered", end)

\* The row is read: a result that is gone or already claimed needs nothing; a
\* cancelled one, or one whose origin is deleted, is closed out quietly.  Then,
\* with no await in between, park_if_bound checks for a live turn and parks.
Hook(d) ==
  /\ at[d] = "hook"
  /\ LET r     == Subject(d)
         owed  == status[r] # "deleted" /\ ~delivered[r]
         quiet == Ended(d) = "cancelled" \/ origin = "gone"
         end   == IF Ended(d) = "cancelled" THEN "cancelled" ELSE "completed"
     IN  /\ IF owed /\ ~quiet /\ ~bound
            THEN Goto(d, "list") /\ UNCHANGED <<todo, drop, mine>>
            ELSE Return(d)
         /\ marker' = (marker \/ (owed /\ ~quiet /\ bound))
         /\ IF owed /\ quiet /\ Claimable(r)
            THEN CloseOut(r, end)
            ELSE UNCHANGED <<task, delivered, mode>>
  /\ UNCHANGED <<status, origin, bound, queue, turn, carried, bootVars, told, spent>>

\* _close_out logs what raises and answers False: claim_delivery raised, or it had
\* claimed the row and set_delivery_mode raised, a transaction of its own.
CloseOutRaises(r) ==
  \/ UNCHANGED delivered
  \/ Claimable(r) /\ delivered' = [delivered EXCEPT ![r] = TRUE]

\* The row cannot be read, or its close-out raises: nobody is told, and the rule
\* is not ended.
HookFails(d) ==
  /\ at[d] = "hook" /\ Spend("db")
  /\ \/ UNCHANGED delivered
     \/ (Ended(d) = "cancelled" \/ origin = "gone") /\ CloseOutRaises(Subject(d))
  /\ Return(d)
  /\ UNCHANGED <<task, status, mode, origin, convVars, bootVars, told>>

-----------------------------------------------------------------------------
(* flush_origin_inbox                                                      *)

FlushList(d) ==
  /\ at[d] = "list"
  /\ IF Inbox = {}
     THEN Return(d)
     ELSE /\ todo' = [todo EXCEPT ![d] = Inbox]
          /\ Goto(d, "conv")
          /\ UNCHANGED <<drop, mine>>
  /\ UNCHANGED <<rowVars, origin, convVars, bootVars, told, spent>>

\* Reading the inbox raises: logged, and the flush returns as if it were empty.
FlushListFails(d) ==
  /\ at[d] = "list" /\ Spend("db")
  /\ Return(d)
  /\ UNCHANGED <<rowVars, origin, convVars, bootVars, told>>

\* The origin is loaded: if it is gone every listed row is closed out,
\* otherwise the rows are split into what to report and what to close out.
FlushConv(d) ==
  /\ at[d] = "conv"
  /\ \E over \in SUBSET todo[d] :
       /\ IF origin = "gone" THEN over = todo[d] ELSE Partition(todo[d], over)
       /\ drop' = [drop EXCEPT ![d] = over]
       /\ todo' = [todo EXCEPT ![d] = @ \ over]
  /\ Goto(d, "rows")
  /\ UNCHANGED <<rowVars, origin, convVars, mine, bootVars, told, spent>>

\* Mutant: a row is closed out without asking whether a sibling claimed it.
FlushDropBlind(d) ==
  /\ at[d] \in {"rows", "read_rows"}
  /\ \E r \in drop[d] :
       /\ drop' = [drop EXCEPT ![d] = @ \ {r}]
       /\ CloseOut(r, "completed")
  /\ UNCHANGED <<status, origin, convVars, at, todo, mine, bootVars, told, spent>>

\* One row of the close-out loop; a row a sibling claimed is passed over.
FlushDrop(d) ==
  /\ at[d] \in {"rows", "read_rows"}
  /\ \E r \in drop[d] :
       /\ drop' = [drop EXCEPT ![d] = @ \ {r}]
       /\ IF Claimable(r) THEN CloseOut(r, "completed") ELSE UNCHANGED <<task, delivered, mode>>
  /\ UNCHANGED <<status, origin, convVars, at, todo, mine, bootVars, told, spent>>

\* The close-out of a row raises: the loop goes on with the next one.
FlushDropFails(d) ==
  /\ at[d] \in {"rows", "read_rows"} /\ Spend("db")
  /\ \E r \in drop[d] :
       /\ drop' = [drop EXCEPT ![d] = @ \ {r}]
       /\ CloseOutRaises(r)
  /\ UNCHANGED <<task, status, mode, origin, convVars, at, todo, mine, bootVars, told>>

\* Mutant: the row is reported whether or not the UPDATE matched it.
FlushClaimBlind(d) ==
  /\ at[d] \in {"rows", "read_rows"} /\ drop[d] = {}
  /\ \E r \in todo[d] :
       /\ todo' = [todo EXCEPT ![d] = @ \ {r}]
       /\ delivered' = [delivered EXCEPT ![r] = TRUE]
       /\ mine' = [mine EXCEPT ![d] = @ \cup {r}]
  /\ UNCHANGED <<task, status, mode, origin, convVars, at, drop, bootVars, told, spent>>

\* One row of the claim loop: the conditional UPDATE of claim_delivery.
FlushClaim(d) ==
  /\ at[d] \in {"rows", "read_rows"} /\ drop[d] = {}
  /\ \E r \in todo[d] :
       /\ todo' = [todo EXCEPT ![d] = @ \ {r}]
       /\ IF Claimable(r)
          THEN /\ delivered' = [delivered EXCEPT ![r] = TRUE]
               /\ mine' = [mine EXCEPT ![d] = @ \cup {r}]
          ELSE UNCHANGED <<delivered, mine>>
  /\ UNCHANGED <<task, status, mode, origin, convVars, at, drop, bootVars, told, spent>>

\* Loading the origin or a claim UPDATE raises: nothing in the flush catches it,
\* its caller logs it; claims taken so far stay, and at turn end reset is skipped.
FlushRaises(d) ==
  /\ at[d] \in {"conv", "rows"} /\ todo[d] # {} /\ Spend("db")
  /\ Return(d)
  /\ turn' = IF d = Turn THEN "idle" ELSE turn
  /\ UNCHANGED <<rowVars, origin, bound, marker, queue, carried, bootVars, told>>

\* Mutant: the continuation carries only one of the claimed results.
FlushInjectOne(d) ==
  /\ at[d] = "rows" /\ drop[d] = {} /\ todo[d] = {}
  /\ IF mine[d] = {}
     THEN Return(d) /\ UNCHANGED queue
     ELSE /\ \E r \in mine[d] : queue' = Append(queue, {r})
          /\ Goto(d, "finish")
          /\ UNCHANGED <<todo, drop, mine>>
  /\ UNCHANGED <<rowVars, origin, bound, marker, turn, carried, bootVars, told, spent>>

\* Every claimed result goes into ONE continuation turn on the origin's queue.
FlushInject(d) ==
  /\ at[d] = "rows" /\ drop[d] = {} /\ todo[d] = {}
  /\ IF mine[d] = {}
     THEN Return(d) /\ UNCHANGED queue
     ELSE /\ queue' = Append(queue, mine[d])
          /\ Goto(d, "finish")
          /\ UNCHANGED <<todo, drop, mine>>
  /\ UNCHANGED <<rowVars, origin, bound, marker, turn, carried, bootVars, told, spent>>

\* Mutant: something after the enqueue raises inside the same try.
FlushInjectFailsLate(d) ==
  /\ at[d] = "rows" /\ drop[d] = {} /\ todo[d] = {} /\ mine[d] # {}
  /\ Spend("enqueue")
  /\ queue' = Append(queue, mine[d])
  /\ Goto(d, "release")
  /\ UNCHANGED <<rowVars, origin, bound, marker, turn, carried, todo, drop, mine, bootVars, told>>

\* Composing or enqueueing raises: this call's own claims will be released.
FlushInjectFails(d) ==
  /\ at[d] = "rows" /\ drop[d] = {} /\ todo[d] = {} /\ mine[d] # {}
  /\ Spend("enqueue")
  /\ Goto(d, "release")
  /\ UNCHANGED <<rowVars, origin, convVars, todo, drop, mine, bootVars, told>>

\* clear_delivery_claim, row by row; then the flush returns normally.
Release(d) ==
  /\ at[d] \in {"release", "read_release"}
  /\ IF mine[d] = {}
     THEN Return(d) /\ UNCHANGED <<delivered, mode>>
     ELSE \E r \in mine[d] :
            /\ delivered' = [delivered EXCEPT ![r] = FALSE]
            /\ mode' = [mode EXCEPT ![r] = "null"]
            /\ mine' = [mine EXCEPT ![d] = @ \ {r}]
            /\ UNCHANGED <<at, todo, drop>>
  /\ UNCHANGED <<task, status, origin, convVars, bootVars, told, spent>>

\* Releasing a row raises: logged, and the row stays claimed for good.
ReleaseFails(d) ==
  /\ at[d] \in {"release", "read_release"} /\ Spend("db")
  /\ \E r \in mine[d] : mine' = [mine EXCEPT ![d] = @ \ {r}]
  /\ UNCHANGED <<rowVars, origin, convVars, at, todo, drop, bootVars, told>>

\* _finish_delivery for every row: the mode is recorded, a one-shot's rule ends.
\* Nothing reads either before the last row is done.
Finish(rows) ==
  /\ mode' = [r \in Runs |-> IF r \in rows THEN "reported" ELSE mode[r]]
  /\ task' = [r \in Runs |-> IF r \in rows /\ task[r] = "triggered" THEN "completed" ELSE task[r]]

FlushFinish(d) ==
  /\ at[d] = "finish"
  /\ Finish(mine[d])
  /\ Return(d)
  /\ UNCHANGED <<status, delivered, origin, convVars, bootVars, told, spent>>

\* Stop on the hidden run reaches its terminal hook: CancelledError passes
\* every "except Exception" on the way out.
StopRun(r) ==
  /\ phase = "up" /\ at[r] \in {"hook", "list", "conv", "rows", "release", "finish"}
  /\ task[r] # "timed_out" /\ Spend("stop_run")
  /\ Return(r)
  /\ UNCHANGED <<rowVars, origin, convVars, bootVars, told>>

Flush(d) ==
  \/ FlushList(d) \/ FlushConv(d) \/ FlushDrop(d) \/ FlushClaim(d)
  \/ FlushInject(d) \/ Release(d) \/ FlushFinish(d)

FlushFault(d) ==
  \/ FlushListFails(d) \/ FlushDropFails(d) \/ FlushRaises(d)
  \/ FlushInjectFails(d) \/ ReleaseFails(d)

-----------------------------------------------------------------------------
(* The origin's turns                                                      *)

\* queue.enqueue_user_message for something the user typed.
UserMessage ==
  /\ phase # "down" /\ origin = "live" /\ Spend("turn")
  /\ queue' = Append(queue, {})
  /\ UNCHANGED <<rowVars, origin, bound, marker, turn, carried, procVars, bootVars, told>>

\* The conversation's worker takes the next item; not bound yet.
TurnStart ==
  /\ turn = "idle" /\ queue # <<>>
  /\ carried' = Head(queue) /\ queue' = Tail(queue)
  /\ turn' = "start"
  /\ UNCHANGED <<rowVars, origin, bound, marker, procVars, bootVars, told, spent>>

\* bind_run, then the trigger bubble is persisted and the agent reads it.
TurnBind ==
  /\ turn = "start"
  /\ turn' = "live" /\ bound' = TRUE
  /\ told' = [r \in Runs |-> IF r \in carried THEN told[r] + 1 ELSE told[r]]
  /\ carried' = {}
  /\ UNCHANGED <<rowVars, origin, marker, queue, procVars, bootVars, spent>>

\* get_event_task_results: read_origin_inbox lists and splits the inbox.
ReadInbox ==
  /\ turn = "live" /\ at[Turn] = "off" /\ Inbox # {}
  /\ \E over \in SUBSET Inbox :
       /\ Partition(Inbox, over)
       /\ drop' = [drop EXCEPT ![Turn] = over]
       /\ todo' = [todo EXCEPT ![Turn] = Inbox \ over]
  /\ Goto(Turn, "read_rows")
  /\ UNCHANGED <<rowVars, origin, convVars, mine, bootVars, told, spent>>

\* All rows are claimed: the text is built, the finishing loop begins.
ReadClaimed ==
  /\ at[Turn] = "read_rows" /\ drop[Turn] = {} /\ todo[Turn] = {}
  /\ IF mine[Turn] = {}
     THEN Return(Turn)
     ELSE Goto(Turn, "read_finish") /\ UNCHANGED <<todo, drop, mine>>
  /\ UNCHANGED <<rowVars, origin, convVars, bootVars, told, spent>>

\* The finishing loop ends and the text reaches the agent.
ReadFinish ==
  /\ at[Turn] = "read_finish"
  /\ Finish(mine[Turn])
  /\ told' = [r \in Runs |-> IF r \in mine[Turn] THEN told[r] + 1 ELSE told[r]]
  /\ Return(Turn)
  /\ UNCHANGED <<status, delivered, origin, convVars, bootVars, spent>>

\* Stop during the close-out loop ends the read; during the claim loop the
\* claims are released as well, and so they are when a claim UPDATE raises.
StopReading ==
  /\ at[Turn] = "read_rows"
  /\ \/ phase = "up" /\ Spend("stop_turn")
     \/ drop[Turn] = {} /\ todo[Turn] # {} /\ Spend("db")
  /\ Goto(Turn, "read_release")
  /\ todo' = [todo EXCEPT ![Turn] = {}]
  /\ drop' = [drop EXCEPT ![Turn] = {}]
  /\ UNCHANGED <<rowVars, origin, convVars, mine, bootVars, told>>

\* Stop during the finishing loop, which is outside that try; the rows it got
\* to are finished, none is released.
StopFinishing ==
  /\ phase = "up" /\ at[Turn] = "read_finish" /\ Spend("stop_turn")
  /\ \E S \in SUBSET mine[Turn] : Finish(S)
  /\ Return(Turn)
  /\ UNCHANGED <<status, delivered, origin, convVars, bootVars, told>>

\* Mutant: the turn ends and its binding stays.
TurnEndStillBound ==
  /\ turn = "live" /\ at[Turn] = "off"
  /\ turn' = "ending"
  /\ UNCHANGED <<rowVars, origin, bound, marker, queue, carried, procVars, bootVars, told, spent>>

\* The finally block: unbind_run first.
TurnEnd ==
  /\ turn = "live" /\ at[Turn] = "off"
  /\ bound' = FALSE /\ turn' = "ending"
  /\ UNCHANGED <<rowVars, origin, marker, queue, carried, procVars, bootVars, told, spent>>

\* Mutant: no turn-end flush; a notice the agent ignored is nobody's business.
TurnFlushNever ==
  /\ turn = "ending"
  /\ turn' = "idle"
  /\ UNCHANGED <<rowVars, origin, bound, marker, queue, carried, procVars, bootVars, told, spent>>

\* has_pending decides whether the turn-end flush runs at all.
TurnFlush ==
  /\ turn = "ending" /\ at[Turn] = "off"
  /\ IF marker THEN Goto(Turn, "list") /\ turn' = "flushing"
               ELSE turn' = "idle" /\ UNCHANGED at
  /\ UNCHANGED <<rowVars, origin, bound, marker, queue, carried, todo, drop, mine, bootVars, told, spent>>

\* The flush returned, having delivered or not: task_result_inbox.reset.
TurnReset ==
  /\ turn = "flushing" /\ at[Turn] = "off"
  /\ marker' = FALSE /\ turn' = "idle"
  /\ UNCHANGED <<rowVars, origin, bound, queue, carried, procVars, bootVars, told, spent>>

TurnStep ==
  \/ TurnStart \/ TurnBind \/ ReadClaimed \/ ReadFinish
  \/ TurnEnd \/ TurnFlush \/ TurnReset

-----------------------------------------------------------------------------
(* Deletion, crash and boot                                                *)

\* DELETE /api/event-runs/{id}: the row goes, a live run is cancelled.
DeleteRun(r) ==
  /\ phase = "up" /\ Spend("delete")
  /\ status[r] \notin {"absent", "deleted"}
  /\ status' = [status EXCEPT ![r] = "deleted"]
  /\ UNCHANGED <<task, delivered, mode, origin, convVars, procVars, bootVars, told>>

\* The origin is deleted: its queue, worker and inbox entries are discarded and
\* the rows that survive the cascade lose their origin_conversation_id.
DropOrigin ==
  /\ phase = "up" /\ origin = "live" /\ Spend("drop")
  /\ origin' = "gone"
  /\ \E S \in SUBSET {r \in Runs : status[r] # "absent"} :
       status' = [r \in Runs |-> IF r \in S THEN "deleted" ELSE status[r]]
  /\ bound' = FALSE /\ marker' = FALSE /\ queue' = <<>>
  /\ turn' = "idle" /\ carried' = {}
  /\ Return(Turn)
  /\ UNCHANGED <<task, delivered, mode, bootVars, told>>

\* Everything in memory is lost; the tables stay.
Crash ==
  /\ phase # "down" /\ Spend("crash")
  /\ phase' = "down" /\ sweep' = {} /\ job' = NoJob
  /\ bound' = FALSE /\ marker' = FALSE /\ queue' = <<>>
  /\ turn' = "idle" /\ carried' = {}
  /\ at' = [d \in Deliverers |-> "off"]
  /\ todo' = [d \in Deliverers |-> {}]
  /\ drop' = [d \in Deliverers |-> {}]
  /\ mine' = [d \in Deliverers |-> {}]
  /\ UNCHANGED <<rowVars, origin, told>>

\* Mutant: recovery writes a status of its own, which no query knows.
RestartInterrupted ==
  /\ phase = "down"
  /\ phase' = "boot"
  /\ status' = [r \in Runs |-> IF status[r] = "running" THEN "interrupted" ELSE status[r]]
  /\ UNCHANGED <<task, delivered, mode, origin, convVars, procVars, sweep, job, told, spent>>

\* recover_after_restart, before anything else starts: running -> failed.
Restart ==
  /\ phase = "down"
  /\ phase' = "boot"
  /\ status' = [r \in Runs |-> IF status[r] = "running" THEN "done" ELSE status[r]]
  /\ UNCHANGED <<task, delivered, mode, origin, convVars, procVars, sweep, job, told, spent>>

\* Mutant: only the results of one-shot rules are swept up.
SweepListTasks ==
  /\ phase = "boot"
  /\ phase' = "sweep"
  /\ sweep' = {<<r, status[r]>> : r \in {q \in Once : Claimable(q)}}
  /\ UNCHANGED <<rowVars, origin, convVars, procVars, job, told, spent>>

\* sweep_undelivered lists the owed rows of every conversation.
SweepList ==
  /\ phase = "boot"
  /\ phase' = "sweep"
  /\ sweep' = {<<r, status[r]>> : r \in {q \in Runs : Claimable(q)}}
  /\ UNCHANGED <<rowVars, origin, convVars, procVars, job, told, spent>>

\* The next row: a standing one past the age bound is closed out, any other
\* goes through on_run_terminal.
SweepNext ==
  /\ phase = "sweep" /\ at[Boot] = "off"
  /\ \E next \in sweep :
       LET r == next[1] IN
       /\ sweep' = sweep \ {next}
       /\ \/ /\ r \notin Once /\ next[2] # "cancelled"
             /\ IF Claimable(r) THEN CloseOut(r, "completed") ELSE UNCHANGED <<task, delivered, mode>>
             /\ UNCHANGED <<at, job>>
          \/ /\ Goto(Boot, "hook") /\ job' = next
             /\ UNCHANGED <<task, delivered, mode>>
  /\ UNCHANGED <<status, origin, convVars, todo, drop, mine, phase, told, spent>>

\* The close-out of a stale row raises: the sweep goes on with the next one.
SweepNextFails ==
  /\ phase = "sweep" /\ at[Boot] = "off" /\ Spend("db")
  /\ \E next \in sweep :
       /\ next[1] \notin Once /\ next[2] # "cancelled"
       /\ sweep' = sweep \ {next}
       /\ CloseOutRaises(next[1])
  /\ UNCHANGED <<task, status, mode, origin, convVars, procVars, phase, job, told>>

\* _reconcile_orphaned_tasks: a triggered rule with no live or owed run is spent.
Reconcile ==
  /\ phase = "sweep" /\ at[Boot] = "off" /\ sweep = {}
  /\ phase' = "up" /\ job' = NoJob
  /\ task' = [r \in Runs |->
       IF /\ task[r] = "triggered"
          /\ status[r] \in {"absent", "deleted"} \/ (status[r] \in Terminal /\ delivered[r])
       THEN "completed" ELSE task[r]]
  /\ UNCHANGED <<status, delivered, mode, origin, convVars, procVars, sweep, told, spent>>

-----------------------------------------------------------------------------
Init ==
  /\ task      = [r \in Runs |-> IF r \in Once THEN "active" ELSE "standing"]
  /\ status    = [r \in Runs |-> "absent"]
  /\ delivered = [r \in Runs |-> FALSE]
  /\ mode      = [r \in Runs |-> "null"]
  /\ origin = "live"
  /\ bound = FALSE /\ marker = FALSE
  /\ queue = <<>> /\ turn = "idle" /\ carried = {}
  /\ at   = [d \in Deliverers |-> "off"]
  /\ todo = [d \in Deliverers |-> {}]
  /\ drop = [d \in Deliverers |-> {}]
  /\ mine = [d \in Deliverers |-> {}]
  /\ phase = "up" /\ sweep = {} /\ job = NoJob
  /\ told  = [r \in Runs |-> 0]
  /\ spent = [f \in Faults |-> 0]

RunStep(r) ==
  \/ ClaimFire(r) \/ CreateRun(r) \/ CreateFails(r)
  \/ TimeoutClaim(r) \/ TimeoutRecord(r) \/ TimeoutRecordFails(r)
  \/ \E s \in Terminal \cup {"pending"} : RunEnds(r, s)
  \/ Reply(r) \/ StopRun(r) \/ DeleteRun(r)

BootStep == Restart \/ SweepList \/ SweepNext \/ Reconcile

Next ==
  \/ \E r \in Runs : RunStep(r)
  \/ \E d \in Runs \cup {Boot} : Hook(d) \/ HookFails(d)
  \/ \E d \in Deliverers : Flush(d) \/ FlushFault(d)
  \/ UserMessage \/ TurnStep \/ ReadInbox \/ StopReading \/ StopFinishing
  \/ DropOrigin \/ Crash \/ BootStep \/ SweepNextFails

Spec == Init /\ [][Next]_vars

\* The event loop runs every coroutine that can run: deliverers, the origin's
\* worker, the boot sequence.  Users, agents' outcomes, faults and crashes are free.
Fairness ==
  /\ \A d \in Runs \cup {Boot} : WF_vars(Hook(d))
  /\ \A d \in Deliverers : WF_vars(Flush(d))
  /\ \A r \in Runs : WF_vars(CreateRun(r)) /\ WF_vars(TimeoutRecord(r))
  /\ WF_vars(TurnStep) /\ WF_vars(BootStep)

FairSpec == Spec /\ Fairness

-----------------------------------------------------------------------------
(* Properties                                                              *)

DelivererPCs == { "off", "create", "record", "hook", "list", "conv",
                  "rows", "finish", "release",
                  "read_rows", "read_finish", "read_release" }

\* Every variable stays in the range the code gives it.
TypeOK ==
  /\ task \in [Runs -> {"standing", "active", "triggered", "timed_out", "completed", "cancelled"}]
  /\ status \in [Runs -> {"absent", "deleted"} \cup Active \cup Terminal]
  /\ delivered \in [Runs -> BOOLEAN]
  /\ mode \in [Runs -> {"null", "reported", "skipped"}]
  /\ origin \in {"live", "gone"}
  /\ bound \in BOOLEAN /\ marker \in BOOLEAN
  /\ queue \in Seq(SUBSET Runs)
  /\ turn \in {"idle", "start", "live", "ending", "flushing"}
  /\ carried \in SUBSET Runs
  /\ at \in [Deliverers -> DelivererPCs]
  /\ todo \in [Deliverers -> SUBSET Runs]
  /\ drop \in [Deliverers -> SUBSET Runs]
  /\ mine \in [Deliverers -> SUBSET Runs]
  /\ job \in (Runs \X Terminal) \cup {NoJob}
  /\ phase \in {"down", "boot", "sweep", "up"}
  /\ sweep \in SUBSET (Runs \X Terminal)
  /\ told \in [Runs -> Nat]
  /\ spent \in [Faults -> Nat]

\* A result that some queued turn, starting turn or reading agent is about to see.
Underway(r) ==
  \/ \E i \in 1..Len(queue) : r \in queue[i]
  \/ r \in carried
  \/ \E d \in Deliverers : r \in mine[d]

\* "Exactly once" (event_task_delivery.py:35), its at-most-once half: idle
\* delivery, mid-turn read, turn-end flush and boot sweep never hand the agent
\* the same result twice, whatever crashes, is stopped or fails in between.
HandedOnce == \A r \in Runs : told[r] <= 1

\* "Never resurrected" (:42): a result the agent has seen is claimed for good,
\* so no later flush, read or boot finds it in the inbox again.
NeverResurrected == \A r \in Runs : told[r] > 0 => delivered[r]

\* "closed out" and "delivered" are mutually exclusive (event_run_storage.py:320):
\* a result taken out of the inbox unreported never reaches the agent.
ClosedNeverHanded == \A r \in Runs :
  mode[r] = "skipped" => delivered[r] /\ told[r] = 0 /\ ~Underway(r)

\* What a deliverer claimed and has not put on the queue yet.
Held(d) == IF at[d] = "finish" THEN {} ELSE mine[d]

\* Where a deliverer has claimed nothing.
EmptyHanded == {"off", "create", "record", "hook", "list", "conv"}

\* Why the above hold (the inductive invariant of TaskDelivery_proofs): a claimed
\* result has one place at most, a deliverer, a queued turn or a starting one,
\* and is unseen while it has one; only who holds it can release it.
OneHolder ==
  /\ \A d \in Deliverers : at[d] \in EmptyHanded => mine[d] = {}
  /\ \A d \in Deliverers : \A r \in mine[d] : delivered[r]
  /\ \A d, e \in Deliverers : d # e => mine[d] \cap mine[e] = {}
  /\ \A d \in Deliverers : \A r \in Held(d) : told[r] = 0 /\ r \notin carried
  /\ \A d \in Deliverers : \A i \in 1..Len(queue) : Held(d) \cap queue[i] = {}
  /\ \A i, j \in 1..Len(queue) : i # j => queue[i] \cap queue[j] = {}
  /\ \A i \in 1..Len(queue) : \A r \in queue[i] : delivered[r] /\ told[r] = 0 /\ r \notin carried
  /\ \A r \in carried : delivered[r] /\ told[r] = 0
  /\ HandedOnce /\ NeverResurrected /\ ClosedNeverHanded

\* A one-shot result is never dropped by the volume bounds (:57): at the moment
\* it is closed out, its run stands cancelled or its origin is gone.
OneShotNeverDropped == [][\A r \in Once :
  mode[r] # "skipped" /\ mode'[r] = "skipped" => status[r] = "cancelled" \/ origin = "gone"]_vars

\* A rule that is spent has nothing left to say: it is "completed" or "cancelled"
\* only "after delivery" (_task_subscription.py:55), when its result is claimed.  In a
\* process that was not restarted: the reconciliation of a boot takes a firing
\* claimed beside it, whose row is still to be inserted, for an orphan.
SpentMeansClaimed == spent["crash"] = 0 => \A r \in Once :
  task[r] \in {"completed", "cancelled"} /\ status[r] \in Terminal => delivered[r]

Idle ==
  /\ phase = "up" /\ turn = "idle" /\ queue = <<>>
  /\ \A d \in Deliverers : at[d] = "off"

\* The turn-end handoff (park_if_bound, task_result_inbox.py:130): when nothing runs any more,
\* no finished result is left in the inbox: one that parked was read or flushed.
\* Needs that no database call fails and no hook is stopped.
NothingStranded == Idle => Inbox = {}

\* "Never a silent hang" (event_task_delivery.py:54): until the process dies, a
\* claimed result was closed out, or the agent saw it, or somebody still holds
\* it to show it to the agent.
Accounted == \A r \in Runs :
  delivered[r] /\ origin = "live" /\ status[r] # "deleted" /\ spent["crash"] = 0
    => mode[r] = "skipped" \/ told[r] > 0 \/ Underway(r)

\* Every finished result leaves the inbox: it is claimed by someone who reports
\* it or closes it out, across crashes, unless the run is resumed or deleted.
EventuallyClaimed == \A r \in Runs :
  status[r] \in Terminal ~> (delivered[r] \/ status[r] \notin Terminal)

\* In a process that does not die every finished result is seen by the agent,
\* or it is a standing rule's that the volume bounds closed out.
EventuallyTold == [](spent["crash"] = 0) => \A r \in Runs :
  status[r] = "done" ~> (told[r] > 0 \/ (r \notin Once /\ mode[r] = "skipped"))

\* The refinement mapping: the ledger as it shows in rows and history.
LedgerOf(r) ==
  IF told[r] > 0 THEN "given"
  ELSE IF delivered[r] /\ mode[r] = "skipped" THEN "closed"
  ELSE IF status[r] = "deleted" THEN "erased"
  ELSE IF delivered[r] THEN "held"
  ELSE IF status[r] \in Terminal THEN "owed"
  ELSE "none"

Ledger == INSTANCE ResultLedger WITH
  ledger <- [r \in Runs |-> LedgerOf(r)],
  given  <- told

\* The delivery machinery implements the ledger, under every fault above.
ImplementsLedger == Ledger!Spec
=============================================================================
