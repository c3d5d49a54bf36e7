# Cremind: a TLA+ verification of its event and turn machinery

Cremind is a personal assistant that runs as one asyncio process over an SQL
database. Users talk to an agent in *conversations*. Conversations may register
*rules* (a file watcher, a schedule, a skill event); every firing of a rule runs
the agent in a hidden conversation of its own, an *event run*, and the result is
handed back to the conversation that registered the rule. This directory holds
TLA+ models of that machinery, the TLC configurations that check them, and
proofs checked by TLAPS.

All of it happens on one event loop, so two coroutines interleave only at their
`await`s and every stretch between two awaits is atomic. This fixes the grain of
every module: **one action is one stretch between two awaits that something else
can tell apart, or one database transaction**. Where several awaits are merged
into one action, the section on the module says so.

Contents

1. Inventory: components, state, operations, interactions, hard behaviours
2. The modules: state and actions against the code
3. The runs: what each shows, bounds, fairness
4. The proofs
5. Findings
6. What is only model-checked, and what is not modelled
7. Plan

Run a configuration with `tlc -config delivery_crash.cfg MCTaskDelivery`, the
proofs with `tlapm TaskDelivery_proofs.tla`. `PROJECT.json` maps each definition
to the lines it models, lists the runs, the mutant that breaks each property,
the hazards and the findings.


## 1. Inventory

### Task-result delivery (`app/events/event_task_delivery.py`, `task_result_inbox.py`, `app/storage/event_run_storage.py`, `task_timeout_manager.py`)

*State.* The `event_runs` rows (`status`, `origin_delivered_at`,
`origin_delivery_mode`), the `task_status` of one-shot rules, and a transient
inbox in memory: which conversation has a bound turn (`_conv_to_run`) and which
has been told that a result waits for it (`_pending`).

*Operations.* A terminal hook per run (`on_run_terminal`): park if the origin's
turn is bound, else flush the whole inbox now. A flush (`flush_origin_inbox`)
lists the pending rows, partitions them by the volume bounds, closes out what
is over, claims each row with a conditional UPDATE, injects one continuation
turn and records how the rows were delivered. The origin's own turn reads the
same inbox mid-turn (`read_origin_inbox`) and flushes again at its end
(`flush_pending_at_turn_end`). Boot reconciles rules and rows and sweeps what
was left (`reconcile_task_subscriptions`, `sweep_undelivered`). Timeouts,
cancellation, replies, deletion of a row or of the origin act on the same rows.

*Hard.* Four deliverers (hook, turn end, mid-turn read, boot) race for the same
rows, each may fail or be cancelled between its claim and its injection; a
release after a failure must not resurrect what was seen; the hand-over between
"park" and the turn's last look at its inbox; crash between any two steps.

*Correct when* a result is seen at most once, what was seen is never offered
again, what was closed out is never seen, nothing finished stays in the inbox
once everything is quiet, a one-shot is never dropped by the volume bounds.

### Conversation queue and turns (`app/events/queue.py`, `app/agent/stream_runner.py`)

*State.* Per conversation a FIFO, one worker task, the bound run. A turn binds,
builds its history, runs the agent loop, persists the answer, writes the final
status, unbinds, flushes what waits for it.

*Hard.* Stop is a task cancellation: it lands at whatever await the turn is at,
and outside the agent loop it takes the worker with it.

*Correct when* one conversation runs one turn at a time, whatever is queued is
run, and what a turn took it commits or gives back.

### Event dispatch (`app/events/run_dispatcher.py`, `run_lifecycle.py`, `run_config.py`)

*State.* Per rule a FIFO and a worker; a process-wide semaphore; `task_status`;
the row of each run; the hidden conversation and its own queue.

*Operations.* Enqueue; take; enter the semaphore and check the rule again; gate
(a classifier); claim of a one-shot, and its reversal when the run cannot be
created; the trigger turn; replies to it; removal of a rule; restart recovery.

*Hard.* Check-then-act over an LLM call while the deadline runs; the trigger
turn runs on the rule's worker, a reply on the conversation's; a Stop cancels
the rule's worker itself; the semaphore outlives them all.

*Correct when* a one-shot has one outcome, no slot is lost, no row stays
"running" with nobody behind it but in the ways section 3 lists, no rule starves
another.

### Mid-turn user messages (`app/events/user_message_delivery.py`, `task_result_inbox.py`, `app/api/conversations.py`)

*State.* Per conversation the parked messages, those drained into the running
turn; per message the `mid_turn.state` of its row, which decides whether the
history shows it.

*Operations.* Park or refuse at the cap; drain at the agent's steps; commit
after the answer is persisted; flush at the turn's end; boot sweep.

*Hard.* The message is persisted hidden *before* it is offered, so every path
that drops it must unhide it; a message in a persisted trace must not be shown
as a row too.

*Correct when* the model sees exactly one copy and always sees it.

### Stream bus (`app/events/stream_bus.py`)

*State.* Per conversation a ring of the current run's frames, the number of the
last frame, whether a run is active, and the queue of each subscriber (not
bounded). *Operations.* start and end of a run, publish, subscribe with a copy
of the ring, unsubscribe, discard; each holds the bus's lock across no await.
*Hard.* Replay and live frames must meet without a gap or a duplicate; the ring
drops its oldest frames; the end of a run empties it, whoever is still to join.
*Correct when* a subscriber hears each frame of a run once and in order, and
nothing of the run before.

### Channels (`app/channels/base.py`)

*State.* Per target the live forwarder task (`_inflight`), the number of runs
that are owed one (`_pending_runs`), the text it has gathered. *Operations.*
Count a run and spawn a forwarder if none is live; release a run that could not
be queued; a forwarder subscribes to the bus, sends at flow breaks and terminal
frames and ends at the first terminal one; its done-callback chains the next.
*Hard.* The forwarder awaits a platform while runs go on; which frames belong
to which forwarder is decided by when it subscribes. *Correct when* at most one
forwarder is live per target and each answer is sent once, whole, in order.

### Schedules (`app/events/schedule_manager.py`, `app/calendar/provider.py`, `app/storage/schedule_event_storage.py`)

*State.* The rows with their rolling pointer (`next_fire_at`) and status, the
profile's feature switch, a heap of due times whose entries are invalidated by
a newer number instead of being removed, one task that sleeps until the
earliest. *Operations.* create, edit, pause, cancel, resume, delete, switch,
fire, catch up after a restart. *Hard.* Stale entries; slots that pass while the
process is down or a dispatch is slow; the pointer must move before the
dispatch. *Correct when* heap and rows agree, each occurrence fires at most once
and not early, and what is due is served.

### Group chats (`app/groups/fanout.py`, `hooks.py`, `boot.py`, `routing.py`)

*State.* The room's timeline, whose rows say who has each post and whom it
should wake; in memory the order in which posts are being delivered
(`_delivery_chain`); each member's seat, a conversation of its own with its
queue and turns; the stamp on each turn's message that says it was posted.
*Operations.* post (insert, classify, wait for the post ahead, hand to each
seat, record); a seat's turn posts what it says at flow breaks and at its end;
two sweeps at boot. *Hard.* Posts classified in parallel must arrive in order;
a crash between any two steps; a hook that runs again must recognise what it
said; agents that wake each other; a seat's queue is in memory while the row
already names the seat. *Correct when* every post comes to every seat, is handed
to them in order, nothing is said twice, and a room of agents falls silent.

### The rest

| Component | State and operations | Why it comes later or not at all |
|---|---|---|
| File watchers, skill event manager (`file_watcher_manager.py`, `manager.py`) | OS notifications, debounced into the dispatcher | their side of the interface is the free `Dispatch` |
| Agent reasoning loop (`app/agent/reasoning_agent.py`, `compaction.py`, `plan_state.py`) | steps of a model and its tools | its drain points are `Absorb` and `ReadInbox`; the answers of a model are out of reach |
| Conversation storage (`app/storage`) | CRUD | the transactions that matter are single actions of the modules |
| Channels beyond the forwarders (`app/channels`) | platform clients, pairing, approval, a relevance judge | I/O with third parties |
| Documents, research jobs (`app/documents`) | indexing, retrieval, one claim per job | the claim is in the plan |
| Configuration, TLS transition (`app/config`) | settings; a small persisted state machine | the transition is in the plan |
| Reset, backup, upgrade | sequential maintenance | candidates |
| Authentication and HTTP API (`app/api`, `app/auth`) | thin handlers | those that change the state above are actions; authentication is left out |
| Tools, skills, calendar, drive, tags; UI, CLI, installers | I/O, presentation | no shared state of their own worth a model |

### How the components meet

```
  ScheduleManager ──┐
  (heap of times)   ▼
 triggers ──► EventDispatch ──run ends──► TaskDelivery ──continuation turn──► origin's queue
                  │                            ▲                                   │
   user reply ────┤                            └──── mid-turn read, turn end ◄─────┤
                  ▼                                                                ▼
        hidden conversation's queue  ◄──── the same queue.py / stream_runner.py ── turns
                  ▲                                                          ▲     │   │
                  └───────────── MidTurnMessages (park, drain, flush) ───────┘     │   │
                                                                                   │   │
       platforms ◄── ReplyForwarding ◄── StreamBus ◄──── frames of a run ──────────┘   │
       other seats ◄── GroupFanout ◄──── what a seat's turn says ──────────────────────┘
```

The modules cut this along the keys the code uses. `TaskDelivery` has one
origin conversation, because all its state is keyed by the origin's id;
`MidTurnMessages` one conversation for the same reason; `ReplyForwarding` one
conversation and one target; `GroupFanout` one room with all its seats, because
they share the delivery order; `EventDispatch` all the rules, because they
share the semaphore; `ScheduleManager` all the schedules of a profile, because
they share the heap. The stages of a turn appear in five modules, at the grain
each needs.


## 2. The modules

| Module | Models | Used by |
|---|---|---|
| `ResultLedger` | what delivery promises, abstractly | `TaskDelivery` (`ImplementsLedger`) |
| `TaskDelivery` | task-result delivery and the origin's turns | `MCTaskDelivery`, `TaskDelivery_proofs` |
| `TaskDelivery_proofs` | theorems about `TaskDelivery` | `TaskDelivery_refinement` |
| `TaskDelivery_refinement` | the proof that `TaskDelivery` implements `ResultLedger` | `TaskDelivery_promises` |
| `TaskDelivery_promises` | theorems about rules that fire once, and what delivery keeps when it comes to rest | |
| `MidTurnMessages` | messages typed during a turn | `MCMidTurnMessages`, `MidTurnMessages_proofs` |
| `MidTurnMessages_proofs` | theorems about `MidTurnMessages` | |
| `EventDispatch` | from trigger to finished run | `MCEventDispatch`, `EventDispatch_proofs` |
| `EventDispatch_proofs` | theorems about `EventDispatch` | |
| `StreamBus` | the bus of one conversation: its state and operations, no next-state relation | `ReplyForwarding` |
| `ReplyForwarding` | `StreamBus` composed with the runs that publish and the forwarders that subscribe | `MCReplyForwarding`, `ReplyForwarding_proofs` |
| `ReplyForwarding_proofs` | theorems about `ReplyForwarding` | |
| `Timetable` | what the schedule manager promises, abstractly | `ScheduleManager` (`ImplementsTimetable`) |
| `ScheduleManager` | schedules, their heap and the task that fires them | `MCScheduleManager`, `ScheduleManager_proofs` |
| `ScheduleManager_proofs` | theorems about `ScheduleManager`, and that it implements `Timetable` | |
| `GroupFanout` | a room: posts, seats, their turns, boot | `MCGroupFanout`, `GroupFanout_proofs` |
| `GroupFanout_proofs` | theorems about `GroupFanout` | |

The name of an operator that only serves as a seeded fault (`ClaimableTwice`,
`EnterDroppedTwice`, ...) is marked *Mutant* in the module and is used by no
specification.

### TaskDelivery

| State | Code |
|---|---|
| `task` | `task_status` of the one-shot's subscription |
| `status`, `delivered`, `mode` | columns of the `event_runs` row |
| `bound`, `marker` | `_conv_to_run`, `_pending` of the inbox |
| `queue`, `turn`, `carried` | the origin's FIFO, its worker, the results the current turn was started with |
| `at`, `todo`, `drop`, `mine` | program counter and locals of each deliverer: one per run's hook, `Turn`, `Boot` |
| `phase`, `sweep`, `job` | the boot sequence |
| `told`, `spent` | history: times a result was shown to the agent; faults used |

| Actions | Code |
|---|---|
| `ClaimFire`, `CreateRun`, `CreateFails`, `RunEnds`, `Reply`, `TimeoutClaim`, `TimeoutRecord` | what makes a row terminal or takes it back (dispatcher, lifecycle, timeout manager) |
| `Hook` | `on_run_terminal` up to its choice: close out, park, flush, ignore |
| `FlushList`, `FlushConv`, `FlushDrop`, `FlushClaim`, `FlushInject`, `FlushFinish`, `Release` | the awaits of `flush_origin_inbox`, with each one's failure (`...Fails`, `FlushRaises`) and Stop (`StopRun`) |
| `HookFails`, `FlushDropFails`, `SweepNextFails`, `ReleaseFails` | what is logged and leaves something half done: a row that cannot be read, a close-out of which nothing or only the claim was committed (`CloseOutRaises`), a release whose UPDATE raises and leaves the row claimed |
| `UserMessage`, `TurnStart`, `TurnBind`, `ReadInbox`, `ReadClaimed`, `ReadFinish`, `TurnEnd`, `TurnFlush`, `TurnReset`, `StopReading`, `StopFinishing` | the origin's turn |
| `DeleteRun`, `DropOrigin` | the user's deletions |
| `Crash`, `Restart`, `SweepListTasks`, `SweepList`, `SweepNext`, `Reconcile` | boot |

Abstractions. `completed` and `failed` are one status, `done`, as delivery never
tells them apart; the modes `injected` and `read` are one, `reported`. The
partition by volume chooses any admissible set to drop. A hook's read of its row
and its branch are one step; the loop that records delivery modes is one step
unless Stop hits it (`StopFinishing`); a close-out that succeeds is one step with the
end of the rule (one that raises is not); reconciliation is one step over all rows. What a user asks over HTTP (Stop,
deletions) comes when boot is through, as in `server.py`; a run may be resumed
earlier, because boot itself answers a reply a crash stranded. The text of continuations, the
notices shown in a turn, forwarding to channels and the retention prune are left
out.

### ResultLedger

Where a result stands: `none`, `owed`, `held`, `given`, `closed`, `erased`, and
which moves between them are allowed. It has no queue, no inbox and no
deliverer. `ImplementsLedger` maps `TaskDelivery` to it: a claimed row that
nobody has seen is *held*, a terminal unclaimed one *owed*. The mapping reads
only rows and history, not who holds what, so it says that whatever the machinery
does, the rows only ever move as the ledger allows, and `given` grows only by a
legal hand-over.

### MidTurnMessages

| State | Code |
|---|---|
| `row` | absent, plain, or the `mid_turn.state` of the row's metadata |
| `post` | where the POST handler of the message is |
| `parked`, `drained`, `bound` | `_user_parked`, `_user_drained`, `_conv_to_run` |
| `taken` | taken out of the inbox by a commit or a flush that is marking the rows |
| `queue`, `turn`, `query`, `ctx`, `ok`, `dying` | the FIFO, the worker's stage, the turn's own message, the rows its history showed, whether a trace exists, a cancellation on its way out |
| `traced`, `heard` | messages in a persisted trace; history of what a model was given |

`Send`, `PersistMessage`, `Park`, `ReleaseRefused`, `EnqueueOwn` are the POST
handler; `TurnStart` ... `TurnLeave` the turn; `StopLate` is Stop outside the
agent loop; `BootList`, `BootRelease`, `BootFollowUp` the boot sweep. Abstractions: messages
are a set, so the order of the texts in a follow-up is not modelled; a queue
item is the set of the message it was enqueued with, empty for a follow-up;
the row of the turn's own message is inserted in the step that binds;
attachments and modes are left out; history is built with
reasoning replay on, which is where a consumed row must be excluded. The server
takes requests only after the boot sweep, as in `server.py`.

### EventDispatch

| State | Code |
|---|---|
| `queue`, `line`, `free`, `dead` | `_sub_queues`, the semaphore's waiters and value, rules whose worker task ended |
| `at` | where the job of each trigger is in `_execute` |
| `task`, `status`, `rid` | `task_status`, the row's `status` and `run_id` |
| `stage` | where each turn, trigger's or reply's, is in `run_agent_to_bus` |
| `bound`, `parked`, `replies` | inbox and queue of the hidden conversation |
| `gone` | hidden conversations whose own queue worker (`queue.py`) was cancelled and not yet replaced |
| `removing` | a rule whose runs are deleted and whose own row is about to be |
| `orphaned` | history: rows a turn of which ended without writing its outcome |

`Dispatch`, `Take`, `Enter`, `Match`/`Reject`/`ClaimFails`, `CreateRun`/`CreateFails`
are the worker up to the turn; `TurnMark` ... `TurnLeave` the turn; `Stop` is a
cancellation inside the agent loop, where the code catches it, `KillEarly` and
`Kill` one outside, before the `try` and inside it; `Raise` an exception inside the
`try` and outside the loop. All of them hit the trigger turn and a reply turn alike,
and differ in who hears: `_execute` writes *failed* for a trigger turn that raised
(`FailureUnwritten` if that raises too), the conversation's worker swallows a reply
turn's exception and writes nothing; a cancellation ends the rule's worker, which is
never replaced, or the conversation's, which the next message replaces. `Reply`,
`ReplyStart` are the user's message; `RemoveRuns`, `RemoveRule` the deletion of a
rule; `Restart` crash and `recover_after_restart`.
Abstractions: every rule has a gate (a rule without one is a gate that answers
at once); the hidden conversation and the row are created in one step; crash
and recovery are one step, since nothing else runs between them; whether a bound inbox refuses a reply is a free
choice, its count being `MidTurnMessages`'s; the deletion of a single run is in
`TaskDelivery`; delivery is left to `TaskDelivery`.


### StreamBus and ReplyForwarding

| State | Code |
|---|---|
| `ring`, `seq`, `active`, `subs`, `mail` | `_ring`, `_seq`, `_active`, `_subs` and the queue of each subscriber, the replay it was given first |
| `fate`, `jobs`, `turn`, `bound`, `folded`, `texts` | the runs of the conversation, its FIFO and worker, the inbox a message folds into, what the run has published |
| `pc`, `text` | where each forwarder task is, its `text_chunks` |
| `inflight`, `pending` | `_inflight[key]`, `_pending_runs[key]` |
| `armed`, `sent`, `spent` | a run was announced that could not be queued; history of what was handed to the platform; faults used |

`Dispatch`, `Fold` are the two ends of `_dispatch_to_agent`; `ArmInVain` and
`ReleaseRun` an announced run that is not queued (`forward_external_run`,
`release_external_run`); `FlowBreak` one of the breaks around an answer to what was
folded in, and further ones (the break that closes the answer, the breaks of a task
result) as the fault `break`; `StartRun` ... `LateStop` what a run publishes and how
it ends; `FollowUp` the turn-end flush; `ClearHistory` the deletion of a
sender's history. A forwarder is `Join`, `Absorb` (one branch per kind of
frame), `SendDone`, `Leave`, `TaskDone` and the callback `ClearInflight`.
Abstractions: a piece of text is its frame; direct messages in "normal" mode
(the detail mode's steps, citations, trigger blocks and the silence of a room
change only what is sent); tasks are numbered afresh, and `StartRun` waits for
spawned forwarders to subscribe, because a ready task runs before the worker is
woken by a queue. Three other places cancel a live forwarder and are left out:
the stop of an adapter (`base.py:315-324`) and a forgotten group (`:1574-1587`), which
mean to drop what is owed, and the error path of `_dispatch_to_agent`
(`:1661-1667`), which nothing in the program takes: `enqueue_user_message` creates a
task and puts on an unbounded queue, and neither raises in a running loop.

### ScheduleManager

| State | Code |
|---|---|
| `row` | the subscription: status, timing, `next_fire_at`, `task`; `gen` counts its changes (history) |
| `feature` | the switch of the profile |
| `heap`, `latest`, `seq` | `_heap`, `_latest_seq`, `_seq` |
| `loop`, `now` | `_run_loop`, `time.time()` |
| `last`, `spent` | history: the last occurrence dispatched; faults used |

`Create`, `Edit`, `SetStatus`, `Delete`, `Toggle` are the provider's and the
API's calls with the refresh each ends in; `Fire` and `FireNothing` one turn of
the loop with `_fire` up to the await of the dispatch, `EndDispatch` its return;
`Crash`, `Boot` the restart. Every storage call may raise where the code catches
it. A recurrence is start, step and last instant; time is a counter of
instants, so daylight saving and zones are out. `Due` skips stale entries in
the step that finds the due one, as the loop does under its lock.

### Timetable

Each subscription has a set of instants and the one of them it is due at;
whatever is due first fires, not before its time, and goes on to its next instant
that has not passed. There is no heap, no entry and no status, and a crash forgets
nothing. `ImplementsTimetable` maps `ScheduleManager` to it: the instants are
those of the row's timing, due is `next_fire_at` of a row that may fire. Once a
storage call has raised, the abstract scheduler may fire out of turn or early, as
`refresh` and `start` go on without the entry they could not look up; what it
fires is still due in its row and fires once. It is a safety specification: that
what is due fires at all is `OverdueIsServed`.

### GroupFanout

| State | Code |
|---|---|
| `timeline` | `group_chat_messages`: sender, hop, `quiet`, the source key and segment, the routing stamp, `delivered_to` |
| `chain`, `post` | `_delivery_chain`, the progress and locals of each `post_message` |
| `seat`, `queue`, `parked` | the seat's persisted rows, its FIFO, its inbox |
| `hook`, `said` | the turn that runs in each seat, with the post its hook awaits; what each turn said, its message and stamp |
| `boot`, `todo`, `owed` | the two sweeps |
| `handed`, `lost`, `spent` | history: deliveries to each seat; posts a seat's queue lost after the row named the seat; faults used |

`Speak`, `Insert`, `Route`, `Go`, `Hand`, `Record`, `Finish` are `post_message`;
`Start`, `Trigger`, `StopEarly`, `Break`, `Persist`, `Stop` the seat's turn; `Say`, `Resume`,
`Rekey`, `Stamp` its hooks, which the sweep `SweepTurn` runs too; `SweepRows`,
`BootHand`, `BootRecord`, `Booted` the second sweep. Abstractions: whom a
classification wakes is any set (only a seat's own reply may be for nobody);
whether the flood cap holds is a fault; a storage call may raise before a row is
inserted or after (`touch_group`, `_publish`), which leaves a row without a fan-out; a turn says up to `MaxSegs` things, none of
them silent; that a folded message is answered is `MidTurnMessages`. Posts made
from outside a seat, notices, automation reports, membership and the window of
the delivery sweep are left out.


## 3. The runs

Passing runs:

| Run | Instance | What it shows |
|---|---|---|
| `delivery_crash` | a one-shot and a standing rule's run, cap 1; one crash anywhere and the boot after it, or a message of the user's that starts a turn | `TypeOK`, `HandedOnce`, `NothingStranded`, `Accounted`, `EventuallyClaimed`, `EventuallyTold`. 276 k states |
| `delivery_faults` | the same; any two different kinds out of: a reply in a run, a failing database call (any of the list, the origin, a claim, a close-out, a release, an insert), a failing injection, Stop on a run's hook, Stop on the turn, a deleted row, a deleted origin, a crash | `NeverResurrected`, `ClosedNeverHanded`, `SpentMeansClaimed`, `ImplementsLedger`, `OneShotNeverDropped`. 1.7 M states |
| `messages` | three messages, an inbox of one, one agent error, one Stop in the loop, one outside, one failing database call, one crash | `TypeOK`, `OneCopy`, `HiddenIsHeld`, `ConsumedIsTraced`, `EventuallyHeard`, `EventuallyUnhidden` |
| `dispatch` | a standing rule with one trigger and a one-shot with two, one slot, any two of: Stop in the loop, Stop outside, an exception, a failing database call, a reply, a second reply, a removed rule, a crash | `TypeOK`, `OneOutcome`, `SlotsConserved`, `RunningIsLive`, `EventuallyHandled`. 663 k states |
| `forwarding` | two runs of up to two texts, three forwarders, a ring of two frames, any three of: a folded message, a further flow break, a failure in the agent loop, a late Stop, a cleared history, an announced run that is not queued. 1.1 M states | `TypeOK`, `OneLive`, `ChainReaches`, `OnceInOrder`, `OneVoice`, `NoGap`, `HeardIsSent` |
| `schedules` | two schedules, a one-shot at 2 and a recurrence at 1, 2, 3, time up to 3, any two of: an edit, a change of status, a deletion, a flip of the switch, a storage call that raises, a crash | `TypeOK`, `HeapMatchesRows`, `NoReplay`, `ImplementsTimetable`, `OverdueIsServed`. 384 k states |
| `groups` | two seats and a person, four rows of which one is the person's, two turns saying up to two things each, `max_agent_hops` 2, any two of six faults | `TypeOK`, `SaidOnce`, `HandedInOrder`, `AgentsFallSilent`, `PassedOverSleeps`, `EveryPostReachesAll`. 890 k states |

Runs that end in a violation, one for each finding of section 5:
`delivery_stop_read`, `dispatch_cancelled`, `forwarding_lost`, `schedules_task`,
`groups_order`.

**Deadlock.** `CHECK_DEADLOCK FALSE` everywhere: once the budgets are spent and
everything is delivered the system rests. That nothing rests too early is what
the liveness properties and `NothingStranded` say.

**Bounds, and why they are enough.**

- *Two runs* (`Runs = {o1, s1}`, `Once = {o1}`). Every property of delivery is
  about one result or about two that share a flush. Two hooks, the turn's end
  and the boot sweep make four concurrent deliverers. Proofs remove this bound
  for the properties of section 4.
- `Cap = 1`, the number of standing results in one continuation: one
  standing result fits. With a single standing run the volume bound itself
  is exercised by `Partition` choosing whether a pending standing result is
  over; what the run checks is that a one-shot never is.
- `Budget`, `Quota`: how often each fault or intervention occurs, and how many
  kinds of it or how many in all. Counters in the state bound the behaviours;
  without them Stop and retry could alternate for ever.
- Three messages and an inbox of one: a refusal and a follow-up that answers
  more than one message (one parked, one drained) are both reachable.
- One slot and two rules: contention for the semaphore; two triggers of one
  one-shot: contention for the claim; `Quota = 2` covers each pair of faults,
  such as a reply and a crash, a Stop and a removal, a reply and a Stop or an
  exception of the turn it starts. A worker cancelled with a second message
  queued takes three (two replies and a Stop); the theorem covers it.
- `forwarding`: the second run may start, speak and complete before, while or
  after the first forwarder sends, joins are therefore at every point of a run;
  a ring of two frames is truncated by a run of two texts and a break, and whole
  in a shorter one (the code's `_RING_CAP` is 500).
- `schedules`: a one-shot and a bounded recurrence, each given before or after
  its time, take every branch of the arithmetic; two subscriptions share the
  heap, so one's stale entry may lie above the other's fresh one.
- `groups`: four rows let two posts of two turns be in flight behind the
  person's; two hops let a chain reach the cap.

**Fairness, and why the code justifies it.** Weak fairness of every coroutine
that can run: hooks, flushes, the creation of a run that was claimed, the row
of a timeout, the worker's steps, the boot sequences, the POST handlers,
forwarders (a send to the platform returns or raises), the clock and the
scheduler's task. The event loop runs every ready task, and database calls
return or raise. The agent loop ends, as it has a step limit; the semaphore
wakes its waiters in order, hence fairness of `Enter` on the head of `line`.
*No* fairness for users, triggers, deadlines, outcomes of an agent, Stop,
failures and crashes, nor for `Absorb` and `ReadInbox` of a turn (an agent need
never take another step or read its inbox), nor for the start of a queued turn
in `GroupFanout` (its worker may be busy for ever with other turns), nor for the
workers of the hidden conversations in `EventDispatch`.

**Conditions in the properties.** Where the code accepts a loss, the property
names it: `EventuallyTold` and `Accounted` speak of a process that does not
crash (a result claimed before a crash is not delivered again: at most once is
preferred to at least once, as the module's docstring says); `SpentMeansClaimed`
of a process that was not restarted (section 5); `OneCopy` excludes a
crash or a late Stop between the write of a trace and the marking of its rows;
`HiddenIsHeld` a failing write of a row; `RunningIsLive` a row a turn of which
ended unwritten (cancelled outside its agent loop, a reply turn that raised there, a
failed write) and a conversation whose worker was cancelled with the message
queued, each until the next message or boot; `EventuallyHandled` the rule whose own worker
was killed (see the finding); `OnceInOrder`, `ChainReaches` and `HeardIsSent` a
run that failed, whose error frame the chained forwarder reads again, and
`HeardIsSent` a second run announced in vain (section 5);
`HeapMatchesRows`, and the order and time of a fire in `ImplementsTimetable`, a
storage call that raised;
`HandedInOrder` a stopped post, a wait that timed out and a crash;
`SaidOnce` a failing `rekey_source`; `EveryPostReachesAll` a storage call that
raised, a post that was itself stopped, and for one seat a post its queue lost
after the row had named the seat (section 5).


## 4. The proofs

### Delivery

`TaskDelivery_proofs` proves, for every finite or infinite set of runs, every
cap and every budget of faults:

| Theorem | Statement |
|---|---|
| `TypeCorrect` | `Spec => []TypeOK` |
| `HandedOnceAlways` | `Spec => []HandedOnce`: no result is shown to the agent twice |
| `NeverResurrectedAlways` | `Spec => []NeverResurrected`: what was seen stays claimed |
| `ClosedNeverHandedAlways` | `Spec => []ClosedNeverHanded`: what was closed out is claimed, unseen, and held by nobody |

*Assumptions.* Those of `TaskDelivery`: the two deliverers `Turn` and `Boot` are
not runs, one-shots are runs, the cap is a natural number, and the budget
assigns a natural number to each fault.

*The argument.* None of the three safety properties is inductive alone.
`HandedOnce` forbids a second hand-over, but a state in which a result already
seen sits in a queued turn satisfies it and its successor does not. What excludes that state is
the claim: `claim_delivery` lets one deliverer through, and from then on the
result is *in one place*, a deliverer's list (`mine`), one item of the queue,
or the turn about to start. `OneHolder` says just that: a claimed result has one
place at most, is claimed while it has one, unseen while it has one, and only
who holds it can release it. Its conjuncts support one another: releases are
harmless because the releaser held it (so no one has seen it); a hand-over is the first
because the place is unique; a close-out meets no holder because a held row is
claimed and the close-out's UPDATE matches unclaimed rows only.

*Layout.* `OneHolderStep` has one step per action. Most actions give nobody a
result: they only let places go, claim nothing and release nothing. `LetsGo`
says so of a step and `LetsGoKeepsOneHolder` shows once that such a step keeps
the invariant. The rest (claims, injections, releases, the start and the binding
of a turn, the mid-turn read) are proved conjunct by conjunct. Types are
proved one group of variables at a time (`RowTypeStep`, `TurnTypeStep`,
`LocalTypeStep`, `RestTypeStep`), the actions that leave a group alone in one
step; `BootJobStep` adds that the boot sweep works on a row while it is
anywhere in a flush. The temporal theorems combine these by PTL.

### Delivery implements the ledger

`TaskDelivery_refinement` proves `ImplementsLedgerAlways`, `Spec =>
ImplementsLedger`, under the same assumptions. The mapping reads rows and history; what the
proof needs about the machinery is `OneHolder` and one more invariant, `Fresh`: a
firing or a timeout about to insert its row has none yet, and an armed rule never
had one, so an insert never brings a deleted row back. One lemma for
each move of the ledger (`GiveStep`, `CloseStep`, `EndStep`, `EraseStep`,
`FinishStep`, and `LedgerMove` for a claim or a release) says which changes of
row and history make it; `RefinementStep` finds the move of each action, and
every other action is a stutter.

### Dispatch

`EventDispatch_proofs` proves, for any rules and triggers (not
necessarily finitely many), any number of slots and any faults:

| Theorem | Statement |
|---|---|
| `TypeCorrect` | `Spec => []TypeOK`, `free \in 0..Slots` included |
| `SlotsConservedAlways` | `Spec => []SlotsConserved`: no end of a job leaks or doubles a slot |
| `OneOutcomeAlways` | `Spec => []OneOutcome`: a one-shot is consumed by one trigger or by its deadline |
| `RunningIsLiveAlways` | `Spec => []RunningIsLive`: a row that says running has a turn, queued or with its outcome still to write, unless it is `orphaned` or its worker `gone` |
| `HandledAtRest` | `Spec => [](AtRest => \A f \in Fires : Settled(f))`: when nobody is about to move, no trigger is left over |

*Assumptions.* `RuleAssumption`, `SlotsAssumption`, `FaultAssumption` of the module.

*The argument.* That a released slot was held is not a fact about `free`; it
follows from where jobs are. `Places` says that a queued job is in its
rule's queue once and nowhere else, a waiting one in the line once, and that
a job is in its run exactly while its trigger turn has not returned.
`SlotsHeld` then counts the holders, and carries their finiteness. For
`OneOutcome`, `Rows` ties a row to the job that inserted it, and
`OneClaim` says that at most one trigger of a one-shot is past the
claim, and none once the task is armed again or expired: this is what
makes the reverted claim of a failed insert harmless. Steps that touch no claim are
`Steady`, and `SteadyStep` handles them once. `RunningIsLive` is inductive given `Places`;
`Attended` gathers the steps that neither write *running* nor end a turn
early. `HandledAtRest` is what of `EventuallyHandled` does not need fairness: it
has no condition on faults, because every way a job is lost (a killed worker, a
crash) is a way `Settled` names. `Listed` says that a job is in a list somebody
serves, its rule's queue, the line for a slot or a run; a slot that a
waiter is refused is held by a job in its run (`SlotsConserved`), so the wait is
not circular.

### One-shots, and what is kept at rest

`TaskDelivery_promises`, under the same assumptions:

| Theorem | Statement |
|---|---|
| `SpentMeansClaimedAlways` | `Spec => []SpentMeansClaimed`: until the process dies, a spent rule's result is claimed |
| `OneShotsAreKept` | `Spec => OneShotNeverDropped`: a one-shot is closed out unreported only if cancelled or without an origin |
| `NothingStrandedWhenCalm` | `Spec => [](Calm => NothingStranded)`: at rest, no recorded result is unclaimed |
| `AccountedWhenUnbroken` | `Spec => [](Unbroken => Accounted)`: at rest, a claimed result was told or closed out |
| `ExactlyOnceAtRest` | `Spec => [](Calm /\ Unbroken => ExactlyOnce)`: at rest, each finished run was told exactly once or closed out |

*The conditions.* `Calm`: no database call and no enqueue has failed, no hook and
no turn was stopped. `Unbroken`: no database call has failed, nothing was stopped,
and the process has not died. Both speak of what *happened*, not of the budget:
every budget of faults is covered up to the first that matters. Each fault in
them is needed. A list that cannot be read, a continuation that cannot be
queued, a hook or a turn-end flush that is stopped leave a result
unclaimed for the next flush; a close-out or a release that raises, a Stop between the claim
and the continuation, a crash after the claim leave a row claimed that nobody reports. Crashes, deletions,
resumed runs and user turns are not excluded from the first theorem, nor
failing enqueues from the second.

*The argument, at rest.* "At rest" is useless as it stands: the step before the
last must know that the last will happen. `Attended` says of each unclaimed
result who is still to look at it: a deliverer with the result ahead of it, the turn whose
end flushes what parked, the boot sweep. `Traced` does the same for claimed
ones: told, closed out, in a queued turn or in a deliverer's hands. A state at
rest has no such person, and what is left is the property.

*The argument.* `SpentMeansClaimed` says nothing of a deliverer that may yet
release its claim. `SpentIsClaimed` adds that a result in a deliverer's hands
belongs to a rule that is not over; with `OneHolder`, what a step finishes or
closes out is in no other hands, and what is released is not over. For
`OneShotNeverDropped`, a row may be closed out because a list said so that was
made earlier: `OnlyStanding` says what a flush sets aside while the origin
lives is never a one-shot, `ListedCancelled` that a run the boot sweep listed as
cancelled stays so until it is visited. The latter is true because no request is
served during the sweep, and `Skips` finds who closed the row out.

### Mid-turn messages

`MidTurnMessages_proofs`, for any set of messages, any cap and budget
(`CapAssumption`, `BudgetAssumption`):

| Theorem | Statement |
|---|---|
| `TypeCorrect` | `Spec => []TypeOK` |
| `NoneForgotten` | `Spec => []ConsumedIsTraced`: hidden for good only when a trace has the text |
| `NoneStranded` | `Spec => []HiddenIsHeld`: a pending row is in somebody's hands |
| `EachOnce` | `Spec => []OneCopy`: history, trace, query and injection never overlap |
| `HeardAtRest` | `Spec => [](Calm /\ AtRest => ...)`: at rest, every message sent was given to some turn's model |

*The argument.* A message leaves its handler for the inbox and moves between the
lists of the inbox; `Apart` says it is in one at most and that its handler is
done with it, so that nobody takes what another is marking. `Taking` ties the
lists to the stage of the turn: what is being marked is in the trace already.
`Dark` says that until boot is over nobody else is at work and whatever is
pending is on the sweep's list. For `OneCopy`, which excludes crashes and Stops
outside the loop, `Once` follows the same message further: what is in the queue
or asked is in no inbox and no trace, what is in the inbox is hidden, and what a
turn saw is not. `HeardAtRest` is the safety core of `EventuallyHeard`:
`Heeded` says of every message sent that a model has it or that it is on its
way, and `Calm` excludes a failing database call, a crash and a Stop outside the
agent loop, each of which the model shows to lose one.

### Replies

`ReplyForwarding_proofs`, for any runs, forwarders (numbered from 1), ring and
budget (`BoundsAssumption`, `BudgetAssumption`, `TasksAssumption`):

| Theorem | Statement |
|---|---|
| `TypeCorrect` | `Spec => []TypeOK` |
| `OneForwarderLive` | `Spec => []OneLive`: the live forwarder of a target is the registered one |
| `ChainIsLongEnough` | `Spec => []ChainReaches`: the count covers every run still to come |
| `EachPieceOnce` | `Spec => [](NeverCut => OnceInOrder)`: each piece of text once and in order |
| `OneRunPerMessage` | `Spec => []OneVoice`: a message has one run's words |
| `ReplayHasNoGap` | `Spec => []NoGap`: replay and queue leave no gap |
| `AnswersAreFinished` | `Spec => [][HeardUntilSaid]_vars`: no step takes an answer from the forwarder that has its end |

*The argument.* The types need `InRun`: who publishes is a run of the worker's.
`ChainReaches` compares a counter with a set, and the counter goes down when a
forwarder *ends*, long after the run it ended with has left the set.
`Counted` therefore says that once the registered forwarder has its terminal
frame, or has it in its queue, one more is counted than is owed, and one more
again for a run announced in vain until it is released. That a forwarder
gets one terminal frame only rests on `CleanState` (no frame of that kind is
in the ring to be replayed, none is an error's), on `NoMail` and on
`JobsAreQueued`.

What the platform reads is a matter of the frames, wherever they are. `Ordered`
is the invariant of the streams: runs start in the order they were queued,
a frame is of a run that started and no later than the bus's
counter (`FramesKnown`), and the ring, each queue and each collected text are in
line, the text before the queue (`StreamsInLine`). `StepKinds` reduces the twenty
actions to four kinds, a frame is published, the ring is emptied, one forwarder
listens, nothing is heard, and each invariant is preserved kind by kind. For
`EachPieceOnce` it remains that what was sent comes before all that can still be
sent; this is false where a forwarder is cut off between two messages of one
run, and its successor rereads the ring. `NeverCut` excludes just that: a flow break
needs a folded message or task result, a cut needs an announced run that is released, and
one of the two has not happened. For `OneRunPerMessage`, `EndsHeard` says where
the end of each run's words is. For `ReplayHasNoGap`, `RingHoldsAll` says that an untruncated
ring holds each text of the run, and everybody subscribed was given them.

`AnswersAreFinished` is the step behind `HeardIsSent`: of what goes on while the
adapter runs, only `release_run_for` cancels a forwarder (the other places are
listed with the module), and only when the count falls to zero, and by `Counted` the
count is two or more while a forwarder with the end of an answer in its queue is
registered and a run announced in vain is unreleased. It holds of one such run
and not of two (section 5).

### Schedules

`ScheduleManager_proofs`, for any set of subscriptions, any timings that
`RulesAssumption` allows, any horizon and budget:

| Theorem | Statement |
|---|---|
| `TypeCorrect` | `Spec => []TypeOK`: an active row has a time to fire at |
| `HeapFollowsRows` | `Spec => []HeapMatchesRows` |
| `NothingEarly` | `Spec => []NeverEarly`: no run checks it, `ImplementsTimetable` says more |
| `NothingReplayed` | `Spec => NoReplay` |
| `KeepsTheTimetable` | `Spec => ImplementsTimetable` |
| `EarliestIsServed` | `Spec => [](loop = "wait" /\ spent["store"] = 0 => ServesEarliest)` |

*The argument.* `HeapMatchesRows` counts the fresh entries of a subscription.
`Agree` replaces the count by two implications (what belongs in the heap is in
it, what is fresh agrees with its row), which each push, pop and lazy
invalidation preserves because entries are numbered in the order they are pushed
(`Numbered`). `Ahead` says that a row which may fire does so later than it last
did, or has been changed since: `NoReplay` follows, across crashes, because the
pointer is in the row and moves before the dispatch. `EarliestIsServed` says
that the heap computes a function of the rows: the waiting loop has an entry to
take exactly when a row is overdue, and it is one due first. It follows from
`HeapMatchesRows` and the order of the entries, and leaves to fairness only that
the loop is woken.

`KeepsTheTimetable` is the refinement. Besides the invariant it needs `Pointed`, that a
one-shot's pointer is its only instant. `RowSteps` splits the steps in three: a
write to one row with a pointer seeded from now (create, edit, change of status,
deletion), which is the timetable's `Change`; a fire; and those that leave the
rows alone. `TableFire` is where the heap has to be right: the entry taken is of the row that
is due first, because each row that may fire has exactly one fresh entry, at its
pointer. Then `AfterFire`, one search for a one-shot and another for a
recurrence, is the timetable's one search for what comes after.

### Rooms

`GroupFanout_proofs`, for any finite set of members and any bounds and budget
(`BoundsAssumption`, `BudgetAssumption`, `RoomAssumption`):

| Theorem | Statement |
|---|---|
| `TypeCorrect` | `Spec => []TypeOK` |
| `AgentsAreBounded` | `Spec => []AgentsFallSilent` |
| `NoneWokenWrongly` | `Spec => PassedOverSleeps` |
| `NothingSaidTwice` | `Spec => []SaidOnce` |
| `OrderKept` | `Spec => []HandedInOrder` |
| `ReachedAtRest` | `Spec => [](AtRest /\ Calm({"store"}) => ...)`: at rest, every post is in every member's seat or queue, or was stopped, or is `lost` to that seat |

*The arguments.* `HopsGrow`: along a stretch of agents' posts the hop grows with
each, so fewer than `MaxHops` of them are not quiet. `RowIsWider` and
`DebtsAreJust`: a post in flight wakes nobody its row does not name, because the
row starts wide and only narrows, and what the sweep hands out was read from the
row. `Turned`: a seat runs its own turns, what stands under a turn's message was
posted after it was persisted, and when a turn closes all it said before has
been re-pointed, which is what a repeated hook is recognised by. `Queued`: each
post waits for the one before it unless all before it are through, so that
"handed" is downward closed and what a seat holds increases. `Reaching`: whoever
a row does not name yet is named by a fan-out still on its way or by the
sweep that will run. `Held`: who is named has the post, in the seat or queued, or
has lost it from the queue; the theorem is about the seats, not about what the rows
say. Since a post waits for an older one only, posts that all
wait would have an oldest one that waits for nothing.

### What the theorems rest on

*They are not vacuous.* The runs fire every action the proofs speak of, and each property has a mutant in `PROJECT.json` (a dropped
condition, a missing check, a swapped order) under which TLC
finds a violation.


## 5. Findings

Each is a run that ends in a violation of one property quoting the repository.

| Run | Property | What the code does |
|---|---|---|
| `delivery_stop_read` | `Accounted` | Stop in the finishing loop of a mid-turn read, after the `try` that releases claims, keeps the claims: the results are never shown. (`event_task_delivery.py:934`) |
| `dispatch_cancelled` | `StandingKeepsFiring` | A Stop outside the agent loop of a trigger turn ends the rule's worker, and none is started again until the process restarts. (`run_dispatcher.py:47`) |
| `forwarding_lost` | `EveryRunAnswered` | While a forwarder waits for the platform, the next run completes and its `end_run` empties the ring; the forwarder chained for it replays nothing, and the answer is never sent. No fault is needed. (`channels/base.py:1504`) |
| `schedules_task` | `TaskHappens` | A schedule task moved to a time that has passed, or cancelled and resumed after its time, is completed without firing; no deadline covers it. (`calendar/provider.py:305`) |
| `groups_order` | `SeatInOrder` | A post that starts a turn is written to the seat when the turn starts, one that starts none at once: a seat's history may hold a later post before an earlier one. No fault is needed. (`fanout.py:669`) |

Other disagreements met while modelling, which no run is spent on; the models
take these paths, and the properties exclude or tolerate them:

- A turn-end flush whose injection fails releases its claims "so a later flush
  retries" but returns normally, and the marker is cleared: no later turn end
  looks (`stream_runner.py:1773`).
- A crash between the claim of a timeout and the insert of its row leaves an
  expired task nobody reports (`event_task_delivery.py:1103`).
- The triggers start at boot before the reconciliation of tasks
  (`server.py:1722-1754`, `:1955`). A one-shot claimed meanwhile, whose row is not
  inserted yet, has no live run and is closed as an orphan, although a rule is
  "completed" only "after delivery" (`_task_subscription.py:55`); if the insert then
  fails, the reversal of the claim no longer matches and the one-shot is lost
  (`event_task_delivery.py:1271`).
- A Stop outside the agent loop queues the follow-up for a worker about to end,
  and it waits for the next message (`queue.py:73`).
- A reply turn that raises outside its agent loop is swallowed by its worker
  (`queue.py:77-84`), and no status is written as `run_dispatcher.py:355-362` does
  for a trigger turn: its row says "running" until the next message or boot. The
  same happens to the row of any turn that is cancelled outside the loop
  (`stream_runner.py:542-744`, `:1093-1682`) or whose final write raises (`:1536`),
  and to a row whose reply was queued when its worker was cancelled.
  `RunningIsLive` names these cases.
- `_close_out` commits the claim and the mode in two transactions and logs what
  raises (`event_task_delivery.py:1002-1010`), and the release of a claim that raises
  is only logged (`:807-810`, `:927-930`): either leaves a row claimed that nobody
  reports, with no mode, and a one-shot's rule not ended. In the ledger it stays
  `held`.
- A reply typed before the trigger turn has bound its hidden conversation
  starts a second turn in it (`run_dispatcher.py:337`).
- A claim UPDATE that raises in the middle of a flush leaves the earlier claims
  taken (`event_task_delivery.py:719`); the write of a row's `mid_turn` state
  that raises is only logged (`user_message_delivery.py:71`); a Stop between
  `start_run` and the `try` leaves the bus active (`stream_runner.py:541`); a
  crash between the trace and the marking of its rows shows a message twice
  (`stream_runner.py:1382`).
- An announced run whose hand-over failed is "released" by count. With
  a forwarder between two messages of a run (a flow break), the count falls to
  zero, the forwarder is cancelled, and one spawned for the next message folded
  in rereads the run from the ring: what was sent is sent again. Two such
  hand-overs in a row may cancel a forwarder that has a run's answer
  in its queue, because a run dispatched while the first was being undone is
  counted off with it: the answer is never sent (`channels/base.py:1547`).
  `NeverCut` and `HeardIsSent` name these conditions.
- A forwarder chained after a failed run reads that run's error frame again from
  the ring: the platform gets the error twice, and the next run's place in the
  count is used up (`channels/base.py:1490`). A late Stop leaves no terminal
  frame, and its text is sent in front of the next answer. Clearing a sender's
  history leaves a waiting forwarder behind.
- A storage call that raises inside `_fire` consumes the entry without arming
  another, so the schedule rests until the next restart; a lookup that raises
  in `refresh` leaves the old entry fresh, which then fires early
  (`schedule_manager.py:104`, `:181`). Editing the time of a paused schedule
  reactivates it (`calendar/provider.py:304`).
- A post that starts a turn waits in the seat's queue in memory
  (`fanout.py:667`) while `update_delivered_to` already records it (`:296`). A crash
  then, or a Stop of the turn before it has written its message
  (`queue.py:73`), loses the post for that seat, and the boot sweep passes the
  seat over, although `fanout.py:29` says that a post "reaches every seat either way" and
  `:293-295` that the record is accurate after a crash. `lost` records these
  posts, and `EveryPostReachesAll` and `ReachedAtRest` name them. A
  crash just before `update_delivered_to` delivers it twice (`fanout.py:292-296`).
  The delivery sweep may hand out, without its routing, a post whose own fan-out
  is still running (`boot.py:156`).


## 6. What is only model-checked, and what is not modelled

*Only model-checked.* The liveness properties (the prover does not do
liveness under fairness): `EventuallyClaimed`, `EventuallyTold`,
`EventuallyHeard`, `EventuallyUnhidden`, `EventuallyHandled`, `HeardIsSent`,
`OverdueIsServed` and `EveryPostReachesAll`; and what the violation runs check. For all but
`EventuallyUnhidden` a theorem of section 4 proves the part that is safety: the system
cannot come to rest, or take a step, against the promise
(`NothingStrandedWhenCalm`, `ExactlyOnceAtRest`, `HeardAtRest`, `HandledAtRest`,
`AnswersAreFinished`, `EarliestIsServed`, `ReachedAtRest`), and fairness is left
only that something moves. Every safety property of a passing run is a theorem;
`NothingStranded`, `Accounted` and `OnceInOrder` are theorems under the
conditions `Calm`, `Unbroken` and `NeverCut`, since they are false for some
budgets beyond those of their runs.

*Not modelled.* The components marked so in section 1. Within the modelled ones:
tools, compaction, plan mode, attachments, retention pruning, the wording of
every injected text, authentication, several processes over one database (the
program is one process). Time outside `ScheduleManager`: deadlines may pass at
any moment, so a property here holds whatever the clock does. Loss of a
committed transaction.

*How much of the repository this is.* The models cover the coordination of
turns, runs, results, messages, schedules, replies and rooms, some five
thousand lines. Most of the 313 thousand lines of the repository are
integrations (tools, document parsing and research, chat platforms, model
providers), a user interface, a command line and installers: sequential code
around I/O whose behaviour is decided by what the other side answers. A model of
it would restate it.


## 7. Plan

Done: every module of section 2, every safety property of a passing run proved,
that delivery implements its ledger and the manager its timetable.

Next theorems: an abstract specification for a third component, a mailbox for
`MidTurnMessages` (each message goes to one turn or waits); the safety core of
`EventuallyUnhidden`.

Next modules: the TLS transition and the research job's claim, two small
persisted machines with crashes.
