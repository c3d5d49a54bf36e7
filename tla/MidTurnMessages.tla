-------------------------- MODULE MidTurnMessages --------------------------
(***************************************************************************)
(* Messages the user types while a turn of the same conversation is        *)
(* running (app/events/user_message_delivery.py, the user half of          *)
(* task_result_inbox.py), with what decides their fate: the conversation's *)
(* queue and worker (queue.py) and the stages of a turn                    *)
(* (stream_runner.run_agent_to_bus).                                       *)
(*                                                                         *)
(* One conversation.  A message is offered to the running turn; the turn   *)
(* absorbs it, or a follow-up turn answers it, or it runs as its own turn. *)
(* The model behind the agent is given, in each turn, the visible rows,    *)
(* the persisted traces of earlier turns, its own query and what it drains.*)
(***************************************************************************)
EXTENDS Naturals, Sequences, FiniteSets

CONSTANTS
  Msgs,     \* the messages the user sends
  Cap,      \* _MAX_USER_PARKED
  Budget    \* how often each fault may happen

Faults == { "error",   \* the agent raises inside its loop
            "stop",    \* Stop while the agent loop runs
            "late",    \* Stop at another await of the turn
            "db",      \* a database call raises
            "crash" }  \* the process dies

ASSUME CapAssumption    == Cap \in Nat
ASSUME BudgetAssumption == Budget \in [Faults -> Nat]

VARIABLES
  row,      \* the message's row: "absent", "plain", or its mid_turn.state
  post,     \* where the POST handler of a message is ("new": not sent)
  bound,    \* task_result_inbox._conv_to_run has the conversation
  parked,   \* _user_parked
  drained,  \* _user_drained: handed to the agent, trace not persisted
  taken,    \* messages out of the inbox whose rows are being marked
  queue,    \* the conversation's FIFO; an item is the message it has for query
  turn,     \* where the worker is in its turn; "dead" when there is no worker
  query,    \* the current turn's own message (none in a follow-up)
  ctx,      \* the rows the current turn's history showed
  ok,       \* the agent reached its DONE chunk, so there is a trace
  dying,    \* a CancelledError is on its way out of the worker
  traced,   \* messages inside a persisted trace
  heard,    \* history: messages some turn's model was given
  phase,    \* "up", "down", "boot"
  sweep,    \* rows the boot sweep still has to release
  spent     \* history: how much of Budget is used

inbox    == <<bound, parked, drained, taken>>
turnVars == <<turn, query, ctx, ok, dying>>
boot     == <<phase, sweep>>
vars == <<row, post, inbox, queue, turnVars, traced, heard, boot, spent>>

\* Mutant: a pending row is part of the history.
VisibleAll == {m \in Msgs : row[m] \in {"plain", "released", "pending"}}

\* convert_db_messages_to_history, with reasoning replayed: a pending row is
\* hidden, a consumed one is in a trace.
Visible == {m \in Msgs : row[m] \in {"plain", "released"}}

Spend(f) == spent[f] < Budget[f] /\ spent' = [spent EXCEPT ![f] = @ + 1]

\* A row's metadata is written; _set_state and the commit log a failure.
SetState(m, s) ==
  \/ row' = [row EXCEPT ![m] = s] /\ UNCHANGED spent
  \/ Spend("db") /\ UNCHANGED row

\* queue.enqueue_user_message: _ensure_worker, then put.
Enqueue(item) ==
  /\ queue' = Append(queue, item)
  /\ turn' = IF turn = "dead" THEN "idle" ELSE turn

-----------------------------------------------------------------------------
(* POST /conversations/{id}/messages                                       *)

\* The cheap pre-check: with no live turn the message is queued as usual.
Send(m) ==
  /\ phase = "up" /\ post[m] = "new"
  /\ post' = [post EXCEPT ![m] = IF bound THEN "persist" ELSE "enqueue"]
  /\ UNCHANGED <<row, inbox, queue, turnVars, traced, heard, boot, spent>>

\* The row is inserted as pending; if that raises, the message is queued.
PersistMessage(m) ==
  /\ post[m] = "persist"
  /\ \/ /\ row' = [row EXCEPT ![m] = "pending"]
        /\ post' = [post EXCEPT ![m] = "park"]
        /\ UNCHANGED spent
     \/ /\ Spend("db")
        /\ post' = [post EXCEPT ![m] = "enqueue"]
        /\ UNCHANGED row
  /\ UNCHANGED <<inbox, queue, turnVars, traced, heard, boot>>

\* Mutant: the park relies on the pre-check.
ParkBlind(m) ==
  /\ post[m] = "park"
  /\ IF Cardinality(parked \cup drained) < Cap
     THEN parked' = parked \cup {m} /\ post' = [post EXCEPT ![m] = "done"]
     ELSE UNCHANGED parked /\ post' = [post EXCEPT ![m] = "release"]
  /\ UNCHANGED <<row, bound, drained, taken, queue, turnVars, traced, heard, boot, spent>>

\* park_user_message_if_bound: refused when the turn has ended or the inbox is
\* full.
Park(m) ==
  /\ post[m] = "park"
  /\ IF bound /\ Cardinality(parked \cup drained) < Cap
     THEN parked' = parked \cup {m} /\ post' = [post EXCEPT ![m] = "done"]
     ELSE UNCHANGED parked /\ post' = [post EXCEPT ![m] = "release"]
  /\ UNCHANGED <<row, bound, drained, taken, queue, turnVars, traced, heard, boot, spent>>

\* A refused message becomes an ordinary row, for a turn of its own.
ReleaseRefused(m) ==
  /\ post[m] = "release"
  /\ SetState(m, "released")
  /\ post' = [post EXCEPT ![m] = "enqueue"]
  /\ UNCHANGED <<inbox, queue, turnVars, traced, heard, boot>>

EnqueueOwn(m) ==
  /\ post[m] = "enqueue"
  /\ Enqueue({m})
  /\ post' = [post EXCEPT ![m] = "done"]
  /\ UNCHANGED <<row, inbox, query, ctx, ok, dying, traced, heard, boot, spent>>

Handler(m) ==
  PersistMessage(m) \/ Park(m) \/ ReleaseRefused(m) \/ EnqueueOwn(m)

-----------------------------------------------------------------------------
(* A turn                                                                  *)

TurnStart ==
  /\ turn = "idle" /\ queue # <<>>
  /\ query' = Head(queue) /\ queue' = Tail(queue)
  /\ turn' = "start"
  /\ UNCHANGED <<row, post, inbox, ctx, ok, dying, traced, heard, boot, spent>>

\* bind_run; a query that has no row yet gets an ordinary one.
TurnBind ==
  /\ turn = "start"
  /\ bound' = TRUE /\ turn' = "bound"
  /\ row' = [m \in Msgs |-> IF m \in query /\ row[m] = "absent" THEN "plain" ELSE row[m]]
  /\ UNCHANGED <<post, parked, drained, taken, queue, query, ctx, ok, dying, traced, heard, boot, spent>>

\* build_compacted_history, without the row of this turn's own message.
BuildHistory ==
  /\ turn = "bound"
  /\ ctx' = Visible \ query
  /\ heard' = heard \cup query \cup ctx'
  /\ turn' = "live"
  /\ UNCHANGED <<row, post, inbox, queue, query, ok, dying, traced, boot, spent>>

\* Mutant: the drain copies instead of moving.
AbsorbCopies ==
  /\ turn = "live" /\ parked # {}
  /\ drained' = drained \cup parked
  /\ heard' = heard \cup parked
  /\ UNCHANGED <<row, post, bound, parked, taken, queue, turnVars, traced, boot, spent>>

\* drain_user_messages at the top of a step; a call that carries them follows.
Absorb ==
  /\ turn = "live" /\ parked # {}
  /\ drained' = drained \cup parked /\ parked' = {}
  /\ heard' = heard \cup parked
  /\ UNCHANGED <<row, post, bound, taken, queue, turnVars, traced, boot, spent>>

\* The loop ends: DONE carries the trace, an error or a Stop leaves none.
LoopEnds ==
  /\ turn = "live"
  /\ \/ ok' = TRUE /\ UNCHANGED spent
     \/ ok' = FALSE /\ Spend("error")
     \/ ok' = FALSE /\ Spend("stop")
  /\ turn' = "persist"
  /\ UNCHANGED <<row, post, inbox, queue, query, ctx, dying, traced, heard, boot>>

\* Mutant: the commit is not gated on the trace.
PersistAnswerUngated ==
  /\ turn = "persist"
  /\ turn' = "commit"
  /\ traced' = IF ok THEN traced \cup drained ELSE traced
  /\ UNCHANGED <<row, post, inbox, queue, query, ctx, ok, dying, heard, boot, spent>>

\* The answer's row is written, with its trace; without one, or when the
\* insert raises, nothing is committed.
PersistAnswer ==
  /\ turn = "persist"
  /\ \/ /\ traced' = IF ok THEN traced \cup drained ELSE traced
        /\ turn' = IF ok THEN "commit" ELSE "wrap"
        /\ UNCHANGED spent
     \/ /\ Spend("db") /\ turn' = "wrap"
        /\ UNCHANGED traced
  /\ UNCHANGED <<row, post, inbox, queue, query, ctx, ok, dying, heard, boot>>

\* commit_user_messages, after the citations went out on the bus.
Commit ==
  /\ turn = "commit"
  /\ taken' = drained /\ drained' = {}
  /\ turn' = "mark"
  /\ UNCHANGED <<row, post, bound, parked, queue, query, ctx, ok, dying, traced, heard, boot, spent>>

Mark ==
  /\ turn = "mark"
  /\ IF taken = {}
     THEN turn' = "wrap" /\ UNCHANGED <<row, taken, spent>>
     ELSE /\ \E m \in taken : SetState(m, "consumed") /\ taken' = taken \ {m}
          /\ UNCHANGED turn
  /\ UNCHANGED <<post, bound, parked, drained, queue, query, ctx, ok, dying, traced, heard, boot>>

\* Compaction and notifications are over; the finally block unbinds first.
TurnEnd ==
  /\ turn = "wrap"
  /\ bound' = FALSE /\ turn' = "out"
  /\ UNCHANGED <<row, post, parked, drained, taken, queue, query, ctx, ok, dying, traced, heard, boot, spent>>

\* Stop outside the agent loop: nothing there catches CancelledError, so the
\* finally block runs and the worker dies; before the try, the worker just dies.
StopLate ==
  /\ turn \in {"start", "bound", "persist", "commit", "mark", "wrap"} /\ Spend("late")
  /\ bound' = FALSE /\ taken' = {}
  /\ IF turn = "start"
     THEN turn' = "dead" /\ query' = {} /\ UNCHANGED dying
     ELSE turn' = "out" /\ dying' = TRUE /\ UNCHANGED query
  /\ UNCHANGED <<row, post, parked, drained, queue, ctx, ok, traced, heard, boot>>

\* Mutant: what was handed to the agent counts as answered.
FlushParkedOnly ==
  /\ turn = "out"
  /\ taken' = parked /\ parked' = {} /\ drained' = {}
  /\ turn' = IF parked = {} THEN "leave" ELSE "release"
  /\ UNCHANGED <<row, post, bound, queue, query, ctx, ok, dying, traced, heard, boot, spent>>

\* flush_user_inbox takes what the turn did not account for.
FlushTake ==
  /\ turn = "out"
  /\ IF parked \cup drained = {}
     THEN turn' = "leave" /\ UNCHANGED <<parked, drained, taken>>
     ELSE /\ taken' = parked \cup drained
          /\ parked' = {} /\ drained' = {}
          /\ turn' = "release"
  /\ UNCHANGED <<row, post, bound, queue, query, ctx, ok, dying, traced, heard, boot, spent>>

\* _deliver_followup: the rows are released, then one turn is enqueued; loading
\* the history in between may raise, and then no turn is.
FlushRelease ==
  /\ turn = "release"
  /\ IF taken = {}
     THEN turn' = "follow" /\ UNCHANGED <<row, taken, spent>>
     ELSE /\ \E m \in taken : SetState(m, "released") /\ taken' = taken \ {m}
          /\ UNCHANGED turn
  /\ UNCHANGED <<post, bound, parked, drained, queue, query, ctx, ok, dying, traced, heard, boot>>

FlushFollowUp ==
  /\ turn = "follow"
  /\ turn' = "leave"
  /\ \/ queue' = Append(queue, {}) /\ UNCHANGED spent
     \/ Spend("db") /\ UNCHANGED queue
  /\ UNCHANGED <<row, post, inbox, query, ctx, ok, dying, traced, heard, boot>>

\* run_agent_to_bus returns to the worker, or takes it down.
TurnLeave ==
  /\ turn = "leave"
  /\ turn' = IF dying THEN "dead" ELSE "idle"
  /\ dying' = FALSE /\ query' = {} /\ ctx' = {} /\ ok' = FALSE
  /\ UNCHANGED <<row, post, inbox, queue, traced, heard, boot, spent>>

TurnStep ==
  \/ TurnStart \/ TurnBind \/ BuildHistory \/ LoopEnds \/ PersistAnswer
  \/ Commit \/ Mark \/ TurnEnd \/ FlushTake \/ FlushRelease \/ FlushFollowUp
  \/ TurnLeave

-----------------------------------------------------------------------------
(* Crash and boot                                                          *)

Crash ==
  /\ phase = "up" /\ Spend("crash")
  /\ phase' = "down"
  /\ post' = [m \in Msgs |-> IF post[m] = "new" THEN "new" ELSE "done"]
  /\ bound' = FALSE /\ parked' = {} /\ drained' = {} /\ taken' = {}
  /\ queue' = <<>> /\ turn' = "dead"
  /\ query' = {} /\ ctx' = {} /\ ok' = FALSE /\ dying' = FALSE
  /\ UNCHANGED <<row, traced, heard, sweep>>

\* Mutant: boot has nothing to sweep.
BootListNone ==
  /\ phase = "down"
  /\ phase' = "up"
  /\ UNCHANGED <<row, post, inbox, queue, turnVars, traced, heard, sweep, spent>>

\* sweep_stranded_mid_turn_messages; the server takes requests only after boot.
BootList ==
  /\ phase = "down"
  /\ sweep' = {m \in Msgs : row[m] = "pending"}
  /\ phase' = IF sweep' = {} THEN "up" ELSE "boot"
  /\ UNCHANGED <<row, post, inbox, queue, turnVars, traced, heard, spent>>

BootRelease ==
  /\ phase = "boot" /\ sweep # {}
  /\ \E m \in sweep : SetState(m, "released") /\ sweep' = sweep \ {m}
  /\ UNCHANGED <<post, inbox, queue, turnVars, traced, heard, phase>>

BootFollowUp ==
  /\ phase = "boot" /\ sweep = {}
  /\ Enqueue({})
  /\ phase' = "up"
  /\ UNCHANGED <<row, post, inbox, query, ctx, ok, dying, traced, heard, sweep, spent>>

BootStep == BootList \/ BootRelease \/ BootFollowUp

-----------------------------------------------------------------------------
Init ==
  /\ row = [m \in Msgs |-> "absent"] /\ post = [m \in Msgs |-> "new"]
  /\ bound = FALSE /\ parked = {} /\ drained = {} /\ taken = {}
  /\ queue = <<>> /\ turn = "dead"
  /\ query = {} /\ ctx = {} /\ ok = FALSE /\ dying = FALSE
  /\ traced = {} /\ heard = {}
  /\ phase = "up" /\ sweep = {}
  /\ spent = [f \in Faults |-> 0]

Next ==
  \/ \E m \in Msgs : Send(m) \/ Handler(m)
  \/ TurnStep \/ Absorb \/ StopLate \/ Crash \/ BootStep

Spec == Init /\ [][Next]_vars

\* The event loop runs the handlers, the worker and the boot sequence; an agent
\* loop comes to an end.  The agent may or may not take another step.
Fairness ==
  /\ \A m \in Msgs : WF_vars(Handler(m))
  /\ WF_vars(TurnStep) /\ WF_vars(BootStep)

FairSpec == Spec /\ Fairness

-----------------------------------------------------------------------------
(* Properties                                                              *)

\* Every variable stays in its range, and a message is in one list at most.
TypeOK ==
  /\ row \in [Msgs -> {"absent", "plain", "pending", "released", "consumed"}]
  /\ post \in [Msgs -> {"new", "persist", "park", "release", "enqueue", "done"}]
  /\ bound \in BOOLEAN /\ ok \in BOOLEAN /\ dying \in BOOLEAN
  /\ parked \in SUBSET Msgs /\ drained \in SUBSET Msgs /\ taken \in SUBSET Msgs
  /\ queue \in Seq(SUBSET Msgs)
  /\ turn \in {"dead", "idle", "start", "bound", "live", "persist", "commit", "mark",
               "wrap", "out", "release", "follow", "leave"}
  /\ query \in SUBSET Msgs /\ ctx \in SUBSET Msgs
  /\ traced \in SUBSET Msgs /\ heard \in SUBSET Msgs
  /\ phase \in {"up", "down", "boot"} /\ sweep \in SUBSET Msgs
  /\ spent \in [Faults -> Nat]
  /\ parked \cap drained = {} /\ (parked \cup drained) \cap taken = {}

\* "exactly one copy of the message ever reaches the model"
\* (user_message_delivery.py): what a live turn was given as history, trace,
\* query and injection never overlap.  Up to a crash, and a Stop outside the
\* agent loop, between the write of a trace and the marking of its messages.
OneCopy ==
  turn = "live" /\ spent["crash"] = 0 /\ spent["late"] = 0 =>
    /\ (ctx \cup query \cup traced) \cap drained = {}
    /\ (ctx \cup query) \cap traced = {}

\* A hidden row is in somebody's hands (stream_runner.py:1720): while its message
\* is pending, its handler, the inbox or a flush has it, or a trace carries it.
\* Up to a failing database call.
HiddenIsHeld ==
  phase = "up" /\ spent["db"] = 0 =>
    \A m \in Msgs : row[m] = "pending" =>
      \/ post[m] \in {"park", "release"}
      \/ m \in parked \cup drained \cup taken \cup traced

\* A consumed row is hidden because a trace has its text
\* (stream_runner.py:1363); hidden without one, the message would be forgotten.
ConsumedIsTraced == \A m \in Msgs : row[m] = "consumed" => m \in traced

\* Nothing but the agent's own errors and Stops inside its loop happened.
Calm == spent["crash"] = 0 /\ spent["late"] = 0 /\ spent["db"] = 0

\* The injection is the optimisation, the flush the guarantee "that a sent
\* message is always answered" (stream_runner.py:1725): whatever the race with
\* the turn's end, some turn's model is given every message sent.
EventuallyHeard == []Calm => \A m \in Msgs : post[m] # "new" ~> m \in heard

\* Boot releases what a crash left hidden (server.py:1777), and a turn marks or
\* releases what it took: no message stays hidden from history for good.
EventuallyUnhidden ==
  [](spent["late"] = 0 /\ spent["db"] = 0) =>
    \A m \in Msgs : row[m] = "pending" ~> row[m] # "pending"
=============================================================================
