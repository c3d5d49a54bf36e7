-------------------------- MODULE ReplyForwarding --------------------------
(***************************************************************************)
(* How the answers of a conversation's runs reach an external platform:    *)
(* the reply forwarders of a channel adapter (app/channels/base.py)        *)
(* composed with the stream bus they subscribe to, the conversation's      *)
(* queue and worker (events/queue.py) and the stages of a run that publish *)
(* (stream_runner.run_agent_to_bus).                                       *)
(*                                                                         *)
(* One conversation bound to one direct-message target, "normal" response  *)
(* mode: what is sent is the text between two flow breaks, the text before *)
(* the terminal frame, or an error.  A forwarder is an asyncio task; one   *)
(* action is what it does between two suspension points.                   *)
(***************************************************************************)
EXTENDS StreamBus, FiniteSets, SequencesExt

CONSTANTS
  MaxRuns,   \* runs of the conversation
  MaxText,   \* text frames one run publishes
  Budget,    \* how often each of these may happen
  Quota      \* how many of them may happen in all

Faults == { "fold",      \* a message is folded into the running turn
            "break",     \* a flow break with no message to take
            "fail",      \* the agent raises, or is stopped, inside its loop
            "late",      \* Stop at another await of the turn
            "clear",     \* the sender's history is cleared
            "release" }  \* a forwarder is armed for a run that is not queued

ASSUME BoundsAssumption == MaxRuns \in Nat /\ MaxText \in Nat
ASSUME BudgetAssumption == Budget \in [Faults -> Nat] /\ Quota \in Nat
\* Forwarder tasks are numbered; 0 is nobody.
ASSUME TasksAssumption  == Clients \subseteq Nat \ {0}

VARIABLES
  fate,      \* what has become of each run
  jobs,      \* the conversation's FIFO
  turn,      \* the worker: no worker, waiting, in a run, in the turn-end flush
  bound,     \* task_result_inbox has the run: messages fold into it
  folded,    \* a folded message is still in the inbox
  texts,     \* text frames of the current run
  pc,        \* where each forwarder task is
  text,      \* text_chunks of each forwarder
  inflight,  \* _inflight[target]
  pending,   \* _pending_runs[target]
  armed,     \* a forwarder was armed and its run could not be queued
  sent,      \* history: the messages handed to the platform
  spent      \* history: how much of Budget is used

runVars == <<fate, jobs, turn, bound, folded, texts>>
fwdVars == <<pc, text, inflight, pending>>
vars == <<busVars, runVars, fwdVars, armed, sent, spent>>

\* In the order they are queued.
Runs == 1..MaxRuns

Forwarders == Clients
None == 0

\* task.done() is false.
Live == {f \in Forwarders : pc[f] \notin {"free", "done"}}

\* task.cancel() changes something; a task that is only waiting for its typing
\* loop ends as it would have.
Cancellable == {f \in Live : pc[f] # "closing"}

\* The task the next forwarder will be, if there is one left.
Free == {f \in Forwarders : pc[f] = "free" /\ \A g \in Forwarders : g < f => pc[g] # "free"}

Current == CHOOSE r \in Runs : fate[r] \in {"running", "failing"}

Spend(f) ==
  /\ spent[f] < Budget[f]
  /\ SumFunction(spent) < Quota
  /\ spent' = [spent EXCEPT ![f] = @ + 1]

-----------------------------------------------------------------------------
(* The adapter's bookkeeping                                               *)

\* _spawn_forwarder: a task is created and registered; it runs later.
Spawn(f) ==
  /\ pc' = [pc EXCEPT ![f] = "spawned"]
  /\ inflight' = f

\* Mutant: only a run that finds no forwarder is counted.
ExpectRunOnce ==
  /\ IF inflight = None \/ inflight \notin Live
     THEN pending' = pending + 1 /\ \E f \in Free : Spawn(f)
     ELSE UNCHANGED <<pending, pc, inflight>>
  /\ UNCHANGED text

\* Mutant: every expected run gets a forwarder at once.
ExpectRunEager ==
  /\ pending' = pending + 1
  /\ \E f \in Free : Spawn(f)
  /\ UNCHANGED text

\* _expect_run: one more run is owed; a forwarder is spawned if none is live.
ExpectRun ==
  /\ pending' = pending + 1
  /\ IF inflight = None \/ inflight \notin Live
     THEN \E f \in Free : Spawn(f)
     ELSE UNCHANGED <<pc, inflight>>
  /\ UNCHANGED text

\* The next run joins the FIFO; enqueue_user_message ensures a worker.
Queue ==
  \E r \in Runs :
    /\ fate[r] = "new" /\ \A q \in Runs : q < r => fate[q] # "new"
    /\ fate' = [fate EXCEPT ![r] = "queued"]
    /\ jobs' = Append(jobs, r)

-----------------------------------------------------------------------------
(* Runs are asked for                                                      *)

\* _dispatch_to_agent with no turn to fold into, or forward_external_run and
\* the enqueue of a task result: no suspension between the two.
Dispatch ==
  /\ ExpectRun
  /\ Queue
  /\ turn' = IF turn = "dead" THEN "idle" ELSE turn
  /\ UNCHANGED <<busVars, bound, folded, texts, armed, sent, spent>>

\* The message was parked into the running turn: a forwarder is needed only if
\* none is live.
Fold ==
  /\ bound /\ Spend("fold")
  /\ folded' = TRUE
  /\ IF inflight = None \/ inflight \notin Live THEN ExpectRun ELSE UNCHANGED fwdVars
  /\ UNCHANGED <<busVars, fate, jobs, turn, bound, texts, armed, sent>>

\* forward_external_run, and then the hand-over raises.
ArmInVain ==
  /\ ~armed /\ Spend("release")
  /\ armed' = TRUE
  /\ ExpectRun
  /\ UNCHANGED <<busVars, runVars, sent>>

\* Mutant: the count has no floor.
ReleaseRunBelow ==
  /\ armed
  /\ armed' = FALSE
  /\ pending' = pending - 1
  /\ pc' = IF pending' = 0 /\ inflight \in Cancellable
           THEN [pc EXCEPT ![inflight] = "cancelled"] ELSE pc
  /\ UNCHANGED <<busVars, runVars, text, inflight, sent, spent>>

\* Mutant: the forwarder is cancelled whatever is still owed.
ReleaseRunBlind ==
  /\ armed
  /\ armed' = FALSE
  /\ pending' = IF pending > 1 THEN pending - 1 ELSE 0
  /\ pc' = IF inflight \in Cancellable
           THEN [pc EXCEPT ![inflight] = "cancelled"] ELSE pc
  /\ UNCHANGED <<busVars, runVars, text, inflight, sent, spent>>

\* release_run_for: one run less is owed, and the forwarder goes with the last.
ReleaseRun ==
  /\ armed
  /\ armed' = FALSE
  /\ pending' = IF pending > 1 THEN pending - 1 ELSE 0
  /\ pc' = IF pending' = 0 /\ inflight \in Cancellable
           THEN [pc EXCEPT ![inflight] = "cancelled"] ELSE pc
  /\ UNCHANGED <<busVars, runVars, text, inflight, sent, spent>>

-----------------------------------------------------------------------------
(* The worker and its runs                                                 *)

\* A task in the loop's ready queue takes its first step before the worker is
\* woken, so a forwarder spawned with the run is subscribed by now.
StartRun ==
  /\ turn = "idle" /\ jobs # <<>>
  /\ \A f \in Forwarders : pc[f] # "spawned"
  /\ fate' = [fate EXCEPT ![Head(jobs)] = "running"]
  /\ jobs' = Tail(jobs)
  /\ turn' = "run" /\ texts' = 0
  /\ StartStream
  /\ UNCHANGED <<bound, folded, fwdVars, armed, sent, spent>>

\* bind_run, well after start_run.
Bind ==
  /\ turn = "run" /\ ~bound /\ fate[Current] = "running"
  /\ bound' = TRUE
  /\ UNCHANGED <<busVars, fate, jobs, turn, folded, texts, fwdVars, armed, sent, spent>>

Say ==
  /\ bound /\ fate[Current] = "running" /\ texts < MaxText
  /\ texts' = texts + 1
  /\ Publish(Current, "text")
  /\ UNCHANGED <<fate, jobs, turn, bound, folded, fwdVars, armed, sent, spent>>

\* The agent takes what was folded in, and a flow break precedes its reply; one
\* follows it, and a task result that is folded in brings the same two.
FlowBreak ==
  /\ bound /\ fate[Current] = "running"
  /\ \/ folded /\ folded' = FALSE /\ UNCHANGED spent
     \/ Spend("break") /\ UNCHANGED folded
  /\ Publish(Current, "flow_break")
  /\ UNCHANGED <<fate, jobs, turn, bound, texts, fwdVars, armed, sent>>

\* An exception or a CancelledError inside the agent loop: the error frame goes
\* out, and the turn goes on to persist what it has.
FailRun ==
  /\ bound /\ fate[Current] = "running" /\ Spend("fail")
  /\ fate' = [fate EXCEPT ![Current] = "failing"]
  /\ Publish(Current, "error")
  /\ UNCHANGED <<jobs, turn, bound, folded, texts, fwdVars, armed, sent>>

\* "complete", unbind_run, end_run.  A run that did not fail has an answer.
FinishRun ==
  /\ bound /\ (texts > 0 \/ fate[Current] = "failing")
  /\ fate' = [fate EXCEPT ![Current] = IF @ = "failing" THEN "failed" ELSE "complete"]
  /\ turn' = IF folded THEN "flush" ELSE "idle"
  /\ bound' = FALSE /\ texts' = 0
  /\ PublishLast(Current, "complete")
  /\ UNCHANGED <<jobs, folded, fwdVars, armed, sent, spent>>

\* Stop outside the agent loop: the finally ends the run with no terminal frame
\* and the cancellation leaves the worker with it.
LateStop ==
  /\ turn = "run" /\ Spend("late")
  /\ fate' = [fate EXCEPT ![Current] = IF @ = "failing" THEN "failed" ELSE "stopped"]
  /\ turn' = IF folded THEN "dying" ELSE "dead"
  /\ bound' = FALSE /\ texts' = 0
  /\ EndStream
  /\ UNCHANGED <<jobs, folded, fwdVars, armed, sent>>

\* flush_user_inbox: what the turn did not take runs as a follow-up turn, with a
\* forwarder of its own.
FollowUp ==
  /\ turn \in {"flush", "dying"}
  /\ ExpectRun
  /\ Queue
  /\ folded' = FALSE
  /\ turn' = IF turn = "dying" THEN "dead" ELSE "idle"
  /\ UNCHANGED <<busVars, bound, texts, armed, sent, spent>>

\* DELETE of a sender's history, refused while a run is active: the queue, the
\* worker and the bus's state go; the adapter is not told.
ClearHistory ==
  /\ ~active /\ Spend("clear")
  /\ fate' = [r \in Runs |-> IF fate[r] = "queued" THEN "cleared" ELSE fate[r]]
  /\ jobs' = <<>> /\ turn' = "dead" /\ folded' = FALSE
  /\ Discard
  /\ UNCHANGED <<bound, texts, fwdVars, armed, sent>>

-----------------------------------------------------------------------------
(* A forwarder                                                             *)

\* Mutant: the replay is not read.
JoinBlind(f) ==
  /\ pc[f] = "spawned"
  /\ pc' = [pc EXCEPT ![f] = "recv"]
  /\ subs' = subs \cup {f} /\ UNCHANGED <<ring, seq, active, mail>>
  /\ UNCHANGED <<runVars, text, inflight, pending, armed, sent, spent>>

\* _forward_reply up to its first queue.get.
Join(f) ==
  /\ pc[f] = "spawned"
  /\ pc' = [pc EXCEPT ![f] = "recv"]
  /\ Subscribe(f)
  /\ UNCHANGED <<runVars, text, inflight, pending, armed, sent, spent>>

\* A frame leaves the client's queue.
Pop(f) ==
  /\ mail' = [mail EXCEPT ![f] = Tail(@)]
  /\ UNCHANGED <<ring, seq, active, subs>>

\* flush_interim: what was said so far goes out as a message of its own.
AbsorbBreak(f) ==
  /\ Head(mail[f]).kind = "flow_break"
  /\ IF text[f] = <<>>
     THEN UNCHANGED <<pc, text, sent>>
     ELSE /\ sent' = Append(sent, text[f])
          /\ text' = [text EXCEPT ![f] = <<>>]
          /\ pc' = [pc EXCEPT ![f] = "send"]

AbsorbText(f) ==
  /\ Head(mail[f]).kind = "text"
  /\ text' = [text EXCEPT ![f] = Append(@, Head(mail[f]))]
  /\ UNCHANGED <<pc, sent>>

\* Mutant: the forwarder does not end with its run.
AbsorbCompleteStay(f) ==
  /\ Head(mail[f]).kind = "complete"
  /\ sent' = IF text[f] = <<>> THEN sent ELSE Append(sent, text[f])
  /\ pc' = [pc EXCEPT ![f] = "send"]
  /\ UNCHANGED text

\* flush_final: the rest is the answer; the forwarder ends with it.
AbsorbComplete(f) ==
  /\ Head(mail[f]).kind = "complete"
  /\ sent' = IF text[f] = <<>> THEN sent ELSE Append(sent, text[f])
  /\ pc' = [pc EXCEPT ![f] = "last"]
  /\ UNCHANGED text

\* The error is sent in place of the text; the forwarder ends with it too.
AbsorbError(f) ==
  /\ Head(mail[f]).kind = "error"
  /\ sent' = Append(sent, <<Head(mail[f])>>)
  /\ pc' = [pc EXCEPT ![f] = "last"]
  /\ UNCHANGED text

Absorb(f) ==
  /\ pc[f] = "recv" /\ mail[f] # <<>>
  /\ Pop(f)
  /\ \/ AbsorbText(f) \/ AbsorbBreak(f)
     \/ AbsorbComplete(f) \/ AbsorbError(f)
  /\ UNCHANGED <<runVars, inflight, pending, armed, spent>>

\* The platform's send returns.
SendDone(f) ==
  /\ pc[f] = "send"
  /\ pc' = [pc EXCEPT ![f] = "recv"]
  /\ UNCHANGED <<busVars, runVars, text, inflight, pending, armed, sent, spent>>

\* After the last send, or a CancelledError: unsubscribe, then the typing loop is
\* cancelled and awaited.
Leave(f) ==
  /\ pc[f] \in {"last", "cancelled"}
  /\ pc' = [pc EXCEPT ![f] = "closing"]
  /\ text' = [text EXCEPT ![f] = <<>>]
  /\ Unsubscribe(f)
  /\ UNCHANGED <<runVars, inflight, pending, armed, sent, spent>>

\* The task is done(); its callback is in the loop's ready queue.
TaskDone(f) ==
  /\ pc[f] = "closing"
  /\ pc' = [pc EXCEPT ![f] = "done"]
  /\ UNCHANGED <<busVars, runVars, text, inflight, pending, armed, sent, spent>>

\* _clear_inflight: nothing if another task is registered; else one run less is
\* owed, and a forwarder is chained for the next.
ClearInflight(f) ==
  /\ pc[f] = "done"
  /\ IF inflight # f
     THEN /\ pc' = [pc EXCEPT ![f] = "free"]
          /\ UNCHANGED <<pending, inflight>>
     ELSE IF pending > 1
     THEN /\ pending' = pending - 1
          /\ \E g \in Free :
               /\ pc' = [pc EXCEPT ![f] = "free", ![g] = "spawned"]
               /\ inflight' = g
     ELSE /\ pending' = 0 /\ inflight' = None
          /\ pc' = [pc EXCEPT ![f] = "free"]
  /\ UNCHANGED <<busVars, runVars, text, armed, sent, spent>>

-----------------------------------------------------------------------------
Init ==
  /\ InitBus
  /\ fate = [r \in Runs |-> "new"]
  /\ jobs = <<>> /\ turn = "dead" /\ bound = FALSE /\ folded = FALSE /\ texts = 0
  /\ pc = [f \in Forwarders |-> "free"]
  /\ text = [f \in Forwarders |-> <<>>]
  /\ inflight = None /\ pending = 0
  /\ armed = FALSE /\ sent = <<>>
  /\ spent = [f \in Faults |-> 0]

Worker == StartRun \/ Bind \/ Say \/ FlowBreak \/ FinishRun \/ FollowUp
Task(f) == \/ Join(f) \/ Absorb(f) \/ SendDone(f)
           \/ Leave(f) \/ TaskDone(f) \/ ClearInflight(f)

Next ==
  \/ Dispatch \/ Fold \/ ArmInVain \/ ReleaseRun
  \/ StartRun \/ Bind \/ Say \/ FlowBreak \/ FailRun \/ FinishRun
  \/ LateStop \/ FollowUp \/ ClearHistory
  \/ \E f \in Forwarders :
       \/ Join(f) \/ Absorb(f) \/ SendDone(f)
       \/ Leave(f) \/ TaskDone(f) \/ ClearInflight(f)

Spec == Init /\ [][Next]_vars

\* A turn's awaits return, a ready task runs, a hand-over that failed is undone.
\* Nothing makes anybody ask for a run, fail or stop.
Fairness ==
  /\ WF_vars(Worker) /\ WF_vars(ReleaseRun)
  /\ \A f \in Forwarders : WF_vars(Task(f))

FairSpec == Spec /\ Fairness

-----------------------------------------------------------------------------
(* Properties                                                              *)

Frames == [run : Runs, kind : Kinds, seq : Nat]

\* Every variable keeps its type.
TypeOK ==
  /\ ring \in Seq(Frames) /\ seq \in Nat /\ active \in BOOLEAN
  /\ subs \subseteq Clients /\ mail \in [Clients -> Seq(Frames)]
  /\ fate \in [Runs -> { "new", "queued", "running", "failing", "complete",
                         "failed", "stopped", "cleared" }]
  /\ jobs \in Seq(Runs)
  /\ turn \in {"dead", "idle", "run", "flush", "dying"}
  /\ bound \in BOOLEAN /\ folded \in BOOLEAN /\ texts \in 0..MaxText
  /\ pc \in [Forwarders -> { "free", "spawned", "recv", "send", "last",
                             "cancelled", "closing", "done" }]
  /\ text \in [Forwarders -> Seq(Frames)]
  /\ inflight \in Forwarders \cup {None} /\ pending \in Nat
  /\ armed \in BOOLEAN /\ sent \in Seq(Seq(Frames))
  /\ spent \in [Faults -> Nat]

\* "At most one is live per target" (base.py:197-200): a task that has not ended
\* is the registered one, so no two forwarders hear the same frames.
OneLive == \A f \in Live : inflight = f

Owed == {r \in Runs : fate[r] \in {"queued", "running"}}

\* The count of runs owed a forwarder never falls below the runs still to come,
\* so the chain does not stop short.  A run that failed is counted off twice
\* when the chained forwarder rereads its error, and one that was armed in vain
\* may be counted off with a run dispatched meanwhile.
ChainReaches ==
  (spent["fail"] = 0 /\ spent["release"] = 0) => Cardinality(Owed) <= pending

Before(a, b) == a.run < b.run \/ (a.run = b.run /\ a.seq < b.seq)

\* The platform gets each piece of text once and in the order it was said,
\* across flow breaks, chained forwarders, replays and truncated rings; a run
\* that failed is excepted (its frames are replayed to the next forwarder).
OnceInOrder ==
  \A m, n \in DOMAIN sent : \A i \in DOMAIN sent[m], j \in DOMAIN sent[n] :
    LET a == sent[m][i]
        b == sent[n][j]
    IN  /\ m < n \/ (m = n /\ i < j)
        /\ {fate[a.run], fate[b.run]} \cap {"failing", "failed"} = {}
        => Before(a, b)

\* A message carries one run's words; only a run that a Stop ended with no
\* terminal frame leaves some to the next.
OneVoice ==
  \A i \in DOMAIN sent : \A j \in DOMAIN sent[i] :
    \/ sent[i][j].run = sent[i][Len(sent[i])].run
    \/ fate[sent[i][j].run] = "stopped"

\* What the platform was given.
SentFrames == UNION {ToSet(sent[m]) : m \in DOMAIN sent}

RunsSaid == {a.run : a \in SentFrames}

\* While a run's frames still fit the ring, whoever is subscribed has been given,
\* or has sent, all the run has said: replay and queue leave no gap, whenever in
\* the run the forwarder joined.
NoGap ==
  turn = "run" /\ Len(ring) < RingCap =>
    \A f \in subs :
      Cardinality({t.seq : t \in {m \in ToSet(text[f]) \cup ToSet(mail[f]) \cup SentFrames :
                                   m.run = Current /\ m.kind = "text"}}) = texts

Terminal(frame) == frame.kind \in {"complete", "error"}

\* f is in the middle of r's answer and will come to its end.
Hears(f, r) ==
  /\ pc[f] \in {"recv", "send"}
  /\ \E n \in DOMAIN mail[f] :
       /\ mail[f][n].run = r /\ mail[f][n].kind = "complete"
       /\ \A i \in 1..(n - 1) : ~Terminal(mail[f][i])
       /\ \E t \in ToSet(text[f]) \cup {mail[f][i] : i \in 1..(n - 1)} :
            t.run = r /\ t.kind = "text"

\* An answer whose end a forwarder was subscribed for is sent: nothing else that
\* happens to the target, a released run included, cancels it.  (After a failure
\* the count is off, see ChainReaches, and a release may; so it is after one
\* release, whose run may be counted off twice, and a second one may.)
HeardIsSent ==
  \A r \in Runs :
    (\E f \in Forwarders : Hears(f, r))
      ~> (r \in RunsSaid \/ spent["fail"] > 0 \/ spent["release"] > 1)

\* "Safe to subscribe now: the bus clears its replay ring at end_run, so a fresh
\* subscriber replays the NEXT run from its start" (base.py:1504-1507), and runs
\* that need a forwarder after the live one "are counted in _pending_runs and get
\* a chained forwarder instead" (base.py:201-203): every run that completes has
\* its answer sent.
EveryRunAnswered ==
  \A r \in Runs : (fate[r] = "complete") ~> (r \in RunsSaid)
=============================================================================
