---------------------- MODULE MidTurnMessages_proofs ----------------------
(***************************************************************************)
(* Safety of MidTurnMessages, for any messages, any capacity and any       *)
(* number of faults.                                                       *)
(***************************************************************************)
EXTENDS MidTurnMessages, SequenceTheorems, TLAPS

-----------------------------------------------------------------------------
(* The queue                                                               *)

InQueue(q) == UNION {q[i] : i \in DOMAIN q}

LEMMA QueueEmpty == InQueue(<<>>) = {}
BY DEF InQueue

LEMMA QueueAppend ==
  ASSUME NEW q \in Seq(SUBSET Msgs), NEW x \in SUBSET Msgs
  PROVE  Append(q, x) \in Seq(SUBSET Msgs) /\ InQueue(Append(q, x)) = InQueue(q) \cup x
<1>1. /\ Append(q, x) \in Seq(SUBSET Msgs)
      /\ Len(q) \in Nat /\ DOMAIN q = 1..Len(q)
      /\ DOMAIN Append(q, x) = 1..(Len(q) + 1)
      /\ \A i \in 1..Len(q) : Append(q, x)[i] = q[i]
      /\ Append(q, x)[Len(q) + 1] = x
  BY AppendProperties, LenProperties
<1> DEFINE p == Append(q, x)
<1>2. \A i \in DOMAIN p : (i \in DOMAIN q /\ p[i] = q[i]) \/ p[i] = x
  BY <1>1
<1>3. (\A i \in DOMAIN q : i \in DOMAIN p /\ p[i] = q[i]) /\ \E i \in DOMAIN p : p[i] = x
  BY <1>1
<1>4. QED
  <2> HIDE DEF p
  <2>1. InQueue(p) = InQueue(q) \cup x
    BY <1>2, <1>3 DEF InQueue
  <2>2. QED
    BY <1>1, <2>1 DEF p

LEMMA QueueTail ==
  ASSUME NEW q \in Seq(SUBSET Msgs), q # <<>>
  PROVE  /\ Head(q) \in SUBSET Msgs /\ Tail(q) \in Seq(SUBSET Msgs)
         /\ InQueue(q) = Head(q) \cup InQueue(Tail(q))
<1>1. /\ Head(q) \in SUBSET Msgs /\ Tail(q) \in Seq(SUBSET Msgs)
      /\ Len(q) \in Nat \ {0} /\ DOMAIN q = 1..Len(q)
      /\ DOMAIN Tail(q) = 1..(Len(q) - 1) /\ Head(q) = q[1]
      /\ \A i \in 1..(Len(q) - 1) : Tail(q)[i] = q[i + 1]
  BY HeadTailProperties, LenProperties, EmptySeq
<1> DEFINE t == Tail(q)
<1>2. \A i \in DOMAIN q : q[i] = Head(q) \/ \E j \in DOMAIN t : t[j] = q[i]
  <2>1. ASSUME NEW i \in DOMAIN q, i # 1
        PROVE  i - 1 \in DOMAIN t /\ t[i - 1] = q[i]
    BY <1>1, <2>1
  <2>2. QED
    BY <1>1, <2>1
<1>3. (\A j \in DOMAIN t : \E i \in DOMAIN q : q[i] = t[j]) /\ \E i \in DOMAIN q : q[i] = Head(q)
  <2>1. ASSUME NEW j \in DOMAIN t
        PROVE  j + 1 \in DOMAIN q /\ q[j + 1] = t[j]
    BY <1>1, <2>1
  <2>2. 1 \in DOMAIN q
    BY <1>1
  <2>3. QED
    BY <1>1, <2>1, <2>2
<1>4. QED
  <2> HIDE DEF t
  <2>1. InQueue(q) = Head(q) \cup InQueue(t)
    BY <1>2, <1>3 DEF InQueue
  <2>2. QED
    BY <1>1, <2>1 DEF t

-----------------------------------------------------------------------------
(* Types, and who has a message                                            *)

Typed ==
  /\ row \in [Msgs -> {"absent", "plain", "pending", "released", "consumed"}]
  /\ post \in [Msgs -> {"new", "persist", "park", "release", "enqueue", "done"}]
  /\ bound \in BOOLEAN /\ ok \in BOOLEAN /\ dying \in BOOLEAN
  /\ parked \in SUBSET Msgs /\ drained \in SUBSET Msgs /\ taken \in SUBSET Msgs
  /\ queue \in Seq(SUBSET Msgs)
  /\ turn \in {"dead", "idle", "start", "bound", "live", "persist", "commit", "mark",
               "wrap", "out", "release", "follow", "leave"}
  /\ query \in SUBSET Msgs /\ ctx \in SUBSET Msgs
  /\ traced \in SUBSET Msgs /\ heard \in SUBSET Msgs
  /\ phase \in {"up", "down", "boot"} /\ sweep \in SUBSET Msgs

SpentTyped == spent \in [Faults -> Nat]

Hands == parked \cup drained \cup taken

\* A message in the inbox has left its handler, and is in one list of the inbox.
Apart ==
  /\ \A m \in Hands : post[m] = "done"
  /\ parked \cap drained = {} /\ (parked \cup drained) \cap taken = {}
\* What is marked as taken in is in a trace, and only a mark or a flush takes.
Taking ==
  /\ taken # {} => turn \in {"mark", "release"}
  /\ turn = "commit" => drained \subseteq traced
  /\ turn = "mark" => taken \subseteq traced
\* Until boot is over nobody else is at work, and what was left pending is swept.
Dark ==
  phase # "up" =>
    /\ turn = "dead" /\ Hands = {} /\ \A m \in Msgs : post[m] \in {"new", "done"}
    /\ phase = "boot" /\ spent["db"] = 0 => \A m \in Msgs : row[m] = "pending" => m \in sweep

Kept == Typed /\ SpentTyped /\ Apart /\ Taking /\ Dark /\ HiddenIsHeld /\ ConsumedIsTraced

LEMMA Spending ==
  ASSUME SpentTyped, NEW f \in Faults, Spend(f)
  PROVE  /\ SpentTyped' /\ spent'[f] # 0
         /\ \A g \in Faults : spent'[g] = 0 => spent[g] = 0
BY DEF Spend, SpentTyped

LEMMA SpentStep ==
  ASSUME SpentTyped, [Next]_vars
  PROVE  SpentTyped' /\ \A g \in Faults : spent'[g] = 0 => spent[g] = 0
<1>1. UNCHANGED spent \/ \E f \in Faults : Spend(f)
  BY DEF Next, vars, Faults, Send, Handler, PersistMessage, Park, ReleaseRefused, EnqueueOwn,
         TurnStep, TurnStart, TurnBind, BuildHistory, LoopEnds, PersistAnswer, Commit, Mark, TurnEnd,
         FlushTake, FlushRelease, FlushFollowUp, TurnLeave, Absorb, StopLate, Crash, BootStep,
         BootList, BootRelease, BootFollowUp, SetState
<1>2. CASE UNCHANGED spent
  BY <1>2 DEF SpentTyped
<1>3. CASE \E f \in Faults : Spend(f)
  BY <1>3, Spending
<1>4. QED
  BY <1>1, <1>2, <1>3

LEMMA KeptInit == Init => Kept
<1> SUFFICES ASSUME Init PROVE Kept
  OBVIOUS
<1>1. Typed
  BY EmptySeq DEF Init, Typed
<1>2. SpentTyped /\ Apart /\ Taking /\ Dark /\ HiddenIsHeld /\ ConsumedIsTraced
  BY DEF Init, SpentTyped, Apart, Taking, Dark, HiddenIsHeld, ConsumedIsTraced, Hands
<1>3. QED
  BY <1>1, <1>2 DEF Kept

LEMMA TypedStep ==
  ASSUME Typed, [Next]_vars
  PROVE  Typed'
<1>1. ASSUME NEW m \in Msgs, Send(m)
      PROVE  Typed'
  BY <1>1 DEF Typed, Send, inbox, turnVars, boot
<1>2. ASSUME NEW m \in Msgs, Handler(m)
      PROVE  Typed'
  <2>1. CASE PersistMessage(m)
    BY <2>1 DEF Typed, PersistMessage, inbox, turnVars, boot
  <2>2. CASE Park(m)
    BY <2>2 DEF Typed, Park, turnVars, boot
  <2>3. CASE ReleaseRefused(m)
    BY <2>3 DEF Typed, ReleaseRefused, SetState, inbox, turnVars, boot
  <2>4. CASE EnqueueOwn(m)
    <3>1. queue' = Append(queue, {m}) /\ queue' \in Seq(SUBSET Msgs)
      BY <2>4, QueueAppend DEF Typed, EnqueueOwn, Enqueue
    <3>2. QED
      BY <2>4, <3>1 DEF Typed, EnqueueOwn, Enqueue, inbox, boot
  <2>5. QED
    BY <1>2, <2>1, <2>2, <2>3, <2>4 DEF Handler
<1>3. CASE TurnStep
  <2>1. CASE TurnStart
    <3>1. query' \in SUBSET Msgs /\ queue' \in Seq(SUBSET Msgs)
      BY <2>1, QueueTail DEF Typed, TurnStart
    <3>2. QED
      BY <2>1, <3>1 DEF Typed, TurnStart, inbox, boot
  <2>2. CASE TurnBind
    <3>1. row' \in [Msgs -> {"absent", "plain", "pending", "released", "consumed"}]
      BY <2>2 DEF Typed, TurnBind
    <3>2. QED
      BY <2>2, <3>1 DEF Typed, TurnBind, boot
  <2>3. CASE BuildHistory \/ LoopEnds \/ PersistAnswer \/ Commit
    BY <2>3 DEF Typed, BuildHistory, LoopEnds, PersistAnswer, Commit, Visible, inbox, boot
  <2>4. CASE Mark
    BY <2>4 DEF Typed, Mark, SetState, boot
  <2>5. CASE TurnEnd \/ FlushTake
    BY <2>5 DEF Typed, TurnEnd, FlushTake, boot
  <2>6. CASE FlushRelease
    BY <2>6 DEF Typed, FlushRelease, SetState, boot
  <2>7. CASE FlushFollowUp
    <3>1. queue' \in Seq(SUBSET Msgs)
      BY <2>7, QueueAppend DEF Typed, FlushFollowUp
    <3>2. QED
      BY <2>7, <3>1 DEF Typed, FlushFollowUp, inbox, boot
  <2>8. CASE TurnLeave
    BY <2>8 DEF Typed, TurnLeave, inbox, boot
  <2>9. QED
    BY <1>3, <2>1, <2>2, <2>3, <2>4, <2>5, <2>6, <2>7, <2>8 DEF TurnStep
<1>4. CASE Absorb
  BY <1>4 DEF Typed, Absorb, turnVars, boot
<1>5. CASE StopLate
  BY <1>5 DEF Typed, StopLate, boot
<1>6. CASE Crash
  <2>1. post' \in [Msgs -> {"new", "persist", "park", "release", "enqueue", "done"}]
    BY <1>6 DEF Typed, Crash
  <2>2. <<>> \in Seq(SUBSET Msgs)
    OBVIOUS
  <2>3. QED
    BY <1>6, <2>1, <2>2 DEF Typed, Crash
<1>7. CASE BootStep
  <2>1. CASE BootList
    BY <2>1 DEF Typed, BootList, inbox, turnVars
  <2>2. CASE BootRelease
    BY <2>2 DEF Typed, BootRelease, SetState, inbox, turnVars
  <2>3. CASE BootFollowUp
    <3>1. queue' \in Seq(SUBSET Msgs)
      BY <2>3, QueueAppend DEF Typed, BootFollowUp, Enqueue
    <3>2. QED
      BY <2>3, <3>1 DEF Typed, BootFollowUp, Enqueue, inbox
  <2>4. QED
    BY <1>7, <2>1, <2>2, <2>3 DEF BootStep
<1>8. CASE UNCHANGED vars
  BY <1>8 DEF Typed, vars, inbox, turnVars, boot
<1>9. QED
  BY <1>1, <1>2, <1>3, <1>4, <1>5, <1>6, <1>7, <1>8 DEF Next

LEMMA KeptStep ==
  ASSUME Kept, [Next]_vars
  PROVE  Kept'
<1>0. /\ Typed /\ Apart /\ Taking /\ Dark /\ HiddenIsHeld /\ ConsumedIsTraced
      /\ Typed' /\ SpentTyped' /\ (spent'["db"] = 0 => spent["db"] = 0)
  <2>1. "db" \in Faults
    BY DEF Faults
  <2>2. QED
    BY <2>1, TypedStep, SpentStep DEF Kept
<1>a. ASSUME NEW m \in Msgs, NEW s, SetState(m, s)
      PROVE  row' = [row EXCEPT ![m] = s] \/ (spent'["db"] # 0 /\ UNCHANGED row)
  <2>1. "db" \in Faults
    BY DEF Faults
  <2>2. QED
    BY <1>a, <2>1, Spending DEF Kept, SetState
<1> SUFFICES (Apart /\ Taking /\ Dark /\ HiddenIsHeld /\ ConsumedIsTraced)'
  BY <1>0 DEF Kept
<1> DEFINE Rest == Apart /\ Taking /\ Dark /\ HiddenIsHeld /\ ConsumedIsTraced
<1>1. ASSUME NEW m \in Msgs, Send(m)
      PROVE  Rest'
  BY <1>0, <1>1 DEF Typed, Apart, Taking, Dark, HiddenIsHeld, ConsumedIsTraced, Hands, Send, inbox,
                    turnVars, boot
<1>2. ASSUME NEW m \in Msgs, Handler(m)
      PROVE  Rest'
  <2>1. CASE PersistMessage(m)
    <3>1. phase = "up" /\ phase' = phase /\ m \notin Hands
      BY <1>0, <2>1 DEF Dark, Apart, PersistMessage, boot
    <3>2. Apart' /\ Taking' /\ Dark'
      BY <1>0, <2>1, <3>1 DEF Typed, Apart, Taking, Dark, Hands, PersistMessage, inbox, turnVars, boot
    <3>3. HiddenIsHeld'
      BY <1>0, <2>1, <3>1 DEF Typed, HiddenIsHeld, PersistMessage, inbox
    <3>4. ConsumedIsTraced'
      BY <1>0, <2>1 DEF Typed, ConsumedIsTraced, PersistMessage
    <3>5. QED
      BY <3>2, <3>3, <3>4
  <2>2. CASE Park(m)
    <3>1. phase = "up" /\ phase' = phase /\ m \notin Hands /\ UNCHANGED row
      BY <1>0, <2>2 DEF Dark, Apart, Park, boot
    <3>2. Apart' /\ Taking' /\ Dark'
      BY <1>0, <2>2, <3>1 DEF Typed, Apart, Taking, Dark, Hands, Park, turnVars, boot
    <3>3. HiddenIsHeld' /\ ConsumedIsTraced'
      BY <1>0, <2>2, <3>1 DEF Typed, HiddenIsHeld, ConsumedIsTraced, Park
    <3>4. QED
      BY <3>2, <3>3
  <2>3. CASE ReleaseRefused(m)
    <3>1. /\ phase = "up" /\ phase' = phase /\ m \notin Hands
          /\ row' = [row EXCEPT ![m] = "released"] \/ (spent'["db"] # 0 /\ UNCHANGED row)
      BY <1>0, <1>a, <2>3 DEF Dark, Apart, ReleaseRefused, boot
    <3>2. Apart' /\ Taking' /\ Dark'
      BY <1>0, <2>3, <3>1 DEF Typed, Apart, Taking, Dark, Hands, ReleaseRefused, inbox, turnVars, boot
    <3>3. HiddenIsHeld' /\ ConsumedIsTraced'
      BY <1>0, <2>3, <3>1 DEF Typed, HiddenIsHeld, ConsumedIsTraced, ReleaseRefused, inbox
    <3>4. QED
      BY <3>2, <3>3
  <2>4. CASE EnqueueOwn(m)
    <3>1. phase = "up" /\ phase' = phase /\ UNCHANGED <<row, inbox, traced, spent>>
      BY <1>0, <2>4 DEF Dark, EnqueueOwn, boot
    <3>2. turn' = IF turn = "dead" THEN "idle" ELSE turn
      BY <2>4 DEF EnqueueOwn, Enqueue
    <3>3. post' = [post EXCEPT ![m] = "done"] /\ post[m] = "enqueue"
      BY <2>4 DEF EnqueueOwn
    <3>4. QED
      BY <1>0, <3>1, <3>2, <3>3 DEF Typed, Apart, Taking, Dark, HiddenIsHeld, ConsumedIsTraced, Hands,
                                    inbox
  <2>5. QED
    BY <1>2, <2>1, <2>2, <2>3, <2>4 DEF Handler
<1>3. CASE TurnStep
  <2>0. phase = "up"
    BY <1>0, <1>3 DEF Dark, TurnStep, TurnStart, TurnBind, BuildHistory, LoopEnds, PersistAnswer,
                      Commit, Mark, TurnEnd, FlushTake, FlushRelease, FlushFollowUp, TurnLeave
  <2>a. phase' = phase /\ UNCHANGED post
    BY <1>3 DEF TurnStep, TurnStart, TurnBind, BuildHistory, LoopEnds, PersistAnswer, Commit, Mark,
                TurnEnd, FlushTake, FlushRelease, FlushFollowUp, TurnLeave, boot
  <2>1. CASE TurnStart
    BY <1>0, <2>0, <2>a, <2>1 DEF Apart, Taking, Dark, HiddenIsHeld, ConsumedIsTraced, Hands, TurnStart,
                                   inbox
  <2>2. CASE TurnBind
    <3>1. \A m \in Msgs : row'[m] = row[m] \/ row'[m] = "plain"
      BY <2>2 DEF TurnBind
    <3>2. QED
      BY <1>0, <2>0, <2>a, <2>2, <3>1 DEF Apart, Taking, Dark, HiddenIsHeld, ConsumedIsTraced, Hands,
                                          TurnBind
  <2>3. CASE BuildHistory \/ LoopEnds
    BY <1>0, <2>0, <2>a, <2>3 DEF Apart, Taking, Dark, HiddenIsHeld, ConsumedIsTraced, Hands,
                                   BuildHistory, LoopEnds, inbox
  <2>4. CASE PersistAnswer
    BY <1>0, <2>0, <2>a, <2>4 DEF Typed, Apart, Taking, Dark, HiddenIsHeld, ConsumedIsTraced, Hands,
                                   PersistAnswer, inbox
  <2>5. CASE Commit
    BY <1>0, <2>0, <2>a, <2>5 DEF Typed, Apart, Taking, Dark, HiddenIsHeld, ConsumedIsTraced, Hands,
                                   Commit
  <2>6. CASE Mark
    <3>1. CASE taken = {} /\ turn' = "wrap" /\ UNCHANGED <<row, taken>>
      BY <1>0, <2>0, <2>a, <2>6, <3>1 DEF Apart, Taking, Dark, HiddenIsHeld, ConsumedIsTraced, Hands,
                                           Mark
    <3>2. ASSUME NEW m \in taken, SetState(m, "consumed"), taken' = taken \ {m}, UNCHANGED turn
          PROVE  Rest'
      <4>1. /\ turn = "mark" /\ UNCHANGED <<bound, parked, drained, traced>> /\ m \in traced /\ m \in Msgs
            /\ row' = [row EXCEPT ![m] = "consumed"] \/ (spent'["db"] # 0 /\ UNCHANGED row)
        BY <1>0, <1>a, <2>6, <3>2 DEF Mark, Taking, Typed
      <4>2. QED
        BY <1>0, <2>0, <2>a, <3>2, <4>1 DEF Typed, Apart, Taking, Dark, HiddenIsHeld, ConsumedIsTraced,
                                             Hands
    <3>3. QED
      BY <2>6, <3>1, <3>2 DEF Mark
  <2>7. CASE TurnEnd
    BY <1>0, <2>0, <2>a, <2>7 DEF Apart, Taking, Dark, HiddenIsHeld, ConsumedIsTraced, Hands, TurnEnd
  <2>8. CASE FlushTake
    BY <1>0, <2>0, <2>a, <2>8 DEF Typed, Apart, Taking, Dark, HiddenIsHeld, ConsumedIsTraced, Hands,
                                   FlushTake
  <2>9. CASE FlushRelease
    <3>1. CASE taken = {} /\ turn' = "follow" /\ UNCHANGED <<row, taken>>
      BY <1>0, <2>0, <2>a, <2>9, <3>1 DEF Apart, Taking, Dark, HiddenIsHeld, ConsumedIsTraced, Hands,
                                           FlushRelease
    <3>2. ASSUME NEW m \in taken, SetState(m, "released"), taken' = taken \ {m}, UNCHANGED turn
          PROVE  Rest'
      <4>1. /\ turn = "release" /\ UNCHANGED <<bound, parked, drained, traced>> /\ m \in Msgs
            /\ row' = [row EXCEPT ![m] = "released"] \/ (spent'["db"] # 0 /\ UNCHANGED row)
        BY <1>0, <1>a, <2>9, <3>2 DEF FlushRelease, Typed
      <4>2. QED
        BY <1>0, <2>0, <2>a, <3>2, <4>1 DEF Typed, Apart, Taking, Dark, HiddenIsHeld, ConsumedIsTraced,
                                             Hands
    <3>3. QED
      BY <2>9, <3>1, <3>2 DEF FlushRelease
  <2>10. CASE FlushFollowUp \/ TurnLeave
    BY <1>0, <2>0, <2>a, <2>10 DEF Apart, Taking, Dark, HiddenIsHeld, ConsumedIsTraced, Hands,
                                    FlushFollowUp, TurnLeave, inbox
  <2>11. QED
    BY <1>3, <2>1, <2>2, <2>3, <2>4, <2>5, <2>6, <2>7, <2>8, <2>9, <2>10 DEF TurnStep
<1>4. CASE Absorb
  <2>1. phase = "up" /\ phase' = phase
    BY <1>0, <1>4 DEF Dark, Absorb, boot
  <2>2. QED
    BY <1>0, <1>4, <2>1 DEF Typed, Apart, Taking, Dark, HiddenIsHeld, ConsumedIsTraced, Hands, Absorb,
                            turnVars
<1>5. CASE StopLate
  <2>1. phase = "up" /\ phase' = phase
    BY <1>0, <1>5 DEF Dark, StopLate, boot
  <2>2. taken \subseteq traced /\ UNCHANGED <<row, post, parked, drained, traced>> /\ taken' = {}
        /\ turn' \in {"dead", "out"}
    BY <1>0, <1>5 DEF Taking, StopLate
  <2>3. QED
    BY <1>0, <2>1, <2>2 DEF Typed, Apart, Taking, Dark, HiddenIsHeld, ConsumedIsTraced, Hands
<1>6. CASE Crash
  <2>1. /\ phase' = "down" /\ turn' = "dead" /\ parked' = {} /\ drained' = {} /\ taken' = {}
        /\ UNCHANGED <<row, traced>> /\ \A m \in Msgs : post'[m] \in {"new", "done"}
    BY <1>6 DEF Crash
  <2>2. QED
    BY <1>0, <2>1 DEF Apart, Taking, Dark, HiddenIsHeld, ConsumedIsTraced, Hands
<1>7. CASE BootStep
  <2>1. CASE BootList
    BY <1>0, <2>1 DEF Apart, Taking, Dark, HiddenIsHeld, ConsumedIsTraced, Hands, BootList, inbox, turnVars
  <2>2. CASE BootRelease
    <3>1. PICK m \in sweep : SetState(m, "released") /\ sweep' = sweep \ {m}
      BY <2>2 DEF BootRelease
    <3>2. /\ phase = "boot" /\ UNCHANGED <<post, inbox, turnVars, traced, phase>> /\ m \in Msgs
          /\ row' = [row EXCEPT ![m] = "released"] \/ (spent'["db"] # 0 /\ UNCHANGED row)
      BY <1>0, <1>a, <2>2, <3>1 DEF BootRelease, Typed
    <3>3. QED
      BY <1>0, <3>1, <3>2 DEF Typed, Apart, Taking, Dark, HiddenIsHeld, ConsumedIsTraced, Hands, inbox,
                              turnVars
  <2>3. CASE BootFollowUp
    BY <1>0, <2>3 DEF Apart, Taking, Dark, HiddenIsHeld, ConsumedIsTraced, Hands, BootFollowUp, Enqueue,
                      inbox
  <2>4. QED
    BY <1>7, <2>1, <2>2, <2>3 DEF BootStep
<1>8. CASE UNCHANGED vars
  BY <1>0, <1>8 DEF Apart, Taking, Dark, HiddenIsHeld, ConsumedIsTraced, Hands, vars, inbox, turnVars, boot
<1>9. QED
  BY <1>1, <1>2, <1>3, <1>4, <1>5, <1>6, <1>7, <1>8 DEF Next

LEMMA KeptAlways == Spec => []Kept
BY KeptInit, KeptStep, PTL DEF Spec

\* Every variable stays in its range, and no message is in two lists of the inbox
\* (task_result_inbox.py).
THEOREM TypeCorrect == Spec => []TypeOK
<1>1. Kept => TypeOK
  BY DEF Kept, Typed, SpentTyped, Apart, TypeOK
<1>2. QED
  BY <1>1, KeptAlways, PTL

\* Whatever is stopped, raises or dies: a message is hidden as consumed only when a
\* persisted trace has its text (stream_runner.py, commit_user_messages).
THEOREM NoneForgotten == Spec => []ConsumedIsTraced
<1>1. Kept => ConsumedIsTraced
  BY DEF Kept
<1>2. QED
  BY <1>1, KeptAlways, PTL

\* A pending row is in somebody's hands, across Stops and crashes, as long as no
\* database call raises (stream_runner.py, user_message_delivery.py).
THEOREM NoneStranded == Spec => []HiddenIsHeld
<1>1. Kept => HiddenIsHeld
  BY DEF Kept
<1>2. QED
  BY <1>1, KeptAlways, PTL

-----------------------------------------------------------------------------
(* One copy                                                                *)

Asked == query \cup InQueue(queue)

\* What is in the queue or asked is in no inbox and no trace.
OnceAsked ==
  /\ \A m \in Asked : post[m] = "done"
  /\ Hands \cap Asked = {} /\ traced \cap Asked = {}
\* What is in the inbox is hidden, and what the turn saw is not.
OnceShown ==
  /\ \A m \in Msgs : post[m] \in {"new", "persist"} => row[m] = "absent"
  /\ \A m \in Msgs : post[m] = "park" => row[m] = "pending"
  /\ \A m \in Hands : row[m] = "pending"
  /\ ctx \subseteq Visible
\* A trace has what it took from the inbox, and that is out of it when it is marked.
OnceTraced ==
  /\ \A m \in traced : post[m] = "done" /\ row[m] \in {"pending", "consumed"}
  /\ parked \cap traced = {}
  /\ turn # "commit" => drained \cap traced = {}
  /\ turn = "release" => taken \cap traced = {}

Orderly == spent["crash"] = 0 /\ spent["late"] = 0
Once == Orderly => phase = "up" /\ OnceAsked /\ OnceShown /\ OnceTraced

LEMMA OnceInit == Init => Once
BY QueueEmpty DEF Init, Once, OnceAsked, OnceShown, OnceTraced, Asked, Hands

LEMMA OnceStep ==
  ASSUME Kept, Once, [Next]_vars
  PROVE  Once'
<1> SUFFICES ASSUME Orderly' PROVE (phase = "up" /\ OnceAsked /\ OnceShown /\ OnceTraced)'
  BY DEF Once
<1>0. /\ Typed /\ Apart /\ Taking /\ SpentTyped /\ phase = "up"
      /\ OnceAsked /\ OnceShown /\ OnceTraced
  <2>1. "crash" \in Faults /\ "late" \in Faults
    BY DEF Faults
  <2>2. Orderly
    BY <2>1, SpentStep DEF Kept, Orderly
  <2>3. QED
    BY <2>2 DEF Once, Kept
<1> DEFINE Rest == phase = "up" /\ OnceAsked /\ OnceShown /\ OnceTraced
<1>a. UNCHANGED <<query, queue>> => Asked' = Asked
  BY DEF Asked
<1>b. Asked \subseteq Msgs
  <2>1. InQueue(queue) \subseteq Msgs
    BY ElementOfSeq, LenProperties, <1>0 DEF InQueue, Typed
  <2>2. QED
    BY <1>0, <2>1 DEF Asked, Typed
<1>1. ASSUME NEW m \in Msgs, Send(m)
      PROVE  Rest'
  <2>1. /\ UNCHANGED <<row, inbox, queue, turnVars, traced, boot>>
        /\ \A x \in Msgs : post'[x] = post[x] \/ (x = m /\ post[m] = "new" /\ post'[m] \in {"persist", "enqueue"})
    BY <1>0, <1>1 DEF Typed, Send
  <2>2. Asked' = Asked
    BY <1>a, <2>1 DEF turnVars
  <2>3. Asked \subseteq Msgs /\ traced \subseteq Msgs
    BY <1>0, <1>b DEF Typed
  <2>4. QED
    BY <1>0, <2>1, <2>2, <2>3 DEF OnceAsked, OnceShown, OnceTraced, Hands, Visible, inbox, turnVars, boot
<1>2. ASSUME NEW m \in Msgs, Handler(m)
      PROVE  Rest'
  <2>1. CASE PersistMessage(m)
    <3>1. Asked' = Asked
      BY <1>a, <2>1 DEF PersistMessage, turnVars
    <3>2. m \notin Hands /\ m \notin Asked /\ m \notin traced /\ m \notin ctx /\ row[m] = "absent"
      BY <1>0, <2>1 DEF Apart, OnceAsked, OnceShown, OnceTraced, PersistMessage, Visible
    <3>3. /\ UNCHANGED <<inbox, turnVars, traced, boot>>
          /\ \A x \in Msgs : x # m => post'[x] = post[x] /\ row'[x] = row[x]
          /\ \/ post'[m] = "park" /\ row'[m] = "pending"
             \/ post'[m] = "enqueue" /\ row'[m] = "absent"
      BY <1>0, <2>1, <3>2 DEF Typed, PersistMessage
    <3>4. UNCHANGED <<parked, drained, taken, turn, ctx, traced, phase>> /\ Hands' = Hands
      BY <3>3 DEF Hands, inbox, turnVars, boot
    <3>5. Asked \subseteq Msgs
      BY <1>b
    <3>6. OnceAsked'
      BY <1>0, <3>1, <3>2, <3>3, <3>4, <3>5 DEF OnceAsked
    <3>7. OnceShown'
      BY <1>0, <3>2, <3>3, <3>4 DEF Typed, OnceShown, Visible, Hands
    <3>8. OnceTraced'
      BY <1>0, <3>2, <3>3, <3>4 DEF Typed, OnceTraced
    <3>9. QED
      BY <1>0, <3>4, <3>6, <3>7, <3>8
  <2>2. CASE Park(m)
    <3>1. Asked' = Asked
      BY <1>a, <2>2 DEF Park, turnVars
    <3>2. m \notin Hands /\ m \notin Asked /\ m \notin traced /\ row[m] = "pending"
      BY <1>0, <2>2 DEF Apart, OnceAsked, OnceShown, OnceTraced, Park
    <3>3. /\ UNCHANGED <<row, drained, taken, turn, ctx, traced, phase>>
          /\ parked' = parked \/ parked' = parked \cup {m}
          /\ \A x \in Msgs : x # m => post'[x] = post[x]
          /\ post'[m] \in {"done", "release"}
      BY <1>0, <2>2 DEF Typed, Park, turnVars, boot
    <3>4. OnceAsked'
      BY <1>0, <1>b, <3>1, <3>2, <3>3 DEF OnceAsked, Hands
    <3>5. OnceShown'
      BY <1>0, <3>2, <3>3 DEF Typed, OnceShown, Visible, Hands
    <3>6. OnceTraced'
      BY <1>0, <3>2, <3>3 DEF Typed, OnceTraced
    <3>7. QED
      BY <1>0, <3>3, <3>4, <3>5, <3>6
  <2>3. CASE ReleaseRefused(m)
    <3>1. Asked' = Asked
      BY <1>a, <2>3 DEF ReleaseRefused, turnVars
    <3>2. m \notin Hands /\ m \notin Asked /\ m \notin traced
      BY <1>0, <2>3 DEF Apart, OnceAsked, OnceTraced, ReleaseRefused
    <3>3. \A x \in Msgs : row'[x] = row[x] \/ (x = m /\ row'[m] = "released")
      BY <1>0, <2>3 DEF Typed, ReleaseRefused, SetState
    <3>4. QED
      BY <1>0, <2>3, <3>1, <3>2, <3>3 DEF Typed, OnceAsked, OnceShown, OnceTraced, Hands, Visible,
                                          ReleaseRefused, inbox, turnVars, boot
  <2>4. CASE EnqueueOwn(m)
    <3>1. Asked' = Asked \cup {m}
      <4>1. queue' = Append(queue, {m}) /\ query' = query
        BY <2>4 DEF EnqueueOwn, Enqueue
      <4>2. InQueue(queue') = InQueue(queue) \cup {m}
        BY <1>0, <4>1, QueueAppend DEF Typed
      <4>3. QED
        BY <4>1, <4>2 DEF Asked
    <3>2. m \notin Hands /\ m \notin traced
      BY <1>0, <2>4 DEF Apart, OnceTraced, EnqueueOwn
    <3>3. turn' = IF turn = "dead" THEN "idle" ELSE turn
      BY <2>4 DEF EnqueueOwn, Enqueue
    <3>4. QED
      BY <1>0, <2>4, <3>1, <3>2, <3>3 DEF Typed, OnceAsked, OnceShown, OnceTraced, Hands, Visible,
                                          EnqueueOwn, inbox, boot
  <2>5. QED
    BY <1>2, <2>1, <2>2, <2>3, <2>4 DEF Handler
<1>3. CASE TurnStep
  <2>0. phase' = phase /\ UNCHANGED post
    BY <1>3 DEF TurnStep, TurnStart, TurnBind, BuildHistory, LoopEnds, PersistAnswer, Commit, Mark,
                TurnEnd, FlushTake, FlushRelease, FlushFollowUp, TurnLeave, boot
  <2>1. CASE TurnStart
    <3>1. Asked' \subseteq Asked
      <4>1. query' = Head(queue) /\ queue' = Tail(queue) /\ queue # <<>>
        BY <2>1 DEF TurnStart
      <4>2. InQueue(queue) = Head(queue) \cup InQueue(Tail(queue))
        BY <1>0, <4>1, QueueTail DEF Typed
      <4>3. QED
        BY <4>1, <4>2 DEF Asked
    <3>2. QED
      BY <1>0, <2>0, <2>1, <3>1 DEF OnceAsked, OnceShown, OnceTraced, Hands, Visible, TurnStart, inbox
  <2>2. CASE TurnBind
    <3>1. Asked' = Asked
      BY <1>a, <2>2 DEF TurnBind
    <3>2. \A m \in Msgs : row'[m] = row[m] \/ (row[m] = "absent" /\ row'[m] = "plain" /\ post[m] = "done")
      BY <1>0, <2>2 DEF TurnBind, OnceAsked, Asked
    <3>3. QED
      BY <1>0, <2>0, <2>2, <3>1, <3>2 DEF Typed, OnceAsked, OnceShown, OnceTraced, Hands, Visible, TurnBind
  <2>3. CASE BuildHistory
    <3>1. Asked' = Asked
      BY <1>a, <2>3 DEF BuildHistory
    <3>2. QED
      BY <1>0, <2>0, <2>3, <3>1 DEF OnceAsked, OnceShown, OnceTraced, Hands, Visible, BuildHistory, inbox
  <2>4. CASE LoopEnds
    <3>1. Asked' = Asked
      BY <1>a, <2>4 DEF LoopEnds
    <3>2. QED
      BY <1>0, <2>0, <2>4, <3>1 DEF OnceAsked, OnceShown, OnceTraced, Hands, Visible, LoopEnds, inbox
  <2>5. CASE PersistAnswer
    <3>1. Asked' = Asked
      BY <1>a, <2>5 DEF PersistAnswer
    <3>2. turn = "persist" /\ turn' \in {"commit", "wrap"} /\ UNCHANGED <<row, inbox, ctx>>
          /\ (traced' = traced \/ (traced' = traced \cup drained /\ turn' = "commit"))
      BY <2>5 DEF PersistAnswer
    <3>3. QED
      BY <1>0, <2>0, <3>1, <3>2 DEF Typed, Apart, OnceAsked, OnceShown, OnceTraced, Hands, Visible, inbox
  <2>6. CASE Commit
    <3>1. Asked' = Asked
      BY <1>a, <2>6 DEF Commit
    <3>2. QED
      BY <1>0, <2>0, <2>6, <3>1 DEF Typed, OnceAsked, OnceShown, OnceTraced, Hands, Visible, Commit
  <2>7. CASE Mark
    <3>1. Asked' = Asked /\ UNCHANGED <<parked, drained, ctx, traced>> /\ taken' \subseteq taken
          /\ turn = "mark" /\ turn' \in {"mark", "wrap"}
      BY <1>a, <2>7 DEF Mark
    <3>2. \A m \in Msgs : row'[m] = row[m] \/ (m \in taken /\ m \notin taken' /\ row'[m] = "consumed")
      BY <1>0, <2>7 DEF Typed, Mark, SetState
    <3>3. QED
      BY <1>0, <2>0, <3>1, <3>2 DEF Typed, Apart, Taking, OnceAsked, OnceShown, OnceTraced, Hands, Visible
  <2>8. CASE TurnEnd
    <3>1. Asked' = Asked
      BY <1>a, <2>8 DEF TurnEnd
    <3>2. QED
      BY <1>0, <2>0, <2>8, <3>1 DEF OnceAsked, OnceShown, OnceTraced, Hands, Visible, TurnEnd
  <2>9. CASE FlushTake
    <3>1. Asked' = Asked
      BY <1>a, <2>9 DEF FlushTake
    <3>2. QED
      BY <1>0, <2>0, <2>9, <3>1 DEF Typed, OnceAsked, OnceShown, OnceTraced, Hands, Visible, FlushTake
  <2>10. CASE FlushRelease
    <3>1. Asked' = Asked /\ UNCHANGED <<parked, drained, ctx, traced>> /\ taken' \subseteq taken
          /\ turn = "release" /\ turn' \in {"release", "follow"}
      BY <1>a, <2>10 DEF FlushRelease
    <3>2. \A m \in Msgs : row'[m] = row[m] \/ (m \in taken /\ m \notin taken' /\ row'[m] = "released")
      BY <1>0, <2>10 DEF Typed, FlushRelease, SetState
    <3>3. QED
      BY <1>0, <2>0, <3>1, <3>2 DEF Typed, Apart, OnceAsked, OnceShown, OnceTraced, Hands, Visible
  <2>11. CASE FlushFollowUp
    <3>1. Asked' = Asked
      <4>1. /\ query' = query
            /\ queue' = Append(queue, {}) \/ UNCHANGED queue
        BY <2>11 DEF FlushFollowUp
      <4>2. InQueue(queue') = InQueue(queue)
        <5>1. queue \in Seq(SUBSET Msgs) /\ {} \in SUBSET Msgs
          BY <1>0 DEF Typed
        <5>2. InQueue(Append(queue, {})) = InQueue(queue) \cup {}
          BY <5>1, QueueAppend
        <5>3. QED
          BY <4>1, <5>2
      <4>3. QED
        BY <4>1, <4>2 DEF Asked
    <3>2. QED
      BY <1>0, <2>0, <2>11, <3>1 DEF OnceAsked, OnceShown, OnceTraced, Hands, Visible, FlushFollowUp, inbox
  <2>12. CASE TurnLeave
    <3>1. Asked' \subseteq Asked
      BY <2>12 DEF TurnLeave, Asked
    <3>2. QED
      BY <1>0, <2>0, <2>12, <3>1 DEF OnceAsked, OnceShown, OnceTraced, Hands, Visible, TurnLeave, inbox
  <2>13. QED
    BY <1>3, <2>1, <2>2, <2>3, <2>4, <2>5, <2>6, <2>7, <2>8, <2>9, <2>10, <2>11, <2>12 DEF TurnStep
<1>4. CASE Absorb
  <2>1. Asked' = Asked
    BY <1>a, <1>4 DEF Absorb, turnVars
  <2>2. QED
    BY <1>0, <1>4, <2>1 DEF Typed, OnceAsked, OnceShown, OnceTraced, Hands, Visible, Absorb, turnVars, boot
<1>5. CASE StopLate \/ Crash
  <2>1. Spend("late") \/ Spend("crash")
    BY <1>5 DEF StopLate, Crash
  <2>2. QED
    BY <1>0, <2>1, Spending DEF Orderly, Faults
<1>6. CASE BootStep
  BY <1>0, <1>6 DEF BootStep, BootList, BootRelease, BootFollowUp
<1>7. CASE UNCHANGED vars
  <2>1. Asked' = Asked
    BY <1>a, <1>7 DEF vars, turnVars
  <2>2. QED
    BY <1>0, <1>7, <2>1 DEF OnceAsked, OnceShown, OnceTraced, Hands, Visible, vars, inbox, turnVars, boot
<1>8. QED
  BY <1>1, <1>2, <1>3, <1>4, <1>5, <1>6, <1>7 DEF Next

\* What a live turn was given as history, trace, query and injection never overlap, as
\* long as the process lives and no Stop hits the turn outside the agent's loop: "exactly
\* one copy of the message ever reaches the model" (user_message_delivery.py).
THEOREM EachOnce == Spec => []OneCopy
<1>1. Kept /\ Once => OneCopy
  <2> SUFFICES ASSUME Kept, Once, turn = "live", spent["crash"] = 0, spent["late"] = 0
               PROVE  /\ (ctx \cup query \cup traced) \cap drained = {}
                      /\ (ctx \cup query) \cap traced = {}
    BY DEF OneCopy
  <2>1. OnceAsked /\ OnceShown /\ OnceTraced /\ query \subseteq Asked /\ drained \subseteq Hands
    BY DEF Once, Orderly, Asked, Hands
  <2>2. QED
    BY <2>1 DEF OnceAsked, OnceShown, OnceTraced, Visible
<1>2. Init => Kept /\ Once
  BY KeptInit, OnceInit
<1>3. Kept /\ Once /\ [Next]_vars => (Kept /\ Once)'
  BY KeptStep, OnceStep
<1>4. QED
  BY <1>1, <1>2, <1>3, PTL DEF Spec

-----------------------------------------------------------------------------
(* Every message is heard                                                  *)

\* From bind_run to the unbind of the finally block.
InTry == {"bound", "live", "persist", "commit", "mark", "wrap"}

\* A turn that has m for its query, is flushing it or will find its row in the history is
\* on its way, or the running turn will absorb or flush m.
OnItsWay(m) ==
  \/ m \in parked
  \/ m \in taken /\ turn = "release"
  \/ m \in InQueue(queue)
  \/ m \in query /\ turn \in {"start", "bound"}
  \/ row[m] \in {"plain", "released"} /\ (queue # <<>> \/ turn \in {"start", "bound", "release", "follow"})

Heeded == Calm =>
  /\ ~dying /\ phase = "up"
  /\ bound => turn \in InTry
  /\ parked # {} => turn \in InTry \cup {"out"}
  /\ drained \subseteq heard
  /\ turn = "mark" => taken \subseteq heard
  /\ \A m \in Msgs : post[m] = "done" => m \in heard \/ OnItsWay(m)

LEMMA HeededInit == Init => Heeded
BY DEF Init, Heeded

\* The handler of one message.
LEMMA HeededHandler ==
  ASSUME Kept, Heeded, Calm, Calm', NEW m \in Msgs,
         Send(m) \/ PersistMessage(m) \/ Park(m) \/ ReleaseRefused(m) \/ EnqueueOwn(m)
  PROVE  Heeded'
<1> USE DEF inbox, turnVars, boot
<1>0. /\ queue \in Seq(SUBSET Msgs) /\ post \in [Msgs -> {"new", "persist", "park", "release", "enqueue", "done"}]
      /\ row \in [Msgs -> {"absent", "plain", "pending", "released", "consumed"}]
  BY DEF Kept, Typed
<1>1. CASE Send(m) \/ PersistMessage(m) \/ ReleaseRefused(m)
  <2>1. /\ UNCHANGED <<bound, parked, drained, taken, queue, turn, query, dying, heard, phase>>
        /\ post[m] # "done" /\ post'[m] # "done" /\ \A n \in Msgs \ {m} : post'[n] = post[n] /\ row'[n] = row[n]
    BY <1>0, <1>1 DEF Send, PersistMessage, ReleaseRefused, SetState
  <2>2. \A n \in Msgs \ {m} : OnItsWay(n)' <=> OnItsWay(n)
    BY <2>1 DEF OnItsWay
  <2>3. QED
    BY <2>1, <2>2 DEF Heeded
<1>2. CASE Park(m)
  <2>1. /\ UNCHANGED <<row, bound, drained, taken, queue, turn, query, dying, heard, phase>>
        /\ \A n \in Msgs \ {m} : post'[n] = post[n]
    BY <1>0, <1>2 DEF Park
  <2>2. CASE parked' = parked \cup {m} /\ bound
    <3>1. \A n \in Msgs : OnItsWay(n) \/ n = m => OnItsWay(n)'
      BY <2>1, <2>2 DEF OnItsWay
    <3>2. QED
      BY <2>1, <2>2, <3>1 DEF Heeded
  <2>3. CASE parked' = parked /\ post'[m] # "done"
    <3>1. \A n \in Msgs : OnItsWay(n) => OnItsWay(n)'
      BY <2>1, <2>3 DEF OnItsWay
    <3>2. QED
      BY <2>1, <2>3, <3>1 DEF Heeded
  <2>4. QED
    BY <1>0, <1>2, <2>2, <2>3 DEF Park
<1>3. CASE EnqueueOwn(m)
  <2>1. /\ UNCHANGED <<row, bound, parked, drained, taken, query, dying, heard, phase>>
        /\ \A n \in Msgs \ {m} : post'[n] = post[n]
        /\ queue' = Append(queue, {m}) /\ turn' \in {turn, "idle"} /\ (turn' # turn => turn = "dead")
    BY <1>0, <1>3 DEF EnqueueOwn, Enqueue
  <2>2. queue' # <<>> /\ InQueue(queue') = InQueue(queue) \cup {m}
    <3>1. queue' # <<>>
      BY <1>0, <2>1, AppendProperties
    <3>2. QED
      BY <1>0, <2>1, <3>1, QueueAppend
  <2>3. \A n \in Msgs : OnItsWay(n) \/ n = m => OnItsWay(n)'
    BY <2>1, <2>2 DEF OnItsWay
  <2>4. QED
    BY <2>1, <2>3 DEF Heeded, InTry
<1>4. QED
  BY <1>1, <1>2, <1>3

\* The steps of a turn up to its unbinding: what it has for a query, shows as history or
\* drains, its model is given.
LEMMA HeededTurn ==
  ASSUME Kept, Heeded, Calm, Calm',
         \/ TurnStart \/ TurnBind \/ BuildHistory \/ Absorb \/ LoopEnds \/ PersistAnswer
         \/ Commit \/ Mark \/ TurnEnd
  PROVE  Heeded'
<1> USE DEF inbox, turnVars, boot
<1>0. /\ queue \in Seq(SUBSET Msgs) /\ query \in SUBSET Msgs
      /\ row \in [Msgs -> {"absent", "plain", "pending", "released", "consumed"}]
      /\ taken # {} => turn \in {"mark", "release"}
      /\ \A m \in taken : post[m] = "done"
  BY DEF Kept, Typed, Taking, Apart, Hands
<1>1. CASE TurnStart
  <2>1. /\ UNCHANGED <<row, post, bound, parked, drained, taken, dying, heard, phase>>
        /\ turn = "idle" /\ queue # <<>> /\ turn' = "start" /\ query' = Head(queue) /\ queue' = Tail(queue)
    BY <1>1 DEF TurnStart
  <2>2. InQueue(queue) = query' \cup InQueue(queue')
    BY <1>0, <2>1, QueueTail
  <2>3. \A m \in Msgs : OnItsWay(m) => OnItsWay(m)'
    BY <2>1, <2>2 DEF OnItsWay
  <2>4. QED
    BY <2>1, <2>3 DEF Heeded, InTry
<1>2. CASE TurnBind
  <2>1. /\ UNCHANGED <<post, parked, drained, taken, queue, query, dying, heard, phase>>
        /\ turn = "start" /\ turn' = "bound"
        /\ \A m \in Msgs : row'[m] = row[m] \/ row'[m] = "plain"
    BY <1>2 DEF TurnBind
  <2>2. \A m \in Msgs : OnItsWay(m) => OnItsWay(m)'
    BY <2>1 DEF OnItsWay
  <2>3. QED
    BY <2>1, <2>2 DEF Heeded, InTry
<1>3. CASE BuildHistory
  <2>1. /\ UNCHANGED <<row, post, bound, parked, drained, taken, queue, query, dying, phase>>
        /\ turn = "bound" /\ turn' = "live"
        /\ heard' = heard \cup query \cup (Visible \ query)
    BY <1>3 DEF BuildHistory
  <2>2. \A m \in Msgs : OnItsWay(m) => OnItsWay(m)' \/ m \in heard'
    BY <2>1 DEF OnItsWay, Visible
  <2>3. QED
    BY <2>1, <2>2 DEF Heeded, InTry
<1>4. CASE Absorb
  <2>1. /\ UNCHANGED <<row, post, bound, taken, queue, turn, query, dying, phase>>
        /\ turn = "live" /\ drained' = drained \cup parked /\ parked' = {} /\ heard' = heard \cup parked
    BY <1>4 DEF Absorb
  <2>2. \A m \in Msgs : OnItsWay(m) => OnItsWay(m)' \/ m \in heard'
    BY <2>1 DEF OnItsWay
  <2>3. QED
    BY <2>1, <2>2 DEF Heeded, InTry
<1>5. CASE LoopEnds \/ PersistAnswer \/ TurnEnd
  <2>1. /\ UNCHANGED <<row, post, parked, drained, taken, queue, query, dying, heard, phase>>
        /\ turn \in InTry \ {"bound", "mark"} /\ turn' \in InTry \cup {"out"} /\ turn' # "mark"
        /\ bound' => turn' \in InTry
    BY <1>5 DEF LoopEnds, PersistAnswer, TurnEnd, InTry
  <2>2. \A m \in Msgs : OnItsWay(m) => OnItsWay(m)'
    BY <2>1 DEF OnItsWay, InTry
  <2>3. QED
    BY <2>1, <2>2 DEF Heeded
<1>6. CASE Commit
  <2>1. /\ UNCHANGED <<row, post, bound, parked, queue, query, dying, heard, phase>>
        /\ turn = "commit" /\ turn' = "mark" /\ taken' = drained /\ drained' = {}
    BY <1>6 DEF Commit
  <2>2. \A m \in Msgs : OnItsWay(m) => OnItsWay(m)'
    BY <2>1 DEF OnItsWay
  <2>3. QED
    BY <2>1, <2>2 DEF Heeded, InTry
<1>7. CASE Mark
  <2>1. /\ UNCHANGED <<post, bound, parked, drained, queue, query, dying, heard, phase>>
        /\ turn = "mark" /\ turn' \in {"mark", "wrap"} /\ taken' \subseteq taken
        /\ \A m \in Msgs : row'[m] = row[m] \/ m \in taken
    BY <1>0, <1>7 DEF Mark, SetState
  <2>2. taken \subseteq heard
    BY <2>1 DEF Heeded
  <2>3. \A m \in Msgs : OnItsWay(m) => OnItsWay(m)' \/ m \in heard'
    BY <2>1, <2>2 DEF OnItsWay
  <2>4. QED
    BY <2>1, <2>2, <2>3 DEF Heeded, InTry
<1>8. QED
  BY <1>1, <1>2, <1>3, <1>4, <1>5, <1>6, <1>7

\* The flush at the end of a turn: what it takes it releases, and then a follow-up turn is queued.
LEMMA HeededFlush ==
  ASSUME Kept, Heeded, Calm, Calm', ~Spend("db"),
         FlushTake \/ FlushRelease \/ FlushFollowUp \/ TurnLeave
  PROVE  Heeded'
<1> USE DEF inbox, turnVars, boot
<1>0. /\ queue \in Seq(SUBSET Msgs) /\ parked \in SUBSET Msgs /\ drained \in SUBSET Msgs
      /\ row \in [Msgs -> {"absent", "plain", "pending", "released", "consumed"}]
      /\ taken # {} => turn \in {"mark", "release"}
  BY DEF Kept, Typed, Taking
<1>1. CASE FlushTake
  <2>1. /\ UNCHANGED <<row, post, bound, queue, query, dying, heard, phase>>
        /\ turn = "out" /\ parked' = {} /\ drained' = {}
        /\ \/ parked \cup drained = {} /\ turn' = "leave"
           \/ taken' = parked \cup drained /\ turn' = "release"
    BY <1>1 DEF FlushTake
  <2>2. \A m \in Msgs : OnItsWay(m) => OnItsWay(m)'
    BY <1>0, <2>1 DEF OnItsWay
  <2>3. QED
    BY <2>1, <2>2 DEF Heeded, InTry
<1>2. CASE FlushRelease /\ taken = {}
  <2>1. UNCHANGED <<row, post, bound, parked, drained, taken, queue, query, dying, heard, phase>>
        /\ turn = "release" /\ turn' = "follow"
    BY <1>2 DEF FlushRelease
  <2>2. \A m \in Msgs : OnItsWay(m) => OnItsWay(m)'
    BY <1>2, <2>1 DEF OnItsWay
  <2>3. QED
    BY <2>1, <2>2 DEF Heeded, InTry
<1>3. CASE FlushRelease /\ taken # {}
  <2>1. /\ UNCHANGED <<post, bound, parked, drained, queue, query, dying, heard, phase, turn>>
        /\ turn = "release"
    BY <1>3 DEF FlushRelease
  <2>2. PICK r \in taken : row' = [row EXCEPT ![r] = "released"] /\ taken' = taken \ {r}
    BY <1>3 DEF FlushRelease, SetState
  <2>3. \A m \in Msgs : OnItsWay(m) => OnItsWay(m)'
    BY <1>0, <2>1, <2>2 DEF OnItsWay
  <2>4. QED
    BY <2>1, <2>3 DEF Heeded, InTry
<1>4. CASE FlushFollowUp
  <2>1. /\ UNCHANGED <<row, post, bound, parked, drained, taken, query, dying, heard, phase>>
        /\ turn = "follow" /\ turn' = "leave" /\ queue' = Append(queue, {})
    BY <1>4 DEF FlushFollowUp
  <2>2. queue' # <<>> /\ InQueue(queue') = InQueue(queue)
    <3>1. queue' # <<>>
      BY <1>0, <2>1, AppendProperties
    <3>2. InQueue(queue') = InQueue(queue) \cup {}
      BY <1>0, <2>1, QueueAppend
    <3>3. QED
      BY <3>1, <3>2
  <2>3. \A m \in Msgs : OnItsWay(m) => OnItsWay(m)'
    BY <2>1, <2>2 DEF OnItsWay
  <2>4. QED
    BY <2>1, <2>3 DEF Heeded, InTry
<1>5. CASE TurnLeave
  <2>1. /\ UNCHANGED <<row, post, bound, parked, drained, taken, queue, heard, phase>>
        /\ turn = "leave" /\ turn' = "idle" /\ dying' = FALSE
    BY <1>5 DEF TurnLeave, Heeded
  <2>2. \A m \in Msgs : OnItsWay(m) => OnItsWay(m)'
    BY <2>1 DEF OnItsWay
  <2>3. QED
    BY <2>1, <2>2 DEF Heeded, InTry
<1>6. QED
  BY <1>1, <1>2, <1>3, <1>4, <1>5

LEMMA HeededStep ==
  ASSUME Kept, Heeded, [Next]_vars
  PROVE  Heeded'
<1> SUFFICES ASSUME Calm' PROVE Heeded'
  BY DEF Heeded
<1>1. Calm /\ \A f \in {"crash", "late", "db"} : ~Spend(f)
  <2>1. \A f \in {"crash", "late", "db"} : f \in Faults /\ spent'[f] = 0
    BY DEF Calm, Faults
  <2>2. \A f \in {"crash", "late", "db"} : spent[f] = 0
    BY <2>1, SpentStep DEF Kept
  <2>3. \A f \in {"crash", "late", "db"} : ~Spend(f)
    BY <2>1, Spending DEF Kept
  <2>4. QED
    BY <2>2, <2>3 DEF Calm
<1>2. ~StopLate /\ ~Crash /\ ~BootStep
  BY <1>1 DEF StopLate, Crash, BootStep, BootList, BootRelease, BootFollowUp, Heeded
<1>3. ASSUME UNCHANGED vars PROVE Heeded'
  BY <1>3 DEF vars, inbox, turnVars, boot, Heeded, Calm, OnItsWay
<1>4. QED
  BY <1>1, <1>2, <1>3, HeededHandler, HeededTurn, HeededFlush DEF Next, Handler, TurnStep

\* "A sent message is always answered" (stream_runner.py:1725), as far as it is safety: the
\* server cannot come to rest with a message nobody heard.  Whenever no handler is at work,
\* no turn runs and none is queued, every message sent was given to some turn's model,
\* whatever the race with a turn's end, a full inbox, an agent that raises or a Stop inside
\* its loop.  A Stop elsewhere, a failing database call and a crash do leave some unheard.
AtRest == turn \in {"idle", "dead"} /\ queue = <<>> /\ \A m \in Msgs : post[m] \in {"new", "done"}

THEOREM HeardAtRest == Spec => [](Calm /\ AtRest => \A m \in Msgs : post[m] # "new" => m \in heard)
<1>1. Kept /\ Heeded /\ [Next]_vars => Heeded'
  BY HeededStep
<1>2. Kept /\ Heeded => (Calm /\ AtRest => \A m \in Msgs : post[m] # "new" => m \in heard)
  <2> SUFFICES ASSUME Kept, Heeded, Calm, AtRest, NEW m \in Msgs, post[m] = "done"
               PROVE  m \in heard
    BY DEF AtRest
  <2>1. ~OnItsWay(m)
    <3>1. parked = {} /\ queue = <<>> /\ turn \in {"idle", "dead"}
      BY DEF Heeded, AtRest, InTry
    <3>2. QED
      BY <3>1, QueueEmpty DEF OnItsWay
  <2>2. QED
    BY <2>1 DEF Heeded
<1>3. QED
  BY KeptAlways, HeededInit, <1>1, <1>2, PTL DEF Spec
===========================================================================
