----------------------- MODULE ReplyForwarding_proofs -----------------------
(***************************************************************************)
(* Safety of ReplyForwarding, for any number of runs, forwarders and       *)
(* frames, any size of the ring and any faults, as often as Quota allows.  *)
(***************************************************************************)
EXTENDS ReplyForwarding, SequenceTheorems, FiniteSetTheorems, TLAPS

-----------------------------------------------------------------------------
(* Types                                                                   *)

Fates == { "new", "queued", "running", "failing", "complete", "failed", "stopped", "cleared" }
Places == { "free", "spawned", "recv", "send", "last", "cancelled", "closing", "done" }

BusTyped == /\ ring \in Seq(Frames) /\ seq \in Nat /\ active \in BOOLEAN
            /\ subs \subseteq Clients /\ mail \in [Clients -> Seq(Frames)]

RunTyped == /\ fate \in [Runs -> Fates] /\ jobs \in Seq(Runs)
            /\ turn \in {"dead", "idle", "run", "flush", "dying"}
            /\ bound \in BOOLEAN /\ folded \in BOOLEAN /\ texts \in 0..MaxText

FwdTyped == /\ pc \in [Forwarders -> Places] /\ text \in [Forwarders -> Seq(Frames)]
            /\ inflight \in Forwarders \cup {None} /\ pending \in Nat

RestTyped == armed \in BOOLEAN /\ sent \in Seq(Seq(Frames)) /\ spent \in [Faults -> Nat]

LEMMA TypeParts == TypeOK <=> BusTyped /\ RunTyped /\ FwdTyped /\ RestTyped
BY DEF TypeOK, BusTyped, RunTyped, FwdTyped, RestTyped, Fates, Places

\* A turn that is bound is a run of the worker's, and the bus is active for it.
InRun ==
  /\ turn = "run" => active /\ \E r \in Runs : fate[r] \in {"running", "failing"}
  /\ bound => turn = "run"

LEMMA CurrentIsRun ==
  ASSUME InRun, turn = "run"
  PROVE  Current \in Runs /\ fate[Current] \in {"running", "failing"}
BY DEF InRun, Current

LEMMA Spending ==
  ASSUME NEW f \in Faults, Spend(f), spent \in [Faults -> Nat]
  PROVE  /\ spent' \in [Faults -> Nat] /\ spent'[f] # 0
         /\ \A g \in Faults : spent'[g] = 0 => spent[g] = 0
BY DEF Spend

\* What the bus keeps for replay is some of what it was given.
LEMMA NewestTyped ==
  ASSUME NEW s \in Seq(Frames)
  PROVE  Newest(s) \in Seq(Frames)
<1>1. CASE Len(s) > RingCap
  <2>1. Len(s) \in Nat /\ RingCap \in Nat
    BY LenProperties, RingCapAssumption
  <2>2. SubSeq(s, Len(s) - RingCap + 1, Len(s)) \in Seq(Frames)
    <3>1. \A i \in (Len(s) - RingCap + 1)..Len(s) : s[i] \in Frames
      BY <1>1, <2>1, ElementOfSeq
    <3>2. QED
      BY <1>1, <2>1, <3>1, SubSeqProperties
  <2>3. QED
    BY <1>1, <2>2 DEF Newest
<1>2. CASE ~(Len(s) > RingCap)
  BY <1>2 DEF Newest
<1>3. QED
  BY <1>1, <1>2

LEMMA FrameTyped ==
  ASSUME BusTyped, NEW r \in Runs, NEW kind \in Kinds
  PROVE  /\ Frame(r, kind) \in Frames
         /\ Newest(Append(ring, Frame(r, kind))) \in Seq(Frames)
         /\ FannedOut(Frame(r, kind)) \in [Clients -> Seq(Frames)]
<1>1. Frame(r, kind) \in Frames
  BY DEF BusTyped, Frame, Frames
<1>2. Append(ring, Frame(r, kind)) \in Seq(Frames)
  BY <1>1, AppendProperties DEF BusTyped
<1>3. \A c \in Clients : Append(mail[c], Frame(r, kind)) \in Seq(Frames)
  BY <1>1, AppendProperties DEF BusTyped
<1>4. FannedOut(Frame(r, kind)) \in [Clients -> Seq(Frames)]
  BY <1>3 DEF BusTyped, FannedOut
<1>5. QED
  BY <1>1, <1>2, <1>4, NewestTyped

LEMMA PublishTyped ==
  ASSUME BusTyped, NEW r \in Runs, NEW kind \in Kinds, Publish(r, kind) \/ PublishLast(r, kind)
  PROVE  BusTyped'
<1>1. seq + 1 \in Nat /\ <<>> \in Seq(Frames)
  BY DEF BusTyped
<1>2. QED
  BY <1>1, FrameTyped DEF BusTyped, Publish, PublishLast

LEMMA StreamTyped ==
  ASSUME BusTyped, StartStream \/ EndStream \/ Discard
  PROVE  BusTyped'
<1>1. <<>> \in Seq(Frames) /\ 0 \in Nat /\ {} \subseteq Clients
  OBVIOUS
<1>2. CASE StartStream
  BY <1>1, <1>2 DEF BusTyped, StartStream
<1>3. CASE EndStream
  BY <1>1, <1>3 DEF BusTyped, EndStream
<1>4. CASE Discard
  BY <1>1, <1>4 DEF BusTyped, Discard
<1>5. QED
  BY <1>2, <1>3, <1>4

LEMMA SubscriptionTyped ==
  ASSUME BusTyped, NEW c \in Clients, Subscribe(c) \/ Unsubscribe(c)
  PROVE  BusTyped'
<1>1. <<>> \in Seq(Frames) /\ ring \in Seq(Frames)
  BY DEF BusTyped
<1>2. CASE Subscribe(c)
  BY <1>1, <1>2 DEF BusTyped, Subscribe
<1>3. CASE Unsubscribe(c)
  BY <1>1, <1>3 DEF BusTyped, Unsubscribe
<1>4. QED
  BY <1>2, <1>3

\* A task that may be spawned is one.
LEMMA ExpectTyped ==
  ASSUME FwdTyped, ExpectRun
  PROVE  FwdTyped'
<1>1. Free \subseteq Forwarders
  BY DEF Free
<1>2. \A f \in Forwarders : Spawn(f) => /\ pc' \in [Forwarders -> Places]
                                        /\ inflight' \in Forwarders \cup {None}
  BY DEF FwdTyped, Spawn, Places
<1>3. QED
  BY <1>1, <1>2 DEF FwdTyped, ExpectRun

LEMMA QueueTyped ==
  ASSUME fate \in [Runs -> Fates], jobs \in Seq(Runs), Queue
  PROVE  /\ fate' \in [Runs -> Fates] /\ jobs' \in Seq(Runs)
         /\ \A r \in Runs : fate[r] # "new" => fate'[r] = fate[r]
BY AppendProperties DEF Queue, Fates

LEMMA HeadTyped ==
  ASSUME NEW S, NEW s \in Seq(S), s # <<>>
  PROVE  Head(s) \in S /\ Tail(s) \in Seq(S)
BY HeadTailProperties

\* What a forwarder does with a frame keeps the types.
LEMMA AbsorbTyped ==
  ASSUME BusTyped, FwdTyped, RestTyped, NEW f \in Forwarders, Absorb(f)
  PROVE  BusTyped' /\ FwdTyped' /\ RestTyped'
<1>1. /\ mail[f] \in Seq(Frames) /\ mail[f] # <<>> /\ text[f] \in Seq(Frames)
      /\ Head(mail[f]) \in Frames /\ Tail(mail[f]) \in Seq(Frames)
  <2>1. mail[f] \in Seq(Frames) /\ mail[f] # <<>> /\ text[f] \in Seq(Frames)
    BY DEF BusTyped, FwdTyped, Absorb, Forwarders
  <2>2. QED
    BY <2>1, HeadTyped
<1>2. BusTyped'
  BY <1>1 DEF BusTyped, Absorb, Pop, Forwarders
<1>3. UNCHANGED <<inflight, pending, armed, spent>>
  BY DEF Absorb
<1>4. <<>> \in Seq(Frames) /\ <<Head(mail[f])>> \in Seq(Frames)
  BY <1>1
<1>5. /\ Append(text[f], Head(mail[f])) \in Seq(Frames)
      /\ Append(sent, text[f]) \in Seq(Seq(Frames))
      /\ Append(sent, <<Head(mail[f])>>) \in Seq(Seq(Frames))
  BY <1>1, <1>4, AppendProperties DEF RestTyped
<1>6. /\ pc' \in [Forwarders -> Places] /\ text' \in [Forwarders -> Seq(Frames)]
      /\ sent' \in Seq(Seq(Frames))
  <2>1. CASE AbsorbText(f)
    BY <1>5, <2>1 DEF FwdTyped, RestTyped, AbsorbText
  <2>2. CASE AbsorbBreak(f)
    BY <1>4, <1>5, <2>2 DEF FwdTyped, RestTyped, AbsorbBreak, Places
  <2>3. CASE AbsorbComplete(f)
    BY <1>5, <2>3 DEF FwdTyped, RestTyped, AbsorbComplete, Places
  <2>4. CASE AbsorbError(f)
    BY <1>5, <2>4 DEF FwdTyped, RestTyped, AbsorbError, Places
  <2>5. QED
    BY <2>1, <2>2, <2>3, <2>4 DEF Absorb
<1>7. QED
  BY <1>2, <1>3, <1>6 DEF FwdTyped, RestTyped

Typed == BusTyped /\ RunTyped /\ FwdTyped /\ RestTyped /\ InRun

LEMMA TypedInit == Init => Typed
<1> SUFFICES ASSUME Init PROVE Typed
  OBVIOUS
<1>1. <<>> \in Seq(Frames) /\ <<>> \in Seq(Runs) /\ <<>> \in Seq(Seq(Frames))
  OBVIOUS
<1>2. BusTyped
  BY <1>1 DEF Init, InitBus, BusTyped
<1>3. RunTyped
  <2>1. 0 \in 0..MaxText
    BY BoundsAssumption
  <2>2. fate \in [Runs -> Fates]
    BY DEF Init, Fates
  <2>3. QED
    BY <1>1, <2>1, <2>2 DEF Init, RunTyped
<1>4. FwdTyped
  BY <1>1 DEF Init, FwdTyped, Places
<1>5. RestTyped
  BY <1>1 DEF Init, RestTyped
<1>6. InRun
  BY DEF Init, InitBus, InRun
<1>7. QED
  BY <1>2, <1>3, <1>4, <1>5, <1>6 DEF Typed

LEMMA TypedStep ==
  ASSUME Typed, Next
  PROVE  Typed'
<1>0. BusTyped /\ RunTyped /\ FwdTyped /\ RestTyped /\ InRun
  BY DEF Typed
<1> USE DEF Typed
<1>1. CASE Dispatch
  <2>1. FwdTyped'
    BY <1>0, <1>1, ExpectTyped DEF Dispatch
  <2>2. RunTyped' /\ InRun'
    BY <1>0, <1>1, QueueTyped DEF Dispatch, RunTyped, InRun, busVars
  <2>3. QED
    BY <1>0, <1>1, <2>1, <2>2 DEF Dispatch, BusTyped, RestTyped, busVars
<1>2. CASE Fold
  <2>1. FwdTyped'
    <3>1. CASE UNCHANGED fwdVars
      BY <1>0, <3>1 DEF FwdTyped, fwdVars
    <3>2. QED
      BY <1>0, <1>2, <3>1, ExpectTyped DEF Fold
  <2>2. spent' \in [Faults -> Nat]
    BY <1>0, <1>2, Spending DEF Fold, RestTyped, Faults
  <2>3. QED
    BY <1>0, <1>2, <2>1, <2>2 DEF Fold, BusTyped, RunTyped, InRun, RestTyped, busVars
<1>3. CASE ArmInVain
  <2>1. FwdTyped'
    BY <1>0, <1>3, ExpectTyped DEF ArmInVain
  <2>2. spent' \in [Faults -> Nat]
    BY <1>0, <1>3, Spending DEF ArmInVain, RestTyped, Faults
  <2>3. QED
    BY <1>0, <1>3, <2>1, <2>2 DEF ArmInVain, BusTyped, RunTyped, InRun, RestTyped, busVars, runVars
<1>4. CASE ReleaseRun
  <2>1. FwdTyped'
    <3>1. pending' \in Nat
      BY <1>0, <1>4 DEF ReleaseRun, FwdTyped
    <3>2. pc' \in [Forwarders -> Places]
      <4>1. pc' = pc \/ pc' = [pc EXCEPT ![inflight] = "cancelled"]
        BY <1>4 DEF ReleaseRun
      <4>2. QED
        BY <1>0, <4>1 DEF FwdTyped, Places
    <3>3. QED
      BY <1>0, <1>4, <3>1, <3>2 DEF ReleaseRun, FwdTyped
  <2>2. QED
    BY <1>0, <1>4, <2>1 DEF ReleaseRun, BusTyped, RunTyped, InRun, RestTyped, busVars, runVars
<1>5. CASE StartRun
  <2>1. Head(jobs) \in Runs /\ Tail(jobs) \in Seq(Runs)
    BY <1>0, <1>5, HeadTyped DEF StartRun, RunTyped
  <2>2. BusTyped'
    BY <1>0, <1>5, StreamTyped DEF StartRun
  <2>3. RunTyped'
    BY <1>0, <1>5, <2>1, BoundsAssumption DEF StartRun, RunTyped, Fates
  <2>4. InRun'
    BY <1>0, <1>5, <2>1 DEF StartRun, StartStream, InRun, RunTyped
  <2>5. QED
    BY <1>0, <1>5, <2>2, <2>3, <2>4 DEF StartRun, FwdTyped, RestTyped, fwdVars
<1>6. CASE Bind
  BY <1>0, <1>6 DEF Bind, BusTyped, RunTyped, FwdTyped, RestTyped, InRun, busVars, fwdVars
<1>7. CASE Say
  <2>1. turn = "run" /\ Current \in Runs
    BY <1>0, <1>7, CurrentIsRun DEF Say, InRun
  <2>2. BusTyped'
    BY <1>0, <1>7, <2>1, PublishTyped DEF Say, Kinds
  <2>3. RunTyped'
    BY <1>0, <1>7, BoundsAssumption DEF Say, RunTyped
  <2>4. QED
    BY <1>0, <1>7, <2>2, <2>3 DEF Say, Publish, FwdTyped, RestTyped, InRun, fwdVars
<1>8. CASE FlowBreak
  <2>1. turn = "run" /\ Current \in Runs
    BY <1>0, <1>8, CurrentIsRun DEF FlowBreak, InRun
  <2>2. BusTyped'
    BY <1>0, <1>8, <2>1, PublishTyped DEF FlowBreak, Kinds
  <2>3. spent' \in [Faults -> Nat]
    <3>1. CASE UNCHANGED spent
      BY <1>0, <3>1 DEF RestTyped
    <3>2. CASE Spend("break")
      BY <1>0, <3>2, Spending DEF RestTyped, Faults
    <3>3. QED
      BY <1>8, <3>1, <3>2 DEF FlowBreak
  <2>4. RunTyped'
    BY <1>0, <1>8 DEF FlowBreak, RunTyped
  <2>5. QED
    BY <1>0, <1>8, <2>2, <2>3, <2>4 DEF FlowBreak, Publish, FwdTyped, RestTyped, InRun, fwdVars
<1>9. CASE FailRun
  <2>1. turn = "run" /\ Current \in Runs
    BY <1>0, <1>9, CurrentIsRun DEF FailRun, InRun
  <2>2. BusTyped'
    BY <1>0, <1>9, <2>1, PublishTyped DEF FailRun, Kinds
  <2>3. spent' \in [Faults -> Nat]
    BY <1>0, <1>9, Spending DEF FailRun, RestTyped, Faults
  <2>4. RunTyped' /\ InRun'
    <3> DEFINE c == Current
    <3>1. c \in Runs /\ fate' = [fate EXCEPT ![c] = "failing"]
      BY <1>9, <2>1 DEF FailRun
    <3>2. UNCHANGED <<jobs, turn, bound, folded, texts, active>>
      BY <1>9 DEF FailRun, Publish
    <3>3. QED
      <4> HIDE DEF c
      <4> QED BY <1>0, <2>1, <3>1, <3>2 DEF RunTyped, InRun, Fates
  <2>5. QED
    BY <1>0, <1>9, <2>2, <2>3, <2>4 DEF FailRun, FwdTyped, RestTyped, fwdVars
<1>10. CASE FinishRun
  <2>1. turn = "run" /\ Current \in Runs
    BY <1>0, <1>10, CurrentIsRun DEF FinishRun, InRun
  <2>2. BusTyped'
    BY <1>0, <1>10, <2>1, PublishTyped DEF FinishRun, Kinds
  <2>3. RunTyped' /\ InRun'
    <3> DEFINE c == Current
    <3>1. fate' = [fate EXCEPT ![c] = IF @ = "failing" THEN "failed" ELSE "complete"]
      BY <1>10 DEF FinishRun
    <3>2. /\ turn' \in {"flush", "idle"} /\ bound' = FALSE /\ texts' = 0
          /\ UNCHANGED <<jobs, folded>>
      BY <1>10 DEF FinishRun
    <3>3. QED
      <4>1. fate' \in [Runs -> Fates]
        <5> HIDE DEF c
        <5> QED BY <1>0, <3>1 DEF RunTyped, Fates
      <4>2. 0 \in 0..MaxText
        BY BoundsAssumption
      <4>3. QED
        BY <1>0, <3>2, <4>1, <4>2 DEF RunTyped, InRun
  <2>4. QED
    BY <1>0, <1>10, <2>2, <2>3 DEF FinishRun, FwdTyped, RestTyped, fwdVars
<1>11. CASE LateStop
  <2>1. BusTyped'
    BY <1>0, <1>11, StreamTyped DEF LateStop
  <2>2. spent' \in [Faults -> Nat]
    BY <1>0, <1>11, Spending DEF LateStop, RestTyped, Faults
  <2>3. RunTyped' /\ InRun'
    <3> DEFINE c == Current
    <3>1. fate' = [fate EXCEPT ![c] = IF @ = "failing" THEN "failed" ELSE "stopped"]
      BY <1>11 DEF LateStop
    <3>2. /\ turn' \in {"dying", "dead"} /\ bound' = FALSE /\ texts' = 0
          /\ UNCHANGED <<jobs, folded>>
      BY <1>11 DEF LateStop
    <3>3. QED
      <4>1. fate' \in [Runs -> Fates]
        <5> HIDE DEF c
        <5> QED BY <1>0, <3>1 DEF RunTyped, Fates
      <4>2. 0 \in 0..MaxText
        BY BoundsAssumption
      <4>3. QED
        BY <1>0, <3>2, <4>1, <4>2 DEF RunTyped, InRun
  <2>4. QED
    BY <1>0, <1>11, <2>1, <2>2, <2>3 DEF LateStop, FwdTyped, RestTyped, fwdVars
<1>12. CASE FollowUp
  <2>1. FwdTyped'
    BY <1>0, <1>12, ExpectTyped DEF FollowUp
  <2>2. RunTyped' /\ InRun'
    BY <1>0, <1>12, QueueTyped DEF FollowUp, RunTyped, InRun, busVars
  <2>3. QED
    BY <1>0, <1>12, <2>1, <2>2 DEF FollowUp, BusTyped, RestTyped, busVars
<1>13. CASE ClearHistory
  <2>1. BusTyped'
    BY <1>0, <1>13, StreamTyped DEF ClearHistory
  <2>2. spent' \in [Faults -> Nat]
    BY <1>0, <1>13, Spending DEF ClearHistory, RestTyped, Faults
  <2>3. RunTyped' /\ InRun'
    <3>1. /\ fate' \in [Runs -> Fates] /\ ~active
          /\ jobs' = <<>> /\ turn' = "dead" /\ folded' = FALSE /\ UNCHANGED <<bound, texts>>
      BY <1>0, <1>13 DEF ClearHistory, RunTyped, Fates
    <3>2. ~bound
      BY <1>0, <3>1 DEF InRun
    <3>3. <<>> \in Seq(Runs)
      OBVIOUS
    <3>4. QED
      BY <1>0, <3>1, <3>2, <3>3 DEF RunTyped, InRun
  <2>4. QED
    BY <1>0, <1>13, <2>1, <2>2, <2>3 DEF ClearHistory, FwdTyped, RestTyped, fwdVars
<1>14. ASSUME NEW f \in Forwarders, Join(f) \/ Leave(f)
       PROVE  Typed'
  <2>1. BusTyped' /\ active' = active
    BY <1>0, <1>14, SubscriptionTyped DEF Join, Leave, Subscribe, Unsubscribe, Forwarders
  <2>2. FwdTyped'
    <3>1. <<>> \in Seq(Frames)
      OBVIOUS
    <3>2. QED
      BY <1>0, <1>14, <3>1 DEF Join, Leave, FwdTyped, Places
  <2>3. QED
    BY <1>0, <1>14, <2>1, <2>2 DEF Join, Leave, RunTyped, InRun, RestTyped, runVars
<1>15. ASSUME NEW f \in Forwarders, Absorb(f)
       PROVE  Typed'
  <2>1. BusTyped' /\ FwdTyped' /\ RestTyped'
    BY <1>0, <1>15, AbsorbTyped
  <2>2. QED
    BY <1>0, <1>15, <2>1 DEF Absorb, Pop, RunTyped, InRun, runVars
<1>16. ASSUME NEW f \in Forwarders, SendDone(f) \/ TaskDone(f)
       PROVE  Typed'
  <2>1. FwdTyped'
    BY <1>0, <1>16 DEF SendDone, TaskDone, FwdTyped, Places
  <2>2. QED
    BY <1>0, <1>16, <2>1 DEF SendDone, TaskDone, BusTyped, RunTyped, InRun, RestTyped, busVars, runVars
<1>17. ASSUME NEW f \in Forwarders, ClearInflight(f)
       PROVE  Typed'
  <2>1. FwdTyped'
    <3>1. Free \subseteq Forwarders
      BY DEF Free
    <3>2. /\ pending' \in Nat /\ inflight' \in Forwarders \cup {None}
          /\ UNCHANGED text
      BY <1>0, <1>17, <3>1 DEF ClearInflight, FwdTyped
    <3>3. pc' \in [Forwarders -> Places]
      <4>1. \/ pc' = [pc EXCEPT ![f] = "free"]
            \/ \E g \in Free : pc' = [pc EXCEPT ![f] = "free", ![g] = "spawned"]
        BY <1>17 DEF ClearInflight
      <4>2. QED
        BY <1>0, <3>1, <4>1 DEF FwdTyped, Places
    <3>4. QED
      BY <1>0, <3>2, <3>3 DEF FwdTyped
  <2>2. QED
    BY <1>0, <1>17, <2>1 DEF ClearInflight, BusTyped, RunTyped, InRun, RestTyped, busVars, runVars
<1>18. QED
  BY <1>1, <1>2, <1>3, <1>4, <1>5, <1>6, <1>7, <1>8, <1>9, <1>10, <1>11, <1>12, <1>13, <1>14,
     <1>15, <1>16, <1>17 DEF Next

LEMMA TypedHolds == Spec => []Typed
<1>1. ASSUME Typed, UNCHANGED vars PROVE Typed'
  BY <1>1 DEF Typed, BusTyped, RunTyped, FwdTyped, RestTyped, InRun, vars, busVars, runVars, fwdVars
<1>2. QED
  BY TypedInit, TypedStep, <1>1, PTL DEF Spec

\* Every variable keeps its type: the frames of a client's queue, of the ring and of
\* what was sent are runs' frames, and whoever publishes is a run of the worker's.
THEOREM TypeCorrect == Spec => []TypeOK
<1>1. Typed => TypeOK
  BY TypeParts DEF Typed
<1>2. QED
  BY <1>1, TypedHolds, PTL

-----------------------------------------------------------------------------
(* One forwarder at a time                                                 *)

\* A forwarder is spawned only when none is live.
LEMMA ExpectLive ==
  ASSUME FwdTyped, OneLive, ExpectRun
  PROVE  OneLive'
<1>1. CASE inflight = None \/ inflight \notin Live
  <2>1. Live = {}
    BY <1>1, TasksAssumption DEF OneLive, Live, Forwarders, None
  <2>2. PICK f \in Free : Spawn(f)
    BY <1>1 DEF ExpectRun
  <2>3. f \in Forwarders /\ pc' = [pc EXCEPT ![f] = "spawned"] /\ inflight' = f
    BY <2>2 DEF Free, Spawn
  <2>4. \A g \in Forwarders : g # f => pc'[g] \in {"free", "done"}
    BY <2>1, <2>3 DEF FwdTyped, Live
  <2>5. QED
    BY <2>3, <2>4 DEF OneLive, Live
<1>2. CASE ~(inflight = None \/ inflight \notin Live)
  BY <1>2 DEF ExpectRun, OneLive, Live
<1>3. QED
  BY <1>1, <1>2

LEMMA LiveStep ==
  ASSUME Typed, OneLive, Next
  PROVE  OneLive'
<1>0. FwdTyped
  BY DEF Typed
<1>1. CASE ExpectRun
  BY <1>0, <1>1, ExpectLive
<1>2. CASE UNCHANGED <<pc, inflight>>
  BY <1>2 DEF OneLive, Live
<1>3. CASE ReleaseRun
  <2>1. \/ pc' = pc
        \/ inflight \in Live /\ pc' = [pc EXCEPT ![inflight] = "cancelled"]
    BY <1>3 DEF ReleaseRun, Cancellable
  <2>2. inflight' = inflight
    BY <1>3 DEF ReleaseRun
  <2>3. QED
    BY <1>0, <2>1, <2>2 DEF OneLive, Live, FwdTyped
<1>4. ASSUME NEW f \in Forwarders,
             Join(f) \/ Absorb(f) \/ SendDone(f) \/ Leave(f) \/ TaskDone(f)
      PROVE  OneLive'
  <2>1. pc[f] \notin {"free", "done"} /\ inflight' = inflight
    BY <1>4 DEF Join, Absorb, SendDone, Leave, TaskDone
  <2>2. \A g \in Forwarders : g # f => pc'[g] = pc[g]
    BY <1>0, <1>4 DEF Join, Absorb, AbsorbText, AbsorbBreak, AbsorbComplete, AbsorbError,
                      SendDone, Leave, TaskDone, FwdTyped
  <2>3. QED
    BY <2>1, <2>2 DEF OneLive, Live
<1>5. ASSUME NEW f \in Forwarders, ClearInflight(f)
      PROVE  OneLive'
  <2>1. pc[f] = "done"
    BY <1>5 DEF ClearInflight
  <2>2. CASE pc' = [pc EXCEPT ![f] = "free"] /\ (inflight # f => inflight' = inflight)
    BY <1>0, <2>1, <2>2 DEF OneLive, Live, FwdTyped
  <2>3. CASE inflight = f /\ pending > 1
    <3>1. PICK g \in Free : /\ pc' = [pc EXCEPT ![f] = "free", ![g] = "spawned"]
                            /\ inflight' = g
      BY <1>5, <2>3 DEF ClearInflight
    <3>2. \A h \in Forwarders : pc[h] \in {"free", "done"}
      BY <2>1, <2>3 DEF OneLive, Live
    <3>3. g \in Forwarders
      BY DEF Free
    <3>4. \A h \in Forwarders : h # g => pc'[h] \in {"free", "done"}
      BY <1>0, <3>1, <3>2, <3>3 DEF FwdTyped
    <3>5. QED
      BY <3>1, <3>4 DEF OneLive, Live
  <2>4. QED
    BY <1>5, <2>2, <2>3 DEF ClearInflight
<1>6. QED
  BY <1>1, <1>2, <1>3, <1>4, <1>5
  DEF Next, Dispatch, Fold, ArmInVain, StartRun, Bind, Say, FlowBreak, FailRun, FinishRun,
      LateStop, FollowUp, ClearHistory, fwdVars

\* No two forwarders of a target hear the same frames: whatever is asked for, folded,
\* released, cleared or chained, a task that has not ended is the registered one
\* (_expect_run, _spawn_forwarder, _clear_inflight, release_run_for).
THEOREM OneForwarderLive == Spec => []OneLive
<1>1. Init => OneLive
  BY DEF Init, OneLive, Live
<1>2. ASSUME OneLive, UNCHANGED vars PROVE OneLive'
  BY <1>2 DEF OneLive, Live, vars, fwdVars
<1>3. QED
  BY <1>1, <1>2, LiveStep, TypedHolds, PTL DEF Spec

-----------------------------------------------------------------------------
(* The count of runs owed a forwarder                                      *)

\* No run has failed, and no forwarder was armed in vain, or one was and is not
\* released yet.
Clean ==
  /\ spent["fail"] = 0
  /\ spent["release"] = 0 \/ (armed /\ spent["release"] = 1)

\* The run that was armed in vain, until it is released.
Vain == IF armed THEN 1 ELSE 0

\* A frame of one of these kinds is among s.
Holds(s, kinds) == \E i \in 1..Len(s) : s[i].kind \in kinds

\* Queued runs are queued once.
JobsAreQueued ==
  /\ \A i \in 1..Len(jobs) : fate[jobs[i]] = "queued"
  /\ \A i, j \in 1..Len(jobs) : jobs[i] = jobs[j] => i = j

\* A task that has not subscribed, or has unsubscribed, has no mail.
NoMail ==
  \A f \in Forwarders :
    pc[f] \in {"free", "spawned", "closing", "done"} => mail[f] = <<>> /\ f \notin subs

\* What is armed in vain is counted.
ArmedCounted == armed => spent["release"] # 0

\* What a failure and a release would leave behind is not there.
CleanState ==
  Clean =>
    /\ \A r \in Runs : fate[r] # "failing"
    /\ \A f \in Forwarders : pc[f] # "cancelled" /\ ~Holds(mail[f], {"error"})
    /\ ~Holds(ring, {"complete", "error"})

\* f has come to the end of a run, or will.
Ending(f) == pc[f] \in {"last", "closing", "done"} \/ Holds(mail[f], {"complete"})

\* Everything owed is counted, and so is the run the registered forwarder ends with.
Counted ==
  Clean =>
    /\ Cardinality(Owed) + Vain <= pending
    /\ inflight # None /\ Ending(inflight) => Cardinality(Owed) + 1 + Vain <= pending

ChainInv == JobsAreQueued /\ NoMail /\ ArmedCounted /\ CleanState /\ Counted

\* What a step spends, and when it arms.
LEMMA SpendSteps ==
  ASSUME Typed, Next
  PROVE  /\ spent["fail"] \in Nat /\ spent["release"] \in Nat
         /\ spent'["fail"] \in Nat /\ spent["fail"] <= spent'["fail"]
         /\ spent'["release"] \in Nat /\ spent["release"] <= spent'["release"]
         /\ armed' => armed \/ spent'["release"] = spent["release"] + 1
<1>1. spent \in [Faults -> Nat]
  BY DEF Typed, RestTyped
<1>2. /\ \/ spent' = spent
         \/ \E f \in Faults : Spend(f)
      /\ armed' => armed \/ Spend("release")
  BY DEF Next, Dispatch, Fold, ArmInVain, ReleaseRun, StartRun, Bind, Say, FlowBreak, FailRun,
         FinishRun, LateStop, FollowUp, ClearHistory, Join, Absorb, SendDone, Leave, TaskDone,
         ClearInflight, Faults
<1>3. ASSUME NEW f \in Faults, Spend(f)
      PROVE  /\ spent' = [spent EXCEPT ![f] = @ + 1]
             /\ \A g \in Faults : spent'[g] \in Nat /\ spent[g] <= spent'[g]
             /\ spent'[f] = spent[f] + 1
  BY <1>1, <1>3 DEF Spend
<1>4. "fail" \in Faults /\ "release" \in Faults
  BY DEF Faults
<1>5. QED
  BY <1>1, <1>2, <1>3, <1>4

LEMMA ArmedStep ==
  ASSUME Typed, ArmedCounted, Next
  PROVE  ArmedCounted'
<1>1. CASE armed
  BY <1>1, SpendSteps DEF ArmedCounted
<1>2. CASE ~armed
  BY <1>2, SpendSteps DEF ArmedCounted
<1>3. QED
  BY <1>1, <1>2

\* A step that touches neither a failure nor a release, or arms first, is clean before
\* and after.
LEMMA CleanBefore ==
  ASSUME Typed, Next, Clean'
  PROVE  Clean
<1>1. spent["fail"] = 0 /\ (spent'["release"] = 0 => spent["release"] = 0)
  BY SpendSteps DEF Clean
<1>2. CASE armed' /\ spent'["release"] = 1
  BY <1>1, <1>2, SpendSteps DEF Clean
<1>3. QED
  BY <1>1, <1>2 DEF Clean

LEMMA FiniteOwed ==
        /\ IsFiniteSet(Owed) /\ Cardinality(Owed) \in Nat
        /\ \A T \in SUBSET Owed : Cardinality(T) \in Nat /\ Cardinality(T) <= Cardinality(Owed)
        /\ \A r : Cardinality(Owed \cup {r}) <= Cardinality(Owed) + 1
                  /\ Cardinality(Owed \cup {r}) \in Nat
        /\ \A r \in Owed : Cardinality(Owed \ {r}) = Cardinality(Owed) - 1
<1>1. IsFiniteSet(Runs)
  <2>1. 1 \in Int /\ MaxRuns \in Int
    BY BoundsAssumption
  <2>2. QED
    BY <2>1, FS_Interval DEF Runs
<1>2. IsFiniteSet(Owed)
  BY <1>1, FS_Subset DEF Owed
<1>3. Cardinality(Owed) \in Nat
  BY <1>2, FS_CardinalityType
<1>4. ASSUME NEW T \in SUBSET Owed
      PROVE  Cardinality(T) \in Nat /\ Cardinality(T) <= Cardinality(Owed)
  BY <1>2, FS_Subset, FS_CardinalityType
<1>5. ASSUME NEW r
      PROVE  /\ Cardinality(Owed \cup {r}) <= Cardinality(Owed) + 1
             /\ Cardinality(Owed \cup {r}) \in Nat
  <2>1. /\ IsFiniteSet(Owed \cup {r})
        /\ Cardinality(Owed \cup {r}) = IF r \in Owed THEN Cardinality(Owed)
                                        ELSE Cardinality(Owed) + 1
    BY <1>2, FS_AddElement
  <2>2. QED
    BY <1>3, <2>1
<1>6. ASSUME NEW r \in Owed
      PROVE  Cardinality(Owed \ {r}) = Cardinality(Owed) - 1
  BY <1>2, FS_RemoveElement
<1>7. QED
  BY <1>2, <1>3, <1>4, <1>5, <1>6

\* Where frames are.
LEMMA AppendHolds ==
  ASSUME NEW s \in Seq(Frames), NEW m \in Frames, NEW kinds
  PROVE  Holds(Append(s, m), kinds) <=> Holds(s, kinds) \/ m.kind \in kinds
<1>1. /\ Len(s) \in Nat /\ Len(Append(s, m)) = Len(s) + 1
      /\ \A i \in 1..Len(s) : Append(s, m)[i] = s[i]
      /\ Append(s, m)[Len(s) + 1] = m
  BY AppendProperties, LenProperties
<1>2. \A i \in 1..(Len(s) + 1) : i \in 1..Len(s) \/ i = Len(s) + 1
  BY <1>1
<1>3. Len(s) + 1 \in 1..(Len(s) + 1) /\ \A i \in 1..Len(s) : i \in 1..(Len(s) + 1)
  BY <1>1
<1>4. QED
  BY <1>1, <1>2, <1>3 DEF Holds

LEMMA TailHolds ==
  ASSUME NEW s \in Seq(Frames), s # <<>>, NEW kinds
  PROVE  /\ Holds(Tail(s), kinds) => Holds(s, kinds)
         /\ Head(s).kind \in kinds => Holds(s, kinds)
<1>1. /\ Len(s) \in Nat /\ Len(s) > 0 /\ Len(Tail(s)) = Len(s) - 1 /\ Head(s) = s[1]
      /\ \A i \in 1..Len(Tail(s)) : Tail(s)[i] = s[i + 1]
  BY HeadTailProperties, EmptySeq, LenProperties
<1>2. \A i \in 1..(Len(s) - 1) : i + 1 \in 1..Len(s)
  BY <1>1
<1>3. 1 \in 1..Len(s)
  BY <1>1
<1>4. QED
  BY <1>1, <1>2, <1>3 DEF Holds

LEMMA NewestHolds ==
  ASSUME NEW s \in Seq(Frames), NEW kinds
  PROVE  Holds(Newest(s), kinds) => Holds(s, kinds)
<1>1. CASE Len(s) > RingCap
  <2>1. Len(s) \in Nat /\ RingCap \in Nat
    BY LenProperties, RingCapAssumption
  <2> DEFINE d == Len(s) - RingCap
  <2>2. d \in Nat /\ d + 1 \in 1..Len(s)+1
    BY <1>1, <2>1, RingCapAssumption
  <2>3. \A i \in (d + 1)..Len(s) : s[i] \in Frames
    BY <2>1, <2>2, ElementOfSeq
  <2>4. /\ Len(Newest(s)) = Len(s) - d
        /\ \A i \in 1..(Len(s) - d) : Newest(s)[i] = s[i + d]
    <3>1. /\ Len(SubSeq(s, d + 1, Len(s))) = Len(s) - d
          /\ \A i \in 1..(Len(s) - d) : SubSeq(s, d + 1, Len(s))[i] = s[d + 1 + i - 1]
      BY <1>1, <2>1, <2>2, <2>3, SubSeqProperties, RingCapAssumption
    <3>2. \A i \in 1..(Len(s) - d) : d + 1 + i - 1 = i + d
      BY <2>1, <2>2
    <3>3. QED
      BY <1>1, <3>1, <3>2 DEF Newest
  <2>5. \A i \in 1..(Len(s) - d) : i + d \in 1..Len(s)
    BY <2>1, <2>2
  <2>6. QED
    <3> HIDE DEF d
    <3> QED BY <2>4, <2>5 DEF Holds
<1>2. CASE ~(Len(s) > RingCap)
  BY <1>2 DEF Newest
<1>3. QED
  BY <1>1, <1>2

LEMMA EmptyHolds == \A kinds : ~Holds(<<>>, kinds)
BY DEF Holds

\* What a queueing does: one run, new until then, is owed as well.
LEMMA QueueSteps ==
  ASSUME Typed, JobsAreQueued, Queue
  PROVE  JobsAreQueued' /\ \E r \in Runs : Owed' = Owed \cup {r}
                        /\ \A q \in Runs : fate'[q] = "failing" => fate[q] = "failing"
<1>1. fate \in [Runs -> Fates] /\ jobs \in Seq(Runs)
  BY DEF Typed, RunTyped
<1>2. PICK r \in Runs : /\ fate[r] = "new" /\ fate' = [fate EXCEPT ![r] = "queued"]
                        /\ jobs' = Append(jobs, r)
  BY DEF Queue
<1>3. /\ Len(jobs) \in Nat /\ Len(jobs') = Len(jobs) + 1
      /\ \A i \in 1..Len(jobs) : jobs'[i] = jobs[i] /\ jobs[i] \in Runs
      /\ jobs'[Len(jobs) + 1] = r
  BY <1>1, <1>2, AppendProperties, LenProperties, ElementOfSeq
<1>4. \A i \in 1..(Len(jobs) + 1) : i \in 1..Len(jobs) \/ i = Len(jobs) + 1
  BY <1>3
<1>5. \A q \in Runs : fate'[q] = IF q = r THEN "queued" ELSE fate[q]
  BY <1>1, <1>2
<1>6. \A i \in 1..Len(jobs) : jobs[i] # r
  BY <1>2 DEF JobsAreQueued
<1>7. JobsAreQueued'
  BY <1>3, <1>4, <1>5, <1>6 DEF JobsAreQueued
<1>8. Owed' = Owed \cup {r}
  BY <1>5 DEF Owed
<1>9. QED
  BY <1>5, <1>7, <1>8

LEMMA JobsStep ==
  ASSUME Typed, JobsAreQueued, Next
  PROVE  JobsAreQueued'
<1>0. fate \in [Runs -> Fates] /\ jobs \in Seq(Runs) /\ InRun
  BY DEF Typed, RunTyped
<1>1. CASE Queue
  BY <1>1, QueueSteps
<1>2. CASE StartRun
  <2>1. /\ jobs # <<>> /\ jobs' = Tail(jobs)
        /\ fate' = [fate EXCEPT ![Head(jobs)] = "running"]
    BY <1>2 DEF StartRun
  <2>2. /\ Len(jobs) \in Nat /\ Len(jobs) > 0 /\ Head(jobs) = jobs[1]
        /\ Len(jobs') = Len(jobs) - 1
        /\ \A i \in 1..(Len(jobs) - 1) : jobs'[i] = jobs[i + 1]
    BY <1>0, <2>1, HeadTailProperties, LenProperties, EmptySeq
  <2>3. \A i \in 1..(Len(jobs) - 1) : i + 1 \in 1..Len(jobs) /\ i + 1 # 1
    BY <2>2
  <2>4. 1 \in 1..Len(jobs)
    BY <2>2
  <2>5. \A i \in 1..(Len(jobs) - 1) : jobs[i + 1] # jobs[1] /\ jobs[i + 1] \in Runs
    BY <1>0, <2>3, <2>4, ElementOfSeq DEF JobsAreQueued
  <2>6. \A i \in 1..(Len(jobs) - 1) : fate'[jobs'[i]] = "queued"
    BY <1>0, <2>1, <2>2, <2>3, <2>5 DEF JobsAreQueued
  <2>7. ASSUME NEW i \in 1..(Len(jobs) - 1), NEW j \in 1..(Len(jobs) - 1), jobs'[i] = jobs'[j]
        PROVE  i = j
    <3>1. jobs[i + 1] = jobs[j + 1] /\ i + 1 \in 1..Len(jobs) /\ j + 1 \in 1..Len(jobs)
      BY <2>2, <2>3, <2>7
    <3>2. i + 1 = j + 1
      BY <3>1 DEF JobsAreQueued
    <3>3. QED
      BY <2>2, <3>2
  <2>8. QED
    BY <2>2, <2>6, <2>7 DEF JobsAreQueued
<1>3. CASE FailRun \/ FinishRun \/ LateStop
  <2> DEFINE c == Current
  <2>1. turn = "run" /\ jobs' = jobs
    BY <1>0, <1>3 DEF FailRun, FinishRun, LateStop, InRun
  <2>2. c \in Runs /\ fate[c] \in {"running", "failing"}
    BY <1>0, <2>1, CurrentIsRun
  <2>3. \A r \in Runs : r # c => fate'[r] = fate[r]
    <3>1. \E x : fate' = [fate EXCEPT ![c] = x]
      BY <1>3 DEF FailRun, FinishRun, LateStop
    <3>2. QED
      <4> HIDE DEF c
      <4> QED BY <1>0, <3>1
  <2>4. \A i \in 1..Len(jobs) : jobs[i] \in Runs /\ jobs[i] # c
    <3> HIDE DEF c
    <3> QED BY <1>0, <2>2, ElementOfSeq DEF JobsAreQueued
  <2>5. QED
    <3> HIDE DEF c
    <3> QED BY <2>1, <2>3, <2>4 DEF JobsAreQueued
<1>4. CASE ClearHistory
  BY <1>4 DEF ClearHistory, JobsAreQueued
<1>5. CASE UNCHANGED <<fate, jobs>>
  BY <1>5 DEF JobsAreQueued
<1>6. QED
  BY <1>1, <1>2, <1>3, <1>4, <1>5
  DEF Next, Dispatch, Fold, ArmInVain, ReleaseRun, Bind, Say, FlowBreak, FollowUp,
      Join, Absorb, SendDone, Leave, TaskDone, ClearInflight, runVars

\* What an ExpectRun does to the tasks.
LEMMA ExpectSteps ==
  ASSUME FwdTyped, ExpectRun
  PROVE  /\ pending' = pending + 1
         /\ \/ UNCHANGED <<pc, inflight>>
            \/ \E f \in Forwarders :
                 /\ pc[f] = "free" /\ inflight' = f
                 /\ pc' = [pc EXCEPT ![f] = "spawned"]
BY DEF ExpectRun, Spawn, Free

LEMMA NoMailStep ==
  ASSUME Typed, NoMail, Next
  PROVE  NoMail'
<1>0. pc \in [Forwarders -> Places] /\ FwdTyped /\ mail \in [Forwarders -> Seq(Frames)]
      /\ subs \subseteq Forwarders
  BY DEF Typed, FwdTyped, BusTyped, Forwarders
<1>1. CASE ExpectRun /\ UNCHANGED <<mail, subs>>
  BY <1>0, <1>1, ExpectSteps DEF NoMail
<1>2. CASE UNCHANGED <<pc, mail>> /\ subs' \subseteq subs
  BY <1>2 DEF NoMail
<1>3. CASE ReleaseRun
  <2>1. UNCHANGED <<mail, subs>> /\ (pc' = pc \/ pc' = [pc EXCEPT ![inflight] = "cancelled"])
    BY <1>3 DEF ReleaseRun, busVars
  <2>2. QED
    BY <1>0, <2>1 DEF NoMail
<1>4. ASSUME NEW m, mail' = FannedOut(m), UNCHANGED <<pc, subs>>
      PROVE  NoMail'
  BY <1>0, <1>4 DEF NoMail, FannedOut, Forwarders
<1>5. ASSUME NEW f \in Forwarders, Join(f)
      PROVE  NoMail'
  BY <1>0, <1>5 DEF Join, Subscribe, NoMail
<1>6. ASSUME NEW f \in Forwarders, Absorb(f)
      PROVE  NoMail'
  <2>1. /\ pc[f] = "recv" /\ subs' = subs
        /\ \A g \in Forwarders : g # f => pc'[g] = pc[g] /\ mail'[g] = mail[g]
        /\ pc'[f] \in {"recv", "send", "last"}
    BY <1>0, <1>6 DEF Absorb, Pop, AbsorbText, AbsorbBreak, AbsorbComplete, AbsorbError
  <2>2. QED
    BY <2>1 DEF NoMail
<1>7. ASSUME NEW f \in Forwarders, SendDone(f)
      PROVE  NoMail'
  BY <1>0, <1>7 DEF SendDone, NoMail, busVars
<1>8. ASSUME NEW f \in Forwarders, Leave(f)
      PROVE  NoMail'
  BY <1>0, <1>8 DEF Leave, Unsubscribe, NoMail
<1>9. ASSUME NEW f \in Forwarders, TaskDone(f)
      PROVE  NoMail'
  BY <1>0, <1>9 DEF TaskDone, NoMail, busVars
<1>10. ASSUME NEW f \in Forwarders, ClearInflight(f)
       PROVE  NoMail'
  <2>1. pc[f] = "done" /\ UNCHANGED <<mail, subs>>
    BY <1>10 DEF ClearInflight, busVars
  <2>2. \/ pc' = [pc EXCEPT ![f] = "free"]
        \/ \E g \in Forwarders : pc[g] = "free" /\ pc' = [pc EXCEPT ![f] = "free", ![g] = "spawned"]
    BY <1>10 DEF ClearInflight, Free
  <2>3. QED
    BY <1>0, <2>1, <2>2 DEF NoMail
<1>11. QED
  BY <1>1, <1>2, <1>3, <1>4, <1>5, <1>6, <1>7, <1>8, <1>9, <1>10
  DEF Next, Dispatch, Fold, ArmInVain, StartRun, Bind, Say, FlowBreak, FailRun, FinishRun,
      LateStop, FollowUp, ClearHistory, StartStream, EndStream, Discard, Publish, PublishLast,
      busVars, fwdVars

\* What a fan-out adds to a client's mail.
LEMMA FanOutHolds ==
  ASSUME Typed, NEW r \in Runs, NEW kind \in Kinds, mail' = FannedOut(Frame(r, kind)),
         NEW f \in Forwarders, NEW kinds
  PROVE  Holds(mail'[f], kinds) => Holds(mail[f], kinds) \/ kind \in kinds
<1>1. Frame(r, kind) \in Frames /\ Frame(r, kind).kind = kind /\ mail[f] \in Seq(Frames)
  BY FrameTyped DEF Typed, BusTyped, Forwarders, Frame
<1>2. mail'[f] = mail[f] \/ mail'[f] = Append(mail[f], Frame(r, kind))
  BY DEF FannedOut, Forwarders
<1>3. QED
  BY <1>1, <1>2, AppendHolds

\* What a forwarder does with one frame.
LEMMA AbsorbSteps ==
  ASSUME Typed, NEW f \in Forwarders, Absorb(f)
  PROVE  /\ \A g \in Forwarders : g # f => pc'[g] = pc[g] /\ mail'[g] = mail[g]
         /\ \A kinds : Holds(mail'[f], kinds) => Holds(mail[f], kinds)
         /\ \/ pc'[f] \in {"recv", "send"}
            \/ pc'[f] = "last" /\ Holds(mail[f], {"complete", "error"})
<1>1. /\ mail[f] \in Seq(Frames) /\ mail[f] # <<>> /\ pc \in [Forwarders -> Places]
      /\ mail \in [Forwarders -> Seq(Frames)]
  BY DEF Typed, BusTyped, FwdTyped, Forwarders, Absorb
<1>2. mail' = [mail EXCEPT ![f] = Tail(@)]
  BY DEF Absorb, Pop
<1>3. \A kinds : Holds(mail'[f], kinds) => Holds(mail[f], kinds)
  BY <1>1, <1>2, TailHolds
<1>4. /\ \A g \in Forwarders : g # f => pc'[g] = pc[g]
      /\ \/ pc'[f] \in {"recv", "send"}
         \/ pc'[f] = "last" /\ Head(mail[f]).kind \in {"complete", "error"}
  BY <1>1 DEF Absorb, AbsorbText, AbsorbBreak, AbsorbComplete, AbsorbError
<1>5. QED
  BY <1>1, <1>2, <1>3, <1>4, TailHolds

LEMMA CleanStep ==
  ASSUME Typed, JobsAreQueued, NoMail, ArmedCounted, CleanState, Next
  PROVE  CleanState'
<1> SUFFICES ASSUME Clean'
             PROVE  /\ \A r \in Runs : fate'[r] # "failing"
                    /\ \A f \in Forwarders : pc'[f] # "cancelled" /\ ~Holds(mail'[f], {"error"})
                    /\ ~Holds(ring', {"complete", "error"})
  BY DEF CleanState
<1>0. /\ Clean /\ \A r \in Runs : fate[r] # "failing"
      /\ \A f \in Forwarders : pc[f] # "cancelled" /\ ~Holds(mail[f], {"error"})
      /\ ~Holds(ring, {"complete", "error"})
  BY CleanBefore DEF CleanState
<1>t. /\ pc \in [Forwarders -> Places] /\ FwdTyped /\ mail \in [Forwarders -> Seq(Frames)]
      /\ ring \in Seq(Frames) /\ fate \in [Runs -> Fates] /\ spent \in [Faults -> Nat] /\ InRun
  BY DEF Typed, BusTyped, RunTyped, FwdTyped, RestTyped, Forwarders
<1>a. ExpectRun => \A f \in Forwarders : pc'[f] # "cancelled"
  BY <1>0, <1>t, ExpectSteps
<1>1. CASE Dispatch \/ FollowUp
  BY <1>0, <1>1, <1>a, QueueSteps DEF Dispatch, FollowUp, busVars
<1>2. CASE Fold
  BY <1>0, <1>2, <1>a DEF Fold, busVars, fwdVars
<1>3. CASE ArmInVain
  BY <1>0, <1>3, <1>a DEF ArmInVain, busVars, runVars
<1>4. CASE FailRun
  <2>1. spent'["fail"] # 0
    BY <1>t, <1>4, Spending DEF FailRun, Faults
  <2>2. QED
    BY <2>1 DEF Clean
<1>r. CASE ReleaseRun
  BY <1>r DEF ReleaseRun, ArmedCounted, Clean
<1>5. CASE StartRun
  <2>1. \A r \in Runs : fate'[r] # "failing"
    BY <1>0, <1>t, <1>5 DEF StartRun
  <2>2. QED
    BY <1>0, <1>5, <2>1, EmptyHolds DEF StartRun, StartStream, fwdVars
<1>6. CASE Bind
  BY <1>0, <1>6 DEF Bind, busVars, fwdVars
<1>7. CASE Say \/ FlowBreak
  <2>1. Current \in Runs
    BY <1>t, <1>7, CurrentIsRun DEF Say, FlowBreak, InRun
  <2>2. PICK kind \in {"text", "flow_break"} : Publish(Current, kind)
    BY <1>7 DEF Say, FlowBreak
  <2>3. kind \in Kinds
    BY DEF Kinds
  <2>4. \A f \in Forwarders : ~Holds(mail'[f], {"error"})
    BY <1>0, <2>1, <2>2, <2>3, FanOutHolds DEF Publish
  <2>5. ~Holds(ring', {"complete", "error"})
    <3> DEFINE m == Frame(Current, kind)
    <3>1. m \in Frames /\ m.kind = kind /\ Append(ring, m) \in Seq(Frames)
      BY <1>t, <2>1, <2>3, FrameTyped, AppendProperties DEF Typed, Frame
    <3>2. ~Holds(Append(ring, m), {"complete", "error"})
      <4> HIDE DEF m
      <4> QED BY <1>0, <1>t, <3>1, AppendHolds
    <3>3. ring' = Newest(Append(ring, m))
      BY <2>2 DEF Publish
    <3>4. QED
      <4> HIDE DEF m
      <4> QED BY <3>1, <3>2, <3>3, NewestHolds
  <2>6. QED
    BY <1>0, <1>7, <2>4, <2>5 DEF Say, FlowBreak, fwdVars
<1>8. CASE FinishRun
  <2>1. Current \in Runs /\ fate[Current] = "running"
    BY <1>0, <1>t, <1>8, CurrentIsRun DEF FinishRun, InRun
  <2>2. /\ mail' = FannedOut(Frame(Current, "complete")) /\ ring' = <<>>
        /\ fate' = [fate EXCEPT ![Current] = IF @ = "failing" THEN "failed" ELSE "complete"]
        /\ UNCHANGED <<armed, pc>>
    BY <1>8 DEF FinishRun, PublishLast, fwdVars
  <2>3. \A f \in Forwarders : ~Holds(mail'[f], {"error"})
    BY <1>0, <2>1, <2>2, FanOutHolds DEF Kinds
  <2>4. \A r \in Runs : fate'[r] # "failing"
    <3> DEFINE c == Current
    <3>1. fate' = [fate EXCEPT ![c] = IF @ = "failing" THEN "failed" ELSE "complete"]
      BY <2>2
    <3>2. QED
      <4> HIDE DEF c
      <4> QED BY <1>0, <1>t, <3>1
  <2>5. QED
    BY <1>0, <2>2, <2>3, <2>4, EmptyHolds
<1>9. CASE LateStop
  <2>1. /\ fate' = [fate EXCEPT ![Current] = IF @ = "failing" THEN "failed" ELSE "stopped"]
        /\ UNCHANGED <<armed, pc, mail>> /\ ring' = <<>>
    BY <1>9 DEF LateStop, EndStream, fwdVars
  <2>2. \A r \in Runs : fate'[r] # "failing"
    <3> DEFINE c == Current
    <3>1. fate' = [fate EXCEPT ![c] = IF @ = "failing" THEN "failed" ELSE "stopped"]
      BY <2>1
    <3>2. QED
      <4> HIDE DEF c
      <4> QED BY <1>0, <1>t, <3>1
  <2>3. QED
    BY <1>0, <2>1, <2>2, EmptyHolds
<1>10. CASE ClearHistory
  BY <1>0, <1>10, EmptyHolds DEF ClearHistory, Discard, fwdVars
<1>11. ASSUME NEW f \in Forwarders, Join(f)
       PROVE  CleanState'
  <2>1. /\ pc' = [pc EXCEPT ![f] = "recv"] /\ mail' = [mail EXCEPT ![f] = ring]
        /\ UNCHANGED <<armed, fate, ring>>
    BY <1>11 DEF Join, Subscribe, runVars
  <2>2. ~Holds(ring, {"error"})
    BY <1>0 DEF Holds
  <2>3. QED
    BY <1>0, <1>t, <2>1, <2>2 DEF CleanState
<1>12. ASSUME NEW f \in Forwarders, Absorb(f)
       PROVE  CleanState'
  <2>1. UNCHANGED <<armed, fate, ring>>
    BY <1>12 DEF Absorb, Pop, runVars
  <2>2. \A g \in Forwarders : pc'[g] # "cancelled" /\ ~Holds(mail'[g], {"error"})
    BY <1>0, <1>12, AbsorbSteps
  <2>3. QED
    BY <1>0, <2>1, <2>2 DEF CleanState
<1>13. ASSUME NEW f \in Forwarders, SendDone(f) \/ TaskDone(f)
       PROVE  CleanState'
  BY <1>0, <1>t, <1>13 DEF SendDone, TaskDone, CleanState, busVars, runVars
<1>14. ASSUME NEW f \in Forwarders, Leave(f)
       PROVE  CleanState'
  BY <1>0, <1>t, <1>14, EmptyHolds DEF Leave, Unsubscribe, CleanState, runVars
<1>15. ASSUME NEW f \in Forwarders, ClearInflight(f)
       PROVE  CleanState'
  <2>1. \/ pc' = [pc EXCEPT ![f] = "free"]
        \/ \E g \in Forwarders : pc' = [pc EXCEPT ![f] = "free", ![g] = "spawned"]
    BY <1>15 DEF ClearInflight, Free
  <2>2. QED
    BY <1>0, <1>t, <1>15, <2>1 DEF ClearInflight, CleanState, busVars, runVars
<1>16. QED
  BY <1>1, <1>2, <1>3, <1>4, <1>r, <1>5, <1>6, <1>7, <1>8, <1>9, <1>10, <1>11, <1>12, <1>13,
     <1>14, <1>15 DEF Next, CleanState

\* Asking for a forwarder counts one more, and the one registered ends with nothing
\* it did not end with before.
LEMMA ExpectCounts ==
  ASSUME Typed, NoMail, ExpectRun, mail' = mail
  PROVE  /\ pending' = pending + 1
         /\ inflight' # None /\ Ending(inflight)' => inflight # None /\ Ending(inflight)
<1>1. FwdTyped /\ pc \in [Forwarders -> Places]
  BY DEF Typed, FwdTyped
<1>2. CASE UNCHANGED <<pc, inflight>>
  BY <1>1, <1>2, ExpectSteps DEF Ending
<1>3. ASSUME NEW f \in Forwarders, pc[f] = "free", inflight' = f,
             pc' = [pc EXCEPT ![f] = "spawned"]
      PROVE  ~(Ending(inflight)')
  <2>1. pc'[f] = "spawned" /\ mail'[f] = <<>>
    BY <1>1, <1>3 DEF NoMail
  <2>2. QED
    BY <1>3, <2>1, EmptyHolds DEF Ending
<1>4. QED
  BY <1>1, <1>2, <1>3, ExpectSteps

\* Nothing more is owed, and the registered forwarder has no new end before it.
LEMMA CountKept ==
  ASSUME Counted, Clean, Owed' \subseteq Owed, pending' = pending, inflight' = inflight,
         inflight # None /\ Ending(inflight)' => Ending(inflight), pending \in Nat,
         armed' = armed
  PROVE  /\ Cardinality(Owed') + Vain' <= pending'
         /\ inflight' # None /\ Ending(inflight)' => Cardinality(Owed') + 1 + Vain' <= pending'
<1>1. Cardinality(Owed') \in Nat /\ Cardinality(Owed') <= Cardinality(Owed)
  BY FiniteOwed
<1>2. Cardinality(Owed) \in Nat /\ Vain' = Vain /\ Vain \in {0, 1}
  BY FiniteOwed DEF Vain
<1>3. QED
  BY <1>1, <1>2 DEF Counted

LEMMA CountedStep ==
  ASSUME Typed, JobsAreQueued, NoMail, ArmedCounted, CleanState, Counted, Next
  PROVE  Counted'
<1> DEFINE Goal ==
      /\ Cardinality(Owed') + Vain' <= pending'
      /\ inflight' # None /\ Ending(inflight)' => Cardinality(Owed') + 1 + Vain' <= pending'
<1> SUFFICES ASSUME Clean' PROVE Goal
  BY DEF Counted
<1>0. /\ Clean /\ \A r \in Runs : fate[r] # "failing"
      /\ \A f \in Forwarders : pc[f] # "cancelled" /\ ~Holds(mail[f], {"error"})
      /\ ~Holds(ring, {"complete", "error"})
  BY CleanBefore DEF CleanState
<1>t. /\ pc \in [Forwarders -> Places] /\ FwdTyped /\ mail \in [Forwarders -> Seq(Frames)]
      /\ ring \in Seq(Frames) /\ fate \in [Runs -> Fates] /\ spent \in [Faults -> Nat] /\ InRun
      /\ pending \in Nat /\ jobs \in Seq(Runs) /\ inflight \in Forwarders \cup {None}
      /\ None \notin Forwarders
  BY TasksAssumption DEF Typed, BusTyped, RunTyped, FwdTyped, RestTyped, Forwarders, None
<1>n. Cardinality(Owed) \in Nat /\ Vain \in {0, 1}
  BY FiniteOwed DEF Vain
<1>v. armed' = armed => Vain' = Vain
  BY DEF Vain
<1>c. /\ Cardinality(Owed) + Vain <= pending
      /\ inflight # None /\ Ending(inflight) => Cardinality(Owed) + 1 + Vain <= pending
  BY <1>0 DEF Counted
<1>k. ASSUME Owed' \subseteq Owed, UNCHANGED <<pending, inflight, armed>>,
             inflight # None /\ Ending(inflight)' => Ending(inflight)
      PROVE  Goal
  BY <1>0, <1>t, <1>k, CountKept
<1>1. CASE Dispatch \/ FollowUp
  <2>1. ExpectRun /\ Queue /\ mail' = mail /\ armed' = armed
    BY <1>1 DEF Dispatch, FollowUp, busVars
  <2>2. PICK r \in Runs : Owed' = Owed \cup {r}
    BY <2>1, QueueSteps
  <2>3. Cardinality(Owed') <= Cardinality(Owed) + 1 /\ Cardinality(Owed') \in Nat
    BY <2>2, FiniteOwed
  <2>4. /\ pending' = pending + 1
        /\ inflight' # None /\ Ending(inflight)' => inflight # None /\ Ending(inflight)
    BY <2>1, ExpectCounts
  <2>5. QED
    BY <1>c, <1>n, <1>t, <1>v, <2>1, <2>3, <2>4
<1>2. CASE Fold
  <2>1. mail' = mail /\ Owed' = Owed /\ armed' = armed
    BY <1>2 DEF Fold, busVars, Owed
  <2>2. CASE UNCHANGED fwdVars
    BY <1>k, <2>1, <2>2 DEF fwdVars, Ending
  <2>3. CASE ExpectRun
    <3>1. /\ pending' = pending + 1
          /\ inflight' # None /\ Ending(inflight)' => inflight # None /\ Ending(inflight)
      BY <2>1, <2>3, ExpectCounts
    <3>2. QED
      BY <1>c, <1>n, <1>t, <1>v, <2>1, <3>1
  <2>4. QED
    BY <1>2, <2>2, <2>3 DEF Fold
<1>3. CASE ArmInVain
  <2>1. ExpectRun /\ mail' = mail /\ Owed' = Owed /\ ~armed /\ armed' = TRUE
    BY <1>3 DEF ArmInVain, busVars, runVars, Owed
  <2>2. /\ pending' = pending + 1
        /\ inflight' # None /\ Ending(inflight)' => inflight # None /\ Ending(inflight)
    BY <2>1, ExpectCounts
  <2>3. Vain = 0 /\ Vain' = 1
    BY <2>1 DEF Vain
  <2>4. QED
    BY <1>c, <1>n, <1>t, <2>1, <2>2, <2>3
<1>4. CASE FailRun
  <2>1. spent'["fail"] # 0
    BY <1>t, <1>4, Spending DEF FailRun, Faults
  <2>2. QED
    BY <2>1 DEF Clean
<1>r. CASE ReleaseRun
  BY <1>r DEF ReleaseRun, ArmedCounted, Clean
<1>5. CASE StartRun
  <2>1. Head(jobs) \in Runs /\ fate[Head(jobs)] = "queued"
    <3>1. /\ jobs # <<>> /\ Head(jobs) = jobs[1] /\ Len(jobs) \in Nat /\ Len(jobs) > 0
          /\ Head(jobs) \in Runs
      BY <1>t, <1>5, HeadTailProperties, LenProperties, EmptySeq DEF StartRun
    <3>2. 1 \in 1..Len(jobs)
      BY <3>1
    <3>3. QED
      BY <3>1, <3>2 DEF JobsAreQueued
  <2>2. Owed' = Owed
    <3> DEFINE h == Head(jobs)
    <3>1. fate' = [fate EXCEPT ![h] = "running"]
      BY <1>5 DEF StartRun
    <3>2. QED
      <4> HIDE DEF h
      <4> QED BY <1>t, <2>1, <3>1 DEF Owed, h
  <2>3. UNCHANGED <<pending, inflight, pc, mail, armed>>
    BY <1>5 DEF StartRun, StartStream, fwdVars
  <2>4. QED
    BY <1>k, <2>2, <2>3 DEF Ending
<1>6. CASE Bind
  BY <1>k, <1>6 DEF Bind, busVars, fwdVars, Ending, Owed
<1>7. CASE Say \/ FlowBreak
  <2>1. Current \in Runs
    BY <1>t, <1>7, CurrentIsRun DEF Say, FlowBreak, InRun
  <2>2. PICK kind \in {"text", "flow_break"} : mail' = FannedOut(Frame(Current, kind))
    BY <1>7 DEF Say, FlowBreak, Publish
  <2>3. UNCHANGED <<fate, pc, pending, inflight, armed>>
    BY <1>7 DEF Say, FlowBreak, fwdVars
  <2>4. kind \in Kinds /\ kind # "complete"
    BY DEF Kinds
  <2>5. \A f \in Forwarders : Holds(mail'[f], {"complete"}) => Holds(mail[f], {"complete"})
    BY <2>1, <2>2, <2>4, FanOutHolds
  <2>6. QED
    BY <1>k, <1>t, <2>3, <2>5 DEF Ending, Owed
<1>8. CASE FinishRun \/ LateStop
  <2> DEFINE c == Current
  <2>1. c \in Runs /\ fate[c] = "running"
    BY <1>0, <1>t, <1>8, CurrentIsRun DEF FinishRun, LateStop, InRun
  <2>2. PICK x \in {"complete", "failed", "stopped"} : fate' = [fate EXCEPT ![c] = x]
    <3> HIDE DEF c
    <3> QED BY <1>8, <2>1 DEF FinishRun, LateStop, c
  <2>3. c \in Owed /\ Owed' = Owed \ {c}
    <3> HIDE DEF c
    <3> QED BY <1>t, <2>1, <2>2 DEF Owed
  <2>4. Cardinality(Owed') = Cardinality(Owed) - 1
    <3> HIDE DEF c
    <3> QED BY <2>3, FiniteOwed
  <2>5. UNCHANGED <<pending, inflight, armed>>
    BY <1>8 DEF FinishRun, LateStop, fwdVars
  <2>6. QED
    BY <1>c, <1>n, <1>t, <1>v, <2>4, <2>5
<1>9. CASE ClearHistory
  <2>1. UNCHANGED <<pending, inflight, pc, mail, armed>>
    BY <1>9 DEF ClearHistory, Discard, fwdVars
  <2>2. Owed' \subseteq Owed
    BY <1>9 DEF ClearHistory, Owed
  <2>3. QED
    BY <1>k, <2>1, <2>2 DEF Ending
<1>10. ASSUME NEW f \in Forwarders, Join(f)
       PROVE  Goal
  <2>1. /\ pc' = [pc EXCEPT ![f] = "recv"] /\ mail' = [mail EXCEPT ![f] = ring]
        /\ UNCHANGED <<pending, inflight, fate, armed>>
    BY <1>10 DEF Join, Subscribe, runVars
  <2>2. ~Holds(ring, {"complete"})
    BY <1>0 DEF Holds
  <2>3. inflight # None /\ Ending(inflight)' => Ending(inflight)
    BY <1>t, <2>1, <2>2 DEF Ending
  <2>4. QED
    BY <1>k, <2>1, <2>3 DEF Owed
<1>11. ASSUME NEW f \in Forwarders, Absorb(f)
       PROVE  Goal
  <2>1. UNCHANGED <<pending, inflight, fate, armed>>
    BY <1>11 DEF Absorb, runVars
  <2>2. Holds(mail[f], {"complete", "error"}) => Holds(mail[f], {"complete"})
    BY <1>0 DEF Holds
  <2>3. inflight # None /\ Ending(inflight)' => Ending(inflight)
    BY <1>t, <1>11, <2>1, <2>2, AbsorbSteps DEF Ending
  <2>4. QED
    BY <1>k, <2>1, <2>3 DEF Owed
<1>12. ASSUME NEW f \in Forwarders, SendDone(f) \/ Leave(f) \/ TaskDone(f)
       PROVE  Goal
  <2>1. UNCHANGED <<pending, inflight, fate, armed>>
    BY <1>12 DEF SendDone, Leave, TaskDone, runVars
  <2>2. /\ \A g \in Forwarders : g # f => pc'[g] = pc[g] /\ mail'[g] = mail[g]
        /\ pc'[f] \in {"closing", "done"} => pc[f] \in {"last", "closing"}
        /\ pc'[f] \in {"recv", "closing", "done"}
        /\ mail'[f] = mail[f] \/ mail'[f] = <<>>
    BY <1>0, <1>t, <1>12 DEF SendDone, Leave, TaskDone, Unsubscribe, busVars
  <2>3. inflight # None /\ Ending(inflight)' => Ending(inflight)
    BY <1>t, <2>1, <2>2, EmptyHolds DEF Ending
  <2>4. QED
    BY <1>k, <2>1, <2>3 DEF Owed
<1>13. ASSUME NEW f \in Forwarders, ClearInflight(f)
       PROVE  Goal
  <2>1. pc[f] = "done" /\ UNCHANGED <<fate, mail, armed>> /\ Owed' = Owed
    BY <1>13 DEF ClearInflight, runVars, busVars, Owed
  <2>2. CASE inflight # f
    <3>1. pc' = [pc EXCEPT ![f] = "free"] /\ UNCHANGED <<pending, inflight>>
      BY <1>13, <2>2 DEF ClearInflight
    <3>2. QED
      BY <1>k, <1>t, <2>1, <2>2, <3>1 DEF Ending
  <2>3. CASE inflight = f /\ pending > 1
    <3>1. Cardinality(Owed) + 1 + Vain <= pending
      BY <1>c, <1>t, <2>1, <2>3 DEF Ending
    <3>2. PICK g \in Forwarders : /\ pc[g] = "free" /\ inflight' = g
                                  /\ pc' = [pc EXCEPT ![f] = "free", ![g] = "spawned"]
      BY <1>13, <2>3 DEF ClearInflight, Free
    <3>3. ~(Ending(inflight)')
      <4>1. pc'[g] = "spawned" /\ mail'[g] = <<>>
        BY <1>t, <2>1, <3>2 DEF NoMail
      <4>2. QED
        BY <3>2, <4>1, EmptyHolds DEF Ending
    <3>4. pending' = pending - 1
      BY <1>13, <2>3 DEF ClearInflight
    <3>5. QED
      BY <1>n, <1>t, <1>v, <2>1, <3>1, <3>3, <3>4
  <2>4. CASE inflight = f /\ ~(pending > 1)
    <3>1. Cardinality(Owed) + 1 + Vain <= pending
      BY <1>c, <1>t, <2>1, <2>4 DEF Ending
    <3>2. pending' = 0 /\ inflight' = None
      BY <1>13, <2>4 DEF ClearInflight
    <3>3. QED
      BY <1>n, <1>t, <1>v, <2>1, <2>4, <3>1, <3>2
  <2>5. QED
    BY <2>2, <2>3, <2>4
<1>14. QED
  BY <1>1, <1>2, <1>3, <1>4, <1>r, <1>5, <1>6, <1>7, <1>8, <1>9, <1>10, <1>11, <1>12, <1>13
  DEF Next

LEMMA ChainInit == Init => ChainInv
<1> SUFFICES ASSUME Init PROVE ChainInv
  OBVIOUS
<1>1. Owed = {}
  BY DEF Init, Owed
<1>2. Counted /\ ArmedCounted
  BY <1>1, FS_EmptySet DEF Init, Counted, ArmedCounted, Vain
<1>3. JobsAreQueued
  BY DEF Init, JobsAreQueued
<1>4. NoMail
  BY DEF Init, InitBus, NoMail, Forwarders
<1>5. CleanState
  BY EmptyHolds DEF Init, InitBus, CleanState, Forwarders
<1>6. QED
  BY <1>2, <1>3, <1>4, <1>5 DEF ChainInv

LEMMA ChainHolds == Spec => []ChainInv
<1>1. ASSUME Typed, ChainInv, Next PROVE ChainInv'
  BY <1>1, JobsStep, NoMailStep, ArmedStep, CleanStep, CountedStep DEF ChainInv
<1>2. ASSUME ChainInv, UNCHANGED vars PROVE ChainInv'
  BY <1>2 DEF ChainInv, JobsAreQueued, NoMail, ArmedCounted, CleanState, Counted, Clean,
              Vain, Ending, Owed, Holds, vars, busVars, runVars, fwdVars
<1>3. QED
  BY ChainInit, <1>1, <1>2, TypedHolds, PTL DEF Spec

\* The chain of forwarders does not stop short: while no run has failed and none was
\* armed in vain, the count covers every run still to come, and one more when the
\* forwarder registered is about to be counted off (_expect_run, _clear_inflight).
THEOREM ChainIsLongEnough == Spec => []ChainReaches
<1>1. ChainInv => ChainReaches
  BY FiniteOwed DEF ChainInv, ArmedCounted, Counted, Clean, Vain, ChainReaches
<1>2. QED
  BY ChainHolds, <1>1, PTL

-----------------------------------------------------------------------------
(* Frames in a sequence                                                    *)

LEMMA InSeq ==
  ASSUME NEW S, NEW s \in Seq(S)
  PROVE  /\ ToSet(s) = {s[i] : i \in 1..Len(s)} /\ ToSet(s) \subseteq S
         /\ DOMAIN s = 1..Len(s) /\ Len(s) \in Nat
         /\ \A i \in 1..Len(s) : s[i] \in ToSet(s)
<1>1. DOMAIN s = 1..Len(s) /\ Len(s) \in Nat
  BY LenProperties
<1>2. \A i \in 1..Len(s) : s[i] \in S
  BY ElementOfSeq
<1>3. QED
  BY <1>1, <1>2 DEF ToSet

LEMMA InEmpty == ToSet(<<>>) = {}
<1>1. DOMAIN <<>> = {}
  OBVIOUS
<1>2. QED
  BY <1>1 DEF ToSet

LEMMA InAppend ==
  ASSUME NEW S, NEW s \in Seq(S), NEW m \in S
  PROVE  /\ ToSet(Append(s, m)) = ToSet(s) \cup {m}
         /\ Append(s, m) \in Seq(S) /\ Len(Append(s, m)) = Len(s) + 1
         /\ \A i \in 1..Len(s) : Append(s, m)[i] = s[i]
         /\ Append(s, m)[Len(s) + 1] = m
<1>1. /\ Append(s, m) \in Seq(S) /\ Len(Append(s, m)) = Len(s) + 1 /\ Len(s) \in Nat
      /\ \A i \in 1..Len(s) : Append(s, m)[i] = s[i]
      /\ Append(s, m)[Len(s) + 1] = m
  BY AppendProperties, LenProperties
<1>2. 1..(Len(s) + 1) = 1..Len(s) \cup {Len(s) + 1}
  BY <1>1
<1>3. /\ ToSet(Append(s, m)) = {Append(s, m)[i] : i \in 1..(Len(s) + 1)}
      /\ ToSet(s) = {s[i] : i \in 1..Len(s)}
  BY <1>1, InSeq
<1>4. QED
  BY <1>1, <1>2, <1>3

LEMMA InTail ==
  ASSUME NEW S, NEW s \in Seq(S), s # <<>>
  PROVE  /\ ToSet(s) = {Head(s)} \cup ToSet(Tail(s)) /\ Head(s) = s[1]
         /\ Tail(s) \in Seq(S) /\ Len(s) \in Nat \ {0} /\ Len(Tail(s)) = Len(s) - 1
         /\ \A i \in 1..Len(Tail(s)) : Tail(s)[i] = s[i + 1]
<1>1. /\ Len(s) \in Nat /\ Len(s) > 0 /\ Len(Tail(s)) = Len(s) - 1 /\ Head(s) = s[1]
      /\ \A i \in 1..Len(Tail(s)) : Tail(s)[i] = s[i + 1]
      /\ Tail(s) \in Seq(S)
  BY HeadTailProperties, EmptySeq, LenProperties
<1>2. /\ \A i \in 1..(Len(s) - 1) : i + 1 \in 1..Len(s)
      /\ \A j \in 1..Len(s) : j # 1 => j - 1 \in 1..(Len(s) - 1) /\ (j - 1) + 1 = j
      /\ 1 \in 1..Len(s)
  BY <1>1
<1>3. /\ ToSet(Tail(s)) = {Tail(s)[i] : i \in 1..Len(Tail(s))}
      /\ ToSet(s) = {s[i] : i \in 1..Len(s)}
  BY <1>1, InSeq
<1>4. ToSet(Tail(s)) \subseteq ToSet(s) /\ Head(s) \in ToSet(s)
  BY <1>1, <1>2, <1>3
<1>5. ASSUME NEW j \in 1..Len(s), j # 1 PROVE s[j] \in ToSet(Tail(s))
  <2>1. /\ j - 1 \in 1..Len(Tail(s)) /\ Tail(s)[j - 1] = s[(j - 1) + 1]
        /\ (j - 1) + 1 = j
    BY <1>1, <1>2, <1>5
  <2>2. QED
    BY <1>3, <2>1
<1>6. QED
  BY <1>1, <1>3, <1>4, <1>5

\* What the ring keeps of a sequence is its end.
LEMMA InNewest ==
  ASSUME NEW s \in Seq(Frames)
  PROVE  \E d \in Nat :
           /\ d + Len(Newest(s)) = Len(s) /\ Newest(s) \in Seq(Frames)
           /\ \A i \in 1..Len(Newest(s)) : Newest(s)[i] = s[i + d] /\ i + d \in 1..Len(s)
           /\ ToSet(Newest(s)) \subseteq ToSet(s)
           /\ Len(Newest(s)) < RingCap => Newest(s) = s
           /\ Len(s) > 0 => Len(Newest(s)) > 0
<1>0. Len(s) \in Nat /\ RingCap \in Nat \ {0}
  BY LenProperties, RingCapAssumption
<1>1. CASE Len(s) > RingCap
  <2> DEFINE d == Len(s) - RingCap
  <2>1. d \in Nat /\ d + 1 \in 1..Len(s)+1
    BY <1>0, <1>1
  <2>2. \A i \in (d + 1)..Len(s) : s[i] \in Frames
    BY <1>0, <2>1, ElementOfSeq
  <2>3. /\ Len(SubSeq(s, d + 1, Len(s))) = Len(s) - d
        /\ \A i \in 1..(Len(s) - d) : SubSeq(s, d + 1, Len(s))[i] = s[d + 1 + i - 1]
    BY <1>0, <1>1, <2>1, <2>2, SubSeqProperties
  <2>4. \A i \in 1..(Len(s) - d) : d + 1 + i - 1 = i + d /\ i + d \in 1..Len(s)
    BY <1>0, <2>1
  <2>5. /\ Len(Newest(s)) = Len(s) - d
        /\ \A i \in 1..Len(Newest(s)) : Newest(s)[i] = s[i + d] /\ i + d \in 1..Len(s)
    BY <1>1, <2>3, <2>4 DEF Newest
  <2>6. Newest(s) \in Seq(Frames)
    BY NewestTyped
  <2>7. ToSet(Newest(s)) \subseteq ToSet(s)
    <3> HIDE DEF d
    <3> QED BY <2>5, <2>6, InSeq
  <2>8. d + Len(Newest(s)) = Len(s) /\ ~(Len(Newest(s)) < RingCap) /\ Len(Newest(s)) > 0
    BY <1>0, <1>1, <2>5
  <2>9. QED
    <3> HIDE DEF d
    <3> QED BY <2>1, <2>5, <2>6, <2>7, <2>8
<1>2. CASE ~(Len(s) > RingCap)
  <2>1. Newest(s) = s
    BY <1>2 DEF Newest
  <2>2. 0 \in Nat /\ 0 + Len(s) = Len(s) /\ \A i \in 1..Len(s) : i + 0 = i
    BY <1>0
  <2>3. QED
    BY <2>1, <2>2
<1>3. QED
  BY <1>1, <1>2

\* a comes before b: it is an earlier run's, or was said earlier in the run, or the run
\* is one of F, those that failed.
Follows(a, b, F) ==
  a.run < b.run \/ (a.run = b.run /\ (a.seq < b.seq \/ a.run \in F))

InLine(s, F) == \A i, j \in 1..Len(s) : i < j => Follows(s[i], s[j], F)

AllBefore(S, T, F) == \A a \in S, b \in T : Follows(a, b, F)

LEMMA LineAppend ==
  ASSUME NEW F, NEW s \in Seq(Frames), NEW m \in Frames, InLine(s, F), AllBefore(ToSet(s), {m}, F)
  PROVE  InLine(Append(s, m), F)
<1> DEFINE t == Append(s, m)
<1>1. /\ Len(s) \in Nat /\ Len(t) = Len(s) + 1 /\ \A i \in 1..Len(s) : t[i] = s[i]
      /\ t[Len(s) + 1] = m
  BY InAppend, LenProperties
<1>2. \A i \in 1..Len(s) : s[i] \in ToSet(s)
  BY InSeq
<1>3. \A i, j \in 1..Len(t) : i < j => i \in 1..Len(s) /\ (j \in 1..Len(s) \/ j = Len(s) + 1)
  BY <1>1
<1> HIDE DEF t
<1>4. QED
  <2>1. ASSUME NEW i \in 1..Len(t), NEW j \in 1..Len(t), i < j PROVE Follows(t[i], t[j], F)
    <3>1. i \in 1..Len(s) /\ (j \in 1..Len(s) \/ j = Len(s) + 1)
      BY <1>3, <2>1
    <3>2. CASE j \in 1..Len(s)
      BY <1>1, <2>1, <3>1, <3>2 DEF InLine
    <3>3. CASE j = Len(s) + 1
      BY <1>1, <1>2, <3>1, <3>3 DEF AllBefore
    <3>4. QED
      BY <3>1, <3>2, <3>3
  <2>2. QED
    BY <2>1 DEF InLine, t

LEMMA LineTail ==
  ASSUME NEW F, NEW s \in Seq(Frames), s # <<>>, InLine(s, F)
  PROVE  InLine(Tail(s), F) /\ AllBefore({Head(s)}, ToSet(Tail(s)), F)
<1>1. /\ Head(s) = s[1] /\ Tail(s) \in Seq(Frames) /\ Len(s) \in Nat \ {0}
      /\ Len(Tail(s)) = Len(s) - 1 /\ \A i \in 1..Len(Tail(s)) : Tail(s)[i] = s[i + 1]
  BY InTail
<1>2. /\ \A i \in 1..Len(Tail(s)) : i + 1 \in 1..Len(s) /\ 1 < i + 1
      /\ \A i, j \in 1..Len(Tail(s)) : i < j => i + 1 < j + 1
      /\ 1 \in 1..Len(s)
  BY <1>1
<1>3. InLine(Tail(s), F)
  BY <1>1, <1>2 DEF InLine
<1>4. \A i \in 1..Len(Tail(s)) : Follows(Head(s), Tail(s)[i], F)
  BY <1>1, <1>2 DEF InLine
<1>5. ToSet(Tail(s)) = {Tail(s)[i] : i \in 1..Len(Tail(s))}
  BY <1>1, InSeq
<1>6. QED
  BY <1>3, <1>4, <1>5 DEF AllBefore

LEMMA LineNewest ==
  ASSUME NEW F, NEW s \in Seq(Frames), InLine(s, F)
  PROVE  InLine(Newest(s), F)
<1>1. PICK d \in Nat : /\ Newest(s) \in Seq(Frames)
                       /\ \A i \in 1..Len(Newest(s)) : Newest(s)[i] = s[i + d] /\ i + d \in 1..Len(s)
  BY InNewest
<1>2. Len(Newest(s)) \in Nat
  BY <1>1, LenProperties
<1>3. \A i, j \in 1..Len(Newest(s)) : i < j => i + d < j + d
  BY <1>2
<1>4. QED
  BY <1>1, <1>3 DEF InLine

\* Failing more runs disturbs no order.
LEMMA LineKept ==
  ASSUME NEW F, NEW G, F \subseteq G
  PROVE  /\ \A s : InLine(s, F) => InLine(s, G)
         /\ \A S, T : AllBefore(S, T, F) => AllBefore(S, T, G)
         /\ \A a, b : Follows(a, b, F) => Follows(a, b, G)
<1>1. \A a, b : Follows(a, b, F) => Follows(a, b, G)
  BY DEF Follows
<1>2. QED
  BY <1>1 DEF InLine, AllBefore

LEMMA LineEmpty == \A F : InLine(<<>>, F)
<1>1. Len(<<>>) = 0
  BY EmptySeq
<1>2. QED
  BY <1>1 DEF InLine

-----------------------------------------------------------------------------
(* The order of the runs                                                   *)

Unfinished == {"running", "failing"}
Started(r) == fate[r] \in {"running", "failing", "complete", "failed", "stopped"}

\* Runs start in the order they are queued, and none starts before the last has ended.
RunOrder ==
  /\ \A c, r \in Runs : fate[c] \in Unfinished /\ Started(r) => r <= c
  /\ \A c \in Runs : fate[c] \in Unfinished => turn = "run"
  /\ \A q, r \in Runs : q < r /\ fate[q] = "new" => fate[r] = "new"
  /\ \A i, j \in 1..Len(jobs) : i < j => jobs[i] < jobs[j]
  /\ \A i \in 1..Len(jobs), r \in Runs : Started(r) => r < jobs[i]

Settled == Typed /\ OneLive /\ JobsAreQueued /\ NoMail /\ RunOrder

\* What a step may do to a run's fate.
LEMMA FateSteps ==
  ASSUME Typed, JobsAreQueued, Next, NEW r \in Runs
  PROVE  \/ fate'[r] = fate[r]
         \/ ~Started(r) /\ ~Started(r)'
         \/ StartRun /\ r = Head(jobs) /\ fate[r] = "queued" /\ fate'[r] = "running"
         \/ fate[r] = "running" /\ fate'[r] \in {"failing", "complete", "stopped"}
         \/ fate[r] = "failing" /\ fate'[r] = "failed"
<1>0. fate \in [Runs -> Fates] /\ jobs \in Seq(Runs) /\ InRun
  BY DEF Typed, RunTyped
<1>1. CASE Queue
  BY <1>0, <1>1 DEF Queue, Started
<1>2. CASE StartRun
  <2>1. Head(jobs) \in Runs /\ fate[Head(jobs)] = "queued"
    BY <1>0, <1>2, InTail DEF StartRun, JobsAreQueued
  <2>2. QED
    <3> DEFINE h == Head(jobs)
    <3>1. fate' = [fate EXCEPT ![h] = "running"] /\ fate[h] = "queued"
      BY <1>2, <2>1 DEF StartRun
    <3>2. fate'[r] = fate[r] \/ (r = h /\ fate'[r] = "running" /\ fate[r] = "queued")
      <4> HIDE DEF h
      <4> QED BY <1>0, <3>1
    <3>3. QED
      BY <1>2, <3>2
<1>3. CASE FailRun \/ FinishRun \/ LateStop
  <2> DEFINE c == Current
  <2>1. c \in Runs /\ fate[c] \in {"running", "failing"}
    BY <1>0, <1>3, CurrentIsRun DEF FailRun, FinishRun, LateStop, InRun
  <2>2. \/ fate[c] = "running" /\ fate' = [fate EXCEPT ![c] = "failing"]
        \/ fate' = [fate EXCEPT ![c] = IF @ = "failing" THEN "failed" ELSE "complete"]
        \/ fate' = [fate EXCEPT ![c] = IF @ = "failing" THEN "failed" ELSE "stopped"]
    BY <1>3 DEF FailRun, FinishRun, LateStop
  <2>3. QED
    <3> HIDE DEF c
    <3> QED BY <1>0, <2>1, <2>2
<1>4. CASE ClearHistory
  BY <1>0, <1>4 DEF ClearHistory, Started
<1>5. CASE fate' = fate
  BY <1>5
<1>6. QED
  BY <1>1, <1>2, <1>3, <1>4, <1>5
  DEF Next, Dispatch, Fold, ArmInVain, ReleaseRun, Bind, Say, FlowBreak, FollowUp,
      Join, Absorb, SendDone, Leave, TaskDone, ClearInflight, runVars

LEMMA OneUnfinished ==
  ASSUME RunOrder, NEW q \in Runs, NEW r \in Runs,
         fate[q] \in Unfinished, fate[r] \in Unfinished
  PROVE  q = r
<1>1. q <= r /\ r <= q
  BY DEF RunOrder, Started, Unfinished
<1>2. QED
  BY <1>1 DEF Runs

\* Publishing is done by the one run that is not over.
LEMMA CurrentIsLast ==
  ASSUME Typed, RunOrder, turn = "run"
  PROVE  /\ Current \in Runs /\ fate[Current] \in Unfinished /\ Started(Current)
         /\ \A r \in Runs : Started(r) => r <= Current
         /\ \A r \in Runs : fate[r] \in Unfinished => r = Current
<1>1. Current \in Runs /\ fate[Current] \in Unfinished
  BY CurrentIsRun DEF Typed, Unfinished
<1>2. Started(Current) /\ \A r \in Runs : Started(r) => r <= Current
  BY <1>1 DEF Started, Unfinished, RunOrder
<1>3. \A r \in Runs : fate[r] \in Unfinished => r = Current
  BY <1>1, OneUnfinished
<1>4. QED
  BY <1>1, <1>2, <1>3

LEMMA QueueOrder ==
  ASSUME Typed, JobsAreQueued, RunOrder, Queue, turn = "run" => turn' = "run"
  PROVE  RunOrder'
<1>0. fate \in [Runs -> Fates] /\ jobs \in Seq(Runs)
  BY DEF Typed, RunTyped
<1>1. PICK n \in Runs : /\ fate[n] = "new" /\ \A q \in Runs : q < n => fate[q] # "new"
                        /\ fate' = [fate EXCEPT ![n] = "queued"]
                        /\ jobs' = Append(jobs, n)
  BY DEF Queue
<1>2. \A r \in Runs : fate'[r] = IF r = n THEN "queued" ELSE fate[r]
  BY <1>0, <1>1
<1>3. \A r \in Runs : fate[r] # "new" => r < n
  <2>1. \A r \in Runs : n < r => fate[r] = "new"
    BY <1>1 DEF RunOrder
  <2>2. QED
    BY <1>1, <2>1 DEF Runs
<1>4. /\ Len(jobs) \in Nat /\ Len(jobs') = Len(jobs) + 1
      /\ \A i \in 1..Len(jobs) : jobs'[i] = jobs[i] /\ jobs[i] \in Runs
      /\ jobs'[Len(jobs) + 1] = n
  BY <1>0, <1>1, InAppend, ElementOfSeq, LenProperties
<1>5. \A i \in 1..Len(jobs) : jobs[i] < n
  BY <1>3, <1>4 DEF JobsAreQueued
<1>6. \A i \in 1..Len(jobs') : i \in 1..Len(jobs) \/ i = Len(jobs) + 1
  BY <1>4
<1>7. \A r \in Runs : Started(r)' => Started(r) /\ r < n
  BY <1>2, <1>3 DEF Started
<1>8. \A q, r \in Runs : q < r /\ fate'[q] = "new" => fate'[r] = "new"
  <2>1. \A q, r \in Runs : q < r /\ fate'[q] = "new" => fate[r] = "new" /\ q # n
    BY <1>2 DEF RunOrder
  <2>2. \A q \in Runs : fate'[q] = "new" => ~(q < n)
    BY <1>1, <1>2
  <2>3. QED
    BY <1>2, <2>1, <2>2
<1>9. \A i, j \in 1..Len(jobs') : i < j => jobs'[i] < jobs'[j]
  <2>1. \A i, j \in 1..Len(jobs') : i < j => i \in 1..Len(jobs)
    BY <1>4
  <2>2. QED
    BY <1>4, <1>5, <1>6, <2>1 DEF RunOrder
<1>10. \A i \in 1..Len(jobs'), r \in Runs : Started(r)' => r < jobs'[i]
  BY <1>4, <1>6, <1>7 DEF RunOrder
<1>11. \A c, r \in Runs : fate'[c] \in Unfinished /\ Started(r)' => r <= c
  BY <1>2, <1>7 DEF RunOrder, Unfinished
<1>12. \A c \in Runs : fate'[c] \in Unfinished => turn' = "run"
  BY <1>2 DEF RunOrder, Unfinished
<1>13. QED
  BY <1>8, <1>9, <1>10, <1>11, <1>12 DEF RunOrder

LEMMA StartOrder ==
  ASSUME Typed, JobsAreQueued, RunOrder, StartRun
  PROVE  RunOrder'
<1>0. fate \in [Runs -> Fates] /\ jobs \in Seq(Runs)
  BY DEF Typed, RunTyped
<1> DEFINE h == Head(jobs)
<1>1. /\ turn = "idle" /\ jobs # <<>> /\ fate' = [fate EXCEPT ![h] = "running"]
      /\ jobs' = Tail(jobs) /\ turn' = "run"
  BY DEF StartRun
<1>2. /\ h = jobs[1] /\ Len(jobs) \in Nat \ {0} /\ Len(jobs') = Len(jobs) - 1
      /\ \A i \in 1..Len(jobs') : jobs'[i] = jobs[i + 1]
  BY <1>0, <1>1, InTail
<1>3. /\ 1 \in 1..Len(jobs)
      /\ \A i \in 1..Len(jobs') : i + 1 \in 1..Len(jobs) /\ 1 < i + 1
      /\ \A i, j \in 1..Len(jobs') : i < j => i + 1 < j + 1
  BY <1>2
<1>4. h \in Runs /\ fate[h] = "queued" /\ \A i \in 1..Len(jobs) : jobs[i] \in Runs
  BY <1>0, <1>2, <1>3, ElementOfSeq DEF JobsAreQueued
<1> HIDE DEF h
<1>5. \A r \in Runs : fate'[r] = IF r = h THEN "running" ELSE fate[r]
  BY <1>0, <1>1, <1>4
<1>6. \A r \in Runs : fate[r] \notin Unfinished
  BY <1>1 DEF RunOrder
<1>7. \A r \in Runs : Started(r)' => Started(r) \/ r = h
  BY <1>5 DEF Started
<1>8. \A r \in Runs : Started(r) => r < h
  BY <1>2, <1>3 DEF RunOrder
<1>9. \A c, r \in Runs : fate'[c] \in Unfinished /\ Started(r)' => r <= c
  <2>1. \A c \in Runs : fate'[c] \in Unfinished => c = h
    BY <1>5, <1>6
  <2>2. QED
    BY <1>4, <1>7, <1>8, <2>1 DEF Runs
<1>10. \A q, r \in Runs : q < r /\ fate'[q] = "new" => fate'[r] = "new"
  <2>1. \A q \in Runs : q < h => fate[q] # "new"
    BY <1>4 DEF RunOrder
  <2>2. QED
    BY <1>5, <2>1 DEF RunOrder
<1>11. \A i, j \in 1..Len(jobs') : i < j => jobs'[i] < jobs'[j]
  BY <1>2, <1>3 DEF RunOrder
<1>12. \A i \in 1..Len(jobs'), r \in Runs : Started(r)' => r < jobs'[i]
  <2>1. \A i \in 1..Len(jobs') : h < jobs'[i]
    BY <1>2, <1>3 DEF RunOrder
  <2>2. \A i \in 1..Len(jobs'), r \in Runs : Started(r) => r < jobs'[i]
    BY <1>2, <1>3 DEF RunOrder
  <2>3. QED
    BY <1>7, <2>1, <2>2
<1>13. QED
  BY <1>1, <1>9, <1>10, <1>11, <1>12 DEF RunOrder

LEMMA OrderStep ==
  ASSUME Typed, JobsAreQueued, RunOrder, Next
  PROVE  RunOrder'
<1>0. fate \in [Runs -> Fates] /\ jobs \in Seq(Runs) /\ InRun
  BY DEF Typed, RunTyped
<1>1. CASE Dispatch \/ FollowUp
  BY <1>1, QueueOrder DEF Dispatch, FollowUp
<1>2. CASE StartRun
  BY <1>2, StartOrder
<1>3. CASE FailRun \/ FinishRun \/ LateStop
  <2>1. turn = "run" /\ jobs' = jobs
    BY <1>0, <1>3 DEF FailRun, FinishRun, LateStop, InRun
  <2>2. PICK c \in Runs : /\ c = Current /\ Started(c) /\ \A r \in Runs : Started(r) => r <= c
                          /\ \A r \in Runs : fate[r] \in Unfinished => r = c
    BY <2>1, CurrentIsLast
  <2>3. \/ turn' = "run" /\ fate' = [fate EXCEPT ![c] = "failing"]
        \/ fate' = [fate EXCEPT ![c] = IF @ = "failing" THEN "failed" ELSE "complete"]
        \/ fate' = [fate EXCEPT ![c] = IF @ = "failing" THEN "failed" ELSE "stopped"]
    BY <1>3, <2>1, <2>2 DEF FailRun, FinishRun, LateStop
  <2>4. /\ \A r \in Runs : r # c => fate'[r] = fate[r]
        /\ Started(c)'
        /\ fate'[c] \in Unfinished => turn' = "run"
    BY <1>0, <2>2, <2>3 DEF Started, Unfinished
  <2>5. \A r \in Runs : Started(r)' <=> Started(r)
    BY <2>2, <2>4 DEF Started
  <2>6. \A r \in Runs : fate'[r] \in Unfinished => r = c
    BY <2>2, <2>4
  <2>7. \A r \in Runs : fate'[r] = "new" <=> fate[r] = "new"
    BY <2>2, <2>4 DEF Started
  <2>8. QED
    BY <2>1, <2>2, <2>4, <2>5, <2>6, <2>7 DEF RunOrder
<1>4. CASE ClearHistory
  <2>1. /\ \A r \in Runs : fate'[r] = IF fate[r] = "queued" THEN "cleared" ELSE fate[r]
        /\ jobs' = <<>> /\ ~active
    BY <1>0, <1>4 DEF ClearHistory
  <2>2. \A r \in Runs : /\ Started(r)' <=> Started(r)
                        /\ fate'[r] = "new" <=> fate[r] = "new"
                        /\ fate'[r] \in Unfinished <=> fate[r] \in Unfinished
    BY <2>1 DEF Started, Unfinished
  <2>3. \A r \in Runs : fate[r] \notin Unfinished
    BY <1>0, <2>1 DEF InRun, RunOrder
  <2>4. 1..Len(jobs') = {}
    BY <2>1, EmptySeq
  <2>5. QED
    BY <2>2, <2>3, <2>4 DEF RunOrder
<1>5. CASE UNCHANGED <<fate, jobs, turn>>
  BY <1>5 DEF RunOrder, Started
<1>6. QED
  BY <1>1, <1>2, <1>3, <1>4, <1>5
  DEF Next, Fold, ArmInVain, ReleaseRun, Bind, Say, FlowBreak,
      Join, Absorb, SendDone, Leave, TaskDone, ClearInflight, runVars

-----------------------------------------------------------------------------
(* The frames that have been given out                                     *)

Reading(f) == pc[f] \in {"recv", "send"}

Heard(f) == ToSet(text[f]) \cup ToSet(mail[f])

\* Every frame that is kept for replay, in a queue, collected or sent.
Given == ToSet(ring) \cup SentFrames \cup UNION {Heard(f) : f \in Forwarders}

\* A frame is of a run that started, and its kind tells what became of the run.
Known(a) ==
  /\ a \in Frames /\ Started(a.run)
  /\ fate[a.run] \in Unfinished => a.seq <= seq
  /\ a.kind = "complete" => fate[a.run] \in {"complete", "failed"}
  /\ a.kind = "error" => fate[a.run] \in {"failing", "failed"}

FramesKnown ==
  /\ \A a \in Given : Known(a)
  /\ \A a \in ToSet(ring) : fate[a.run] \in Unfinished
  /\ \A f \in Forwarders : \A a \in ToSet(text[f]) : a.kind = "text"
  /\ \A f \in Forwarders : pc[f] \notin {"recv", "send", "last", "cancelled"} => text[f] = <<>>

\* Runs that have, or will have, sent all they had.
Concluded == {r \in Runs : fate[r] \in {"failing", "complete", "failed"}}

\* The four ways in which a step touches the frames.
Publishes(kind) ==
  /\ turn = "run" /\ UNCHANGED <<text, sent, pc, subs, armed>>
  /\ seq' = seq + 1 /\ mail' = FannedOut(Frame(Current, kind))
  /\ \A r \in Runs : r # Current => fate'[r] = fate[r]
  /\ \/ /\ ring' = Newest(Append(ring, Frame(Current, kind))) /\ turn' = turn
        /\ fate[Current] = "running"
        /\ \/ kind = "text" /\ fate' = fate /\ texts' = texts + 1
           \/ kind = "flow_break" /\ fate' = fate /\ texts' = texts /\ FlowBreak
           \/ kind = "error" /\ fate'[Current] = "failing" /\ texts' = texts
     \/ /\ ring' = <<>> /\ turn' # "run" /\ kind = "complete"
        /\ fate'[Current] = IF fate[Current] = "failing" THEN "failed" ELSE "complete"

Silences ==
  /\ ring' = <<>> /\ UNCHANGED <<text, sent, pc, mail, armed>>
  /\ \/ subs' = subs /\ seq' = seq
     \/ turn # "run" /\ turn' # "run" /\ subs' = {}
  /\ turn' = "run" => texts' = 0 /\ \A r \in Runs : fate'[r] \in Unfinished => ~Started(r)
  /\ Concluded' \subseteq Concluded

Listens(f) ==
  /\ Join(f) \/ Absorb(f) \/ Leave(f)
  /\ UNCHANGED <<ring, seq, fate, turn, texts, armed>>
  /\ \A g \in Forwarders : g # f => /\ pc'[g] = pc[g] /\ text'[g] = text[g]
                                    /\ mail'[g] = mail[g] /\ (g \in subs' <=> g \in subs)

Quiet ==
  /\ UNCHANGED <<ring, seq, subs, mail, text, sent, texts>>
  /\ turn' = turn \/ (turn # "run" /\ turn' # "run")
  /\ \A r \in Runs : Started(r) \/ Started(r)' => fate'[r] = fate[r]
  /\ \A f \in Forwarders :
       \/ pc'[f] = pc[f]
       \/ Reading(f) /\ Reading(f)'
       \/ {pc[f], pc'[f]} \subseteq {"free", "spawned", "closing", "done"}
       \/ /\ ReleaseRun /\ pc[f] \in {"spawned", "recv", "send", "last", "cancelled"}
          /\ pc'[f] = "cancelled"

LEMMA SayKinds ==
  ASSUME Typed, RunOrder, Say \/ FlowBreak \/ FailRun \/ FinishRun
  PROVE  \E kind \in Kinds : Publishes(kind)
<1>0. InRun /\ fate \in [Runs -> Fates]
  BY DEF Typed, RunTyped
<1>1. turn = "run" /\ Current \in Runs
  BY <1>0, CurrentIsRun DEF Say, FlowBreak, FailRun, FinishRun, InRun
<1>2. UNCHANGED <<text, sent, pc, armed>>
  BY DEF Say, FlowBreak, FailRun, FinishRun, fwdVars
<1>3. CASE Say
  BY <1>1, <1>2, <1>3 DEF Say, Publish, Publishes, Kinds
<1>4. CASE FlowBreak
  <2>1. /\ Publish(Current, "flow_break") /\ fate[Current] = "running"
        /\ UNCHANGED <<fate, turn, texts>>
    BY <1>4 DEF FlowBreak
  <2>2. QED
    BY <1>1, <1>2, <1>4, <2>1 DEF Publish, Publishes, Kinds
<1>5. CASE FailRun
  <2>1. PICK c \in Runs : c = Current /\ fate' = [fate EXCEPT ![c] = "failing"] /\ fate[c] = "running"
    BY <1>1, <1>5 DEF FailRun
  <2>2. (\A r \in Runs : r # Current => fate'[r] = fate[r]) /\ fate'[Current] = "failing"
    BY <1>0, <2>1
  <2>3. QED
    BY <1>1, <1>2, <1>5, <2>2 DEF FailRun, Publish, Publishes, Kinds
<1>6. CASE FinishRun
  <2>1. PICK c \in Runs : c = Current
                          /\ fate' = [fate EXCEPT ![c] = IF @ = "failing" THEN "failed" ELSE "complete"]
    BY <1>1, <1>6 DEF FinishRun
  <2>2. /\ \A r \in Runs : r # Current => fate'[r] = fate[r]
        /\ fate'[Current] = IF fate[Current] = "failing" THEN "failed" ELSE "complete"
    BY <1>0, <2>1
  <2>3. turn' # "run" /\ PublishLast(Current, "complete")
    BY <1>6 DEF FinishRun
  <2>4. QED
    BY <1>1, <1>2, <2>2, <2>3 DEF PublishLast, Publishes, Kinds
<1>7. QED
  BY <1>3, <1>4, <1>5, <1>6

LEMMA TaskKinds ==
  ASSUME Typed, NEW f \in Forwarders, Join(f) \/ Absorb(f) \/ Leave(f)
  PROVE  Listens(f)
<1>0. /\ pc \in [Forwarders -> Places] /\ text \in [Forwarders -> Seq(Frames)]
      /\ mail \in [Forwarders -> Seq(Frames)] /\ subs \subseteq Forwarders
  BY DEF Typed, FwdTyped, BusTyped, Forwarders
<1>1. UNCHANGED <<ring, seq, fate, turn, texts, armed>>
  BY DEF Join, Absorb, Leave, Subscribe, Unsubscribe, Pop, runVars
<1>2. CASE Join(f)
  BY <1>0, <1>1, <1>2 DEF Join, Subscribe, Listens
<1>3. CASE Leave(f)
  BY <1>0, <1>1, <1>3 DEF Leave, Unsubscribe, Listens
<1>4. CASE Absorb(f)
  <2>1. subs' = subs /\ \A g \in Forwarders : g # f => mail'[g] = mail[g]
    BY <1>0, <1>4 DEF Absorb, Pop
  <2>2. \A g \in Forwarders : g # f => pc'[g] = pc[g] /\ text'[g] = text[g]
    BY <1>0, <1>4 DEF Absorb, AbsorbText, AbsorbBreak, AbsorbComplete, AbsorbError
  <2>3. QED
    BY <1>1, <1>4, <2>1, <2>2 DEF Listens
<1>5. QED
  BY <1>2, <1>3, <1>4

LEMMA QuietKinds ==
  ASSUME Typed, RunOrder,
         \/ Dispatch \/ Fold \/ ArmInVain \/ ReleaseRun \/ Bind \/ FollowUp
         \/ \E f \in Forwarders : SendDone(f) \/ TaskDone(f) \/ ClearInflight(f)
  PROVE  Quiet
<1>0. pc \in [Forwarders -> Places] /\ fate \in [Runs -> Fates] /\ FwdTyped
  BY DEF Typed, FwdTyped, RunTyped
<1>1. UNCHANGED <<ring, seq, subs, mail, text, sent, texts>>
  BY DEF Dispatch, Fold, ArmInVain, ReleaseRun, Bind, FollowUp, SendDone, TaskDone, ClearInflight,
         ExpectRun, busVars, runVars, fwdVars
<1>2. turn' = turn \/ (turn # "run" /\ turn' # "run")
  BY DEF Dispatch, Fold, ArmInVain, ReleaseRun, Bind, FollowUp, SendDone, TaskDone, ClearInflight,
         runVars
<1>3. \A r \in Runs : Started(r) \/ Started(r)' => fate'[r] = fate[r]
  <2>1. CASE fate' = fate
    BY <2>1
  <2>2. CASE Queue
    BY <1>0, <2>2 DEF Queue, Started
  <2>3. QED
    BY <2>1, <2>2 DEF Dispatch, Fold, ArmInVain, ReleaseRun, Bind, FollowUp, SendDone, TaskDone,
                      ClearInflight, runVars
<1>4. \A f \in Forwarders :
         \/ pc'[f] = pc[f]
         \/ Reading(f) /\ Reading(f)'
         \/ {pc[f], pc'[f]} \subseteq {"free", "spawned", "closing", "done"}
         \/ /\ ReleaseRun /\ pc[f] \in {"spawned", "recv", "send", "last", "cancelled"}
            /\ pc'[f] = "cancelled"
  <2>1. CASE ExpectRun
    BY <1>0, <2>1, ExpectSteps
  <2>2. CASE pc' = pc
    BY <2>2
  <2>3. CASE ReleaseRun
    <3>1. \/ pc' = pc
          \/ inflight \in Live /\ pc[inflight] # "closing" /\ pc' = [pc EXCEPT ![inflight] = "cancelled"]
      BY <2>3 DEF ReleaseRun, Cancellable
    <3>2. \A f \in Live : pc[f] # "closing" => pc[f] \in {"spawned", "recv", "send", "last", "cancelled"}
      BY <1>0 DEF Live, Places
    <3>3. QED
      BY <1>0, <2>3, <3>1, <3>2
  <2>4. ASSUME NEW f \in Forwarders, SendDone(f) \/ TaskDone(f) \/ ClearInflight(f)
        PROVE  \A g \in Forwarders :
                 \/ pc'[g] = pc[g]
                 \/ Reading(g) /\ Reading(g)'
                 \/ {pc[g], pc'[g]} \subseteq {"free", "spawned", "closing", "done"}
    <3>1. CASE SendDone(f)
      BY <1>0, <3>1 DEF SendDone, Reading
    <3>2. CASE TaskDone(f)
      BY <1>0, <3>2 DEF TaskDone
    <3>3. CASE ClearInflight(f)
      <4>1. pc[f] = "done" /\ Free \subseteq {g \in Forwarders : pc[g] = "free"}
        BY <3>3 DEF ClearInflight, Free
      <4>2. \/ pc' = [pc EXCEPT ![f] = "free"]
            \/ \E g \in Free : pc' = [pc EXCEPT ![f] = "free", ![g] = "spawned"]
        BY <3>3 DEF ClearInflight
      <4>3. QED
        BY <1>0, <4>1, <4>2
    <3>4. QED
      BY <2>4, <3>1, <3>2, <3>3
  <2>5. QED
    BY <2>1, <2>2, <2>3, <2>4 DEF Dispatch, Fold, ArmInVain, Bind, FollowUp, fwdVars
<1>5. QED
  BY <1>1, <1>2, <1>3, <1>4 DEF Quiet

LEMMA StepKinds ==
  ASSUME Typed, JobsAreQueued, RunOrder, Next
  PROVE  \/ \E kind \in Kinds : Publishes(kind)
         \/ Silences
         \/ \E f \in Forwarders : Listens(f)
         \/ Quiet
<1>1. CASE StartRun \/ LateStop \/ ClearHistory
  <2>1. InRun /\ fate \in [Runs -> Fates] /\ jobs \in Seq(Runs)
    BY DEF Typed, RunTyped
  <2>2. CASE StartRun
    <3>1. PICK h \in Runs : h = Head(jobs) /\ fate[h] = "queued"
      BY <2>1, <2>2, InTail DEF StartRun, JobsAreQueued
    <3>2. /\ turn = "idle" /\ fate' = [fate EXCEPT ![h] = "running"] /\ texts' = 0
          /\ turn' = "run"
      BY <2>2, <3>1 DEF StartRun
    <3>3. Concluded' \subseteq Concluded
      BY <2>1, <3>2 DEF Concluded
    <3>4. \A r \in Runs : fate'[r] \in Unfinished => ~Started(r)
      <4>1. \A r \in Runs : fate[r] \notin Unfinished
        BY <3>2 DEF RunOrder
      <4>2. \A r \in Runs : fate'[r] \in Unfinished => r = h
        BY <2>1, <3>2, <4>1
      <4>3. QED
        BY <3>1, <4>2 DEF Started
    <3>5. QED
      BY <2>2, <3>2, <3>3, <3>4 DEF StartRun, StartStream, Silences, fwdVars
  <2>3. CASE LateStop
    <3>1. PICK c : c = Current
      OBVIOUS
    <3>2. /\ turn' # "run"
          /\ fate' = [fate EXCEPT ![c] = IF @ = "failing" THEN "failed" ELSE "stopped"]
      BY <2>3, <3>1 DEF LateStop
    <3>3. Concluded' \subseteq Concluded
      BY <2>1, <3>2 DEF Concluded
    <3>4. ring' = <<>> /\ UNCHANGED <<text, sent, pc, mail, armed, subs, seq>>
      BY <2>3 DEF LateStop, EndStream, fwdVars
    <3>5. QED
      BY <3>2, <3>3, <3>4 DEF Silences
  <2>4. CASE ClearHistory
    <3>1. Concluded' \subseteq Concluded
      BY <2>4 DEF ClearHistory, Concluded
    <3>2. turn # "run" /\ turn' # "run"
      BY <2>1, <2>4 DEF ClearHistory, InRun
    <3>3. ring' = <<>> /\ subs' = {} /\ UNCHANGED <<text, sent, pc, mail, armed>>
      BY <2>4 DEF ClearHistory, Discard, fwdVars
    <3>4. QED
      BY <3>1, <3>2, <3>3 DEF Silences
  <2>5. QED
    BY <1>1, <2>2, <2>3, <2>4
<1>2. QED
  BY <1>1, SayKinds, TaskKinds, QuietKinds DEF Next

\* What is known of a frame stays known.
LEMMA KnownKept ==
  ASSUME Typed, JobsAreQueued, RunOrder, Next, NEW a, Known(a)
  PROVE  Known(a)'
<1>1. a \in Frames /\ a.run \in Runs /\ a.seq \in Nat
  BY DEF Known, Frames
<1>2. Started(a.run)' /\ (fate'[a.run] \in Unfinished => fate[a.run] \in Unfinished)
  BY <1>1, FateSteps DEF Known, Started, Unfinished
<1>3. fate[a.run] \in Unfinished => seq <= seq'
  <2>1. seq \in Nat
    BY DEF Typed, BusTyped
  <2>2. fate[a.run] \in Unfinished => turn = "run"
    BY <1>1 DEF RunOrder
  <2>3. turn = "run" => seq' = seq \/ seq' = seq + 1
    BY StepKinds DEF Publishes, Silences, Listens, Quiet
  <2>4. QED
    BY <2>1, <2>2, <2>3
<1>4. fate'[a.run] \in Unfinished => a.seq <= seq'
  <2>1. seq \in Nat /\ seq' \in Nat
    BY TypedStep DEF Typed, BusTyped
  <2>2. QED
    BY <1>1, <1>2, <1>3, <2>1 DEF Known
<1>5. /\ a.kind = "complete" => fate'[a.run] \in {"complete", "failed"}
      /\ a.kind = "error" => fate'[a.run] \in {"failing", "failed"}
  BY <1>1, FateSteps DEF Known, Started
<1>6. QED
  BY <1>1, <1>2, <1>4, <1>5 DEF Known

\* A frame that is published comes after all that were.
LEMMA Published ==
  ASSUME Typed, RunOrder, NEW kind \in Kinds, Publishes(kind),
         NEW m, m = Frame(Current, kind)
  PROVE  /\ m \in Frames /\ m.run = Current /\ m.kind = kind /\ m.seq = seq + 1
         /\ Known(m)'
         /\ \A a : Known(a) => a \in Frames /\ \A F : Follows(a, m, F)
<1>1. m \in Frames /\ m.run = Current /\ m.kind = kind /\ m.seq = seq + 1
  <2>1. Current \in Runs /\ seq \in Nat
    BY CurrentIsLast DEF Publishes, Typed, BusTyped
  <2>2. QED
    BY <2>1 DEF Frame, Frames
<1>2. /\ Current \in Runs /\ fate[Current] \in Unfinished /\ Started(Current) /\ seq \in Nat
      /\ \A r \in Runs : Started(r) => r <= Current
  BY CurrentIsLast DEF Publishes, Typed, BusTyped
<1>3. Known(m)'
  <2>1. PICK c \in Runs : c = Current
    BY <1>2
  <2>2. \/ fate'[c] = "running" /\ kind \notin {"complete", "error"}
        \/ fate'[c] = "failing" /\ kind = "error"
        \/ fate'[c] \in {"complete", "failed"} /\ kind = "complete"
    BY <1>2, <2>1 DEF Publishes
  <2>3. Started(c)'
    BY <2>2 DEF Started
  <2>4. seq' = seq + 1 /\ seq' \in Nat
    BY <1>2 DEF Publishes
  <2>5. QED
    BY <1>1, <1>2, <2>1, <2>2, <2>3, <2>4 DEF Known
<1>4. ASSUME NEW a, Known(a) PROVE a \in Frames /\ \A F : Follows(a, m, F)
  <2>1. a \in Frames /\ a.run \in Runs /\ a.seq \in Nat /\ a.run <= Current
    BY <1>2, <1>4 DEF Known, Frames
  <2>2. a.run = Current => a.seq <= seq
    BY <1>2, <1>4 DEF Known
  <2>3. a.run < Current \/ (a.run = Current /\ a.seq < seq + 1)
    BY <1>2, <2>1, <2>2 DEF Runs
  <2>4. QED
    BY <1>1, <2>1, <2>3 DEF Follows
<1>5. QED
  BY <1>1, <1>3, <1>4

\* Where a published frame goes.
LEMMA PublishFrames ==
  ASSUME Typed, RunOrder, NEW kind \in Kinds, Publishes(kind),
         NEW m, m = Frame(Current, kind)
  PROVE  /\ ToSet(ring') \subseteq ToSet(ring) \cup {m} /\ Append(ring, m) \in Seq(Frames)
         /\ ring' = <<>> \/ ring' = Newest(Append(ring, m))
         /\ \A f \in Forwarders :
              /\ mail[f] \in Seq(Frames)
              /\ f \in subs => mail'[f] = Append(mail[f], m) /\ ToSet(mail'[f]) = ToSet(mail[f]) \cup {m}
              /\ f \notin subs => mail'[f] = mail[f]
         /\ text' = text /\ sent' = sent /\ SentFrames' = SentFrames
<1>1. /\ ring \in Seq(Frames) /\ mail \in [Forwarders -> Seq(Frames)] /\ m \in Frames
      /\ subs \subseteq Forwarders
  BY Published DEF Typed, BusTyped, Forwarders
<1>2. ring' = <<>> \/ ring' = Newest(Append(ring, m))
  BY DEF Publishes
<1>3. ToSet(ring') \subseteq ToSet(ring) \cup {m} /\ Append(ring, m) \in Seq(Frames)
  <2>1. ToSet(Append(ring, m)) = ToSet(ring) \cup {m} /\ Append(ring, m) \in Seq(Frames)
    BY <1>1, InAppend
  <2>2. ToSet(Newest(Append(ring, m))) \subseteq ToSet(Append(ring, m))
    BY <2>1, InNewest
  <2>3. QED
    BY <1>2, <2>1, <2>2, InEmpty
<1>4. ASSUME NEW f \in Forwarders
      PROVE  /\ mail[f] \in Seq(Frames)
             /\ f \in subs => mail'[f] = Append(mail[f], m) /\ ToSet(mail'[f]) = ToSet(mail[f]) \cup {m}
             /\ f \notin subs => mail'[f] = mail[f]
  <2>1. mail'[f] = IF f \in subs THEN Append(mail[f], m) ELSE mail[f]
    BY <1>1 DEF Publishes, FannedOut, Forwarders
  <2>2. QED
    BY <1>1, <2>1, InAppend
<1>5. text' = text /\ sent' = sent
  BY DEF Publishes
<1>6. QED
  BY <1>2, <1>3, <1>4, <1>5 DEF SentFrames

LEMMA SentMore ==
  ASSUME sent \in Seq(Seq(Frames)), NEW s \in Seq(Frames), sent' = Append(sent, s)
  PROVE  /\ SentFrames' = SentFrames \cup ToSet(s)
         /\ Len(sent) \in Nat /\ Len(sent') = Len(sent) + 1
         /\ \A n \in 1..Len(sent) : sent'[n] = sent[n] /\ sent[n] \in Seq(Frames)
         /\ sent'[Len(sent) + 1] = s
<1>1. /\ Len(sent) \in Nat /\ Len(sent') = Len(sent) + 1 /\ sent' \in Seq(Seq(Frames))
      /\ \A n \in 1..Len(sent) : sent'[n] = sent[n] /\ sent[n] \in Seq(Frames)
      /\ sent'[Len(sent) + 1] = s
  BY InAppend, LenProperties, ElementOfSeq
<1>2. DOMAIN sent = 1..Len(sent) /\ DOMAIN sent' = 1..(Len(sent) + 1)
  BY <1>1, LenProperties
<1>3. \A n \in 1..(Len(sent) + 1) : n \in 1..Len(sent) \/ n = Len(sent) + 1
  BY <1>1
<1>4. 1..Len(sent) \subseteq 1..(Len(sent) + 1) /\ Len(sent) + 1 \in 1..(Len(sent) + 1)
  BY <1>1
<1>5. /\ \A a : a \in SentFrames <=> \E n \in 1..Len(sent) : a \in ToSet(sent[n])
      /\ \A a : a \in SentFrames' <=> \E n \in 1..(Len(sent) + 1) : a \in ToSet(sent'[n])
  BY <1>2 DEF SentFrames
<1>6. \A a : a \in SentFrames' => a \in SentFrames \/ a \in ToSet(s)
  BY <1>1, <1>3, <1>5
<1>7. \A a : a \in SentFrames \/ a \in ToSet(s) => a \in SentFrames'
  BY <1>1, <1>4, <1>5
<1>8. QED
  BY <1>1, <1>6, <1>7

\* What a forwarder does with the frame m it takes.
Takes(f, m) ==
  /\ \/ /\ m.kind = "text" /\ text'[f] = Append(text[f], m) /\ sent' = sent /\ pc'[f] = "recv"
     \/ /\ m.kind = "flow_break" /\ text[f] = <<>> /\ text'[f] = <<>> /\ sent' = sent /\ pc'[f] = "recv"
     \/ /\ m.kind = "flow_break" /\ text'[f] = <<>> /\ sent' = Append(sent, text[f]) /\ pc'[f] = "send"
     \/ /\ m.kind = "complete" /\ text'[f] = text[f] /\ pc'[f] = "last"
        /\ sent' = Append(sent, text[f]) \/ (text[f] = <<>> /\ sent' = sent)
     \/ /\ m.kind = "error" /\ text'[f] = text[f] /\ pc'[f] = "last" /\ sent' = Append(sent, <<m>>)

LEMMA AbsorbFrames ==
  ASSUME Typed, NEW f \in Forwarders, Absorb(f)
  PROVE  \E m \in Frames :
           /\ Takes(f, m) /\ mail[f] # <<>> /\ m = Head(mail[f]) /\ m = mail[f][1]
           /\ mail'[f] = Tail(mail[f]) /\ ToSet(mail[f]) = {m} \cup ToSet(mail'[f])
           /\ pc[f] = "recv" /\ subs' = subs
           /\ text[f] \in Seq(Frames) /\ mail[f] \in Seq(Frames) /\ sent \in Seq(Seq(Frames))
           /\ m.kind = "text" => ToSet(text'[f]) = ToSet(text[f]) \cup {m}
           /\ \/ sent' = sent /\ SentFrames' = SentFrames
              \/ sent' = Append(sent, text[f]) /\ SentFrames' = SentFrames \cup ToSet(text[f])
              \/ m.kind = "error" /\ sent' = Append(sent, <<m>>) /\ SentFrames' = SentFrames \cup {m}
<1>m. PICK m : m = Head(mail[f])
  OBVIOUS
<1>1. /\ mail[f] \in Seq(Frames) /\ text[f] \in Seq(Frames) /\ mail[f] # <<>> /\ pc[f] = "recv"
      /\ sent \in Seq(Seq(Frames))
  BY DEF Typed, BusTyped, FwdTyped, RestTyped, Absorb, Forwarders
<1>2. /\ ToSet(mail[f]) = {m} \cup ToSet(Tail(mail[f])) /\ m = mail[f][1]
      /\ m \in Frames
  BY <1>1, <1>m, InTail, HeadTyped
<1>3. mail'[f] = Tail(mail[f]) /\ subs' = subs
  BY DEF Typed, BusTyped, Absorb, Pop, Forwarders
<1>4. Takes(f, m)
  BY <1>1, <1>m DEF Typed, FwdTyped, Absorb, AbsorbText, AbsorbBreak, AbsorbComplete, AbsorbError, Takes
<1>5. m.kind = "text" => ToSet(text'[f]) = ToSet(text[f]) \cup {m}
  <2>1. ToSet(Append(text[f], m)) = ToSet(text[f]) \cup {m}
    BY <1>1, <1>2, InAppend
  <2>2. QED
    BY <1>4, <2>1 DEF Takes
<1>6. <<m>> \in Seq(Frames) /\ ToSet(<<m>>) = {m}
  <2>1. <<m>> \in Seq(Frames) /\ DOMAIN <<m>> = {1} /\ <<m>>[1] = m
    BY <1>2
  <2>2. QED
    BY <2>1 DEF ToSet
<1>7. \/ sent' = sent /\ SentFrames' = SentFrames
      \/ sent' = Append(sent, text[f]) /\ SentFrames' = SentFrames \cup ToSet(text[f])
      \/ m.kind = "error" /\ sent' = Append(sent, <<m>>) /\ SentFrames' = SentFrames \cup {m}
  <2>1. CASE sent' = sent
    BY <2>1 DEF SentFrames
  <2>2. CASE sent' = Append(sent, text[f])
    BY <1>1, <2>2, SentMore
  <2>3. CASE m.kind = "error" /\ sent' = Append(sent, <<m>>)
    BY <1>1, <1>6, <2>3, SentMore
  <2>4. QED
    BY <1>4, <2>1, <2>2, <2>3 DEF Takes
<1>8. QED
  BY <1>1, <1>2, <1>3, <1>4, <1>5, <1>7, <1>m

LEMMA JoinFrames ==
  ASSUME Typed, NEW f \in Forwarders, Join(f)
  PROVE  /\ mail'[f] = ring /\ text' = text /\ sent' = sent /\ pc[f] = "spawned" /\ pc'[f] = "recv"
         /\ ring \in Seq(Frames) /\ subs' = subs \cup {f} /\ SentFrames' = SentFrames
BY DEF Join, Subscribe, Typed, BusTyped, FwdTyped, Forwarders, SentFrames

LEMMA LeaveFrames ==
  ASSUME Typed, NEW f \in Forwarders, Leave(f)
  PROVE  /\ mail'[f] = <<>> /\ text'[f] = <<>> /\ sent' = sent /\ pc'[f] = "closing"
         /\ pc[f] \in {"last", "cancelled"} /\ subs' = subs \ {f} /\ SentFrames' = SentFrames
BY DEF Leave, Unsubscribe, Typed, BusTyped, FwdTyped, Forwarders, SentFrames

LEMMA GivenSteps ==
  ASSUME Typed, JobsAreQueued, RunOrder, Next
  PROVE  \A a \in Given' :
           \/ a \in Given
           \/ \E kind \in Kinds : Publishes(kind) /\ a = Frame(Current, kind)
<1>1. ASSUME NEW kind \in Kinds, Publishes(kind)
      PROVE  \A a \in Given' : a \in Given \/ a = Frame(Current, kind)
  <2>1. PICK m : m = Frame(Current, kind)
    OBVIOUS
  <2>2. /\ ToSet(ring') \subseteq ToSet(ring) \cup {m}
        /\ \A f \in Forwarders : ToSet(mail'[f]) \subseteq ToSet(mail[f]) \cup {m}
        /\ text' = text /\ SentFrames' = SentFrames
    BY <1>1, <2>1, PublishFrames
  <2>3. \A f \in Forwarders : Heard(f)' \subseteq Heard(f) \cup {m}
    BY <2>2 DEF Heard
  <2>4. Given' \subseteq Given \cup {m}
    BY <2>2, <2>3 DEF Given
  <2>5. QED
    BY <2>1, <2>4
<1>2. CASE Silences
  <2>1. \A f \in Forwarders : Heard(f)' = Heard(f)
    BY <1>2 DEF Silences, Heard
  <2>2. ToSet(ring') = {} /\ SentFrames' = SentFrames
    BY <1>2, InEmpty DEF Silences, SentFrames
  <2>3. QED
    BY <2>1, <2>2 DEF Given
<1>3. ASSUME NEW f \in Forwarders, Listens(f)
      PROVE  Given' \subseteq Given
  <2>1. ring' = ring /\ \A g \in Forwarders : g # f => Heard(g)' = Heard(g)
    BY <1>3 DEF Listens, Heard
  <2>2. Heard(f)' \subseteq Given /\ SentFrames' \subseteq Given
    <3>1. CASE Join(f)
      BY <3>1, JoinFrames DEF Heard, Given
    <3>2. CASE Leave(f)
      BY <3>2, LeaveFrames, InEmpty DEF Heard, Given
    <3>3. CASE Absorb(f)
      <4>1. PICK m \in Frames :
              /\ Takes(f, m) /\ ToSet(mail[f]) = {m} \cup ToSet(mail'[f])
              /\ m.kind = "text" => ToSet(text'[f]) = ToSet(text[f]) \cup {m}
              /\ \/ sent' = sent /\ SentFrames' = SentFrames
                 \/ sent' = Append(sent, text[f]) /\ SentFrames' = SentFrames \cup ToSet(text[f])
                 \/ m.kind = "error" /\ sent' = Append(sent, <<m>>) /\ SentFrames' = SentFrames \cup {m}
        BY <3>3, AbsorbFrames
      <4>2. SentFrames' \subseteq SentFrames \cup Heard(f)
        BY <4>1 DEF Heard
      <4>3. Heard(f)' \subseteq Heard(f)
        BY <4>1, InEmpty DEF Heard, Takes
      <4>4. QED
        BY <4>2, <4>3 DEF Given
    <3>4. QED
      BY <1>3, <3>1, <3>2, <3>3 DEF Listens
  <2>3. QED
    BY <2>1, <2>2 DEF Given
<1>4. CASE Quiet
  BY <1>4 DEF Quiet, Given, Heard, SentFrames
<1>5. QED
  BY <1>1, <1>2, <1>3, <1>4, StepKinds

LEMMA KnownStep ==
  ASSUME Typed, JobsAreQueued, RunOrder, FramesKnown, Next
  PROVE  FramesKnown'
<1>1. \A a \in Given' : Known(a)'
  BY GivenSteps, KnownKept, Published DEF FramesKnown
<1>2. \A a \in ToSet(ring') : fate'[a.run] \in Unfinished
  <2>1. ASSUME NEW kind \in Kinds, Publishes(kind)
        PROVE  \A a \in ToSet(ring') : fate'[a.run] \in Unfinished
    <3>1. PICK m : m = Frame(Current, kind)
      OBVIOUS
    <3>2. CASE ring' = <<>>
      BY <3>2, InEmpty
    <3>3. CASE ring' # <<>>
      <4>1. /\ \A r \in Runs : fate[r] \in Unfinished => fate'[r] \in Unfinished
            /\ fate'[Current] \in Unfinished
        BY <2>1, <3>3, CurrentIsLast DEF Publishes, Unfinished
      <4>2. ToSet(ring') \subseteq ToSet(ring) \cup {m} /\ m.run = Current
        BY <2>1, <3>1, PublishFrames, Published
      <4>3. \A a \in ToSet(ring) : a.run \in Runs /\ fate[a.run] \in Unfinished
        BY DEF FramesKnown, Given, Known, Frames
      <4>4. QED
        BY <4>1, <4>2, <4>3
    <3>4. QED
      BY <3>2, <3>3
  <2>2. CASE Silences
    BY <2>2, InEmpty DEF Silences
  <2>3. CASE Quiet \/ \E f \in Forwarders : Listens(f)
    <3>1. ring' = ring /\ \A r \in Runs : Started(r) => fate'[r] = fate[r]
      BY <2>3 DEF Quiet, Listens
    <3>2. \A a \in ToSet(ring) : a.run \in Runs /\ Started(a.run)
      BY DEF FramesKnown, Given, Known, Frames
    <3>3. QED
      BY <3>1, <3>2 DEF FramesKnown
  <2>4. QED
    BY <2>1, <2>2, <2>3, StepKinds
<1>3. \A f \in Forwarders : \A a \in ToSet(text'[f]) : a.kind = "text"
  <2>1. ASSUME NEW f \in Forwarders, Absorb(f)
        PROVE  \A a \in ToSet(text'[f]) : a.kind = "text"
    <3>1. PICK m \in Frames : /\ Takes(f, m)
                              /\ m.kind = "text" => ToSet(text'[f]) = ToSet(text[f]) \cup {m}
      BY <2>1, AbsorbFrames
    <3>2. QED
      BY <3>1, InEmpty DEF Takes, FramesKnown
  <2>2. ASSUME NEW g \in Forwarders, Listens(g), NEW f \in Forwarders
        PROVE  \A a \in ToSet(text'[f]) : a.kind = "text"
    BY <2>1, <2>2, JoinFrames, LeaveFrames, InEmpty DEF Listens, FramesKnown
  <2>3. QED
    BY <2>2, StepKinds DEF Publishes, Silences, Quiet, FramesKnown
<1>4. \A f \in Forwarders : pc'[f] \notin {"recv", "send", "last", "cancelled"} => text'[f] = <<>>
  <2>1. ASSUME NEW f \in Forwarders, Absorb(f)
        PROVE  pc'[f] \in {"recv", "send", "last"}
    BY <2>1, AbsorbFrames DEF Takes
  <2>2. ASSUME NEW g \in Forwarders, Listens(g), NEW f \in Forwarders,
               pc'[f] \notin {"recv", "send", "last", "cancelled"}
        PROVE  text'[f] = <<>>
    BY <2>1, <2>2, JoinFrames, LeaveFrames DEF Listens, FramesKnown
  <2>3. QED
    BY <2>2, StepKinds DEF Publishes, Silences, Quiet, Reading, FramesKnown
<1>5. QED
  BY <1>1, <1>2, <1>3, <1>4 DEF FramesKnown

-----------------------------------------------------------------------------
(* What is said is in line                                                 *)

Failed == {r \in Runs : fate[r] \in {"failing", "failed"}}

\* The ring, what a forwarder has collected and what it has still to read are in the
\* order they were published.
StreamsInLine ==
  /\ InLine(ring, Failed)
  /\ \A f \in Forwarders :
       /\ InLine(text[f], Failed) /\ InLine(mail[f], Failed)
       /\ AllBefore(ToSet(text[f]), ToSet(mail[f]), Failed)

Ordered == Settled /\ FramesKnown /\ StreamsInLine

LEMMA FailedGrows ==
  ASSUME Typed, JobsAreQueued, Next
  PROVE  Failed \subseteq Failed'
BY FateSteps DEF Failed, Started

\* The streams before a step, in the order that holds after it.
LEMMA StreamsLater ==
  ASSUME Ordered, Next, NEW F, F = Failed'
  PROVE  /\ InLine(ring, F)
         /\ \A f \in Forwarders :
              /\ InLine(text[f], F) /\ InLine(mail[f], F)
              /\ AllBefore(ToSet(text[f]), ToSet(mail[f]), F)
<1>1. Failed \subseteq F
  BY FailedGrows DEF Ordered, Settled
<1>2. QED
  BY <1>1, LineKept DEF Ordered, StreamsInLine

LEMMA StreamsStep ==
  ASSUME Ordered, Next
  PROVE  StreamsInLine'
<1>0. /\ Typed /\ OneLive /\ JobsAreQueued /\ NoMail /\ RunOrder /\ FramesKnown /\ StreamsInLine
      /\ ring \in Seq(Frames)
  BY DEF Ordered, Settled, Typed, BusTyped
<1>1. PICK F : F = Failed'
  OBVIOUS
<1>2. /\ InLine(ring, F)
      /\ \A f \in Forwarders :
           /\ InLine(text[f], F) /\ InLine(mail[f], F)
           /\ AllBefore(ToSet(text[f]), ToSet(mail[f]), F)
  BY <1>1, StreamsLater
<1> SUFFICES /\ InLine(ring', F)
             /\ \A f \in Forwarders :
                  /\ InLine(text'[f], F) /\ InLine(mail'[f], F)
                  /\ AllBefore(ToSet(text'[f]), ToSet(mail'[f]), F)
  BY <1>1 DEF StreamsInLine
<1>3. ASSUME NEW kind \in Kinds, Publishes(kind)
      PROVE  /\ InLine(ring', F)
             /\ \A f \in Forwarders :
                  /\ InLine(text'[f], F) /\ InLine(mail'[f], F)
                  /\ AllBefore(ToSet(text'[f]), ToSet(mail'[f]), F)
  <2>1. PICK m : m = Frame(Current, kind)
    OBVIOUS
  <2>2. m \in Frames /\ \A a \in Given : Follows(a, m, F)
    BY <1>0, <1>3, <2>1, Published DEF FramesKnown
  <2>3. /\ Append(ring, m) \in Seq(Frames)
        /\ ring' = <<>> \/ ring' = Newest(Append(ring, m))
        /\ \A f \in Forwarders :
              /\ mail[f] \in Seq(Frames)
              /\ f \in subs => mail'[f] = Append(mail[f], m) /\ ToSet(mail'[f]) = ToSet(mail[f]) \cup {m}
              /\ f \notin subs => mail'[f] = mail[f]
        /\ text' = text
    BY <1>0, <1>3, <2>1, PublishFrames
  <2>4. InLine(ring', F)
    <3>1. AllBefore(ToSet(ring), {m}, F)
      BY <2>2 DEF AllBefore, Given
    <3>2. InLine(Append(ring, m), F)
      BY <1>0, <1>2, <2>2, <3>1, LineAppend
    <3>3. PICK s : s = Append(ring, m)
      OBVIOUS
    <3>4. InLine(Newest(s), F)
      <4>1. s \in Seq(Frames)
        BY <1>0, <2>2, <3>3, AppendProperties
      <4>2. InLine(s, F)
        BY <3>2, <3>3
      <4>3. QED
        BY <4>1, <4>2, LineNewest
    <3>5. QED
      BY <2>3, <3>3, <3>4, LineEmpty
  <2>5. ASSUME NEW f \in Forwarders
        PROVE  InLine(mail'[f], F) /\ AllBefore(ToSet(text'[f]), ToSet(mail'[f]), F)
    <3>1. \A a \in Heard(f) : Follows(a, m, F)
      BY <2>2 DEF Given
    <3>2. AllBefore(ToSet(mail[f]), {m}, F) /\ AllBefore(ToSet(text[f]), {m}, F)
      BY <3>1 DEF AllBefore, Heard
    <3>3. InLine(Append(mail[f], m), F)
      BY <1>2, <2>2, <2>3, <3>2, LineAppend
    <3>4. InLine(mail'[f], F)
      BY <1>2, <2>3, <3>3
    <3>5. AllBefore(ToSet(text'[f]), ToSet(mail'[f]), F)
      BY <1>2, <2>3, <3>2 DEF AllBefore
    <3>6. QED
      BY <3>4, <3>5
  <2>6. QED
    BY <1>2, <2>3, <2>4, <2>5
<1>4. CASE Silences
  BY <1>2, <1>4, LineEmpty DEF Silences
<1>5. ASSUME NEW f \in Forwarders, Listens(f)
      PROVE  /\ InLine(ring', F)
             /\ \A g \in Forwarders :
                  /\ InLine(text'[g], F) /\ InLine(mail'[g], F)
                  /\ AllBefore(ToSet(text'[g]), ToSet(mail'[g]), F)
  <2>1. /\ ring' = ring
        /\ \A g \in Forwarders : g # f => text'[g] = text[g] /\ mail'[g] = mail[g]
    BY <1>5 DEF Listens
  <2>2. /\ InLine(text'[f], F) /\ InLine(mail'[f], F)
        /\ AllBefore(ToSet(text'[f]), ToSet(mail'[f]), F)
    <3>1. CASE Join(f)
      <4>1. mail'[f] = ring /\ text'[f] = <<>>
        BY <1>0, <3>1, JoinFrames DEF FramesKnown
      <4>2. QED
        BY <1>2, <4>1, LineEmpty, InEmpty DEF AllBefore
    <3>2. CASE Leave(f)
      BY <1>0, <3>2, LeaveFrames, LineEmpty, InEmpty DEF AllBefore
    <3>3. CASE Absorb(f)
      <4>1. PICK m \in Frames :
              /\ Takes(f, m) /\ mail[f] # <<>> /\ m = Head(mail[f])
              /\ mail'[f] = Tail(mail[f]) /\ ToSet(mail[f]) = {m} \cup ToSet(mail'[f])
              /\ text[f] \in Seq(Frames) /\ mail[f] \in Seq(Frames)
              /\ m.kind = "text" => ToSet(text'[f]) = ToSet(text[f]) \cup {m}
        BY <1>0, <3>3, AbsorbFrames
      <4>2. InLine(mail'[f], F) /\ AllBefore({m}, ToSet(mail'[f]), F)
        BY <1>2, <4>1, LineTail
      <4>3. /\ AllBefore(ToSet(text[f]), {m}, F)
            /\ AllBefore(ToSet(text[f]), ToSet(mail'[f]), F)
        BY <1>2, <4>1 DEF AllBefore
      <4>4. InLine(Append(text[f], m), F)
        BY <1>2, <4>1, <4>3, LineAppend
      <4>5. CASE text'[f] = text[f] \/ text'[f] = <<>>
        BY <1>2, <4>2, <4>3, <4>5, LineEmpty, InEmpty DEF AllBefore
      <4>6. CASE m.kind = "text" /\ text'[f] = Append(text[f], m)
        BY <4>1, <4>2, <4>3, <4>4, <4>6 DEF AllBefore
      <4>7. QED
        BY <4>1, <4>5, <4>6 DEF Takes
    <3>4. QED
      BY <1>5, <3>1, <3>2, <3>3 DEF Listens
  <2>3. QED
    BY <1>2, <2>1, <2>2
<1>6. CASE Quiet
  BY <1>2, <1>6 DEF Quiet
<1>7. QED
  BY <1>0, <1>3, <1>4, <1>5, <1>6, StepKinds

LEMMA OrderedInit == Init => Ordered
<1> SUFFICES ASSUME Init PROVE Ordered
  OBVIOUS
<1>1. Typed /\ JobsAreQueued /\ NoMail
  BY TypedInit, ChainInit DEF ChainInv
<1>2. OneLive
  BY DEF Init, OneLive, Live
<1>3. RunOrder
  BY DEF Init, RunOrder, Started, Unfinished
<1>4. Given = {} /\ \A f \in Forwarders : text[f] = <<>> /\ mail[f] = <<>>
  <2>1. SentFrames = {}
    BY DEF Init, SentFrames
  <2>2. \A f \in Forwarders : text[f] = <<>> /\ mail[f] = <<>>
    BY DEF Init, InitBus, Forwarders
  <2>3. ring = <<>>
    BY DEF Init, InitBus
  <2>4. QED
    BY <2>1, <2>2, <2>3, InEmpty DEF Given, Heard
<1>5. FramesKnown
  <2>1. ToSet(ring) = {} /\ \A f \in Forwarders : ToSet(text[f]) = {}
    BY <1>4 DEF Given, Heard
  <2>2. QED
    BY <1>4, <2>1 DEF FramesKnown
<1>6. StreamsInLine
  <2>1. ring = <<>>
    BY DEF Init, InitBus
  <2>2. QED
    BY <1>4, <2>1, LineEmpty, InEmpty DEF StreamsInLine, AllBefore
<1>7. QED
  BY <1>1, <1>2, <1>3, <1>5, <1>6 DEF Ordered, Settled

LEMMA OrderedStep == Ordered /\ [Next]_vars => Ordered'
<1>1. ASSUME Ordered, Next PROVE Ordered'
  BY <1>1, TypedStep, LiveStep, JobsStep, NoMailStep, OrderStep, KnownStep, StreamsStep
  DEF Ordered, Settled
<1>2. ASSUME Ordered, UNCHANGED vars PROVE Ordered'
  <2>1. /\ fate' = fate /\ jobs' = jobs /\ turn' = turn /\ ring' = ring /\ mail' = mail
        /\ text' = text /\ sent' = sent /\ pc' = pc /\ seq' = seq /\ subs' = subs
        /\ inflight' = inflight
    BY <1>2 DEF vars, busVars, runVars, fwdVars
  <2>2. Typed'
    BY <1>2 DEF Ordered, Settled, Typed, BusTyped, RunTyped, FwdTyped, RestTyped, InRun,
                vars, busVars, runVars, fwdVars
  <2>3. OneLive' /\ JobsAreQueued' /\ NoMail' /\ RunOrder'
    BY <1>2, <2>1 DEF Ordered, Settled, OneLive, Live, JobsAreQueued, NoMail, RunOrder, Started
  <2>4. Given' = Given /\ SentFrames' = SentFrames
    BY <2>1 DEF Given, Heard, SentFrames
  <2>5. FramesKnown'
    BY <1>2, <2>1, <2>4 DEF Ordered, FramesKnown, Known, Started
  <2>6. StreamsInLine'
    BY <1>2, <2>1 DEF Ordered, StreamsInLine, Failed
  <2>7. QED
    BY <2>2, <2>3, <2>5, <2>6 DEF Ordered, Settled
<1>3. QED
  BY <1>1, <1>2

LEMMA OrderedHolds == Spec => []Ordered
BY OrderedInit, OrderedStep, PTL DEF Spec

-----------------------------------------------------------------------------
(* Once and in order                                                       *)

\* Nothing was folded in, neither a message nor a task result, so no flow break went out.
Unfolded == spent["fold"] = 0 /\ spent["break"] = 0

\* No forwarder is cut off in the middle of a run it has sent a part of: that takes a
\* flow break, for the part, and a run armed in vain, for the release.
NeverCut == Unfolded \/ spent["release"] = 0

\* What a fold and a release would leave behind is not there.
CutNeeds ==
  /\ spent["release"] = 0 => ~armed
  /\ Unfolded =>
       /\ ~folded /\ \A a \in Given : a.kind # "flow_break"
       /\ \A a \in SentFrames : fate[a.run] # "running"

SentLine(s, F) ==
  /\ \A n \in 1..Len(s) : InLine(s[n], F)
  /\ \A m, n \in 1..Len(s) : m < n => AllBefore(ToSet(s[m]), ToSet(s[n]), F)

\* What was sent is in line, with what the reading forwarder has, and when there is none
\* with the ring its successor will replay.
SentInLine ==
  /\ SentLine(sent, Failed)
  /\ \A f \in Forwarders : Reading(f) => AllBefore(SentFrames, Heard(f), Failed)
  /\ (\A f \in Forwarders : ~Reading(f)) => AllBefore(SentFrames, ToSet(ring), Failed)

LEMMA SentLineAppend ==
  ASSUME NEW F, NEW s \in Seq(Seq(Frames)), NEW t \in Seq(Frames), SentLine(s, F), InLine(t, F),
         \A n \in 1..Len(s) : AllBefore(ToSet(s[n]), ToSet(t), F)
  PROVE  SentLine(Append(s, t), F)
<1>1. PICK u : u = Append(s, t)
  OBVIOUS
<1>2. /\ Len(s) \in Nat /\ Len(u) = Len(s) + 1 /\ u[Len(s) + 1] = t
      /\ \A n \in 1..Len(s) : u[n] = s[n]
  BY <1>1, InAppend, LenProperties
<1>3. /\ \A n \in 1..Len(u) : n \in 1..Len(s) \/ n = Len(s) + 1
      /\ \A m, n \in 1..Len(u) : m < n => m \in 1..Len(s)
  BY <1>2
<1>4. \A n \in 1..Len(u) : InLine(u[n], F)
  BY <1>2, <1>3 DEF SentLine
<1>5. ASSUME NEW m \in 1..Len(u), NEW n \in 1..Len(u), m < n
      PROVE  AllBefore(ToSet(u[m]), ToSet(u[n]), F)
  <2>1. m \in 1..Len(s)
    BY <1>3, <1>5
  <2>2. CASE n \in 1..Len(s)
    BY <1>2, <1>5, <2>1, <2>2 DEF SentLine
  <2>3. CASE n = Len(s) + 1
    BY <1>2, <2>1, <2>3
  <2>4. QED
    BY <1>3, <2>2, <2>3
<1>6. QED
  BY <1>1, <1>4, <1>5 DEF SentLine

\* What a forwarder that ends has sent comes before all the ring holds.
LEMMA EndBeforeRing ==
  ASSUME Ordered, NEW m \in Given, m.kind \in {"complete", "error"},
         NEW a, Known(a), Follows(a, m, Failed) \/ a = m, NEW b \in ToSet(ring)
  PROVE  Follows(a, b, Failed)
<1>1. /\ Known(m) /\ m.run \in Runs /\ a.run \in Runs /\ b.run \in Runs
      /\ fate[b.run] \in Unfinished
  BY DEF Ordered, FramesKnown, Known, Frames, Given
<1>2. m.run <= b.run
  BY <1>1 DEF Ordered, Settled, RunOrder, Known
<1>3. a.run <= m.run
  BY <1>1 DEF Follows, Runs
<1>4. a.run < b.run \/ (a.run = b.run /\ m.run = b.run)
  BY <1>1, <1>2, <1>3 DEF Runs
<1>5. m.run = b.run => m.run \in Failed
  BY <1>1 DEF Known, Failed, Unfinished
<1>6. QED
  BY <1>1, <1>4, <1>5 DEF Follows

\* A step that comes to neither a flow break nor a release.
LEMMA CutSpent ==
  ASSUME Typed, Next
  PROVE  /\ Unfolded' => Unfolded /\ ~Fold /\ (FlowBreak => folded)
         /\ spent'["release"] = 0 => spent["release"] = 0 /\ ~ArmInVain
<1>1. spent \in [Faults -> Nat]
  BY DEF Typed, RestTyped
<1>2. spent' = spent \/ \E f \in Faults : Spend(f)
  BY DEF Next, Dispatch, Fold, ArmInVain, ReleaseRun, StartRun, Bind, Say, FlowBreak, FailRun,
         FinishRun, LateStop, FollowUp, ClearHistory, Join, Absorb, SendDone, Leave, TaskDone,
         ClearInflight, Faults
<1>3. Fold => spent'["fold"] # 0
  BY <1>1, Spending DEF Fold, Faults
<1>4. ArmInVain => spent'["release"] # 0
  BY <1>1, Spending DEF ArmInVain, Faults
<1>5. FlowBreak => folded \/ spent'["break"] # 0
  BY <1>1, Spending DEF FlowBreak, Faults
<1>6. \A f \in {"fold", "break", "release"} : spent'[f] = 0 => spent[f] = 0
  BY <1>1, <1>2, Spending DEF Faults
<1>7. QED
  BY <1>3, <1>4, <1>5, <1>6 DEF Unfolded

\* What a forwarder ends with is over.
LEMMA EndIsOver ==
  ASSUME Ordered, NEW m \in Given, m.kind \in {"complete", "error"},
         NEW a, Known(a), Follows(a, m, Failed) \/ a = m
  PROVE  fate[a.run] # "running"
<1>1. Known(m) /\ m.run \in Runs /\ a.run \in Runs
  BY DEF Ordered, FramesKnown, Known, Frames
<1>2. fate[a.run] = "running" => m.run <= a.run
  BY <1>1 DEF Ordered, Settled, RunOrder, Known, Unfinished
<1>3. a.run <= m.run
  BY <1>1 DEF Follows, Runs
<1>4. m.run <= a.run => m.run = a.run
  BY <1>1, <1>3 DEF Runs
<1>5. fate[m.run] # "running"
  BY <1>1 DEF Known
<1>6. QED
  BY <1>2, <1>4, <1>5

\* What is sent in a step, but for a flow break, was before the frame that ends its run.
LEMMA SentAtEnd ==
  ASSUME Ordered, Next, NEW a \in SentFrames', a \notin SentFrames
  PROVE  /\ a \in Given
         /\ \E m \in Given : /\ m.kind \in {"flow_break", "complete", "error"}
                             /\ Follows(a, m, Failed) \/ a = m
<1>1. PICK f \in Forwarders : Absorb(f)
  <2>1. sent' # sent
    BY DEF SentFrames
  <2>2. PICK f \in Forwarders : Listens(f)
    BY <2>1, StepKinds DEF Ordered, Settled, Publishes, Silences, Quiet
  <2>3. QED
    BY <2>1, <2>2, JoinFrames, LeaveFrames DEF Listens, Ordered, Settled
<1>2. PICK m \in Frames :
        /\ Takes(f, m) /\ ToSet(mail[f]) = {m} \cup ToSet(mail'[f])
        /\ \/ sent' = sent /\ SentFrames' = SentFrames
           \/ sent' = Append(sent, text[f]) /\ SentFrames' = SentFrames \cup ToSet(text[f])
           \/ m.kind = "error" /\ sent' = Append(sent, <<m>>) /\ SentFrames' = SentFrames \cup {m}
  BY <1>1, AbsorbFrames DEF Ordered, Settled
<1>3. m \in Given /\ ToSet(text[f]) \subseteq Given
  BY <1>2 DEF Given, Heard
<1>4. m.kind \in {"flow_break", "complete", "error"}
  <2>1. CASE m.kind = "text"
    BY <1>2, <2>1 DEF Takes, SentFrames
  <2>2. QED
    BY <1>2, <2>1 DEF Takes
<1>5. \A b \in ToSet(text[f]) : Follows(b, m, Failed)
  BY <1>2 DEF Ordered, StreamsInLine, AllBefore
<1>6. QED
  BY <1>2, <1>3, <1>4, <1>5

LEMMA CutStep ==
  ASSUME Ordered, CutNeeds, Next
  PROVE  CutNeeds'
<1>0. Typed /\ RunOrder /\ JobsAreQueued /\ FramesKnown
  BY DEF Ordered, Settled
<1>1. ASSUME spent'["release"] = 0 PROVE ~armed'
  BY <1>0, <1>1, CutSpent DEF CutNeeds, Next, Dispatch, Fold, ReleaseRun, StartRun, Bind, Say,
      FlowBreak, FailRun, FinishRun, LateStop, FollowUp, ClearHistory, Join, Absorb, SendDone,
      Leave, TaskDone, ClearInflight
<1>2. ASSUME Unfolded'
      PROVE  /\ ~folded' /\ \A a \in Given' : a.kind # "flow_break"
             /\ \A a \in SentFrames' : fate'[a.run] # "running"
  <2>1. /\ ~folded /\ ~Fold /\ ~FlowBreak /\ \A a \in Given : a.kind # "flow_break"
        /\ \A a \in SentFrames : fate[a.run] # "running"
    BY <1>0, <1>2, CutSpent DEF CutNeeds
  <2>2. ~folded'
    BY <2>1 DEF Next, Dispatch, ArmInVain, ReleaseRun, StartRun, Bind, Say, FailRun,
        FinishRun, LateStop, FollowUp, ClearHistory, Join, Absorb, SendDone, Leave, TaskDone,
        ClearInflight, runVars
  <2>3. \A a \in Given' : a.kind # "flow_break"
    <3>1. \A kind \in Kinds : Publishes(kind) => Frame(Current, kind).kind # "flow_break"
      BY <2>1 DEF Publishes, Frame
    <3>2. QED
      BY <1>0, <2>1, <3>1, GivenSteps
  <2>4. ASSUME NEW a \in SentFrames' PROVE fate'[a.run] # "running"
    <3>1. fate[a.run] # "running" /\ Known(a)
      <4>1. CASE a \in SentFrames
        BY <2>1, <1>0, <4>1 DEF FramesKnown, Given
      <4>2. CASE a \notin SentFrames
        BY <2>1, <1>0, <4>2, SentAtEnd, EndIsOver DEF FramesKnown
      <4>3. QED
        BY <4>1, <4>2
    <3>2. a.run \in Runs /\ Started(a.run)
      BY <3>1 DEF Known, Frames
    <3>3. QED
      BY <1>0, <3>1, <3>2, FateSteps DEF Started
  <2>5. QED
    BY <2>2, <2>3, <2>4
<1>3. QED
  BY <1>1, <1>2 DEF CutNeeds

LEMMA AloneReading ==
  ASSUME OneLive, NEW f \in Forwarders, pc[f] \in {"spawned", "recv", "send", "last", "cancelled"}
  PROVE  \A g \in Forwarders : g # f => ~Reading(g)
BY DEF OneLive, Live, Reading

LEMMA SentStep ==
  ASSUME Ordered, CutNeeds, NeverCut => SentInLine, NeverCut', Next
  PROVE  SentInLine'
<1>0. /\ Typed /\ OneLive /\ RunOrder /\ JobsAreQueued /\ FramesKnown /\ StreamsInLine
      /\ sent \in Seq(Seq(Frames)) /\ spent["release"] \in Nat
  BY DEF Ordered, Settled, Typed, RestTyped, Faults
<1>a. /\ NeverCut /\ (armed => Unfolded)
  BY <1>0, CutSpent DEF NeverCut, CutNeeds
<1>1. PICK F : F = Failed'
  OBVIOUS
<1>2. Failed \subseteq F
  BY <1>0, <1>1, FailedGrows
<1>3. /\ SentLine(sent, F)
      /\ \A f \in Forwarders : Reading(f) => AllBefore(SentFrames, Heard(f), F)
      /\ (\A f \in Forwarders : ~Reading(f)) => AllBefore(SentFrames, ToSet(ring), F)
  <2>1. SentInLine
    BY <1>a
  <2>2. QED
    BY <1>2, <2>1, LineKept DEF SentInLine, SentLine
<1>s. \A f \in Forwarders :
        /\ InLine(text[f], F) /\ InLine(mail[f], F)
        /\ AllBefore(ToSet(text[f]), ToSet(mail[f]), F)
  BY <1>1, StreamsLater
<1> DEFINE Goal == /\ SentLine(sent', F)
                   /\ \A f \in Forwarders : Reading(f)' => AllBefore(SentFrames', Heard(f)', F)
                   /\ (\A f \in Forwarders : ~Reading(f)') => AllBefore(SentFrames', ToSet(ring'), F)
<1> SUFFICES Goal
  BY <1>1 DEF SentInLine
<1>4. ASSUME NEW kind \in Kinds, Publishes(kind)
      PROVE  Goal
  <2>1. PICK m : m = Frame(Current, kind)
    OBVIOUS
  <2>2. m \in Frames /\ \A a \in Given : Follows(a, m, F)
    BY <1>0, <1>4, <2>1, Published DEF FramesKnown
  <2>3. /\ ToSet(ring') \subseteq ToSet(ring) \cup {m}
        /\ \A f \in Forwarders : ToSet(mail'[f]) \subseteq ToSet(mail[f]) \cup {m}
        /\ text' = text /\ sent' = sent /\ SentFrames' = SentFrames /\ pc' = pc
    BY <1>0, <1>4, <2>1, PublishFrames DEF Publishes
  <2>4. \A a \in SentFrames : Follows(a, m, F)
    BY <2>2 DEF Given
  <2>5. \A f \in Forwarders : Reading(f)' => AllBefore(SentFrames', Heard(f)', F)
    BY <1>3, <2>3, <2>4 DEF AllBefore, Heard, Reading
  <2>6. (\A f \in Forwarders : ~Reading(f)') => AllBefore(SentFrames', ToSet(ring'), F)
    BY <1>3, <2>3, <2>4 DEF AllBefore, Reading
  <2>7. QED
    BY <1>3, <2>3, <2>5, <2>6
<1>5. CASE Silences
  <2>1. /\ sent' = sent /\ SentFrames' = SentFrames /\ pc' = pc /\ ToSet(ring') = {}
        /\ \A f \in Forwarders : Heard(f)' = Heard(f)
    BY <1>5, InEmpty DEF Silences, SentFrames, Heard
  <2>2. QED
    BY <1>3, <2>1 DEF AllBefore, Reading
<1>6. CASE Quiet
  <2>1. /\ sent' = sent /\ SentFrames' = SentFrames /\ ring' = ring
        /\ \A f \in Forwarders : Heard(f)' = Heard(f)
        /\ \A f \in Forwarders : Reading(f)' => Reading(f)
        /\ \A f \in Forwarders : Reading(f) => Reading(f)' \/ ReleaseRun
    BY <1>6 DEF Quiet, SentFrames, Heard, Reading
  <2>2. CASE ReleaseRun
    <3>1. \A a \in SentFrames : fate[a.run] # "running"
      BY <1>a, <2>2 DEF CutNeeds, ReleaseRun
    <3>2. ASSUME NEW a \in SentFrames, NEW b \in ToSet(ring) PROVE Follows(a, b, F)
      <4>1. /\ a.run \in Runs /\ b.run \in Runs /\ Started(a.run) /\ fate[b.run] \in Unfinished
        BY <1>0 DEF FramesKnown, Known, Given, Frames
      <4>2. a.run <= b.run
        BY <1>0, <4>1 DEF RunOrder
      <4>3. a.run = b.run => a.run \in Failed
        BY <3>1, <4>1 DEF Failed, Unfinished
      <4>4. QED
        BY <1>2, <4>1, <4>2, <4>3 DEF Follows, Runs
    <3>3. QED
      BY <1>3, <2>1, <3>2 DEF AllBefore
  <2>3. CASE ~ReleaseRun
    BY <1>3, <2>1, <2>3
  <2>4. QED
    BY <2>2, <2>3
<1>7. ASSUME NEW f \in Forwarders, Listens(f)
      PROVE  Goal
  <2>1. /\ ring' = ring /\ pc[f] \in {"spawned", "recv", "send", "last", "cancelled"}
        /\ \A g \in Forwarders : g # f => /\ Heard(g)' = Heard(g)
                                          /\ Reading(g)' <=> Reading(g)
    BY <1>7 DEF Listens, Heard, Reading, Join, Absorb, Leave
  <2>2. \A g \in Forwarders : g # f => ~Reading(g) /\ ~Reading(g)'
    BY <1>0, <2>1, AloneReading
  <2>3. CASE Join(f)
    <3>1. /\ ~Reading(f) /\ Reading(f)' /\ sent' = sent /\ SentFrames' = SentFrames
          /\ Heard(f)' = ToSet(ring)
      <4>1. /\ mail'[f] = ring /\ text'[f] = <<>> /\ sent' = sent /\ pc[f] = "spawned" /\ pc'[f] = "recv"
            /\ SentFrames' = SentFrames
        BY <1>0, <2>3, JoinFrames DEF FramesKnown
      <4>2. QED
        BY <4>1, InEmpty DEF Heard, Reading
    <3>2. AllBefore(SentFrames, ToSet(ring), F)
      BY <1>3, <2>2, <3>1
    <3>3. QED
      BY <1>3, <2>2, <3>1, <3>2
  <2>4. CASE Leave(f)
    <3>1. ~Reading(f) /\ ~Reading(f)' /\ sent' = sent /\ SentFrames' = SentFrames
      BY <1>0, <2>4, LeaveFrames DEF Reading
    <3>2. QED
      BY <1>3, <2>1, <2>2, <3>1
  <2>5. CASE Absorb(f)
    <3>1. PICK m \in Frames :
            /\ Takes(f, m) /\ pc[f] = "recv"
            /\ ToSet(mail[f]) = {m} \cup ToSet(mail'[f])
            /\ text[f] \in Seq(Frames)
            /\ m.kind = "text" => ToSet(text'[f]) = ToSet(text[f]) \cup {m}
            /\ \/ sent' = sent /\ SentFrames' = SentFrames
               \/ sent' = Append(sent, text[f]) /\ SentFrames' = SentFrames \cup ToSet(text[f])
               \/ m.kind = "error" /\ sent' = Append(sent, <<m>>) /\ SentFrames' = SentFrames \cup {m}
      BY <1>0, <2>5, AbsorbFrames
    <3>2. /\ Reading(f) /\ AllBefore(SentFrames, Heard(f), F)
          /\ m \in Heard(f) /\ ToSet(text[f]) \subseteq Heard(f)
      BY <1>3, <3>1 DEF Reading, Heard
    <3>3. \A n \in 1..Len(sent) : sent[n] \in Seq(Frames) /\ ToSet(sent[n]) \subseteq SentFrames
      <4>1. DOMAIN sent = 1..Len(sent) /\ \A n \in 1..Len(sent) : sent[n] \in Seq(Frames)
        BY <1>0, InSeq, ElementOfSeq
      <4>2. QED
        BY <4>1 DEF SentFrames
    <3>4. SentLine(sent', F)
      <4>1. CASE sent' = sent
        BY <1>3, <4>1
      <4>2. CASE sent' = Append(sent, text[f])
        <5>1. \A n \in 1..Len(sent) : AllBefore(ToSet(sent[n]), ToSet(text[f]), F)
          BY <3>2, <3>3 DEF AllBefore
        <5>2. SentLine(Append(sent, text[f]), F)
          BY <1>0, <1>3, <1>s, <3>1, <5>1, SentLineAppend
        <5>3. QED
          BY <4>2, <5>2
      <4>3. CASE sent' = Append(sent, <<m>>)
        <5>1. PICK t : t = <<m>>
          OBVIOUS
        <5>2. t \in Seq(Frames) /\ Len(t) = 1 /\ DOMAIN t = {1} /\ t[1] = m
          BY <3>1, <5>1
        <5>3. ToSet(t) = {m}
          BY <5>2 DEF ToSet
        <5>4. \A n \in 1..Len(sent) : AllBefore(ToSet(sent[n]), ToSet(t), F)
          BY <3>2, <3>3, <5>3 DEF AllBefore
        <5>5. InLine(t, F)
          BY <5>2 DEF InLine
        <5>6. SentLine(Append(sent, t), F)
          BY <1>0, <1>3, <5>2, <5>4, <5>5, SentLineAppend
        <5>7. QED
          BY <4>3, <5>1, <5>6
      <4>4. QED
        BY <3>1, <4>1, <4>2, <4>3
    <3>5. \A a \in SentFrames' : Follows(a, m, F) \/ (a = m /\ m.kind = "error")
      BY <1>s, <3>1, <3>2 DEF AllBefore
    <3>6. Reading(f)' => AllBefore(SentFrames', Heard(f)', F)
      <4>1. CASE pc'[f] = "last"
        BY <4>1 DEF Reading
      <4>2. CASE m.kind = "text"
        <5>1. SentFrames' = SentFrames /\ Heard(f)' \subseteq Heard(f)
          BY <3>1, <4>2 DEF Heard, Takes, SentFrames
        <5>2. QED
          BY <3>2, <5>1 DEF AllBefore
      <4>3. CASE m.kind = "flow_break"
        <5>1. Heard(f)' = ToSet(mail'[f]) /\ SentFrames' \subseteq SentFrames \cup ToSet(text[f])
          BY <3>1, <4>3, InEmpty DEF Heard, Takes
        <5>2. ToSet(mail'[f]) \subseteq ToSet(mail[f])
          BY <3>1
        <5>3. QED
          BY <1>s, <3>2, <5>1, <5>2 DEF AllBefore, Heard
      <4>4. QED
        BY <3>1, <4>1, <4>2, <4>3 DEF Takes
    <3>7. ~Reading(f)' => AllBefore(SentFrames', ToSet(ring), F)
      <4> SUFFICES ASSUME ~Reading(f)', NEW a \in SentFrames', NEW b \in ToSet(ring)
                   PROVE  Follows(a, b, F)
        BY DEF AllBefore
      <4>1. m.kind \in {"complete", "error"}
        BY <3>1 DEF Takes, Reading
      <4>2. m \in Given /\ SentFrames' \subseteq Given
        BY <3>1, <3>2 DEF Given, Heard
      <4>3. Known(a)
        BY <1>0, <4>2 DEF FramesKnown
      <4>4. Follows(a, m, Failed) \/ a = m
        <5>1. SentInLine
          BY <1>a
        <5>2. AllBefore(SentFrames, Heard(f), Failed)
          BY <3>2, <5>1 DEF SentInLine
        <5>3. AllBefore(ToSet(text[f]), ToSet(mail[f]), Failed)
          BY <1>0 DEF StreamsInLine
        <5>4. QED
          BY <3>1, <3>2, <5>2, <5>3 DEF AllBefore
      <4>5. Follows(a, b, Failed)
        BY <4>1, <4>2, <4>3, <4>4, EndBeforeRing
      <4>6. QED
        BY <1>2, <4>5, LineKept
    <3>8. QED
      BY <2>1, <2>2, <3>4, <3>6, <3>7
  <2>6. QED
    BY <1>7, <2>3, <2>4, <2>5 DEF Listens
<1>8. QED
  BY <1>0, <1>4, <1>5, <1>6, <1>7, StepKinds

LEMMA LineIsOnce ==
  ASSUME Typed, FramesKnown, SentInLine
  PROVE  OnceInOrder
<1>0. sent \in Seq(Seq(Frames))
  BY DEF Typed, RestTyped
<1>1. DOMAIN sent = 1..Len(sent) /\ \A n \in 1..Len(sent) : sent[n] \in Seq(Frames)
  BY <1>0, InSeq, ElementOfSeq
<1>2. \A n \in DOMAIN sent : /\ DOMAIN sent[n] = 1..Len(sent[n])
                             /\ \A i \in DOMAIN sent[n] : sent[n][i] \in ToSet(sent[n])
  BY <1>1, InSeq
<1>3. ASSUME NEW m \in DOMAIN sent, NEW n \in DOMAIN sent,
             NEW i \in DOMAIN sent[m], NEW j \in DOMAIN sent[n],
             m < n \/ (m = n /\ i < j),
             {fate[sent[m][i].run], fate[sent[n][j].run]} \cap {"failing", "failed"} = {}
      PROVE  Before(sent[m][i], sent[n][j])
  <2>1. Follows(sent[m][i], sent[n][j], Failed)
    <3>1. CASE m < n
      BY <1>1, <1>2, <3>1 DEF SentInLine, SentLine, AllBefore
    <3>2. CASE m = n /\ i < j
      BY <1>1, <1>2, <3>2 DEF SentInLine, SentLine, InLine
    <3>3. QED
      BY <1>3, <3>1, <3>2
  <2>2. sent[m][i].run \notin Failed
    BY <1>3 DEF Failed
  <2>3. QED
    BY <2>1, <2>2 DEF Follows, Before
<1>4. QED
  BY <1>3 DEF OnceInOrder

\* The platform gets each piece of text once and in the order it was said, over flow
\* breaks, chained forwarders, replays, truncated rings, Stops and cleared histories,
\* as long as no forwarder can be cut off in the middle of a run it has sent a part of
\* (_forward_reply, StreamBus.subscribe, end_run).
THEOREM EachPieceOnce == Spec => [](NeverCut => OnceInOrder)
<1> DEFINE Inv == Ordered /\ CutNeeds /\ (NeverCut => SentInLine)
<1>1. Init => Inv
  <2> SUFFICES ASSUME Init PROVE Inv
    OBVIOUS
  <2>1. Ordered /\ sent = <<>> /\ SentFrames = {}
    BY OrderedInit DEF Init, SentFrames
  <2>2. Given = {} /\ ~armed /\ ~folded
    <3>1. ring = <<>> /\ \A f \in Forwarders : text[f] = <<>> /\ mail[f] = <<>>
      BY DEF Init, InitBus, Forwarders
    <3>2. ~armed /\ ~folded
      BY DEF Init
    <3>3. QED
      BY <2>1, <3>1, <3>2, InEmpty DEF Given, Heard
  <2>3. CutNeeds
    BY <2>1, <2>2 DEF CutNeeds
  <2>4. SentInLine
    <3>1. Len(sent) = 0
      BY <2>1, EmptySeq
    <3>2. 1..0 = {}
      OBVIOUS
    <3>3. QED
      BY <2>1, <3>1, <3>2 DEF SentInLine, SentLine, AllBefore
  <2>5. QED
    BY <2>1, <2>3, <2>4
<1>2. ASSUME Inv, [Next]_vars PROVE Inv'
  <2>1. Ordered'
    BY <1>2, OrderedStep
  <2>2. CASE Next
    BY <1>2, <2>1, <2>2, CutStep, SentStep
  <2>3. CASE UNCHANGED vars
    <3>1. /\ fate' = fate /\ ring' = ring /\ mail' = mail /\ text' = text /\ sent' = sent
          /\ pc' = pc /\ spent' = spent /\ armed' = armed /\ folded' = folded
      BY <2>3 DEF vars, busVars, runVars, fwdVars
    <3>2. Given' = Given /\ SentFrames' = SentFrames /\ Failed' = Failed
          /\ \A f \in Forwarders : Heard(f)' = Heard(f) /\ (Reading(f)' <=> Reading(f))
      BY <3>1 DEF Given, Heard, SentFrames, Failed, Reading
    <3>3. CutNeeds'
      BY <1>2, <3>1, <3>2 DEF CutNeeds, Unfolded
    <3>4. (NeverCut => SentInLine)'
      BY <1>2, <3>1, <3>2 DEF NeverCut, Unfolded, SentInLine
    <3>5. QED
      BY <2>1, <3>3, <3>4
  <2>4. QED
    BY <1>2, <2>2, <2>3
<1>3. Inv => (NeverCut => OnceInOrder)
  BY LineIsOnce DEF Ordered, Settled
<1>4. QED
  BY <1>1, <1>2, <1>3, PTL DEF Spec

-----------------------------------------------------------------------------
(* One run's words in a message                                            *)

Stopped == {r \in Runs : fate[r] = "stopped"}

\* Whichever run of C has a frame among S has a terminal one among T.
Ends(S, T, C) == \A a \in S : a.run \in C => \E b \in T : b.run = a.run /\ Terminal(b)

\* The frames of s are one run's, but for what the runs of X left.
OneRun(s, X) == \A i, j \in 1..Len(s) : i < j => s[i].run = s[j].run \/ s[i].run \in X

\* A forwarder still hears the end of every run that has one, unless the bus dropped it,
\* and what it has collected is of one run.
EndsHeard ==
  /\ Ends(ToSet(ring), ToSet(ring), Concluded)
  /\ \A f \in Forwarders : Reading(f) =>
       /\ Ends(Heard(f), ToSet(mail[f]), Concluded)
       /\ f \notin subs => \A a \in Heard(f) : fate[a.run] \notin Unfinished
  /\ \A f \in Forwarders : OneRun(text[f], Stopped)
  /\ \A n \in 1..Len(sent) : OneRun(sent[n], Stopped)

LEMMA OneRunAppend ==
  ASSUME NEW X, NEW s \in Seq(Frames), NEW m \in Frames, OneRun(s, X),
         \A a \in ToSet(s) : a.run = m.run \/ a.run \in X
  PROVE  OneRun(Append(s, m), X)
<1>1. PICK t : t = Append(s, m)
  OBVIOUS
<1>2. /\ Len(s) \in Nat /\ Len(t) = Len(s) + 1 /\ \A i \in 1..Len(s) : t[i] = s[i]
      /\ t[Len(s) + 1] = m
  BY <1>1, InAppend, LenProperties
<1>3. \A i \in 1..Len(s) : s[i] \in ToSet(s)
  BY InSeq
<1>4. ASSUME NEW i \in 1..Len(t), NEW j \in 1..Len(t), i < j
      PROVE  t[i].run = t[j].run \/ t[i].run \in X
  <2>1. i \in 1..Len(s) /\ (j \in 1..Len(s) \/ j = Len(s) + 1)
    BY <1>2, <1>4
  <2>2. CASE j \in 1..Len(s)
    BY <1>2, <1>4, <2>1, <2>2 DEF OneRun
  <2>3. CASE j = Len(s) + 1
    BY <1>2, <1>3, <2>1, <2>3
  <2>4. QED
    BY <2>1, <2>2, <2>3
<1>5. QED
  BY <1>1, <1>4 DEF OneRun

LEMMA OneRunShort ==
  ASSUME NEW X
  PROVE  OneRun(<<>>, X) /\ \A m \in Frames : <<m>> \in Seq(Frames) /\ OneRun(<<m>>, X)
<1>1. \A m \in Frames : <<m>> \in Seq(Frames) /\ Len(<<m>>) = 1
  OBVIOUS
<1>2. Len(<<>>) = 0
  BY EmptySeq
<1>3. QED
  BY <1>1, <1>2 DEF OneRun

\* A word is added to a collection that is of its run, or of runs that were stopped.
LEMMA NextWord ==
  ASSUME Ordered, EndsHeard, NEW f \in Forwarders, Reading(f),
         NEW m \in ToSet(mail[f]), ~Terminal(m),
         AllBefore({m}, ToSet(mail[f]) \ {m}, Failed), NEW a \in ToSet(text[f])
  PROVE  a.run = m.run \/ a.run \in Stopped
<1> SUFFICES ASSUME a.run # m.run PROVE a.run \in Stopped
  OBVIOUS
<1>1. /\ a.run \in Runs /\ m.run \in Runs /\ Started(a.run) /\ Started(m.run)
      /\ \A b \in ToSet(mail[f]) : b.run \in Runs
  BY DEF Ordered, FramesKnown, Known, Given, Heard, Frames
<1>2. a.run < m.run
  BY DEF Ordered, StreamsInLine, AllBefore, Follows
<1>3. fate[a.run] \notin Unfinished
  <2>1. fate[a.run] \in Unfinished => m.run <= a.run
    BY <1>1 DEF Ordered, Settled, RunOrder
  <2>2. QED
    BY <1>1, <1>2, <2>1 DEF Runs
<1>4. a.run \notin Concluded
  <2> SUFFICES ASSUME a.run \in Concluded PROVE FALSE
    OBVIOUS
  <2>1. PICK b \in ToSet(mail[f]) : b.run = a.run /\ Terminal(b)
    BY DEF EndsHeard, Ends, Heard
  <2>2. Follows(m, b, Failed)
    BY <2>1 DEF AllBefore
  <2>3. m.run <= a.run
    BY <1>1, <2>1, <2>2 DEF Follows, Runs
  <2>4. QED
    BY <1>1, <1>2, <2>3 DEF Runs
<1>5. QED
  BY <1>1, <1>3, <1>4 DEF Started, Unfinished, Concluded, Stopped

LEMMA EndsStep ==
  ASSUME Ordered, EndsHeard, Next
  PROVE  EndsHeard'
<1>0. /\ Typed /\ JobsAreQueued /\ RunOrder /\ FramesKnown /\ StreamsInLine /\ Ordered'
      /\ sent \in Seq(Seq(Frames)) /\ text \in [Forwarders -> Seq(Frames)]
      /\ ring \in Seq(Frames)
  BY OrderedStep DEF Ordered, Settled, Typed, RestTyped, FwdTyped, BusTyped
<1>1. PICK X : X = Stopped'
  OBVIOUS
<1>2. /\ \A f \in Forwarders : OneRun(text[f], X)
      /\ \A n \in 1..Len(sent) : OneRun(sent[n], X)
  <2>1. Stopped \subseteq X
    BY <1>0, <1>1, FateSteps DEF Stopped, Started
  <2>2. QED
    BY <2>1 DEF EndsHeard, OneRun
<1>3. /\ \A a \in Given : a.run \in Runs /\ Started(a.run)
      /\ \A a \in Given : fate[a.run] \notin Unfinished => fate'[a.run] \notin Unfinished
  <2>1. \A a \in Given : a.run \in Runs /\ Started(a.run)
    BY <1>0 DEF FramesKnown, Known, Frames
  <2>2. QED
    BY <1>0, <2>1, FateSteps DEF Unfinished, Started
<1> DEFINE Goal == /\ Ends(ToSet(ring'), ToSet(ring'), Concluded')
                   /\ \A f \in Forwarders : Reading(f)' =>
                        /\ Ends(Heard(f)', ToSet(mail'[f]), Concluded')
                        /\ f \notin subs' => \A a \in Heard(f)' : fate'[a.run] \notin Unfinished
                   /\ \A f \in Forwarders : OneRun(text'[f], X)
                   /\ \A n \in 1..Len(sent') : OneRun(sent'[n], X)
<1> SUFFICES Goal
  BY <1>1 DEF EndsHeard
<1>4. ASSUME NEW kind \in Kinds, Publishes(kind)
      PROVE  Goal
  <2>1. PICK m : m = Frame(Current, kind)
    OBVIOUS
  <2>2. /\ m \in Frames /\ m.run = Current /\ m.kind = kind
        /\ Current \in Runs /\ fate[Current] \in Unfinished
        /\ \A r \in Runs : fate[r] \in Unfinished => r = Current
    BY <1>0, <1>4, <2>1, Published, CurrentIsLast DEF Publishes
  <2>3. /\ ToSet(ring') \subseteq ToSet(ring) \cup {m} /\ Append(ring, m) \in Seq(Frames)
        /\ ring' = <<>> \/ ring' = Newest(Append(ring, m))
        /\ \A f \in Forwarders :
              /\ f \in subs => ToSet(mail'[f]) = ToSet(mail[f]) \cup {m}
              /\ f \notin subs => mail'[f] = mail[f]
        /\ text' = text /\ sent' = sent /\ subs' = subs /\ pc' = pc
    BY <1>0, <1>4, <2>1, PublishFrames DEF Publishes
  <2>4. /\ \A r \in Concluded' : r \in Concluded \/ (r = Current /\ Terminal(m))
        /\ Current \in Concluded' => Terminal(m)
    BY <1>4, <2>2 DEF Publishes, Concluded, Terminal
  <2>5. Ends(ToSet(ring'), ToSet(ring'), Concluded')
    <3>1. CASE ring' = <<>>
      BY <3>1, InEmpty DEF Ends
    <3>2. CASE ring' = Newest(Append(ring, m))
      <4>1. m \in ToSet(ring')
        <5>1. PICK s : s = Append(ring, m)
          OBVIOUS
        <5>2. s \in Seq(Frames) /\ Len(s) = Len(ring) + 1 /\ s[Len(s)] = m /\ Len(ring) \in Nat
          BY <1>0, <2>2, <5>1, AppendProperties, LenProperties
        <5>3. PICK d \in Nat :
                /\ d + Len(Newest(s)) = Len(s) /\ Newest(s) \in Seq(Frames)
                /\ \A i \in 1..Len(Newest(s)) : Newest(s)[i] = s[i + d]
                /\ Len(s) > 0 => Len(Newest(s)) > 0
          BY <5>2, InNewest
        <5>4. Len(Newest(s)) \in 1..Len(Newest(s)) /\ Len(Newest(s)) + d = Len(s)
          <6>1. Len(Newest(s)) \in Nat
            BY <5>3, LenProperties
          <6>2. QED
            BY <5>2, <5>3, <6>1
        <5>5. Newest(s)[Len(Newest(s))] = m
          BY <5>2, <5>3, <5>4
        <5>6. m \in ToSet(Newest(s))
          BY <5>3, <5>4, <5>5, InSeq
        <5>7. QED
          BY <3>2, <5>1, <5>6
      <4>2. \A a \in ToSet(ring') : a.run = Current
        BY <1>0, <1>3, <2>2, <2>3 DEF FramesKnown, Given
      <4>3. QED
        BY <2>2, <2>4, <4>1, <4>2 DEF Ends
    <3>3. QED
      BY <2>3, <3>1, <3>2
  <2>6. ASSUME NEW f \in Forwarders, Reading(f)'
        PROVE  /\ Ends(Heard(f)', ToSet(mail'[f]), Concluded')
               /\ f \notin subs' => \A a \in Heard(f)' : fate'[a.run] \notin Unfinished
    <3>1. Reading(f)
      BY <2>3, <2>6 DEF Reading
    <3>2. Ends(Heard(f), ToSet(mail[f]), Concluded)
      BY <3>1 DEF EndsHeard
    <3>3. CASE f \in subs
      <4>1. Heard(f)' = Heard(f) \cup {m} /\ ToSet(mail'[f]) = ToSet(mail[f]) \cup {m}
        BY <2>3, <3>3 DEF Heard
      <4>2. QED
        BY <2>2, <2>3, <2>4, <3>2, <3>3, <4>1 DEF Ends
    <3>4. CASE f \notin subs
      <4>1. Heard(f)' = Heard(f) /\ mail'[f] = mail[f]
        BY <2>3, <3>4 DEF Heard
      <4>2. \A a \in Heard(f) : fate[a.run] \notin Unfinished /\ a \in Given
        BY <3>1, <3>4 DEF EndsHeard, Given
      <4>3. \A a \in Heard(f) : a.run # Current
        BY <2>2, <4>2
      <4>4. QED
        BY <1>3, <2>4, <3>2, <4>1, <4>2, <4>3 DEF Ends
    <3>5. QED
      BY <3>3, <3>4
  <2>7. QED
    BY <1>2, <2>3, <2>5, <2>6
<1>5. CASE Silences
  <2>1. /\ sent' = sent /\ text' = text /\ mail' = mail /\ ToSet(ring') = {}
        /\ \A f \in Forwarders : Heard(f)' = Heard(f) /\ (Reading(f)' <=> Reading(f))
        /\ Concluded' \subseteq Concluded
    BY <1>5, InEmpty DEF Silences, Heard, Reading
  <2>2. ASSUME NEW f \in Forwarders, Reading(f), f \notin subs', NEW a \in Heard(f)
        PROVE  fate'[a.run] \notin Unfinished
    <3>1. CASE subs' = subs
      BY <1>3, <2>2, <3>1 DEF EndsHeard, Given
    <3>2. CASE turn' # "run"
      <4>1. RunOrder' /\ a.run \in Runs
        BY <1>0, <1>3, <2>2 DEF Ordered, Settled, Given
      <4>2. QED
        BY <3>2, <4>1 DEF RunOrder
    <3>3. QED
      BY <1>5, <3>1, <3>2 DEF Silences
  <2>3. QED
    BY <1>2, <2>1, <2>2 DEF Ends, EndsHeard
<1>6. CASE Quiet
  <2>1. /\ UNCHANGED <<sent, text, mail, ring, subs>>
        /\ \A f \in Forwarders : Heard(f)' = Heard(f) /\ (Reading(f)' => Reading(f))
    BY <1>6 DEF Quiet, Heard, Reading
  <2>2. Concluded' = Concluded
    BY <1>6 DEF Quiet, Concluded, Started
  <2>3. \A f \in Forwarders : \A a \in Heard(f) : a \in Given
    BY DEF Given
  <2>4. QED
    BY <1>2, <1>3, <2>1, <2>2, <2>3 DEF EndsHeard
<1>7. ASSUME NEW f \in Forwarders, Listens(f)
      PROVE  Goal
  <2>1. /\ ring' = ring /\ fate' = fate /\ Concluded' = Concluded
        /\ \A g \in Forwarders : g # f =>
             /\ Heard(g)' = Heard(g) /\ text'[g] = text[g] /\ mail'[g] = mail[g]
             /\ (Reading(g)' <=> Reading(g)) /\ (g \in subs' <=> g \in subs)
    BY <1>7 DEF Listens, Heard, Reading, Concluded
  <2> DEFINE Own == /\ Reading(f)' => /\ Ends(Heard(f)', ToSet(mail'[f]), Concluded)
                                      /\ f \notin subs' => \A a \in Heard(f)' : fate[a.run] \notin Unfinished
                    /\ OneRun(text'[f], X)
                    /\ \A n \in 1..Len(sent') : OneRun(sent'[n], X)
  <2>2. Own
    <3>1. CASE Join(f)
      <4>1. /\ mail'[f] = ring /\ text'[f] = <<>> /\ sent' = sent /\ f \in subs'
        BY <1>0, <3>1, JoinFrames DEF FramesKnown
      <4>2. Heard(f)' = ToSet(ring)
        BY <4>1, InEmpty DEF Heard
      <4>3. QED
        BY <1>2, <4>1, <4>2, OneRunShort DEF EndsHeard
    <3>2. CASE Leave(f)
      <4>1. sent' = sent /\ text'[f] = <<>> /\ ~Reading(f)'
        BY <1>0, <3>2, LeaveFrames DEF Reading
      <4>2. QED
        BY <1>2, <4>1, OneRunShort
    <3>3. CASE Absorb(f)
      <4>1. PICK m \in Frames :
              /\ Takes(f, m) /\ mail[f] # <<>> /\ m = Head(mail[f])
              /\ mail'[f] = Tail(mail[f]) /\ ToSet(mail[f]) = {m} \cup ToSet(mail'[f])
              /\ pc[f] = "recv" /\ subs' = subs
              /\ text[f] \in Seq(Frames) /\ mail[f] \in Seq(Frames)
              /\ m.kind = "text" => ToSet(text'[f]) = ToSet(text[f]) \cup {m}
        BY <1>0, <3>3, AbsorbFrames
      <4>2. Reading(f) /\ m \in ToSet(mail[f])
        BY <4>1 DEF Reading
      <4>3. \A n \in 1..Len(sent') : OneRun(sent'[n], X)
        <5>1. CASE sent' = sent
          BY <1>2, <5>1
        <5>2. ASSUME NEW t \in Seq(Frames), OneRun(t, X), sent' = Append(sent, t)
              PROVE  \A n \in 1..Len(sent') : OneRun(sent'[n], X)
          <6>1. /\ Len(sent) \in Nat /\ Len(sent') = Len(sent) + 1
                /\ \A n \in 1..Len(sent) : sent'[n] = sent[n]
                /\ sent'[Len(sent) + 1] = t
            BY <1>0, <5>2, SentMore
          <6>2. \A n \in 1..Len(sent') : n \in 1..Len(sent) \/ n = Len(sent) + 1
            BY <6>1
          <6>3. QED
            BY <1>2, <5>2, <6>1, <6>2
        <5>3. CASE sent' = Append(sent, text[f])
          BY <1>2, <4>1, <5>2, <5>3
        <5>4. CASE sent' = Append(sent, <<m>>)
          <6>1. <<m>> \in Seq(Frames) /\ OneRun(<<m>>, X)
            BY <4>1, OneRunShort
          <6>2. QED
            BY <5>2, <5>4, <6>1
        <5>5. QED
          BY <4>1, <5>1, <5>3, <5>4 DEF Takes
      <4>4. OneRun(text'[f], X)
        <5>1. CASE m.kind = "text"
          <6>1. AllBefore({m}, ToSet(mail[f]) \ {m}, Failed) /\ ~Terminal(m)
            <7>1. AllBefore({m}, ToSet(Tail(mail[f])), Failed)
              BY <1>0, <4>1, LineTail DEF StreamsInLine
            <7>2. QED
              BY <4>1, <5>1, <7>1 DEF AllBefore, Terminal
          <6>2. \A a \in ToSet(text[f]) : a.run = m.run \/ a.run \in Stopped
            BY <4>2, <6>1, NextWord
          <6>3. Stopped \subseteq X
            BY <1>0, <1>1, FateSteps DEF Stopped, Started
          <6>4. OneRun(Append(text[f], m), X)
            BY <1>2, <4>1, <6>2, <6>3, OneRunAppend
          <6>5. QED
            BY <4>1, <5>1, <6>4 DEF Takes
        <5>2. CASE m.kind # "text"
          BY <1>2, <4>1, <5>2, OneRunShort DEF Takes
        <5>3. QED
          BY <5>1, <5>2
      <4>5. Reading(f)' => /\ Ends(Heard(f)', ToSet(mail'[f]), Concluded)
                           /\ f \notin subs' => \A a \in Heard(f)' : fate[a.run] \notin Unfinished
        <5> SUFFICES ASSUME Reading(f)'
                     PROVE  /\ Ends(Heard(f)', ToSet(mail'[f]), Concluded)
                            /\ f \notin subs' => \A a \in Heard(f)' : fate[a.run] \notin Unfinished
          OBVIOUS
        <5>1. ~Terminal(m) /\ Heard(f)' \subseteq Heard(f)
          <6>1. ~Terminal(m)
            BY <4>1 DEF Takes, Reading, Terminal
          <6>2. Heard(f)' \subseteq Heard(f)
            BY <4>1, InEmpty DEF Takes, Heard
          <6>3. QED
            BY <6>1, <6>2
        <5>2. Ends(Heard(f), ToSet(mail[f]), Concluded)
          BY <4>2 DEF EndsHeard
        <5>3. Ends(Heard(f)', ToSet(mail'[f]), Concluded)
          BY <4>1, <5>1, <5>2 DEF Ends
        <5>4. QED
          BY <4>1, <4>2, <5>1, <5>3 DEF EndsHeard
      <4>6. QED
        BY <4>3, <4>4, <4>5
    <3>4. QED
      BY <1>7, <3>1, <3>2, <3>3 DEF Listens
  <2>3. Ends(ToSet(ring'), ToSet(ring'), Concluded')
    BY <2>1 DEF EndsHeard
  <2>4. ASSUME NEW g \in Forwarders, g # f
        PROVE  /\ Reading(g)' => /\ Ends(Heard(g)', ToSet(mail'[g]), Concluded')
                                 /\ g \notin subs' => \A a \in Heard(g)' : fate'[a.run] \notin Unfinished
               /\ OneRun(text'[g], X)
    BY <1>2, <2>1, <2>4 DEF EndsHeard
  <2>5. QED
    BY <2>1, <2>2, <2>3, <2>4
<1>8. QED
  BY <1>0, <1>4, <1>5, <1>6, <1>7, StepKinds

\* A message the platform gets carries one run's words: a forwarder hears the end of each
\* run it has collected something of, and ends with it, unless a Stop left the run with
\* no terminal frame (_forward_reply, run_agent_to_bus's finally).
THEOREM OneRunPerMessage == Spec => []OneVoice
<1>1. Init => EndsHeard
  <2> SUFFICES ASSUME Init PROVE EndsHeard
    OBVIOUS
  <2>1. /\ ring = <<>> /\ sent = <<>> /\ \A f \in Forwarders : text[f] = <<>> /\ ~Reading(f)
    BY DEF Init, InitBus, Forwarders, Reading
  <2>2. 1..Len(sent) = {}
    BY <2>1, EmptySeq
  <2>3. QED
    BY <2>1, <2>2, InEmpty, OneRunShort DEF EndsHeard, Ends
<1>2. ASSUME Ordered, EndsHeard, [Next]_vars PROVE EndsHeard'
  <2>1. CASE UNCHANGED vars
    <3>1. /\ fate' = fate /\ ring' = ring /\ mail' = mail /\ text' = text /\ sent' = sent
          /\ pc' = pc /\ subs' = subs
      BY <2>1 DEF vars, busVars, runVars, fwdVars
    <3>2. /\ Stopped' = Stopped /\ Concluded' = Concluded
          /\ \A f \in Forwarders : Heard(f)' = Heard(f) /\ (Reading(f)' <=> Reading(f))
      BY <3>1 DEF Heard, Stopped, Concluded, Reading
    <3>3. QED
      BY <1>2, <3>1, <3>2 DEF EndsHeard
  <2>2. QED
    BY <1>2, <2>1, EndsStep
<1>3. Ordered /\ EndsHeard => OneVoice
  <2> SUFFICES ASSUME Ordered, EndsHeard,
                      NEW n \in DOMAIN sent, NEW j \in DOMAIN sent[n]
               PROVE  sent[n][j].run = sent[n][Len(sent[n])].run \/ fate[sent[n][j].run] = "stopped"
    BY DEF OneVoice
  <2>1. sent \in Seq(Seq(Frames)) /\ n \in 1..Len(sent) /\ sent[n] \in Seq(Frames)
    <3>1. sent \in Seq(Seq(Frames))
      BY DEF Ordered, Settled, Typed, RestTyped
    <3>2. QED
      BY <3>1, InSeq, ElementOfSeq
  <2>2. j \in 1..Len(sent[n]) /\ Len(sent[n]) \in Nat
    BY <2>1, InSeq
  <2>3. j = Len(sent[n]) \/ (j < Len(sent[n]) /\ Len(sent[n]) \in 1..Len(sent[n]))
    BY <2>2
  <2>4. QED
    BY <2>1, <2>2, <2>3 DEF EndsHeard, OneRun, Stopped
<1>4. QED
  BY <1>1, <1>2, <1>3, OrderedHolds, PTL DEF Spec

-----------------------------------------------------------------------------
(* Replay and queue leave no gap                                           *)

TextsOf(S) == {a \in S : a.kind = "text"}

\* While the ring has lost nothing it holds each text of the run, whoever subscribed has
\* been given them, and nobody has others.
RingHoldsAll ==
  turn = "run" /\ Len(ring) < RingCap =>
    /\ IsFiniteSet({a.seq : a \in TextsOf(ToSet(ring))})
    /\ Cardinality({a.seq : a \in TextsOf(ToSet(ring))}) = texts
    /\ \A a \in SentFrames \cup UNION {Heard(f) : f \in Forwarders} :
         a.kind = "text" /\ fate[a.run] \in Unfinished => a \in ToSet(ring)
    /\ \A f \in subs : TextsOf(ToSet(ring)) \subseteq Heard(f) \cup SentFrames

\* A subscriber is a forwarder that has not left.
LEMMA SubscriberIsIn ==
  ASSUME Ordered
  PROVE  \A f \in subs : f \in Forwarders /\ pc[f] \in {"recv", "send", "last", "cancelled"}
<1>1. NoMail /\ subs \subseteq Forwarders /\ pc \in [Forwarders -> Places]
  BY DEF Ordered, Settled, Typed, BusTyped, FwdTyped, Forwarders
<1>2. QED
  BY <1>1 DEF NoMail, Places

LEMMA RingStep ==
  ASSUME Ordered, RingHoldsAll, Next
  PROVE  RingHoldsAll'
<1>0. /\ Typed /\ JobsAreQueued /\ RunOrder /\ FramesKnown /\ Ordered'
      /\ ring \in Seq(Frames) /\ Len(ring) \in Nat /\ seq \in Nat /\ texts \in Nat
      /\ RingCap \in Nat \ {0}
  BY OrderedStep, LenProperties, BoundsAssumption, RingCapAssumption
  DEF Ordered, Settled, Typed, RunTyped, BusTyped
<1>k. \A a \in Given : a.run \in Runs /\ Started(a.run) /\ a \in Frames
  BY <1>0 DEF FramesKnown, Known, Frames
<1> DEFINE Full == SentFrames \cup UNION {Heard(f) : f \in Forwarders}
           Goal == /\ IsFiniteSet({a.seq : a \in TextsOf(ToSet(ring'))})
                   /\ Cardinality({a.seq : a \in TextsOf(ToSet(ring'))}) = texts'
                   /\ \A a \in Full' : a.kind = "text" /\ fate'[a.run] \in Unfinished
                        => a \in ToSet(ring')
                   /\ \A f \in subs' : TextsOf(ToSet(ring')) \subseteq Heard(f)' \cup SentFrames'
<1> SUFFICES ASSUME turn' = "run", Len(ring') < RingCap PROVE Goal
  BY DEF RingHoldsAll
<1>h. turn = "run" /\ Len(ring) < RingCap =>
        /\ IsFiniteSet({a.seq : a \in TextsOf(ToSet(ring))})
        /\ Cardinality({a.seq : a \in TextsOf(ToSet(ring))}) = texts
        /\ \A a \in Full : a.kind = "text" /\ fate[a.run] \in Unfinished => a \in ToSet(ring)
        /\ \A f \in subs : TextsOf(ToSet(ring)) \subseteq Heard(f) \cup SentFrames
  BY DEF RingHoldsAll
<1>g. Full \subseteq Given
  BY DEF Given
<1>1. ASSUME NEW kind \in Kinds, Publishes(kind)
      PROVE  Goal
  <2>1. PICK m : m = Frame(Current, kind)
    OBVIOUS
  <2>2. /\ m \in Frames /\ m.run = Current /\ m.kind = kind /\ m.seq = seq + 1
        /\ \A r \in Runs : fate[r] \in Unfinished => r = Current
    BY <1>0, <1>1, <2>1, Published, CurrentIsLast DEF Publishes
  <2>3. /\ ring' = Newest(Append(ring, m)) /\ Append(ring, m) \in Seq(Frames)
        /\ \A f \in Forwarders :
              /\ f \in subs => ToSet(mail'[f]) = ToSet(mail[f]) \cup {m}
              /\ f \notin subs => mail'[f] = mail[f]
        /\ text' = text /\ SentFrames' = SentFrames /\ subs' = subs /\ turn = "run"
        /\ \A r \in Runs : Started(r) /\ fate'[r] \in Unfinished => fate[r] \in Unfinished
    <3>1. Append(ring, m) \in Seq(Frames)
      BY <1>0, <1>1, <2>1, PublishFrames
    <3>2. /\ \A f \in Forwarders :
              /\ f \in subs => ToSet(mail'[f]) = ToSet(mail[f]) \cup {m}
              /\ f \notin subs => mail'[f] = mail[f]
          /\ text' = text /\ SentFrames' = SentFrames
      BY <1>0, <1>1, <2>1, PublishFrames
    <3>3. ring' = Newest(Append(ring, m)) /\ subs' = subs /\ turn = "run"
      BY <1>1, <2>1 DEF Publishes
    <3>4. \A r \in Runs : Started(r) /\ fate'[r] \in Unfinished => fate[r] \in Unfinished
      BY <1>0, FateSteps DEF Unfinished, Started
    <3>5. QED
      BY <3>1, <3>2, <3>3, <3>4
  <2>4. PICK s : s = Append(ring, m)
    OBVIOUS
  <2>5. /\ s \in Seq(Frames) /\ Len(s) = Len(ring) + 1 /\ ring' = s /\ Len(ring) < RingCap
        /\ ToSet(s) = ToSet(ring) \cup {m}
    <3>1. s \in Seq(Frames) /\ Len(s) = Len(ring) + 1 /\ ToSet(s) = ToSet(ring) \cup {m}
      BY <1>0, <2>2, <2>4, InAppend
    <3>2. ring' = s
      BY <2>3, <2>4, <3>1, InNewest
    <3>3. QED
      BY <1>0, <3>1, <3>2
  <2>6. \A a \in Given : a.run \in Runs /\ (fate'[a.run] \in Unfinished => fate[a.run] \in Unfinished)
    BY <1>k, <2>3
  <2>7. \A f \in Forwarders : Heard(f)' \subseteq Heard(f) \cup {m}
                              /\ (f \in subs => Heard(f)' = Heard(f) \cup {m})
    BY <2>3 DEF Heard
  <2>8. Full' \subseteq Full \cup {m}
    BY <2>3, <2>7
  <2>9. \A a \in Full' : a.kind = "text" /\ fate'[a.run] \in Unfinished => a \in ToSet(ring')
    BY <1>h, <1>g, <2>3, <2>5, <2>6, <2>8
  <2>10. \A f \in subs' : TextsOf(ToSet(ring')) \subseteq Heard(f)' \cup SentFrames'
    <3>1. \A f \in subs : f \in Forwarders
      BY SubscriberIsIn
    <3>2. QED
      BY <1>h, <2>3, <2>5, <2>7, <3>1 DEF TextsOf
  <2>11. /\ IsFiniteSet({a.seq : a \in TextsOf(ToSet(ring'))})
         /\ Cardinality({a.seq : a \in TextsOf(ToSet(ring'))}) = texts'
    <3> DEFINE N == {a.seq : a \in TextsOf(ToSet(ring))}
    <3>1. IsFiniteSet(N) /\ Cardinality(N) = texts
      BY <1>h, <2>3, <2>5
    <3>2. CASE kind = "text"
      <4>1. texts' = texts + 1
        BY <1>1, <3>2 DEF Publishes
      <4>2. {a.seq : a \in TextsOf(ToSet(ring'))} = N \cup {seq + 1}
        BY <2>2, <2>5, <3>2 DEF TextsOf
      <4>3. seq + 1 \notin N
        <5>1. \A a \in ToSet(ring) : a.seq \in Nat /\ a.seq <= seq
          BY <1>0 DEF FramesKnown, Known, Given, Frames
        <5>2. QED
          BY <1>0, <5>1 DEF TextsOf
      <4>4. QED
        <5> HIDE DEF N
        <5>1. IsFiniteSet(N \cup {seq + 1}) /\ Cardinality(N \cup {seq + 1}) = Cardinality(N) + 1
          BY <3>1, <4>3, FS_AddElement
        <5>2. QED
          BY <3>1, <4>1, <4>2, <5>1
    <3>3. CASE kind # "text"
      <4>1. texts' = texts
        BY <1>1, <2>3, <3>3 DEF Publishes
      <4>2. {a.seq : a \in TextsOf(ToSet(ring'))} = N
        BY <2>2, <2>5, <3>3 DEF TextsOf
      <4>3. QED
        BY <3>1, <4>1, <4>2
    <3>4. QED
      BY <3>2, <3>3
  <2>12. QED
    BY <2>9, <2>10, <2>11
<1>2. CASE Silences
  <2>1. /\ TextsOf(ToSet(ring')) = {} /\ texts' = 0
        /\ \A r \in Runs : fate'[r] \in Unfinished => ~Started(r)
        /\ SentFrames' = SentFrames /\ \A f \in Forwarders : Heard(f)' = Heard(f)
    BY <1>2, InEmpty DEF Silences, TextsOf, SentFrames, Heard
  <2>2. {a.seq : a \in TextsOf(ToSet(ring'))} = {}
    BY <2>1
  <2>3. \A a \in Full' : fate'[a.run] \notin Unfinished
    BY <1>k, <1>g, <2>1
  <2>4. QED
    BY <2>1, <2>2, <2>3, FS_EmptySet
<1>3. ASSUME NEW f \in Forwarders, Listens(f)
      PROVE  Goal
  <2>1. /\ ring' = ring /\ fate' = fate /\ turn' = turn /\ texts' = texts
        /\ \A g \in Forwarders : g # f => Heard(g)' = Heard(g) /\ (g \in subs' <=> g \in subs)
    BY <1>3 DEF Listens, Heard
  <2>2. \A g \in subs' : g \in Forwarders
    BY <1>0, SubscriberIsIn DEF Ordered, Settled, Typed, BusTyped, Forwarders
  <2>3. CASE Join(f)
    <3>1. SentFrames' = SentFrames /\ Heard(f)' = ToSet(ring)
      <4>1. mail'[f] = ring /\ text'[f] = <<>> /\ SentFrames' = SentFrames
        BY <1>0, <2>3, JoinFrames DEF FramesKnown
      <4>2. QED
        BY <4>1, InEmpty DEF Heard
    <3>2. Full' \subseteq Full \cup ToSet(ring)
      BY <2>1, <3>1
    <3>3. QED
      BY <1>h, <2>1, <2>2, <3>1, <3>2 DEF TextsOf
  <2>4. CASE Leave(f)
    <3>1. SentFrames' = SentFrames /\ Heard(f)' = {} /\ f \notin subs'
      BY <1>0, <2>4, LeaveFrames, InEmpty DEF Heard
    <3>2. Full' \subseteq Full
      BY <2>1, <3>1
    <3>3. QED
      BY <1>h, <2>1, <2>2, <3>1, <3>2
  <2>5. CASE Absorb(f)
    <3>1. PICK m \in Frames :
            /\ Takes(f, m) /\ ToSet(mail[f]) = {m} \cup ToSet(mail'[f]) /\ subs' = subs
            /\ m.kind = "text" => ToSet(text'[f]) = ToSet(text[f]) \cup {m}
            /\ \/ sent' = sent /\ SentFrames' = SentFrames
               \/ sent' = Append(sent, text[f]) /\ SentFrames' = SentFrames \cup ToSet(text[f])
               \/ m.kind = "error" /\ sent' = Append(sent, <<m>>) /\ SentFrames' = SentFrames \cup {m}
      BY <1>0, <2>5, AbsorbFrames
    <3>2. Heard(f)' \subseteq Heard(f) /\ SentFrames \subseteq SentFrames'
          /\ SentFrames' \subseteq SentFrames \cup Heard(f)
      BY <3>1, InEmpty DEF Heard, Takes
    <3>3. Full' \subseteq Full
      BY <2>1, <3>2
    <3>4. \A a \in Heard(f) : a.kind = "text" => a \in Heard(f)' \cup SentFrames'
      <4>1. CASE m.kind = "text"
        BY <3>1, <4>1 DEF Heard
      <4>2. CASE m.kind = "flow_break" /\ text[f] = <<>>
        BY <3>1, <4>2, InEmpty DEF Heard
      <4>3. CASE m.kind = "flow_break" /\ sent' = Append(sent, text[f])
        <5>1. ToSet(text[f]) \subseteq SentFrames'
          BY <1>0, <2>5, <4>3, SentMore, AbsorbFrames DEF Typed, RestTyped
        <5>2. QED
          BY <3>1, <4>3, <5>1 DEF Heard
      <4>4. CASE m.kind \in {"complete", "error"}
        BY <3>1, <4>4 DEF Heard, Takes
      <4>5. QED
        BY <3>1, <4>1, <4>2, <4>3, <4>4 DEF Takes
    <3>5. QED
      BY <1>h, <2>1, <2>2, <3>1, <3>2, <3>3, <3>4 DEF TextsOf
  <2>6. QED
    BY <1>3, <2>3, <2>4, <2>5 DEF Listens
<1>4. CASE Quiet
  <2>1. /\ UNCHANGED <<ring, texts, subs>> /\ turn = "run"
        /\ SentFrames' = SentFrames /\ \A f \in Forwarders : Heard(f)' = Heard(f)
        /\ \A r \in Runs : Started(r) => fate'[r] = fate[r]
    BY <1>4 DEF Quiet, SentFrames, Heard
  <2>2. Full' = Full
    BY <2>1
  <2>3. \A f \in subs : f \in Forwarders
    BY SubscriberIsIn
  <2>4. QED
    BY <1>h, <1>k, <1>g, <2>1, <2>2, <2>3
<1>5. QED
  BY <1>0, <1>1, <1>2, <1>3, <1>4, StepKinds

\* Whoever is subscribed to a run whose frames still fit the ring has been given, or has
\* sent, all the run has said, whenever it joined (StreamBus.subscribe and publish hold
\* one lock).
THEOREM ReplayHasNoGap == Spec => []NoGap
<1>1. Init => RingHoldsAll
  BY DEF Init, RingHoldsAll
<1>2. ASSUME Ordered, RingHoldsAll, [Next]_vars PROVE RingHoldsAll'
  <2>1. CASE UNCHANGED vars
    <3>1. /\ fate' = fate /\ ring' = ring /\ mail' = mail /\ text' = text /\ sent' = sent
          /\ turn' = turn /\ texts' = texts /\ subs' = subs
      BY <2>1 DEF vars, busVars, runVars, fwdVars
    <3>2. SentFrames' = SentFrames /\ \A f \in Forwarders : Heard(f)' = Heard(f)
      BY <3>1 DEF Heard, SentFrames
    <3>3. UNION {Heard(f)' : f \in Forwarders} = UNION {Heard(f) : f \in Forwarders}
      BY <3>2
    <3>4. \A f \in subs : f \in Forwarders
      BY <1>2, SubscriberIsIn
    <3>5. QED
      BY <1>2, <3>1, <3>2, <3>3, <3>4 DEF RingHoldsAll
  <2>2. QED
    BY <1>2, <2>1, RingStep
<1>3. Ordered /\ RingHoldsAll => NoGap
  <2> SUFFICES ASSUME Ordered, RingHoldsAll, turn = "run", Len(ring) < RingCap, NEW f \in subs
               PROVE  Cardinality({t.seq : t \in {m \in ToSet(text[f]) \cup ToSet(mail[f]) \cup SentFrames :
                                                    m.run = Current /\ m.kind = "text"}}) = texts
    BY DEF NoGap
  <2>1. /\ f \in Forwarders /\ FramesKnown
        /\ fate[Current] \in Unfinished /\ \A r \in Runs : fate[r] \in Unfinished => r = Current
    BY SubscriberIsIn, CurrentIsLast DEF Ordered, Settled
  <2>2. \A a \in ToSet(ring) : a.run = Current
    BY <2>1 DEF FramesKnown, Known, Given, Frames
  <2>3. {m \in ToSet(text[f]) \cup ToSet(mail[f]) \cup SentFrames : m.run = Current /\ m.kind = "text"}
          = TextsOf(ToSet(ring))
    BY <2>1, <2>2 DEF RingHoldsAll, TextsOf, Heard
  <2>4. QED
    BY <2>3 DEF RingHoldsAll
<1>4. QED
  BY <1>1, <1>2, <1>3, OrderedHolds, PTL DEF Spec

-----------------------------------------------------------------------------
(* An answer that is heard is finished                                     *)

\* Hears with the place of the end and the piece of text named.
LEMMA HearsAt ==
  ASSUME Typed, NEW f \in Forwarders, NEW r
  PROVE  Hears(f, r) <=>
           /\ pc[f] \in {"recv", "send"}
           /\ \E n \in 1..Len(mail[f]) :
                /\ mail[f][n].run = r /\ mail[f][n].kind = "complete"
                /\ \A i \in 1..(n - 1) : ~Terminal(mail[f][i])
                /\ \/ \E t \in ToSet(text[f]) : t.run = r /\ t.kind = "text"
                   \/ \E i \in 1..(n - 1) : mail[f][i].run = r /\ mail[f][i].kind = "text"
<1>1. DOMAIN mail[f] = 1..Len(mail[f])
  BY LenProperties DEF Typed, BusTyped, Forwarders
<1>2. QED
  BY <1>1 DEF Hears

\* A forwarder that goes on reading and is only given more goes on hearing.
LEMMA HearsMore ==
  ASSUME Typed, Typed', NEW f \in Forwarders, NEW r, Hears(f, r),
         pc'[f] \in {"recv", "send"}, text'[f] = text[f],
         mail'[f] = mail[f] \/ \E m \in Frames : mail'[f] = Append(mail[f], m)
  PROVE  Hears(f, r)'
<1>1. mail[f] \in Seq(Frames)
  BY DEF Typed, BusTyped, Forwarders
<1>2. PICK n \in 1..Len(mail[f]) :
        /\ mail[f][n].run = r /\ mail[f][n].kind = "complete"
        /\ \A i \in 1..(n - 1) : ~Terminal(mail[f][i])
        /\ \/ \E t \in ToSet(text[f]) : t.run = r /\ t.kind = "text"
           \/ \E i \in 1..(n - 1) : mail[f][i].run = r /\ mail[f][i].kind = "text"
  BY HearsAt
<1>3. /\ Len(mail[f]) \in Nat /\ Len(mail'[f]) \in Nat /\ Len(mail[f]) <= Len(mail'[f])
      /\ \A i \in 1..Len(mail[f]) : mail'[f][i] = mail[f][i]
  BY <1>1, InAppend, LenProperties
<1>4. n \in 1..Len(mail'[f]) /\ \A i \in 1..(n - 1) : i \in 1..Len(mail[f])
  BY <1>3
<1>5. /\ mail'[f][n].run = r /\ mail'[f][n].kind = "complete"
      /\ \A i \in 1..(n - 1) : ~Terminal(mail'[f][i])
      /\ \/ \E t \in ToSet(text'[f]) : t.run = r /\ t.kind = "text"
         \/ \E i \in 1..(n - 1) : mail'[f][i].run = r /\ mail'[f][i].kind = "text"
  BY <1>2, <1>3, <1>4
<1>6. \E k \in 1..Len(mail'[f]) :
        /\ mail'[f][k].run = r /\ mail'[f][k].kind = "complete"
        /\ \A i \in 1..(k - 1) : ~Terminal(mail'[f][i])
        /\ \/ \E t \in ToSet(text'[f]) : t.run = r /\ t.kind = "text"
           \/ \E i \in 1..(k - 1) : mail'[f][i].run = r /\ mail'[f][i].kind = "text"
  BY <1>4, <1>5
<1>7. DOMAIN mail'[f] = 1..Len(mail'[f])
  BY LenProperties DEF Typed, BusTyped, Forwarders
<1>8. QED
  BY <1>6, <1>7 DEF Hears, Terminal

\* What a forwarder that hears r does with the next frame.
LEMMA HearsAbsorb ==
  ASSUME Typed, Typed', NEW f \in Forwarders, NEW r, Hears(f, r), Absorb(f)
  PROVE  Hears(f, r)' \/ r \in RunsSaid'
<1>1. PICK m \in Frames :
        /\ Takes(f, m) /\ mail[f] # <<>> /\ m = mail[f][1]
        /\ mail'[f] = Tail(mail[f])
        /\ text[f] \in Seq(Frames) /\ mail[f] \in Seq(Frames) /\ sent \in Seq(Seq(Frames))
        /\ m.kind = "text" => ToSet(text'[f]) = ToSet(text[f]) \cup {m}
  BY AbsorbFrames
<1>2. PICK n \in 1..Len(mail[f]) :
        /\ mail[f][n].run = r /\ mail[f][n].kind = "complete"
        /\ \A i \in 1..(n - 1) : ~Terminal(mail[f][i])
        /\ \/ \E t \in ToSet(text[f]) : t.run = r /\ t.kind = "text"
           \/ \E i \in 1..(n - 1) : mail[f][i].run = r /\ mail[f][i].kind = "text"
  BY HearsAt
<1>3. /\ Len(mail[f]) \in Nat /\ Len(mail'[f]) = Len(mail[f]) - 1
      /\ \A i \in 1..(Len(mail[f]) - 1) : mail'[f][i] = mail[f][i + 1]
  BY <1>1, InTail
<1>4. ASSUME sent' = Append(sent, text[f]), NEW t \in ToSet(text[f]), t.run = r
      PROVE  r \in RunsSaid'
  <2>1. t \in SentFrames'
    BY <1>1, <1>4, SentMore
  <2>2. QED
    BY <1>4, <2>1 DEF RunsSaid
<1>5. \A t \in ToSet(text[f]) : text[f] # <<>>
  BY InEmpty
<1>6. CASE n = 1
  <2>1. m.kind = "complete" /\ 1..(n - 1) = {}
    BY <1>1, <1>2, <1>6
  <2>2. PICK t \in ToSet(text[f]) : t.run = r
    BY <1>2, <2>1
  <2>3. sent' = Append(sent, text[f])
    BY <1>1, <1>5, <2>1 DEF Takes
  <2>4. QED
    BY <1>4, <2>2, <2>3
<1>7. CASE n # 1
  <2>1. /\ 1 \in 1..(n - 1) /\ n - 1 \in 1..Len(mail'[f]) /\ n \in Nat
        /\ \A i \in 1..(n - 1) : i # 1 => i - 1 \in 1..((n - 1) - 1)
        /\ \A i \in 1..((n - 1) - 1) : i + 1 \in 1..(n - 1) /\ i \in 1..(Len(mail[f]) - 1)
    BY <1>3, <1>7
  <2>2. ~Terminal(m)
    BY <1>1, <1>2, <2>1
  <2>3. /\ mail'[f][n - 1] = mail[f][n]
        /\ \A i \in 1..((n - 1) - 1) : mail'[f][i] = mail[f][i + 1]
        /\ \A i \in 1..(n - 1) : i # 1 => mail'[f][i - 1] = mail[f][i]
    BY <1>3, <1>7
  <2>4. ASSUME pc'[f] \in {"recv", "send"},
               \/ \E t \in ToSet(text'[f]) : t.run = r /\ t.kind = "text"
               \/ \E i \in 1..((n - 1) - 1) : mail'[f][i].run = r /\ mail'[f][i].kind = "text"
        PROVE  Hears(f, r)'
    <3>1. /\ mail'[f][n - 1].run = r /\ mail'[f][n - 1].kind = "complete"
          /\ \A i \in 1..((n - 1) - 1) : ~Terminal(mail'[f][i])
      BY <1>2, <2>1, <2>3
    <3>2. DOMAIN mail'[f] = 1..Len(mail'[f])
      BY LenProperties DEF Typed, BusTyped, Forwarders
    <3>3. \E k \in DOMAIN mail'[f] :
            /\ mail'[f][k].run = r /\ mail'[f][k].kind = "complete"
            /\ \A i \in 1..(k - 1) : ~Terminal(mail'[f][i])
            /\ \/ \E t \in ToSet(text'[f]) : t.run = r /\ t.kind = "text"
               \/ \E i \in 1..(k - 1) : mail'[f][i].run = r /\ mail'[f][i].kind = "text"
      BY <2>1, <2>4, <3>1, <3>2
    <3>4. QED
      BY <2>4, <3>3 DEF Hears, Terminal
  <2>5. CASE m.kind = "text"
    <3>1. pc'[f] = "recv" /\ ToSet(text'[f]) = ToSet(text[f]) \cup {m}
      BY <1>1, <2>5 DEF Takes
    <3>2. CASE \E t \in ToSet(text[f]) : t.run = r /\ t.kind = "text"
      BY <2>4, <3>1, <3>2
    <3>3. ASSUME NEW i \in 1..(n - 1), mail[f][i].run = r, mail[f][i].kind = "text"
          PROVE  Hears(f, r)'
      <4>1. CASE i = 1
        BY <1>1, <2>4, <3>1, <3>3, <4>1
      <4>2. CASE i # 1
        BY <2>1, <2>3, <2>4, <3>1, <3>3, <4>2
      <4>3. QED
        BY <4>1, <4>2
    <3>4. QED
      BY <1>2, <3>2, <3>3
  <2>6. CASE m.kind # "text"
    <3>1. /\ m.kind = "flow_break" /\ pc'[f] \in {"recv", "send"}
          /\ text[f] # <<>> => sent' = Append(sent, text[f])
      BY <1>1, <2>2, <2>6 DEF Takes, Terminal
    <3>2. CASE \E t \in ToSet(text[f]) : t.run = r /\ t.kind = "text"
      BY <1>4, <1>5, <3>1, <3>2
    <3>3. ASSUME NEW i \in 1..(n - 1), mail[f][i].run = r, mail[f][i].kind = "text"
          PROVE  Hears(f, r)'
      <4>1. i # 1
        BY <1>1, <2>6, <3>3
      <4>2. QED
        BY <2>1, <2>3, <2>4, <3>1, <3>3, <4>1
    <3>4. QED
      BY <1>2, <3>2, <3>3
  <2>7. QED
    BY <2>5, <2>6
<1>8. QED
  BY <1>6, <1>7

\* A released run does not take a forwarder that has the end of an answer with it: the
\* run that ends and the one in vain are both counted.
LEMMA ReleaseSpares ==
  ASSUME Typed, OneLive, ChainInv, ReleaseRun, NEW f \in Forwarders, NEW r, Hears(f, r),
         spent["fail"] = 0, spent["release"] <= 1
  PROVE  pc'[f] = pc[f]
<1>1. /\ pending \in Nat /\ spent["release"] \in Nat /\ f # None /\ pc \in [Forwarders -> Places]
  BY TasksAssumption DEF Typed, FwdTyped, RestTyped, Faults, Forwarders, None
<1>2. armed /\ Clean
  BY <1>1 DEF ReleaseRun, ChainInv, ArmedCounted, Clean
<1>3. inflight = f /\ pc[f] \in {"recv", "send"}
  BY DEF OneLive, Live, Hears
<1>4. Ending(inflight)
  BY <1>3, HearsAt DEF Ending, Holds
<1>5. Cardinality(Owed) + 1 + 1 <= pending
  BY <1>1, <1>2, <1>3, <1>4 DEF ChainInv, Counted, Vain
<1>6. pending > 1 /\ pending - 1 # 0
  BY <1>1, <1>5, FiniteOwed
<1>7. QED
  BY <1>6 DEF ReleaseRun

\* Nothing failed, and at most one forwarder was armed in vain.
Undisturbed == spent["fail"] = 0 /\ spent["release"] <= 1

\* Whoever hears an answer goes on hearing it until it is sent.
HeardUntilSaid ==
  \A f \in Forwarders, r \in Runs :
    Hears(f, r) /\ Undisturbed => Hears(f, r)' \/ r \in RunsSaid'

LEMMA HeardStep ==
  ASSUME Ordered, Ordered', ChainInv, Next
  PROVE  HeardUntilSaid
<1>0. Typed /\ Typed' /\ OneLive /\ JobsAreQueued /\ RunOrder
  BY DEF Ordered, Settled
<1> SUFFICES ASSUME NEW f \in Forwarders, NEW r \in Runs, Hears(f, r), Undisturbed
             PROVE  Hears(f, r)' \/ r \in RunsSaid'
  BY DEF HeardUntilSaid
<1>1. pc[f] \in {"recv", "send"}
  BY DEF Hears
<1>2. ASSUME NEW kind \in Kinds, Publishes(kind)
      PROVE  Hears(f, r)'
  <2>1. PICK m : m = Frame(Current, kind)
    OBVIOUS
  <2>2. mail'[f] = mail[f] \/ mail'[f] = Append(mail[f], m)
    BY <1>0, <1>2, <2>1, PublishFrames
  <2>3. m \in Frames
    BY <1>0, <1>2, <2>1, Published
  <2>4. text' = text /\ pc' = pc
    BY <1>2 DEF Publishes
  <2>5. QED
    BY <1>0, <1>1, <2>2, <2>3, <2>4, HearsMore
<1>3. CASE Silences
  BY <1>0, <1>1, <1>3, HearsMore DEF Silences
<1>4. ASSUME NEW g \in Forwarders, Listens(g)
      PROVE  Hears(f, r)' \/ r \in RunsSaid'
  <2>1. CASE g # f
    BY <1>0, <1>1, <1>4, <2>1, HearsMore DEF Listens
  <2>2. CASE g = f
    <3>1. ~Join(f) /\ ~Leave(f)
      BY <1>1 DEF Join, Leave
    <3>2. Absorb(f)
      BY <1>4, <2>2, <3>1 DEF Listens
    <3>3. QED
      BY <1>0, <3>2, HearsAbsorb
  <2>3. QED
    BY <2>1, <2>2
<1>5. CASE Quiet
  <2>1. text' = text /\ mail' = mail
    BY <1>5 DEF Quiet
  <2>2. pc'[f] \in {"recv", "send"}
    <3>1. CASE ReleaseRun
      BY <1>0, <1>1, <3>1, ReleaseSpares DEF Undisturbed
    <3>2. CASE ~ReleaseRun
      BY <1>1, <1>5, <3>2 DEF Quiet, Reading
    <3>3. QED
      BY <3>1, <3>2
  <2>3. QED
    BY <1>0, <2>1, <2>2, HearsMore
<1>6. QED
  BY <1>0, <1>2, <1>3, <1>4, <1>5, StepKinds

\* No step takes an answer away from the forwarder that has its end: until it is sent,
\* the forwarder goes on hearing it, whatever is folded, stopped, cleared or chained, and
\* even when one announced run is released (release_run_for, _clear_inflight, the
\* forwarder's loop).  It is the safety half of HeardIsSent.
THEOREM AnswersAreFinished == Spec => [][HeardUntilSaid]_vars
<1>1. ASSUME Ordered, ChainInv, Ordered', Next PROVE HeardUntilSaid
  BY <1>1, HeardStep
<1>2. Ordered /\ ChainInv /\ Ordered' /\ [Next]_vars => [HeardUntilSaid]_vars
  BY <1>1
<1>3. QED
  BY ChainHolds, OrderedHolds, <1>2, PTL DEF Spec
=============================================================================
