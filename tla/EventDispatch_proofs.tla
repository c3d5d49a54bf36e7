------------------------ MODULE EventDispatch_proofs ------------------------
(***************************************************************************)
(* Safety of EventDispatch, for any triggers (finitely many or not), any   *)
(* rules, any number of slots and any faults, as often as Quota allows.    *)
(***************************************************************************)
EXTENDS EventDispatch, SequenceTheorems, FiniteSetTheorems, TLAPS

-----------------------------------------------------------------------------
(* Queues without repetitions                                              *)

Entries(q)  == {q[i] : i \in 1..Len(q)}
Distinct(q) == \A i, j \in 1..Len(q) : i # j => q[i] # q[j]

LEMMA AppendEntries ==
  ASSUME NEW S, NEW q \in Seq(S), NEW e \in S, Distinct(q), e \notin Entries(q)
  PROVE  /\ Append(q, e) \in Seq(S) /\ Distinct(Append(q, e))
         /\ \A f \in Entries(Append(q, e)) : f \in Entries(q) \/ f = e
<1>1. /\ Append(q, e) \in Seq(S) /\ Len(Append(q, e)) = Len(q) + 1 /\ Len(q) \in Nat
      /\ \A i \in 1..Len(q) : Append(q, e)[i] = q[i]
      /\ Append(q, e)[Len(q) + 1] = e
  BY AppendProperties, LenProperties
<1>2. \A i \in 1..Len(q)+1 : i \in 1..Len(q) \/ i = Len(q) + 1
  BY <1>1
<1>3. \A i \in 1..Len(q) : q[i] # e
  BY DEF Entries
<1>4. Distinct(Append(q, e))
  BY <1>1, <1>2, <1>3 DEF Distinct
<1>5. \A f \in Entries(Append(q, e)) : f \in Entries(q) \/ f = e
  BY <1>1, <1>2 DEF Entries
<1>6. QED
  BY <1>1, <1>4, <1>5

LEMMA TailEntries ==
  ASSUME NEW S, NEW q \in Seq(S), q # <<>>, Distinct(q)
  PROVE  /\ Head(q) \in S /\ Head(q) \in Entries(q)
         /\ Tail(q) \in Seq(S) /\ Distinct(Tail(q))
         /\ \A f \in Entries(Tail(q)) : f \in Entries(q) /\ f # Head(q)
<1>1. /\ Head(q) \in S /\ Tail(q) \in Seq(S) /\ Len(q) \in Nat \ {0}
      /\ Len(Tail(q)) = Len(q) - 1
      /\ \A i \in 1..Len(Tail(q)) : Tail(q)[i] = q[i + 1]
  BY HeadTailProperties, EmptySeq
<1>2. Head(q) = q[1] /\ 1 \in 1..Len(q)
  BY <1>1
<1>3. \A i \in 1..Len(Tail(q)) : i + 1 \in 1..Len(q) /\ i + 1 # 1
  BY <1>1
<1>4. Distinct(Tail(q))
  BY <1>1, <1>3 DEF Distinct
<1>5. \A f \in Entries(Tail(q)) : f \in Entries(q) /\ f # Head(q)
  BY <1>1, <1>2, <1>3 DEF Entries, Distinct
<1>6. QED
  BY <1>1, <1>2, <1>4, <1>5 DEF Entries

LEMMA NoEntries == Distinct(<<>>) /\ Entries(<<>>) = {} /\ \A S : <<>> \in Seq(S)
BY EmptySeq DEF Distinct, Entries

-----------------------------------------------------------------------------
(* Where jobs are                                                          *)

\* A job is in one queue, or in the semaphore's line, or nowhere, as its state
\* says; and it is running exactly while its trigger turn is.
Places ==
  /\ \A s \in Rules : /\ Distinct(queue[s])
                      /\ \A f \in Entries(queue[s]) : at[f] = "queued" /\ RuleOf[f] = s
  /\ Distinct(line) /\ \A f \in Entries(line) : at[f] = "line"
  /\ \A f \in Fires : stage[<<f, "fire">>] # "off" <=> at[f] = "run"

\* The jobs that hold a slot.
Holders == {f \in Fires : at[f] \in Holding}
SlotsHeld == IsFiniteSet(Holders) /\ SlotsConserved

LEMMA SlotsKept ==
  ASSUME SlotsHeld, free' = free, \A f \in Fires : at'[f] \in Holding <=> at[f] \in Holding
  PROVE  SlotsHeld'
<1>1. Holders' = Holders
  BY DEF Holders
<1>2. QED
  BY <1>1 DEF SlotsHeld, SlotsConserved, Holders

LEMMA SlotTaken ==
  ASSUME TypeOK, SlotsHeld, NEW f \in Fires, at[f] \notin Holding,
         NEW pc \in Holding, at' = [at EXCEPT ![f] = pc], free' = free - 1
  PROVE  SlotsHeld'
<1>1. Holders' = Holders \cup {f} /\ f \notin Holders
  BY DEF Holders, TypeOK
<1>2. Cardinality(Holders') = Cardinality(Holders) + 1 /\ IsFiniteSet(Holders')
  BY <1>1, FS_AddElement DEF SlotsHeld
<1>3. free \in Int /\ Cardinality(Holders) \in Nat
  BY FS_CardinalityType DEF TypeOK, SlotsHeld
<1>4. free' + Cardinality(Holders') = Slots
  BY <1>2, <1>3 DEF SlotsHeld, SlotsConserved, Holders
<1>5. QED
  BY <1>2, <1>4 DEF SlotsHeld, SlotsConserved, Holders

LEMMA SlotReleased ==
  ASSUME TypeOK, SlotsHeld, NEW f \in Fires, at[f] \in Holding,
         NEW pc, pc \notin Holding, at' = [at EXCEPT ![f] = pc], free' = free + 1
  PROVE  SlotsHeld'
<1>1. Holders' = Holders \ {f} /\ f \in Holders
  BY DEF Holders, TypeOK
<1>2. Cardinality(Holders') = Cardinality(Holders) - 1 /\ IsFiniteSet(Holders')
  BY <1>1, FS_RemoveElement DEF SlotsHeld
<1>3. free \in Int /\ Cardinality(Holders) \in Nat
  BY FS_CardinalityType DEF TypeOK, SlotsHeld
<1>4. free' + Cardinality(Holders') = Slots
  BY <1>2, <1>3 DEF SlotsHeld, SlotsConserved, Holders
<1>5. QED
  BY <1>2, <1>4 DEF SlotsHeld, SlotsConserved, Holders

\* The steps of a turn that neither begin nor end it: no job moves.
Within ==
  /\ UNCHANGED dispatch
  /\ \A f \in Fires : stage'[<<f, "fire">>] = "off" <=> stage[<<f, "fire">>] = "off"

LEMMA WithinTurn ==
  ASSUME Places, SlotsHeld, Within
  PROVE  Places' /\ SlotsHeld'
<1>1. Places'
  BY DEF Places, Within, dispatch, Entries, Distinct
<1>2. SlotsHeld'
  BY SlotsKept DEF Within, dispatch
<1>3. QED
  BY <1>1, <1>2

\* A job that is in no queue changes its state.
LEMMA OffQueue ==
  ASSUME TypeOK, Places, NEW f \in Fires, at[f] \notin {"queued", "line"},
         NEW pc, at' = [at EXCEPT ![f] = pc], UNCHANGED <<queue, line>>,
         \A g \in Fires \ {f} : stage'[<<g, "fire">>] = stage[<<g, "fire">>],
         stage'[<<f, "fire">>] # "off" <=> pc = "run"
  PROVE  Places'
<1>1. \A g \in Fires : at[g] \in {"queued", "line"} => at'[g] = at[g]
  BY DEF TypeOK
<1>2. \A s \in Rules : \A g \in Entries(queue[s]) : g \in Fires
  BY ElementOfSeq DEF TypeOK, Entries
<1>3. \A g \in Entries(line) : g \in Fires
  BY ElementOfSeq DEF TypeOK, Entries
<1>4. \A g \in Fires : stage'[<<g, "fire">>] # "off" <=> at'[g] = "run"
  <2>1. \A g \in Fires : stage[<<g, "fire">>] # "off" <=> at[g] = "run"
    BY DEF Places
  <2>2. at'[f] = pc /\ \A g \in Fires \ {f} : at'[g] = at[g]
    BY DEF TypeOK
  <2>3. QED
    BY <2>1, <2>2
<1>5. \A s \in Rules : /\ Distinct(queue'[s])
                       /\ \A g \in Entries(queue'[s]) : at'[g] = "queued" /\ RuleOf[g] = s
  BY <1>1, <1>2 DEF Places
<1>6. Distinct(line') /\ \A g \in Entries(line') : at'[g] = "line"
  BY <1>1, <1>3 DEF Places
<1>7. QED
  BY <1>4, <1>5, <1>6 DEF Places

LEMMA FireTurn == \A f \in Fires : <<f, "fire">> \in Turns
BY DEF Turns, Who

\* Head and tail of a queue in use.
LEMMA Queued ==
  ASSUME TypeOK, Places
  PROVE  /\ \A s \in Rules : \A g \in Entries(queue[s]) : g \in Fires
         /\ \A g \in Entries(line) : g \in Fires
         /\ line # <<>> => Head(line) \in Fires /\ at[Head(line)] = "line"
         /\ \A s \in Rules : queue[s] # <<>> =>
              Head(queue[s]) \in Fires /\ at[Head(queue[s])] = "queued" /\ RuleOf[Head(queue[s])] = s
<1>1. \A s \in Rules : \A g \in Entries(queue[s]) : g \in Fires
  BY ElementOfSeq DEF TypeOK, Entries
<1>2. \A g \in Entries(line) : g \in Fires
  BY ElementOfSeq DEF TypeOK, Entries
<1>3. line # <<>> => Head(line) \in Entries(line)
  BY TailEntries DEF TypeOK, Places
<1>4. \A s \in Rules : queue[s] # <<>> => Head(queue[s]) \in Entries(queue[s])
  <2> TAKE s \in Rules
  <2>1. queue[s] \in Seq(Fires) /\ Distinct(queue[s])
    BY DEF TypeOK, Places
  <2>2. QED
    BY <2>1, TailEntries
<1>5. QED
  BY <1>1, <1>2, <1>3, <1>4 DEF Places

LEMMA DispatchPlaces ==
  ASSUME TypeOK, Places, NEW f \in Fires, Dispatch(f)
  PROVE  Places'
<1> DEFINE s == RuleOf[f]
<1>1. s \in Rules /\ queue[s] \in Seq(Fires) /\ at[f] = "new"
  BY RuleAssumption DEF Dispatch, TypeOK
<1>2. /\ queue' = [queue EXCEPT ![s] = Append(queue[s], f)]
      /\ at' = [at EXCEPT ![f] = "queued"] /\ UNCHANGED <<line, stage>>
  BY DEF Dispatch, GoJob
<1>3. f \notin Entries(queue[s]) /\ Distinct(queue[s])
  BY <1>1 DEF Places
<1>4. /\ Distinct(Append(queue[s], f))
      /\ \A g \in Entries(Append(queue[s], f)) : g \in Entries(queue[s]) \/ g = f
  BY <1>1, <1>3, AppendEntries
<1>5. \A g \in Fires : at[g] # "new" => at'[g] = at[g]
  BY <1>1, <1>2 DEF TypeOK
<1>6. \A t \in Rules : /\ Distinct(queue'[t])
                       /\ \A g \in Entries(queue'[t]) : at'[g] = "queued" /\ RuleOf[g] = t
  <2> TAKE t \in Rules
  <2>1. \A g \in Entries(queue[t]) : at'[g] = "queued" /\ RuleOf[g] = t
    BY <1>5, Queued DEF Places
  <2>2. CASE t = s
    <3>1. queue'[t] = Append(queue[s], f)
      BY <1>1, <1>2, <2>2 DEF TypeOK
    <3>2. at'[f] = "queued"
      BY <1>2 DEF TypeOK
    <3>3. QED
      BY <1>4, <2>1, <2>2, <3>1, <3>2
  <2>3. CASE t # s
    <3>1. queue'[t] = queue[t]
      BY <1>2, <2>3 DEF TypeOK
    <3>2. QED
      BY <2>1, <3>1 DEF Places
  <2>4. QED
    BY <2>2, <2>3
<1>7. Distinct(line') /\ \A g \in Entries(line') : at'[g] = "line"
  BY <1>2, <1>5, Queued DEF Places
<1>8. \A g \in Fires : stage'[<<g, "fire">>] # "off" <=> at'[g] = "run"
  <2>1. \A g \in Fires : at'[g] = "run" <=> at[g] = "run"
    BY <1>1, <1>2 DEF TypeOK
  <2>2. QED
    BY <1>2, <2>1 DEF Places
<1>9. QED
  BY <1>6, <1>7, <1>8 DEF Places

LEMMA TakePlaces ==
  ASSUME TypeOK, Places, NEW s \in Rules, Take(s)
  PROVE  Places'
<1> DEFINE f == Head(queue[s])
<1>1. queue[s] # <<>> /\ queue[s] \in Seq(Fires) /\ line \in Seq(Fires)
  BY DEF Take, TypeOK
<1>2. f \in Fires /\ at[f] = "queued" /\ RuleOf[f] = s
  BY <1>1, Queued
<1>3. /\ queue' = [queue EXCEPT ![s] = Tail(queue[s])]
      /\ line' = Append(line, f)
      /\ at' = [at EXCEPT ![f] = "line"] /\ stage' = stage
  BY DEF Take, GoJob
<1>4. /\ Distinct(Tail(queue[s]))
      /\ \A g \in Entries(Tail(queue[s])) : g \in Entries(queue[s]) /\ g # f
  BY <1>1, TailEntries DEF Places
<1>5. f \notin Entries(line) /\ Distinct(line)
  BY <1>2 DEF Places
<1>6. /\ Distinct(Append(line, f))
      /\ \A g \in Entries(Append(line, f)) : g \in Entries(line) \/ g = f
  BY <1>1, <1>2, <1>5, AppendEntries
<1>7. at'[f] = "line" /\ \A g \in Fires \ {f} : at'[g] = at[g]
  BY <1>2, <1>3 DEF TypeOK
<1>8. \A t \in Rules : /\ Distinct(queue'[t])
                       /\ \A g \in Entries(queue'[t]) : at'[g] = "queued" /\ RuleOf[g] = t
  <2> TAKE t \in Rules
  <2>1. CASE t = s
    <3>1. queue'[t] = Tail(queue[s])
      BY <1>3, <2>1 DEF TypeOK
    <3>2. QED
      BY <1>4, <1>7, <2>1, <3>1, Queued DEF Places
  <2>2. CASE t # s
    <3>1. queue'[t] = queue[t]
      BY <1>3, <2>2 DEF TypeOK
    <3>2. \A g \in Entries(queue[t]) : g # f
      BY <1>2, <2>2 DEF Places
    <3>3. QED
      BY <1>7, <3>1, <3>2, Queued DEF Places
  <2>3. QED
    BY <2>1, <2>2
<1>9. Distinct(line') /\ \A g \in Entries(line') : at'[g] = "line"
  BY <1>3, <1>6, <1>7, Queued DEF Places
<1>10. \A g \in Fires : stage'[<<g, "fire">>] # "off" <=> at'[g] = "run"
  <2>1. \A g \in Fires : stage[<<g, "fire">>] # "off" <=> at[g] = "run"
    BY DEF Places
  <2> HIDE DEF f
  <2>2. QED
    BY <1>2, <1>3, <1>7, <2>1
<1>11. QED
  BY <1>8, <1>9, <1>10 DEF Places

LEMMA EnterPlaces ==
  ASSUME TypeOK, Places, Enter
  PROVE  Places'
<1> DEFINE f == Head(line)
<1>1. line # <<>> /\ line \in Seq(Fires)
  BY DEF Enter, TypeOK
<1>2. f \in Fires /\ at[f] = "line"
  BY <1>1, Queued
<1>3. PICK pc \in {"spent", "gate"} : at' = [at EXCEPT ![f] = pc]
  BY DEF Enter, GoJob
<1>4. line' = Tail(line) /\ UNCHANGED <<queue, stage>>
  BY DEF Enter
<1>5. Distinct(Tail(line)) /\ \A g \in Entries(Tail(line)) : g \in Entries(line) /\ g # f
  BY <1>1, TailEntries DEF Places
<1>6. at'[f] = pc /\ \A g \in Fires \ {f} : at'[g] = at[g]
  BY <1>2, <1>3 DEF TypeOK
<1>7. Distinct(line') /\ \A g \in Entries(line') : at'[g] = "line"
  BY <1>4, <1>5, <1>6, Queued DEF Places
<1>8. \A s \in Rules : \A g \in Entries(queue[s]) : at'[g] = "queued"
  BY <1>2, <1>6, Queued DEF Places
<1>9. \A g \in Fires : stage'[<<g, "fire">>] # "off" <=> at'[g] = "run"
  <2>1. \A g \in Fires : stage[<<g, "fire">>] # "off" <=> at[g] = "run"
    BY DEF Places
  <2> HIDE DEF f
  <2>2. QED
    BY <1>2, <1>4, <1>6, <2>1
<1>10. QED
  BY <1>4, <1>7, <1>8, <1>9 DEF Places

\* A turn moves from a stage to another, neither of them "off".
LEMMA Staged ==
  ASSUME TypeOK, NEW t \in Turns, stage[t] # "off", NEW pc, pc # "off", GoTurn(t, pc),
         UNCHANGED dispatch
  PROVE  Within
BY FireTurn DEF Within, GoTurn, TypeOK

LEMMA JobsStep ==
  ASSUME TypeOK, Places, SlotsHeld, [Next]_vars
  PROVE  Places' /\ SlotsHeld'
<1>1. ASSUME NEW f \in Fires, Dispatch(f) PROVE Places' /\ SlotsHeld'
  <2>1. at' = [at EXCEPT ![f] = "queued"] /\ at[f] = "new" /\ free' = free
    BY <1>1 DEF Dispatch, GoJob
  <2>2. \A g \in Fires : at'[g] \in Holding <=> at[g] \in Holding
    BY <2>1 DEF TypeOK, Holding
  <2>3. QED
    BY <1>1, <2>1, <2>2, DispatchPlaces, SlotsKept
<1>2. ASSUME NEW s \in Rules, Take(s) PROVE Places' /\ SlotsHeld'
  <2>1. at' = [at EXCEPT ![Head(queue[s])] = "line"] /\ queue[s] # <<>> /\ free' = free
    BY <1>2 DEF Take, GoJob
  <2>2. \A g \in Fires : at'[g] \in Holding <=> at[g] \in Holding
    BY <2>1, Queued DEF TypeOK, Holding
  <2>3. QED
    BY <1>2, <2>1, <2>2, TakePlaces, SlotsKept
<1>3. ASSUME Enter PROVE Places' /\ SlotsHeld'
  <2> DEFINE f == Head(line)
  <2>1. f \in Fires /\ at[f] = "line"
    BY <1>3, Queued DEF Enter
  <2>2. \/ at' = [at EXCEPT ![f] = "spent"] /\ free' = free
        \/ at' = [at EXCEPT ![f] = "gate"] /\ free' = free - 1
    BY <1>3 DEF Enter, GoJob
  <2> HIDE DEF f
  <2>3. CASE at' = [at EXCEPT ![f] = "spent"] /\ free' = free
    <3>1. \A g \in Fires : at'[g] \in Holding <=> at[g] \in Holding
      BY <2>1, <2>3 DEF TypeOK, Holding
    <3>2. QED
      BY <1>3, <2>3, <3>1, EnterPlaces, SlotsKept
  <2>4. CASE at' = [at EXCEPT ![f] = "gate"] /\ free' = free - 1
    <3>1. at[f] \notin Holding /\ "gate" \in Holding
      BY <2>1 DEF Holding
    <3>2. QED
      BY <1>3, <2>1, <2>4, <3>1, EnterPlaces, SlotTaken
  <2>5. QED
    BY <2>2, <2>3, <2>4
<1>4. ASSUME NEW f \in Fires, NEW pc \in Handled \cup {"killed"}, at[f] \in Holding, Leave(f, pc),
             UNCHANGED <<queue, line>>, stage'[<<f, "fire">>] = "off",
             \A g \in Fires \ {f} : stage'[<<g, "fire">>] = stage[<<g, "fire">>]
      PROVE  Places' /\ SlotsHeld'
  <2>1. at' = [at EXCEPT ![f] = pc] /\ free' = free + 1
    BY <1>4 DEF Leave, GoJob
  <2>2. pc \notin Holding /\ pc # "run" /\ at[f] \notin {"queued", "line"}
    BY <1>4 DEF Handled, Holding
  <2>3. SlotsHeld'
    BY <1>4, <2>1, <2>2, SlotReleased
  <2>4. QED
    BY <1>4, <2>1, <2>2, <2>3, OffQueue
<1>5. ASSUME NEW f \in Fires, Match(f) PROVE Places' /\ SlotsHeld'
  <2>1. at[f] = "gate" /\ UNCHANGED <<queue, line, stage>> /\ stage[<<f, "fire">>] = "off"
    BY <1>5 DEF Match, Places
  <2>2. CASE Leave(f, "spent")
    BY <1>4, <2>1, <2>2 DEF Holding, Handled
  <2>3. CASE GoJob(f, "create") /\ free' = free
    <3>1. at' = [at EXCEPT ![f] = "create"]
      BY <2>3 DEF GoJob
    <3>2. Places'
      BY <2>1, <3>1, OffQueue
    <3>3. \A g \in Fires : at'[g] \in Holding <=> at[g] \in Holding
      BY <2>1, <3>1 DEF TypeOK, Holding
    <3>4. QED
      BY <2>3, <3>2, <3>3, SlotsKept
  <2>4. QED
    BY <1>5, <2>2, <2>3 DEF Match
<1>6. ASSUME NEW f \in Fires, Reject(f) \/ ClaimFails(f) \/ CreateFails(f) PROVE Places' /\ SlotsHeld'
  <2>1. at[f] \in {"gate", "create"} /\ UNCHANGED <<queue, line, stage>>
    BY <1>6 DEF Reject, ClaimFails, CreateFails
  <2>2. \E pc \in {"rejected", "spent", "failed"} : Leave(f, pc)
    BY <1>6 DEF Reject, ClaimFails, CreateFails
  <2>3. stage[<<f, "fire">>] = "off"
    BY <2>1 DEF Places
  <2>4. QED
    BY <1>4, <2>1, <2>2, <2>3 DEF Holding, Handled
<1>7. ASSUME NEW f \in Fires, CreateRun(f) PROVE Places' /\ SlotsHeld'
  <2>1. /\ at[f] = "create" /\ UNCHANGED <<queue, line, free>>
        /\ at' = [at EXCEPT ![f] = "run"] /\ stage' = [stage EXCEPT ![<<f, "fire">>] = "start"]
    BY <1>7 DEF CreateRun, GoJob, GoTurn
  <2>2. stage'[<<f, "fire">>] # "off"
    BY <2>1, FireTurn DEF TypeOK
  <2>3. \A g \in Fires \ {f} : stage'[<<g, "fire">>] = stage[<<g, "fire">>]
    BY <2>1, FireTurn DEF TypeOK
  <2>4. Places'
    BY <2>1, <2>2, <2>3, OffQueue
  <2>5. \A g \in Fires : at'[g] \in Holding <=> at[g] \in Holding
    BY <2>1 DEF TypeOK, Holding
  <2>6. QED
    BY <2>1, <2>4, <2>5, SlotsKept
<1>8. ASSUME NEW t \in Turns, KillEarly(t) PROVE Places' /\ SlotsHeld'
  <2>1. stage[t] # "off" /\ UNCHANGED <<queue, line>> /\ stage' = [stage EXCEPT ![t] = "off"]
    BY <1>8 DEF KillEarly, Untried, GoTurn
  <2>2. CASE t[2] = "reply"
    <3>1. UNCHANGED dispatch
      BY <1>8, <2>2 DEF KillEarly, dispatch
    <3>2. \A f \in Fires : t # <<f, "fire">>
      BY <2>2
    <3>3. \A f \in Fires : stage'[<<f, "fire">>] = stage[<<f, "fire">>]
      BY <2>1, <3>2, FireTurn DEF TypeOK
    <3>4. QED
      BY <3>1, <3>3, WithinTurn DEF Within
  <2>3. CASE t[2] # "reply"
    <3>1. PICK f \in Fires : t = <<f, "fire">>
      BY <2>3 DEF Turns, Who
    <3>2. at[f] \in Holding /\ Leave(f, "killed")
      BY <1>8, <2>1, <3>1 DEF KillEarly, Places, Holding
    <3>3. /\ stage'[<<f, "fire">>] = "off"
          /\ \A g \in Fires \ {f} : stage'[<<g, "fire">>] = stage[<<g, "fire">>]
      BY <2>1, <3>1, FireTurn DEF TypeOK
    <3>4. QED
      BY <1>4, <2>1, <3>2, <3>3
  <2>4. QED
    BY <2>2, <2>3
<1>9. ASSUME NEW t \in Turns, TurnLeave(t) \/ FailureUnwritten(t) PROVE Places' /\ SlotsHeld'
  <2>1. /\ stage[t] # "off" /\ UNCHANGED <<queue, line>>
        /\ stage' = [stage EXCEPT ![t] = "off"]
    BY <1>9 DEF TurnLeave, FailureUnwritten, Left, GoTurn
  <2>2. CASE t[2] = "reply"
    <3>1. UNCHANGED dispatch
      BY <1>9, <2>2 DEF TurnLeave, FailureUnwritten, Left, dispatch
    <3>2. \A f \in Fires : t # <<f, "fire">>
      BY <2>2
    <3>3. \A f \in Fires : stage'[<<f, "fire">>] = stage[<<f, "fire">>]
      BY <2>1, <3>2, FireTurn DEF TypeOK
    <3>4. QED
      BY <3>1, <3>3, WithinTurn DEF Within
  <2>3. CASE t[2] # "reply"
    <3>1. PICK f \in Fires : t = <<f, "fire">>
      BY <2>3 DEF Turns, Who
    <3>2. at[f] \in Holding
      BY <2>1, <3>1 DEF Places, Holding
    <3>3. \E pc \in {"killed", "over"} : Leave(f, pc)
      BY <1>9, <2>3, <3>1 DEF TurnLeave, FailureUnwritten, Left
    <3>4. /\ stage'[<<f, "fire">>] = "off"
          /\ \A g \in Fires \ {f} : stage'[<<g, "fire">>] = stage[<<g, "fire">>]
      BY <2>1, <3>1, FireTurn DEF TypeOK
    <3>5. QED
      BY <1>4, <2>1, <3>2, <3>3, <3>4 DEF Handled
  <2>4. QED
    BY <2>2, <2>3
<1>10. ASSUME NEW t \in Turns,
              \/ TurnMark(t) \/ TurnMarkFails(t) \/ TurnBind(t) \/ LoopEnds(t) \/ Stop(t)
              \/ TurnWrite(t) \/ TurnWriteFails(t) \/ TurnEnd(t)
       PROVE  Within
  <2>1. \E pc \in {"early", "agent", "finish", "stopped", "hook", "leave"} : GoTurn(t, pc)
    BY <1>10 DEF TurnMark, TurnMarkFails, TurnBind, LoopEnds, Stop, TurnWrite, TurnWriteFails, TurnEnd
  <2>2. stage[t] # "off" /\ UNCHANGED dispatch
    BY <1>10 DEF TurnMark, TurnMarkFails, TurnBind, LoopEnds, Stop, TurnWrite, TurnWriteFails, TurnEnd
  <2>3. QED
    BY <2>1, <2>2, Staged
<1>11. ASSUME NEW t \in Turns, Raise(t) \/ Kill(t) PROVE Within
  <2>1. \E pc \in {"failing", "dying", "leave"} : GoTurn(t, pc)
    BY <1>11 DEF Raise, Kill
  <2>2. stage[t] # "off" /\ UNCHANGED dispatch
    BY <1>11 DEF Raise, Kill, Tried
  <2>3. QED
    BY <2>1, <2>2, Staged
<1>12. ASSUME NEW f \in Fires, ReplyStart(f) PROVE Within
  <2>1. stage' = [stage EXCEPT ![<<f, "reply">>] = "start"] /\ UNCHANGED dispatch
    BY <1>12 DEF ReplyStart, GoTurn
  <2>2. QED
    BY <2>1, FireTurn DEF Within, TypeOK
<1>13. ASSUME \/ \E f \in Fires : Reply(f)
              \/ \E t \in Turns : Absorb(t)
              \/ \E s \in Rules : TimeoutClaim(s) \/ RemoveRule(s)
              \/ UNCHANGED vars
       PROVE  Within
  BY <1>13 DEF Within, Reply, Absorb, TimeoutClaim, RemoveRule, vars, dispatch
<1>14. ASSUME NEW s \in Rules, RemoveRuns(s) PROVE Within
  <2>1. UNCHANGED dispatch
    BY <1>14 DEF RemoveRuns
  <2>2. \A t \in Turns : stage'[t] = stage[t] \/ stage'[t] = Interrupted(stage[t])
    BY <1>14 DEF RemoveRuns
  <2>3. \A pc : Interrupted(pc) = "off" <=> pc = "off"
    BY DEF Interrupted
  <2>4. QED
    BY <2>1, <2>2, <2>3, FireTurn DEF Within
<1>15. ASSUME Restart PROVE Places' /\ SlotsHeld'
  <2>1. /\ queue' = [s \in Rules |-> <<>>] /\ line' = <<>> /\ free' = Slots
        /\ at' = [f \in Fires |-> IF at[f] \in {"queued", "line"} \cup Holding THEN "lost" ELSE at[f]]
        /\ stage' = [t \in Turns |-> "off"]
    BY <1>15 DEF Restart
  <2>2. \A f \in Fires : at'[f] \notin Holding /\ stage'[<<f, "fire">>] = "off"
    BY <2>1, FireTurn DEF Holding
  <2>3. \A f \in Fires : at'[f] # "run"
    BY <2>2 DEF Holding
  <2>4. \A s \in Rules : Distinct(queue'[s]) /\ Entries(queue'[s]) = {}
    BY <2>1, NoEntries
  <2>5. Places'
    BY <2>1, <2>2, <2>3, <2>4, NoEntries DEF Places
  <2>6. Holders' = {}
    BY <2>2 DEF Holders
  <2>7. SlotsHeld'
    <3>1. IsFiniteSet(Holders') /\ Cardinality(Holders') = 0
      BY <2>6, FS_EmptySet
    <3>2. free' + Cardinality(Holders') = Slots
      BY <2>1, <3>1, SlotsAssumption
    <3>3. QED
      BY <3>1, <3>2 DEF SlotsHeld, SlotsConserved, Holders
  <2>8. QED
    BY <2>5, <2>7
<1>16. QED
  BY <1>1, <1>2, <1>3, <1>5, <1>6, <1>7, <1>8, <1>9, <1>10, <1>11, <1>12, <1>13, <1>14, <1>15, WithinTurn
     DEF Next, JobStep, JobFault, TurnStep, TurnFault

-----------------------------------------------------------------------------
(* Types                                                                   *)

\* A slot count that adds up is in range.
LEMMA FreeInRange ==
  ASSUME TypeOK, SlotsHeld', [Next]_vars
  PROVE  free' \in 0..Slots
<1>1. free' \in Nat
  <2>1. \/ free' = free \/ free' = free + 1
        \/ free > 0 /\ free' = free - 1
        \/ free' = Slots
    <3>1. ASSUME NEW f \in Fires, JobStep(f) \/ JobFault(f) \/ Dispatch(f) \/ ReplyStart(f)
          PROVE  free' = free \/ free' = free + 1
      BY <3>1 DEF JobStep, JobFault, Dispatch, Match, Reject, CreateRun, ClaimFails, CreateFails,
                  Reply, ReplyStart, Leave, dispatch
    <3>2. ASSUME NEW t \in Turns, TurnStep(t) \/ TurnFault(t)
          PROVE  free' = free \/ free' = free + 1
      BY <3>2 DEF TurnStep, TurnFault, TurnMark, TurnBind, LoopEnds, TurnWrite, TurnEnd, TurnLeave,
                  TurnMarkFails, TurnWriteFails, FailureUnwritten, Left, Stop, Raise, KillEarly,
                  Kill, Absorb, Leave, dispatch
    <3>3. ASSUME NEW s \in Rules, Take(s) \/ TimeoutClaim(s) \/ RemoveRuns(s) \/ RemoveRule(s)
          PROVE  free' = free
      BY <3>3 DEF Take, TimeoutClaim, RemoveRuns, RemoveRule, dispatch
    <3>4. ASSUME Enter PROVE free' = free \/ (free > 0 /\ free' = free - 1)
      BY <3>4 DEF Enter
    <3>5. ASSUME Restart PROVE free' = Slots
      BY <3>5 DEF Restart
    <3>6. ASSUME UNCHANGED vars PROVE free' = free
      BY <3>6 DEF vars, dispatch
    <3>7. QED
      BY <3>1, <3>2, <3>3, <3>4, <3>5, <3>6 DEF Next
  <2>2. free \in Nat /\ Slots \in Nat
    BY SlotsAssumption DEF TypeOK
  <2>3. QED
    BY <2>1, <2>2
<1>2. Cardinality(Holders') \in Nat /\ free' + Cardinality(Holders') = Slots
  BY FS_CardinalityType DEF SlotsHeld, SlotsConserved, Holders
<1>3. QED
  BY <1>1, <1>2, SlotsAssumption

LEMMA TypeInit == Init => TypeOK /\ Places /\ SlotsHeld
<1> SUFFICES ASSUME Init PROVE TypeOK /\ Places /\ SlotsHeld
  OBVIOUS
<1>1. TypeOK
  <2>1. queue \in [Rules -> Seq(Fires)] /\ line \in Seq(Fires)
    BY NoEntries DEF Init
  <2>2. free \in 0..Slots
    BY SlotsAssumption DEF Init
  <2>3. parked \in [Fires -> BOOLEAN]
    BY DEF Init
  <2>4. QED
    BY <2>1, <2>2, <2>3 DEF Init, TypeOK
<1>2. Places
  BY NoEntries, FireTurn DEF Init, Places
<1>3. SlotsHeld
  <2>1. Holders = {}
    BY DEF Init, Holders, Holding
  <2>2. IsFiniteSet(Holders) /\ Cardinality(Holders) = 0
    BY <2>1, FS_EmptySet
  <2>3. free + Cardinality(Holders) = Slots
    BY <2>2, SlotsAssumption DEF Init
  <2>4. QED
    BY <2>2, <2>3 DEF SlotsHeld, SlotsConserved, Holders
<1>4. QED
  BY <1>1, <1>2, <1>3

LEMMA SpentTyped ==
  ASSUME TypeOK, NEW x, Spend(x)
  PROVE  spent' \in SUBSET Faults
BY FaultAssumption DEF TypeOK, Spend

\* So does the history of the runs left without an outcome.
LEMMA OrphansTyped ==
  ASSUME TypeOK, NEW t \in Turns, Orphans(t) \/ Settles(t[1]) \/ orphaned' = orphaned
  PROVE  orphaned' \in SUBSET Fires
BY DEF TypeOK, Orphans, Settles, Turns

\* A conditional move of a task's status keeps its type.
LEMMA MovedTyped ==
  ASSUME TypeOK, NEW s \in Rules, NEW from,
         NEW to \in {"standing", "active", "triggered", "timed_out", "removed"}
  PROVE  Moved(s, from, to) \in [Rules -> {"standing", "active", "triggered", "timed_out", "removed"}]
BY DEF TypeOK, Moved

LEMMA TypeStep ==
  ASSUME TypeOK, Places, free' \in 0..Slots, [Next]_vars
  PROVE  TypeOK'
<1> USE SpentTyped DEF TypeOK, dispatch, conv, Holding, Handled, GoJob, GoTurn, Leave
<1>1. ASSUME NEW f \in Fires, Dispatch(f) PROVE TypeOK'
  <2>1. RuleOf[f] \in Rules
    BY RuleAssumption
  <2>2. Append(queue[RuleOf[f]], f) \in Seq(Fires)
    BY <2>1, AppendProperties
  <2>3. queue' \in [Rules -> Seq(Fires)]
    BY <1>1, <2>1, <2>2 DEF Dispatch
  <2>4. QED
    BY <1>1, <2>3 DEF Dispatch
<1>2. ASSUME NEW s \in Rules, Take(s) PROVE TypeOK'
  <2>1. queue[s] # <<>> /\ queue[s] \in Seq(Fires)
    BY <1>2 DEF Take
  <2>2. Head(queue[s]) \in Fires /\ Tail(queue[s]) \in Seq(Fires)
    BY <2>1, HeadTailProperties
  <2>3. Append(line, Head(queue[s])) \in Seq(Fires)
    BY <2>2, AppendProperties
  <2>4. queue' \in [Rules -> Seq(Fires)] /\ line' \in Seq(Fires)
    BY <1>2, <2>2, <2>3 DEF Take
  <2>5. QED
    BY <1>2, <2>4 DEF Take
<1>3. ASSUME Enter PROVE TypeOK'
  <2>1. line' \in Seq(Fires) /\ Head(line) \in Fires
    BY <1>3, HeadTailProperties DEF Enter
  <2>2. QED
    BY <1>3, <2>1 DEF Enter
<1>4. ASSUME NEW f \in Fires, Match(f) \/ Reject(f) \/ ClaimFails(f) \/ CreateFails(f) PROVE TypeOK'
  <2>1. RuleOf[f] \in Rules
    BY RuleAssumption
  <2>2. CASE Match(f)
    <3>1. task' = task \/ task' = Moved(RuleOf[f], "active", "triggered")
      BY <2>2 DEF Match
    <3>2. task' \in [Rules -> {"standing", "active", "triggered", "timed_out", "removed"}]
      BY <2>1, <3>1, MovedTyped
    <3>3. at' = [at EXCEPT ![f] = "spent"] \/ at' = [at EXCEPT ![f] = "create"]
      BY <2>2 DEF Match
    <3>4. UNCHANGED <<queue, line, dead, status, rid, stage, conv, removing, orphaned, spent>>
      BY <2>2 DEF Match
    <3>5. QED
      BY <3>2, <3>3, <3>4
  <2>3. CASE Reject(f)
    BY <2>3 DEF Reject
  <2>4. CASE ClaimFails(f)
    BY <2>4 DEF ClaimFails
  <2>5. CASE CreateFails(f)
    BY <2>1, <2>5 DEF CreateFails, Moved
  <2>6. QED
    BY <1>4, <2>2, <2>3, <2>4, <2>5
<1>5. ASSUME NEW f \in Fires, CreateRun(f) PROVE TypeOK'
  BY <1>5 DEF CreateRun
<1>6. ASSUME NEW t \in Turns, Raise(t) \/ Kill(t) PROVE TypeOK'
  <2>1. bound' \in [Fires -> {"none"} \cup Who]
    BY <1>6 DEF Raise, Kill, Unbound
  <2>2. \E pc \in {"failing", "dying", "leave"} : stage' = [stage EXCEPT ![t] = pc]
    BY <1>6 DEF Raise, Kill
  <2>3. UNCHANGED <<task, dispatch, status, rid, parked, replies, gone, removing>>
    BY <1>6 DEF Raise, Kill
  <2>4. spent' \in SUBSET Faults /\ orphaned' \in SUBSET Fires
    BY <1>6, OrphansTyped DEF Raise, Kill
  <2>5. QED
    BY <2>1, <2>2, <2>3, <2>4
<1>7. ASSUME NEW t \in Turns, KillEarly(t) PROVE TypeOK'
  <2>1. t[1] \in Fires /\ RuleOf[t[1]] \in Rules
    BY RuleAssumption DEF Turns
  <2>2. stage' = [stage EXCEPT ![t] = "off"] /\ (at' = at \/ at' = [at EXCEPT ![t[1]] = "killed"])
    BY <1>7 DEF KillEarly
  <2>3. dead' \in SUBSET Rules /\ gone' \in SUBSET Fires
    <3>1. dead' = dead \/ dead' = dead \cup {RuleOf[t[1]]}
      BY <1>7 DEF KillEarly
    <3>2. gone' = gone \/ gone' = gone \cup {t[1]}
      BY <1>7 DEF KillEarly
    <3>3. QED
      BY <2>1, <3>1, <3>2
  <2>4. spent' \in SUBSET Faults /\ orphaned' \in SUBSET Fires
    <3>1. Spend("kill") /\ Orphans(t)
      BY <1>7 DEF KillEarly
    <3>2. QED
      BY <3>1, OrphansTyped
  <2>5. UNCHANGED <<task, queue, line, status, rid, bound, parked, replies, removing>>
    BY <1>7 DEF KillEarly
  <2>6. QED
    BY <2>2, <2>3, <2>4, <2>5
<1>8. ASSUME NEW f \in Fires, Reply(f) PROVE TypeOK'
  <2>1. parked' = parked \/ parked' = [parked EXCEPT ![f] = TRUE]
    BY <1>8 DEF Reply
  <2>2. parked' \in [Fires -> BOOLEAN]
    BY <2>1
  <2>3. replies' = replies \/ replies' = [replies EXCEPT ![f] = replies[f] + 1]
    BY <1>8 DEF Reply
  <2>4. replies' \in [Fires -> Nat]
    <3>1. replies[f] + 1 \in Nat
      OBVIOUS
    <3>2. QED
      BY <2>3, <3>1
  <2>5. status' = status \/ status' = [status EXCEPT ![f] = "running"]
    BY <1>8 DEF Reply
  <2>6. status' \in [Fires -> {"absent", "running", "pending", "done", "cancelled", "deleted"}]
    BY <2>5
  <2>7. gone' \in SUBSET Fires /\ orphaned' \in SUBSET Fires
    BY <1>8 DEF Reply, Settles
  <2>8. spent' \in SUBSET Faults /\ UNCHANGED <<task, dispatch, rid, stage, bound, removing>>
    BY <1>8 DEF Reply
  <2>9. QED
    BY <2>2, <2>4, <2>6, <2>7, <2>8
<1>9. ASSUME NEW f \in Fires, ReplyStart(f) PROVE TypeOK'
  <2>1. <<f, "reply">> \in Turns
    BY DEF Turns, Who
  <2>2. replies' \in [Fires -> Nat]
    BY <1>9 DEF ReplyStart
  <2>3. QED
    BY <1>9, <2>1, <2>2 DEF ReplyStart
<1>10. ASSUME NEW s \in Rules, TimeoutClaim(s) \/ RemoveRule(s) PROVE TypeOK'
  BY <1>10 DEF TimeoutClaim, RemoveRule
<1>11. ASSUME NEW s \in Rules, RemoveRuns(s) PROVE TypeOK'
  <2>1. \A t \in Turns : Interrupted(stage[t]) \in {"off", "start", "early", "agent", "stopped",
                             "finish", "hook", "leave", "failing", "dying"}
    BY DEF Interrupted
  <2>2. /\ stage' \in [Turns -> {"off", "start", "early", "agent", "stopped", "finish",
                                "hook", "leave", "failing", "dying"}]
        /\ bound' \in [Fires -> {"none"} \cup Who]
    BY <1>11, <2>1 DEF RemoveRuns
  <2>3. QED
    BY <1>11, <2>2 DEF RemoveRuns
<1>12. ASSUME NEW t \in Turns, TurnMark(t) \/ TurnMarkFails(t) \/ TurnWrite(t) \/ TurnWriteFails(t)
       PROVE  TypeOK'
  <2>1. t[1] \in Fires /\ t[2] \in Who
    BY DEF Turns
  <2>2. \A w \in {"running", "cancelled", "done", "pending"} :
          Wrote(t[1], w) \in [Fires -> {"absent", "running", "pending", "done", "cancelled", "deleted"}]
    BY DEF Wrote
  <2>3. status' \in [Fires -> {"absent", "running", "pending", "done", "cancelled", "deleted"}]
    BY <1>12, <2>2 DEF TurnMark, TurnMarkFails, TurnWrite, TurnWriteFails
  <2>4. \E pc \in {"early", "hook"} : stage' = [stage EXCEPT ![t] = pc]
    BY <1>12 DEF TurnMark, TurnMarkFails, TurnWrite, TurnWriteFails
  <2>5. rid' \in [Fires -> {"none"} \cup Who]
    BY <1>12, <2>1 DEF TurnMark, TurnMarkFails, TurnWrite, TurnWriteFails
  <2>6. spent' \in SUBSET Faults /\ orphaned' \in SUBSET Fires
    BY <1>12, OrphansTyped DEF TurnMark, TurnMarkFails, TurnWrite, TurnWriteFails
  <2>7. UNCHANGED <<task, dispatch, conv, removing>>
    BY <1>12 DEF TurnMark, TurnMarkFails, TurnWrite, TurnWriteFails
  <2>8. QED
    BY <2>3, <2>4, <2>5, <2>6, <2>7
<1>13. ASSUME NEW t \in Turns, TurnBind(t) \/ LoopEnds(t) \/ Stop(t) \/ TurnEnd(t) \/ Absorb(t)
       PROVE  TypeOK'
  <2>1. t[1] \in Fires /\ t[2] \in Who
    BY DEF Turns
  <2>2. bound' \in [Fires -> {"none"} \cup Who]
    <3>1. bound' = bound \/ \E w \in Who \cup {"none", bound[t[1]]} : bound' = [bound EXCEPT ![t[1]] = w]
      BY <1>13, <2>1 DEF TurnBind, LoopEnds, Stop, TurnEnd, Absorb, Unbound
    <3>2. QED
      BY <2>1, <3>1
  <2>3. stage' = stage \/ \E pc \in {"agent", "finish", "stopped", "leave"} : stage' = [stage EXCEPT ![t] = pc]
    BY <1>13 DEF TurnBind, LoopEnds, Stop, TurnEnd, Absorb
  <2>4. parked' \in [Fires -> BOOLEAN] /\ replies' = replies
    BY <1>13 DEF TurnBind, LoopEnds, Stop, TurnEnd, Absorb
  <2>5. spent' \in SUBSET Faults
    BY <1>13 DEF TurnBind, LoopEnds, Stop, TurnEnd, Absorb
  <2>6. UNCHANGED <<task, dispatch, status, rid, gone, removing, orphaned>>
    BY <1>13 DEF TurnBind, LoopEnds, Stop, TurnEnd, Absorb
  <2>7. QED
    <3>1. stage' \in [Turns -> {"off", "start", "early", "agent", "stopped", "finish",
                               "hook", "leave", "failing", "dying"}]
      BY <2>3
    <3>2. QED
      BY <2>2, <2>4, <2>5, <2>6, <3>1
<1>14. ASSUME NEW t \in Turns, TurnLeave(t) \/ FailureUnwritten(t) PROVE TypeOK'
  <2>1. t[1] \in Fires /\ RuleOf[t[1]] \in Rules
    BY RuleAssumption DEF Turns
  <2>2. Left(t)
    BY <1>14 DEF TurnLeave, FailureUnwritten
  <2>3. /\ parked' \in [Fires -> BOOLEAN] /\ replies' \in [Fires -> Nat]
        /\ gone' \in SUBSET Fires
    BY <2>1, <2>2 DEF Left, Flush
  <2>4. status' \in [Fires -> {"absent", "running", "pending", "done", "cancelled", "deleted"}]
    BY <1>14, <2>1 DEF TurnLeave, FailureUnwritten, Wrote
  <2>5. dead' \in SUBSET Rules
    BY <2>1, <2>2 DEF Left
  <2>6. at' \in [Fires -> {"new", "queued", "line", "killed", "lost"} \cup Holding \cup Handled]
    BY <2>1, <2>2 DEF Left
  <2>7. spent' \in SUBSET Faults /\ orphaned' \in SUBSET Fires
    BY <1>14, OrphansTyped DEF TurnLeave, FailureUnwritten
  <2>8. stage' = [stage EXCEPT ![t] = "off"] /\ UNCHANGED <<task, queue, line, rid, bound, removing>>
    BY <2>2 DEF Left
  <2>9. QED
    BY <2>3, <2>4, <2>5, <2>6, <2>7, <2>8
<1>15. ASSUME Restart PROVE TypeOK'
  <2>1. queue' \in [Rules -> Seq(Fires)] /\ line' \in Seq(Fires)
    BY <1>15, NoEntries DEF Restart
  <2>2. parked' \in [Fires -> BOOLEAN]
    BY <1>15 DEF Restart
  <2>3. QED
    BY <1>15, <2>1, <2>2 DEF Restart
<1>16. ASSUME UNCHANGED vars PROVE TypeOK'
  BY <1>16 DEF vars
<1>17. QED
  BY <1>1, <1>2, <1>3, <1>4, <1>5, <1>6, <1>7, <1>8, <1>9, <1>10, <1>11, <1>12, <1>13, <1>14, <1>15, <1>16
     DEF Next, JobStep, JobFault, TurnStep, TurnFault

LEMMA Placed == Spec => [](TypeOK /\ Places /\ SlotsHeld)
<1>1. TypeOK /\ Places /\ SlotsHeld /\ [Next]_vars => (TypeOK /\ Places /\ SlotsHeld)'
  BY JobsStep, FreeInRange, TypeStep
<1>2. QED
  BY TypeInit, <1>1, PTL DEF Spec

\* Every variable stays in the range the code gives it, the semaphore's value included.
THEOREM TypeCorrect == Spec => []TypeOK
BY Placed, PTL

\* However jobs end, dropped, failed, over, cancelled with their worker or lost
\* in a crash, the semaphore counts as many free slots as nobody holds.
THEOREM SlotsConservedAlways == Spec => []SlotsConserved
<1>1. SlotsHeld => SlotsConserved
  BY DEF SlotsHeld
<1>2. QED
  BY Placed, <1>1, PTL

-----------------------------------------------------------------------------
(* Rows and claims                                                         *)

\* A row exists only for a job that got past the creation of its run, and a
\* turn or a queued reply only in a run that has a row.
Rows == \A f \in Fires :
  /\ status[f] # "absent" => at[f] \in {"run", "over", "killed", "lost"}
  /\ at[f] = "run" => status[f] # "absent"
  /\ stage[<<f, "reply">>] # "off" => status[f] # "absent"
  /\ replies[f] > 0 => status[f] # "absent"

\* The trigger that consumed its one-shot, from the claim to the row.
Claimant(f) == at[f] = "create" \/ status[f] # "absent"

\* A one-shot that has a claimant is neither armed nor expired, and has no other.
OneClaim == \A f \in Fires : RuleOf[f] \in Once /\ Claimant(f) =>
  /\ task[RuleOf[f]] \notin {"active", "timed_out"}
  /\ \A g \in Fires : RuleOf[g] = RuleOf[f] /\ Claimant(g) => g = f

\* The steps that claim nothing, revert nothing and create nothing.
Steady ==
  /\ \A f \in Fires :
       /\ status'[f] = "absent" <=> status[f] = "absent"
       /\ status[f] # "absent" => at'[f] \in {"run", "over", "killed", "lost"}
       /\ at'[f] \in {"run", "create"} => at[f] = at'[f]
       /\ stage'[<<f, "reply">>] # "off" => stage[<<f, "reply">>] # "off" \/ replies[f] > 0
       /\ replies'[f] > 0 => status[f] # "absent"
  /\ \A s \in Rules : task'[s] \in {"active", "timed_out"} => task[s] \in {"active", "timed_out"}

LEMMA SteadyStep ==
  ASSUME Rows, OneClaim, Steady
  PROVE  Rows' /\ OneClaim'
<1>1. Rows'
  BY DEF Rows, Steady
<1>2. \A f \in Fires : RuleOf[f] \in Rules /\ (Claimant(f)' => Claimant(f))
  BY RuleAssumption DEF Steady, Claimant
<1>3. OneClaim'
  BY <1>2 DEF OneClaim, Steady
<1>4. QED
  BY <1>1, <1>3

\* A turn that has not returned belongs to a run with a row.
LEMMA TurnHasRow ==
  ASSUME Places, Rows
  PROVE  \A t \in Turns : t[1] \in Fires /\ (stage[t] # "off" => status[t[1]] # "absent")
<1> SUFFICES ASSUME NEW f \in Fires, NEW w \in Who, stage[<<f, w>>] # "off"
             PROVE  status[f] # "absent"
  BY DEF Turns
<1>1. QED
  BY DEF Places, Rows, Who

LEMMA ReplyTurn == \A f \in Fires : <<f, "reply">> \in Turns
BY DEF Turns, Who

\* A turn of a run that has a row moves, writes to the row, flushes.
LEMMA TurnSteady ==
  ASSUME TypeOK, Places, Rows, NEW t \in Turns, stage[t] # "off",
         NEW pc, stage' = [stage EXCEPT ![t] = pc],
         NEW s, s # "absent", status' = status \/ status' = Wrote(t[1], s),
         \/ at' = at
         \/ at[t[1]] = "run" /\ \E a \in {"over", "killed"} : at' = [at EXCEPT ![t[1]] = a],
         \A g \in Fires : replies'[g] > 0 => replies[g] > 0 \/ g = t[1],
         task' = task
  PROVE  Steady
<1>1. t[1] \in Fires /\ status[t[1]] # "absent"
  BY TurnHasRow
<1>2. \A f \in Fires : status'[f] = "absent" <=> status[f] = "absent"
  BY <1>1 DEF Wrote, TypeOK
<1>3. \A f \in Fires : /\ status[f] # "absent" => at'[f] \in {"run", "over", "killed", "lost"}
                       /\ at'[f] \in {"run", "create"} => at[f] = at'[f]
  <2>1. \A f \in Fires : at'[f] = at[f] \/ at'[f] \in {"over", "killed"}
    BY <1>1 DEF TypeOK
  <2>2. QED
    BY <2>1 DEF Rows
<1>4. \A f \in Fires : stage'[<<f, "reply">>] # "off" => stage[<<f, "reply">>] # "off"
  BY ReplyTurn DEF TypeOK
<1>5. \A f \in Fires : replies'[f] > 0 => status[f] # "absent"
  BY <1>1 DEF Rows
<1>6. QED
  BY <1>2, <1>3, <1>4, <1>5 DEF Steady

LEMMA RowsInit == Init => Rows /\ OneClaim
BY ReplyTurn DEF Init, Rows, OneClaim, Claimant

LEMMA RowsStep ==
  ASSUME TypeOK, Places, Rows, OneClaim, [Next]_vars
  PROVE  Rows' /\ OneClaim'
<1> USE DEF dispatch, conv, GoJob, GoTurn, Leave
<1>1. ASSUME NEW f \in Fires, Dispatch(f) PROVE Steady
  BY <1>1 DEF Dispatch, Steady, Rows, TypeOK
<1>2. ASSUME NEW s \in Rules, Take(s) PROVE Steady
  <2>1. Head(queue[s]) \in Fires /\ at[Head(queue[s])] = "queued"
    BY <1>2, Queued DEF Take
  <2>2. QED
    BY <1>2, <2>1 DEF Take, Steady, Rows, TypeOK
<1>3. ASSUME Enter PROVE Steady
  <2>1. Head(line) \in Fires /\ at[Head(line)] = "line"
    BY <1>3, Queued DEF Enter
  <2>2. \E pc \in {"spent", "gate"} : at' = [at EXCEPT ![Head(line)] = pc]
    BY <1>3 DEF Enter
  <2>3. QED
    BY <1>3, <2>1, <2>2 DEF Enter, Steady, Rows, TypeOK
<1>4. ASSUME NEW f \in Fires, Reject(f) \/ ClaimFails(f) PROVE Steady
  BY <1>4 DEF Reject, ClaimFails, Steady, Rows, TypeOK
<1>5. ASSUME NEW f \in Fires, Match(f) PROVE Rows' /\ OneClaim'
  <2>1. /\ at[f] = "gate" /\ UNCHANGED <<status, stage, replies>>
        /\ RuleOf[f] \in Rules
    BY <1>5, RuleAssumption DEF Match
  <2>2. CASE Leave(f, "spent") /\ task' = task
    <3>1. Steady
      BY <2>1, <2>2 DEF Steady, Rows, TypeOK
    <3>2. QED
      BY <3>1, SteadyStep
  <2>3. CASE /\ ~(RuleOf[f] \in Once /\ task[RuleOf[f]] # "active")
             /\ at' = [at EXCEPT ![f] = "create"] /\ task' = Moved(RuleOf[f], "active", "triggered")
    <3>1. Rows'
      BY <2>1, <2>3 DEF Rows, TypeOK
    <3>2. \A g \in Fires : Claimant(g)' => Claimant(g) \/ g = f
      BY <2>1, <2>3 DEF Claimant, TypeOK
    <3>3. RuleOf[f] \in Once => \A g \in Fires : RuleOf[g] = RuleOf[f] => ~Claimant(g)
      BY <2>3 DEF OneClaim
    <3>4. \A s \in Rules : task'[s] \in {"active", "timed_out"} =>
            task'[s] = task[s] /\ (s # RuleOf[f] \/ task[RuleOf[f]] # "active")
      BY <2>1, <2>3 DEF Moved, TypeOK
    <3>5. \A g \in Fires : RuleOf[g] \in Rules
      BY RuleAssumption
    <3>6. OneClaim'
      BY <2>3, <3>2, <3>3, <3>4, <3>5 DEF OneClaim
    <3>7. QED
      BY <3>1, <3>6
  <2>4. QED
    BY <1>5, <2>2, <2>3 DEF Match
<1>6. ASSUME NEW f \in Fires, CreateRun(f) PROVE Rows' /\ OneClaim'
  <2>1. /\ at[f] = "create" /\ status' = [status EXCEPT ![f] = "running"]
        /\ at' = [at EXCEPT ![f] = "run"] /\ stage' = [stage EXCEPT ![<<f, "fire">>] = "start"]
        /\ UNCHANGED <<task, replies>>
    BY <1>6 DEF CreateRun
  <2>2. \A g \in Fires : stage'[<<g, "reply">>] = stage[<<g, "reply">>]
    BY <2>1, ReplyTurn DEF TypeOK
  <2>3. Rows'
    BY <2>1, <2>2 DEF Rows, TypeOK
  <2>4. \A g \in Fires : Claimant(g)' => Claimant(g)
    BY <2>1 DEF Claimant, TypeOK
  <2>5. OneClaim'
    BY <2>1, <2>4 DEF OneClaim
  <2>6. QED
    BY <2>3, <2>5
<1>7. ASSUME NEW f \in Fires, CreateFails(f) PROVE Rows' /\ OneClaim'
  <2>1. /\ at[f] = "create" /\ at' = [at EXCEPT ![f] = "failed"]
        /\ task' = Moved(RuleOf[f], "triggered", "active")
        /\ UNCHANGED <<status, stage, replies>> /\ RuleOf[f] \in Rules
    BY <1>7, RuleAssumption DEF CreateFails
  <2>2. Rows'
    BY <2>1 DEF Rows, TypeOK
  <2>3. status[f] = "absent"
    BY <2>1 DEF Rows
  <2>4. \A g \in Fires : Claimant(g)' => Claimant(g) /\ g # f
    BY <2>1, <2>3 DEF Claimant, TypeOK
  <2>5. \A g \in Fires : RuleOf[f] \in Once /\ Claimant(g)' => RuleOf[g] # RuleOf[f]
    BY <2>1, <2>4 DEF OneClaim, Claimant
  <2>6. \A s \in Rules : s # RuleOf[f] => task'[s] = task[s]
    BY <2>1 DEF Moved, TypeOK
  <2>7. \A g \in Fires : RuleOf[g] \in Rules
    BY RuleAssumption
  <2>8. OneClaim'
    BY <2>4, <2>5, <2>6, <2>7 DEF OneClaim
  <2>9. QED
    BY <2>2, <2>8
<1>8. ASSUME NEW s \in Rules, TimeoutClaim(s) \/ RemoveRule(s) PROVE Steady
  BY <1>8 DEF TimeoutClaim, RemoveRule, Steady, Rows, TypeOK
<1>9. ASSUME NEW s \in Rules, RemoveRuns(s) PROVE Steady
  <2>1. /\ status' = [f \in Fires |-> IF f \in RunsOf(s) THEN "deleted" ELSE status[f]]
        /\ replies' = [f \in Fires |-> IF f \in RunsOf(s) THEN 0 ELSE replies[f]]
        /\ UNCHANGED <<task, at>>
    BY <1>9 DEF RemoveRuns
  <2>2. \A t \in Turns : stage'[t] = stage[t] \/ stage'[t] = Interrupted(stage[t])
    BY <1>9 DEF RemoveRuns
  <2>3. \A pc : Interrupted(pc) = "off" <=> pc = "off"
    BY DEF Interrupted
  <2>4. \A f \in Fires : stage'[<<f, "reply">>] # "off" => stage[<<f, "reply">>] # "off"
    BY <2>2, <2>3, ReplyTurn
  <2>5. QED
    BY <2>1, <2>4 DEF Steady, Rows, RunsOf, TypeOK
<1>10. ASSUME NEW f \in Fires, Reply(f) PROVE Steady
  <2>1. /\ status' = status \/ status' = [status EXCEPT ![f] = "running"]
        /\ status[f] # "absent" /\ UNCHANGED <<task, at, stage>>
    BY <1>10 DEF Reply
  <2>2. \A g \in Fires : g # f => replies'[g] = replies[g]
    BY <1>10 DEF Reply, TypeOK
  <2>3. QED
    BY <2>1, <2>2 DEF Steady, Rows, TypeOK
<1>11. ASSUME NEW f \in Fires, ReplyStart(f) PROVE Steady
  <2>1. /\ replies[f] > 0 /\ replies' = [replies EXCEPT ![f] = replies[f] - 1]
        /\ stage' = [stage EXCEPT ![<<f, "reply">>] = "start"] /\ UNCHANGED <<task, at, status>>
    BY <1>11 DEF ReplyStart
  <2>2. \A g \in Fires : g # f => replies'[g] = replies[g] /\ stage'[<<g, "reply">>] = stage[<<g, "reply">>]
    BY <2>1, ReplyTurn DEF TypeOK
  <2>3. QED
    BY <2>1, <2>2 DEF Steady, Rows
<1>12. ASSUME NEW t \in Turns,
              \/ TurnMark(t) \/ TurnMarkFails(t) \/ TurnBind(t) \/ LoopEnds(t) \/ Stop(t)
              \/ TurnWrite(t) \/ TurnWriteFails(t) \/ TurnEnd(t)
       PROVE  Steady
  <2>1. stage[t] # "off" /\ UNCHANGED <<task, at, replies>>
    BY <1>12 DEF TurnMark, TurnMarkFails, TurnBind, LoopEnds, Stop, TurnWrite, TurnWriteFails, TurnEnd
  <2>2. \E pc : stage' = [stage EXCEPT ![t] = pc]
    BY <1>12 DEF TurnMark, TurnMarkFails, TurnBind, LoopEnds, Stop, TurnWrite, TurnWriteFails, TurnEnd
  <2>3. \E s \in {"running", "cancelled", "done", "pending"} : status' = status \/ status' = Wrote(t[1], s)
    BY <1>12 DEF TurnMark, TurnMarkFails, TurnBind, LoopEnds, Stop, TurnWrite, TurnWriteFails, TurnEnd
  <2>4. QED
    BY <2>1, <2>2, <2>3, TurnSteady
<1>13. ASSUME NEW t \in Turns, Raise(t) \/ Kill(t) PROVE Steady
  <2>1. stage[t] # "off" /\ UNCHANGED <<task, at, status, replies>>
    BY <1>13 DEF Raise, Kill, Tried
  <2>2. \E pc : stage' = [stage EXCEPT ![t] = pc]
    BY <1>13 DEF Raise, Kill
  <2>3. QED
    BY <2>1, <2>2, TurnSteady
<1>14. ASSUME NEW t \in Turns, KillEarly(t) PROVE Steady
  <2>1. /\ stage[t] # "off" /\ stage' = [stage EXCEPT ![t] = "off"]
        /\ UNCHANGED <<task, status, replies>>
    BY <1>14 DEF KillEarly, Untried
  <2>2. at' = at \/ (t[2] # "reply" /\ at' = [at EXCEPT ![t[1]] = "killed"])
    BY <1>14 DEF KillEarly
  <2>3. t[2] # "reply" => at[t[1]] = "run"
    BY <2>1 DEF Turns, Who, Places
  <2>4. QED
    BY <2>1, <2>2, <2>3, TurnSteady
<1>15. ASSUME NEW t \in Turns, TurnLeave(t) \/ FailureUnwritten(t) PROVE Steady
  <2>1. stage[t] # "off" /\ stage' = [stage EXCEPT ![t] = "off"] /\ task' = task
    BY <1>15 DEF TurnLeave, FailureUnwritten, Left
  <2>2. status' = status \/ status' = Wrote(t[1], "done")
    BY <1>15 DEF TurnLeave, FailureUnwritten, Left
  <2>3. \/ at' = at
        \/ at[t[1]] = "run" /\ \E a \in {"over", "killed"} : at' = [at EXCEPT ![t[1]] = a]
    <3>1. CASE t[2] = "reply"
      BY <1>15, <3>1 DEF TurnLeave, FailureUnwritten, Left
    <3>2. CASE t[2] # "reply"
      <4>1. PICK f \in Fires : t = <<f, "fire">>
        BY <3>2 DEF Turns, Who
      <4>2. at[t[1]] = "run"
        BY <2>1, <4>1 DEF Places
      <4>3. QED
        BY <1>15, <3>2, <4>2 DEF TurnLeave, FailureUnwritten, Left
    <3>3. QED
      BY <3>1, <3>2
  <2>4. \A g \in Fires : replies'[g] > 0 => replies[g] > 0 \/ g = t[1]
    BY <1>15 DEF TurnLeave, FailureUnwritten, Left, Flush, TypeOK
  <2>5. QED
    BY <2>1, <2>2, <2>3, <2>4, TurnSteady
<1>16. ASSUME Restart PROVE Steady
  BY <1>16, ReplyTurn DEF Restart, Steady, Rows, Holding, TypeOK
<1>17. ASSUME UNCHANGED vars \/ \E t \in Turns : Absorb(t) PROVE Steady
  BY <1>17 DEF Steady, Rows, vars, Absorb
<1>18. QED
  BY <1>1, <1>2, <1>3, <1>4, <1>5, <1>6, <1>7, <1>8, <1>9, <1>10, <1>11, <1>12, <1>13, <1>14, <1>15,
     <1>16, <1>17, SteadyStep
     DEF Next, JobStep, JobFault, TurnStep, TurnFault

LEMMA Claimed == Spec => [](Rows /\ OneClaim)
<1>1. TypeOK /\ Places /\ Rows /\ OneClaim /\ [Next]_vars => (Rows /\ OneClaim)'
  BY RowsStep
<1>2. QED
  BY Placed, RowsInit, <1>1, PTL DEF Spec

\* A one-shot is consumed once, by one of its triggers or by its deadline, for
\* any number of triggers racing with the gate, the claim and its reversal.
THEOREM OneOutcomeAlways == Spec => []OneOutcome
<1>1. Rows /\ OneClaim => OneOutcome
  <2> SUFFICES ASSUME OneClaim, NEW s \in Once
               PROVE  LET ran == {f \in Fires : RuleOf[f] = s /\ status[f] # "absent"}
                      IN  Cardinality(ran) <= 1 /\ (task[s] = "timed_out" => ran = {})
    BY DEF OneOutcome
  <2> DEFINE ran == {f \in Fires : RuleOf[f] = s /\ status[f] # "absent"}
  <2>1. \A f \in ran : \A g \in ran : f = g
    BY DEF OneClaim, Claimant
  <2>2. task[s] = "timed_out" => ran = {}
    BY DEF OneClaim, Claimant
  <2>3. ran = {} \/ \E f : ran = {f}
    BY <2>1
  <2> HIDE DEF ran
  <2>4. Cardinality(ran) \in {0, 1}
    BY <2>3, FS_EmptySet, FS_Singleton
  <2>5. QED
    BY <2>2, <2>4 DEF ran
<1>2. QED
  BY Claimed, <1>1, PTL

-----------------------------------------------------------------------------
(* No row is left running otherwise                                        *)

\* RunningIsLive of one run.
Live(f) ==
  status[f] = "running" /\ f \notin orphaned \cup gone
  => replies[f] > 0 \/ \E w \in Who : stage[<<f, w>>] \in Unwritten

\* What a step that writes no "running" and ends no turn before its outcome is
\* written does to a run.
Attended(f) ==
  /\ status'[f] = "running" => status[f] = "running"
  /\ f \in orphaned \cup gone => f \in orphaned' \cup gone'
  /\ replies[f] > 0 => replies'[f] > 0
  /\ \A w \in Who : stage[<<f, w>>] \in Unwritten => stage'[<<f, w>>] \in Unwritten

\* Such a step keeps the property of that run.
LEMMA AttendedStep == \A f : Live(f) /\ Attended(f) => Live(f)'
BY DEF Live, Attended

\* A turn moves on, maybe to its end, and is counted if its outcome is unwritten.
LEMMA OrphansLive ==
  ASSUME TypeOK, NEW f \in Fires, Live(f), NEW t \in Turns, Orphans(t),
         NEW pc, stage' = [stage EXCEPT ![t] = pc],
         UNCHANGED <<status, replies>>, gone \subseteq gone'
  PROVE  Live(f)'
<1>1. CASE f = t[1] /\ stage[t] \in Unwritten
  BY <1>1 DEF Orphans, Live
<1>2. CASE ~(f = t[1] /\ stage[t] \in Unwritten)
  <2>1. \A w \in Who : stage'[<<f, w>>] = IF <<f, w>> = t THEN pc ELSE stage[<<f, w>>]
    BY DEF TypeOK, Turns
  <2>2. \A w \in Who : stage[<<f, w>>] \in Unwritten => stage'[<<f, w>>] \in Unwritten
    BY <1>2, <2>1
  <2>3. Attended(f)
    BY <2>2 DEF Attended, Orphans
  <2>4. QED
    BY <2>3, AttendedStep
<1>3. QED
  BY <1>1, <1>2

LEMMA LiveInit == Init => RunningIsLive
BY DEF Init, RunningIsLive

LEMMA LiveStep ==
  ASSUME TypeOK, RunningIsLive, [Next]_vars
  PROVE  RunningIsLive'
<1> SUFFICES ASSUME NEW f \in Fires PROVE Live(f)'
  BY DEF RunningIsLive, Live
<1>0. Live(f)
  BY DEF RunningIsLive, Live
<1> USE DEF dispatch, conv, GoJob, GoTurn, Leave, Spend
<1>1. ASSUME \/ \E g \in Fires : Dispatch(g) \/ Reject(g) \/ ClaimFails(g) \/ Match(g) \/ CreateFails(g)
             \/ \E s \in Rules : Take(s) \/ TimeoutClaim(s) \/ RemoveRule(s)
             \/ Enter \/ UNCHANGED vars \/ \E t \in Turns : Absorb(t)
      PROVE  Attended(f)
  <2>1. UNCHANGED <<status, stage, replies, gone, orphaned>>
    BY <1>1 DEF Dispatch, Reject, ClaimFails, Match, CreateFails, Take, TimeoutClaim, RemoveRule,
                Enter, vars, Absorb
  <2>2. QED
    BY <2>1 DEF Attended
<1>2. ASSUME NEW g \in Fires, CreateRun(g) PROVE Live(f)'
  <2>1. /\ status' = [status EXCEPT ![g] = "running"]
        /\ stage' = [stage EXCEPT ![<<g, "fire">>] = "start"]
        /\ UNCHANGED <<replies, gone, orphaned>>
    BY <1>2 DEF CreateRun
  <2>2. \A w \in Who : stage'[<<f, w>>] = IF <<f, w>> = <<g, "fire">> THEN "start" ELSE stage[<<f, w>>]
    <3>1. <<g, "fire">> \in Turns
      BY FireTurn
    <3>2. QED
      BY <2>1, <3>1 DEF TypeOK, Turns
  <2>3. CASE f = g
    BY <2>2, <2>3 DEF Live, Who, Unwritten
  <2>4. CASE f # g
    <3>1. Attended(f)
      BY <2>1, <2>2, <2>4 DEF Attended, Who, TypeOK
    <3>2. QED
      BY <1>0, <3>1, AttendedStep
  <2>5. QED
    BY <2>3, <2>4
<1>3. ASSUME NEW s \in Rules, RemoveRuns(s) PROVE Live(f)'
  <2>1. CASE f \in RunsOf(s)
    BY <1>3, <2>1 DEF RemoveRuns, Live
  <2>2. CASE f \notin RunsOf(s)
    <3>1. status'[f] = status[f] /\ replies'[f] = replies[f] /\ UNCHANGED <<gone, orphaned>>
      BY <1>3, <2>2 DEF RemoveRuns
    <3>2. \A w \in Who : stage'[<<f, w>>] = stage[<<f, w>>]
      BY <1>3, <2>2 DEF RemoveRuns, Turns
    <3>3. Attended(f)
      BY <3>1, <3>2 DEF Attended, Who
    <3>4. QED
      BY <1>0, <3>3, AttendedStep
  <2>3. QED
    BY <2>1, <2>2
<1>4. ASSUME NEW g \in Fires, Reply(g) PROVE Live(f)'
  <2>1. CASE UNCHANGED <<status, replies, gone, orphaned>>
    <3>1. Attended(f)
      BY <1>4, <2>1 DEF Reply, Attended
    <3>2. QED
      BY <1>0, <3>1, AttendedStep
  <2>2. CASE /\ status' = [status EXCEPT ![g] = "running"]
             /\ replies' = [replies EXCEPT ![g] = @ + 1]
             /\ gone' = gone \ {g} /\ orphaned' = orphaned \ {g}
    <3>1. CASE f = g
      BY <2>2, <3>1 DEF Live, TypeOK
    <3>2. CASE f # g
      <4>1. Attended(f)
        BY <1>4, <2>2, <3>2 DEF Reply, Attended, TypeOK
      <4>2. QED
        BY <1>0, <4>1, AttendedStep
    <3>3. QED
      BY <3>1, <3>2
  <2>3. QED
    BY <1>4, <2>1, <2>2 DEF Reply, Settles
<1>5. ASSUME NEW g \in Fires, ReplyStart(g) PROVE Live(f)'
  <2>1. /\ replies' = [replies EXCEPT ![g] = replies[g] - 1]
        /\ stage' = [stage EXCEPT ![<<g, "reply">>] = "start"] /\ UNCHANGED <<status, gone, orphaned>>
    BY <1>5 DEF ReplyStart
  <2>2. \A w \in Who : stage'[<<f, w>>] = IF <<f, w>> = <<g, "reply">> THEN "start" ELSE stage[<<f, w>>]
    <3>1. <<g, "reply">> \in Turns
      BY ReplyTurn
    <3>2. QED
      BY <2>1, <3>1 DEF TypeOK, Turns
  <2>3. CASE f = g
    BY <2>2, <2>3 DEF Live, Who, Unwritten
  <2>4. CASE f # g
    <3>1. Attended(f)
      BY <2>1, <2>2, <2>4 DEF Attended, Who, TypeOK
    <3>2. QED
      BY <1>0, <3>1, AttendedStep
  <2>5. QED
    BY <2>3, <2>4
<1>6. ASSUME NEW t \in Turns, TurnMark(t) \/ TurnMarkFails(t) \/ TurnBind(t) \/ LoopEnds(t) \/ Stop(t) \/ TurnEnd(t)
      PROVE  Live(f)'
  <2>1. PICK pc : stage' = [stage EXCEPT ![t] = pc] /\ (stage[t] \in Unwritten => pc \in Unwritten)
    BY <1>6 DEF TurnMark, TurnMarkFails, TurnBind, LoopEnds, Stop, TurnEnd, Unwritten
  <2>2. UNCHANGED <<replies, gone, orphaned>>
    BY <1>6 DEF TurnMark, TurnMarkFails, TurnBind, LoopEnds, Stop, TurnEnd
  <2>3. \A w \in Who : stage'[<<f, w>>] = IF <<f, w>> = t THEN pc ELSE stage[<<f, w>>]
    BY <2>1 DEF TypeOK, Turns
  <2>4. CASE f = t[1] /\ TurnMark(t)
    <3>1. stage'[t] = "early" /\ \E w \in Who : t = <<f, w>>
      BY <2>4 DEF TurnMark, TypeOK, Turns
    <3>2. QED
      BY <3>1 DEF Live, Unwritten
  <2>5. CASE ~(f = t[1] /\ TurnMark(t))
    <3>1. status'[f] = status[f]
      BY <1>6, <2>5 DEF TurnMark, TurnMarkFails, TurnBind, LoopEnds, Stop, TurnEnd, Wrote, TypeOK
    <3>2. Attended(f)
      BY <2>1, <2>2, <2>3, <3>1 DEF Attended, Who
    <3>3. QED
      BY <1>0, <3>2, AttendedStep
  <2>6. QED
    BY <2>4, <2>5
<1>7. ASSUME NEW t \in Turns, TurnWrite(t) PROVE Live(f)'
  <2>1. /\ stage' = [stage EXCEPT ![t] = "hook"] /\ UNCHANGED <<replies, gone>>
        /\ orphaned' = orphaned \ {t[1]}
    BY <1>7 DEF TurnWrite, Settles
  <2>2. PICK s \in {"cancelled", "done", "pending"} : status' = Wrote(t[1], s)
    BY <1>7 DEF TurnWrite
  <2>3. CASE f = t[1]
    <3>1. status'[f] # "running"
      BY <2>2, <2>3 DEF Wrote, TypeOK
    <3>2. QED
      BY <3>1 DEF Live
  <2>4. CASE f # t[1]
    <3>1. \A w \in Who : stage'[<<f, w>>] = stage[<<f, w>>]
      BY <2>1, <2>4 DEF TypeOK, Turns
    <3>2. Attended(f)
      BY <2>1, <2>2, <2>4, <3>1 DEF Attended, Who, Wrote, TypeOK
    <3>3. QED
      BY <1>0, <3>2, AttendedStep
  <2>5. QED
    BY <2>3, <2>4
<1>8. ASSUME NEW t \in Turns, TurnWriteFails(t) \/ Kill(t) \/ KillEarly(t) PROVE Live(f)'
  <2>1. PICK pc : stage' = [stage EXCEPT ![t] = pc]
    BY <1>8 DEF TurnWriteFails, Kill, KillEarly
  <2>2. Orphans(t) /\ UNCHANGED <<status, replies>> /\ gone \subseteq gone'
    BY <1>8 DEF TurnWriteFails, Kill, KillEarly
  <2>3. QED
    BY <1>0, <2>1, <2>2, OrphansLive
<1>9. ASSUME NEW t \in Turns, Raise(t) PROVE Live(f)'
  <2>1. UNCHANGED <<status, replies, gone>>
    BY <1>9 DEF Raise
  <2>2. CASE stage' = [stage EXCEPT ![t] = "failing"] /\ UNCHANGED orphaned
    <3>1. \A w \in Who : stage[<<f, w>>] \in Unwritten => stage'[<<f, w>>] \in Unwritten
      BY <2>2 DEF TypeOK, Turns, Unwritten
    <3>2. Attended(f)
      BY <2>1, <2>2, <3>1 DEF Attended
    <3>3. QED
      BY <1>0, <3>2, AttendedStep
  <2>3. CASE stage' = [stage EXCEPT ![t] = "leave"] /\ Orphans(t)
    BY <1>0, <2>1, <2>3, OrphansLive
  <2>4. QED
    BY <1>9, <2>2, <2>3 DEF Raise
<1>10. ASSUME NEW t \in Turns, TurnLeave(t) \/ FailureUnwritten(t) PROVE Live(f)'
  <2>1. /\ stage' = [stage EXCEPT ![t] = "off"] /\ stage[t] \in {"leave", "failing", "dying"}
        /\ Flush(t) /\ t[1] \in Fires
    BY <1>10 DEF TurnLeave, FailureUnwritten, Left, Turns
  <2>2. \A w \in Who : stage'[<<f, w>>] = IF <<f, w>> = t THEN "off" ELSE stage[<<f, w>>]
    BY <2>1 DEF TypeOK, Turns
  <2>3. CASE f # t[1]
    <3>1. status'[f] = status[f] /\ (f \in orphaned => f \in orphaned')
      BY <1>10, <2>1, <2>3 DEF TurnLeave, FailureUnwritten, Settles, Orphans, Wrote, TypeOK
    <3>2. replies'[f] = replies[f] /\ (f \in gone => f \in gone')
      BY <2>1, <2>3 DEF Flush, TypeOK
    <3>3. Attended(f)
      BY <2>2, <2>3, <3>1, <3>2 DEF Attended, Who
    <3>4. QED
      BY <1>0, <3>3, AttendedStep
  <2>4. CASE f = t[1] /\ stage[t] = "failing"
    <3>1. status'[f] # "running" \/ f \in orphaned'
      BY <1>10, <2>1, <2>4 DEF TurnLeave, FailureUnwritten, Orphans, Unwritten, Wrote, TypeOK
    <3>2. QED
      BY <3>1 DEF Live
  <2>5. CASE f = t[1] /\ stage[t] # "failing"
    <3>1. UNCHANGED <<status, orphaned>> /\ stage[t] \notin Unwritten
      BY <1>10, <2>1, <2>5 DEF TurnLeave, FailureUnwritten, Unwritten
    <3>2. gone \subseteq gone' \/ replies'[f] > 0
      BY <2>1, <2>5 DEF Flush, TypeOK
    <3>3. replies[f] > 0 => replies'[f] > 0
      BY <2>1, <2>5 DEF Flush, TypeOK
    <3>4. CASE replies'[f] > 0
      BY <3>4 DEF Live
    <3>5. CASE gone \subseteq gone'
      <4>1. Attended(f)
        BY <2>2, <3>1, <3>3, <3>5 DEF Attended, Who
      <4>2. QED
        BY <1>0, <4>1, AttendedStep
    <3>6. QED
      BY <3>2, <3>4, <3>5
  <2>6. QED
    BY <2>1, <2>3, <2>4, <2>5
<1>11. ASSUME Restart PROVE Live(f)'
  BY <1>11 DEF Restart, Live
<1>12. QED
  BY <1>0, <1>1, <1>2, <1>3, <1>4, <1>5, <1>6, <1>7, <1>8, <1>9, <1>10, <1>11, AttendedStep
     DEF Next, JobStep, JobFault, TurnStep, TurnFault

\* For any number of runs, turns and replies, and whatever Stop, removals and
\* boots interleave, a row that says "running" has a turn queued or under way
\* that will still write its outcome, unless one of its turns ended without
\* writing one or its conversation's worker was cancelled, and no message has
\* come since.
THEOREM RunningIsLiveAlways == Spec => []RunningIsLive
<1>1. TypeOK /\ RunningIsLive /\ [Next]_vars => RunningIsLive'
  BY LiveStep
<1>2. QED
  BY Placed, LiveInit, <1>1, PTL DEF Spec

-----------------------------------------------------------------------------
(* No trigger is stranded                                                  *)

\* A job that waits for its worker or for a slot is where it will be found.
Listed == \A f \in Fires :
  /\ at[f] = "queued" => f \in Entries(queue[RuleOf[f]])
  /\ at[f] = "line" => f \in Entries(line)

\* Nobody is about to move: no live, idle worker has a job queued, no free slot
\* has a job in line, no job is between its slot and its turn, and no trigger
\* turn is under way.
AtRest ==
  /\ \A s \in Rules \ dead : Busy(s) \/ queue[s] = <<>>
  /\ line = <<>> \/ free = 0
  /\ \A f \in Fires : at[f] \notin {"gate", "create"} /\ stage[<<f, "fire">>] = "off"

\* What became of a trigger: not yet fired, at its end, lost with the process, or
\* queued for a worker that was killed.
Settled(f) ==
  \/ at[f] \in {"new", "killed", "lost"} \cup Handled
  \/ at[f] = "queued" /\ RuleOf[f] \in dead

LEMMA AppendKeeps ==
  ASSUME NEW S, NEW q \in Seq(S), NEW e \in S
  PROVE  e \in Entries(Append(q, e)) /\ \A f \in Entries(q) : f \in Entries(Append(q, e))
<1>1. /\ Len(Append(q, e)) = Len(q) + 1 /\ Len(q) \in Nat
      /\ \A i \in 1..Len(q) : Append(q, e)[i] = q[i]
      /\ Append(q, e)[Len(q) + 1] = e
  BY AppendProperties, LenProperties
<1>2. /\ Len(q) + 1 \in 1..Len(Append(q, e))
      /\ \A i \in 1..Len(q) : i \in 1..Len(Append(q, e))
  BY <1>1
<1>3. QED
  BY <1>1, <1>2 DEF Entries

LEMMA TailKeeps ==
  ASSUME NEW S, NEW q \in Seq(S), q # <<>>
  PROVE  \A f \in Entries(q) : f = Head(q) \/ f \in Entries(Tail(q))
<1>1. /\ Len(q) \in Nat \ {0} /\ Len(Tail(q)) = Len(q) - 1 /\ Head(q) = q[1]
      /\ \A i \in 1..Len(Tail(q)) : Tail(q)[i] = q[i + 1]
  BY HeadTailProperties, EmptySeq
<1>2. ASSUME NEW i \in 1..Len(q), i # 1 PROVE q[i] \in Entries(Tail(q))
  <2>1. i - 1 \in 1..Len(Tail(q)) /\ (i - 1) + 1 = i
    BY <1>1, <1>2
  <2>2. Tail(q)[i - 1] = q[i]
    BY <1>1, <2>1
  <2>3. QED
    BY <2>1, <2>2 DEF Entries
<1>3. QED
  BY <1>1, <1>2 DEF Entries

\* A step that touches neither the queues nor the line, and puts no job there.
LEMMA ListedStays ==
  ASSUME Listed, UNCHANGED <<queue, line>>,
         \A f \in Fires : at'[f] \in {"queued", "line"} => at'[f] = at[f]
  PROVE  Listed'
BY DEF Listed

LEMMA ListedStep ==
  ASSUME TypeOK, Places, Listed, [Next]_vars
  PROVE  Listed'
<1>1. ASSUME NEW f \in Fires, Dispatch(f) PROVE Listed'
  <2> DEFINE s == RuleOf[f]
  <2>1. s \in Rules /\ queue[s] \in Seq(Fires) /\ at[f] = "new"
    BY <1>1, RuleAssumption DEF Dispatch, TypeOK
  <2>2. /\ queue'[s] = Append(queue[s], f) /\ \A t \in Rules \ {s} : queue'[t] = queue[t]
        /\ at'[f] = "queued" /\ (\A g \in Fires \ {f} : at'[g] = at[g]) /\ line' = line
    BY <1>1, <2>1 DEF Dispatch, GoJob, TypeOK
  <2>3. f \in Entries(queue'[s]) /\ \A g \in Entries(queue[s]) : g \in Entries(queue'[s])
    BY <2>1, <2>2, AppendKeeps
  <2>4. \A g \in Fires : RuleOf[g] \in Rules
    BY RuleAssumption
  <2> HIDE DEF s
  <2>5. \A g \in Fires : g \in Entries(queue[RuleOf[g]]) => g \in Entries(queue'[RuleOf[g]])
    BY <2>2, <2>3, <2>4
  <2>6. f \in Entries(queue'[RuleOf[f]])
    BY <2>3 DEF s
  <2>7. QED
    BY <2>2, <2>5, <2>6 DEF Listed
<1>2. ASSUME NEW s \in Rules, Take(s) PROVE Listed'
  <2> DEFINE h == Head(queue[s])
  <2>1. /\ queue[s] # <<>> /\ queue[s] \in Seq(Fires) /\ line \in Seq(Fires)
        /\ h \in Fires /\ at[h] = "queued"
    BY <1>2, Queued DEF Take, TypeOK
  <2>2. /\ queue'[s] = Tail(queue[s]) /\ \A t \in Rules \ {s} : queue'[t] = queue[t]
        /\ at'[h] = "line" /\ (\A g \in Fires \ {h} : at'[g] = at[g]) /\ line' = Append(line, h)
    BY <1>2, <2>1 DEF Take, GoJob, TypeOK
  <2>3. h \in Entries(line') /\ \A g \in Entries(line) : g \in Entries(line')
    BY <2>1, <2>2, AppendKeeps
  <2>4. \A g \in Entries(queue[s]) : g = h \/ g \in Entries(queue'[s])
    BY <2>1, <2>2, TailKeeps
  <2>5. \A g \in Fires : RuleOf[g] \in Rules
    BY RuleAssumption
  <2> HIDE DEF h
  <2>6. \A g \in Fires \ {h} : g \in Entries(queue[RuleOf[g]]) => g \in Entries(queue'[RuleOf[g]])
    BY <2>2, <2>4, <2>5
  <2>7. QED
    BY <2>2, <2>3, <2>6 DEF Listed
<1>3. ASSUME Enter PROVE Listed'
  <2> DEFINE h == Head(line)
  <2>1. line # <<>> /\ line \in Seq(Fires) /\ h \in Fires /\ at[h] = "line"
    BY <1>3, Queued DEF Enter, TypeOK
  <2>2. /\ at'[h] \in {"spent", "gate"} /\ \A g \in Fires \ {h} : at'[g] = at[g]
        /\ line' = Tail(line) /\ queue' = queue
    BY <1>3, <2>1 DEF Enter, GoJob, TypeOK
  <2>3. \A g \in Entries(line) : g = h \/ g \in Entries(line')
    BY <2>1, <2>2, TailKeeps
  <2> HIDE DEF h
  <2>4. QED
    BY <2>2, <2>3 DEF Listed
<1>4. ASSUME NEW f \in Fires,
             Match(f) \/ Reject(f) \/ ClaimFails(f) \/ CreateRun(f) \/ CreateFails(f)
      PROVE  Listed'
  <2>1. UNCHANGED <<queue, line>>
    BY <1>4 DEF Match, Reject, ClaimFails, CreateRun, CreateFails
  <2>2. \E pc \in {"spent", "create", "rejected", "run", "failed"} : GoJob(f, pc)
    BY <1>4 DEF Match, Reject, ClaimFails, CreateRun, CreateFails, Leave
  <2>3. QED
    BY <2>1, <2>2, ListedStays DEF GoJob, TypeOK
<1>5. ASSUME NEW t \in Turns, TurnLeave(t) \/ FailureUnwritten(t) \/ KillEarly(t) PROVE Listed'
  <2>1. UNCHANGED <<queue, line>> /\ t[1] \in Fires
    BY <1>5 DEF TurnLeave, FailureUnwritten, Left, KillEarly, Turns
  <2>2. at' = at \/ \E pc \in {"killed", "over"} : GoJob(t[1], pc)
    BY <1>5 DEF TurnLeave, FailureUnwritten, Left, KillEarly, Leave
  <2>3. QED
    BY <2>1, <2>2, ListedStays DEF GoJob, TypeOK
<1>6. ASSUME \/ \E t \in Turns :
                  \/ TurnMark(t) \/ TurnMarkFails(t) \/ TurnBind(t) \/ LoopEnds(t) \/ Stop(t)
                  \/ TurnWrite(t) \/ TurnWriteFails(t) \/ TurnEnd(t) \/ Absorb(t)
                  \/ Raise(t) \/ Kill(t)
             \/ \E f \in Fires : ReplyStart(f) \/ Reply(f)
             \/ \E s \in Rules : TimeoutClaim(s) \/ RemoveRule(s) \/ RemoveRuns(s)
             \/ UNCHANGED vars
      PROVE  Listed'
  <2>1. UNCHANGED dispatch
    BY <1>6 DEF TurnMark, TurnMarkFails, TurnBind, LoopEnds, Stop, TurnWrite, TurnWriteFails,
                TurnEnd, Absorb, Raise, Kill, ReplyStart, Reply, TimeoutClaim, RemoveRule,
                RemoveRuns, vars
  <2>2. QED
    BY <2>1, ListedStays DEF dispatch
<1>7. ASSUME Restart PROVE Listed'
  BY <1>7 DEF Restart, Listed
<1>8. QED
  BY <1>1, <1>2, <1>3, <1>4, <1>5, <1>6, <1>7 DEF Next, JobStep, JobFault, TurnStep, TurnFault

LEMMA AllListed == Spec => [](TypeOK /\ Places /\ SlotsHeld /\ Listed)
<1>1. Init => Listed
  BY DEF Init, Listed
<1>2. TypeOK /\ Places /\ SlotsHeld /\ Listed /\ [Next]_vars => Listed'
  BY ListedStep
<1>3. QED
  BY Placed, <1>1, <1>2, PTL DEF Spec

\* When nobody is about to move, no trigger is left over: every one that was
\* queued has been run, rejected, dropped as spent, journalled as failed, killed
\* or lost with the process, or its own rule's worker was killed.  Nobody waits
\* for a slot that everybody else waits for, so what EventuallyHandled asks of
\* the scheduler is only that it goes on.
THEOREM HandledAtRest == Spec => [](AtRest => \A f \in Fires : Settled(f))
<1>1. ASSUME TypeOK, Places, SlotsHeld, Listed, AtRest, NEW f \in Fires PROVE Settled(f)
  <2>1. \A g \in Fires : at[g] \notin Holding
    BY <1>1 DEF AtRest, Places, Holding
  <2>2. free = Slots
    <3>1. Holders = {}
      BY <2>1 DEF Holders
    <3>2. Cardinality({g \in Fires : at[g] \in Holding}) = 0
      BY <3>1, FS_EmptySet DEF Holders
    <3>3. QED
      BY <1>1, <3>2 DEF SlotsHeld, SlotsConserved, TypeOK
  <2>3. Entries(line) = {}
    BY <1>1, <2>2, SlotsAssumption, NoEntries DEF AtRest
  <2>4. \A g \in Fires : at[g] # "line"
    BY <1>1, <2>3 DEF Listed
  <2>5. \A s \in Rules : ~Busy(s)
    BY <2>1, <2>4 DEF Busy
  <2>6. at[f] = "queued" => RuleOf[f] \in dead
    <3>1. at[f] = "queued" => Entries(queue[RuleOf[f]]) # {}
      BY <1>1 DEF Listed
    <3>2. RuleOf[f] \in Rules
      BY RuleAssumption
    <3>3. QED
      BY <1>1, <2>5, <3>1, <3>2, NoEntries DEF AtRest
  <2>7. QED
    BY <1>1, <2>1, <2>4, <2>6 DEF TypeOK, Settled
<1>2. TypeOK /\ Places /\ SlotsHeld /\ Listed => (AtRest => \A f \in Fires : Settled(f))
  BY <1>1
<1>3. QED
  BY AllListed, <1>2, PTL
=============================================================================
