---------------------------- MODULE GroupFanout ----------------------------
(***************************************************************************)
(* A group chat (app/groups): posting to the room's timeline and handing   *)
(* the post to every other member's seat (fanout.py), a seat's turn        *)
(* speaking as it goes and when it ends (hooks.py), and the two sweeps of  *)
(* a restart (boot.py).                                                    *)
(*                                                                         *)
(* Any number of posts are in flight at once.  What the code does under    *)
(* the group lock is one step; classifying, waiting for the post ahead,    *)
(* handing to a seat and recording it are steps of their own.  A seat's    *)
(* turn is its phases; that a message folded into a running turn is        *)
(* answered is MidTurnMessages.  Posts from outside a seat by an agent,    *)
(* notices and automation reports are left out, and so are the window of   *)
(* the delivery sweep and changes of membership.                           *)
(***************************************************************************)
EXTENDS Naturals, FiniteSets, Sequences, Functions

CONSTANTS
  Members,    \* the profiles with a seat in the room
  Person,     \* whoever speaks from outside
  MaxHops,    \* max_agent_hops
  MaxRows,    \* rows of the timeline
  MaxSpoken,  \* and how many of them a person's
  MaxTurns,   \* turns of the seats
  MaxSegs,    \* things a turn says
  Budget,     \* how often each of these may happen
  Quota       \* how many of them may happen in all

Faults == { "stop",      \* a turn is stopped
            "timeout",   \* the wait for the post ahead gives up
            "store",     \* a storage call raises
            "rekey",     \* rekey_source raises
            "flood",     \* the agents' posts per minute are used up
            "crash" }    \* the process dies

ASSUME BoundsAssumption == {MaxHops, MaxRows, MaxSpoken, MaxTurns, MaxSegs} \subseteq Nat
ASSUME BudgetAssumption == Budget \in [Faults -> Nat] /\ Quota \in Nat

\* The sweep of the seats runs the same hook as a turn does.
Boot    == "boot"
Posters == Members \cup {Boot}

ASSUME RoomAssumption == {Person, Boot} \cap Members = {} /\ IsFiniteSet(Members)

VARIABLES
  timeline,  \* the room's rows
  chain,     \* _delivery_chain: the newest post being delivered; 0: none
  post,      \* post_message: each post's progress and what it decided; 0 is no post
  seat,      \* the posts a seat's conversation holds, as persisted
  queue,     \* the posts queued for a turn, in memory
  parked,    \* a persisted post waits for the turn that runs, or the next
  hook,      \* the turn that runs in a seat, and the sweep's
  said,      \* what each turn said, and its agent message
  boot,      \* which sweep runs
  todo,      \* the seats whose newest turn is still to be looked at
  owed,      \* what the delivery sweep found missing
  handed,    \* history: the deliveries to each seat
  lost,      \* history: posts that were queued in a seat, and are no longer
  spent      \* history: how much of Budget is used

fanout  == <<timeline, chain, post>>
seats   == <<seat, queue, parked, handed, lost>>
turns   == <<hook, said>>
sweeps  == <<boot, todo, owed>>
vars    == <<fanout, seats, turns, sweeps, spent>>

Spend(fs) ==
  /\ \A f \in fs : spent[f] < Budget[f]
  /\ SumFunction(spent) + Cardinality(fs) <= Quota
  /\ spent' = [f \in Faults |-> IF f \in fs THEN spent[f] + 1 ELSE spent[f]]

NoPost == [at |-> "none", prev |-> 0, wake |-> {}, left |-> {}, mid |-> Person]
NoHook == [at |-> "idle", turn |-> 0, row |-> 0, cut |-> FALSE]
Unsaid == [by |-> Person, segs |-> 0, saved |-> "no"]

Rows      == DOMAIN timeline
ByAgent(r) == timeline[r].by \in Members
Others(r) == Members \ {timeline[r].by}

-----------------------------------------------------------------------------
(* Posting                                                                 *)

\* Mutant: an agent's distance is measured from its own last post.
HopOwn(by) ==
  LET mine == {r \in Rows : timeline[r].by = by /\ \A q \in Rows : q > r => ByAgent(q)}
      hops == {timeline[r].hop : r \in mine}
  IN IF by = Person THEN 0
     ELSE IF hops = {} THEN 1 ELSE (CHOOSE h \in hops : \A g \in hops : g <= h) + 1

\* _resolve_hop: an agent is one further than any agent since a person spoke.
Hop(by) ==
  LET since == {r \in Rows : \A q \in Rows : q >= r => ByAgent(q)}
      hops  == {timeline[r].hop : r \in since}
  IN IF by = Person THEN 0
     ELSE IF hops = {} THEN 1 ELSE (CHOOSE h \in hops : \A g \in hops : g <= h) + 1

\* The rows a turn posted under its run's key, or under its message's.
Posted(n, key) == {r \in Rows : timeline[r].turn = n /\ timeline[r].key = key}

\* Mutant: a post does not take a place in the delivery order.
InsertLoose(by, n, key, k, fs) ==
  LET r     == Len(timeline) + 1
      quiet == "flood" \in fs \/ (by # Person /\ Hop(by) >= MaxHops)
  IN /\ r <= MaxRows
     /\ timeline' = Append(timeline,
          [by |-> by, hop |-> Hop(by), quiet |-> quiet, turn |-> n, key |-> key, seg |-> k,
           wake |-> Members \ {by}, to |-> Members \cap {by}])
     /\ post' = [post EXCEPT ![r] =
          IF "store" \in fs THEN [NoPost EXCEPT !.at = "cut"]
          ELSE [NoPost EXCEPT !.at = IF quiet THEN "wait" ELSE "route"]]
     /\ chain' = IF "store" \in fs THEN chain ELSE r

\* Mutant: the newest post is looked up after the new one has taken its place.
InsertLate(by, n, key, k, fs) ==
  LET r     == Len(timeline) + 1
      quiet == "flood" \in fs \/ (by # Person /\ Hop(by) >= MaxHops)
  IN /\ r <= MaxRows
     /\ timeline' = Append(timeline,
          [by |-> by, hop |-> Hop(by), quiet |-> quiet, turn |-> n, key |-> key, seg |-> k,
           wake |-> Members \ {by}, to |-> Members \cap {by}])
     /\ chain' = IF "store" \in fs THEN chain ELSE r
     /\ post' = [post EXCEPT ![r] =
          IF "store" \in fs THEN [NoPost EXCEPT !.at = "cut"]
          ELSE [NoPost EXCEPT !.at = IF quiet THEN "wait" ELSE "route", !.prev = chain']]

\* post_message, under the lock: the row is written and takes its place behind the
\* newest post.  A row says to wake everyone until it is stamped.  What raises once the
\* row is written leaves it without a place, and nobody is handed it.
Insert(by, n, key, k, fs) ==
  LET r     == Len(timeline) + 1
      quiet == "flood" \in fs \/ (by # Person /\ Hop(by) >= MaxHops)
  IN /\ r <= MaxRows
     /\ timeline' = Append(timeline,
          [by |-> by, hop |-> Hop(by), quiet |-> quiet, turn |-> n, key |-> key, seg |-> k,
           wake |-> Members \ {by}, to |-> Members \cap {by}])
     /\ post' = [post EXCEPT ![r] =
          IF "store" \in fs THEN [NoPost EXCEPT !.at = "cut"]
          ELSE [NoPost EXCEPT !.at = IF quiet THEN "wait" ELSE "route", !.prev = chain]]
     /\ chain' = IF "store" \in fs THEN chain ELSE r

\* A person's message, from the API or a platform.
Speak ==
  /\ boot = "up" /\ Cardinality({r \in Rows : ~ByAgent(r)}) < MaxSpoken
  /\ \E fs \in SUBSET {"store"} : Insert(Person, 0, "none", 0, fs) /\ Spend(fs)
  /\ UNCHANGED <<seats, turns, sweeps>>

\* _route and _stamp_routing.  Only a seat's own reply may be for nobody; a stamp
\* that cannot be written is kept in memory only.
Route(r) ==
  /\ post[r].at = "route"
  /\ \E woken \in SUBSET Others(r) :
       /\ woken = {} => ByAgent(r)
       /\ post' = [post EXCEPT ![r].at = "wait", ![r].wake = woken]
       /\ \/ timeline' = [timeline EXCEPT ![r].wake = woken] /\ UNCHANGED spent
          \/ Spend({"store"}) /\ UNCHANGED timeline
  /\ UNCHANGED <<chain, seats, turns, sweeps>>

Over(r) == post[r].at \in {"none", "done", "cut"}

\* The post ahead has finished handing itself out, or is not waited for any longer.
Go(r) ==
  /\ post[r].at = "wait"
  /\ \/ Over(post[r].prev) /\ UNCHANGED spent
     \/ ~Over(post[r].prev) /\ Spend({"timeout"})
  /\ post' = [post EXCEPT ![r].at = "hand", ![r].left = Others(r)]
  /\ UNCHANGED <<timeline, chain, seats, turns, sweeps>>

\* A turn runs in the seat, so a message can be folded into it.
Bound(m) == hook[m].at # "idle"

\* _deliver_to_member: a post that wakes nobody is written to the seat; otherwise it
\* is folded into the turn that runs, or queued for one.
Give(m, r, wakes) ==
  /\ handed' = [handed EXCEPT ![m] = Append(@, [row |-> r, woke |-> wakes])]
  /\ IF wakes /\ ~Bound(m)
     THEN queue' = [queue EXCEPT ![m] = Append(@, r)] /\ UNCHANGED <<seat, parked>>
     ELSE /\ seat' = [seat EXCEPT ![m] = Append(@, r)]
          /\ parked' = [parked EXCEPT ![m] = @ \/ wakes]
          /\ UNCHANGED queue
  /\ UNCHANGED lost

\* The caps come first, then the classification.
Wakes(r, m) == ~timeline[r].quiet /\ m \in post[r].wake

\* The members are listed in an order of their own, which is always the same.
NextOf(members) == CHOOSE m \in members : TRUE

\* A delivery that raises is logged, and the next member's turn comes.
Hand(r, m) ==
  /\ post[r].at = "hand" /\ post[r].mid = Person
  /\ post[r].left # {} /\ m = NextOf(post[r].left)
  /\ \/ /\ Give(m, r, Wakes(r, m))
        /\ post' = [post EXCEPT ![r].mid = m]
        /\ UNCHANGED spent
     \/ /\ Spend({"store"})
        /\ post' = [post EXCEPT ![r].left = @ \ {m}]
        /\ UNCHANGED seats
  /\ UNCHANGED <<timeline, chain, turns, sweeps>>

\* update_delivered_to, which may raise too.
Record(r) ==
  /\ post[r].at = "hand" /\ post[r].mid # Person
  /\ post' = [post EXCEPT ![r].left = @ \ {post[r].mid}, ![r].mid = Person]
  /\ \/ timeline' = [timeline EXCEPT ![r].to = @ \cup {post[r].mid}] /\ UNCHANGED spent
     \/ Spend({"store"}) /\ UNCHANGED timeline
  /\ UNCHANGED <<chain, seats, turns, sweeps>>

\* post_message returns, and releases the post behind.
Finish(r) ==
  /\ post[r].at = "hand" /\ post[r].left = {}
  /\ post' = [post EXCEPT ![r] = [NoPost EXCEPT !.at = "done"]]
  /\ chain' = IF chain = r THEN 0 ELSE chain
  /\ UNCHANGED <<timeline, seats, turns, sweeps, spent>>

-----------------------------------------------------------------------------
(* A seat's turn                                                           *)

\* The worker takes a queued post, or the flush of the parked ones runs.
Start(m) ==
  LET n == Cardinality({t \in 1..MaxTurns : said[t].by # Person}) + 1 IN
  /\ hook[m].at = "idle" /\ n <= MaxTurns
  /\ queue[m] # <<>> \/ parked[m]
  /\ hook' = [hook EXCEPT ![m] = [NoHook EXCEPT !.at = "start", !.turn = n]]
  /\ said' = [said EXCEPT ![n].by = m]
  /\ UNCHANGED <<fanout, seats, sweeps, spent>>

\* The turn's own message is persisted, or that fails and is logged; a parked one has
\* been persisted already.
Trigger(m) ==
  /\ hook[m].at = "start"
  /\ hook' = [hook EXCEPT ![m].at = "run"]
  /\ \/ /\ queue[m] # <<>>
        /\ queue' = [queue EXCEPT ![m] = Tail(@)]
        /\ \/ seat' = [seat EXCEPT ![m] = Append(@, Head(queue[m]))] /\ UNCHANGED spent
           \/ Spend({"store"}) /\ UNCHANGED seat
        /\ UNCHANGED parked
     \/ /\ queue[m] = <<>>
        /\ parked' = [parked EXCEPT ![m] = FALSE]
        /\ UNCHANGED <<seat, queue, spent>>
  /\ UNCHANGED <<fanout, said, sweeps, handed, lost>>

\* The turn is stopped before its message is persisted: the worker has taken it from
\* the queue, and drops it.
StopEarly(m) ==
  /\ hook[m].at = "start" /\ Spend({"stop"})
  /\ hook' = [hook EXCEPT ![m] = NoHook]
  /\ \/ /\ queue[m] # <<>>
        /\ queue' = [queue EXCEPT ![m] = Tail(@)]
        /\ lost' = lost \cup {<<Head(queue[m]), m>>}
        /\ UNCHANGED parked
     \/ /\ queue[m] = <<>>
        /\ parked' = [parked EXCEPT ![m] = FALSE]
        /\ UNCHANGED <<queue, lost>>
  /\ UNCHANGED <<fanout, said, sweeps, seat, handed>>

\* The timeline has room for everything the turns say.
CanSay(n) ==
  /\ said[n].segs < MaxSegs
  /\ SumFunction([t \in 1..MaxTurns |-> said[t].segs]) + MaxSpoken < MaxRows

\* A flow break after an answer to an interruption: on_shadow_turn_segment.
Break(m) ==
  LET n == hook[m].turn IN
  /\ hook[m].at = "run" /\ parked[m] /\ CanSay(n)
  /\ hook' = [hook EXCEPT ![m].at = "break"]
  /\ said' = [said EXCEPT ![n].segs = @ + 1]
  /\ parked' = [parked EXCEPT ![m] = FALSE]
  /\ UNCHANGED <<fanout, seat, queue, handed, lost, sweeps, spent>>

\* The turn ends: its message is persisted, with a last thing to say or none.  What
\* is parked may have been taken in before.
Persist(m) ==
  LET n == hook[m].turn IN
  /\ hook[m].at = "run"
  /\ hook' = [hook EXCEPT ![m].at = "saved"]
  /\ \E tail \in 0..1 : /\ tail = 1 => CanSay(n)
                        /\ said' = [said EXCEPT ![n].segs = @ + tail, ![n].saved = "open"]
  /\ \E taken \in {TRUE, FALSE} : parked' = [parked EXCEPT ![m] = @ /\ ~taken]
  /\ UNCHANGED <<fanout, seat, queue, handed, lost, sweeps, spent>>

\* post_message has returned to the hook.
Free(p) == Over(hook[p].row)

Key(p) == IF hook[p].at = "break" THEN "live" ELSE "msg"

\* _post_new_segments: what is not in the room under the turn's key.
Unposted(p) ==
  IF hook[p].at \notin {"break", "close"} \/ hook[p].cut THEN {}
  ELSE (1..said[hook[p].turn].segs)
         \ {timeline[r].seg : r \in Posted(hook[p].turn, Key(p))}

\* An exception ends the hook: mid-turn the turn goes on, at its end only the stamp is
\* left.
Ended(p) == IF hook[p].at = "break" THEN [hook EXCEPT ![p].at = "run", ![p].row = 0]
            ELSE [hook EXCEPT ![p].cut = TRUE]

\* The next segment is posted, or that raises, before the row is written or after.
Say(p) ==
  /\ Free(p) /\ Unposted(p) # {}
  /\ LET n == hook[p].turn
         k == CHOOSE i \in Unposted(p) : \A j \in Unposted(p) : i <= j
     IN \/ \E fs \in SUBSET {"flood", "store"} :
             /\ Insert(said[n].by, n, Key(p), k, fs) /\ Spend(fs)
             /\ hook' = IF "store" \in fs THEN Ended(p)
                        ELSE [hook EXCEPT ![p].row = Len(timeline) + 1]
        \/ Spend({"store"}) /\ hook' = Ended(p) /\ UNCHANGED fanout
  /\ UNCHANGED <<seats, said, sweeps>>

\* The turn goes on after a break.
Resume(m) ==
  /\ hook[m].at = "break" /\ Free(m) /\ Unposted(m) = {}
  /\ hook' = [hook EXCEPT ![m].at = "run", ![m].row = 0]
  /\ UNCHANGED <<fanout, seats, said, sweeps, spent>>

\* Mutant: what the turn said so far stays under the run's key.
RekeyNot(p) ==
  /\ hook[p].at = "saved"
  /\ hook' = [hook EXCEPT ![p].at = "close", ![p].row = 0]
  /\ UNCHANGED <<fanout, seats, said, sweeps, spent>>

\* on_shadow_turn_complete: what the turn said so far is re-pointed at its message;
\* a failure of that is logged.
Rekey(p) ==
  /\ hook[p].at = "saved"
  /\ hook' = [hook EXCEPT ![p].at = "close", ![p].row = 0]
  /\ \/ /\ timeline' = [r \in Rows |-> IF r \in Posted(hook[p].turn, "live")
                                       THEN [timeline[r] EXCEPT !.key = "msg"] ELSE timeline[r]]
        /\ UNCHANGED spent
     \/ Spend({"rekey"}) /\ UNCHANGED timeline
  /\ UNCHANGED <<chain, post, seats, said, sweeps>>

\* _stamp, and the hook is over; a write that raises is logged.
Stamp(p) ==
  /\ hook[p].at = "close" /\ Free(p) /\ Unposted(p) = {}
  /\ hook' = [hook EXCEPT ![p] = NoHook]
  /\ \/ said' = [said EXCEPT ![hook[p].turn].saved = "stamped"] /\ UNCHANGED spent
     \/ Spend({"store"}) /\ UNCHANGED said
  /\ UNCHANGED <<fanout, seats, sweeps>>

\* Mutant: the place of a stopped post is not given up.
StopKeep(m) ==
  LET n == hook[m].turn
      r == hook[m].row
  IN /\ hook[m].at \in {"run", "break", "saved", "close"}
     /\ Spend({"stop"})
     /\ IF ~Over(r) THEN post' = [post EXCEPT ![r].at = "stuck"] ELSE UNCHANGED post
     /\ IF hook[m].at \in {"run", "break"}
        THEN /\ hook' = [hook EXCEPT ![m] = [@ EXCEPT !.at = "saved", !.row = 0, !.cut = TRUE]]
             /\ said' = [said EXCEPT ![n].saved = "open"]
        ELSE hook' = [hook EXCEPT ![m] = NoHook] /\ UNCHANGED said
     /\ UNCHANGED <<timeline, chain, seats, sweeps>>

\* The turn is stopped.  A post in flight is dropped where it is and gives up its
\* place; a stopped turn still persists what it has, a stopped hook leaves no stamp.
Stop(m) ==
  LET n == hook[m].turn
      r == hook[m].row
  IN /\ hook[m].at \in {"run", "break", "saved", "close"}
     /\ Spend({"stop"})
     /\ IF ~Over(r)
        THEN /\ post' = [post EXCEPT ![r] = [NoPost EXCEPT !.at = "cut"]]
             /\ chain' = IF chain = r THEN 0 ELSE chain
        ELSE UNCHANGED <<post, chain>>
     /\ IF hook[m].at \in {"run", "break"}
        THEN /\ hook' = [hook EXCEPT ![m] = [@ EXCEPT !.at = "saved", !.row = 0, !.cut = TRUE]]
             /\ said' = [said EXCEPT ![n].saved = "open"]
        ELSE hook' = [hook EXCEPT ![m] = NoHook] /\ UNCHANGED said
     /\ UNCHANGED <<timeline, seats, sweeps>>

-----------------------------------------------------------------------------
(* A restart                                                               *)

\* What is queued is gone with the process; the sweep hands out again only what no row
\* says was delivered.
Crash ==
  /\ Spend({"crash"})
  /\ boot' = "turns" /\ todo' = Members /\ owed' = {}
  /\ chain' = 0
  /\ post' = [r \in DOMAIN post |-> NoPost]
  /\ queue' = [m \in Members |-> <<>>]
  /\ lost' = lost \cup {x \in Rows \X Members : x[1] \in Range(queue[x[2]])
                                               /\ x[2] \in timeline[x[1]].to}
  /\ hook' = [p \in Posters |-> NoHook]
  /\ UNCHANGED <<timeline, seat, parked, said, handed>>

\* sweep_unposted_agent_rows: a seat's newest turn that bears no stamp.  A seat that
\* cannot be read is passed over.
SweepTurn(m) ==
  LET saved  == {n \in 1..MaxTurns : said[n].by = m /\ said[n].saved # "no"}
      newest == CHOOSE n \in saved : \A k \in saved : k <= n
  IN /\ boot = "turns" /\ m \in todo /\ hook[Boot].at = "idle"
     /\ todo' = todo \ {m}
     /\ \/ /\ IF saved # {} /\ said[newest].saved = "open"
              THEN hook' = [hook EXCEPT ![Boot] = [NoHook EXCEPT !.at = "saved", !.turn = newest]]
              ELSE UNCHANGED hook
           /\ UNCHANGED spent
        \/ Spend({"store"}) /\ UNCHANGED hook
     /\ UNCHANGED <<fanout, seats, said, boot, owed>>

Unreached(r) == Others(r) \ timeline[r].to

\* Mutant: whom the row says to wake is not looked at.
MissingAwake ==
  { [row |-> x[1], to |-> x[2], given |-> FALSE, wakes |-> ~timeline[x[1]].quiet] :
      x \in {y \in Rows \X Members : y[2] \in Unreached(y[1])} }

\* What the rows lack, and whom they say to wake.
Missing ==
  { [row |-> x[1], to |-> x[2], given |-> FALSE,
     wakes |-> ~timeline[x[1]].quiet /\ x[2] \in timeline[x[1]].wake] :
      x \in {y \in Rows \X Members : y[2] \in Unreached(y[1])} }

\* sweep_undelivered_group_messages reads the room once.
SweepRows ==
  /\ boot = "turns" /\ todo = {} /\ hook[Boot].at = "idle"
  /\ boot' = "rows" /\ owed' = Missing
  /\ UNCHANGED <<fanout, seats, turns, todo, spent>>

\* The oldest first; what raises is logged.
BootHand(o) ==
  /\ o \in owed /\ ~o.given
  /\ \A u \in owed : u.row >= o.row /\ ~u.given
  /\ \/ /\ Give(o.to, o.row, o.wakes)
        /\ owed' = (owed \ {o}) \cup {[o EXCEPT !.given = TRUE]}
        /\ UNCHANGED spent
     \/ Spend({"store"}) /\ owed' = owed \ {o} /\ UNCHANGED seats
  /\ UNCHANGED <<fanout, turns, boot, todo>>

BootRecord(o) ==
  /\ o \in owed /\ o.given
  /\ owed' = owed \ {o}
  /\ \/ timeline' = [timeline EXCEPT ![o.row].to = @ \cup {o.to}] /\ UNCHANGED spent
     \/ Spend({"store"}) /\ UNCHANGED timeline
  /\ UNCHANGED <<chain, post, seats, turns, boot, todo>>

Booted ==
  /\ boot = "rows" /\ owed = {}
  /\ boot' = "up"
  /\ UNCHANGED <<fanout, seats, turns, todo, owed, spent>>

-----------------------------------------------------------------------------
Init ==
  /\ timeline = <<>> /\ chain = 0
  /\ post = [r \in 0..MaxRows |-> NoPost]
  /\ seat = [m \in Members |-> <<>>]
  /\ queue = [m \in Members |-> <<>>]
  /\ handed = [m \in Members |-> <<>>] /\ lost = {}
  /\ parked = [m \in Members |-> FALSE]
  /\ hook = [p \in Posters |-> NoHook]
  /\ said = [n \in 1..MaxTurns |-> Unsaid]
  /\ boot = "up" /\ todo = {} /\ owed = {}
  /\ spent = [f \in Faults |-> 0]

FanOut == \E r \in Rows : Route(r) \/ Go(r) \/ (\E m \in Members : Hand(r, m)) \/ Record(r) \/ Finish(r)
Turn(m) == Start(m) \/ Trigger(m) \/ StopEarly(m) \/ Break(m) \/ Persist(m) \/ Resume(m)
           \/ Stop(m)
Hook(p) == Say(p) \/ Rekey(p) \/ Stamp(p)
Sweep  == (\E m \in Members : SweepTurn(m)) \/ SweepRows
          \/ (\E o \in owed : BootHand(o) \/ BootRecord(o)) \/ Booted

Next == Speak \/ FanOut \/ (\E m \in Members : Turn(m)) \/ (\E p \in Posters : Hook(p))
        \/ Sweep \/ Crash

Spec == Init /\ [][Next]_vars

\* A post, a hook and a sweep go on as long as they can, and a turn that was begun
\* ends.  Whether a queued turn is begun is left open, for the worker may be busy.
Fairness ==
  /\ WF_vars(FanOut)
  /\ WF_vars(\E m \in Members : Trigger(m) \/ Persist(m) \/ Resume(m))
  /\ WF_vars(\E p \in Posters : Hook(p))
  /\ WF_vars(Sweep)

FairSpec == Spec /\ Fairness

-----------------------------------------------------------------------------
(* Properties                                                              *)

Calm(fs) == \A f \in fs : spent[f] = 0

RowType ==
  [by : Members \cup {Person}, hop : 0..MaxRows, quiet : BOOLEAN, turn : 0..MaxTurns,
   key : {"none", "live", "msg"}, seg : 0..MaxSegs, wake : SUBSET Members, to : SUBSET Members]

\* A row, a place in the delivery order, a turn and a debt of the sweep are what the
\* code takes them for; a post places itself behind an older one (fanout.py, hooks.py).
TypeOK ==
  /\ timeline \in Seq(RowType) /\ Len(timeline) <= MaxRows
  /\ chain \in {0} \cup Rows
  /\ post \in [0..MaxRows ->
       [at : {"none", "route", "wait", "hand", "done", "cut"}, prev : 0..MaxRows,
        wake : SUBSET Members, left : SUBSET Members, mid : Members \cup {Person}]]
  /\ \A r \in 1..MaxRows : post[r].prev < r
  /\ seat \in [Members -> Seq(Rows)] /\ queue \in [Members -> Seq(Rows)]
  /\ parked \in [Members -> BOOLEAN]
  /\ hook \in [Posters ->
       [at : {"idle", "start", "run", "break", "saved", "close"}, turn : 0..MaxTurns,
        row : {0} \cup Rows, cut : BOOLEAN]]
  /\ said \in [1..MaxTurns ->
       [by : Members \cup {Person}, segs : 0..MaxSegs, saved : {"no", "open", "stamped"}]]
  /\ boot \in {"up", "turns", "rows"} /\ todo \subseteq Members
  /\ owed \subseteq [row : Rows, to : Members, wakes : BOOLEAN, given : BOOLEAN]
  /\ handed \in [Members -> Seq([row : Rows, woke : BOOLEAN])] /\ lost \subseteq Rows \X Members
  /\ spent \in [Faults -> Nat]

\* Neither a re-run of the hook nor the sweep of a restart says anything twice, as long
\* as what a turn said early can be re-pointed at its message (hooks.py, add_message).
SaidOnce ==
  Calm({"rekey"}) =>
    \A r, q \in Rows : timeline[r].turn # 0 /\ timeline[r].turn = timeline[q].turn
                       /\ timeline[r].seg = timeline[q].seg => r = q

\* The members are handed the posts in the order of the timeline, however long each
\* takes to classify, unless one is stopped or waited for in vain (_delivery_chain).
HandedInOrder ==
  Calm({"stop", "timeout", "crash"}) =>
    \A m \in Members : \A i, j \in DOMAIN handed[m] : i < j => handed[m][i].row < handed[m][j].row

\* The posts of agents since a person spoke, up to q, that may start a turn.
Heard(q) == {r \in Rows : /\ r <= q /\ \A i \in r..q : ByAgent(i)
                          /\ ~timeline[r].quiet}

\* Agents that answer each other fall silent: between two things a person says, fewer
\* than max_agent_hops of their posts can start a turn, and none if it is 0
\* (_resolve_hop).
AgentsFallSilent ==
  \A q \in Rows : Heard(q) = {} \/ Cardinality(Heard(q)) < MaxHops

\* A quiet post starts no turn, nor does a post in a seat its row was stamped to pass
\* over, not even when a restart finishes the fan-out; a post made while it does is the
\* exception, for the sweep may hand it out as well (fanout.py, _was_routed_away).
PassedOverSleeps ==
  [][\A m \in Members : \A i \in DOMAIN handed'[m] \ DOMAIN handed[m] :
       LET given == handed'[m][i]
           row   == timeline[given.row]
       IN given.woke =>
            ~row.quiet /\ (m \in row.wake \/ (boot = "rows" /\ post[given.row].at # "none"))]_vars

\* A seat's history holds the posts in the order of the timeline.
SeatInOrder ==
  \A m \in Members : \A i, j \in DOMAIN seat[m] : i < j => seat[m][i] < seat[m][j]

\* Whom a post has not come to: it is neither in the seat nor queued for it.
Missed(r) == {m \in Others(r) : r \notin Range(seat[m]) \cup Range(queue[m])}

\* Every post comes to the seat of every member, or waits in its queue, at the latest
\* when a restart has finished what a crash interrupted, and whatever became of the
\* posts ahead of it (post_message's finally, boot.py).  Three are left: a post that was
\* itself stopped, what a storage call that raised did not write, and, for that seat,
\* a post that waited in its queue when the process died, or when the turn it had begun
\* was stopped, for its row already names the seat and no sweep looks at it again.
EveryPostReachesAll ==
  <>[](\A r \in Rows : \A m \in Missed(r) :
         post[r].at = "cut" \/ <<r, m>> \in lost \/ ~Calm({"store", "rekey"}))
=============================================================================
