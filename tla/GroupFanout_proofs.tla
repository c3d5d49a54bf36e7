------------------------- MODULE GroupFanout_proofs -------------------------
(***************************************************************************)
(* Safety of GroupFanout, for any members, any number of rows, turns and   *)
(* things said and any faults, as often as Quota allows.                   *)
(***************************************************************************)
EXTENDS GroupFanout, SequenceTheorems, FiniteSetTheorems, WellFoundedInduction, TLAPS

-----------------------------------------------------------------------------
(* Numbers and sequences                                                   *)

LEMMA LeastOfSet ==
  ASSUME NEW S \in SUBSET Nat, S # {}
  PROVE  \E m \in S : \A s \in S : m <= s
<1> DEFINE R == {p \in Nat \X Nat : p[1] < p[2]}
<1>1. IsWellFoundedOn(R, Nat)
  <2>1. R = OpToRel(<, Nat)
    BY DEF OpToRel
  <2>2. QED
    BY <2>1, NatLessThanWellFounded
<1>2. PICK m \in S : \A s \in S : ~(<<s, m>> \in R)
  <2> HIDE DEF R
  <2> QED BY <1>1, WFMin
<1>3. ASSUME NEW s \in S PROVE m <= s
  <2>1. CASE s < m
    <3>1. <<s, m>> \in R
      BY <2>1
    <3>2. QED
      BY <1>2, <3>1
  <2>2. CASE ~(s < m)
    BY <2>2
  <2>3. QED
    BY <2>1, <2>2
<1>4. QED
  BY <1>3

LEMMA GreatestOfSet ==
  ASSUME NEW S \in SUBSET Nat, S # {}, NEW n \in Nat, \A s \in S : s <= n
  PROVE  \E m \in S : \A s \in S : s <= m
<1> DEFINE T == {n - s : s \in S}
<1>1. T \in SUBSET Nat /\ T # {}
  <2>1. \A s \in S : n - s \in Nat
    OBVIOUS
  <2>2. PICK s \in S : TRUE
    OBVIOUS
  <2>3. n - s \in T
    OBVIOUS
  <2>4. QED
    BY <2>1, <2>3
<1>2. PICK t \in T : \A u \in T : t <= u
  <2> HIDE DEF T
  <2> QED BY <1>1, LeastOfSet
<1>3. PICK m \in S : t = n - m
  OBVIOUS
<1>4. ASSUME NEW s \in S PROVE s <= m
  <2>1. n - s \in T
    OBVIOUS
  <2>2. n - m <= n - s
    BY <1>2, <1>3, <2>1
  <2>3. n \in Int /\ m \in Int /\ s \in Int
    OBVIOUS
  <2>4. QED
    <3> HIDE DEF T
    <3> QED BY <2>2, <2>3
<1>5. QED
  BY <1>4

LEMMA SeqWidens ==
  ASSUME NEW S, NEW T, S \subseteq T, NEW s \in Seq(S)
  PROVE  s \in Seq(T)
<1>1. Len(s) \in Nat /\ s \in [1..Len(s) -> S]
  BY LenProperties
<1>2. s \in [1..Len(s) -> T]
  BY <1>1
<1>3. QED
  BY <1>1, <1>2, SeqDef

-----------------------------------------------------------------------------
(* Types                                                                   *)

PostType == [at : {"none", "route", "wait", "hand", "done", "cut"}, prev : 0..MaxRows,
             wake : SUBSET Members, left : SUBSET Members, mid : Members \cup {Person}]
HookType == [at : {"idle", "start", "run", "break", "saved", "close"}, turn : 0..MaxTurns,
             row : {0} \cup Rows, cut : BOOLEAN]
SaidType == [by : Members \cup {Person}, segs : 0..MaxSegs, saved : {"no", "open", "stamped"}]
DebtType == [row : Rows, to : Members, wakes : BOOLEAN, given : BOOLEAN]
GiftType == [row : Rows, woke : BOOLEAN]

\* The rows; their distances from a person's post are no greater than their places.
RoomTyped == /\ timeline \in Seq(RowType) /\ Len(timeline) <= MaxRows
             /\ \A r \in Rows : timeline[r].hop <= r
             /\ chain \in {0} \cup Rows
PostTyped == /\ post \in [0..MaxRows -> PostType]
             /\ \A r \in 1..MaxRows : post[r].prev < r
SeatTyped == /\ seat \in [Members -> Seq(Rows)] /\ queue \in [Members -> Seq(Rows)]
             /\ parked \in [Members -> BOOLEAN] /\ handed \in [Members -> Seq(GiftType)]
             /\ lost \subseteq Rows \X Members
\* A hook that is not idle is some turn's.
HookTyped == /\ hook \in [Posters -> HookType]
             /\ \A p \in Posters : hook[p].at # "idle" => hook[p].turn # 0
SaidTyped == said \in [1..MaxTurns -> SaidType]
BootTyped == /\ boot \in {"up", "turns", "rows"} /\ todo \subseteq Members
             /\ owed \subseteq DebtType
SpentTyped == spent \in [Faults -> Nat]

Typed == /\ RoomTyped /\ PostTyped /\ SeatTyped /\ HookTyped /\ SaidTyped /\ BootTyped
         /\ SpentTyped

LEMMA TypedIsTypeOK == Typed => TypeOK
BY DEF Typed, RoomTyped, PostTyped, SeatTyped, HookTyped, SaidTyped, BootTyped, SpentTyped, TypeOK,
       PostType, HookType, SaidType, DebtType, GiftType

LEMMA Spending ==
  ASSUME NEW fs, Spend(fs), SpentTyped
  PROVE  /\ SpentTyped'
         /\ \A f \in Faults : spent'[f] = 0 => spent[f] = 0 /\ f \notin fs
<1>1. \A f \in Faults : spent[f] \in Nat
  BY DEF SpentTyped
<1>2. spent' = [f \in Faults |-> IF f \in fs THEN spent[f] + 1 ELSE spent[f]]
  BY DEF Spend
<1>3. SpentTyped'
  BY <1>1, <1>2 DEF SpentTyped
<1>4. \A f \in Faults : spent'[f] = IF f \in fs THEN spent[f] + 1 ELSE spent[f]
  BY <1>2
<1>5. QED
  BY <1>1, <1>3, <1>4

LEMMA RowFacts ==
  ASSUME RoomTyped
  PROVE  /\ Len(timeline) \in Nat /\ Rows = 1..Len(timeline) /\ Rows \subseteq 1..MaxRows
         /\ MaxRows \in Nat /\ \A r \in Rows : timeline[r] \in RowType
<1>1. Len(timeline) \in Nat /\ Rows = 1..Len(timeline) /\ MaxRows \in Nat
  BY LenProperties, BoundsAssumption DEF RoomTyped, Rows
<1>2. \A r \in Rows : timeline[r] \in RowType
  BY <1>1, ElementOfSeq DEF RoomTyped
<1>3. QED
  BY <1>1, <1>2 DEF RoomTyped

\* A post's distance is no more than one above the greatest since a person spoke.
LEMMA HopFacts ==
  ASSUME RoomTyped, NEW by
  PROVE  /\ Hop(by) \in Nat /\ Hop(by) <= Len(timeline) + 1
         /\ by # Person => Hop(by) >= 1
         /\ by # Person => \A r \in Rows : (\A q \in Rows : q >= r => ByAgent(q))
                                             => timeline[r].hop < Hop(by)
<1> DEFINE since == {r \in Rows : \A q \in Rows : q >= r => ByAgent(q)}
           hops  == {timeline[r].hop : r \in since}
<1>1. /\ Len(timeline) \in Nat /\ Rows = 1..Len(timeline)
      /\ \A r \in Rows : timeline[r].hop \in Nat /\ timeline[r].hop <= Len(timeline)
  <2>1. Len(timeline) \in Nat /\ Rows = 1..Len(timeline)
    BY RowFacts
  <2>2. ASSUME NEW r \in Rows
        PROVE  timeline[r].hop \in Nat /\ timeline[r].hop <= Len(timeline)
    <3>1. timeline[r] \in RowType /\ MaxRows \in Nat
      BY RowFacts
    <3>2. timeline[r].hop <= r /\ r <= Len(timeline)
      BY <2>1 DEF RoomTyped
    <3>3. timeline[r].hop \in Nat
      BY <3>1 DEF RowType
    <3>4. QED
      BY <2>1, <3>2, <3>3
  <2>3. QED
    BY <2>1, <2>2
<1>2. hops \in SUBSET Nat /\ \A h \in hops : h <= Len(timeline)
  BY <1>1
<1>3. CASE by = Person
  BY <1>1, <1>3 DEF Hop
<1>4. CASE by # Person /\ hops = {}
  <2>1. Hop(by) = 1
    BY <1>4 DEF Hop
  <2>2. \A r \in since : timeline[r].hop \in hops
    OBVIOUS
  <2>3. since = {}
    <3> HIDE DEF hops, since
    <3> QED BY <1>4, <2>2
  <2>4. QED
    BY <1>1, <1>4, <2>1, <2>3
<1>5. CASE by # Person /\ hops # {}
  <2> DEFINE top == CHOOSE h \in hops : \A g \in hops : g <= h
  <2>1. top \in hops /\ \A g \in hops : g <= top
    <3> HIDE DEF hops
    <3> QED BY <1>1, <1>2, <1>5, GreatestOfSet
  <2>2. Hop(by) = top + 1
    BY <1>5 DEF Hop
  <2>3. top \in Nat /\ top <= Len(timeline)
    BY <1>2, <2>1
  <2>4. \A r \in since : timeline[r].hop \in hops
    OBVIOUS
  <2>5. ASSUME NEW r \in since
        PROVE  timeline[r].hop < Hop(by)
    <3> DEFINE h == timeline[r].hop
    <3>1. h \in Nat /\ h <= top
      <4>1. h \in hops
        OBVIOUS
      <4>2. QED
        <5> HIDE DEF h, hops, top
        <5> QED BY <1>2, <2>1, <4>1
    <3>2. QED
      <4> HIDE DEF h, hops, top
      <4>1. h < top + 1
        BY <2>3, <3>1
      <4>2. QED
        BY <2>2, <4>1 DEF h
  <2>6. QED
    <3> HIDE DEF hops, top
    <3> QED BY <1>1, <1>5, <2>2, <2>3, <2>5
<1>6. QED
  BY <1>3, <1>4, <1>5

\* The row an Insert writes.
NewRow(by, n, key, k, fs) ==
  [by |-> by, hop |-> Hop(by), quiet |-> "flood" \in fs \/ (by # Person /\ Hop(by) >= MaxHops),
   turn |-> n, key |-> key, seg |-> k, wake |-> Members \ {by}, to |-> Members \cap {by}]

LEMMA InsertFacts ==
  ASSUME RoomTyped, PostTyped, NEW by \in Members \cup {Person}, NEW n \in 0..MaxTurns,
         NEW key \in {"none", "live", "msg"}, NEW k \in 0..MaxSegs, NEW fs \in SUBSET {"flood", "store"},
         Insert(by, n, key, k, fs)
  PROVE  /\ RoomTyped' /\ PostTyped'
         /\ Rows' = Rows \cup {Len(timeline) + 1} /\ Len(timeline) + 1 \notin Rows
         /\ Len(timeline') = Len(timeline) + 1 /\ Len(timeline) + 1 \in 1..MaxRows
         /\ \A r \in Rows : timeline'[r] = timeline[r]
         /\ timeline'[Len(timeline) + 1] = NewRow(by, n, key, k, fs)
         /\ \A r \in 0..MaxRows : r # Len(timeline) + 1 => post'[r] = post[r]
         /\ post'[Len(timeline) + 1] =
              IF "store" \in fs THEN [NoPost EXCEPT !.at = "cut"]
              ELSE [NoPost EXCEPT !.at = IF NewRow(by, n, key, k, fs).quiet THEN "wait" ELSE "route",
                                  !.prev = chain]
         /\ chain' = IF "store" \in fs THEN chain ELSE Len(timeline) + 1
<1> DEFINE new == NewRow(by, n, key, k, fs)
           q   == Len(timeline) + 1
<1>1. /\ Len(timeline) \in Nat /\ Rows = 1..Len(timeline) /\ MaxRows \in Nat
      /\ timeline \in Seq(RowType) /\ q <= MaxRows
  BY RowFacts DEF RoomTyped, Insert
<1>2. new \in RowType /\ new.hop <= q
  <2>1. Hop(by) \in 0..MaxRows /\ Hop(by) <= q
    BY <1>1, HopFacts
  <2>2. ("flood" \in fs \/ (by # Person /\ Hop(by) >= MaxHops)) \in BOOLEAN
    OBVIOUS
  <2>3. QED
    BY <2>1, <2>2 DEF NewRow, RowType
<1>3. timeline' = Append(timeline, new)
  BY DEF Insert, NewRow
<1>4. /\ timeline' \in Seq(RowType) /\ Len(timeline') = q /\ timeline'[q] = new
      /\ \A r \in Rows : timeline'[r] = timeline[r]
  <2> HIDE DEF new
  <2> QED BY <1>1, <1>2, <1>3, AppendProperties
<1>5. Rows' = 1..q
  BY <1>4, LenProperties DEF Rows
<1>6. Rows' = Rows \cup {q} /\ q \notin Rows /\ q \in 1..MaxRows
  BY <1>1, <1>5
<1>7. RoomTyped'
  <2>1. chain' \in {chain, q}
    BY DEF Insert
  <2>2. \A r \in Rows' : timeline'[r].hop <= r
    <3> HIDE DEF new
    <3> QED BY <1>2, <1>4, <1>6 DEF RoomTyped
  <2>3. QED
    BY <1>1, <1>4, <1>6, <2>1, <2>2 DEF RoomTyped
<1> DEFINE mine == IF "store" \in fs THEN [NoPost EXCEPT !.at = "cut"]
                   ELSE [NoPost EXCEPT !.at = IF new.quiet THEN "wait" ELSE "route", !.prev = chain]
<1>8. post' = [post EXCEPT ![q] = mine]
  BY DEF Insert, NewRow
<1>9. mine \in PostType /\ mine.prev < q
  <2>1. chain \in 0..MaxRows /\ chain < q /\ 0 \in 0..MaxRows /\ 0 < q
    BY <1>1 DEF RoomTyped
  <2> HIDE DEF new
  <2>2. CASE "store" \in fs
    BY <2>1, <2>2 DEF NoPost, PostType
  <2>3. CASE "store" \notin fs
    BY <2>1, <2>3 DEF NoPost, PostType
  <2>4. QED
    BY <2>2, <2>3
<1>10. PostTyped'
  <2> HIDE DEF mine
  <2> QED BY <1>6, <1>8, <1>9 DEF PostTyped
<1>11. /\ \A r \in 0..MaxRows : r # q => post'[r] = post[r]
       /\ post'[q] = mine
  <2> HIDE DEF mine
  <2> QED BY <1>6, <1>8 DEF PostTyped
<1>12. QED
  <2>1. chain' = IF "store" \in fs THEN chain ELSE q
    BY DEF Insert
  <2>2. QED
    BY <1>4, <1>6, <1>7, <1>10, <1>11, <2>1

\* A new post takes its place behind the newest, or none.
LEMMA NewPost ==
  ASSUME RoomTyped, PostTyped, NEW by \in Members \cup {Person}, NEW n \in 0..MaxTurns,
         NEW key \in {"none", "live", "msg"}, NEW k \in 0..MaxSegs, NEW fs \in SUBSET {"flood", "store"},
         Insert(by, n, key, k, fs)
  PROVE  /\ post'[Len(timeline) + 1].mid = Person
         /\ \/ post'[Len(timeline) + 1].at = "cut" /\ chain' = chain
            \/ /\ post'[Len(timeline) + 1].at \in {"wait", "route"}
               /\ post'[Len(timeline) + 1].prev = chain /\ post'[Len(timeline) + 1].wake = {}
               /\ chain' = Len(timeline) + 1
<1> DEFINE quiet == NewRow(by, n, key, k, fs).quiet
           s == Len(timeline) + 1
<1> DEFINE mine == IF "store" \in fs THEN [NoPost EXCEPT !.at = "cut"]
                   ELSE [NoPost EXCEPT !.at = IF quiet THEN "wait" ELSE "route", !.prev = chain]
<1>1. post'[s] = mine
  <2>1. post' = [post EXCEPT ![s] = mine]
    BY DEF Insert, NewRow
  <2>2. s \in 0..MaxRows
    <3>1. s \in 1..MaxRows
      BY InsertFacts
    <3>2. QED
      BY <3>1, BoundsAssumption
  <2>3. QED
    <3> HIDE DEF mine, s
    <3> QED BY <2>1, <2>2 DEF PostTyped
<1>2. chain' = IF "store" \in fs THEN chain ELSE s
  BY DEF Insert
<1> HIDE DEF quiet, s
<1>3. CASE "store" \in fs
  BY <1>1, <1>2, <1>3 DEF NoPost, s
<1>4. CASE "store" \notin fs
  BY <1>1, <1>2, <1>4 DEF NoPost, s
<1>5. QED
  BY <1>3, <1>4

\* A longer timeline leaves what points into it well typed.
LEMMA SeatsWiden ==
  ASSUME SeatTyped, Rows \subseteq Rows', UNCHANGED seats
  PROVE  SeatTyped'
<1>1. seat' = seat /\ queue' = queue /\ parked' = parked /\ handed' = handed /\ lost' = lost
  BY DEF seats
<1>2. \A m \in Members : seat[m] \in Seq(Rows') /\ queue[m] \in Seq(Rows')
  BY SeqWidens DEF SeatTyped
<1>3. GiftType \subseteq GiftType'
  BY DEF GiftType
<1>4. \A m \in Members : handed[m] \in Seq(GiftType')
  BY <1>3, SeqWidens DEF SeatTyped
<1>5. QED
  BY <1>1, <1>2, <1>4 DEF SeatTyped

LEMMA HooksWiden ==
  ASSUME HookTyped, Rows \subseteq Rows', UNCHANGED hook
  PROVE  HookTyped'
BY DEF HookTyped, HookType

LEMMA DebtsWiden ==
  ASSUME BootTyped, Rows \subseteq Rows', UNCHANGED sweeps
  PROVE  BootTyped'
BY DEF BootTyped, DebtType, sweeps

\* A change within the rows leaves their number.
LEMMA RowsKept ==
  ASSUME RoomTyped, NEW r \in Rows, NEW x \in RowType, x.hop = timeline[r].hop,
         timeline' = [timeline EXCEPT ![r] = x], chain' \in {0} \cup Rows
  PROVE  RoomTyped' /\ Rows' = Rows /\ Len(timeline') = Len(timeline)
         /\ \A q \in Rows : timeline'[q] = IF q = r THEN x ELSE timeline[q]
<1>1. /\ timeline \in Seq(RowType) /\ Len(timeline) \in Nat /\ Rows = 1..Len(timeline)
  BY RowFacts DEF RoomTyped
<1>2. timeline' \in Seq(RowType) /\ Len(timeline') = Len(timeline)
  BY <1>1, ExceptSeq
<1>3. Rows' = Rows
  BY <1>1, <1>2, LenProperties DEF Rows
<1>4. \A q \in Rows : timeline'[q] = IF q = r THEN x ELSE timeline[q]
  BY <1>1, <1>3 DEF Rows
<1>5. QED
  BY <1>2, <1>3, <1>4 DEF RoomTyped

\* A hand-over points into the rows.
LEMMA GiveTyped ==
  ASSUME SeatTyped, NEW m \in Members, NEW r \in Rows, NEW wakes \in BOOLEAN,
         Give(m, r, wakes), timeline' = timeline
  PROVE  SeatTyped'
<1>1. Rows' = Rows /\ GiftType' = GiftType
  BY DEF Rows, GiftType
<1>2. [row |-> r, woke |-> wakes] \in GiftType
  BY DEF GiftType
<1>3. handed' \in [Members -> Seq(GiftType)]
  <2>1. handed' = [handed EXCEPT ![m] = Append(@, [row |-> r, woke |-> wakes])]
    BY DEF Give
  <2>2. Append(handed[m], [row |-> r, woke |-> wakes]) \in Seq(GiftType)
    BY <1>2, AppendProperties DEF SeatTyped
  <2>3. QED
    BY <2>1, <2>2 DEF SeatTyped
<1>4. Append(seat[m], r) \in Seq(Rows) /\ Append(queue[m], r) \in Seq(Rows)
  BY AppendProperties DEF SeatTyped
<1>5. (parked[m] \/ wakes) \in BOOLEAN
  OBVIOUS
<1>6. /\ seat' \in [Members -> Seq(Rows)] /\ queue' \in [Members -> Seq(Rows)]
      /\ parked' \in [Members -> BOOLEAN]
  BY <1>4, <1>5 DEF Give, SeatTyped
<1>7. lost' = lost
  BY DEF Give
<1>8. QED
  BY <1>1, <1>3, <1>6, <1>7 DEF SeatTyped

LEMMA HeadOf ==
  ASSUME NEW S, NEW s \in Seq(S), s # <<>>
  PROVE  Head(s) \in S /\ Tail(s) \in Seq(S)
BY HeadTailProperties

\* A person's turn is none's, and the seats' turns are numbered one after the other.
LEMMA NextTurn ==
  ASSUME SaidTyped
  PROVE  Cardinality({t \in 1..MaxTurns : said[t].by # Person}) \in Nat
<1>1. 1 \in Int /\ MaxTurns \in Int
  BY BoundsAssumption
<1>2. IsFiniteSet(1..MaxTurns)
  BY <1>1, FS_Interval
<1>3. QED
  BY <1>2, FS_Subset, FS_CardinalityType

\* What the next thing to post is.
LEMMA UnpostedFacts ==
  ASSUME HookTyped, SaidTyped, NEW p \in Posters, Unposted(p) # {}
  PROVE  /\ hook[p].turn \in 1..MaxTurns /\ hook[p].at \in {"break", "close"}
         /\ LET k == CHOOSE i \in Unposted(p) : \A j \in Unposted(p) : i <= j
            IN k \in Unposted(p) /\ k \in 1..MaxSegs
<1>1. hook[p].at \in {"break", "close"} /\ hook[p].turn \in 1..MaxTurns
  BY DEF HookTyped, HookType, Unposted
<1>2. said[hook[p].turn].segs \in Nat /\ said[hook[p].turn].segs <= MaxSegs
  BY <1>1, BoundsAssumption DEF SaidTyped, SaidType
<1>3. Unposted(p) \subseteq 1..said[hook[p].turn].segs
  BY DEF Unposted
<1>4. Unposted(p) \in SUBSET Nat /\ \A k \in Unposted(p) : k \in 1..MaxSegs
  BY <1>2, <1>3, BoundsAssumption
<1>5. \E i \in Unposted(p) : \A j \in Unposted(p) : i <= j
  BY <1>4, LeastOfSet
<1>6. (CHOOSE i \in Unposted(p) : \A j \in Unposted(p) : i <= j) \in Unposted(p)
  BY <1>5
<1>7. QED
  BY <1>1, <1>4, <1>6

\* Re-pointing rows changes their keys and nothing else.
LEMMA RekeyRows ==
  ASSUME RoomTyped, NEW S,
         timeline' = [r \in Rows |-> IF r \in S THEN [timeline[r] EXCEPT !.key = "msg"]
                                     ELSE timeline[r]],
         chain' = chain
  PROVE  /\ RoomTyped' /\ Rows' = Rows /\ Len(timeline') = Len(timeline)
         /\ \A r \in Rows : timeline'[r] = IF r \in S THEN [timeline[r] EXCEPT !.key = "msg"]
                                           ELSE timeline[r]
<1>1. /\ Len(timeline) \in Nat /\ Rows = 1..Len(timeline) /\ \A r \in Rows : timeline[r] \in RowType
  BY RowFacts
<1>2. \A r \in Rows : /\ [timeline[r] EXCEPT !.key = "msg"] \in RowType
                      /\ [timeline[r] EXCEPT !.key = "msg"].hop = timeline[r].hop
  BY <1>1 DEF RowType
<1>3. \A r \in Rows : timeline'[r] \in RowType /\ timeline'[r].hop = timeline[r].hop
  BY <1>1, <1>2
<1>4. timeline' \in [1..Len(timeline) -> RowType]
  BY <1>1, <1>3
<1>5. timeline' \in Seq(RowType)
  BY <1>1, <1>4, SeqDef
<1>6. Len(timeline') = Len(timeline)
  BY <1>1, <1>4, <1>5, LenProperties
<1>7. Rows' = Rows
  BY <1>1, <1>4 DEF Rows
<1>8. QED
  BY <1>3, <1>5, <1>6, <1>7 DEF RoomTyped

-----------------------------------------------------------------------------
(* Type correctness                                                        *)

LEMMA TypedInit == Init => Typed
<1> SUFFICES ASSUME Init PROVE Typed
  OBVIOUS
<1>0. {MaxHops, MaxRows, MaxSpoken, MaxTurns, MaxSegs} \subseteq Nat
  BY BoundsAssumption
<1>1. Rows = {} /\ <<>> \in Seq(RowType) /\ Len(<<>>) = 0
  BY EmptySeq DEF Init, Rows
<1>2. RoomTyped
  BY <1>0, <1>1 DEF Init, RoomTyped
<1>3. PostTyped
  <2>1. NoPost \in PostType /\ NoPost.prev = 0
    BY <1>0 DEF NoPost, PostType
  <2>2. QED
    BY <1>0, <2>1 DEF Init, PostTyped
<1>4. SeatTyped
  <2>1. <<>> \in Seq(Rows) /\ <<>> \in Seq(GiftType)
    OBVIOUS
  <2>2. QED
    BY <2>1 DEF Init, SeatTyped
<1>5. HookTyped
  <2>1. NoHook \in HookType /\ NoHook.at = "idle"
    BY <1>0 DEF NoHook, HookType
  <2>2. QED
    BY <2>1 DEF Init, HookTyped
<1>6. SaidTyped
  <2>1. Unsaid \in SaidType
    BY <1>0 DEF Unsaid, SaidType
  <2>2. QED
    BY <2>1 DEF Init, SaidTyped
<1>7. BootTyped /\ SpentTyped
  BY DEF Init, BootTyped, SpentTyped
<1>8. QED
  BY <1>2, <1>3, <1>4, <1>5, <1>6, <1>7 DEF Typed

\* A post and a turn after a change of some of their fields.
LEMMA PostChange ==
  ASSUME PostTyped, NEW r \in 0..MaxRows, NEW x \in PostType, x.prev \in {0, post[r].prev},
         post' = [post EXCEPT ![r] = x]
  PROVE  PostTyped'
<1>1. \A q \in 1..MaxRows : 0 < q
  BY BoundsAssumption
<1>2. QED
  BY <1>1 DEF PostTyped, PostType

LEMMA HookChange ==
  ASSUME HookTyped, NEW p \in Posters, NEW x \in HookType, x.at # "idle" => x.turn # 0,
         hook' = [hook EXCEPT ![p] = x], Rows \subseteq Rows'
  PROVE  HookTyped'
<1>1. HookType \subseteq HookType'
  BY DEF HookType
<1>2. QED
  BY <1>1 DEF HookTyped

LEMMA SaidChange ==
  ASSUME SaidTyped, NEW n \in 1..MaxTurns, NEW x \in SaidType, said' = [said EXCEPT ![n] = x]
  PROVE  SaidTyped'
BY DEF SaidTyped

\* What is left alone stays well typed.
LEMMA Frames ==
  ASSUME Typed
  PROVE  /\ UNCHANGED timeline => Rows' = Rows
         /\ UNCHANGED <<timeline, chain>> => RoomTyped'
         /\ UNCHANGED post => PostTyped'
         /\ UNCHANGED seats /\ Rows' = Rows => SeatTyped'
         /\ UNCHANGED hook /\ Rows' = Rows => HookTyped'
         /\ UNCHANGED said => SaidTyped'
         /\ UNCHANGED sweeps /\ Rows' = Rows => BootTyped'
         /\ UNCHANGED spent => SpentTyped'
<1>1. UNCHANGED timeline => Rows' = Rows
  BY DEF Rows
<1>2. UNCHANGED <<timeline, chain>> => RoomTyped'
  BY DEF Typed, RoomTyped, Rows
<1>3. UNCHANGED post => PostTyped'
  BY DEF Typed, PostTyped
<1>4. UNCHANGED seats /\ Rows' = Rows => SeatTyped'
  BY SeatsWiden DEF Typed
<1>5. UNCHANGED hook /\ Rows' = Rows => HookTyped'
  BY HooksWiden DEF Typed
<1>6. UNCHANGED said => SaidTyped'
  BY DEF Typed, SaidTyped
<1>7. UNCHANGED sweeps /\ Rows' = Rows => BootTyped'
  BY DebtsWiden DEF Typed
<1>8. UNCHANGED spent => SpentTyped'
  BY DEF Typed, SpentTyped
<1>9. QED
  BY <1>1, <1>2, <1>3, <1>4, <1>5, <1>6, <1>7, <1>8

LEMMA FanOutTyped ==
  ASSUME Typed, FanOut
  PROVE  Typed'
<1>0. /\ RoomTyped /\ PostTyped /\ SeatTyped /\ BootTyped /\ SpentTyped
      /\ Rows \subseteq 1..MaxRows /\ Rows \subseteq 0..MaxRows
      /\ \A r \in Rows : timeline[r] \in RowType /\ post[r] \in PostType
  <2>1. RoomTyped /\ PostTyped /\ SeatTyped /\ BootTyped /\ SpentTyped
    BY DEF Typed
  <2>2. Rows \subseteq 1..MaxRows /\ \A r \in Rows : timeline[r] \in RowType
    BY <2>1, RowFacts
  <2>3. Rows \subseteq 0..MaxRows
    BY <2>2, BoundsAssumption
  <2>4. QED
    BY <2>1, <2>2, <2>3 DEF PostTyped
<1>1. ASSUME NEW r \in Rows, Route(r)
      PROVE  Typed'
  <2>1. PICK woken \in SUBSET Others(r) :
          /\ post' = [post EXCEPT ![r].at = "wait", ![r].wake = woken]
          /\ \/ timeline' = [timeline EXCEPT ![r].wake = woken] /\ UNCHANGED spent
             \/ Spend({"store"}) /\ UNCHANGED timeline
    BY <1>1 DEF Route
  <2>2. UNCHANGED <<chain, seats, turns, sweeps>>
    BY <1>1 DEF Route
  <2>3. woken \in SUBSET Members
    BY DEF Others
  <2>4. PostTyped'
    <3> DEFINE x == [post[r] EXCEPT !.at = "wait", !.wake = woken]
    <3>1. x \in PostType /\ x.prev = post[r].prev
      BY <1>0, <2>3 DEF PostType
    <3>2. post' = [post EXCEPT ![r] = x]
      BY <1>0, <2>1 DEF PostTyped
    <3>3. QED
      <4> HIDE DEF x
      <4> QED BY <1>0, <3>1, <3>2, PostChange
  <2>5. RoomTyped' /\ Rows' = Rows
    <3>1. CASE UNCHANGED timeline
      BY <2>2, <3>1, Frames
    <3>2. CASE timeline' = [timeline EXCEPT ![r].wake = woken]
      <4> DEFINE x == [timeline[r] EXCEPT !.wake = woken]
      <4>1. x \in RowType /\ x.hop = timeline[r].hop
        BY <1>0, <2>3 DEF RowType
      <4>2. timeline' = [timeline EXCEPT ![r] = x]
        BY <3>2
      <4>3. chain' \in {0} \cup Rows
        BY <1>0, <2>2 DEF RoomTyped
      <4>4. QED
        <5> HIDE DEF x
        <5> QED BY <1>0, <4>1, <4>2, <4>3, RowsKept
    <3>3. QED
      BY <2>1, <3>1, <3>2
  <2>6. SpentTyped'
    BY <1>0, <2>1, Spending, Frames
  <2>7. QED
    BY <2>2, <2>4, <2>5, <2>6, Frames DEF Typed, turns
<1>2. ASSUME NEW r \in Rows, Go(r)
      PROVE  Typed'
  <2>1. PostTyped'
    <3> DEFINE x == [post[r] EXCEPT !.at = "hand", !.left = Others(r)]
    <3>1. x \in PostType /\ x.prev = post[r].prev
      <4>1. Others(r) \in SUBSET Members
        BY DEF Others
      <4>2. QED
        BY <1>0, <4>1 DEF PostType
    <3>2. post' = [post EXCEPT ![r] = x]
      BY <1>0, <1>2 DEF PostTyped, Go
    <3>3. QED
      <4> HIDE DEF x
      <4> QED BY <1>0, <3>1, <3>2, PostChange
  <2>2. UNCHANGED <<timeline, chain, seats, turns, sweeps>>
    BY <1>2 DEF Go
  <2>3. SpentTyped'
    BY <1>0, <1>2, Spending, Frames DEF Go
  <2>4. QED
    BY <2>1, <2>2, <2>3, Frames DEF Typed, turns
<1>3. ASSUME NEW r \in Rows, NEW m \in Members, Hand(r, m)
      PROVE  Typed'
  <2>1. UNCHANGED <<timeline, chain, turns, sweeps>>
    BY <1>3 DEF Hand
  <2>2. PostTyped'
    <3>1. PICK x \in {[post[r] EXCEPT !.mid = m], [post[r] EXCEPT !.left = @ \ {m}]} :
            post' = [post EXCEPT ![r] = x]
      BY <1>0, <1>3 DEF Hand, PostTyped
    <3>2. x \in PostType /\ x.prev = post[r].prev
      BY <1>0, <3>1 DEF PostType
    <3>3. QED
      BY <1>0, <3>1, <3>2, PostChange
  <2>3. SeatTyped'
    <3>1. Wakes(r, m) \in BOOLEAN
      BY DEF Wakes
    <3>2. CASE Give(m, r, Wakes(r, m))
      BY <1>0, <2>1, <3>1, <3>2, GiveTyped
    <3>3. CASE UNCHANGED seats
      BY <2>1, <3>3, Frames
    <3>4. QED
      BY <1>3, <3>2, <3>3 DEF Hand
  <2>4. SpentTyped'
    BY <1>0, <1>3, Spending, Frames DEF Hand
  <2>5. QED
    BY <2>1, <2>2, <2>3, <2>4, Frames DEF Typed, turns
<1>4. ASSUME NEW r \in Rows, Record(r)
      PROVE  Typed'
  <2>1. /\ UNCHANGED <<chain, seats, turns, sweeps>>
        /\ \/ timeline' = [timeline EXCEPT ![r].to = @ \cup {post[r].mid}]
           \/ UNCHANGED timeline
        /\ post[r].mid \in Members
    BY <1>0, <1>4 DEF Record, PostType
  <2>2. PostTyped'
    <3> DEFINE x == [post[r] EXCEPT !.left = @ \ {post[r].mid}, !.mid = Person]
    <3>1. x \in PostType /\ x.prev = post[r].prev
      BY <1>0 DEF PostType
    <3>2. post' = [post EXCEPT ![r] = x]
      BY <1>0, <1>4 DEF Record, PostTyped
    <3>3. QED
      <4> HIDE DEF x
      <4> QED BY <1>0, <3>1, <3>2, PostChange
  <2>3. RoomTyped' /\ Rows' = Rows
    <3>1. CASE UNCHANGED timeline
      BY <2>1, <3>1, Frames
    <3>2. CASE timeline' = [timeline EXCEPT ![r].to = @ \cup {post[r].mid}]
      <4> DEFINE x == [timeline[r] EXCEPT !.to = @ \cup {post[r].mid}]
      <4>1. x \in RowType /\ x.hop = timeline[r].hop
        BY <1>0, <2>1 DEF RowType
      <4>2. timeline' = [timeline EXCEPT ![r] = x]
        BY <3>2
      <4>3. chain' \in {0} \cup Rows
        BY <1>0, <2>1 DEF RoomTyped
      <4>4. QED
        <5> HIDE DEF x
        <5> QED BY <1>0, <4>1, <4>2, <4>3, RowsKept
    <3>3. QED
      BY <2>1, <3>1, <3>2
  <2>4. SpentTyped'
    BY <1>0, <1>4, Spending, Frames DEF Record
  <2>5. QED
    BY <2>1, <2>2, <2>3, <2>4, Frames DEF Typed, turns
<1>5. ASSUME NEW r \in Rows, Finish(r)
      PROVE  Typed'
  <2>1. PostTyped'
    <3> DEFINE x == [NoPost EXCEPT !.at = "done"]
    <3>1. x \in PostType /\ x.prev = 0
      BY BoundsAssumption DEF NoPost, PostType
    <3>2. post' = [post EXCEPT ![r] = x]
      BY <1>5 DEF Finish
    <3>3. QED
      <4> HIDE DEF x
      <4> QED BY <1>0, <3>1, <3>2, PostChange
  <2>2. UNCHANGED <<timeline, seats, turns, sweeps, spent>> /\ chain' \in {0, chain}
    BY <1>5 DEF Finish
  <2>3. RoomTyped' /\ Rows' = Rows
    BY <1>0, <2>2 DEF RoomTyped, Rows
  <2>4. QED
    BY <2>1, <2>2, <2>3, Frames DEF Typed, turns
<1>6. QED
  BY <1>1, <1>2, <1>3, <1>4, <1>5 DEF FanOut

LEMMA TurnTyped ==
  ASSUME Typed, NEW m \in Members, Turn(m)
  PROVE  Typed'
<1>0. /\ SeatTyped /\ HookTyped /\ SaidTyped /\ SpentTyped /\ PostTyped /\ RoomTyped
      /\ m \in Posters /\ hook[m] \in HookType
      /\ hook[m].at # "idle" => hook[m].turn \in 1..MaxTurns
  <2>1. m \in Posters /\ hook[m] \in HookType
    BY DEF Typed, HookTyped, Posters
  <2>2. hook[m].at # "idle" => hook[m].turn \in 1..MaxTurns
    BY <2>1, BoundsAssumption DEF Typed, HookTyped, HookType
  <2>3. QED
    BY <2>1, <2>2 DEF Typed
<1>1. CASE Start(m)
  <2> DEFINE n == Cardinality({t \in 1..MaxTurns : said[t].by # Person}) + 1
  <2>1. n \in 1..MaxTurns
    BY <1>0, <1>1, NextTurn, BoundsAssumption DEF Start
  <2>2. /\ hook' = [hook EXCEPT ![m] = [NoHook EXCEPT !.at = "start", !.turn = n]]
        /\ said' = [said EXCEPT ![n].by = m]
        /\ UNCHANGED <<fanout, seats, sweeps, spent>>
    BY <1>1 DEF Start
  <2> HIDE DEF n
  <2>3. HookTyped'
    <3>1. [NoHook EXCEPT !.at = "start", !.turn = n] \in HookType
      <4>1. n \in 0..MaxTurns
        BY <2>1, BoundsAssumption
      <4>2. NoHook \in HookType
        BY BoundsAssumption DEF NoHook, HookType
      <4>3. QED
        BY <4>1, <4>2 DEF HookType
    <3>2. [NoHook EXCEPT !.at = "start", !.turn = n].turn # 0
      BY <2>1, BoundsAssumption DEF NoHook
    <3>3. Rows' = Rows
      BY <2>2, Frames DEF fanout
    <3>4. QED
      BY <1>0, <2>2, <3>1, <3>2, <3>3, HookChange
  <2>4. SaidTyped'
    <3> DEFINE x == [said[n] EXCEPT !.by = m]
    <3>1. x \in SaidType
      BY <1>0, <2>1 DEF SaidTyped, SaidType
    <3>2. said' = [said EXCEPT ![n] = x]
      BY <2>2
    <3>3. QED
      <4> HIDE DEF x
      <4> QED BY <1>0, <2>1, <3>1, <3>2, SaidChange
  <2>5. QED
    BY <2>2, <2>3, <2>4, Frames DEF Typed, fanout
<1>2. CASE Trigger(m)
  <2>1. /\ hook' = [hook EXCEPT ![m].at = "run"] /\ hook[m].at = "start"
        /\ UNCHANGED <<fanout, said, sweeps, handed, lost>>
        /\ \/ /\ queue[m] # <<>> /\ queue' = [queue EXCEPT ![m] = Tail(@)] /\ UNCHANGED parked
              /\ UNCHANGED seat \/ seat' = [seat EXCEPT ![m] = Append(@, Head(queue[m]))]
           \/ parked' = [parked EXCEPT ![m] = FALSE] /\ UNCHANGED <<seat, queue>>
        /\ UNCHANGED spent \/ Spend({"store"})
    BY <1>2 DEF Trigger
  <2>2. Rows' = Rows /\ RoomTyped' /\ PostTyped'
    BY <2>1, Frames DEF fanout
  <2>3. HookTyped'
    BY <1>0, <2>1, <2>2 DEF HookTyped, HookType
  <2>4. SeatTyped'
    <3>1. queue[m] # <<>> => /\ Append(seat[m], Head(queue[m])) \in Seq(Rows)
                             /\ Tail(queue[m]) \in Seq(Rows)
      BY <1>0, HeadOf, AppendProperties DEF SeatTyped
    <3>2. /\ seat' \in [Members -> Seq(Rows)] /\ queue' \in [Members -> Seq(Rows)]
          /\ parked' \in [Members -> BOOLEAN]
      BY <1>0, <2>1, <3>1 DEF SeatTyped
    <3>3. QED
      BY <1>0, <2>1, <2>2, <3>2 DEF SeatTyped, GiftType
  <2>5. SpentTyped'
    BY <1>0, <2>1, Spending, Frames
  <2>6. QED
    BY <2>1, <2>2, <2>3, <2>4, <2>5, Frames DEF Typed
<1>8. CASE StopEarly(m)
  <2>1. /\ hook' = [hook EXCEPT ![m] = NoHook] /\ Spend({"stop"})
        /\ UNCHANGED <<fanout, said, sweeps, seat, handed>>
        /\ \/ /\ queue[m] # <<>> /\ queue' = [queue EXCEPT ![m] = Tail(@)] /\ UNCHANGED parked
              /\ lost' = lost \cup {<<Head(queue[m]), m>>}
           \/ parked' = [parked EXCEPT ![m] = FALSE] /\ UNCHANGED <<queue, lost>>
    BY <1>8 DEF StopEarly
  <2>2. Rows' = Rows /\ RoomTyped' /\ PostTyped'
    BY <2>1, Frames DEF fanout
  <2>3. HookTyped'
    <3>1. NoHook \in HookType /\ NoHook.at = "idle"
      BY BoundsAssumption DEF NoHook, HookType
    <3>2. QED
      BY <1>0, <2>1, <2>2, <3>1, HookChange
  <2>4. SeatTyped'
    <3>1. queue[m] # <<>> => Head(queue[m]) \in Rows /\ Tail(queue[m]) \in Seq(Rows)
      BY <1>0, HeadOf DEF SeatTyped
    <3>2. /\ queue' \in [Members -> Seq(Rows)] /\ parked' \in [Members -> BOOLEAN]
          /\ lost' \subseteq Rows \X Members
      <4>1. CASE parked' = [parked EXCEPT ![m] = FALSE] /\ UNCHANGED <<queue, lost>>
        BY <1>0, <4>1 DEF SeatTyped
      <4>2. CASE /\ queue[m] # <<>> /\ queue' = [queue EXCEPT ![m] = Tail(@)]
                 /\ UNCHANGED parked /\ lost' = lost \cup {<<Head(queue[m]), m>>}
        <5>1. <<Head(queue[m]), m>> \in Rows \X Members
          BY <3>1, <4>2
        <5>2. QED
          BY <1>0, <3>1, <4>2, <5>1 DEF SeatTyped
      <4>3. QED
        BY <2>1, <4>1, <4>2
    <3>3. QED
      BY <1>0, <2>1, <2>2, <3>2 DEF SeatTyped, GiftType
  <2>5. SpentTyped'
    BY <1>0, <2>1, Spending
  <2>6. QED
    BY <2>1, <2>2, <2>3, <2>4, <2>5, Frames DEF Typed
<1>3. CASE Break(m)
  <2> DEFINE n == hook[m].turn
  <2>1. /\ hook' = [hook EXCEPT ![m].at = "break"] /\ hook[m].at = "run"
        /\ said' = [said EXCEPT ![n].segs = @ + 1] /\ said[n].segs < MaxSegs
        /\ parked' = [parked EXCEPT ![m] = FALSE]
        /\ UNCHANGED <<fanout, seat, queue, handed, lost, sweeps, spent>>
    BY <1>3 DEF Break, CanSay
  <2>2. Rows' = Rows /\ RoomTyped' /\ PostTyped' /\ n \in 1..MaxTurns
    BY <1>0, <2>1, Frames DEF fanout
  <2> HIDE DEF n
  <2>3. HookTyped'
    BY <1>0, <2>1, <2>2 DEF HookTyped, HookType
  <2>4. SaidTyped'
    <3> DEFINE x == [said[n] EXCEPT !.segs = @ + 1]
    <3>1. said[n] \in SaidType /\ said[n].segs + 1 \in 0..MaxSegs
      BY <1>0, <2>1, <2>2, BoundsAssumption DEF SaidTyped, SaidType
    <3>2. x \in SaidType
      BY <3>1 DEF SaidType
    <3>3. said' = [said EXCEPT ![n] = x]
      BY <1>0, <2>1, <2>2 DEF SaidTyped
    <3>4. QED
      <4> HIDE DEF x
      <4> QED BY <1>0, <2>2, <3>2, <3>3, SaidChange
  <2>5. SeatTyped'
    BY <1>0, <2>1, <2>2 DEF SeatTyped, GiftType
  <2>6. QED
    BY <2>1, <2>2, <2>3, <2>4, <2>5, Frames DEF Typed
<1>4. CASE Persist(m)
  <2> DEFINE n == hook[m].turn
  <2>1. /\ hook' = [hook EXCEPT ![m].at = "saved"] /\ hook[m].at = "run"
        /\ UNCHANGED <<fanout, seat, queue, handed, lost, sweeps, spent>>
        /\ \E taken \in {TRUE, FALSE} : parked' = [parked EXCEPT ![m] = @ /\ ~taken]
    BY <1>4 DEF Persist
  <2>2. PICK tail \in 0..1 : /\ tail = 1 => said[n].segs < MaxSegs
                             /\ said' = [said EXCEPT ![n].segs = @ + tail, ![n].saved = "open"]
    BY <1>4 DEF Persist, CanSay
  <2>3. Rows' = Rows /\ RoomTyped' /\ PostTyped' /\ n \in 1..MaxTurns
    BY <1>0, <2>1, Frames DEF fanout
  <2> HIDE DEF n
  <2>4. HookTyped'
    BY <1>0, <2>1, <2>3 DEF HookTyped, HookType
  <2>5. SaidTyped'
    <3> DEFINE x == [said[n] EXCEPT !.segs = @ + tail, !.saved = "open"]
    <3>1. said[n] \in SaidType /\ said[n].segs + tail \in 0..MaxSegs
      BY <1>0, <2>2, <2>3, BoundsAssumption DEF SaidTyped, SaidType
    <3>2. x \in SaidType
      BY <3>1 DEF SaidType
    <3>3. said' = [said EXCEPT ![n] = x]
      BY <1>0, <2>2, <2>3 DEF SaidTyped
    <3>4. QED
      <4> HIDE DEF x
      <4> QED BY <1>0, <2>3, <3>2, <3>3, SaidChange
  <2>6. SeatTyped'
    <3>1. parked' \in [Members -> BOOLEAN]
      BY <1>0, <2>1 DEF SeatTyped
    <3>2. QED
      BY <1>0, <2>1, <2>3, <3>1 DEF SeatTyped, GiftType
  <2>7. QED
    BY <2>1, <2>3, <2>4, <2>5, <2>6, Frames DEF Typed
<1>5. CASE Resume(m)
  <2>1. /\ hook' = [hook EXCEPT ![m].at = "run", ![m].row = 0] /\ hook[m].at = "break"
        /\ UNCHANGED <<fanout, seats, said, sweeps, spent>>
    BY <1>5 DEF Resume
  <2>2. Rows' = Rows
    BY <2>1, Frames DEF fanout
  <2>3. HookTyped'
    BY <1>0, <2>1, <2>2 DEF HookTyped, HookType
  <2>4. QED
    BY <2>1, <2>2, <2>3, Frames DEF Typed, fanout
<1>6. CASE Stop(m)
  <2> DEFINE n == hook[m].turn
             r == hook[m].row
  <2>1. /\ hook[m].at \in {"run", "break", "saved", "close"}
        /\ Spend({"stop"}) /\ UNCHANGED <<timeline, seats, sweeps>>
        /\ \/ post' = [post EXCEPT ![r] = [NoPost EXCEPT !.at = "cut"]] /\ chain' \in {0, chain}
           \/ UNCHANGED <<post, chain>>
        /\ \/ /\ hook' = [hook EXCEPT ![m] = [@ EXCEPT !.at = "saved", !.row = 0, !.cut = TRUE]]
              /\ said' = [said EXCEPT ![n].saved = "open"]
           \/ hook' = [hook EXCEPT ![m] = NoHook] /\ UNCHANGED said
    BY <1>6 DEF Stop
  <2>2. r \in 0..MaxRows /\ n \in 1..MaxTurns
    <3>1. r \in {0} \cup Rows /\ Rows \subseteq 1..MaxRows
      BY <1>0, RowFacts DEF HookType
    <3>2. QED
      BY <1>0, <2>1, <3>1, BoundsAssumption
  <2>3. Rows' = Rows /\ RoomTyped'
    BY <1>0, <2>1 DEF RoomTyped, Rows
  <2>4. PostTyped'
    <3> DEFINE x == [NoPost EXCEPT !.at = "cut"]
    <3>1. x \in PostType /\ x.prev = 0
      BY BoundsAssumption DEF NoPost, PostType
    <3>2. QED
      <4> HIDE DEF x, r
      <4> QED BY <1>0, <2>1, <2>2, <3>1, PostChange, Frames DEF x
  <2>5. HookTyped'
    <3>1. NoHook \in HookType /\ NoHook.at = "idle"
      BY BoundsAssumption DEF NoHook, HookType
    <3> DEFINE x == [hook[m] EXCEPT !.at = "saved", !.row = 0, !.cut = TRUE]
    <3>2. x \in HookType
      BY <1>0 DEF HookType
    <3>5. x.turn # 0
      <4>1. x.turn = hook[m].turn
        BY <1>0 DEF HookType
      <4>2. hook[m].turn # 0
        BY <1>0, <2>1 DEF HookTyped
      <4>3. QED
        <5> HIDE DEF x
        <5> QED BY <4>1, <4>2
    <3>3. hook' = [hook EXCEPT ![m] = x] \/ hook' = [hook EXCEPT ![m] = NoHook]
      BY <2>1
    <3>4. QED
      <4> HIDE DEF x
      <4> QED BY <1>0, <2>3, <3>1, <3>2, <3>3, <3>5, HookChange
  <2>6. SaidTyped'
    <3> HIDE DEF n
    <3> QED BY <1>0, <2>1, <2>2 DEF SaidTyped, SaidType
  <2>7. SpentTyped'
    BY <1>0, <2>1, Spending
  <2>8. QED
    BY <2>1, <2>3, <2>4, <2>5, <2>6, <2>7, Frames DEF Typed
<1>7. QED
  BY <1>1, <1>2, <1>3, <1>4, <1>5, <1>6, <1>8 DEF Turn

LEMMA SpeakTyped ==
  ASSUME Typed, Speak
  PROVE  Typed'
<1>1. PICK fs \in SUBSET {"flood", "store"} : Insert(Person, 0, "none", 0, fs) /\ Spend(fs)
  BY DEF Speak
<1>2. RoomTyped' /\ PostTyped' /\ Rows \subseteq Rows'
  <2>1. 0 \in 0..MaxTurns /\ 0 \in 0..MaxSegs
    BY BoundsAssumption
  <2>2. QED
    BY <1>1, <2>1, InsertFacts DEF Typed
<1>3. SeatTyped' /\ HookTyped' /\ BootTyped' /\ UNCHANGED <<seats, turns, sweeps>>
  BY <1>2, SeatsWiden, HooksWiden, DebtsWiden DEF Speak, Typed, turns
<1>4. SpentTyped'
  BY <1>1, Spending DEF Typed
<1>5. QED
  BY <1>2, <1>3, <1>4, Frames DEF Typed, turns

\* What a hook posts.
LEMMA SayFacts ==
  ASSUME Typed, NEW p \in Posters, Say(p)
  PROVE  /\ Unposted(p) # {} /\ Free(p) /\ UNCHANGED <<seats, said, sweeps>>
         /\ hook[p].turn \in 1..MaxTurns /\ hook[p].at \in {"break", "close"}
         /\ \E k \in Unposted(p) \cap (1..MaxSegs), fs \in SUBSET {"flood", "store"} :
              \/ /\ Insert(said[hook[p].turn].by, hook[p].turn, Key(p), k, fs) /\ Spend(fs)
                 /\ hook' = IF "store" \in fs THEN Ended(p)
                            ELSE [hook EXCEPT ![p].row = Len(timeline) + 1]
              \/ Spend({"store"}) /\ hook' = Ended(p) /\ UNCHANGED fanout
<1> DEFINE k == CHOOSE i \in Unposted(p) : \A j \in Unposted(p) : i <= j
<1>1. Unposted(p) # {} /\ Free(p) /\ UNCHANGED <<seats, said, sweeps>>
  BY DEF Say
<1>2. /\ hook[p].turn \in 1..MaxTurns /\ hook[p].at \in {"break", "close"}
      /\ k \in Unposted(p) \cap (1..MaxSegs)
  BY <1>1, UnpostedFacts DEF Typed
<1>3. \/ \E fs \in SUBSET {"flood", "store"} :
           /\ Insert(said[hook[p].turn].by, hook[p].turn, Key(p), k, fs) /\ Spend(fs)
           /\ hook' = IF "store" \in fs THEN Ended(p)
                      ELSE [hook EXCEPT ![p].row = Len(timeline) + 1]
      \/ Spend({"store"}) /\ hook' = Ended(p) /\ UNCHANGED fanout
  BY DEF Say
<1> HIDE DEF k
<1>4. QED
  BY <1>1, <1>2, <1>3

\* A hook that an exception has ended.
LEMMA EndedTyped ==
  ASSUME HookTyped, NEW p \in Posters, hook[p].at \in {"break", "close"}, hook' = Ended(p),
         Rows \subseteq Rows'
  PROVE  HookTyped'
<1> DEFINE x == IF hook[p].at = "break" THEN [hook[p] EXCEPT !.at = "run", !.row = 0]
                ELSE [hook[p] EXCEPT !.cut = TRUE]
<1>1. hook[p] \in HookType /\ hook[p].turn # 0
  BY DEF HookTyped
<1>2. x \in HookType /\ x.turn # 0
  <2>1. CASE hook[p].at = "break"
    BY <1>1, <2>1 DEF HookType
  <2>2. CASE hook[p].at # "break"
    BY <1>1, <2>2 DEF HookType
  <2>3. QED
    BY <2>1, <2>2
<1>3. hook' = [hook EXCEPT ![p] = x]
  BY DEF Ended, HookTyped
<1>4. QED
  <2> HIDE DEF x
  <2> QED BY <1>2, <1>3, HookChange

LEMMA SayTyped ==
  ASSUME Typed, NEW p \in Posters, Say(p)
  PROVE  Typed'
<1>0. /\ UNCHANGED <<seats, said, sweeps>>
      /\ hook[p].turn \in 1..MaxTurns /\ hook[p].at \in {"break", "close"}
      /\ RoomTyped /\ PostTyped /\ SeatTyped /\ HookTyped /\ SaidTyped /\ BootTyped /\ SpentTyped
      /\ hook[p] \in HookType
  <2>1. UNCHANGED <<seats, said, sweeps>> /\ hook[p].turn \in 1..MaxTurns
        /\ hook[p].at \in {"break", "close"}
    BY SayFacts
  <2>2. QED
    BY <2>1 DEF Typed, HookTyped
<1> DEFINE by == said[hook[p].turn].by
<1>1. PICK k \in Unposted(p) \cap (1..MaxSegs), fs \in SUBSET {"flood", "store"} :
        \/ /\ Insert(by, hook[p].turn, Key(p), k, fs) /\ Spend(fs)
           /\ hook' = IF "store" \in fs THEN Ended(p)
                      ELSE [hook EXCEPT ![p].row = Len(timeline) + 1]
        \/ Spend({"store"}) /\ hook' = Ended(p) /\ UNCHANGED fanout
  BY SayFacts
<1>2. CASE /\ Insert(by, hook[p].turn, Key(p), k, fs) /\ Spend(fs)
           /\ hook' = IF "store" \in fs THEN Ended(p)
                      ELSE [hook EXCEPT ![p].row = Len(timeline) + 1]
  <2>1. /\ by \in Members \cup {Person} /\ hook[p].turn \in 0..MaxTurns
        /\ Key(p) \in {"none", "live", "msg"} /\ k \in 0..MaxSegs
    <3>1. by \in Members \cup {Person}
      BY <1>0 DEF SaidTyped, SaidType
    <3>2. hook[p].turn \in 0..MaxTurns /\ k \in 0..MaxSegs
      BY <1>0, <1>1, BoundsAssumption
    <3>3. QED
      BY <3>1, <3>2 DEF Key
  <2> HIDE DEF by
  <2>2. RoomTyped' /\ PostTyped' /\ Rows' = Rows \cup {Len(timeline) + 1}
    BY <1>0, <1>2, <2>1, InsertFacts
  <2>3. SeatTyped' /\ BootTyped'
    BY <1>0, <2>2, SeatsWiden, DebtsWiden
  <2>4. HookTyped'
    <3>1. CASE "store" \in fs
      BY <1>0, <1>2, <2>2, <3>1, EndedTyped
    <3>2. CASE "store" \notin fs
      <4> DEFINE x == [hook[p] EXCEPT !.row = Len(timeline) + 1]
      <4>1. HookType \subseteq HookType' /\ x \in HookType'
        BY <1>0, <2>2 DEF HookType
      <4>2. hook' = [hook EXCEPT ![p] = x]
        BY <1>2, <3>2
      <4>3. x.turn # 0
        <5>1. x.turn = hook[p].turn
          BY <1>0 DEF HookType
        <5>2. QED
          BY <1>0, <5>1, BoundsAssumption
      <4> HIDE DEF x
      <4>4. hook' \in [Posters -> HookType']
        BY <1>0, <4>1, <4>2 DEF HookTyped
      <4>5. \A q \in Posters : hook'[q].at # "idle" => hook'[q].turn # 0
        BY <1>0, <4>2, <4>3 DEF HookTyped
      <4>6. QED
        BY <4>4, <4>5 DEF HookTyped
    <3>3. QED
      BY <3>1, <3>2
  <2>5. SpentTyped'
    BY <1>0, <1>2, Spending
  <2>6. QED
    BY <1>0, <2>2, <2>3, <2>4, <2>5, Frames DEF Typed
<1>3. CASE Spend({"store"}) /\ hook' = Ended(p) /\ UNCHANGED fanout
  <2>1. Rows' = Rows
    BY <1>3, Frames DEF fanout
  <2>2. HookTyped'
    BY <1>0, <1>3, <2>1, EndedTyped
  <2>3. SpentTyped'
    BY <1>0, <1>3, Spending
  <2>4. QED
    BY <1>0, <1>3, <2>1, <2>2, <2>3, Frames DEF Typed, fanout
<1>4. QED
  BY <1>1, <1>2, <1>3

LEMMA HookStepTyped ==
  ASSUME Typed, NEW p \in Posters, Hook(p)
  PROVE  Typed'
<1>0. /\ RoomTyped /\ PostTyped /\ SeatTyped /\ HookTyped /\ SaidTyped /\ BootTyped /\ SpentTyped
      /\ hook[p] \in HookType
      /\ hook[p].at # "idle" => hook[p].turn \in 1..MaxTurns
  <2>1. hook[p] \in HookType
    BY DEF Typed, HookTyped
  <2>2. hook[p].at # "idle" => hook[p].turn \in 1..MaxTurns
    BY <2>1, BoundsAssumption DEF Typed, HookTyped, HookType
  <2>3. QED
    BY <2>1, <2>2 DEF Typed
<1>1. CASE Say(p)
  BY <1>1, SayTyped
<1>2. CASE Rekey(p)
  <2>1. /\ hook[p].at = "saved" /\ UNCHANGED <<chain, post, seats, said, sweeps>>
        /\ hook' = [hook EXCEPT ![p].at = "close", ![p].row = 0]
        /\ \/ /\ timeline' = [r \in Rows |-> IF r \in Posted(hook[p].turn, "live")
                                             THEN [timeline[r] EXCEPT !.key = "msg"]
                                             ELSE timeline[r]]
              /\ UNCHANGED spent
           \/ Spend({"rekey"}) /\ UNCHANGED timeline
    BY <1>2 DEF Rekey
  <2>2. RoomTyped' /\ Rows' = Rows
    BY <1>0, <2>1, RekeyRows, Frames
  <2>3. HookTyped'
    <3> DEFINE x == [hook[p] EXCEPT !.at = "close", !.row = 0]
    <3>1. x \in HookType
      BY <1>0 DEF HookType
    <3>2. x.turn # 0
      BY <1>0, <2>1 DEF HookType
    <3>3. hook' = [hook EXCEPT ![p] = x]
      BY <1>0, <2>1 DEF HookTyped
    <3>4. QED
      <4> HIDE DEF x
      <4> QED BY <1>0, <2>2, <3>1, <3>2, <3>3, HookChange
  <2>4. SpentTyped'
    BY <1>0, <2>1, Spending, Frames
  <2>5. QED
    BY <2>1, <2>2, <2>3, <2>4, Frames DEF Typed
<1>3. CASE Stamp(p)
  <2>1. /\ hook[p].at = "close" /\ UNCHANGED <<fanout, seats, sweeps>>
        /\ hook' = [hook EXCEPT ![p] = NoHook]
        /\ \/ said' = [said EXCEPT ![hook[p].turn].saved = "stamped"] /\ UNCHANGED spent
           \/ Spend({"store"}) /\ UNCHANGED said
    BY <1>3 DEF Stamp
  <2>2. Rows' = Rows
    BY <2>1, Frames DEF fanout
  <2>3. HookTyped'
    <3>1. NoHook \in HookType /\ NoHook.at = "idle"
      BY BoundsAssumption DEF NoHook, HookType
    <3>2. QED
      BY <1>0, <2>1, <2>2, <3>1, HookChange
  <2>4. SaidTyped'
    <3> DEFINE n == hook[p].turn
               x == [said[n] EXCEPT !.saved = "stamped"]
    <3>1. x \in SaidType /\ n \in 1..MaxTurns
      BY <1>0, <2>1 DEF SaidTyped, SaidType
    <3>2. said' = [said EXCEPT ![n] = x] \/ UNCHANGED said
      BY <2>1
    <3>3. QED
      <4> HIDE DEF x, n
      <4> QED BY <1>0, <3>1, <3>2, SaidChange, Frames
  <2>5. SpentTyped'
    BY <1>0, <2>1, Spending, Frames
  <2>6. QED
    BY <2>1, <2>2, <2>3, <2>4, <2>5, Frames DEF Typed, fanout
<1>4. QED
  BY <1>1, <1>2, <1>3 DEF Hook

\* The seat's newest turn is one of the room's.
LEMMA NewestTurn ==
  ASSUME NEW saved \in SUBSET (1..MaxTurns), saved # {}
  PROVE  LET newest == CHOOSE n \in saved : \A k \in saved : k <= n
         IN newest \in saved /\ \A k \in saved : k <= newest
<1>1. saved \in SUBSET Nat /\ \A n \in saved : n <= MaxTurns
  BY BoundsAssumption
<1>2. MaxTurns \in Nat
  BY BoundsAssumption
<1>3. QED
  BY <1>1, <1>2, GreatestOfSet

LEMMA SweepTyped ==
  ASSUME Typed, Sweep
  PROVE  Typed'
<1>0. /\ RoomTyped /\ PostTyped /\ SeatTyped /\ HookTyped /\ SaidTyped /\ BootTyped /\ SpentTyped
      /\ Boot \in Posters
  BY DEF Typed, Posters
<1>1. ASSUME NEW m \in Members, SweepTurn(m)
      PROVE  Typed'
  <2> DEFINE saved  == {n \in 1..MaxTurns : said[n].by = m /\ said[n].saved # "no"}
             newest == CHOOSE n \in saved : \A k \in saved : k <= n
  <2>1. /\ boot = "turns" /\ todo' = todo \ {m} /\ UNCHANGED <<fanout, seats, said, boot, owed>>
        /\ \/ saved # {} /\ hook' = [hook EXCEPT ![Boot] = [NoHook EXCEPT !.at = "saved", !.turn = newest]]
           \/ UNCHANGED hook
        /\ UNCHANGED spent \/ Spend({"store"})
    BY <1>1 DEF SweepTurn
  <2>2. Rows' = Rows
    BY <2>1, Frames DEF fanout
  <2>3. HookTyped'
    <3>1. CASE UNCHANGED hook
      BY <2>2, <3>1, Frames
    <3>2. CASE saved # {} /\ hook' = [hook EXCEPT ![Boot] = [NoHook EXCEPT !.at = "saved", !.turn = newest]]
      <4>1. newest \in 1..MaxTurns
        <5>1. saved \in SUBSET (1..MaxTurns)
          OBVIOUS
        <5>2. QED
          <6> HIDE DEF saved
          <6>1. newest \in saved
            BY <3>2, <5>1, NewestTurn
          <6>2. QED
            BY <5>1, <6>1
      <4> HIDE DEF newest
      <4> DEFINE x == [NoHook EXCEPT !.at = "saved", !.turn = newest]
      <4>2. x \in HookType
        <5>1. NoHook \in HookType /\ newest \in 0..MaxTurns
          BY <4>1, BoundsAssumption DEF NoHook, HookType
        <5>2. QED
          BY <5>1 DEF HookType
      <4>3. x.turn # 0
        BY <4>1, BoundsAssumption DEF NoHook
      <4>4. hook' = [hook EXCEPT ![Boot] = x]
        BY <3>2
      <4>5. QED
        <5> HIDE DEF x
        <5> QED BY <1>0, <2>2, <4>2, <4>3, <4>4, HookChange
    <3>3. QED
      BY <2>1, <3>1, <3>2
  <2>4. BootTyped'
    BY <1>0, <2>1, <2>2 DEF BootTyped, DebtType
  <2>5. SpentTyped'
    BY <1>0, <2>1, Spending, Frames
  <2>6. QED
    BY <2>1, <2>2, <2>3, <2>4, <2>5, Frames DEF Typed, fanout
<1>2. CASE SweepRows
  <2>1. /\ boot' = "rows" /\ owed' = Missing /\ UNCHANGED <<fanout, seats, turns, todo, spent>>
    BY <1>2 DEF SweepRows
  <2>2. Rows' = Rows
    BY <2>1, Frames DEF fanout
  <2>3. Missing \subseteq DebtType
    <3>1. ASSUME NEW x \in {y \in Rows \X Members : y[2] \in Unreached(y[1])}
          PROVE  [row |-> x[1], to |-> x[2], given |-> FALSE,
                  wakes |-> ~timeline[x[1]].quiet /\ x[2] \in timeline[x[1]].wake] \in DebtType
      BY DEF DebtType
    <3>2. QED
      BY <3>1 DEF Missing
  <2>4. BootTyped'
    BY <1>0, <2>1, <2>2, <2>3 DEF BootTyped, DebtType
  <2>5. QED
    BY <2>1, <2>2, <2>4, Frames DEF Typed, fanout, turns
<1>3. ASSUME NEW o \in owed, BootHand(o)
      PROVE  Typed'
  <2>1. /\ UNCHANGED <<fanout, turns, boot, todo>>
        /\ \/ Give(o.to, o.row, o.wakes) /\ owed' = (owed \ {o}) \cup {[o EXCEPT !.given = TRUE]}
           \/ UNCHANGED seats /\ owed' = owed \ {o}
        /\ UNCHANGED spent \/ Spend({"store"})
    BY <1>3 DEF BootHand
  <2>2. Rows' = Rows /\ o \in DebtType
    BY <1>0, <2>1, Frames DEF fanout, BootTyped
  <2>3. SeatTyped'
    <3>1. o.to \in Members /\ o.row \in Rows /\ o.wakes \in BOOLEAN /\ timeline' = timeline
      BY <2>1, <2>2 DEF DebtType, fanout
    <3>2. CASE Give(o.to, o.row, o.wakes)
      BY <1>0, <3>1, <3>2, GiveTyped
    <3>3. CASE UNCHANGED seats
      BY <2>2, <3>3, Frames
    <3>4. QED
      BY <2>1, <3>2, <3>3
  <2>4. BootTyped'
    <3>1. [o EXCEPT !.given = TRUE] \in DebtType
      BY <2>2 DEF DebtType
    <3>2. DebtType' = DebtType
      BY <2>2 DEF DebtType
    <3>3. QED
      BY <1>0, <2>1, <3>1, <3>2 DEF BootTyped
  <2>5. SpentTyped'
    BY <1>0, <2>1, Spending, Frames
  <2>6. QED
    BY <2>1, <2>2, <2>3, <2>4, <2>5, Frames DEF Typed, fanout, turns
<1>4. ASSUME NEW o \in owed, BootRecord(o)
      PROVE  Typed'
  <2>1. /\ UNCHANGED <<chain, post, seats, turns, boot, todo>> /\ owed' = owed \ {o}
        /\ \/ timeline' = [timeline EXCEPT ![o.row].to = @ \cup {o.to}]
           \/ UNCHANGED timeline
        /\ UNCHANGED spent \/ Spend({"store"})
    BY <1>4 DEF BootRecord
  <2>2. o.row \in Rows /\ o.to \in Members
    BY <1>0 DEF BootTyped, DebtType
  <2>3. RoomTyped' /\ Rows' = Rows
    <3>1. CASE UNCHANGED timeline
      BY <2>1, <3>1, Frames
    <3>2. CASE timeline' = [timeline EXCEPT ![o.row].to = @ \cup {o.to}]
      <4> DEFINE x == [timeline[o.row] EXCEPT !.to = @ \cup {o.to}]
      <4>1. x \in RowType /\ x.hop = timeline[o.row].hop
        <5>1. timeline[o.row] \in RowType
          BY <1>0, <2>2, RowFacts
        <5>2. QED
          BY <2>2, <5>1 DEF RowType
      <4>2. timeline' = [timeline EXCEPT ![o.row] = x]
        BY <3>2
      <4>3. chain' \in {0} \cup Rows
        BY <1>0, <2>1 DEF RoomTyped
      <4>4. QED
        <5> HIDE DEF x
        <5> QED BY <1>0, <2>2, <4>1, <4>2, <4>3, RowsKept
    <3>3. QED
      BY <2>1, <3>1, <3>2
  <2>4. BootTyped'
    BY <1>0, <2>1, <2>3 DEF BootTyped, DebtType
  <2>5. SpentTyped'
    BY <1>0, <2>1, Spending, Frames
  <2>6. QED
    BY <2>1, <2>3, <2>4, <2>5, Frames DEF Typed, turns
<1>5. CASE Booted
  <2>1. boot' = "up" /\ UNCHANGED <<fanout, seats, turns, todo, owed, spent>>
    BY <1>5 DEF Booted
  <2>2. Rows' = Rows
    BY <2>1, Frames DEF fanout
  <2>3. BootTyped'
    BY <1>0, <2>1, <2>2 DEF BootTyped, DebtType
  <2>4. QED
    BY <2>1, <2>2, <2>3, Frames DEF Typed, fanout, turns
<1>6. QED
  BY <1>1, <1>2, <1>3, <1>4, <1>5 DEF Sweep

LEMMA CrashTyped ==
  ASSUME Typed, Crash
  PROVE  Typed'
<1>1. /\ Spend({"crash"}) /\ boot' = "turns" /\ todo' = Members /\ owed' = {} /\ chain' = 0
      /\ post' = [r \in DOMAIN post |-> NoPost] /\ queue' = [m \in Members |-> <<>>]
      /\ hook' = [p \in Posters |-> NoHook] /\ UNCHANGED <<timeline, seat, parked, said, handed>>
  BY DEF Crash
<1>2. Rows' = Rows /\ RoomTyped'
  BY <1>1 DEF Typed, RoomTyped, Rows
<1>3. PostTyped'
  <2>1. NoPost \in PostType /\ NoPost.prev = 0
    BY BoundsAssumption DEF NoPost, PostType
  <2>2. \A r \in 1..MaxRows : 0 < r /\ r \in 0..MaxRows
    BY BoundsAssumption
  <2>3. QED
    BY <1>1, <2>1, <2>2 DEF Typed, PostTyped
<1>4. SeatTyped'
  <2>1. <<>> \in Seq(Rows)
    OBVIOUS
  <2>2. queue' \in [Members -> Seq(Rows)]
    BY <1>1, <2>1
  <2>3. lost' \subseteq Rows \X Members
    BY DEF Crash, Typed, SeatTyped
  <2>4. QED
    BY <1>1, <1>2, <2>2, <2>3 DEF Typed, SeatTyped, GiftType
<1>5. HookTyped'
  <2>1. NoHook \in HookType /\ NoHook.at = "idle"
    BY BoundsAssumption DEF NoHook, HookType
  <2>2. HookType' = HookType
    BY <1>2 DEF HookType
  <2>3. QED
    BY <1>1, <2>1, <2>2 DEF HookTyped
<1>6. BootTyped' /\ SpentTyped' /\ SaidTyped'
  BY <1>1, Spending, Frames DEF Typed, BootTyped
<1>7. QED
  BY <1>2, <1>3, <1>4, <1>5, <1>6 DEF Typed

LEMMA TypedStep == Typed /\ [Next]_vars => Typed'
<1> SUFFICES ASSUME Typed, [Next]_vars PROVE Typed'
  OBVIOUS
<1>1. CASE Speak
  BY <1>1, SpeakTyped
<1>2. CASE FanOut
  BY <1>2, FanOutTyped
<1>3. ASSUME NEW m \in Members, Turn(m)
      PROVE  Typed'
  BY <1>3, TurnTyped
<1>4. ASSUME NEW p \in Posters, Hook(p)
      PROVE  Typed'
  BY <1>4, HookStepTyped
<1>5. CASE Sweep
  BY <1>5, SweepTyped
<1>6. CASE Crash
  BY <1>6, CrashTyped
<1>7. CASE UNCHANGED vars
  BY <1>7, Frames DEF Typed, vars, fanout, turns
<1>8. QED
  BY <1>1, <1>2, <1>3, <1>4, <1>5, <1>6, <1>7 DEF Next

\* What the rows, the posts in flight, the turns and the sweep keep is of the form the
\* code takes it for, and a post waits for an older one only (fanout.py, hooks.py).
THEOREM TypeCorrect == Spec => []TypeOK
<1>1. Typed => TypeOK
  BY TypedIsTypeOK
<1>2. QED
  BY <1>1, TypedInit, TypedStep, PTL DEF Spec

-----------------------------------------------------------------------------
(* What a step does to the rows                                            *)

\* Whose a row is, how far from a person's, and what it says never change.
SameRow(r) == /\ timeline'[r].by = timeline[r].by /\ timeline'[r].hop = timeline[r].hop
              /\ timeline'[r].quiet = timeline[r].quiet
              /\ timeline'[r].turn = timeline[r].turn /\ timeline'[r].seg = timeline[r].seg

\* At most one row is new.
Grows == \E by \in Members \cup {Person}, n \in 0..MaxTurns, key \in {"none", "live", "msg"},
            k \in 0..MaxSegs, fs \in SUBSET {"flood", "store"} :
           /\ Rows' = Rows \cup {Len(timeline) + 1}
           /\ timeline'[Len(timeline) + 1] = NewRow(by, n, key, k, fs)

LEMMA RowsStep ==
  ASSUME Typed, [Next]_vars
  PROVE  /\ Rows \subseteq Rows' /\ \A r \in Rows : SameRow(r)
         /\ Rows' = Rows \/ Grows
<1>0. RoomTyped /\ PostTyped /\ \A r \in Rows : timeline[r] \in RowType
  BY RowFacts DEF Typed
<1>1. CASE UNCHANGED timeline
  BY <1>1 DEF SameRow, Rows
<1>2. ASSUME NEW by \in Members \cup {Person}, NEW n \in 0..MaxTurns,
             NEW key \in {"none", "live", "msg"}, NEW k \in 0..MaxSegs, NEW fs \in SUBSET {"flood", "store"},
             Insert(by, n, key, k, fs)
      PROVE  /\ Rows \subseteq Rows' /\ \A r \in Rows : SameRow(r)
             /\ Rows' = Rows \/ Grows
  <2>1. RoomTyped /\ PostTyped
    BY <1>0
  <2>3. /\ Rows' = Rows \cup {Len(timeline) + 1}
        /\ \A r \in Rows : timeline'[r] = timeline[r]
        /\ timeline'[Len(timeline) + 1] = NewRow(by, n, key, k, fs)
    <3>1. Insert(by, n, key, k, fs)
      BY <1>2
    <3>2. Rows' = Rows \cup {Len(timeline) + 1} /\ Len(timeline) + 1 \notin Rows
      BY <2>1, <3>1, InsertFacts
    <3>3. \A r \in Rows : timeline'[r] = timeline[r]
      BY <2>1, <3>1, InsertFacts
    <3>4. timeline'[Len(timeline) + 1] = NewRow(by, n, key, k, fs)
      <4>1. timeline' = Append(timeline, NewRow(by, n, key, k, fs))
        BY <3>1 DEF Insert, NewRow
      <4>2. timeline \in Seq(RowType)
        BY <2>1 DEF RoomTyped
      <4>3. QED
        BY <4>1, <4>2
    <3>5. QED
      BY <3>2, <3>3, <3>4
  <2>2. Grows
    BY <2>3 DEF Grows
  <2>4. QED
    BY <2>2, <2>3 DEF SameRow
<1>3. ASSUME NEW S, timeline' = [r \in Rows |-> IF r \in S THEN [timeline[r] EXCEPT !.key = "msg"]
                                                ELSE timeline[r]]
      PROVE  Rows' = Rows /\ \A r \in Rows : SameRow(r)
  <2>1. Rows' = Rows
    BY <1>3 DEF Rows
  <2>2. ASSUME NEW r \in Rows
        PROVE  SameRow(r)
    <3>1. timeline'[r] = IF r \in S THEN [timeline[r] EXCEPT !.key = "msg"] ELSE timeline[r]
      BY <1>3
    <3>2. timeline[r] \in RowType
      BY <1>0
    <3>3. QED
      BY <3>1, <3>2 DEF SameRow, RowType
  <2>3. QED
    BY <2>1, <2>2
<1>4. ASSUME NEW r \in Rows, NEW w,
             \/ timeline' = [timeline EXCEPT ![r].wake = w]
             \/ timeline' = [timeline EXCEPT ![r].to = w]
      PROVE  Rows' = Rows /\ \A q \in Rows : SameRow(q)
  <2>1. Rows' = Rows
    BY <1>4 DEF Rows
  <2>2. ASSUME NEW q \in Rows
        PROVE  SameRow(q)
    <3>1. \/ timeline'[q] = timeline[q] \/ timeline'[q] = [timeline[q] EXCEPT !.wake = w]
          \/ timeline'[q] = [timeline[q] EXCEPT !.to = w]
      BY <1>4 DEF Rows
    <3>2. timeline[q] \in RowType
      BY <1>0
    <3>3. QED
      BY <3>1, <3>2 DEF SameRow, RowType
  <2>3. QED
    BY <2>1, <2>2
<1>5. CASE Speak
  <2>1. 0 \in 0..MaxTurns /\ 0 \in 0..MaxSegs
    BY BoundsAssumption
  <2>2. QED
    BY <1>2, <1>5, <2>1 DEF Speak
<1>6. CASE FanOut
  <2>1. PICK r \in Rows : Route(r) \/ Go(r) \/ (\E m \in Members : Hand(r, m)) \/ Record(r) \/ Finish(r)
    BY <1>6 DEF FanOut
  <2>2. \/ UNCHANGED timeline
        \/ \E w : timeline' = [timeline EXCEPT ![r].wake = w]
        \/ \E w : timeline' = [timeline EXCEPT ![r].to = w]
    BY <2>1 DEF Route, Go, Hand, Record, Finish
  <2>3. QED
    BY <1>1, <1>4, <2>2
<1>7. ASSUME NEW m \in Members, Turn(m)
      PROVE  UNCHANGED timeline
  BY <1>7 DEF Turn, Start, Trigger, StopEarly, Break, Persist, Resume, Stop, fanout
<1>8. ASSUME NEW p \in Posters, Hook(p)
      PROVE  /\ Rows \subseteq Rows' /\ \A r \in Rows : SameRow(r)
             /\ Rows' = Rows \/ Grows
  <2>1. CASE Say(p)
    <3>1. PICK k \in Unposted(p) \cap (1..MaxSegs), fs \in SUBSET {"flood", "store"} :
            \/ Insert(said[hook[p].turn].by, hook[p].turn, Key(p), k, fs)
            \/ UNCHANGED fanout
      BY <2>1, SayFacts
    <3>2. /\ said[hook[p].turn].by \in Members \cup {Person} /\ hook[p].turn \in 0..MaxTurns
          /\ Key(p) \in {"none", "live", "msg"} /\ k \in 0..MaxSegs
      <4>1. hook[p].turn \in 1..MaxTurns
        BY <2>1, SayFacts
      <4>2. said[hook[p].turn].by \in Members \cup {Person}
        BY <4>1 DEF Typed, SaidTyped, SaidType
      <4>3. hook[p].turn \in 0..MaxTurns /\ k \in 0..MaxSegs
        BY <3>1, <4>1, BoundsAssumption
      <4>4. QED
        BY <4>2, <4>3 DEF Key
    <3>3. QED
      BY <1>1, <1>2, <3>1, <3>2 DEF fanout
  <2>2. CASE Rekey(p)
    <3>1. \/ timeline' = [r \in Rows |-> IF r \in Posted(hook[p].turn, "live")
                                         THEN [timeline[r] EXCEPT !.key = "msg"] ELSE timeline[r]]
          \/ UNCHANGED timeline
      BY <2>2 DEF Rekey
    <3>2. QED
      BY <1>1, <1>3, <3>1
  <2>3. CASE Stamp(p)
    BY <1>1, <2>3 DEF Stamp, fanout
  <2>4. QED
    BY <1>8, <2>1, <2>2, <2>3 DEF Hook
<1>9. CASE Sweep
  <2>1. \/ UNCHANGED timeline
        \/ \E o \in owed : \E w : timeline' = [timeline EXCEPT ![o.row].to = w]
    BY <1>9 DEF Sweep, SweepTurn, SweepRows, BootHand, BootRecord, Booted, fanout
  <2>2. \A o \in owed : o.row \in Rows
    BY DEF Typed, BootTyped, DebtType
  <2>3. QED
    BY <1>1, <1>4, <2>1, <2>2
<1>10. CASE Crash
  BY <1>1, <1>10 DEF Crash
<1>11. CASE UNCHANGED vars
  BY <1>1, <1>11 DEF vars, fanout
<1>12. QED
  BY <1>1, <1>5, <1>6, <1>7, <1>8, <1>9, <1>10, <1>11 DEF Next

-----------------------------------------------------------------------------
(* Agents fall silent                                                      *)

\* Along a stretch of agents' posts the distance grows with every post.
HopsGrow ==
  /\ \A r \in Rows : ByAgent(r) => timeline[r].hop >= 1
  /\ \A r \in Rows : ByAgent(r) /\ ~timeline[r].quiet => timeline[r].hop < MaxHops
  /\ \A r, q \in Rows : r < q /\ (\A i \in r..q : ByAgent(i)) => timeline[r].hop < timeline[q].hop

LEMMA HopsInit == Init => HopsGrow
<1> SUFFICES ASSUME Init PROVE HopsGrow
  OBVIOUS
<1>1. Rows = {}
  BY DEF Init, Rows
<1>2. QED
  BY <1>1 DEF HopsGrow

LEMMA HopsStep ==
  ASSUME Typed, HopsGrow, [Next]_vars
  PROVE  HopsGrow'
<1>0. /\ Len(timeline) \in Nat /\ Rows = 1..Len(timeline) /\ RoomTyped
      /\ Rows \subseteq Rows' /\ \A r \in Rows : SameRow(r)
      /\ Rows' = Rows \/ Grows
  BY RowFacts, RowsStep DEF Typed
<1>1. \A r \in Rows : ByAgent(r)' = ByAgent(r)
  BY <1>0 DEF ByAgent, SameRow
<1>2. CASE Rows' = Rows
  <2>1. \A r, q \in Rows : \A i \in r..q : i \in Rows
    BY <1>0
  <2>2. QED
    BY <1>0, <1>1, <1>2, <2>1 DEF HopsGrow, SameRow
<1>3. CASE Grows
  <2> DEFINE s == Len(timeline) + 1
  <2>1. PICK by \in Members \cup {Person}, n \in 0..MaxTurns, key \in {"none", "live", "msg"},
             k \in 0..MaxSegs, fs \in SUBSET {"flood", "store"} :
               Rows' = Rows \cup {s} /\ timeline'[s] = NewRow(by, n, key, k, fs)
    BY <1>3 DEF Grows
  <2>2. /\ timeline'[s].by = by /\ timeline'[s].hop = Hop(by)
        /\ by # Person => (~timeline'[s].quiet => ~(Hop(by) >= MaxHops))
    <3>1. timeline'[s].by = by /\ timeline'[s].hop = Hop(by)
      BY <2>1 DEF NewRow
    <3>2. timeline'[s].quiet = ("flood" \in fs \/ (by # Person /\ Hop(by) >= MaxHops))
      BY <2>1 DEF NewRow
    <3>3. QED
      BY <3>1, <3>2
  <2>3. /\ Hop(by) \in Nat /\ (by # Person => Hop(by) >= 1)
        /\ by # Person => \A r \in Rows : (\A q \in Rows : q >= r => ByAgent(q))
                                            => timeline[r].hop < Hop(by)
    BY <1>0, HopFacts
  <2>4. timeline'[s].by \in Members => by # Person
    BY <2>2, RoomAssumption
  <2>5. ASSUME NEW r \in Rows', ByAgent(r)'
        PROVE  timeline'[r].hop >= 1 /\ (~timeline'[r].quiet => timeline'[r].hop < MaxHops)
    <3>1. CASE r \in Rows
      BY <1>0, <1>1, <2>5, <3>1 DEF HopsGrow, SameRow
    <3>2. CASE r = s
      BY <2>2, <2>3, <2>4, <2>5, <3>2, BoundsAssumption DEF ByAgent
    <3>3. QED
      BY <2>1, <3>1, <3>2
  <2>6. ASSUME NEW r \in Rows', NEW q \in Rows', r < q, \A i \in r..q : ByAgent(i)'
        PROVE  timeline'[r].hop < timeline'[q].hop
    <3>1. CASE q \in Rows
      <4>1. r \in Rows /\ \A i \in r..q : i \in Rows
        BY <1>0, <2>1, <2>6, <3>1
      <4>2. \A i \in r..q : ByAgent(i)
        BY <1>1, <2>6, <4>1
      <4>3. QED
        BY <1>0, <2>6, <3>1, <4>1, <4>2 DEF HopsGrow, SameRow
    <3>2. CASE q = s
      <4>1. r \in Rows /\ s \in r..s
        BY <1>0, <2>1, <2>6, <3>2
      <4>2. \A i \in Rows : i >= r => i \in r..s
        BY <1>0, <4>1
      <4>3. \A i \in Rows : i >= r => ByAgent(i)
        BY <1>1, <2>6, <3>2, <4>2
      <4>4. by # Person
        BY <2>4, <2>6, <3>2, <4>1 DEF ByAgent
      <4>5. QED
        BY <1>0, <2>2, <2>3, <3>2, <4>1, <4>3, <4>4 DEF SameRow
    <3>3. QED
      BY <2>1, <3>1, <3>2
  <2>7. QED
    BY <2>5, <2>6 DEF HopsGrow
<1>4. QED
  BY <1>0, <1>2, <1>3

LEMMA HopsBound ==
  ASSUME Typed, HopsGrow
  PROVE  AgentsFallSilent
<1> SUFFICES ASSUME NEW q \in Rows, Heard(q) # {}
             PROVE  Cardinality(Heard(q)) < MaxHops
  BY DEF AgentsFallSilent
<1>0. /\ Len(timeline) \in Nat /\ Rows = 1..Len(timeline) /\ MaxHops \in Nat
      /\ \A r \in Rows : timeline[r].hop \in Nat
  <2>1. /\ Len(timeline) \in Nat /\ Rows = 1..Len(timeline) /\ MaxRows \in Nat
        /\ \A r \in Rows : timeline[r] \in RowType
    BY RowFacts DEF Typed
  <2>2. \A r \in Rows : timeline[r].hop \in 0..MaxRows
    BY <2>1 DEF RowType
  <2>3. QED
    BY <2>1, <2>2, BoundsAssumption
<1>1. ASSUME NEW r \in Heard(q)
      PROVE  r \in Rows /\ r <= q /\ ByAgent(r) /\ timeline[r].hop \in 1..(MaxHops - 1)
  <2>1. r \in Rows /\ r <= q /\ ~timeline[r].quiet /\ \A i \in r..q : ByAgent(i)
    BY DEF Heard
  <2>2. r \in r..q
    BY <1>0, <2>1
  <2>3. timeline[r].hop >= 1 /\ timeline[r].hop < MaxHops
    BY <2>1, <2>2 DEF HopsGrow
  <2>4. QED
    BY <1>0, <2>1, <2>2, <2>3
<1>2. ASSUME NEW r \in Heard(q), NEW t \in Heard(q), r < t
      PROVE  timeline[r].hop < timeline[t].hop
  <2>1. r \in Rows /\ t \in Rows /\ t <= q /\ \A i \in r..q : ByAgent(i)
    BY <1>1 DEF Heard
  <2>2. \A i \in r..t : i \in r..q
    BY <1>0, <2>1
  <2>3. QED
    BY <1>2, <2>1, <2>2 DEF HopsGrow
<1> DEFINE f == [r \in Heard(q) |-> timeline[r].hop]
<1>3. f \in Injection(Heard(q), 1..(MaxHops - 1))
  <2>1. f \in [Heard(q) -> 1..(MaxHops - 1)]
    BY <1>1
  <2>2. ASSUME NEW r \in Heard(q), NEW t \in Heard(q), f[r] = f[t]
        PROVE  r = t
    <3>1. r \in Nat /\ t \in Nat /\ timeline[r].hop = timeline[t].hop
          /\ timeline[r].hop \in Nat /\ timeline[t].hop \in Nat
      BY <1>0, <1>1, <2>2
    <3>2. ~(r < t) /\ ~(t < r)
      BY <1>2, <3>1
    <3>3. QED
      BY <3>1, <3>2
  <2>3. QED
    <3> HIDE DEF f
    <3> QED BY <2>1, <2>2 DEF Injection, IsInjective
<1>4. PICK r \in Heard(q) : TRUE
  OBVIOUS
<1>5. MaxHops - 1 \in Nat
  BY <1>0, <1>1
<1>6. IsFiniteSet(1..(MaxHops - 1)) /\ Cardinality(1..(MaxHops - 1)) = MaxHops - 1
  BY <1>5, FS_Interval
<1>7. IsFiniteSet(Heard(q)) /\ Cardinality(Heard(q)) <= MaxHops - 1
  <2> HIDE DEF f
  <2> QED BY <1>3, <1>6, FS_Injection
<1>8. Cardinality(Heard(q)) \in Nat
  BY <1>7, FS_CardinalityType
<1>9. QED
  BY <1>0, <1>7, <1>8

\* Between two things a person says fewer than MaxHops posts of the agents can start a
\* turn, and none if it is 0, whatever the agents say and whatever fails (_resolve_hop).
THEOREM AgentsAreBounded == Spec => []AgentsFallSilent
<1>1. Typed /\ HopsGrow => AgentsFallSilent
  BY HopsBound
<1>2. Init => Typed /\ HopsGrow
  BY TypedInit, HopsInit
<1>3. Typed /\ HopsGrow /\ [Next]_vars => (Typed /\ HopsGrow)'
  BY TypedStep, HopsStep
<1>4. QED
  BY <1>1, <1>2, <1>3, PTL DEF Spec

-----------------------------------------------------------------------------
(* Whom a post wakes                                                       *)

\* A post in flight wakes no one its row does not say to wake: the row is wider than
\* what was decided until it is stamped, and for good when the stamp is lost.
RowIsWider ==
  \A r \in Rows : /\ post[r].at = "route" => timeline[r].wake = Others(r)
                  /\ post[r].at \in {"wait", "hand"} => post[r].wake \subseteq timeline[r].wake

\* What the sweep found missing was woken by the row as it read it, and only a post
\* that came into flight since may have narrowed it.
DebtsAreJust ==
  /\ owed # {} => boot = "rows"
  /\ \A o \in owed : o.wakes =>
       /\ ~timeline[o.row].quiet
       /\ o.to \in timeline[o.row].wake \/ post[o.row].at # "none"

\* The row and the post of a step that decides nothing.
Undecided(r) ==
  /\ timeline'[r].wake = timeline[r].wake
  /\ post[r].at # "none" => post'[r].at # "none"
  /\ \/ post'[r].at \in {"none", "done", "cut"}
     \/ post'[r].at = post[r].at /\ post'[r].wake = post[r].wake
     \/ post[r].at \in {"wait", "hand"} /\ post'[r].at = "hand" /\ post'[r].wake = post[r].wake

LEMMA UndecidedKeeps ==
  ASSUME Typed, [Next]_vars, RowIsWider, DebtsAreJust, Rows' = Rows,
         \A r \in Rows : Undecided(r),
         owed' # {} => owed # {} /\ boot' = boot,
         \A o \in owed' : \E u \in owed : o.row = u.row /\ o.to = u.to /\ o.wakes = u.wakes
  PROVE  RowIsWider' /\ DebtsAreJust'
<1>0. /\ \A r \in Rows : SameRow(r)
      /\ \A o \in owed : o.row \in Rows
  BY RowsStep DEF Typed, BootTyped, DebtType
<1>1. RowIsWider'
  BY <1>0 DEF RowIsWider, Undecided, Others, SameRow
<1>2. DebtsAreJust'
  <2>1. ASSUME NEW o \in owed', o.wakes
        PROVE  /\ ~timeline'[o.row].quiet
               /\ o.to \in timeline'[o.row].wake \/ post'[o.row].at # "none"
    <3>1. PICK u \in owed : o.row = u.row /\ o.to = u.to /\ o.wakes = u.wakes
      OBVIOUS
    <3>2. /\ ~timeline[u.row].quiet
          /\ u.to \in timeline[u.row].wake \/ post[u.row].at # "none"
      BY <2>1, <3>1 DEF DebtsAreJust
    <3>3. u.row \in Rows /\ SameRow(u.row) /\ Undecided(u.row)
      BY <1>0
    <3>4. QED
      BY <3>1, <3>2, <3>3 DEF SameRow, Undecided
  <2>2. owed' # {} => boot' = "rows"
    BY DEF DebtsAreJust
  <2>3. QED
    BY <2>1, <2>2 DEF DebtsAreJust
<1>3. QED
  BY <1>1, <1>2

\* A new post wakes everyone else, or it is quiet and wakes no one.
LEMMA InsertKeeps ==
  ASSUME Typed, RowIsWider, DebtsAreJust, UNCHANGED sweeps,
         NEW by \in Members \cup {Person}, NEW n \in 0..MaxTurns,
         NEW key \in {"none", "live", "msg"}, NEW k \in 0..MaxSegs, NEW fs \in SUBSET {"flood", "store"},
         Insert(by, n, key, k, fs)
  PROVE  RowIsWider' /\ DebtsAreJust'
<1> DEFINE s   == Len(timeline) + 1
           new == NewRow(by, n, key, k, fs)
<1>0. RoomTyped /\ PostTyped /\ Rows \subseteq 0..MaxRows /\ \A o \in owed : o.row \in Rows
  <2>1. RoomTyped /\ PostTyped
    BY DEF Typed
  <2>2. Rows \subseteq 0..MaxRows
    BY <2>1, RowFacts
  <2>3. QED
    BY <2>1, <2>2 DEF Typed, BootTyped, DebtType
<1>1. /\ Rows' = Rows \cup {s} /\ s \notin Rows
      /\ \A r \in Rows : timeline'[r] = timeline[r]
      /\ \A r \in Rows : post'[r] = post[r]
  BY <1>0, InsertFacts
<1>2. timeline'[s] = new
  <2>1. timeline' = Append(timeline, new)
    BY DEF Insert, NewRow
  <2>2. timeline \in Seq(RowType)
    BY <1>0 DEF RoomTyped
  <2>3. QED
    <3> HIDE DEF new
    <3> QED BY <2>1, <2>2
<1>3. timeline'[s].by = by /\ timeline'[s].wake = Members \ {by}
  BY <1>2 DEF NewRow
<1>4. post'[s].at \in {"wait", "route", "cut"} /\ (post'[s].at = "wait" => post'[s].wake = {})
  BY <1>0, NewPost
<1>5. RowIsWider'
  <2>1. ASSUME NEW r \in Rows'
        PROVE  /\ post'[r].at = "route" => timeline'[r].wake = Members \ {timeline'[r].by}
               /\ post'[r].at \in {"wait", "hand"} => post'[r].wake \subseteq timeline'[r].wake
    <3>1. CASE r \in Rows
      BY <1>1, <3>1 DEF RowIsWider, Others
    <3>2. CASE r = s
      <4> HIDE DEF s
      <4> QED BY <1>3, <1>4, <3>2
    <3>3. QED
      BY <1>1, <3>1, <3>2
  <2>2. QED
    BY <2>1 DEF RowIsWider, Others
<1>6. DebtsAreJust'
  BY <1>0, <1>1 DEF DebtsAreJust, sweeps
<1>7. QED
  BY <1>5, <1>6

LEMMA WakesInit == Init => RowIsWider /\ DebtsAreJust
BY DEF Init, RowIsWider, DebtsAreJust, Rows

LEMMA WakesStep ==
  ASSUME Typed, RowIsWider, DebtsAreJust, [Next]_vars
  PROVE  RowIsWider' /\ DebtsAreJust'
<1>0. /\ RoomTyped /\ PostTyped /\ Rows \subseteq 0..MaxRows
      /\ \A o \in owed : o.row \in Rows
      /\ Rows \subseteq Rows' /\ \A r \in Rows : SameRow(r)
  <2>1. RoomTyped /\ PostTyped /\ \A o \in owed : o.row \in Rows
    BY DEF Typed, BootTyped, DebtType
  <2>2. Rows \subseteq 0..MaxRows
    BY <2>1, RowFacts
  <2>3. Rows \subseteq Rows' /\ \A r \in Rows : SameRow(r)
    BY RowsStep
  <2>4. QED
    BY <2>1, <2>2, <2>3
<1>1. CASE UNCHANGED <<timeline, post, sweeps>>
  <2>1. Rows' = Rows /\ owed' = owed /\ boot' = boot /\ \A r \in Rows : Undecided(r)
    BY <1>1 DEF Rows, Undecided, sweeps
  <2>2. QED
    BY <2>1, UndecidedKeeps
<1>2. CASE Speak
  <2>1. 0 \in 0..MaxTurns /\ 0 \in 0..MaxSegs
    BY BoundsAssumption
  <2>2. QED
    BY <1>2, <2>1, InsertKeeps DEF Speak
<1>3. CASE FanOut
  <2>0. PICK r \in Rows : Route(r) \/ Go(r) \/ (\E m \in Members : Hand(r, m)) \/ Record(r) \/ Finish(r)
    BY <1>3 DEF FanOut
  <2>1. UNCHANGED sweeps /\ Rows' = Rows /\ r \in 0..MaxRows
    BY <1>0, <2>0 DEF Route, Go, Hand, Record, Finish, Rows
  <2>2. CASE Route(r)
    <3>1. PICK woken \in SUBSET Others(r) :
            /\ post' = [post EXCEPT ![r].at = "wait", ![r].wake = woken]
            /\ timeline' = [timeline EXCEPT ![r].wake = woken] \/ UNCHANGED timeline
      BY <2>2 DEF Route
    <3>2. post[r].at = "route" /\ timeline[r].wake = Others(r)
      BY <2>2 DEF Route, RowIsWider
    <3>3. \A q \in Rows : q # r => timeline'[q] = timeline[q] /\ post'[q] = post[q]
      BY <1>0, <3>1 DEF Rows, PostTyped
    <3>4. post'[r].at = "wait" /\ post'[r].wake = woken
      BY <1>0, <2>1, <3>1 DEF PostTyped, PostType
    <3>5. timeline'[r].wake \in {woken, Others(r)}
      <4>1. timeline[r] \in RowType /\ r \in DOMAIN timeline
        BY <1>0, RowFacts DEF Rows
      <4>2. QED
        BY <3>1, <3>2, <4>1 DEF RowType
    <3>6. RowIsWider'
      <4>1. ASSUME NEW q \in Rows
            PROVE  /\ post'[q].at = "route" => timeline'[q].wake = Members \ {timeline'[q].by}
                   /\ post'[q].at \in {"wait", "hand"} => post'[q].wake \subseteq timeline'[q].wake
        <5>1. CASE q = r
          BY <3>4, <3>5, <5>1
        <5>2. CASE q # r
          BY <3>3, <5>2 DEF RowIsWider, Others
        <5>3. QED
          BY <5>1, <5>2
      <4>2. QED
        BY <2>1, <4>1 DEF RowIsWider, Others
    <3>7. DebtsAreJust'
      <4>1. ASSUME NEW o \in owed, o.wakes
            PROVE  /\ ~timeline'[o.row].quiet
                   /\ o.to \in timeline'[o.row].wake \/ post'[o.row].at # "none"
        <5>1. o.row \in Rows /\ SameRow(o.row) /\ ~timeline[o.row].quiet
              /\ (o.to \in timeline[o.row].wake \/ post[o.row].at # "none")
          BY <1>0, <4>1 DEF DebtsAreJust
        <5>2. CASE o.row = r
          BY <3>4, <5>1, <5>2 DEF SameRow
        <5>3. CASE o.row # r
          BY <3>3, <5>1, <5>3 DEF SameRow
        <5>4. QED
          BY <5>2, <5>3
      <4>2. QED
        BY <2>1, <4>1 DEF DebtsAreJust, sweeps
    <3>8. QED
      BY <3>6, <3>7
  <2>3. CASE ~Route(r)
    <3>1. \A q \in Rows : timeline'[q].wake = timeline[q].wake
      <4>1. CASE UNCHANGED timeline
        BY <4>1
      <4>2. CASE ~UNCHANGED timeline
        <5>1. timeline' = [timeline EXCEPT ![r].to = @ \cup {post[r].mid}]
          BY <2>0, <2>3, <4>2 DEF Go, Hand, Record, Finish
        <5>2. timeline[r] \in RowType
          BY <1>0, RowFacts
        <5>3. [timeline[r] EXCEPT !.to = @ \cup {post[r].mid}].wake = timeline[r].wake
          BY <5>2 DEF RowType
        <5>4. QED
          BY <5>1, <5>3 DEF Rows
      <4>3. QED
        BY <4>1, <4>2
    <3>2. \A q \in Rows : q # r => post'[q] = post[q]
      BY <1>0, <2>0, <2>3 DEF Go, Hand, Record, Finish, PostTyped
    <3>3. /\ post[r].at # "none" /\ post[r].at # "done" => post'[r].at # "none"
          /\ \/ post'[r].at = "done"
             \/ /\ post[r].at \in {"wait", "hand"} /\ post'[r].at = "hand"
                /\ post'[r].wake = post[r].wake
      <4>1. post[r] \in PostType
        BY <1>0, <2>1 DEF PostTyped
      <4>2. CASE Go(r)
        BY <1>0, <2>1, <4>1, <4>2 DEF Go, PostTyped, PostType
      <4>3. ASSUME NEW m \in Members, Hand(r, m)
            PROVE  post[r].at = "hand" /\ post'[r].at = "hand" /\ post'[r].wake = post[r].wake
        <5>1. /\ post[r].at = "hand"
              /\ \/ post' = [post EXCEPT ![r].mid = m]
                 \/ post' = [post EXCEPT ![r].left = @ \ {m}]
          BY <4>3 DEF Hand
        <5>2. post'[r] \in {[post[r] EXCEPT !.mid = m], [post[r] EXCEPT !.left = @ \ {m}]}
          BY <1>0, <2>1, <5>1 DEF PostTyped
        <5>3. QED
          BY <4>1, <5>1, <5>2 DEF PostType
      <4>4. CASE Record(r)
        BY <1>0, <2>1, <4>1, <4>4 DEF Record, PostTyped, PostType
      <4>5. CASE Finish(r)
        BY <1>0, <2>1, <4>5 DEF Finish, PostTyped, NoPost
      <4>6. QED
        BY <2>0, <2>3, <4>2, <4>3, <4>4, <4>5
    <3>4. \A q \in Rows : Undecided(q)
      BY <3>1, <3>2, <3>3 DEF Undecided
    <3>5. QED
      BY <2>1, <3>4, UndecidedKeeps DEF sweeps
  <2>4. QED
    BY <2>2, <2>3
<1>4. ASSUME NEW m \in Members, Turn(m)
      PROVE  RowIsWider' /\ DebtsAreJust'
  <2>1. UNCHANGED <<timeline, sweeps>>
    BY <1>4 DEF Turn, Start, Trigger, StopEarly, Break, Persist, Resume, Stop, fanout
  <2>2. \/ UNCHANGED post
        \/ post' = [post EXCEPT ![hook[m].row] = [NoPost EXCEPT !.at = "cut"]]
    BY <1>4 DEF Turn, Start, Trigger, StopEarly, Break, Persist, Resume, Stop, fanout
  <2>3. \A r \in Rows : post'[r] = post[r] \/ post'[r].at = "cut"
    BY <1>0, <2>2 DEF PostTyped, NoPost
  <2>4. Rows' = Rows /\ \A r \in Rows : Undecided(r)
    BY <2>1, <2>3 DEF Undecided, Rows
  <2>5. QED
    BY <2>1, <2>4, UndecidedKeeps DEF sweeps
<1>5. ASSUME NEW p \in Posters, Hook(p)
      PROVE  RowIsWider' /\ DebtsAreJust'
  <2>1. CASE Say(p)
    <3>1. PICK k \in Unposted(p) \cap (1..MaxSegs), fs \in SUBSET {"flood", "store"} :
            \/ Insert(said[hook[p].turn].by, hook[p].turn, Key(p), k, fs)
            \/ UNCHANGED fanout
      BY <2>1, SayFacts
    <3>2. /\ said[hook[p].turn].by \in Members \cup {Person} /\ hook[p].turn \in 0..MaxTurns
          /\ Key(p) \in {"none", "live", "msg"} /\ k \in 0..MaxSegs
      <4>1. hook[p].turn \in 1..MaxTurns
        BY <2>1, SayFacts
      <4>2. said[hook[p].turn].by \in Members \cup {Person}
        BY <4>1 DEF Typed, SaidTyped, SaidType
      <4>3. hook[p].turn \in 0..MaxTurns /\ k \in 0..MaxSegs
        BY <3>1, <4>1, BoundsAssumption
      <4>4. QED
        BY <4>2, <4>3 DEF Key
    <3>3. UNCHANGED sweeps
      BY <2>1, SayFacts
    <3>4. QED
      BY <1>1, <3>1, <3>2, <3>3, InsertKeeps DEF fanout
  <2>2. CASE Rekey(p)
    <3>1. UNCHANGED <<post, sweeps>>
      BY <2>2 DEF Rekey
    <3>2. Rows' = Rows /\ \A r \in Rows : timeline'[r].wake = timeline[r].wake
      <4>1. \/ timeline' = [r \in Rows |-> IF r \in Posted(hook[p].turn, "live")
                                           THEN [timeline[r] EXCEPT !.key = "msg"] ELSE timeline[r]]
            \/ UNCHANGED timeline
        BY <2>2 DEF Rekey
      <4>2. \A r \in Rows : [timeline[r] EXCEPT !.key = "msg"].wake = timeline[r].wake
        BY <1>0, RowFacts DEF RowType
      <4>3. QED
        BY <4>1, <4>2 DEF Rows
    <3>3. \A r \in Rows : Undecided(r)
      BY <3>1, <3>2 DEF Undecided
    <3>4. QED
      BY <3>1, <3>2, <3>3, UndecidedKeeps DEF sweeps
  <2>3. CASE Stamp(p)
    BY <1>1, <2>3 DEF Stamp, fanout
  <2>4. QED
    BY <1>5, <2>1, <2>2, <2>3 DEF Hook
<1>6. CASE Sweep
  <2>1. CASE SweepRows
    <3>1. boot' = "rows" /\ owed' = Missing /\ UNCHANGED <<timeline, post>>
      BY <2>1 DEF SweepRows, fanout
    <3>2. Rows' = Rows /\ RowIsWider'
      BY <3>1 DEF RowIsWider, Rows, Others
    <3>3. ASSUME NEW o \in Missing, o.wakes
          PROVE  ~timeline[o.row].quiet /\ o.to \in timeline[o.row].wake
      <4>1. PICK x \in {y \in Rows \X Members : y[2] \in Unreached(y[1])} :
              o = [row |-> x[1], to |-> x[2], given |-> FALSE,
                   wakes |-> ~timeline[x[1]].quiet /\ x[2] \in timeline[x[1]].wake]
        BY DEF Missing
      <4>2. o.row = x[1] /\ o.to = x[2]
        BY <4>1
      <4>3. ~timeline[x[1]].quiet /\ x[2] \in timeline[x[1]].wake
        BY <3>3, <4>1
      <4>4. QED
        BY <4>2, <4>3
    <3>4. DebtsAreJust'
      BY <3>1, <3>3 DEF DebtsAreJust
    <3>5. QED
      BY <3>2, <3>4
  <2>2. CASE ~SweepRows
    <3>1. /\ UNCHANGED post
          /\ UNCHANGED timeline \/ \E o \in owed : timeline' = [timeline EXCEPT ![o.row].to = @ \cup {o.to}]
      BY <1>6, <2>2 DEF Sweep, SweepTurn, BootHand, BootRecord, Booted, fanout
    <3>2. /\ owed' # {} => owed # {} /\ boot' = boot
          /\ \A o \in owed' : \E u \in owed : o.row = u.row /\ o.to = u.to /\ o.wakes = u.wakes
      <4>1. ASSUME NEW m \in Members, SweepTurn(m)
            PROVE  owed' = owed /\ boot' = boot
        BY <4>1 DEF SweepTurn
      <4>2. ASSUME NEW o \in owed, BootHand(o)
            PROVE  boot' = boot /\ owed' \subseteq owed \cup {[o EXCEPT !.given = TRUE]}
        BY <4>2 DEF BootHand
      <4>3. \A o \in owed : LET g == [o EXCEPT !.given = TRUE]
                            IN g.row = o.row /\ g.to = o.to /\ g.wakes = o.wakes
        BY DEF Typed, BootTyped, DebtType
      <4>4. ASSUME NEW o \in owed, BootRecord(o)
            PROVE  boot' = boot /\ owed' \subseteq owed
        BY <4>4 DEF BootRecord
      <4>5. CASE Booted
        BY <4>5 DEF Booted
      <4>6. QED
        BY <1>6, <2>2, <4>1, <4>2, <4>3, <4>4, <4>5 DEF Sweep
    <3>3. Rows' = Rows /\ \A r \in Rows : timeline'[r].wake = timeline[r].wake
      <4>1. CASE UNCHANGED timeline
        BY <4>1 DEF Rows
      <4>2. ASSUME NEW o \in owed, timeline' = [timeline EXCEPT ![o.row].to = @ \cup {o.to}]
            PROVE  Rows' = Rows /\ \A r \in Rows : timeline'[r].wake = timeline[r].wake
        <5>1. timeline[o.row] \in RowType
          BY <1>0, RowFacts
        <5>2. [timeline[o.row] EXCEPT !.to = @ \cup {o.to}].wake = timeline[o.row].wake
          BY <5>1 DEF RowType
        <5>3. QED
          BY <4>2, <5>2 DEF Rows
      <4>3. QED
        BY <3>1, <4>1, <4>2
    <3>4. \A r \in Rows : Undecided(r)
      BY <3>1, <3>3 DEF Undecided
    <3>5. QED
      BY <3>2, <3>3, <3>4, UndecidedKeeps
  <2>3. QED
    BY <2>1, <2>2
<1>7. CASE Crash
  <2>1. \A r \in Rows : post'[r].at = "none"
    BY <1>0, <1>7 DEF Crash, PostTyped, NoPost
  <2>2. Rows' = Rows /\ owed' = {}
    BY <1>7 DEF Crash, Rows
  <2>3. QED
    BY <2>1, <2>2 DEF RowIsWider, DebtsAreJust
<1>8. CASE UNCHANGED vars
  BY <1>1, <1>8 DEF vars, fanout
<1>9. QED
  BY <1>2, <1>3, <1>4, <1>5, <1>6, <1>7, <1>8 DEF Next

\* What a step hands out.
Rightly ==
  \A m \in Members : \A i \in DOMAIN handed'[m] \ DOMAIN handed[m] :
    LET given == handed'[m][i]
        row   == timeline[given.row]
    IN given.woke =>
         ~row.quiet /\ (m \in row.wake \/ (boot = "rows" /\ post[given.row].at # "none"))

LEMMA GiveRightly ==
  ASSUME Typed, NEW m \in Members, NEW r \in Rows, NEW wakes \in BOOLEAN, Give(m, r, wakes),
         wakes => /\ ~timeline[r].quiet
                  /\ m \in timeline[r].wake \/ (boot = "rows" /\ post[r].at # "none")
  PROVE  Rightly
<1> DEFINE g == [row |-> r, woke |-> wakes]
<1>1. handed \in [Members -> Seq(GiftType)] /\ g \in GiftType
  BY DEF Typed, SeatTyped, GiftType
<1>2. handed' = [handed EXCEPT ![m] = Append(@, g)]
  BY DEF Give
<1> SUFFICES ASSUME NEW x \in Members, NEW i \in DOMAIN handed'[x] \ DOMAIN handed[x],
                    handed'[x][i].woke
             PROVE  LET row == timeline[handed'[x][i].row]
                    IN ~row.quiet /\ (x \in row.wake \/ (boot = "rows" /\ post[handed'[x][i].row].at # "none"))
  BY DEF Rightly
<1>3. x = m
  BY <1>1, <1>2
<1>4. /\ DOMAIN handed[m] = 1..Len(handed[m]) /\ Len(handed[m]) \in Nat
      /\ DOMAIN handed'[m] = 1..(Len(handed[m]) + 1)
      /\ handed'[m][Len(handed[m]) + 1] = g
  <2>1. handed[m] \in Seq(GiftType) /\ handed'[m] = Append(handed[m], g)
    BY <1>1, <1>2
  <2> HIDE DEF g
  <2>2. QED
    BY <1>1, <2>1, AppendProperties, LenProperties
<1>5. i = Len(handed[m]) + 1
  BY <1>3, <1>4
<1>6. handed'[x][i] = g
  BY <1>3, <1>4, <1>5
<1>7. g.row = r /\ (g.woke => wakes)
  OBVIOUS
<1>8. handed'[x][i].row = r /\ wakes
  <2> HIDE DEF g
  <2> QED BY <1>6, <1>7
<1>9. QED
  BY <1>3, <1>8

LEMMA HandedRightly ==
  ASSUME Typed, RowIsWider, DebtsAreJust, [Next]_vars
  PROVE  Rightly
<1>1. CASE UNCHANGED handed
  BY <1>1 DEF Rightly
<1>2. ASSUME NEW r \in Rows, NEW m \in Members, Hand(r, m)
      PROVE  Rightly
  <2>1. post[r].at = "hand" /\ (UNCHANGED handed \/ Give(m, r, Wakes(r, m)))
    BY <1>2 DEF Hand, seats
  <2>2. Wakes(r, m) \in BOOLEAN /\ (Wakes(r, m) => ~timeline[r].quiet /\ m \in timeline[r].wake)
    BY <2>1 DEF Wakes, RowIsWider
  <2>3. QED
    BY <1>1, <2>1, <2>2, GiveRightly
<1>3. ASSUME NEW o \in owed, BootHand(o)
      PROVE  Rightly
  <2>1. UNCHANGED handed \/ Give(o.to, o.row, o.wakes)
    BY <1>3 DEF BootHand, seats
  <2>2. o.to \in Members /\ o.row \in Rows /\ o.wakes \in BOOLEAN
    BY DEF Typed, BootTyped, DebtType
  <2>3. o.wakes => /\ ~timeline[o.row].quiet
                   /\ o.to \in timeline[o.row].wake \/ (boot = "rows" /\ post[o.row].at # "none")
    BY DEF DebtsAreJust
  <2>4. QED
    BY <1>1, <2>1, <2>2, <2>3, GiveRightly
<1>4. CASE Speak
  BY <1>1, <1>4 DEF Speak, seats
<1>5. ASSUME NEW r \in Rows, Route(r) \/ Go(r) \/ Record(r) \/ Finish(r)
      PROVE  Rightly
  BY <1>1, <1>5 DEF Route, Go, Record, Finish, seats
<1>6. ASSUME NEW m \in Members, Turn(m)
      PROVE  UNCHANGED handed
  BY <1>6 DEF Turn, Start, Trigger, StopEarly, Break, Persist, Resume, Stop, seats
<1>7. ASSUME NEW p \in Posters, Hook(p)
      PROVE  UNCHANGED handed
  BY <1>7 DEF Hook, Say, Rekey, Stamp, seats
<1>8. CASE (\E m \in Members : SweepTurn(m)) \/ SweepRows \/ (\E o \in owed : BootRecord(o)) \/ Booted
  BY <1>1, <1>8 DEF SweepTurn, SweepRows, BootRecord, Booted, seats
<1>9. CASE Crash \/ UNCHANGED vars
  BY <1>1, <1>9 DEF Crash, vars, seats
<1>10. QED
  BY <1>1, <1>2, <1>3, <1>4, <1>5, <1>6, <1>7, <1>8, <1>9 DEF Next, FanOut, Sweep

\* A post starts a turn only where its row says to, and never when it is quiet: neither
\* a late, a lost nor a repeated stamp, nor the sweep of a restart, wakes a seat that was
\* passed over (fanout.py, _was_routed_away).
THEOREM NoneWokenWrongly == Spec => PassedOverSleeps
<1> DEFINE IInv == Typed /\ RowIsWider /\ DebtsAreJust
<1>1. Init => IInv
  BY TypedInit, WakesInit
<1>2. IInv /\ [Next]_vars => IInv'
  BY TypedStep, WakesStep
<1>3. IInv /\ [Next]_vars => [Rightly]_vars
  BY HandedRightly
<1>4. QED
  BY <1>1, <1>2, <1>3, PTL DEF Spec, PassedOverSleeps, Rightly

-----------------------------------------------------------------------------
(* What a turn says                                                        *)

LEMMA SpentGrows ==
  ASSUME Typed, [Next]_vars
  PROVE  \A f \in Faults : spent'[f] = 0 => spent[f] = 0
<1>1. CASE UNCHANGED spent
  BY <1>1
<1>2. ASSUME NEW fs, Spend(fs)
      PROVE  \A f \in Faults : spent'[f] = 0 => spent[f] = 0
  BY <1>2, Spending DEF Typed
<1>3. CASE Speak
  BY <1>2, <1>3 DEF Speak
<1>4. CASE FanOut
  BY <1>1, <1>2, <1>4 DEF FanOut, Route, Go, Hand, Record, Finish
<1>5. ASSUME NEW m \in Members, Turn(m)
      PROVE  UNCHANGED spent \/ Spend({"stop"}) \/ Spend({"store"})
  BY <1>5 DEF Turn, Start, Trigger, StopEarly, Break, Persist, Resume, Stop
<1>6. ASSUME NEW p \in Posters, Hook(p)
      PROVE  \A f \in Faults : spent'[f] = 0 => spent[f] = 0
  <2>1. CASE Say(p)
    <3>1. \E fs : Spend(fs)
      BY <2>1, SayFacts
    <3>2. QED
      BY <1>2, <3>1
  <2>2. CASE Rekey(p) \/ Stamp(p)
    BY <1>1, <1>2, <2>2 DEF Rekey, Stamp
  <2>3. QED
    BY <1>6, <2>1, <2>2 DEF Hook
<1>7. CASE Sweep
  BY <1>1, <1>2, <1>7 DEF Sweep, SweepTurn, SweepRows, BootHand, BootRecord, Booted
<1>8. CASE Crash
  BY <1>2, <1>8 DEF Crash
<1>9. CASE UNCHANGED vars
  BY <1>1, <1>9 DEF vars
<1>10. QED
  BY <1>1, <1>2, <1>3, <1>4, <1>5, <1>6, <1>7, <1>8, <1>9 DEF Next

\* The turns begin one after the other, and none is persisted before it has begun.
TurnsInOrder ==
  /\ \E c \in 0..MaxTurns : \A n \in 1..MaxTurns : said[n].by # Person <=> n <= c
  /\ \A n \in 1..MaxTurns : said[n].by = Person => said[n].saved = "no"
\* A seat runs its own turns, and only what is persisted is swept.
HooksOwn ==
  \A p \in Posters :
    /\ p \in Members /\ hook[p].at # "idle" => said[hook[p].turn].by = p
    /\ hook[p].at \in {"start", "run", "break"} =>
         p \in Members /\ said[hook[p].turn].saved = "no"
    /\ hook[p].at \in {"saved", "close"} => said[hook[p].turn].saved # "no"
\* What is posted under a turn's message is posted after it is persisted.
RowsOwn ==
  \A r \in Rows : timeline[r].turn # 0 =>
    /\ timeline[r].key \in {"live", "msg"}
    /\ timeline[r].key = "msg" => said[timeline[r].turn].saved # "no"
\* At the end of a turn all it said before is posted under its message.
EndIsPointed ==
  Calm({"rekey"}) =>
    \A p \in Posters : hook[p].at = "close" =>
      \A r \in Rows : timeline[r].turn = hook[p].turn => timeline[r].key # "live"

Turned == TurnsInOrder /\ HooksOwn /\ RowsOwn /\ EndIsPointed /\ SaidOnce

LEMMA TurnedInit == Init => Turned
<1> SUFFICES ASSUME Init PROVE Turned
  OBVIOUS
<1>1. Rows = {} /\ \A p \in Posters : hook[p].at = "idle"
  BY DEF Init, Rows, NoHook
<1>2. \A n \in 1..MaxTurns : said[n].by = Person /\ said[n].saved = "no"
  BY DEF Init, Unsaid
<1>3. TurnsInOrder
  <2>1. 0 \in 0..MaxTurns /\ \A n \in 1..MaxTurns : ~(n <= 0)
    BY BoundsAssumption
  <2>2. QED
    BY <1>2, <2>1 DEF TurnsInOrder
<1>4. QED
  BY <1>1, <1>3 DEF Turned, HooksOwn, RowsOwn, EndIsPointed, SaidOnce

LEMMA CalmBefore ==
  ASSUME Typed, [Next]_vars, Calm({"rekey"})'
  PROVE  Calm({"rekey"})
<1>1. spent'["rekey"] = 0 /\ "rekey" \in Faults
  BY DEF Calm, Faults
<1>2. QED
  BY <1>1, SpentGrows DEF Calm

LEMMA RowTurns ==
  ASSUME Typed
  PROVE  /\ \A r \in Rows : timeline[r].turn # 0 => timeline[r].turn \in 1..MaxTurns
         /\ \A p \in Posters : hook[p].at # "idle" => hook[p].turn \in 1..MaxTurns
<1>1. \A r \in Rows : timeline[r].turn \in 0..MaxTurns
  BY RowFacts DEF Typed, RowType
<1>2. \A p \in Posters : hook[p].turn \in 0..MaxTurns /\ (hook[p].at # "idle" => hook[p].turn # 0)
  BY DEF Typed, HookTyped, HookType
<1>3. QED
  BY <1>1, <1>2, BoundsAssumption

\* A step that says nothing.
LEMMA SilentKeeps ==
  ASSUME Typed, [Next]_vars, Turned, TurnsInOrder', HooksOwn', UNCHANGED timeline,
         \A n \in 1..MaxTurns : said[n].saved # "no" => said'[n].saved # "no",
         \A p \in Posters : hook'[p].at = "close" =>
           hook[p].at = "close" /\ hook'[p].turn = hook[p].turn
  PROVE  Turned'
<1>1. Rows' = Rows
  BY DEF Rows
<1>2. RowsOwn'
  BY <1>1, RowTurns DEF Turned, RowsOwn
<1>3. EndIsPointed'
  BY <1>1, CalmBefore DEF Turned, EndIsPointed
<1>4. SaidOnce'
  BY <1>1, CalmBefore DEF Turned, SaidOnce
<1>5. QED
  BY <1>2, <1>3, <1>4 DEF Turned

\* A step that leaves the turns alone, and what they said.
LEMMA ApartKeeps ==
  ASSUME Typed, [Next]_vars, Turned, UNCHANGED turns,
         \A r \in Rows' : \/ r \in Rows /\ timeline'[r].key = timeline[r].key
                          \/ timeline'[r].turn = 0
  PROVE  Turned'
<1>1. /\ hook' = hook /\ said' = said
      /\ \A r \in Rows : SameRow(r)
  BY RowsStep DEF turns
<1>2. \A r \in Rows' : timeline'[r].turn # 0 =>
        /\ r \in Rows /\ timeline'[r].key = timeline[r].key
        /\ timeline'[r].turn = timeline[r].turn /\ timeline'[r].seg = timeline[r].seg
  BY <1>1 DEF SameRow
<1>3. TurnsInOrder' /\ HooksOwn'
  BY <1>1 DEF Turned, TurnsInOrder, HooksOwn
<1>4. RowsOwn'
  BY <1>1, <1>2 DEF Turned, RowsOwn
<1>5. EndIsPointed'
  <2>1. \A p \in Posters : hook[p].at = "close" => hook[p].turn # 0
    BY RowTurns, BoundsAssumption
  <2>2. QED
    BY <1>1, <1>2, <2>1, CalmBefore DEF Turned, EndIsPointed
<1>6. SaidOnce'
  BY <1>2, CalmBefore DEF Turned, SaidOnce
<1>7. QED
  BY <1>3, <1>4, <1>5, <1>6 DEF Turned

\* Said anew: the row is not in the room, under either key.
LEMMA SayKeeps ==
  ASSUME Typed, [Next]_vars, Turned, NEW p \in Posters, Say(p)
  PROVE  Turned'
<1> DEFINE n == hook[p].turn
           s == Len(timeline) + 1
<1>0. /\ UNCHANGED said /\ n \in 1..MaxTurns /\ hook[p].at \in {"break", "close"}
      /\ hook[p] \in HookType /\ hook \in [Posters -> HookType]
      /\ \A r \in Rows : SameRow(r)
  BY SayFacts, RowsStep DEF Typed, HookTyped
<1>1. PICK k \in Unposted(p) \cap (1..MaxSegs), fs \in SUBSET {"flood", "store"} :
        \/ /\ Insert(said[n].by, n, Key(p), k, fs)
           /\ hook' = IF "store" \in fs THEN Ended(p) ELSE [hook EXCEPT ![p].row = s]
        \/ hook' = Ended(p) /\ UNCHANGED fanout
  BY SayFacts
<1>2. TurnsInOrder'
  BY <1>0 DEF Turned, TurnsInOrder
\* The turn of a hook stays, and an end that was not begun does not begin.
<1>6. /\ hook' \in {Ended(p), [hook EXCEPT ![p].row = s]}
      /\ \A q \in Posters : /\ hook'[q].turn = hook[q].turn
                            /\ \/ hook'[q].at = hook[q].at
                               \/ hook[q].at = "break" /\ hook'[q].at = "run"
  <2>1. hook' \in {Ended(p), [hook EXCEPT ![p].row = s]}
    BY <1>1
  <2>2. CASE hook' = Ended(p)
    BY <1>0, <2>2 DEF Ended, HookType
  <2>3. CASE hook' = [hook EXCEPT ![p].row = s]
    BY <1>0, <2>3 DEF HookType
  <2>4. QED
    BY <2>1, <2>2, <2>3
<1>3. CASE Insert(said[n].by, n, Key(p), k, fs)
  <2>1. /\ said[n].by \in Members \cup {Person} /\ n \in 0..MaxTurns
        /\ Key(p) \in {"none", "live", "msg"} /\ k \in 0..MaxSegs /\ RoomTyped /\ PostTyped
    <3>1. said[n].by \in Members \cup {Person}
      BY <1>0 DEF Typed, SaidTyped, SaidType
    <3>2. n \in 0..MaxTurns /\ k \in 0..MaxSegs
      BY <1>0, <1>1, BoundsAssumption
    <3>3. QED
      BY <3>1, <3>2 DEF Key, Typed
  <2>2. /\ Rows' = Rows \cup {s} /\ s \notin Rows /\ \A r \in Rows : timeline'[r] = timeline[r]
    <3> HIDE DEF n
    <3> QED BY <1>3, <2>1, InsertFacts
  <2>3. timeline'[s].turn = n /\ timeline'[s].key = Key(p) /\ timeline'[s].seg = k
    <3>1. timeline' = Append(timeline, NewRow(said[n].by, n, Key(p), k, fs))
      BY <1>3 DEF Insert, NewRow
    <3>2. timeline \in Seq(RowType)
      BY <2>1 DEF RoomTyped
    <3>3. timeline'[s] = NewRow(said[n].by, n, Key(p), k, fs)
      BY <3>1, <3>2
    <3>4. QED
      BY <3>3 DEF NewRow
  <2>4. \A q \in Posters : /\ hook'[q].turn = hook[q].turn
                           /\ hook'[q].at = "close" => hook[q].at = "close"
    BY <1>6
  <2>5. HooksOwn'
    BY <1>0, <1>6 DEF Turned, HooksOwn
  <2>6. /\ Key(p) = "live" => said[n].saved = "no"
        /\ Key(p) = "msg" => hook[p].at = "close" /\ said[n].saved # "no"
        /\ Key(p) \in {"live", "msg"}
    BY <1>0 DEF Turned, HooksOwn, Key
  <2>7. RowsOwn'
    <3>1. \A r \in Rows : timeline[r].turn # 0 =>
            /\ timeline[r].key \in {"live", "msg"}
            /\ timeline[r].key = "msg" => said[timeline[r].turn].saved # "no"
      BY DEF Turned, RowsOwn
    <3>2. QED
      <4> HIDE DEF n, s
      <4> QED BY <1>0, <2>2, <2>3, <2>6, <3>1 DEF RowsOwn
  <2>8. EndIsPointed'
    <3> SUFFICES ASSUME Calm({"rekey"})', NEW q \in Posters, hook'[q].at = "close",
                        NEW r \in Rows', timeline'[r].turn = hook'[q].turn
                 PROVE  timeline'[r].key # "live"
      BY DEF EndIsPointed
    <3>1. CASE r \in Rows
      BY <2>2, <2>4, <3>1, CalmBefore DEF Turned, EndIsPointed
    <3>2. CASE r = s
      <4>1. hook[q].turn = n /\ hook[q].at = "close" /\ said[n].saved # "no"
        BY <2>3, <2>4, <3>2 DEF Turned, HooksOwn
      <4>2. QED
        BY <2>3, <2>6, <3>2, <4>1
    <3>3. QED
      BY <2>2, <3>1, <3>2
  <2>9. SaidOnce'
    <3>1. ASSUME Calm({"rekey"}), NEW r \in Rows, timeline[r].turn = n
          PROVE  timeline[r].seg # k
      <4>1. timeline[r].key \in {"live", "msg"} /\ n # 0
        BY <1>0, <3>1, BoundsAssumption DEF Turned, RowsOwn
      <4>2. timeline[r].key = Key(p)
        <5>1. CASE Key(p) = "live"
          BY <1>0, <2>6, <3>1, <4>1, <5>1 DEF Turned, RowsOwn
        <5>2. CASE Key(p) = "msg"
          BY <2>6, <3>1, <4>1, <5>2 DEF Turned, EndIsPointed
        <5>3. QED
          BY <2>6, <5>1, <5>2
      <4>3. r \in Posted(n, Key(p))
        BY <3>1, <4>2 DEF Posted
      <4>4. k \notin {timeline[q].seg : q \in Posted(n, Key(p))}
        BY <1>1 DEF Unposted
      <4>5. QED
        BY <4>3, <4>4
    <3> SUFFICES ASSUME Calm({"rekey"})', NEW r \in Rows', NEW q \in Rows',
                        timeline'[r].turn # 0, timeline'[r].turn = timeline'[q].turn,
                        timeline'[r].seg = timeline'[q].seg
                 PROVE  r = q
      BY DEF SaidOnce
    <3>2. Calm({"rekey"})
      BY CalmBefore
    <3>3. CASE r \in Rows /\ q \in Rows
      BY <2>2, <3>2, <3>3 DEF Turned, SaidOnce
    <3>4. CASE r = s /\ q \in Rows
      BY <2>2, <2>3, <3>1, <3>2, <3>4
    <3>5. CASE r \in Rows /\ q = s
      BY <2>2, <2>3, <3>1, <3>2, <3>5
    <3>6. QED
      BY <2>2, <3>3, <3>4, <3>5
  <2>10. QED
    BY <1>2, <2>5, <2>7, <2>8, <2>9 DEF Turned
<1>4. CASE UNCHANGED fanout
  <2>1. \A q \in Posters : hook'[q].at = "close" =>
          hook[q].at = "close" /\ hook'[q].turn = hook[q].turn
    BY <1>6
  <2>2. HooksOwn'
    BY <1>0, <1>6 DEF Turned, HooksOwn
  <2>3. QED
    BY <1>0, <1>2, <1>4, <2>1, <2>2, SilentKeeps DEF fanout
<1>5. QED
  BY <1>1, <1>3, <1>4

LEMMA RekeyKeeps ==
  ASSUME Typed, [Next]_vars, Turned, NEW p \in Posters, Rekey(p)
  PROVE  Turned'
<1> DEFINE n == hook[p].turn
<1>0. /\ hook[p].at = "saved" /\ UNCHANGED <<chain, said>>
      /\ hook' = [hook EXCEPT ![p].at = "close", ![p].row = 0]
      /\ hook \in [Posters -> HookType] /\ n \in 1..MaxTurns
      /\ \/ timeline' = [r \in Rows |-> IF r \in Posted(n, "live")
                                        THEN [timeline[r] EXCEPT !.key = "msg"] ELSE timeline[r]]
         \/ Spend({"rekey"}) /\ UNCHANGED timeline
  BY RowTurns DEF Rekey, Typed, HookTyped
<1>1. /\ \A q \in Posters : q # p => hook'[q] = hook[q]
      /\ hook'[p].turn = n /\ hook'[p].at = "close"
  BY <1>0 DEF HookType
<1>2. TurnsInOrder' /\ HooksOwn'
  BY <1>0, <1>1 DEF Turned, TurnsInOrder, HooksOwn
<1>3. said[n].saved # "no"
  BY <1>0 DEF Turned, HooksOwn
<1>4. CASE timeline' = [r \in Rows |-> IF r \in Posted(n, "live")
                                       THEN [timeline[r] EXCEPT !.key = "msg"] ELSE timeline[r]]
  <2>1. /\ Rows' = Rows /\ \A r \in Rows : SameRow(r)
    BY <1>4, RowsStep DEF Rows
  <2>2. \A r \in Rows : IF timeline[r].turn = n /\ timeline[r].key = "live"
                        THEN timeline'[r].key = "msg" ELSE timeline'[r].key = timeline[r].key
    <3>1. \A r \in Rows : [timeline[r] EXCEPT !.key = "msg"].key = "msg"
      BY RowFacts DEF Typed, RowType
    <3>2. QED
      BY <1>4, <3>1 DEF Posted
  <2>3. RowsOwn'
    BY <1>0, <1>3, <2>1, <2>2 DEF Turned, RowsOwn, SameRow
  <2>4. EndIsPointed'
    <3> SUFFICES ASSUME Calm({"rekey"})', NEW q \in Posters, hook'[q].at = "close",
                        NEW r \in Rows, timeline'[r].turn = hook'[q].turn
                 PROVE  timeline'[r].key # "live"
      BY <2>1 DEF EndIsPointed
    <3>1. timeline'[r].turn = timeline[r].turn
      BY <2>1 DEF SameRow
    <3>2. CASE timeline[r].turn = n
      BY <2>2, <3>2
    <3>3. CASE timeline[r].turn # n
      <4>1. q # p /\ hook[q].at = "close" /\ timeline[r].turn = hook[q].turn
        BY <1>1, <3>1, <3>3
      <4>2. timeline[r].key # "live"
        BY <4>1, CalmBefore DEF Turned, EndIsPointed
      <4>3. QED
        BY <2>2, <3>3, <4>2
    <3>4. QED
      BY <3>2, <3>3
  <2>5. SaidOnce'
    BY <2>1, CalmBefore DEF Turned, SaidOnce, SameRow
  <2>6. QED
    BY <1>2, <2>3, <2>4, <2>5 DEF Turned
<1>5. CASE Spend({"rekey"}) /\ UNCHANGED timeline
  <2>1. ~Calm({"rekey"})'
    <3>1. spent'["rekey"] = spent["rekey"] + 1 /\ spent["rekey"] \in Nat
      BY <1>5 DEF Spend, Faults, Typed, SpentTyped
    <3>2. QED
      BY <3>1 DEF Calm
  <2>2. Rows' = Rows
    BY <1>5 DEF Rows
  <2>3. RowsOwn' /\ EndIsPointed' /\ SaidOnce'
    BY <1>0, <1>5, <2>1, <2>2 DEF Turned, RowsOwn, EndIsPointed, SaidOnce
  <2>4. QED
    BY <1>2, <2>3 DEF Turned
<1>6. QED
  BY <1>0, <1>4, <1>5

LEMMA StampKeeps ==
  ASSUME Typed, [Next]_vars, Turned, NEW p \in Posters, Stamp(p)
  PROVE  Turned'
<1> DEFINE n == hook[p].turn
<1>0. /\ hook[p].at = "close" /\ UNCHANGED timeline /\ hook' = [hook EXCEPT ![p] = NoHook]
      /\ said' = [said EXCEPT ![n].saved = "stamped"] \/ UNCHANGED said
      /\ hook \in [Posters -> HookType] /\ said \in [1..MaxTurns -> SaidType] /\ n \in 1..MaxTurns
      /\ said[n].saved # "no"
  BY RowTurns DEF Stamp, Typed, HookTyped, SaidTyped, fanout, Turned, HooksOwn
<1>1. /\ \A q \in Posters : q # p => hook'[q] = hook[q]
      /\ hook'[p].at = "idle"
  BY <1>0 DEF NoHook
<1>2. \A k \in 1..MaxTurns : /\ said'[k].by = said[k].by
                             /\ said'[k].saved = said[k].saved \/ (k = n /\ said'[k].saved = "stamped")
  <2> HIDE DEF n
  <2>1. /\ [said[n] EXCEPT !.saved = "stamped"].by = said[n].by
        /\ [said[n] EXCEPT !.saved = "stamped"].saved = "stamped"
    BY <1>0 DEF SaidType
  <2>2. said' = [said EXCEPT ![n] = [said[n] EXCEPT !.saved = "stamped"]] \/ UNCHANGED said
    BY <1>0
  <2>3. QED
    BY <1>0, <2>1, <2>2
<1>3. \A k \in 1..MaxTurns : said'[k].saved = "no" <=> said[k].saved = "no"
  BY <1>0, <1>2
<1>4. TurnsInOrder'
  BY <1>2, <1>3 DEF Turned, TurnsInOrder
<1>5. HooksOwn'
  BY <1>1, <1>2, <1>3, RowTurns DEF Turned, HooksOwn
<1>6. QED
  BY <1>0, <1>1, <1>3, <1>4, <1>5, SilentKeeps

LEMMA TurnKeeps ==
  ASSUME Typed, [Next]_vars, Turned, NEW m \in Members, Turn(m)
  PROVE  Turned'
<1>0. /\ UNCHANGED timeline /\ m \in Posters
      /\ hook \in [Posters -> HookType] /\ said \in [1..MaxTurns -> SaidType]
      /\ hook[m].at # "idle" => hook[m].turn \in 1..MaxTurns
  <2>1. UNCHANGED timeline
    BY DEF Turn, Start, Trigger, StopEarly, Break, Persist, Resume, Stop, fanout
  <2>2. m \in Posters
    BY DEF Posters
  <2>3. QED
    BY <2>1, <2>2, RowTurns DEF Typed, HookTyped, SaidTyped
<1>1. CASE Start(m)
  <2> DEFINE S == {t \in 1..MaxTurns : said[t].by # Person}
             n == Cardinality(S) + 1
  <2>1. /\ n <= MaxTurns /\ hook[m].at = "idle"
        /\ hook' = [hook EXCEPT ![m] = [NoHook EXCEPT !.at = "start", !.turn = n]]
        /\ said' = [said EXCEPT ![n].by = m]
    BY <1>1 DEF Start
  <2>2. PICK c \in 0..MaxTurns : \A t \in 1..MaxTurns : said[t].by # Person <=> t <= c
    BY DEF Turned, TurnsInOrder
  <2>3. S = 1..c
    BY <2>2, BoundsAssumption
  <2>4. n = c + 1 /\ c \in Nat
    <3>1. 1 \in Int /\ c \in Int /\ c >= 0
      BY <2>2, BoundsAssumption
    <3>2. Cardinality(1..c) = IF 1 > c THEN 0 ELSE c - 1 + 1
      BY <3>1, FS_Interval
    <3>3. Cardinality(1..c) = c
      BY <3>1, <3>2
    <3>4. QED
      <4> HIDE DEF S
      <4> QED BY <2>3, <3>1, <3>3
  <2> HIDE DEF n, S
  <2>5. n \in 1..MaxTurns /\ said[n].by = Person /\ said[n].saved = "no"
    <3>1. n \in 1..MaxTurns /\ ~(n <= c)
      BY <2>1, <2>4, BoundsAssumption
    <3>2. QED
      BY <2>2, <3>1 DEF Turned, TurnsInOrder
  <2>6. /\ \A q \in Posters : q # m => hook'[q] = hook[q]
        /\ hook'[m].at = "start" /\ hook'[m].turn = n
    BY <1>0, <2>1 DEF NoHook
  <2>7. /\ \A t \in 1..MaxTurns : t # n => said'[t] = said[t]
        /\ said'[n].by = m /\ said'[n].saved = "no"
    BY <1>0, <2>1, <2>5 DEF SaidType
  <2>8. TurnsInOrder'
    <3>1. m # Person
      BY RoomAssumption
    <3>2. \A t \in 1..MaxTurns : said'[t].by # Person <=> t <= n
      BY <2>2, <2>4, <2>5, <2>7, <3>1
    <3>3. n \in 0..MaxTurns
      BY <2>5, BoundsAssumption
    <3>4. QED
      BY <2>7, <3>1, <3>2, <3>3 DEF Turned, TurnsInOrder
  <2>9. HooksOwn'
    <3>1. ASSUME NEW q \in Posters, q # m, hook[q].at # "idle"
          PROVE  hook[q].turn \in 1..MaxTurns /\ hook[q].turn # n
      <4>1. hook[q].turn \in 1..MaxTurns /\ hook[q].at \in {"start", "run", "break", "saved", "close"}
        BY <1>0, <3>1, RowTurns DEF HookType
      <4>2. CASE q \in Members
        BY <2>5, <3>1, <4>1, <4>2, RoomAssumption DEF Turned, HooksOwn
      <4>3. CASE q \notin Members
        BY <2>5, <3>1, <4>1, <4>3 DEF Turned, HooksOwn
      <4>4. QED
        BY <4>1, <4>2, <4>3
    <3>2. \A q \in Posters : q # m => hook'[q] = hook[q] /\
            (hook[q].at # "idle" => said'[hook[q].turn] = said[hook[q].turn])
      BY <2>6, <2>7, <3>1
    <3>3. QED
      BY <2>6, <2>7, <3>2 DEF Turned, HooksOwn
  <2>10. \A q \in Posters : hook'[q].at = "close" => hook[q].at = "close" /\ hook'[q].turn = hook[q].turn
    BY <2>6
  <2>11. \A t \in 1..MaxTurns : said[t].saved # "no" => said'[t].saved # "no"
    BY <2>5, <2>7
  <2>12. QED
    BY <1>0, <2>8, <2>9, <2>10, <2>11, SilentKeeps
<1>2. CASE hook[m].at # "idle" /\ ~Start(m)
  <2> DEFINE n == hook[m].turn
  <2>0. n \in 1..MaxTurns /\ said[n].by = m /\ m # Person
    BY <1>0, <1>2, RoomAssumption DEF Turned, HooksOwn
  <2>1. /\ \A q \in Posters : q # m => hook'[q] = hook[q]
        /\ hook'[m].at # "close"
        /\ \/ hook'[m].at = "idle" /\ UNCHANGED said
           \/ /\ hook[m].at \in {"start", "run", "break"} /\ hook'[m].at \in {"run", "break"}
              /\ hook'[m].turn = n /\ \A k \in 1..MaxTurns : said'[k].saved = said[k].saved
           \/ /\ hook[m].at \in {"run", "break"} /\ hook'[m].at = "saved" /\ hook'[m].turn = n
              /\ said'[n].saved = "open" /\ \A k \in 1..MaxTurns : k # n => said'[k] = said[k]
        /\ \A k \in 1..MaxTurns : said'[k].by = said[k].by
    <3>1. CASE Trigger(m) \/ Resume(m)
      <4>1. /\ hook[m].at \in {"start", "break"} /\ UNCHANGED said
            /\ \/ hook' = [hook EXCEPT ![m].at = "run"]
               \/ hook' = [hook EXCEPT ![m].at = "run", ![m].row = 0]
        BY <3>1 DEF Trigger, Resume
      <4>2. /\ \A q \in Posters : q # m => hook'[q] = hook[q]
            /\ hook'[m].at = "run" /\ hook'[m].turn = n
        BY <1>0, <4>1 DEF HookType
      <4>3. QED
        BY <4>1, <4>2
    <3>2. CASE Break(m)
      <4>1. /\ hook[m].at = "run" /\ said' = [said EXCEPT ![n].segs = @ + 1]
            /\ hook' = [hook EXCEPT ![m].at = "break"]
        BY <3>2 DEF Break
      <4>2. /\ \A q \in Posters : q # m => hook'[q] = hook[q]
            /\ hook'[m].at = "break" /\ hook'[m].turn = n
        BY <1>0, <4>1 DEF HookType
      <4>3. \A k \in 1..MaxTurns : said'[k].saved = said[k].saved /\ said'[k].by = said[k].by
        BY <1>0, <4>1 DEF SaidType
      <4>4. QED
        BY <4>1, <4>2, <4>3
    <3>3. CASE Persist(m)
      <4>1. PICK tail \in 0..1 :
              /\ hook[m].at = "run" /\ said' = [said EXCEPT ![n].segs = @ + tail, ![n].saved = "open"]
              /\ hook' = [hook EXCEPT ![m].at = "saved"]
        BY <3>3 DEF Persist
      <4>2. /\ \A q \in Posters : q # m => hook'[q] = hook[q]
            /\ hook'[m].at = "saved" /\ hook'[m].turn = n
        BY <1>0, <4>1 DEF HookType
      <4>3. /\ \A k \in 1..MaxTurns : k # n => said'[k] = said[k]
            /\ said'[n].saved = "open" /\ said'[n].by = said[n].by
        BY <1>0, <2>0, <4>1 DEF SaidType
      <4>4. QED
        BY <4>1, <4>2, <4>3
    <3>4. CASE Stop(m)
      <4>1. \/ /\ hook[m].at \in {"run", "break"}
               /\ hook' = [hook EXCEPT ![m] = [@ EXCEPT !.at = "saved", !.row = 0, !.cut = TRUE]]
               /\ said' = [said EXCEPT ![n].saved = "open"]
            \/ hook' = [hook EXCEPT ![m] = NoHook] /\ UNCHANGED said
        BY <3>4 DEF Stop
      <4>2. CASE /\ hook[m].at \in {"run", "break"}
                 /\ hook' = [hook EXCEPT ![m] = [@ EXCEPT !.at = "saved", !.row = 0, !.cut = TRUE]]
                 /\ said' = [said EXCEPT ![n].saved = "open"]
        <5>1. /\ \A q \in Posters : q # m => hook'[q] = hook[q]
              /\ hook'[m].at = "saved" /\ hook'[m].turn = n
          BY <1>0, <4>2 DEF HookType
        <5>2. /\ \A k \in 1..MaxTurns : k # n => said'[k] = said[k]
              /\ said'[n].saved = "open" /\ said'[n].by = said[n].by
          BY <1>0, <2>0, <4>2 DEF SaidType
        <5>3. QED
          BY <4>2, <5>1, <5>2
      <4>3. CASE hook' = [hook EXCEPT ![m] = NoHook] /\ UNCHANGED said
        BY <1>0, <4>3 DEF NoHook
      <4>4. QED
        BY <4>1, <4>2, <4>3
    <3>6. CASE StopEarly(m)
      <4>1. hook' = [hook EXCEPT ![m] = NoHook] /\ UNCHANGED said
        BY <3>6 DEF StopEarly
      <4>2. QED
        BY <1>0, <4>1 DEF NoHook
    <3>5. QED
      BY <1>2, <3>1, <3>2, <3>3, <3>4, <3>6 DEF Turn
  <2> HIDE DEF n
  <2>2. TurnsInOrder'
    <3>1. \A k \in 1..MaxTurns : k # n => said'[k].saved = said[k].saved
      BY <2>1
    <3>2. QED
      BY <2>0, <2>1, <3>1 DEF Turned, TurnsInOrder
  <2>3. \A k \in 1..MaxTurns : said[k].saved # "no" => said'[k].saved # "no"
    BY <2>1
  <2>4. HooksOwn'
    <3>1. ASSUME NEW q \in Posters, q # m
          PROVE  /\ q \in Members /\ hook'[q].at # "idle" => said'[hook'[q].turn].by = q
                 /\ hook'[q].at \in {"start", "run", "break"} =>
                      q \in Members /\ said'[hook'[q].turn].saved = "no"
                 /\ hook'[q].at \in {"saved", "close"} => said'[hook'[q].turn].saved # "no"
      <4>1. hook'[q] = hook[q] /\ (hook[q].at # "idle" => hook[q].turn \in 1..MaxTurns)
        BY <2>1, <3>1, RowTurns
      <4>2. q \in Members /\ hook[q].at # "idle" => hook[q].turn # n
        BY <2>0, <3>1 DEF Turned, HooksOwn
      <4>3. \A k \in 1..MaxTurns : k # n => said'[k].saved = said[k].saved
        BY <2>1
      <4>4. QED
        BY <2>1, <2>3, <4>1, <4>2, <4>3 DEF Turned, HooksOwn
    <3>2. /\ hook'[m].at # "idle" => said'[hook'[m].turn].by = m
          /\ hook'[m].at \in {"start", "run", "break"} => said'[hook'[m].turn].saved = "no"
          /\ hook'[m].at \in {"saved", "close"} => said'[hook'[m].turn].saved # "no"
      <4>1. hook[m].at \in {"start", "run", "break"} => said[n].saved = "no"
        BY <1>0 DEF Turned, HooksOwn, n
      <4>2. QED
        BY <2>0, <2>1, <4>1
    <3>3. QED
      BY <3>1, <3>2 DEF HooksOwn
  <2>5. \A q \in Posters : hook'[q].at = "close" => hook[q].at = "close" /\ hook'[q].turn = hook[q].turn
    BY <2>1
  <2>6. QED
    BY <1>0, <2>2, <2>3, <2>4, <2>5, SilentKeeps
<1>3. QED
  BY <1>1, <1>2 DEF Turn, Trigger, StopEarly, Break, Persist, Resume, Stop

LEMMA SweepKeeps ==
  ASSUME Typed, [Next]_vars, Turned, Sweep
  PROVE  Turned'
<1>0. hook \in [Posters -> HookType] /\ Boot \in Posters /\ Boot \notin Members
  BY RoomAssumption DEF Typed, HookTyped, Posters
<1>1. ASSUME NEW m \in Members, SweepTurn(m)
      PROVE  Turned'
  <2> DEFINE saved  == {n \in 1..MaxTurns : said[n].by = m /\ said[n].saved # "no"}
             newest == CHOOSE n \in saved : \A k \in saved : k <= n
  <2>1. /\ UNCHANGED <<timeline, said>>
        /\ \/ saved # {} /\ hook' = [hook EXCEPT ![Boot] = [NoHook EXCEPT !.at = "saved", !.turn = newest]]
           \/ UNCHANGED hook
    BY <1>1 DEF SweepTurn, fanout
  <2>2. TurnsInOrder'
    BY <2>1 DEF Turned, TurnsInOrder
  <2>3. HooksOwn' /\ \A q \in Posters : hook'[q].at = "close" =>
                                         hook[q].at = "close" /\ hook'[q].turn = hook[q].turn
    <3>1. CASE UNCHANGED hook
      BY <2>1, <3>1 DEF Turned, HooksOwn
    <3>2. CASE saved # {} /\ hook' = [hook EXCEPT ![Boot] = [NoHook EXCEPT !.at = "saved", !.turn = newest]]
      <4>1. newest \in saved
        <5>1. saved \in SUBSET (1..MaxTurns)
          OBVIOUS
        <5>2. QED
          <6> HIDE DEF saved
          <6> QED BY <3>2, <5>1, NewestTurn
      <4>2. said[newest].saved # "no"
        BY <4>1
      <4> HIDE DEF newest, saved
      <4>3. /\ \A q \in Posters : q # Boot => hook'[q] = hook[q]
            /\ hook'[Boot].at = "saved" /\ hook'[Boot].turn = newest
        BY <1>0, <3>2 DEF NoHook
      <4>4. QED
        BY <1>0, <2>1, <4>2, <4>3 DEF Turned, HooksOwn
    <3>3. QED
      BY <2>1, <3>1, <3>2
  <2>4. QED
    BY <2>1, <2>2, <2>3, SilentKeeps
<1>2. CASE SweepRows \/ (\E o \in owed : BootHand(o)) \/ Booted
  <2>1. UNCHANGED <<timeline, turns>>
    BY <1>2 DEF SweepRows, BootHand, Booted, fanout
  <2>2. \A r \in Rows' : r \in Rows /\ timeline'[r].key = timeline[r].key
    BY <2>1 DEF Rows
  <2>3. QED
    BY <2>1, <2>2, ApartKeeps
<1>3. ASSUME NEW o \in owed, BootRecord(o)
      PROVE  Turned'
  <2>1. /\ UNCHANGED turns
        /\ timeline' = [timeline EXCEPT ![o.row].to = @ \cup {o.to}] \/ UNCHANGED timeline
    BY <1>3 DEF BootRecord
  <2>2. timeline[o.row] \in RowType
    BY RowFacts DEF Typed, BootTyped, DebtType
  <2>3. [timeline[o.row] EXCEPT !.to = @ \cup {o.to}].key = timeline[o.row].key
    BY <2>2 DEF RowType
  <2>4. \A r \in Rows' : r \in Rows /\ timeline'[r].key = timeline[r].key
    BY <2>1, <2>3 DEF Rows
  <2>5. QED
    BY <2>1, <2>4, ApartKeeps
<1>4. QED
  BY <1>1, <1>2, <1>3 DEF Sweep

LEMMA TurnedStep ==
  ASSUME Typed, Turned, [Next]_vars
  PROVE  Turned'
<1>0. RoomTyped /\ PostTyped /\ \A r \in Rows : timeline[r] \in RowType
  BY RowFacts DEF Typed
<1>1. CASE Speak
  <2>1. PICK fs \in SUBSET {"flood", "store"} : UNCHANGED turns /\ Insert(Person, 0, "none", 0, fs)
    BY <1>1 DEF Speak
  <2>0. 0 \in 0..MaxTurns /\ 0 \in 0..MaxSegs
    BY BoundsAssumption
  <2>2. /\ Rows' = Rows \cup {Len(timeline) + 1} /\ \A r \in Rows : timeline'[r] = timeline[r]
    BY <1>0, <2>0, <2>1, InsertFacts
  <2>3. timeline'[Len(timeline) + 1].turn = 0
    <3> DEFINE new == NewRow(Person, 0, "none", 0, fs)
    <3>1. timeline' = Append(timeline, new)
      BY <2>1 DEF Insert, NewRow
    <3>2. timeline \in Seq(RowType)
      BY <1>0 DEF RoomTyped
    <3>3. timeline'[Len(timeline) + 1] = new
      <4> HIDE DEF new
      <4> QED BY <3>1, <3>2
    <3>4. new.turn = 0
      BY DEF NewRow
    <3>5. QED
      <4> HIDE DEF new
      <4> QED BY <3>3, <3>4
  <2>4. QED
    BY <2>1, <2>2, <2>3, ApartKeeps
<1>2. CASE FanOut
  <2>1. PICK r \in Rows : Route(r) \/ Go(r) \/ (\E m \in Members : Hand(r, m)) \/ Record(r) \/ Finish(r)
    BY <1>2 DEF FanOut
  <2>2. UNCHANGED turns
    BY <2>1 DEF Route, Go, Hand, Record, Finish
  <2>3. \/ UNCHANGED timeline
        \/ \E w : timeline' = [timeline EXCEPT ![r].wake = w]
        \/ \E w : timeline' = [timeline EXCEPT ![r].to = w]
    BY <2>1 DEF Route, Go, Hand, Record, Finish
  <2>4. \A w : /\ [timeline[r] EXCEPT !.wake = w].key = timeline[r].key
               /\ [timeline[r] EXCEPT !.to = w].key = timeline[r].key
    BY <1>0 DEF RowType
  <2>5. \A q \in Rows' : q \in Rows /\ timeline'[q].key = timeline[q].key
    BY <2>3, <2>4 DEF Rows
  <2>6. QED
    BY <2>2, <2>5, ApartKeeps
<1>3. ASSUME NEW m \in Members, Turn(m)
      PROVE  Turned'
  BY <1>3, TurnKeeps
<1>4. ASSUME NEW p \in Posters, Hook(p)
      PROVE  Turned'
  BY <1>4, SayKeeps, RekeyKeeps, StampKeeps DEF Hook
<1>5. CASE Sweep
  BY <1>5, SweepKeeps
<1>6. CASE Crash
  <2>1. UNCHANGED <<timeline, said>> /\ \A p \in Posters : hook'[p].at = "idle"
    BY <1>6 DEF Crash, NoHook
  <2>2. TurnsInOrder' /\ HooksOwn'
    BY <2>1 DEF Turned, TurnsInOrder, HooksOwn
  <2>3. QED
    BY <2>1, <2>2, SilentKeeps
<1>7. CASE UNCHANGED vars
  <2>1. UNCHANGED <<timeline, turns>>
    BY <1>7 DEF vars, fanout
  <2>2. \A r \in Rows' : r \in Rows /\ timeline'[r].key = timeline[r].key
    BY <2>1 DEF Rows
  <2>3. QED
    BY <2>1, <2>2, ApartKeeps
<1>8. QED
  BY <1>1, <1>2, <1>3, <1>4, <1>5, <1>6, <1>7 DEF Next

\* Nothing a turn says is in the room twice, not when its hook is stopped, fails or
\* runs again beside the sweep of a restart, as long as re-pointing works (hooks.py).
THEOREM NothingSaidTwice == Spec => []SaidOnce
<1>1. Typed /\ Turned => SaidOnce
  BY DEF Turned
<1>2. Init => Typed /\ Turned
  BY TypedInit, TurnedInit
<1>3. Typed /\ Turned /\ [Next]_vars => (Typed /\ Turned)'
  BY TypedStep, TurnedStep
<1>4. QED
  BY <1>1, <1>2, <1>3, PTL DEF Spec

-----------------------------------------------------------------------------
(* The order of delivery                                                   *)

Undisturbed == Calm({"stop", "timeout", "crash"})

\* A post that is through has been handed out, or was never given a place.
Through(r) == post[r].at \in {"done", "cut"}

\* A post waits for the one before it that has a place, unless all before it are through.
InLine ==
  /\ boot = "up" /\ owed = {}
  /\ \A r \in Rows : post[r].at \in {"route", "wait", "hand", "done", "cut"}
  /\ chain # 0 => post[chain].at # "cut" /\ \A q \in Rows : q > chain => post[q].at = "cut"
  /\ chain = 0 => \A r \in Rows : Through(r)
  /\ \A r \in Rows : post[r].at \in {"route", "wait"} =>
       \/ /\ post[r].prev \in Rows /\ post[post[r].prev].at # "cut"
          /\ \A q \in Rows : post[r].prev < q /\ q < r => post[q].at = "cut"
       \/ post[r].prev = 0 /\ \A q \in Rows : q < r => Through(q)
  /\ \A r, q \in Rows : post[r].at \in {"hand", "done"} /\ q < r => Through(q)
\* A seat is handed a post that hands itself out, once.
HandedOnce ==
  /\ \A m \in Members : \A i \in DOMAIN handed[m] : post[handed[m][i].row].at \in {"hand", "done"}
  /\ \A r \in Rows, m \in Members :
       post[r].at = "hand" /\ m \in post[r].left /\ post[r].mid # m =>
         \A i \in DOMAIN handed[m] : handed[m][i].row # r
Increasing ==
  \A m \in Members : \A i, j \in DOMAIN handed[m] : i < j => handed[m][i].row < handed[m][j].row

Queued == Undisturbed => InLine /\ HandedOnce /\ Increasing

LEMMA UndisturbedBefore ==
  ASSUME Typed, [Next]_vars, Undisturbed'
  PROVE  Undisturbed
<1>1. \A f \in {"stop", "timeout", "crash"} : f \in Faults
  BY DEF Faults
<1>2. QED
  BY <1>1, SpentGrows DEF Undisturbed, Calm

LEMMA Disturbed ==
  ASSUME SpentTyped, NEW f \in {"stop", "timeout", "crash"}, Spend({f})
  PROVE  ~Undisturbed'
<1>1. f \in Faults
  BY DEF Faults
<1>2. spent[f] \in Nat
  BY <1>1 DEF SpentTyped
<1>3. spent'[f] = spent[f] + 1
  BY <1>1 DEF Spend
<1>4. QED
  BY <1>2, <1>3 DEF Undisturbed, Calm

LEMMA QueuedInit == Init => Queued
<1> SUFFICES ASSUME Init PROVE Queued
  OBVIOUS
<1>1. Rows = {} /\ boot = "up" /\ owed = {} /\ chain = 0
  BY DEF Init, Rows
<1>2. \A m \in Members : DOMAIN handed[m] = {}
  BY DEF Init
<1>3. QED
  BY <1>1, <1>2 DEF Queued, InLine, HandedOnce, Increasing

LEMMA HandedRows ==
  ASSUME Typed, NEW m \in Members, NEW i \in DOMAIN handed[m]
  PROVE  handed[m][i].row \in Rows
<1>1. handed[m] \in Seq(GiftType)
  BY DEF Typed, SeatTyped
<1>2. Len(handed[m]) \in Nat /\ i \in 1..Len(handed[m])
  BY <1>1, LenProperties
<1>3. handed[m][i] \in GiftType
  BY <1>1, <1>2, ElementOfSeq
<1>4. QED
  BY <1>3 DEF GiftType

\* A step that neither makes, moves nor hands out a post.
LEMMA ElsewhereKeeps ==
  ASSUME Typed, [Next]_vars, Queued, UNCHANGED <<chain, post, handed>>, Rows' = Rows,
         Undisturbed => boot' = "up" /\ owed' = {}
  PROVE  Queued'
<1> SUFFICES ASSUME Undisturbed' PROVE InLine' /\ HandedOnce' /\ Increasing'
  BY DEF Queued
<1>1. Undisturbed /\ InLine /\ HandedOnce /\ Increasing
  BY UndisturbedBefore DEF Queued
<1>2. \A r : Through(r)' = Through(r)
  BY DEF Through
<1>3. InLine'
  BY <1>1, <1>2 DEF InLine
<1>4. HandedOnce' /\ Increasing'
  BY <1>1 DEF HandedOnce, Increasing
<1>5. QED
  BY <1>3, <1>4

\* A new post waits for the newest, or all are through.
LEMMA PlaceKeeps ==
  ASSUME Typed, [Next]_vars, Queued, UNCHANGED <<handed, boot, owed>>,
         NEW by \in Members \cup {Person}, NEW n \in 0..MaxTurns,
         NEW key \in {"none", "live", "msg"}, NEW k \in 0..MaxSegs, NEW fs \in SUBSET {"flood", "store"},
         Insert(by, n, key, k, fs)
  PROVE  Queued'
<1> DEFINE s == Len(timeline) + 1
<1> SUFFICES ASSUME Undisturbed' PROVE InLine' /\ HandedOnce' /\ Increasing'
  BY DEF Queued
<1>0. RoomTyped /\ PostTyped /\ Len(timeline) \in Nat /\ Rows = 1..Len(timeline)
      /\ Rows \subseteq 1..MaxRows /\ MaxRows \in Nat
  BY RowFacts DEF Typed
<1>1. Undisturbed /\ InLine /\ HandedOnce /\ Increasing
  BY UndisturbedBefore DEF Queued
<1>2. /\ Rows' = Rows \cup {s} /\ s \notin Rows
      /\ \A r \in Rows : post'[r] = post[r]
  <2>1. Rows' = Rows \cup {s} /\ s \notin Rows
    BY <1>0, InsertFacts
  <2>2. \A r \in 0..MaxRows : r # s => post'[r] = post[r]
    BY <1>0, InsertFacts
  <2>3. \A r \in Rows : r \in 0..MaxRows /\ r # s
    BY <1>0, <2>1
  <2>4. QED
    BY <2>1, <2>2, <2>3
<1>3. \/ post'[s].at = "cut" /\ chain' = chain
      \/ post'[s].at \in {"wait", "route"} /\ post'[s].prev = chain /\ chain' = s
  BY <1>0, NewPost
<1>4. /\ \A r \in Rows : r \in Nat /\ r < s /\ (Through(r)' <=> Through(r))
      /\ chain \in {0} \cup Rows /\ s \in Nat /\ 0 \notin Rows
  <2>1. \A r \in Rows : Through(r)' <=> Through(r)
    BY <1>2 DEF Through
  <2>2. QED
    BY <1>0, <2>1 DEF RoomTyped
<1>5. InLine'
  <2> HIDE DEF s
  <2>1. \A r \in Rows' : post'[r].at \in {"route", "wait", "hand", "done", "cut"}
    BY <1>1, <1>2, <1>3 DEF InLine
  <2>2. chain' # 0 => post'[chain'].at # "cut" /\ \A q \in Rows' : q > chain' => post'[q].at = "cut"
    <3>1. CASE post'[s].at = "cut" /\ chain' = chain
      BY <1>1, <1>2, <1>4, <3>1 DEF InLine
    <3>2. CASE post'[s].at \in {"wait", "route"} /\ chain' = s
      <4>1. \A q \in Rows' : ~(q > s)
        BY <1>2, <1>4
      <4>2. QED
        BY <3>2, <4>1
    <3>3. QED
      BY <1>3, <3>1, <3>2
  <2>3. chain' = 0 => \A r \in Rows' : Through(r)'
    <3>1. SUFFICES ASSUME chain' = 0 PROVE \A r \in Rows' : Through(r)'
      OBVIOUS
    <3>2. post'[s].at = "cut" /\ chain = 0
      <4>1. s # 0
        BY <1>0 DEF s
      <4>2. QED
        BY <1>3, <3>1, <4>1
    <3>3. \A r \in Rows : Through(r)
      BY <1>1, <3>2 DEF InLine
    <3>4. \A r \in Rows' : r = s => Through(r)'
      BY <3>2 DEF Through
    <3>5. QED
      BY <1>2, <1>4, <3>3, <3>4
  <2>4. ASSUME NEW r \in Rows', post'[r].at \in {"route", "wait"}
        PROVE  \/ /\ post'[r].prev \in Rows' /\ post'[post'[r].prev].at # "cut"
                  /\ \A q \in Rows' : post'[r].prev < q /\ q < r => post'[q].at = "cut"
               \/ post'[r].prev = 0 /\ \A q \in Rows' : q < r => Through(q)'
    <3>1. CASE r \in Rows
      <4>1. \A q \in Rows' : q < r => q \in Rows
        BY <1>2, <1>4, <3>1
      <4>2. post[r].at \in {"route", "wait"} /\ post'[r].prev = post[r].prev
        BY <1>2, <2>4, <3>1
      <4>3. QED
        BY <1>1, <1>2, <1>4, <3>1, <4>1, <4>2 DEF InLine
    <3>2. CASE r = s
      <4>1. \A q \in Rows' : q < s => q \in Rows
        BY <1>2, <1>4
      <4>2. post'[r].prev = chain
        BY <1>3, <2>4, <3>2
      <4>3. CASE chain = 0
        BY <1>1, <1>4, <3>2, <4>1, <4>2, <4>3 DEF InLine
      <4>4. CASE chain # 0
        <5>1. chain \in Rows /\ post'[chain].at # "cut"
          BY <1>1, <1>2, <1>4, <4>4 DEF InLine
        <5>2. \A q \in Rows : q > chain => post'[q].at = "cut"
          BY <1>1, <1>2, <4>4 DEF InLine
        <5>3. \A q \in Rows : chain < q <=> q > chain
          BY <1>4, <5>1
        <5>4. QED
          BY <1>2, <3>2, <4>1, <4>2, <5>1, <5>2, <5>3
      <4>5. QED
        BY <4>3, <4>4
    <3>3. QED
      BY <1>2, <3>1, <3>2
  <2>5. ASSUME NEW r \in Rows', NEW q \in Rows', post'[r].at \in {"hand", "done"}, q < r
        PROVE  Through(q)'
    <3>1. r \in Rows
      BY <1>2, <1>3, <2>5
    <3>2. q \in Rows
      BY <1>2, <1>4, <2>5, <3>1
    <3>3. QED
      BY <1>1, <1>2, <1>4, <2>5, <3>1, <3>2 DEF InLine
  <2>6. QED
    BY <1>1, <2>1, <2>2, <2>3, <2>4, <2>5 DEF InLine
<1>6. HandedOnce'
  <2> HIDE DEF s
  <2>1. \A m \in Members : \A i \in DOMAIN handed[m] : handed[m][i].row \in Rows
    BY HandedRows
  <2>2. QED
    BY <1>1, <1>2, <1>3, <2>1 DEF HandedOnce
<1>7. QED
  BY <1>1, <1>5, <1>6 DEF Increasing

LEMMA GiveFacts ==
  ASSUME Typed, NEW m \in Members, NEW r \in Rows, NEW wakes \in BOOLEAN, Give(m, r, wakes)
  PROVE  /\ \A x \in Members : x # m => handed'[x] = handed[x]
         /\ Len(handed[m]) \in Nat /\ DOMAIN handed[m] = 1..Len(handed[m])
         /\ DOMAIN handed'[m] = 1..(Len(handed[m]) + 1)
         /\ \A i \in DOMAIN handed[m] : handed'[m][i] = handed[m][i]
         /\ handed'[m][Len(handed[m]) + 1].row = r
<1> DEFINE g == [row |-> r, woke |-> wakes]
<1>1. handed \in [Members -> Seq(GiftType)] /\ g \in GiftType
  BY DEF Typed, SeatTyped, GiftType
<1>2. handed' = [handed EXCEPT ![m] = Append(@, g)]
  BY DEF Give
<1>3. handed[m] \in Seq(GiftType) /\ handed'[m] = Append(handed[m], g)
  BY <1>1, <1>2
<1>4. g.row = r
  OBVIOUS
<1> HIDE DEF g
<1>5. Len(handed[m]) \in Nat /\ DOMAIN handed[m] = 1..Len(handed[m])
  BY <1>3, LenProperties
<1>6. /\ DOMAIN handed'[m] = 1..(Len(handed[m]) + 1)
      /\ \A i \in DOMAIN handed[m] : handed'[m][i] = handed[m][i]
      /\ handed'[m][Len(handed[m]) + 1] = g
  BY <1>1, <1>3, <1>5, AppendProperties, LenProperties
<1>7. QED
  BY <1>1, <1>2, <1>4, <1>5, <1>6

LEMMA LineKeeps ==
  ASSUME Typed, [Next]_vars, Queued, FanOut
  PROVE  Queued'
<1> SUFFICES ASSUME Undisturbed' PROVE InLine' /\ HandedOnce' /\ Increasing'
  BY DEF Queued
<1>0. PICK r \in Rows : Route(r) \/ Go(r) \/ (\E m \in Members : Hand(r, m)) \/ Record(r) \/ Finish(r)
  BY DEF FanOut
<1>1. Undisturbed /\ InLine /\ HandedOnce /\ Increasing
  BY UndisturbedBefore DEF Queued
<1>2. /\ RoomTyped /\ PostTyped /\ Len(timeline) \in Nat /\ Rows = 1..Len(timeline)
      /\ Rows \subseteq 0..MaxRows /\ r \in 0..MaxRows /\ post[r] \in PostType
      /\ \A m \in Members : \A i \in DOMAIN handed[m] : handed[m][i].row \in Rows
  <2>1. /\ RoomTyped /\ PostTyped /\ Len(timeline) \in Nat /\ Rows = 1..Len(timeline)
        /\ Rows \subseteq 1..MaxRows /\ MaxRows \in Nat
    BY RowFacts DEF Typed
  <2>2. Rows \subseteq 0..MaxRows
    BY <2>1
  <2>3. \A m \in Members : \A i \in DOMAIN handed[m] : handed[m][i].row \in Rows
    BY HandedRows
  <2>4. QED
    BY <2>1, <2>2, <2>3 DEF PostTyped
<1>3. /\ UNCHANGED sweeps /\ Rows' = Rows /\ Len(timeline') = Len(timeline)
      /\ \A q \in Rows : q # r => post'[q] = post[q]
  <2>1. UNCHANGED sweeps
    BY <1>0 DEF Route, Go, Hand, Record, Finish
  <2>2. \/ UNCHANGED timeline
        \/ \E w : timeline' = [timeline EXCEPT ![r].wake = w]
        \/ \E w : timeline' = [timeline EXCEPT ![r].to = w]
    BY <1>0 DEF Route, Go, Hand, Record, Finish
  <2>3. Rows' = Rows /\ Len(timeline') = Len(timeline)
    <3>1. timeline \in Seq(RowType)
      BY <1>2 DEF RoomTyped
    <3>2. CASE UNCHANGED timeline
      BY <3>2 DEF Rows
    <3>3. ASSUME NEW x, timeline' = [timeline EXCEPT ![r] = x]
          PROVE  Rows' = Rows /\ Len(timeline') = Len(timeline)
      <4>1. DOMAIN timeline' = DOMAIN timeline
        BY <3>3
      <4>2. timeline' \in [1..Len(timeline) -> {timeline[q] : q \in Rows} \cup {x}]
        BY <1>2, <3>1, <3>3 DEF Rows
      <4>3. timeline' \in Seq({timeline[q] : q \in Rows} \cup {x})
        BY <1>2, <4>2, SeqDef
      <4>4. Len(timeline') = Len(timeline)
        BY <1>2, <4>2, <4>3, LenProperties
      <4>5. QED
        BY <4>1, <4>4 DEF Rows
    <3>4. QED
      BY <2>2, <3>2, <3>3
  <2>4. \A q \in Rows : q # r => post'[q] = post[q]
    BY <1>0, <1>2 DEF Route, Go, Hand, Record, Finish, PostTyped
  <2>5. QED
    BY <2>1, <2>3, <2>4
\* What is left of the line after a step that keeps its order.
<1>4. ASSUME UNCHANGED chain,
             post'[r].at \in {"route", "wait", "hand"}, post[r].at \in {"route", "wait", "hand"},
             post'[r].at \in {"route", "wait"} =>
               post[r].at \in {"route", "wait"} /\ post'[r].prev = post[r].prev,
             post'[r].at = "hand" => \A q \in Rows : q < r => Through(q)
      PROVE  InLine'
  <2>1. \A q \in Rows : (Through(q)' <=> Through(q)) /\ (post'[q].at = "cut" <=> post[q].at = "cut")
    <3> TAKE q \in Rows
    <3>1. CASE q = r
      BY <1>4, <3>1 DEF Through
    <3>2. CASE q # r
      BY <1>3, <3>2 DEF Through
    <3>3. QED
      BY <3>1, <3>2
  <2>2. chain # 0
    BY <1>1, <1>4 DEF InLine, Through
  <2>7. chain \in Rows
    BY <1>2, <2>2 DEF RoomTyped
  <2>3. ASSUME NEW q \in Rows, post'[q].at \in {"route", "wait"}
        PROVE  \/ /\ post'[q].prev \in Rows /\ post'[post'[q].prev].at # "cut"
                  /\ \A t \in Rows : post'[q].prev < t /\ t < q => post'[t].at = "cut"
               \/ post'[q].prev = 0 /\ \A t \in Rows : t < q => Through(t)'
    <3>1. post[q].at \in {"route", "wait"} /\ post'[q].prev = post[q].prev
      BY <1>3, <1>4, <2>3
    <3>2. QED
      BY <1>1, <2>1, <3>1 DEF InLine
  <2>4. ASSUME NEW q \in Rows, NEW t \in Rows, post'[q].at \in {"hand", "done"}, t < q
        PROVE  Through(t)'
    <3>1. CASE q = r
      BY <1>4, <2>1, <2>4, <3>1
    <3>2. CASE q # r
      BY <1>1, <1>3, <2>1, <2>4, <3>2 DEF InLine
    <3>3. QED
      BY <3>1, <3>2
  <2>5. \A q \in Rows : post'[q].at \in {"route", "wait", "hand", "done", "cut"}
    BY <1>1, <1>3, <1>4 DEF InLine
  <2>6. QED
    BY <1>1, <1>3, <1>4, <2>1, <2>2, <2>3, <2>4, <2>5, <2>7 DEF InLine, sweeps
<1>5. CASE Route(r)
  <2>1. /\ UNCHANGED <<chain, handed>> /\ post[r].at = "route"
        /\ post'[r].at = "wait" /\ post'[r].prev = post[r].prev
    <3>1. PICK woken \in SUBSET Others(r) :
            post' = [post EXCEPT ![r].at = "wait", ![r].wake = woken]
      BY <1>5 DEF Route
    <3>2. UNCHANGED <<chain, handed>> /\ post[r].at = "route"
      BY <1>5 DEF Route, seats
    <3>3. QED
      BY <1>2, <3>1, <3>2 DEF PostTyped, PostType
  <2>2. InLine'
    BY <1>4, <2>1
  <2>3. HandedOnce' /\ Increasing'
    BY <1>1, <1>2, <1>3, <2>1 DEF HandedOnce, Increasing
  <2>4. QED
    BY <2>2, <2>3
<1>6. CASE Go(r)
  <2>1. /\ UNCHANGED <<chain, handed>> /\ post[r].at = "wait" /\ post'[r].at = "hand"
    BY <1>2, <1>6 DEF Go, PostTyped, PostType, seats
  <2>2. Over(post[r].prev)
    <3>1. Over(post[r].prev) \/ Spend({"timeout"})
      BY <1>6 DEF Go
    <3>2. QED
      BY <3>1, Disturbed DEF Typed
  <2>3. ASSUME NEW q \in Rows, q < r
        PROVE  Through(q)
    <3>1. CASE post[r].prev = 0
      BY <1>1, <1>2, <2>1, <2>3, <3>1 DEF InLine
    <3>2. CASE post[r].prev # 0
      <4> DEFINE p == post[r].prev
      <4>1. /\ p \in Rows /\ post[p].at # "cut"
            /\ \A t \in Rows : p < t /\ t < r => post[t].at = "cut"
        BY <1>1, <2>1, <3>2 DEF InLine
      <4>2. post[p].at = "done"
        BY <1>1, <2>2, <4>1 DEF Over, InLine
      <4>3. q = p \/ q < p \/ p < q
        BY <1>2, <4>1
      <4>4. QED
        BY <1>1, <2>3, <4>1, <4>2, <4>3 DEF InLine, Through
    <3>3. QED
      BY <3>1, <3>2
  <2>4. InLine'
    BY <1>4, <2>1, <2>3
  <2>5. HandedOnce' /\ Increasing'
    <3>1. \A m \in Members : \A i \in DOMAIN handed[m] : handed[m][i].row # r
      BY <1>1, <2>1 DEF HandedOnce
    <3>2. QED
      BY <1>1, <1>2, <1>3, <2>1, <3>1 DEF HandedOnce, Increasing
  <2>6. QED
    BY <2>4, <2>5
<1>7. ASSUME NEW m \in Members, Hand(r, m)
      PROVE  InLine' /\ HandedOnce' /\ Increasing'
  <2>1. /\ UNCHANGED chain /\ post[r].at = "hand" /\ post[r].mid = Person /\ m \in post[r].left
        /\ \/ Give(m, r, Wakes(r, m)) /\ post' = [post EXCEPT ![r].mid = m]
           \/ UNCHANGED handed /\ post' = [post EXCEPT ![r].left = @ \ {m}]
    <3>1. post[r].left # {} /\ m = NextOf(post[r].left)
      BY <1>7 DEF Hand
    <3>2. m \in post[r].left
      BY <3>1 DEF NextOf
    <3>3. QED
      BY <1>7, <3>2 DEF Hand, seats
  <2>2. \A x \in Members : x # Person
    BY RoomAssumption
  <2>3. ASSUME NEW q \in Rows, q < r
        PROVE  Through(q)
    BY <1>1, <2>1, <2>3 DEF InLine
  <2>4. CASE UNCHANGED handed /\ post' = [post EXCEPT ![r].left = @ \ {m}]
    <3>1. /\ post'[r].at = "hand" /\ post'[r].left = post[r].left \ {m}
          /\ post'[r].mid = post[r].mid
      BY <1>2, <2>1, <2>4 DEF PostTyped, PostType
    <3>2. InLine'
      BY <1>4, <2>1, <2>3, <3>1
    <3>3. HandedOnce' /\ Increasing'
      BY <1>1, <1>2, <1>3, <2>1, <2>4, <3>1 DEF HandedOnce, Increasing
    <3>4. QED
      BY <3>2, <3>3
  <2>5. CASE Give(m, r, Wakes(r, m)) /\ post' = [post EXCEPT ![r].mid = m]
    <3>1. post'[r].at = "hand" /\ post'[r].left = post[r].left /\ post'[r].mid = m
      BY <1>2, <2>1, <2>5 DEF PostTyped, PostType
    <3>2. InLine'
      BY <1>4, <2>1, <2>3, <3>1
    <3> DEFINE l == Len(handed[m])
    <3>3. /\ \A x \in Members : x # m => handed'[x] = handed[x]
          /\ l \in Nat /\ DOMAIN handed[m] = 1..l /\ DOMAIN handed'[m] = 1..(l + 1)
          /\ \A i \in DOMAIN handed[m] : handed'[m][i] = handed[m][i]
          /\ handed'[m][l + 1].row = r
      <4>1. Wakes(r, m) \in BOOLEAN
        BY DEF Wakes
      <4>2. QED
        BY <2>5, <4>1, GiveFacts
    <3> HIDE DEF l
    <3>4. ASSUME NEW i \in DOMAIN handed[m]
          PROVE  handed[m][i].row < r
      <4>1. handed[m][i].row # r /\ handed[m][i].row \in Rows
            /\ post[handed[m][i].row].at \in {"hand", "done"}
        BY <1>1, <1>2, <2>1, <2>2 DEF HandedOnce
      <4>2. ~(r < handed[m][i].row)
        BY <1>1, <2>1, <4>1 DEF InLine, Through
      <4>3. QED
        BY <1>2, <4>1, <4>2
    <3>5. Increasing'
      <4> SUFFICES ASSUME NEW x \in Members, NEW i \in DOMAIN handed'[x], NEW j \in DOMAIN handed'[x],
                          i < j
                   PROVE  handed'[x][i].row < handed'[x][j].row
        BY DEF Increasing
      <4>1. CASE x # m
        BY <1>1, <3>3, <4>1 DEF Increasing
      <4>2. CASE x = m
        <5>1. i \in DOMAIN handed[m] /\ (j \in DOMAIN handed[m] \/ j = l + 1)
          BY <3>3, <4>2
        <5>2. QED
          BY <1>1, <3>3, <3>4, <4>2, <5>1 DEF Increasing
      <4>3. QED
        BY <4>1, <4>2
    <3>6. HandedOnce'
      <4>1. \A i \in DOMAIN handed'[m] : i \in DOMAIN handed[m] \/ i = l + 1
        BY <3>3
      <4>2. \A q \in Rows : post[q].at \in {"hand", "done"} => post'[q].at \in {"hand", "done"}
        BY <1>3, <3>1
      <4>3. ASSUME NEW x \in Members, NEW i \in DOMAIN handed'[x]
            PROVE  post'[handed'[x][i].row].at \in {"hand", "done"}
        <5>1. CASE x # m
          BY <1>1, <1>2, <3>3, <4>2, <5>1 DEF HandedOnce
        <5>2. CASE x = m /\ i \in DOMAIN handed[m]
          BY <1>1, <1>2, <3>3, <4>2, <5>2 DEF HandedOnce
        <5>3. CASE x = m /\ i = l + 1
          BY <3>1, <3>3, <5>3
        <5>4. QED
          BY <4>1, <5>1, <5>2, <5>3
      <4>4. ASSUME NEW q \in Rows, NEW x \in Members, post'[q].at = "hand", x \in post'[q].left,
                   post'[q].mid # x, NEW i \in DOMAIN handed'[x]
            PROVE  handed'[x][i].row # q
        <5>1. CASE q = r
          <6>1. x # m /\ post[r].mid # x
            BY <2>1, <2>2, <3>1, <4>4, <5>1
          <6>2. QED
            BY <1>1, <2>1, <3>1, <3>3, <4>4, <5>1, <6>1 DEF HandedOnce
        <5>2. CASE q # r
          <6>1. post[q].at = "hand" /\ x \in post[q].left /\ post[q].mid # x
            BY <1>3, <4>4, <5>2
          <6>2. CASE x # m
            BY <1>1, <3>3, <4>4, <6>1, <6>2 DEF HandedOnce
          <6>3. CASE x = m
            BY <1>1, <3>3, <4>1, <4>4, <5>2, <6>1, <6>3 DEF HandedOnce
          <6>4. QED
            BY <6>2, <6>3
        <5>3. QED
          BY <5>1, <5>2
      <4>5. QED
        BY <1>3, <4>3, <4>4 DEF HandedOnce
    <3>7. QED
      BY <3>2, <3>5, <3>6
  <2>6. QED
    BY <2>1, <2>4, <2>5
<1>8. CASE Record(r)
  <2>1. /\ UNCHANGED <<chain, handed>> /\ post[r].at = "hand" /\ post'[r].at = "hand"
        /\ post'[r].left = post[r].left \ {post[r].mid} /\ post'[r].mid = Person
    <3>1. /\ UNCHANGED <<chain, handed>> /\ post[r].at = "hand"
          /\ post' = [post EXCEPT ![r].left = @ \ {post[r].mid}, ![r].mid = Person]
      BY <1>8 DEF Record, seats
    <3>2. QED
      BY <1>2, <3>1 DEF PostTyped, PostType
  <2>2. InLine'
    <3>1. \A q \in Rows : q < r => Through(q)
      BY <1>1, <2>1 DEF InLine
    <3>2. QED
      BY <1>4, <2>1, <3>1
  <2>3. HandedOnce' /\ Increasing'
    <3>1. ASSUME NEW q \in Rows, NEW m \in Members, post'[q].at = "hand", m \in post'[q].left,
                 post'[q].mid # m
          PROVE  post[q].at = "hand" /\ m \in post[q].left /\ post[q].mid # m
      BY <1>3, <2>1, <3>1
    <3>2. QED
      BY <1>1, <1>2, <1>3, <2>1, <3>1 DEF HandedOnce, Increasing
  <2>4. QED
    BY <2>2, <2>3
<1>9. CASE Finish(r)
  <2>1. /\ UNCHANGED handed /\ post[r].at = "hand" /\ post'[r].at = "done"
        /\ chain' = IF chain = r THEN 0 ELSE chain
    BY <1>2, <1>9 DEF Finish, PostTyped, NoPost, seats
  <2>2. \A q \in Rows : q < r => Through(q)
    BY <1>1, <2>1 DEF InLine
  <2>3. /\ \A q \in Rows : Through(q) => Through(q)'
        /\ \A q \in Rows : post'[q].at = "cut" <=> post[q].at = "cut"
        /\ Through(r)'
    BY <1>3, <2>1 DEF Through
  <2>4. chain # 0 /\ chain \in Rows
    BY <1>1, <1>2, <2>1 DEF InLine, Through, RoomTyped
  <2>5. chain' = 0 => \A q \in Rows : Through(q)'
    <3> SUFFICES ASSUME chain' = 0, NEW q \in Rows PROVE Through(q)'
      OBVIOUS
    <3>1. r = chain
      BY <2>1, <2>4
    <3>2. q = r \/ q < r \/ q > r
      BY <1>2
    <3>3. q > r => Through(q)
      BY <1>1, <2>4, <3>1 DEF InLine, Through
    <3>4. QED
      BY <2>2, <2>3, <3>2, <3>3
  <2>6. InLine'
    <3>1. ASSUME NEW q \in Rows, NEW t \in Rows, post'[q].at \in {"hand", "done"}, t < q
          PROVE  Through(t)'
      <4>1. CASE q = r
        BY <2>2, <2>3, <3>1, <4>1
      <4>2. CASE q # r
        BY <1>1, <1>3, <2>3, <3>1, <4>2 DEF InLine
      <4>3. QED
        BY <4>1, <4>2
    <3>2. ASSUME NEW q \in Rows, post'[q].at \in {"route", "wait"}
          PROVE  \/ /\ post'[q].prev \in Rows /\ post'[post'[q].prev].at # "cut"
                    /\ \A t \in Rows : post'[q].prev < t /\ t < q => post'[t].at = "cut"
                 \/ post'[q].prev = 0 /\ \A t \in Rows : t < q => Through(t)'
      <4>1. q # r
        BY <2>1, <3>2
      <4>2. QED
        BY <1>1, <1>3, <2>3, <3>2, <4>1 DEF InLine
    <3>3. \A q \in Rows : post'[q].at \in {"route", "wait", "hand", "done", "cut"}
      BY <1>1, <1>3, <2>1 DEF InLine
    <3>4. chain' # 0 => post'[chain'].at # "cut" /\ \A q \in Rows : q > chain' => post'[q].at = "cut"
      BY <1>1, <2>1, <2>3, <2>4 DEF InLine
    <3>5. QED
      BY <1>1, <1>3, <2>5, <3>1, <3>2, <3>3, <3>4 DEF InLine, sweeps
  <2>7. HandedOnce' /\ Increasing'
    BY <1>1, <1>2, <1>3, <2>1 DEF HandedOnce, Increasing
  <2>8. QED
    BY <2>6, <2>7
<1>10. QED
  BY <1>0, <1>5, <1>6, <1>7, <1>8, <1>9

LEMMA QueuedStep ==
  ASSUME Typed, Queued, [Next]_vars
  PROVE  Queued'
<1>1. Undisturbed => boot = "up" /\ owed = {}
  BY DEF Queued, InLine
<1>2. CASE Speak
  <2>1. 0 \in 0..MaxTurns /\ 0 \in 0..MaxSegs
    BY BoundsAssumption
  <2>2. PICK fs \in SUBSET {"flood", "store"} :
          Insert(Person, 0, "none", 0, fs) /\ UNCHANGED <<handed, boot, owed>>
    BY <1>2 DEF Speak, seats, sweeps
  <2>3. QED
    BY <2>1, <2>2, PlaceKeeps
<1>3. CASE FanOut
  BY <1>3, LineKeeps
<1>4. ASSUME NEW m \in Members, Turn(m)
      PROVE  Queued'
  <2>1. CASE Stop(m) \/ StopEarly(m)
    <3>1. Spend({"stop"})
      BY <2>1 DEF Stop, StopEarly
    <3>2. QED
      BY <3>1, Disturbed DEF Typed, Queued
  <2>2. CASE ~Stop(m) /\ ~StopEarly(m)
    <3>1. UNCHANGED <<timeline, chain, post, handed, boot, owed>>
      BY <1>4, <2>2 DEF Turn, Start, Trigger, Break, Persist, Resume, fanout, seats, sweeps
    <3>2. QED
      BY <1>1, <3>1, ElsewhereKeeps DEF Rows
  <2>3. QED
    BY <2>1, <2>2
<1>5. ASSUME NEW p \in Posters, Hook(p)
      PROVE  Queued'
  <2>1. CASE Say(p)
    <3>1. PICK k \in Unposted(p) \cap (1..MaxSegs), fs \in SUBSET {"flood", "store"} :
            \/ Insert(said[hook[p].turn].by, hook[p].turn, Key(p), k, fs)
            \/ UNCHANGED fanout
      BY <2>1, SayFacts
    <3>2. /\ said[hook[p].turn].by \in Members \cup {Person} /\ hook[p].turn \in 0..MaxTurns
          /\ Key(p) \in {"none", "live", "msg"} /\ k \in 0..MaxSegs
      <4>1. hook[p].turn \in 1..MaxTurns
        BY <2>1, SayFacts
      <4>2. said[hook[p].turn].by \in Members \cup {Person}
        BY <4>1 DEF Typed, SaidTyped, SaidType
      <4>3. hook[p].turn \in 0..MaxTurns /\ k \in 0..MaxSegs
        BY <3>1, <4>1, BoundsAssumption
      <4>4. QED
        BY <4>2, <4>3 DEF Key
    <3>3. UNCHANGED <<handed, boot, owed>>
      BY <2>1, SayFacts DEF seats, sweeps
    <3>4. CASE UNCHANGED fanout
      BY <1>1, <3>3, <3>4, ElsewhereKeeps DEF Rows, fanout
    <3>5. QED
      BY <3>1, <3>2, <3>3, <3>4, PlaceKeeps
  <2>2. CASE Rekey(p)
    <3>1. UNCHANGED <<chain, post, handed, boot, owed>> /\ Rows' = Rows
      BY <2>2 DEF Rekey, seats, sweeps, Rows
    <3>2. QED
      BY <1>1, <3>1, ElsewhereKeeps
  <2>3. CASE Stamp(p)
    <3>1. UNCHANGED <<timeline, chain, post, handed, boot, owed>>
      BY <2>3 DEF Stamp, fanout, seats, sweeps
    <3>2. QED
      BY <1>1, <3>1, ElsewhereKeeps DEF Rows
  <2>4. QED
    BY <1>5, <2>1, <2>2, <2>3 DEF Hook
<1>6. CASE Sweep
  <2> SUFFICES ASSUME Undisturbed' PROVE FALSE
    BY DEF Queued
  <2>1. boot = "up" /\ owed = {}
    BY <1>1, UndisturbedBefore
  <2>2. QED
    BY <1>6, <2>1 DEF Sweep, SweepTurn, SweepRows, Booted
<1>7. CASE Crash
  <2>1. Spend({"crash"})
    BY <1>7 DEF Crash
  <2>2. QED
    BY <2>1, Disturbed DEF Typed, Queued
<1>8. CASE UNCHANGED vars
  <2>1. UNCHANGED <<timeline, chain, post, handed, boot, owed>>
    BY <1>8 DEF vars, fanout, seats, sweeps
  <2>2. QED
    BY <1>1, <2>1, ElsewhereKeeps DEF Rows
<1>9. QED
  BY <1>2, <1>3, <1>4, <1>5, <1>6, <1>7, <1>8 DEF Next

\* However long each post takes to classify and to hand out, every seat is handed the
\* posts in the order of the timeline, unless one is stopped or waited for in vain, or
\* the process dies (fanout.py, _delivery_chain).
THEOREM OrderKept == Spec => []HandedInOrder
<1>1. Typed /\ Queued => HandedInOrder
  BY DEF Queued, HandedInOrder, Increasing, Undisturbed
<1>2. Init => Typed /\ Queued
  BY TypedInit, QueuedInit
<1>3. Typed /\ Queued /\ [Next]_vars => (Typed /\ Queued)'
  BY TypedStep, QueuedStep
<1>4. QED
  BY <1>1, <1>2, <1>3, PTL DEF Spec

-----------------------------------------------------------------------------
(* Every post reaches every member                                         *)

\* Whom a post has not reached is still in its hands, or owed by the sweep.
Reached(r) ==
  /\ post[r].at = "hand" => Unreached(r) \subseteq post[r].left
  /\ post[r].at = "done" => Unreached(r) = {}
  /\ post[r].at = "none" /\ boot = "up" => Unreached(r) = {}
  /\ post[r].at = "none" /\ boot = "rows" =>
       \A m \in Unreached(r) : \E o \in owed : o.row = r /\ o.to = m

Reaching == Calm({"store"}) => \A r \in Rows : Reached(r)

\* Nobody is about to move: the room is up, no post is being classified or handed
\* out, and every one that waits has one ahead of it that is not over.
AtRest ==
  /\ boot = "up"
  /\ \A r \in Rows : /\ post[r].at \notin {"route", "hand"}
                     /\ post[r].at = "wait" => ~Over(post[r].prev)

LEMMA CalmStep ==
  ASSUME Typed, [Next]_vars, Calm({"store"})'
  PROVE  Calm({"store"}) /\ ~Spend({"store"})
<1>1. "store" \in Faults
  BY DEF Faults
<1>2. Calm({"store"})
  BY <1>1, SpentGrows DEF Calm
<1>3. ASSUME Spend({"store"}) PROVE FALSE
  <2>1. spent'["store"] = spent["store"] + 1 /\ spent["store"] \in Nat
    BY <1>1, <1>3 DEF Spend, Typed, SpentTyped
  <2>2. QED
    BY <2>1 DEF Calm
<1>4. QED
  BY <1>2, <1>3

\* A post that stays where it is, and has not reached fewer members.
LEMMA ReachedStays ==
  ASSUME NEW r, Reached(r), post'[r] = post[r], timeline'[r].by = timeline[r].by,
         timeline[r].to \subseteq timeline'[r].to, UNCHANGED <<boot, owed>>
  PROVE  Reached(r)'
<1>1. Unreached(r)' \subseteq Unreached(r)
  BY DEF Unreached, Others
<1>2. QED
  BY <1>1 DEF Reached

\* A step that touches neither the rows nor the posts nor the sweep.
LEMMA ReachingStays ==
  ASSUME Typed, [Next]_vars, Reaching, UNCHANGED <<timeline, post, boot, owed>>
  PROVE  Reaching'
<1>1. Rows' = Rows
  BY DEF Rows
<1>2. QED
  BY <1>1, CalmStep, ReachedStays DEF Reaching

\* A new post is still to be handed out.
LEMMA InsertReaching ==
  ASSUME Typed, [Next]_vars, Reaching, UNCHANGED <<boot, owed>>,
         NEW by \in Members \cup {Person}, NEW n \in 0..MaxTurns,
         NEW key \in {"none", "live", "msg"}, NEW k \in 0..MaxSegs, NEW fs \in SUBSET {"flood", "store"},
         Insert(by, n, key, k, fs)
  PROVE  Reaching'
<1>0. PICK s : s = Len(timeline) + 1
  OBVIOUS
<1>1. RoomTyped /\ PostTyped /\ Rows \subseteq 0..MaxRows
  BY RowFacts DEF Typed
<1>2. /\ Rows' = Rows \cup {s} /\ s \notin Rows
      /\ \A r \in Rows : timeline'[r] = timeline[r]
      /\ \A r \in 0..MaxRows : r # s => post'[r] = post[r]
  BY <1>0, <1>1, InsertFacts
<1>3. post'[s].at \in {"wait", "route", "cut"}
  BY <1>0, <1>1, NewPost
<1>4. \A r \in Rows : Reached(r) => Reached(r)'
  BY <1>1, <1>2, ReachedStays
<1>5. Reached(s)'
  BY <1>3 DEF Reached
<1>6. QED
  BY <1>2, <1>4, <1>5, CalmStep DEF Reaching

\* The steps of a post.
LEMMA FanOutReaching ==
  ASSUME Typed, [Next]_vars, Reaching, NEW r \in Rows,
         Route(r) \/ Go(r) \/ (\E m \in Members : Hand(r, m)) \/ Record(r) \/ Finish(r)
  PROVE  Reaching'
<1> SUFFICES ASSUME Calm({"store"})' PROVE \A q \in Rows' : Reached(q)'
  BY DEF Reaching
<1>1. ~Spend({"store"}) /\ \A q \in Rows : Reached(q)
  BY CalmStep DEF Reaching
<1>2. /\ UNCHANGED <<boot, owed>>
      /\ \A q \in Rows : timeline[q] \in RowType /\ q \in 0..MaxRows /\ post[q] \in PostType
      /\ post \in [0..MaxRows -> PostType]
  <2>1. UNCHANGED sweeps
    BY DEF Route, Go, Hand, Record, Finish
  <2>2. QED
    BY <2>1, RowFacts DEF sweeps, Typed, PostTyped
<1>3. Rows' = Rows /\ \A q \in Rows : q # r => timeline'[q] = timeline[q] /\ post'[q] = post[q]
  BY <1>2 DEF Route, Go, Hand, Record, Finish, Rows
<1>4. \A q \in Rows : q # r => Reached(q)'
  BY <1>1, <1>2, <1>3, ReachedStays
<1>5. Reached(r)'
  <2>1. CASE Route(r)
    <3>1. PICK woken \in SUBSET Others(r) : post' = [post EXCEPT ![r].at = "wait", ![r].wake = woken]
      BY <2>1 DEF Route
    <3>2. post'[r].at = "wait"
      BY <1>2, <3>1 DEF PostType
    <3>3. QED
      BY <3>2 DEF Reached
  <2>2. CASE Go(r)
    <3>1. timeline' = timeline /\ post'[r].at = "hand" /\ post'[r].left = Others(r)
      BY <1>2, <2>2 DEF Go, PostType
    <3>2. QED
      BY <3>1 DEF Reached, Unreached, Others
  <2>3. CASE \E m \in Members : Hand(r, m)
    <3>1. PICK m \in Members : post' = [post EXCEPT ![r].mid = m]
      BY <1>1, <2>3 DEF Hand
    <3>2. timeline' = timeline /\ post[r].at = "hand"
      BY <2>3 DEF Hand
    <3>3. post'[r].at = "hand" /\ post'[r].left = post[r].left
      BY <1>2, <3>1, <3>2 DEF PostType
    <3>4. QED
      BY <1>1, <3>2, <3>3 DEF Reached, Unreached, Others
  <2>4. CASE Record(r)
    <3>1. /\ post[r].at = "hand" /\ post' = [post EXCEPT ![r].left = @ \ {post[r].mid}, ![r].mid = Person]
          /\ timeline' = [timeline EXCEPT ![r].to = @ \cup {post[r].mid}]
      BY <1>1, <2>4 DEF Record
    <3>2. post'[r].at = "hand" /\ post'[r].left = post[r].left \ {post[r].mid}
      BY <1>2, <3>1 DEF PostType
    <3>3. timeline'[r] = [timeline[r] EXCEPT !.to = @ \cup {post[r].mid}]
      BY <3>1 DEF Rows
    <3>4. timeline'[r].by = timeline[r].by /\ timeline'[r].to = timeline[r].to \cup {post[r].mid}
      BY <1>2, <3>3 DEF RowType
    <3>5. Unreached(r) \subseteq post[r].left
      BY <1>1, <3>1 DEF Reached
    <3>6. Unreached(r)' \subseteq post'[r].left
      BY <3>2, <3>4, <3>5 DEF Unreached, Others
    <3>7. QED
      BY <3>2, <3>6 DEF Reached
  <2>5. CASE Finish(r)
    <3>1. timeline' = timeline /\ Unreached(r) = {}
      BY <1>1, <2>5 DEF Finish, Reached
    <3>2. post'[r].at = "done"
      BY <1>2, <2>5 DEF Finish, NoPost
    <3>3. QED
      BY <3>1, <3>2 DEF Reached, Unreached, Others
  <2>6. QED
    BY <2>1, <2>2, <2>3, <2>4, <2>5
<1>6. QED
  BY <1>3, <1>4, <1>5

\* Stopping a turn drops a post, and no other.
LEMMA StopReaching ==
  ASSUME Typed, [Next]_vars, Reaching, NEW m \in Members, Stop(m)
  PROVE  Reaching'
<1> SUFFICES ASSUME Calm({"store"})' PROVE \A q \in Rows' : Reached(q)'
  BY DEF Reaching
<1>1. \A q \in Rows : Reached(q)
  BY CalmStep DEF Reaching
<1>2. UNCHANGED <<timeline, boot, owed>> /\ Rows' = Rows
  BY DEF Stop, sweeps, Rows
<1>3. post \in [0..MaxRows -> PostType] /\ Rows \subseteq 0..MaxRows
  BY RowFacts DEF Typed, PostTyped
<1>4. post' = post \/ post' = [post EXCEPT ![hook[m].row] = [NoPost EXCEPT !.at = "cut"]]
  BY DEF Stop
<1>5. \A q \in Rows : post'[q] = post[q] \/ post'[q].at = "cut"
  BY <1>3, <1>4 DEF NoPost
<1>6. ASSUME NEW q \in Rows PROVE Reached(q)'
  <2>1. CASE post'[q] = post[q]
    BY <1>1, <1>2, <2>1, ReachedStays
  <2>2. CASE post'[q].at = "cut"
    BY <2>2 DEF Reached
  <2>3. QED
    BY <1>5, <2>1, <2>2
<1>7. QED
  BY <1>2, <1>6

\* The sweeps of a restart.
LEMMA SweepReaching ==
  ASSUME Typed, [Next]_vars, Reaching, Sweep
  PROVE  Reaching'
<1>1. ASSUME NEW m \in Members, SweepTurn(m) PROVE Reaching'
  BY <1>1, ReachingStays DEF SweepTurn, fanout
<1>2. CASE SweepRows
  <2> SUFFICES ASSUME Calm({"store"})', NEW r \in Rows' PROVE Reached(r)'
    BY DEF Reaching
  <2>1. UNCHANGED <<timeline, post>> /\ Rows' = Rows /\ boot' = "rows" /\ owed' = Missing
    BY <1>2 DEF SweepRows, fanout, Rows
  <2>2. r \in Rows /\ Reached(r)
    BY <2>1, CalmStep DEF Reaching
  <2>3. Unreached(r)' = Unreached(r)
    BY <2>1 DEF Unreached, Others
  <2>4. \A m \in Unreached(r) : \E o \in Missing : o.row = r /\ o.to = m
    <3> TAKE m \in Unreached(r)
    <3>1. <<r, m>> \in {y \in Rows \X Members : y[2] \in Unreached(y[1])}
      BY <2>2 DEF Unreached, Others
    <3> DEFINE y == <<r, m>>
               o == [row |-> y[1], to |-> y[2], given |-> FALSE,
                     wakes |-> ~timeline[y[1]].quiet /\ y[2] \in timeline[y[1]].wake]
    <3>2. o \in Missing
      <4>1. \A z \in {y_ \in Rows \X Members : y_[2] \in Unreached(y_[1])} :
              [row |-> z[1], to |-> z[2], given |-> FALSE,
               wakes |-> ~timeline[z[1]].quiet /\ z[2] \in timeline[z[1]].wake] \in Missing
        BY DEF Missing
      <4>2. QED
        BY <3>1, <4>1
    <3>3. o.row = r /\ o.to = m
      OBVIOUS
    <3>4. QED
      BY <3>2, <3>3
  <2>5. QED
    BY <2>1, <2>2, <2>3, <2>4 DEF Reached
<1>3. ASSUME NEW o \in owed, BootHand(o) PROVE Reaching'
  <2> SUFFICES ASSUME Calm({"store"})', NEW r \in Rows' PROVE Reached(r)'
    BY DEF Reaching
  <2>1. UNCHANGED <<timeline, post, boot>> /\ Rows' = Rows
    BY <1>3 DEF BootHand, fanout, Rows
  <2>2. r \in Rows /\ Reached(r) /\ ~Spend({"store"})
    BY <2>1, CalmStep DEF Reaching
  <2>3. Unreached(r)' = Unreached(r)
    BY <2>1 DEF Unreached, Others
  <2> DEFINE x == [o EXCEPT !.given = TRUE]
  <2>4. owed' = (owed \ {o}) \cup {x}
    BY <1>3, <2>2 DEF BootHand
  <2>5. x.row = o.row /\ x.to = o.to
    BY DEF Typed, BootTyped, DebtType
  <2> HIDE DEF x
  <2>6. \A m : (\E u \in owed : u.row = r /\ u.to = m) => \E u \in owed' : u.row = r /\ u.to = m
    BY <2>4, <2>5
  <2>7. QED
    BY <2>1, <2>2, <2>3, <2>6 DEF Reached
<1>4. ASSUME NEW o \in owed, BootRecord(o) PROVE Reaching'
  <2> SUFFICES ASSUME Calm({"store"})', NEW r \in Rows' PROVE Reached(r)'
    BY DEF Reaching
  <2>1. UNCHANGED <<post, boot>> /\ owed' = owed \ {o} /\ Rows' = Rows
    BY <1>4 DEF BootRecord, Rows
  <2>2. r \in Rows /\ Reached(r) /\ ~Spend({"store"}) /\ timeline[r] \in RowType
    BY <2>1, CalmStep, RowFacts DEF Reaching, Typed
  <2>3. timeline' = [timeline EXCEPT ![o.row].to = @ \cup {o.to}]
    BY <1>4, <2>2 DEF BootRecord
  <2>4. /\ timeline'[r].by = timeline[r].by
        /\ timeline'[r].to = IF r = o.row THEN timeline[r].to \cup {o.to} ELSE timeline[r].to
    BY <2>2, <2>3 DEF Rows, RowType
  <2>5. /\ Unreached(r)' \subseteq Unreached(r)
        /\ r = o.row => o.to \notin Unreached(r)'
    BY <2>4 DEF Unreached, Others
  <2>6. \A m \in Unreached(r)' : (\E u \in owed : u.row = r /\ u.to = m)
                                   => \E u \in owed' : u.row = r /\ u.to = m
    BY <2>1, <2>5
  <2>7. QED
    BY <2>1, <2>2, <2>5, <2>6 DEF Reached
<1>5. CASE Booted
  <2> SUFFICES ASSUME Calm({"store"})', NEW r \in Rows' PROVE Reached(r)'
    BY DEF Reaching
  <2>1. UNCHANGED <<timeline, post>> /\ Rows' = Rows /\ boot = "rows" /\ owed = {} /\ boot' = "up"
    BY <1>5 DEF Booted, fanout, Rows
  <2>2. Reached(r)
    BY <2>1, CalmStep DEF Reaching
  <2>3. Unreached(r)' = Unreached(r)
    BY <2>1 DEF Unreached, Others
  <2>4. QED
    BY <2>1, <2>2, <2>3 DEF Reached
<1>6. QED
  BY <1>1, <1>2, <1>3, <1>4, <1>5 DEF Sweep

LEMMA ReachingStep ==
  ASSUME Typed, Reaching, [Next]_vars
  PROVE  Reaching'
<1>1. CASE Speak
  <2>1. 0 \in 0..MaxTurns /\ 0 \in 0..MaxSegs
    BY BoundsAssumption
  <2>2. QED
    BY <1>1, <2>1, InsertReaching DEF Speak, sweeps
<1>2. CASE FanOut
  BY <1>2, FanOutReaching DEF FanOut
<1>3. ASSUME NEW m \in Members, Turn(m) PROVE Reaching'
  <2>1. Stop(m) \/ UNCHANGED <<timeline, post, boot, owed>>
    BY <1>3 DEF Turn, Start, Trigger, StopEarly, Break, Persist, Resume, fanout, sweeps
  <2>2. QED
    BY <2>1, StopReaching, ReachingStays
<1>4. ASSUME NEW p \in Posters, Hook(p) PROVE Reaching'
  <2>1. CASE Say(p)
    <3>1. PICK k \in Unposted(p) \cap (1..MaxSegs), fs \in SUBSET {"flood", "store"} :
            \/ Insert(said[hook[p].turn].by, hook[p].turn, Key(p), k, fs)
            \/ UNCHANGED fanout
      BY <2>1, SayFacts
    <3>2. /\ said[hook[p].turn].by \in Members \cup {Person} /\ hook[p].turn \in 0..MaxTurns
          /\ Key(p) \in {"none", "live", "msg"} /\ k \in 0..MaxSegs
      <4>1. hook[p].turn \in 1..MaxTurns
        BY <2>1, SayFacts
      <4>2. said[hook[p].turn].by \in Members \cup {Person}
        BY <4>1 DEF Typed, SaidTyped, SaidType
      <4>3. hook[p].turn \in 0..MaxTurns /\ k \in 0..MaxSegs
        BY <3>1, <4>1, BoundsAssumption
      <4>4. QED
        BY <4>2, <4>3 DEF Key
    <3>3. UNCHANGED <<boot, owed>>
      BY <2>1, SayFacts DEF sweeps
    <3>4. CASE UNCHANGED fanout
      BY <3>3, <3>4, ReachingStays DEF fanout
    <3>5. QED
      BY <3>1, <3>2, <3>3, <3>4, InsertReaching
  <2>2. CASE Rekey(p)
    <3> SUFFICES ASSUME Calm({"store"})', NEW r \in Rows' PROVE Reached(r)'
      BY DEF Reaching
    <3>1. UNCHANGED <<post, boot, owed>> /\ Rows' = Rows
      BY <2>2 DEF Rekey, sweeps, Rows
    <3>2. r \in Rows /\ Reached(r) /\ timeline[r] \in RowType
      BY <3>1, CalmStep, RowFacts DEF Reaching, Typed
    <3>3. timeline'[r] = timeline[r] \/ timeline'[r] = [timeline[r] EXCEPT !.key = "msg"]
      BY <2>2, <3>2 DEF Rekey
    <3>4. timeline'[r].by = timeline[r].by /\ timeline'[r].to = timeline[r].to
      BY <3>2, <3>3 DEF RowType
    <3>5. QED
      BY <3>1, <3>2, <3>4, ReachedStays
  <2>3. CASE Stamp(p)
    BY <2>3, ReachingStays DEF Stamp, fanout, sweeps
  <2>4. QED
    BY <1>4, <2>1, <2>2, <2>3 DEF Hook
<1>5. CASE Sweep
  BY <1>5, SweepReaching
<1>6. CASE Crash
  <2>1. boot' = "turns" /\ Rows' = Rows /\ post' = [r \in DOMAIN post |-> NoPost]
    BY <1>6 DEF Crash, Rows
  <2>2. Rows \subseteq DOMAIN post
    BY RowFacts DEF Typed, PostTyped
  <2>3. \A r \in Rows : post'[r].at = "none"
    BY <2>1, <2>2 DEF NoPost
  <2>4. QED
    BY <2>1, <2>3 DEF Reaching, Reached
<1>7. CASE UNCHANGED vars
  BY <1>7, ReachingStays DEF vars, fanout, sweeps
<1>8. QED
  BY <1>1, <1>2, <1>3, <1>4, <1>5, <1>6, <1>7 DEF Next

\* A seat holds a post, or has it queued.
Has(m, r) == r \in Range(seat[m]) \cup Range(queue[m])

\* A row, its fan-out or the sweep takes a seat for reached.
Given(r, m) ==
  m \in timeline[r].to \/ post[r].mid = m \/ \E o \in owed : o.given /\ o.row = r /\ o.to = m

\* Who is taken for reached has the post, or has lost it from its queue.
Held ==
  Calm({"store"}) =>
    \A r \in Rows : \A m \in Others(r) : Given(r, m) => Has(m, r) \/ <<r, m>> \in lost

LEMMA RangeAppend ==
  ASSUME NEW S, NEW s \in Seq(S), NEW e \in S
  PROVE  Range(Append(s, e)) = Range(s) \cup {e}
<1> DEFINE t == Append(s, e)
<1>1. /\ Len(s) \in Nat /\ DOMAIN s = 1..Len(s) /\ DOMAIN t = 1..(Len(s) + 1)
      /\ \A i \in 1..Len(s) : t[i] = s[i]
      /\ t[Len(s) + 1] = e
  BY AppendProperties, LenProperties
<1> HIDE DEF t
<1>2. \A i \in DOMAIN t : i \in DOMAIN s \/ i = Len(s) + 1
  BY <1>1
<1>3. Range(t) \subseteq Range(s) \cup {e}
  BY <1>1, <1>2 DEF Range
<1>4. Range(s) \subseteq Range(t)
  <2>1. ASSUME NEW i \in DOMAIN s PROVE s[i] \in Range(t)
    <3>1. i \in DOMAIN t /\ t[i] = s[i]
      BY <1>1
    <3>2. QED
      BY <3>1 DEF Range
  <2>2. QED
    BY <2>1 DEF Range
<1>5. e \in Range(t)
  <2>1. Len(s) + 1 \in DOMAIN t
    BY <1>1
  <2>2. QED
    BY <1>1, <2>1 DEF Range
<1>6. QED
  BY <1>3, <1>4, <1>5 DEF t

LEMMA RangeTail ==
  ASSUME NEW S, NEW s \in Seq(S), s # <<>>
  PROVE  Range(s) \subseteq {Head(s)} \cup Range(Tail(s))
<1>1. /\ Len(s) \in Nat /\ DOMAIN s = 1..Len(s) /\ Head(s) = s[1]
      /\ Tail(s) \in Seq(S) /\ Len(Tail(s)) = Len(s) - 1
      /\ \A i \in 1..Len(Tail(s)) : Tail(s)[i] = s[i + 1]
  BY HeadTailProperties, LenProperties
<1>2. DOMAIN Tail(s) = 1..(Len(s) - 1)
  BY <1>1, LenProperties
<1>3. ASSUME NEW i \in DOMAIN s, i # 1
      PROVE  s[i] \in Range(Tail(s))
  <2>1. i - 1 \in DOMAIN Tail(s) /\ (i - 1) + 1 = i
    BY <1>1, <1>2, <1>3
  <2>2. Tail(s)[i - 1] = s[i]
    BY <1>1, <1>2, <2>1
  <2>3. QED
    BY <2>1, <2>2 DEF Range
<1>4. QED
  BY <1>1, <1>3 DEF Range

\* A hand-over adds to what a seat has.
LEMMA GiveHas ==
  ASSUME SeatTyped, NEW m \in Members, NEW r \in Rows, NEW wakes, Give(m, r, wakes)
  PROVE  /\ Has(m, r)' /\ lost' = lost
         /\ \A x \in Members, q \in Rows : Has(x, q) => Has(x, q)'
<1>0. /\ seat \in [Members -> Seq(Rows)] /\ queue \in [Members -> Seq(Rows)]
  BY DEF SeatTyped
<1>1. \/ queue' = [queue EXCEPT ![m] = Append(@, r)] /\ seat' = seat
      \/ seat' = [seat EXCEPT ![m] = Append(@, r)] /\ queue' = queue
  BY DEF Give
<1>2. /\ Range(Append(queue[m], r)) = Range(queue[m]) \cup {r}
      /\ Range(Append(seat[m], r)) = Range(seat[m]) \cup {r}
  BY <1>0, RangeAppend
<1>3. r \in Range(seat'[m]) \cup Range(queue'[m])
  BY <1>0, <1>1, <1>2
<1>4. ASSUME NEW x \in Members
      PROVE  Range(seat[x]) \cup Range(queue[x]) \subseteq Range(seat'[x]) \cup Range(queue'[x])
  <2>1. CASE x = m
    BY <1>0, <1>1, <1>2, <2>1
  <2>2. CASE x # m
    BY <1>0, <1>1, <2>2
  <2>3. QED
    BY <2>1, <2>2
<1>5. lost' = lost
  BY DEF Give
<1>6. QED
  BY <1>3, <1>4, <1>5 DEF Has

\* A step that takes no more seats for reached than it hands a post to, and loses
\* track of none.
LEMMA HeldStays ==
  ASSUME Typed, [Next]_vars, Held, Rows' = Rows, lost \subseteq lost',
         Calm({"store"})' =>
           \A r \in Rows : \A m \in Others(r) :
             /\ Given(r, m)' => Given(r, m) \/ Has(m, r)'
             /\ Has(m, r) => Has(m, r)' \/ <<r, m>> \in lost'
  PROVE  Held'
<1> SUFFICES ASSUME Calm({"store"})', NEW r \in Rows, NEW m \in Others(r)', Given(r, m)'
             PROVE  Has(m, r)' \/ <<r, m>> \in lost'
  BY DEF Held
<1>1. Calm({"store"})
  BY CalmStep
<1>2. m \in Others(r)
  BY RowsStep DEF Others, SameRow
<1>3. QED
  BY <1>1, <1>2 DEF Held

\* A step that touches neither the seats nor what is taken for reached.
LEMMA HeldApart ==
  ASSUME Typed, [Next]_vars, Held, Rows' = Rows, UNCHANGED <<seat, queue, lost>>,
         \A r \in Rows : timeline'[r].to = timeline[r].to,
         \A r \in Rows : post'[r].mid \in {post[r].mid, Person},
         \A o \in owed' : o \in owed \/ ~o.given
  PROVE  Held'
<1>1. ASSUME NEW r \in Rows, NEW m \in Others(r)
      PROVE  /\ Given(r, m)' => Given(r, m)
             /\ Has(m, r) => Has(m, r)'
  <2>1. m # Person
    BY RoomAssumption DEF Others
  <2>2. QED
    BY <2>1 DEF Given, Has
<1>2. QED
  BY <1>1, HeldStays

\* A new post is taken for reached by nobody but its own seat.
LEMMA InsertHeld ==
  ASSUME Typed, [Next]_vars, Held, UNCHANGED <<seat, queue, lost, owed>>,
         NEW by \in Members \cup {Person}, NEW n \in 0..MaxTurns,
         NEW key \in {"none", "live", "msg"}, NEW k \in 0..MaxSegs, NEW fs \in SUBSET {"flood", "store"},
         Insert(by, n, key, k, fs)
  PROVE  Held'
<1> DEFINE s == Len(timeline) + 1
<1> SUFFICES ASSUME Calm({"store"})', NEW r \in Rows', NEW m \in Others(r)', Given(r, m)'
             PROVE  Has(m, r)' \/ <<r, m>> \in lost'
  BY DEF Held
<1>0. /\ RoomTyped /\ PostTyped /\ Rows \subseteq 0..MaxRows /\ \A o \in owed : o.row \in Rows
      /\ Calm({"store"})
  BY RowFacts, CalmStep DEF Typed, BootTyped, DebtType
<1>1. /\ Rows' = Rows \cup {s} /\ s \notin Rows
      /\ \A q \in Rows : timeline'[q] = timeline[q]
      /\ \A q \in 0..MaxRows : q # s => post'[q] = post[q]
  BY <1>0, InsertFacts
<1>2. post'[s].mid = Person
  BY <1>0, NewPost
<1>3. timeline'[s].by = by /\ timeline'[s].to = Members \cap {by}
  <2> DEFINE new == NewRow(by, n, key, k, fs)
  <2>1. timeline' = Append(timeline, new)
    BY DEF Insert, NewRow
  <2>2. timeline \in Seq(RowType)
    BY <1>0 DEF RoomTyped
  <2>3. timeline'[s] = new
    <3> HIDE DEF new
    <3> QED BY <2>1, <2>2
  <2>4. QED
    BY <2>3 DEF NewRow
<1> HIDE DEF s
<1>4. m \in Members /\ m # Person /\ m # timeline'[r].by
  BY RoomAssumption DEF Others
<1>5. CASE r \in Rows
  <2>1. Given(r, m) /\ m \in Others(r)
    BY <1>0, <1>1, <1>4, <1>5 DEF Given, Others
  <2>2. QED
    BY <1>0, <1>5, <2>1 DEF Held, Has
<1>6. CASE r = s
  BY <1>0, <1>1, <1>2, <1>3, <1>4, <1>6 DEF Given
<1>7. QED
  BY <1>1, <1>5, <1>6

\* The steps of a post.
LEMMA FanOutHeld ==
  ASSUME Typed, [Next]_vars, Held, NEW r \in Rows,
         Route(r) \/ Go(r) \/ (\E m \in Members : Hand(r, m)) \/ Record(r) \/ Finish(r)
  PROVE  Held'
<1>0. /\ RoomTyped /\ PostTyped /\ SeatTyped /\ UNCHANGED owed
      /\ post \in [0..MaxRows -> PostType] /\ r \in 0..MaxRows /\ Rows \subseteq 0..MaxRows
      /\ \A q \in Rows : timeline[q] \in RowType
  <2>1. UNCHANGED sweeps
    BY DEF Route, Go, Hand, Record, Finish
  <2>2. QED
    BY <2>1, RowFacts DEF sweeps, Typed, PostTyped
<1>1. Rows' = Rows
  BY DEF Route, Go, Hand, Record, Finish, Rows
<1>2. CASE Route(r) \/ Go(r) \/ Finish(r)
  <2>1. UNCHANGED <<seat, queue, lost>>
    BY <1>2 DEF Route, Go, Finish, seats
  <2>2. \A q \in Rows : timeline'[q].to = timeline[q].to
    <3>1. UNCHANGED timeline \/ \E w : timeline' = [timeline EXCEPT ![r].wake = w]
      BY <1>2 DEF Route, Go, Finish
    <3>2. QED
      BY <1>0, <3>1 DEF RowType, Rows
  <2>3. \A q \in Rows : post'[q].mid \in {post[q].mid, Person}
    <3>1. CASE Route(r)
      <4>1. PICK woken : post' = [post EXCEPT ![r].at = "wait", ![r].wake = woken]
        BY <3>1 DEF Route
      <4>2. QED
        BY <1>0, <4>1 DEF PostType
    <3>2. CASE Go(r)
      BY <1>0, <3>2 DEF Go, PostType
    <3>3. CASE Finish(r)
      <4>1. post' = [post EXCEPT ![r] = [NoPost EXCEPT !.at = "done"]]
        BY <3>3 DEF Finish
      <4>2. QED
        BY <1>0, <4>1 DEF NoPost
    <3>4. QED
      BY <1>2, <3>1, <3>2, <3>3
  <2>4. QED
    BY <1>0, <1>1, <2>1, <2>2, <2>3, HeldApart
<1>3. ASSUME NEW m \in Members, Hand(r, m)
      PROVE  Held'
  <2> SUFFICES ASSUME Calm({"store"})',
                      Give(m, r, Wakes(r, m)), post' = [post EXCEPT ![r].mid = m]
               PROVE  Held'
    <3>1. CASE Calm({"store"})'
      BY <1>3, <3>1, CalmStep DEF Hand
    <3>2. CASE ~Calm({"store"})'
      BY <3>2 DEF Held
    <3>3. QED
      BY <3>1, <3>2
  <2>1. UNCHANGED timeline
    BY <1>3 DEF Hand
  <2>2. /\ Has(m, r)' /\ lost' = lost
        /\ \A x \in Members, q \in Rows : Has(x, q) => Has(x, q)'
    BY <1>0, GiveHas
  <2>3. \A q \in Rows : post'[q].mid = IF q = r THEN m ELSE post[q].mid
    BY <1>0 DEF PostType
  <2>4. \A q \in Rows : \A x \in Others(q) : Given(q, x)' => Given(q, x) \/ Has(x, q)'
    BY <1>0, <2>1, <2>2, <2>3 DEF Given
  <2>5. QED
    BY <1>1, <2>2, <2>4, HeldStays DEF Others
<1>4. CASE Record(r)
  <2> SUFFICES ASSUME Calm({"store"})', timeline' = [timeline EXCEPT ![r].to = @ \cup {post[r].mid}]
               PROVE  Held'
    <3>1. CASE Calm({"store"})'
      BY <1>4, <3>1, CalmStep DEF Record
    <3>2. CASE ~Calm({"store"})'
      BY <3>2 DEF Held
    <3>3. QED
      BY <3>1, <3>2
  <2>1. UNCHANGED <<seat, queue, lost>>
    BY <1>4 DEF Record, seats
  <2>2. \A q \in Rows : timeline'[q].to = IF q = r THEN timeline[r].to \cup {post[r].mid} ELSE timeline[q].to
    BY <1>0 DEF RowType, Rows
  <2>3. \A q \in Rows : post'[q].mid \in {post[q].mid, Person}
    <3>1. post' = [post EXCEPT ![r].left = @ \ {post[r].mid}, ![r].mid = Person]
      BY <1>4 DEF Record
    <3>2. QED
      BY <1>0, <3>1 DEF PostType
  <2>4. ASSUME NEW q \in Rows, NEW x \in Others(q)
        PROVE  /\ Given(q, x)' => Given(q, x)
               /\ Has(x, q) => Has(x, q)'
    <3>1. x # Person
      BY RoomAssumption DEF Others
    <3>2. QED
      BY <1>0, <2>1, <2>2, <2>3, <3>1 DEF Given, Has
  <2>5. QED
    BY <1>1, <2>1, <2>4, HeldStays
<1>5. QED
  BY <1>2, <1>3, <1>4

\* The steps of a seat's turn.
LEMMA TurnHeld ==
  ASSUME Typed, [Next]_vars, Held, NEW m \in Members, Turn(m)
  PROVE  Held'
<1>0. /\ UNCHANGED timeline /\ UNCHANGED owed /\ Rows' = Rows /\ Rows \subseteq 0..MaxRows
      /\ seat \in [Members -> Seq(Rows)] /\ queue \in [Members -> Seq(Rows)]
      /\ post \in [0..MaxRows -> PostType]
  <2>1. UNCHANGED timeline /\ UNCHANGED owed
    BY DEF Turn, Start, Trigger, StopEarly, Break, Persist, Resume, Stop, fanout, sweeps
  <2>2. QED
    BY <2>1, RowFacts DEF Rows, Typed, SeatTyped, PostTyped
<1>1. \A q \in Rows : post'[q].mid \in {post[q].mid, Person}
  <2>1. post' = post \/ post' = [post EXCEPT ![hook[m].row] = [NoPost EXCEPT !.at = "cut"]]
    BY DEF Turn, Start, Trigger, StopEarly, Break, Persist, Resume, Stop, fanout
  <2>2. QED
    BY <1>0, <2>1 DEF NoPost
<1>2. ASSUME UNCHANGED <<seat, queue, lost>>
      PROVE  Held'
  BY <1>0, <1>1, <1>2, HeldApart
<1>3. CASE Start(m) \/ Break(m) \/ Persist(m) \/ Resume(m) \/ Stop(m)
  BY <1>2, <1>3 DEF Start, Break, Persist, Resume, Stop, seats
<1>4. ASSUME lost \subseteq lost',
             Calm({"store"})' =>
               \A x \in Members, q \in Rows : Has(x, q) => Has(x, q)' \/ <<q, x>> \in lost'
      PROVE  Held'
  <2>1. ASSUME NEW q \in Rows, NEW x \in Others(q)
        PROVE  Given(q, x)' => Given(q, x)
    <3>1. x # Person
      BY RoomAssumption DEF Others
    <3>2. QED
      BY <1>0, <1>1, <3>1 DEF Given
  <2>2. QED
    BY <1>0, <1>4, <2>1, HeldStays DEF Others
<1>5. ASSUME queue[m] # <<>>, queue' = [queue EXCEPT ![m] = Tail(@)], NEW x \in Members, NEW q \in Rows,
             Has(x, q), Range(seat[x]) \subseteq Range(seat'[x])
      PROVE  Has(x, q)' \/ (x = m /\ q = Head(queue[m]))
  <2>1. CASE x # m
    BY <1>0, <1>5, <2>1 DEF Has
  <2>2. CASE x = m
    <3>1. Range(queue[m]) \subseteq {Head(queue[m])} \cup Range(Tail(queue[m]))
      BY <1>0, <1>5, RangeTail
    <3>2. queue'[m] = Tail(queue[m])
      BY <1>0, <1>5
    <3>3. QED
      BY <1>5, <2>2, <3>1, <3>2 DEF Has
  <2>3. QED
    BY <2>1, <2>2
<1>6. CASE Trigger(m)
  <2>1. CASE queue[m] = <<>>
    BY <1>2, <1>6, <2>1 DEF Trigger
  <2>2. CASE queue[m] # <<>>
    <3>1. UNCHANGED lost /\ queue' = [queue EXCEPT ![m] = Tail(@)]
      BY <1>6, <2>2 DEF Trigger
    <3>2. ASSUME Calm({"store"})', NEW x \in Members, NEW q \in Rows, Has(x, q)
          PROVE  Has(x, q)'
      <4>1. seat' = [seat EXCEPT ![m] = Append(@, Head(queue[m]))]
        BY <1>6, <2>2, <3>2, CalmStep DEF Trigger
      <4>2. Head(queue[m]) \in Rows
        BY <1>0, <2>2, HeadOf
      <4>3. Range(seat'[m]) = Range(seat[m]) \cup {Head(queue[m])}
        <5>1. seat'[m] = Append(seat[m], Head(queue[m]))
          BY <1>0, <4>1
        <5>2. QED
          BY <1>0, <4>2, <5>1, RangeAppend
      <4>4. Range(seat[x]) \subseteq Range(seat'[x])
        BY <1>0, <4>1, <4>3
      <4>5. Has(x, q)' \/ (x = m /\ q = Head(queue[m]))
        BY <1>5, <2>2, <3>1, <3>2, <4>4
      <4>6. QED
        BY <4>3, <4>5 DEF Has
    <3>3. QED
      BY <1>4, <3>1, <3>2
  <2>3. QED
    BY <2>1, <2>2
<1>7. CASE StopEarly(m)
  <2>1. CASE queue[m] = <<>>
    BY <1>2, <1>7, <2>1 DEF StopEarly
  <2>2. CASE queue[m] # <<>>
    <3>1. /\ UNCHANGED seat /\ queue' = [queue EXCEPT ![m] = Tail(@)]
          /\ lost' = lost \cup {<<Head(queue[m]), m>>}
      BY <1>7, <2>2 DEF StopEarly
    <3>2. ASSUME NEW x \in Members, NEW q \in Rows, Has(x, q)
          PROVE  Has(x, q)' \/ <<q, x>> \in lost'
      <4>1. Has(x, q)' \/ (x = m /\ q = Head(queue[m]))
        BY <1>5, <2>2, <3>1, <3>2
      <4>2. QED
        BY <3>1, <4>1
    <3>3. QED
      BY <1>4, <3>1, <3>2
  <2>3. QED
    BY <2>1, <2>2
<1>8. QED
  BY <1>3, <1>6, <1>7 DEF Turn

\* The sweeps of a restart.
LEMMA SweepHeld ==
  ASSUME Typed, [Next]_vars, Held, Sweep
  PROVE  Held'
<1>0. /\ SeatTyped /\ owed \subseteq DebtType /\ UNCHANGED post
      /\ \A q \in Rows : timeline[q] \in RowType
  <2>1. UNCHANGED post
    BY DEF Sweep, SweepTurn, SweepRows, BootHand, BootRecord, Booted, fanout
  <2>2. QED
    BY <2>1, RowFacts DEF Typed, BootTyped
<1>1. CASE (\E m \in Members : SweepTurn(m)) \/ SweepRows \/ Booted
  <2>1. UNCHANGED <<timeline, seat, queue, lost>> /\ owed' \in {owed, Missing}
    BY <1>1 DEF SweepTurn, SweepRows, Booted, fanout, seats
  <2>2. \A o \in Missing : ~o.given
    BY DEF Missing
  <2>3. QED
    BY <1>0, <2>1, <2>2, HeldApart DEF Rows
<1>2. ASSUME NEW o \in owed, BootHand(o)
      PROVE  Held'
  <2> SUFFICES ASSUME Calm({"store"})', Give(o.to, o.row, o.wakes),
                      owed' = (owed \ {o}) \cup {[o EXCEPT !.given = TRUE]}
               PROVE  Held'
    <3>1. CASE Calm({"store"})'
      BY <1>2, <3>1, CalmStep DEF BootHand
    <3>2. CASE ~Calm({"store"})'
      BY <3>2 DEF Held
    <3>3. QED
      BY <3>1, <3>2
  <2>1. UNCHANGED timeline /\ Rows' = Rows
    BY <1>2 DEF BootHand, fanout, Rows
  <2>2. /\ o.to \in Members /\ o.row \in Rows /\ o.wakes \in BOOLEAN
        /\ [o EXCEPT !.given = TRUE].row = o.row /\ [o EXCEPT !.given = TRUE].to = o.to
    BY <1>0 DEF DebtType
  <2>3. /\ Has(o.to, o.row)' /\ lost' = lost
        /\ \A x \in Members, q \in Rows : Has(x, q) => Has(x, q)'
    BY <1>0, <2>2, GiveHas
  <2>4. ASSUME NEW q \in Rows, NEW x \in Others(q), Given(q, x)'
        PROVE  Given(q, x) \/ Has(x, q)'
    <3>1. CASE x \in timeline[q].to \/ post[q].mid = x
      BY <3>1 DEF Given
    <3>2. CASE \E u \in owed' : u.given /\ u.row = q /\ u.to = x
      <4>1. PICK u \in owed' : u.given /\ u.row = q /\ u.to = x
        BY <3>2
      <4>2. CASE u \in owed
        BY <4>1, <4>2 DEF Given
      <4>3. CASE u = [o EXCEPT !.given = TRUE]
        <5>1. q = o.row /\ x = o.to
          BY <2>2, <4>1, <4>3
        <5>2. Has(o.to, o.row)' <=> o.row \in Range(seat'[o.to]) \cup Range(queue'[o.to])
          BY DEF Has
        <5>3. QED
          BY <2>3, <5>1, <5>2 DEF Has
      <4>4. QED
        BY <4>1, <4>2, <4>3
    <3>3. QED
      BY <1>0, <2>1, <2>4, <3>1, <3>2 DEF Given
  <2>5. QED
    BY <2>1, <2>3, <2>4, HeldStays DEF Others
<1>3. ASSUME NEW o \in owed, BootRecord(o)
      PROVE  Held'
  <2> SUFFICES ASSUME Calm({"store"})', timeline' = [timeline EXCEPT ![o.row].to = @ \cup {o.to}]
               PROVE  Held'
    <3>1. CASE Calm({"store"})'
      BY <1>3, <3>1, CalmStep DEF BootRecord
    <3>2. CASE ~Calm({"store"})'
      BY <3>2 DEF Held
    <3>3. QED
      BY <3>1, <3>2
  <2>1. UNCHANGED <<seat, queue, lost>> /\ owed' = owed \ {o} /\ o.given /\ Rows' = Rows
    BY <1>3 DEF BootRecord, seats, Rows
  <2>2. \A q \in Rows : timeline'[q].to = IF q = o.row THEN timeline[q].to \cup {o.to} ELSE timeline[q].to
    BY <1>0 DEF RowType, Rows
  <2>3. ASSUME NEW q \in Rows, NEW x \in Others(q)
        PROVE  /\ Given(q, x)' => Given(q, x)
               /\ Has(x, q) => Has(x, q)'
    BY <1>0, <2>1, <2>2 DEF Given, Has
  <2>4. QED
    BY <2>1, <2>3, HeldStays
<1>4. QED
  BY <1>1, <1>2, <1>3 DEF Sweep

LEMMA HeldStep ==
  ASSUME Typed, Held, [Next]_vars
  PROVE  Held'
<1>1. CASE Speak
  <2>1. 0 \in 0..MaxTurns /\ 0 \in 0..MaxSegs
    BY BoundsAssumption
  <2>2. PICK fs \in SUBSET {"flood", "store"} : Insert(Person, 0, "none", 0, fs)
    BY <1>1 DEF Speak
  <2>3. UNCHANGED <<seat, queue, lost, owed>>
    BY <1>1 DEF Speak, seats, sweeps
  <2>4. QED
    BY <2>1, <2>2, <2>3, InsertHeld
<1>2. CASE FanOut
  BY <1>2, FanOutHeld DEF FanOut
<1>3. ASSUME NEW m \in Members, Turn(m) PROVE Held'
  BY <1>3, TurnHeld
<1>4. ASSUME NEW p \in Posters, Hook(p) PROVE Held'
  <2>1. CASE Say(p)
    <3>1. PICK k \in Unposted(p) \cap (1..MaxSegs), fs \in SUBSET {"flood", "store"} :
            \/ Insert(said[hook[p].turn].by, hook[p].turn, Key(p), k, fs)
            \/ UNCHANGED fanout
      BY <2>1, SayFacts
    <3>2. /\ said[hook[p].turn].by \in Members \cup {Person} /\ hook[p].turn \in 0..MaxTurns
          /\ Key(p) \in {"none", "live", "msg"} /\ k \in 0..MaxSegs
      <4>1. hook[p].turn \in 1..MaxTurns
        BY <2>1, SayFacts
      <4>2. said[hook[p].turn].by \in Members \cup {Person}
        BY <4>1 DEF Typed, SaidTyped, SaidType
      <4>3. hook[p].turn \in 0..MaxTurns /\ k \in 0..MaxSegs
        BY <3>1, <4>1, BoundsAssumption
      <4>4. QED
        BY <4>2, <4>3 DEF Key
    <3>3. UNCHANGED <<seat, queue, lost, owed>>
      BY <2>1, SayFacts DEF seats, sweeps
    <3>4. CASE UNCHANGED fanout
      BY <3>3, <3>4, HeldApart DEF fanout, Rows
    <3>5. QED
      BY <3>1, <3>2, <3>3, <3>4, InsertHeld
  <2>2. CASE Rekey(p)
    <3>1. UNCHANGED <<post, seat, queue, lost, owed>> /\ Rows' = Rows
      BY <2>2 DEF Rekey, seats, sweeps, Rows
    <3>2. ASSUME NEW r \in Rows PROVE timeline'[r].to = timeline[r].to
      <4>1. timeline'[r] = timeline[r] \/ timeline'[r] = [timeline[r] EXCEPT !.key = "msg"]
        BY <2>2 DEF Rekey
      <4>2. timeline[r] \in RowType
        BY RowFacts DEF Typed
      <4>3. QED
        BY <4>1, <4>2 DEF RowType
    <3>3. QED
      BY <3>1, <3>2, HeldApart
  <2>3. CASE Stamp(p)
    BY <2>3, HeldApart DEF Stamp, fanout, seats, sweeps, Rows
  <2>4. QED
    BY <1>4, <2>1, <2>2, <2>3 DEF Hook
<1>5. CASE Sweep
  BY <1>5, SweepHeld
<1>6. CASE Crash
  <2>1. /\ UNCHANGED <<timeline, seat>> /\ owed' = {} /\ Rows' = Rows
        /\ post' = [r \in DOMAIN post |-> NoPost] /\ queue' = [m \in Members |-> <<>>]
        /\ lost' = lost \cup {x \in Rows \X Members : x[1] \in Range(queue[x[2]])
                                                      /\ x[2] \in timeline[x[1]].to}
    BY <1>6 DEF Crash, Rows
  <2>2. Rows \subseteq DOMAIN post
    BY RowFacts DEF Typed, PostTyped
  <2> SUFFICES ASSUME Calm({"store"})', NEW r \in Rows, NEW m \in Others(r), Given(r, m)'
               PROVE  Has(m, r)' \/ <<r, m>> \in lost'
    BY <2>1 DEF Held, Others
  <2>3. m \in Members /\ m # Person
    BY RoomAssumption DEF Others
  <2>4. m \in timeline[r].to
    BY <2>1, <2>2, <2>3 DEF Given, NoPost
  <2>5. Has(m, r) \/ <<r, m>> \in lost
    BY <2>4, CalmStep DEF Held, Given
  <2>6. CASE r \in Range(queue[m])
    <3>1. <<r, m>> \in {x \in Rows \X Members : x[1] \in Range(queue[x[2]]) /\ x[2] \in timeline[x[1]].to}
      BY <2>3, <2>4, <2>6
    <3>2. QED
      BY <2>1, <3>1
  <2>7. CASE r \notin Range(queue[m])
    BY <2>1, <2>5, <2>7 DEF Has
  <2>8. QED
    BY <2>6, <2>7
<1>7. CASE UNCHANGED vars
  BY <1>7, HeldApart DEF vars, fanout, seats, sweeps, Rows
<1>8. QED
  BY <1>1, <1>2, <1>3, <1>4, <1>5, <1>6, <1>7 DEF Next

\* What is no row has no post.
Blank == \A q \in 0..MaxRows : q \notin Rows => post[q].at = "none"

LEMMA BlankStep ==
  ASSUME Typed, Blank, [Next]_vars
  PROVE  Blank'
<1>1. /\ RoomTyped /\ PostTyped /\ Rows \subseteq Rows'
      /\ Rows \subseteq 0..MaxRows /\ post \in [0..MaxRows -> PostType]
  BY RowFacts, RowsStep DEF Typed, PostTyped
<1>2. ASSUME NEW q \in 0..MaxRows, q \notin Rows', post'[q] = post[q] PROVE post'[q].at = "none"
  BY <1>1, <1>2 DEF Blank
<1>3. ASSUME NEW by \in Members \cup {Person}, NEW n \in 0..MaxTurns,
             NEW key \in {"none", "live", "msg"}, NEW k \in 0..MaxSegs, NEW fs \in SUBSET {"flood", "store"},
             Insert(by, n, key, k, fs)
      PROVE  Blank'
  <2>1. /\ Len(timeline) + 1 \in Rows'
        /\ \A q \in 0..MaxRows : q # Len(timeline) + 1 => post'[q] = post[q]
    BY <1>1, <1>3, InsertFacts
  <2>2. QED
    BY <1>2, <2>1 DEF Blank
<1>4. CASE Speak
  <2>1. 0 \in 0..MaxTurns /\ 0 \in 0..MaxSegs
    BY BoundsAssumption
  <2>2. QED
    BY <1>3, <1>4, <2>1 DEF Speak
<1>5. CASE FanOut
  <2>1. PICK r \in Rows : Route(r) \/ Go(r) \/ (\E m \in Members : Hand(r, m)) \/ Record(r) \/ Finish(r)
    BY <1>5 DEF FanOut
  <2>2. \A q \in 0..MaxRows : q # r => post'[q] = post[q]
    BY <1>1, <2>1 DEF Route, Go, Hand, Record, Finish
  <2>3. QED
    BY <1>1, <1>2, <2>2 DEF Blank
<1>6. ASSUME NEW m \in Members, Turn(m) PROVE Blank'
  <2>1. CASE Stop(m)
    <3>1. hook[m].row \in {0} \cup Rows
      BY DEF Typed, HookTyped, HookType, Posters
    <3>2. post' = post \/ /\ ~Over(hook[m].row)
                          /\ post' = [post EXCEPT ![hook[m].row] = [NoPost EXCEPT !.at = "cut"]]
      BY <2>1 DEF Stop
    <3>3. \A q \in 0..MaxRows : q \notin Rows => post'[q] = post[q]
      BY <1>1, <3>1, <3>2 DEF Blank, Over
    <3>4. QED
      BY <1>1, <1>2, <3>3 DEF Blank
  <2>2. CASE ~Stop(m)
    <3>1. post' = post
      BY <1>6, <2>2 DEF Turn, Start, Trigger, StopEarly, Break, Persist, Resume, fanout
    <3>2. QED
      BY <1>2, <3>1 DEF Blank
  <2>3. QED
    BY <2>1, <2>2
<1>7. ASSUME NEW p \in Posters, Hook(p) PROVE Blank'
  <2>1. CASE Say(p)
    <3>1. PICK k \in Unposted(p) \cap (1..MaxSegs), fs \in SUBSET {"flood", "store"} :
            \/ Insert(said[hook[p].turn].by, hook[p].turn, Key(p), k, fs)
            \/ UNCHANGED fanout
      BY <2>1, SayFacts
    <3>2. /\ said[hook[p].turn].by \in Members \cup {Person} /\ hook[p].turn \in 0..MaxTurns
          /\ Key(p) \in {"none", "live", "msg"} /\ k \in 0..MaxSegs
      <4>1. hook[p].turn \in 1..MaxTurns
        BY <2>1, SayFacts
      <4>2. said[hook[p].turn].by \in Members \cup {Person}
        BY <4>1 DEF Typed, SaidTyped, SaidType
      <4>3. hook[p].turn \in 0..MaxTurns /\ k \in 0..MaxSegs
        BY <3>1, <4>1, BoundsAssumption
      <4>4. QED
        BY <4>2, <4>3 DEF Key
    <3>3. CASE UNCHANGED fanout
      BY <1>2, <3>3 DEF Blank, fanout
    <3>4. QED
      BY <1>3, <3>1, <3>2, <3>3
  <2>2. CASE Rekey(p) \/ Stamp(p)
    <3>1. post' = post
      BY <2>2 DEF Rekey, Stamp, fanout
    <3>2. QED
      BY <1>2, <3>1 DEF Blank
  <2>3. QED
    BY <1>7, <2>1, <2>2 DEF Hook
<1>8. CASE Sweep \/ UNCHANGED vars
  <2>1. post' = post
    BY <1>8 DEF Sweep, SweepTurn, SweepRows, BootHand, BootRecord, Booted, fanout, vars
  <2>2. QED
    BY <1>2, <2>1 DEF Blank
<1>9. CASE Crash
  <2>1. \A q \in 0..MaxRows : post'[q] = NoPost
    BY <1>1, <1>9 DEF Crash
  <2>2. QED
    BY <2>1 DEF Blank, NoPost
<1>10. QED
  BY <1>4, <1>5, <1>6, <1>7, <1>8, <1>9 DEF Next

\* Posts do not wait for each other in a circle: at rest all are over.
LEMMA RestIsOver ==
  ASSUME Typed, Blank, AtRest
  PROVE  \A r \in Rows : Over(r)
<1> DEFINE open == {r \in Rows : ~Over(r)}
<1>1. SUFFICES ASSUME open # {} PROVE FALSE
  OBVIOUS
<1>2. /\ Rows \subseteq 1..MaxRows /\ MaxRows \in Nat /\ post \in [0..MaxRows -> PostType]
      /\ \A r \in 1..MaxRows : post[r].prev < r
  BY RowFacts DEF Typed, PostTyped
<1>3. PICK r \in open : \A q \in open : r <= q
  <2>1. \A q \in Rows : q \in Nat
    BY <1>2
  <2>2. open \in SUBSET Nat
    BY <2>1
  <2> HIDE DEF open
  <2>3. QED
    BY <1>1, <2>2, LeastOfSet
<1>4. r \in Rows /\ r \in 1..MaxRows /\ r \in 0..MaxRows
  BY <1>2
<1>5. post[r].at = "wait" /\ ~Over(post[r].prev)
  BY <1>2, <1>4 DEF AtRest, Over, PostType
<1>6. post[r].prev \in 0..MaxRows /\ post[r].prev < r
  BY <1>2, <1>4 DEF PostType
<1>7. post[r].prev \in Rows
  BY <1>5, <1>6 DEF Blank, Over
<1>8. r <= post[r].prev
  BY <1>3, <1>5, <1>7
<1>9. QED
  BY <1>4, <1>6, <1>8

LEMMA AllReaching == Spec => [](Typed /\ Reaching /\ Held /\ Blank)
<1>1. Init => Reaching /\ Held /\ Blank
  <2>1. Init => Rows = {}
    BY DEF Init, Rows
  <2>2. Init => Blank
    BY DEF Init, Blank, NoPost
  <2>3. QED
    BY <2>1, <2>2 DEF Reaching, Held
<1>2. Typed /\ Reaching /\ Held /\ Blank /\ [Next]_vars => (Typed /\ Reaching /\ Held /\ Blank)'
  BY TypedStep, ReachingStep, HeldStep, BlankStep
<1>3. QED
  BY TypedInit, <1>1, <1>2, PTL DEF Spec

\* When nobody is about to move, every other member's seat holds a post or has it
\* queued, unless the post was itself stopped, or was lost from that seat's queue by a
\* crash or a turn stopped before it began, or a storage call raised: over crashes at
\* any step, members handed half a fan-out, posts ahead that were stopped or waited for
\* in vain, and what the sweep hands out while turns post.  The delivery order never
\* waits in a circle (post_message, boot.py).
THEOREM ReachedAtRest ==
  Spec => [](AtRest /\ Calm({"store"}) =>
               \A r \in Rows : \A m \in Missed(r) : post[r].at = "cut" \/ <<r, m>> \in lost)
<1>1. ASSUME Typed, Reaching, Held, Blank, AtRest, Calm({"store"}), NEW r \in Rows, NEW m \in Missed(r)
      PROVE  post[r].at = "cut" \/ <<r, m>> \in lost
  <2>1. m \in Others(r) /\ ~Has(m, r)
    BY <1>1 DEF Missed, Has
  <2>2. Unreached(r) = {} \/ post[r].at = "cut"
    BY <1>1, RestIsOver DEF Reaching, Reached, AtRest, Over
  <2>3. m \in timeline[r].to => <<r, m>> \in lost
    BY <1>1, <2>1 DEF Held, Given
  <2>4. QED
    BY <2>1, <2>2, <2>3 DEF Unreached
<1>2. Typed /\ Reaching /\ Held /\ Blank =>
        (AtRest /\ Calm({"store"}) =>
           \A r \in Rows : \A m \in Missed(r) : post[r].at = "cut" \/ <<r, m>> \in lost)
  BY <1>1
<1>3. QED
  BY AllReaching, <1>2, PTL
=============================================================================
