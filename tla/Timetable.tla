----------------------------- MODULE Timetable -----------------------------
(***************************************************************************)
(* What the schedule manager promises, with no heap, no entries and no     *)
(* storage: each subscription has a set of instants, its timetable, and    *)
(* the one of them it is due at next.  Whatever is due first fires first,  *)
(* one at a time, not before its time, and goes on to the next instant     *)
(* that has not passed: what was missed is made up for once, and not       *)
(* instant by instant.                                                     *)
(*                                                                         *)
(* A storage call may raise (trouble).  From then on what is due may fire  *)
(* out of turn or early; it is still an instant of its own timetable, and  *)
(* fires once.  Nothing here says that what is due fires at all.           *)
(***************************************************************************)
EXTENDS Naturals

CONSTANT Subs

VARIABLES
  times,     \* the instants each subscription is to fire at
  due,       \* the one it is due at next; 0: it will not fire
  fired,     \* the last time each fired: for which instant, and when
  on,        \* the feature is switched on
  server,    \* "down", "wait" or "dispatch", one fire at a time
  now,       \* the time
  trouble    \* a storage call has raised

vars == <<times, due, fired, on, server, now, trouble>>

\* The first of T to come that satisfies what is asked of it; 0 if there is none.
First(T) == IF T = {} THEN 0 ELSE CHOOSE t \in T : \A u \in T : t <= u

OnOrAfter(T, t) == First({u \in T : u >= t})
After(T, t)     == First({u \in T : u > t})

\* s is given a timetable, is asked to begin now, to rest, or is removed.
Change(s) ==
  /\ server # "down"
  /\ \A t \in Subs \ {s} : times'[t] = times[t] /\ due'[t] = due[t]
  /\ due'[s] \in {0, OnOrAfter(times'[s], now)}
  /\ UNCHANGED <<fired, on, server, now>>

Foremost(s) == due[s] <= now /\ \A t \in Subs : due[t] # 0 => due[s] <= due[t]

\* The instant s is due at is dispatched, and those that have passed with it.
Fire(s) ==
  /\ server = "wait" /\ on /\ due[s] # 0
  /\ trouble \/ Foremost(s)
  /\ fired' = [fired EXCEPT ![s] = [occ |-> due[s], at |-> now]]
  /\ due' = [due EXCEPT ![s] = After(times[s], IF @ >= now THEN @ ELSE now)]
  /\ server' = "dispatch"
  /\ UNCHANGED <<times, on, now>>

Return == server = "dispatch" /\ server' = "wait" /\ UNCHANGED <<times, due, fired, on, now>>

Switch == server # "down" /\ on' = ~on /\ UNCHANGED <<times, due, fired, server, now>>

Tick == now' = now + 1 /\ UNCHANGED <<times, due, fired, on, server>>

\* Nothing is forgotten while the server is down.
Die   == server # "down" /\ server' = "down" /\ UNCHANGED <<times, due, fired, on, now>>
Start == server = "down" /\ server' = "wait" /\ UNCHANGED <<times, due, fired, on, now>>

Rest == UNCHANGED <<times, due, fired, on, server, now>>

Init ==
  /\ due = [s \in Subs |-> 0]
  /\ fired = [s \in Subs |-> [occ |-> 0, at |-> 0]]
  /\ on = TRUE /\ server = "down" /\ now = 1 /\ trouble = FALSE

Next ==
  /\ \/ \E s \in Subs : Change(s) \/ Fire(s)
     \/ Return \/ Switch \/ Tick \/ Die \/ Start \/ Rest
  /\ trouble => trouble'

Spec == Init /\ [][Next]_vars
=============================================================================
