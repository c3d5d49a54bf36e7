----------------------------- MODULE StreamBus -----------------------------
(***************************************************************************)
(* The in-memory pub/sub bus a run is streamed over                        *)
(* (app/events/stream_bus.py), for one conversation: its replay ring, its  *)
(* sequence counter and its subscribers' queues.  Every method holds the   *)
(* bus's lock across no await, so each is one atomic step.                 *)
(*                                                                         *)
(* The module has no next-state relation of its own: ReplyForwarding       *)
(* composes these operations with the runs that publish and the forwarders *)
(* that subscribe.                                                         *)
(***************************************************************************)
EXTENDS Naturals, Sequences

CONSTANTS
  Clients,   \* whoever may subscribe
  RingCap    \* _RING_CAP

ASSUME RingCapAssumption == RingCap \in Nat \ {0}

VARIABLES
  ring,      \* _ring: the frames of the current run, for replay
  seq,       \* _seq: number of the last frame published
  active,    \* _active
  subs,      \* _subs: the clients whose queue the bus holds
  mail       \* what is in a client's queue, the replay it was given first

busVars == <<ring, seq, active, subs, mail>>

Kinds == { "text", "flow_break", "complete", "error" }

\* An event of the bus; which run published it stands for its data.
Frame(run, kind) == [run |-> run, kind |-> kind, seq |-> seq + 1]

\* del ring[: len(ring) - _RING_CAP]: the oldest frames are dropped.
Newest(s) == IF Len(s) > RingCap THEN SubSeq(s, Len(s) - RingCap + 1, Len(s)) ELSE s

\* put_nowait on every subscriber's queue; queues are unbounded.
FannedOut(frame) ==
  [c \in Clients |-> IF c \in subs THEN Append(mail[c], frame) ELSE mail[c]]

InitBus ==
  /\ ring = <<>> /\ seq = 0 /\ active = FALSE
  /\ subs = {} /\ mail = [c \in Clients |-> <<>>]

\* The ring is emptied; the counter is not.
StartStream == ring' = <<>> /\ active' = TRUE /\ UNCHANGED <<seq, subs, mail>>

EndStream == ring' = <<>> /\ active' = FALSE /\ UNCHANGED <<seq, subs, mail>>

Publish(run, kind) ==
  /\ seq' = seq + 1
  /\ ring' = Newest(Append(ring, Frame(run, kind)))
  /\ mail' = FannedOut(Frame(run, kind))
  /\ UNCHANGED <<active, subs>>

\* Mutant: end_run leaves the replay buffer.
PublishLastKeep(run, kind) ==
  /\ seq' = seq + 1
  /\ mail' = FannedOut(Frame(run, kind))
  /\ ring' = Newest(Append(ring, Frame(run, kind))) /\ active' = FALSE
  /\ UNCHANGED subs

\* publish, then end_run with no suspension in between.
PublishLast(run, kind) ==
  /\ seq' = seq + 1
  /\ mail' = FannedOut(Frame(run, kind))
  /\ ring' = <<>> /\ active' = FALSE
  /\ UNCHANGED subs

\* The queue is registered and the ring copied under one hold of the lock.
Subscribe(c) ==
  /\ subs' = subs \cup {c}
  /\ mail' = [mail EXCEPT ![c] = ring]
  /\ UNCHANGED <<ring, seq, active>>

Unsubscribe(c) ==
  /\ subs' = subs \ {c}
  /\ mail' = [mail EXCEPT ![c] = <<>>]
  /\ UNCHANGED <<ring, seq, active>>

\* All state for the id is dropped, the counter included; a subscriber keeps
\* its queue and hears nothing more.
Discard ==
  /\ ring' = <<>> /\ seq' = 0 /\ active' = FALSE /\ subs' = {}
  /\ UNCHANGED mail
=============================================================================
