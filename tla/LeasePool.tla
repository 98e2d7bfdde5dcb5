----------------------------- MODULE LeasePool -----------------------------
(***************************************************************************)
(* What a connection pool promises its callers, with none of the counters  *)
(* the code keeps: at most Capacity leases are out at once, a caller waits *)
(* only while they all are, and a returned lease goes to the caller that   *)
(* has waited longest.  Closing the pool forgets the leases it granted     *)
(* without recalling them, so each close may leave "overhang": leases the  *)
(* pool no longer counts against Capacity.                                 *)
(***************************************************************************)
EXTENDS Naturals, Sequences, FiniteSets

CONSTANTS
  Callers,    \* the acquire() requests
  Capacity    \* leases the pool may count as granted at once

VARIABLES
  holders,    \* the callers that hold a lease
  queue,      \* the callers that wait for one, oldest first
  overhang    \* leases that are out but not counted

vars == <<holders, queue, overhang>>

Counted == Cardinality(holders) - overhang

Init ==
  /\ holders = {}
  /\ queue = <<>>
  /\ overhang = 0

(* A caller gets a lease at once while fewer than Capacity are counted. *)
Grant(c) ==
  /\ c \notin holders
  /\ queue = <<>>
  /\ Counted < Capacity
  /\ holders' = holders \cup {c}
  /\ UNCHANGED <<queue, overhang>>

(* Otherwise it joins the end of the queue. *)
Wait(c) ==
  /\ c \notin holders
  /\ \A i \in DOMAIN queue : queue[i] # c
  /\ Counted = Capacity
  /\ queue' = Append(queue, c)
  /\ UNCHANGED <<holders, overhang>>

(* A returned lease passes to the caller that has waited longest ... *)
PassOn(c) ==
  /\ c \in holders
  /\ queue # <<>>
  /\ holders' = (holders \ {c}) \cup {Head(queue)}
  /\ queue' = Tail(queue)
  /\ UNCHANGED overhang

(* ... and with nobody waiting it is counted free, or settles overhang. *)
Return(c) ==
  /\ c \in holders
  /\ queue = <<>>
  /\ holders' = holders \ {c}
  /\ \/ UNCHANGED overhang
     \/ overhang > 0 /\ overhang' = overhang - 1
  /\ UNCHANGED queue

(* A waiting caller gives up: the others keep their order. *)
GiveUp(i) ==
  /\ i \in DOMAIN queue
  /\ queue' = SubSeq(queue, 1, i - 1) \o SubSeq(queue, i + 1, Len(queue))
  /\ UNCHANGED <<holders, overhang>>

(* Everyone waiting is turned away and every lease stops being counted. *)
Close ==
  /\ queue' = <<>>
  /\ overhang' = Cardinality(holders)
  /\ UNCHANGED holders

Next ==
  \/ \E c \in Callers : Grant(c) \/ Wait(c) \/ PassOn(c) \/ Return(c)
  \/ \E i \in DOMAIN queue : GiveUp(i)
  \/ Close

Spec == Init /\ [][Next]_vars
=============================================================================
