--------------------------- MODULE ConnectionPool ---------------------------
(***************************************************************************)
(* src/pool/ConnectionPool.ts: the counters of connections in use and      *)
(* idle, the queue of waiting acquire() calls with their timers, the       *)
(* close() / start() cycle and the background heartbeat.                   *)
(*                                                                         *)
(* The pool hands out no object: acquire() resolves and release() takes no *)
(* argument.  What a caller may believe it holds is therefore kept in      *)
(* call[c], beside what the pool counts in active.                         *)
(***************************************************************************)
EXTENDS Integers, Sequences, FiniteSets, Functions

CONSTANTS
  Callers,          \* users of acquire() and release()
  MinConnections,   \* options.minConnections
  MaxConnections,   \* options.maxConnections, as the user gives it
  HeartbeatMs,      \* options.heartbeatIntervalMs; 0 means no heartbeat
  Pings             \* ping() calls that may be in flight together

ASSUME PoolAssumption ==
  /\ IsFiniteSet(Callers)
  /\ MinConnections \in Nat
  /\ MaxConnections \in Nat
  /\ HeartbeatMs \in Nat

VARIABLES
  active,     \* _active
  idle,       \* _idle
  waiters,    \* _waiters: the callers in the order they queued
  isClosed,   \* _isClosed
  timer,      \* _heartbeatTimer is set
  healthy,    \* _lastHeartbeatSuccess
  pings,      \* each ping(): not running, sent, or answered and not yet recorded
  dbUp,       \* the database answers (the world outside)
  call,       \* what each caller's last acquire() came to
  abandoned   \* some close() happened while a lease was out (history)

poolVars == <<active, idle, waiters, isClosed>>
beatVars == <<timer, healthy, pings, dbUp>>
vars == <<poolVars, beatVars, call, abandoned>>

(* The constructor raises the maximum to the minimum. *)
Capacity == IF MaxConnections >= MinConnections THEN MaxConnections ELSE MinConnections

Leased  == {c \in Callers : call[c] = "leased"}
Waiting == {c \in Callers : call[c] = "waiting"}

TypeOK ==
  /\ active \in 0..Capacity
  /\ idle \in 0..MinConnections
  /\ waiters \in Seq(Callers)
  /\ isClosed \in BOOLEAN
  /\ timer \in BOOLEAN
  /\ healthy \in BOOLEAN
  /\ pings \in [Pings -> {"none", "sent", "ok", "error"}]
  /\ dbUp \in BOOLEAN
  /\ call \in [Callers -> {"none", "waiting", "leased", "refused"}]
  /\ abandoned \in BOOLEAN

Init ==
  /\ active = 0
  /\ idle = MinConnections
  /\ waiters = <<>>
  /\ isClosed = FALSE
  /\ timer = FALSE
  /\ healthy = TRUE
  /\ pings = [p \in Pings |-> "none"]
  /\ dbUp \in BOOLEAN
  /\ call = [c \in Callers |-> "none"]
  /\ abandoned = FALSE

-----------------------------------------------------------------------------
(* acquire(): throw, take a slot, or queue with a timer. *)

MayCall(c) == call[c] \in {"none", "refused"}

Refuse(c) ==
  /\ MayCall(c)
  /\ isClosed
  /\ call' = [call EXCEPT ![c] = "refused"]
  /\ UNCHANGED <<poolVars, beatVars, abandoned>>

TakeSlotOverLimit(c) ==      \* fault: the limit is checked with <=
  /\ MayCall(c)
  /\ ~isClosed
  /\ active <= Capacity
  /\ active' = active + 1
  /\ idle' = IF idle > 0 THEN idle - 1 ELSE idle
  /\ call' = [call EXCEPT ![c] = "leased"]
  /\ UNCHANGED <<waiters, isClosed, beatVars, abandoned>>

TakeSlot(c) ==
  /\ MayCall(c)
  /\ ~isClosed
  /\ active < Capacity
  /\ active' = active + 1
  /\ idle' = IF idle > 0 THEN idle - 1 ELSE idle
  /\ call' = [call EXCEPT ![c] = "leased"]
  /\ UNCHANGED <<waiters, isClosed, beatVars, abandoned>>

Enqueue(c) ==
  /\ MayCall(c)
  /\ ~isClosed
  /\ active >= Capacity
  /\ waiters' = Append(waiters, c)
  /\ call' = [call EXCEPT ![c] = "waiting"]
  /\ UNCHANGED <<active, idle, isClosed, beatVars, abandoned>>

Acquire(c) == Refuse(c) \/ TakeSlot(c) \/ Enqueue(c)

(* The acquire timer fires: the waiter is spliced out and its promise fails. *)
TimeoutLeavesEntry(c) ==     \* fault: the splice is missing
  /\ call[c] = "waiting"
  /\ call' = [call EXCEPT ![c] = "refused"]
  /\ UNCHANGED <<poolVars, beatVars, abandoned>>

Timeout(c) ==
  \E i \in DOMAIN waiters :
    /\ waiters[i] = c
    /\ waiters' = SubSeq(waiters, 1, i - 1) \o SubSeq(waiters, i + 1, Len(waiters))
    /\ call' = [call EXCEPT ![c] = "refused"]
    /\ UNCHANGED <<active, idle, isClosed, beatVars, abandoned>>

-----------------------------------------------------------------------------
(* release(), called by c: the slot goes to the oldest waiter, whose timer *)
(* is cleared and whose promise resolves, or back to the counters.         *)

HandOverUncounted(c) ==      \* fault: the slot is given back and handed over
  /\ waiters # <<>>
  /\ waiters' = Tail(waiters)
  /\ active' = active - 1
  /\ call' = [call EXCEPT ![c] = "none", ![Head(waiters)] = "leased"]
  /\ UNCHANGED <<idle, isClosed, beatVars, abandoned>>

HandOverToYoungest(c) ==     \* fault: pop() for shift()
  /\ waiters # <<>>
  /\ waiters' = SubSeq(waiters, 1, Len(waiters) - 1)
  /\ call' = [call EXCEPT ![c] = "none", ![waiters[Len(waiters)]] = "leased"]
  /\ UNCHANGED <<active, idle, isClosed, beatVars, abandoned>>

HandOver(c) ==
  /\ waiters # <<>>
  /\ waiters' = Tail(waiters)
  /\ call' = [call EXCEPT ![c] = "none", ![Head(waiters)] = "leased"]
  /\ UNCHANGED <<active, idle, isClosed, beatVars, abandoned>>

GiveBack(c) ==
  /\ waiters = <<>>
  /\ active' = IF active > 0 THEN active - 1 ELSE active
  /\ idle' = IF active' + idle < Capacity /\ idle < MinConnections THEN idle + 1 ELSE idle
  /\ call' = [call EXCEPT ![c] = "none"]
  /\ UNCHANGED <<waiters, isClosed, beatVars, abandoned>>

ReleaseIgnoresQueue(c) ==    \* fault: release() only decrements
  /\ active' = IF active > 0 THEN active - 1 ELSE active
  /\ call' = [call EXCEPT ![c] = "none"]
  /\ UNCHANGED <<idle, waiters, isClosed, beatVars, abandoned>>

ReleaseSlot(c) == HandOver(c) \/ GiveBack(c)

Release(c) == call[c] = "leased" /\ ReleaseSlot(c)

-----------------------------------------------------------------------------
(* start() and close() *)

Start ==
  /\ isClosed' = FALSE
  /\ timer' = (timer \/ HeartbeatMs > 0)
  /\ UNCHANGED <<active, idle, waiters, healthy, pings, dbUp, call, abandoned>>

CloseKeepsIdle ==            \* fault: only the active count is reset
  /\ isClosed' = TRUE
  /\ timer' = FALSE
  /\ waiters' = <<>>
  /\ active' = 0
  /\ call' = [c \in Callers |-> IF call[c] = "waiting" THEN "refused" ELSE call[c]]
  /\ abandoned' = (abandoned \/ Leased # {})
  /\ UNCHANGED <<idle, healthy, pings, dbUp>>

Close ==
  /\ isClosed' = TRUE
  /\ timer' = FALSE
  /\ waiters' = <<>>
  /\ active' = 0
  /\ idle' = 0
  /\ call' = [c \in Callers |-> IF call[c] = "waiting" THEN "refused" ELSE call[c]]
  /\ abandoned' = (abandoned \/ Leased # {})
  /\ UNCHANGED <<healthy, pings, dbUp>>

-----------------------------------------------------------------------------
(* ping(), run by the heartbeat timer, by health() or by a user.  The      *)
(* database answers between the call and the assignment of its outcome.    *)

SendPing(p) ==
  /\ pings[p] = "none"
  /\ pings' = [pings EXCEPT ![p] = "sent"]
  /\ UNCHANGED <<poolVars, timer, healthy, dbUp, call, abandoned>>

Heartbeat == timer /\ \E p \in Pings : SendPing(p)

AnswerPing(p) ==
  /\ pings[p] = "sent"
  /\ pings' = [pings EXCEPT ![p] = IF dbUp THEN "ok" ELSE "error"]
  /\ UNCHANGED <<poolVars, timer, healthy, dbUp, call, abandoned>>

RecordOnlyFailures(p) ==     \* fault: a good answer does not clear the flag
  /\ pings[p] \in {"ok", "error"}
  /\ healthy' = (healthy /\ pings[p] = "ok")
  /\ pings' = [pings EXCEPT ![p] = "none"]
  /\ UNCHANGED <<poolVars, timer, dbUp, call, abandoned>>

RecordPing(p) ==
  /\ pings[p] \in {"ok", "error"}
  /\ healthy' = (pings[p] = "ok")
  /\ pings' = [pings EXCEPT ![p] = "none"]
  /\ UNCHANGED <<poolVars, timer, dbUp, call, abandoned>>

DbFlip == dbUp' = ~dbUp /\ UNCHANGED <<poolVars, timer, healthy, pings, call, abandoned>>

status ==
  IF ~healthy THEN "unhealthy" ELSE IF waiters # <<>> THEN "degraded" ELSE "healthy"

-----------------------------------------------------------------------------
Next ==
  \/ \E c \in Callers : Acquire(c) \/ Timeout(c) \/ Release(c)
  \/ Start \/ Close
  \/ \E p \in Pings : SendPing(p) \/ AnswerPing(p) \/ RecordPing(p)
  \/ DbFlip

Spec == Init /\ [][Next]_vars

(* Holders finish their work and release.  Timers and pings are run by the *)
(* event loop; a timer tick finds a free ping whenever an old one is done. *)
Fairness ==
  /\ \A c \in Callers : WF_vars(Release(c))
  /\ WF_vars(Heartbeat)
  /\ \A p \in Pings : WF_vars(AnswerPing(p)) /\ WF_vars(RecordPing(p))

FairSpec == Spec /\ Fairness

-----------------------------------------------------------------------------
(* The pool never counts a lease nobody holds, so returning every lease    *)
(* gives every slot back; and until some close() abandons leases it counts *)
(* each one, so at most Capacity are out.                                  *)
LeaseAccounting ==
  /\ active <= Cardinality(Leased)
  /\ ~abandoned => active = Cardinality(Leased)

(* No lost wakeup: a caller waits only in an open pool whose slots are all *)
(* in use, so some release() is still to come and will find it.            *)
WaitOnlyWhenFull == waiters # <<>> => active = Capacity /\ ~isClosed

(* Each pending acquire() is in the queue exactly once, and nothing else:  *)
(* a caller timed out or refused by close() is never handed a slot.        *)
QueueIsPending == Waiting = Range(waiters) /\ IsInjective(waiters)

(* In a closed pool nobody is counted, nobody waits and no heartbeat runs. *)
ClosedPoolIsEmpty == isClosed => active = 0 /\ waiters = <<>> /\ ~timer

(* close() leaves no idle connection either, but the late release() calls  *)
(* of leases it abandoned bring some back: stats() of a closed pool counts *)
(* connections again.  They are all that still happens there.  Nobody is   *)
(* granted a slot, and each lease revives at most one idle connection.     *)
ClosedPoolDrains == [][isClosed' =>
  /\ ClosedPoolIsEmpty'
  /\ Leased' \subseteq Leased
  /\ IF isClosed
       THEN idle' + Cardinality(Leased') <= idle + Cardinality(Leased)
       ELSE idle' = 0]_vars

(* Without any timer firing, first-come-first-served hand-over alone gets  *)
(* every waiting caller an answer as long as holders release.              *)
EveryWaiterIsServed == \A c \in Callers : call[c] = "waiting" ~> call[c] # "waiting"

(* One failed heartbeat does not condemn the pool: while the timer runs    *)
(* and the database stays up, status leaves "unhealthy" for good.          *)
HeartbeatRecovers == <>[](timer /\ dbUp) => <>[](status # "unhealthy")

(* Hiding the counters and the heartbeat, the pool is a LeasePool whose    *)
(* overhang is the leases that are out without being counted.              *)
Promise == INSTANCE LeasePool WITH
  holders  <- Leased,
  queue    <- waiters,
  overhang <- Cardinality(Leased) - active

KeepsPromise == Promise!Spec
=============================================================================
