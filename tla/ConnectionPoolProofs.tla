------------------------ MODULE ConnectionPoolProofs ------------------------
(***************************************************************************)
(* Proofs about ConnectionPool, for every finite set of callers and every  *)
(* size of the pool.                                                       *)
(***************************************************************************)
EXTENDS ConnectionPool, FiniteSetTheorems, SequenceTheorems, TLAPS

(* The five state properties together are inductive: counting (Lease-      *)
(* Accounting) needs the head of the queue not to hold a lease already     *)
(* (QueueIsPending), and no wake-up is lost only because a slot is freed   *)
(* when nobody waits (WaitOnlyWhenFull).                                   *)
IInv ==
  /\ TypeOK
  /\ QueueIsPending
  /\ WaitOnlyWhenFull
  /\ ClosedPoolIsEmpty
  /\ LeaseAccounting

(* The constructor's maximum is a natural number, at least the minimum.    *)
LEMMA CapacityType == Capacity \in Nat /\ MinConnections <= Capacity
BY PoolAssumption DEF Capacity

(* The leases that are out can be counted.                                 *)
LEMMA LeasedFinite == IsFiniteSet(Leased) /\ Cardinality(Leased) \in Nat
<1>1. Leased \subseteq Callers
  BY DEF Leased
<1>2. IsFiniteSet(Leased)
  BY <1>1, PoolAssumption, FS_Subset
<1> QED
  BY <1>2, FS_CardinalityType

(* Splicing position i out of the queue (the timer of acquire()) keeps the *)
(* order of the others and drops exactly that entry.                       *)
LEMMA SpliceQueue ==
  ASSUME NEW S, NEW q \in Seq(S), NEW i \in 1..Len(q)
  PROVE  LET r == SubSeq(q, 1, i - 1) \o SubSeq(q, i + 1, Len(q))
         IN  /\ r \in Seq(S)
             /\ Len(r) = Len(q) - 1
             /\ \A j \in 1..Len(r) : r[j] = IF j < i THEN q[j] ELSE q[j + 1]
<1> DEFINE a == SubSeq(q, 1, i - 1)
           b == SubSeq(q, i + 1, Len(q))
<1>0. Len(q) \in Nat
  OBVIOUS
<1>1. a \in Seq(S) /\ Len(a) = i - 1 /\ \A j \in 1..(i - 1) : a[j] = q[j]
  BY <1>0
<1>2. b \in Seq(S) /\ Len(b) = Len(q) - i /\ \A j \in 1..(Len(q) - i) : b[j] = q[j + i]
  BY <1>0
<1> HIDE DEF a, b
<1>3. /\ a \o b \in Seq(S) /\ Len(a \o b) = Len(q) - 1
      /\ \A j \in 1..Len(a \o b) : (a \o b)[j] = IF j <= Len(a) THEN a[j] ELSE b[j - Len(a)]
  BY <1>1, <1>2, <1>0, ConcatProperties
<1>4. ASSUME NEW j \in 1..Len(a \o b)
      PROVE  (a \o b)[j] = IF j < i THEN q[j] ELSE q[j + 1]
  <2>1. CASE j < i
    BY <2>1, <1>0, <1>1, <1>2, <1>3
  <2>2. CASE j >= i
    BY <2>2, <1>0, <1>1, <1>2, <1>3
  <2> QED
    BY <2>1, <2>2, <1>0
<1> QED
  BY <1>3, <1>4 DEF a, b

(* Without the entry at position i, a queue of distinct callers lists the  *)
(* same callers but that one, still each of them once.                     *)
LEMMA DropEntry ==
  ASSUME NEW q, NEW r, NEW n \in Nat, NEW i \in 1..n,
         DOMAIN q = 1..n, DOMAIN r = 1..(n - 1),
         \A j \in 1..(n - 1) : r[j] = IF j < i THEN q[j] ELSE q[j + 1],
         IsInjective(q)
  PROVE  Range(r) = Range(q) \ {q[i]} /\ IsInjective(r)
<1> DEFINE from(j) == IF j < i THEN j ELSE j + 1
<1>1. \A j \in 1..(n - 1) : from(j) \in 1..n /\ from(j) # i /\ r[j] = q[from(j)]
  OBVIOUS
<1>2. \A j, k \in 1..(n - 1) : j # k => from(j) # from(k)
  OBVIOUS
<1>3. ASSUME NEW k \in 1..n, k # i
      PROVE  \E j \in 1..(n - 1) : r[j] = q[k]
  <2>1. CASE k < i
    <3>1. k \in 1..(n - 1) /\ r[k] = q[k]
      BY <2>1
    <3> QED
      BY <3>1
  <2>2. CASE k > i
    <3>1. k - 1 \in 1..(n - 1) /\ from(k - 1) = k
      BY <2>2
    <3>2. r[k - 1] = q[k]
      BY <3>1, <1>1
    <3> QED
      BY <3>1, <3>2
  <2> QED
    BY <2>1, <2>2, <1>3
<1> HIDE DEF from
<1>4. ASSUME NEW x \in Range(r)
      PROVE  x \in Range(q) \ {q[i]}
  <2>1. PICK j \in 1..(n - 1) : x = r[j]
    BY DEF Range
  <2>2. x = q[from(j)] /\ from(j) \in 1..n /\ from(j) # i
    BY <2>1, <1>1
  <2> QED
    BY <2>2 DEF Range, IsInjective
<1>5. ASSUME NEW x \in Range(q), x # q[i]
      PROVE  x \in Range(r)
  BY <1>3, <1>5 DEF Range
<1>6. IsInjective(r)
  BY <1>1, <1>2 DEF IsInjective
<1> QED
  BY <1>4, <1>5, <1>6

-----------------------------------------------------------------------------
(* How each kind of step changes who holds a lease.                        *)

LEMMA LeaseGained ==
  ASSUME NEW c \in Callers, call \in [Callers -> {"none", "waiting", "leased", "refused"}],
         call' = [call EXCEPT ![c] = "leased"], call[c] # "leased"
  PROVE  Cardinality(Leased') = Cardinality(Leased) + 1
<1>1. Leased' = Leased \cup {c} /\ c \notin Leased
  BY DEF Leased
<1> QED
  BY <1>1, LeasedFinite, FS_AddElement

LEMMA LeaseDropped ==
  ASSUME NEW c \in Callers, call \in [Callers -> {"none", "waiting", "leased", "refused"}],
         call' = [call EXCEPT ![c] = "none"], call[c] = "leased"
  PROVE  Cardinality(Leased') = Cardinality(Leased) - 1 /\ Cardinality(Leased) > 0
<1>1. Leased' = Leased \ {c} /\ c \in Leased
  BY DEF Leased
<1>2. Cardinality(Leased) # 0
  BY <1>1, LeasedFinite, FS_EmptySet
<1> QED
  BY <1>1, <1>2, LeasedFinite, FS_RemoveElement

LEMMA LeaseMoved ==
  ASSUME NEW c \in Callers, NEW d \in Callers,
         call \in [Callers -> {"none", "waiting", "leased", "refused"}],
         call' = [call EXCEPT ![c] = "none", ![d] = "leased"],
         call[c] = "leased", call[d] # "leased"
  PROVE  Cardinality(Leased') = Cardinality(Leased)
<1>1. Leased' = (Leased \ {c}) \cup {d} /\ c \in Leased /\ d \notin Leased \ {c}
  BY DEF Leased
<1>2. IsFiniteSet(Leased \ {c}) /\ Cardinality(Leased \ {c}) = Cardinality(Leased) - 1
  BY <1>1, LeasedFinite, FS_RemoveElement
<1> DEFINE rest == Leased \ {c}
<1>3. Cardinality(rest \cup {d}) = Cardinality(rest) + 1
  <2> HIDE DEF rest
  <2> QED
    BY <1>1, <1>2, FS_AddElement DEF rest
<1> QED
  BY <1>1, <1>2, <1>3, LeasedFinite

LEMMA LeasedSame ==
  ASSUME \A c \in Callers : call'[c] = "leased" <=> call[c] = "leased"
  PROVE  Leased' = Leased
BY DEF Leased

-----------------------------------------------------------------------------
(* Initially the pool has counted nothing and nobody waits.                *)
LEMMA InitInv == Init => IInv
<1> SUFFICES ASSUME Init PROVE IInv
  OBVIOUS
<1> USE CapacityType
<1>1. Leased = {} /\ Waiting = {}
  BY DEF Init, Leased, Waiting
<1>2. TypeOK
  <2>1. active \in 0..Capacity /\ idle \in 0..MinConnections
    BY PoolAssumption DEF Init
  <2>2. waiters \in Seq(Callers)
    BY DEF Init
  <2>3. /\ pings \in [Pings -> {"none", "sent", "ok", "error"}]
        /\ call \in [Callers -> {"none", "waiting", "leased", "refused"}]
    BY DEF Init
  <2>4. {isClosed, timer, healthy, dbUp, abandoned} \subseteq BOOLEAN
    BY DEF Init
  <2> QED
    BY <2>1, <2>2, <2>3, <2>4 DEF TypeOK
<1>3. QueueIsPending /\ WaitOnlyWhenFull /\ ClosedPoolIsEmpty
  BY <1>1 DEF Init, QueueIsPending, WaitOnlyWhenFull, ClosedPoolIsEmpty, Range, IsInjective
<1>4. LeaseAccounting
  BY <1>1, FS_EmptySet DEF Init, LeaseAccounting
<1> QED
  BY <1>2, <1>3, <1>4 DEF IInv

(* acquire(): each of its three outcomes preserves the invariant.          *)
LEMMA AcquireInv == \A c \in Callers : IInv /\ Acquire(c) => IInv'
<1> SUFFICES ASSUME NEW c \in Callers, IInv, Acquire(c) PROVE IInv'
  OBVIOUS
<1> USE CapacityType, PoolAssumption
<1>0. TypeOK /\ QueueIsPending /\ WaitOnlyWhenFull /\ ClosedPoolIsEmpty /\ LeaseAccounting
  BY DEF IInv
<1>1. CASE Refuse(c)
  <2>1. TypeOK'
    BY <1>0, <1>1 DEF TypeOK, Refuse, poolVars, beatVars
  <2>2. Leased' = Leased /\ Waiting' = Waiting
    BY <1>0, <1>1 DEF Refuse, MayCall, TypeOK, Leased, Waiting
  <2> QED
    BY <1>0, <1>1, <2>1, <2>2 DEF IInv, Refuse, poolVars, beatVars,
       QueueIsPending, WaitOnlyWhenFull, ClosedPoolIsEmpty, LeaseAccounting
<1>2. CASE TakeSlot(c)
  <2>1. TypeOK'
    BY <1>0, <1>2 DEF TypeOK, TakeSlot, beatVars
  <2>2. Cardinality(Leased') = Cardinality(Leased) + 1
    BY <1>0, <1>2, LeaseGained DEF TakeSlot, MayCall, TypeOK
  <2>3. Waiting' = Waiting
    BY <1>0, <1>2 DEF TakeSlot, MayCall, TypeOK, Waiting
  <2>4. LeaseAccounting'
    BY <1>0, <1>2, <2>2, LeasedFinite DEF TakeSlot, LeaseAccounting, TypeOK
  <2>5. waiters = <<>>
    BY <1>0, <1>2 DEF TakeSlot, WaitOnlyWhenFull, TypeOK
  <2> QED
    BY <1>0, <1>2, <2>1, <2>3, <2>4, <2>5 DEF IInv, TakeSlot, beatVars,
       QueueIsPending, WaitOnlyWhenFull, ClosedPoolIsEmpty
<1>3. CASE Enqueue(c)
  <2>1. TypeOK'
    BY <1>0, <1>3 DEF TypeOK, Enqueue, beatVars
  <2>2. Leased' = Leased /\ Waiting' = Waiting \cup {c} /\ c \notin Waiting
    BY <1>0, <1>3 DEF Enqueue, MayCall, TypeOK, Leased, Waiting
  <2>3. /\ DOMAIN waiters = 1..Len(waiters) /\ Len(waiters) \in Nat
        /\ DOMAIN waiters' = 1..(Len(waiters) + 1)
        /\ \A i \in 1..Len(waiters) : waiters'[i] = waiters[i]
        /\ waiters'[Len(waiters) + 1] = c
    BY <1>0, <1>3 DEF Enqueue, TypeOK
  <2>4. Range(waiters') = Range(waiters) \cup {c}
    BY <1>0, <2>3 DEF Range
  <2>5. IsInjective(waiters')
    BY <1>0, <2>2, <2>3 DEF IsInjective, Range, QueueIsPending
  <2>6. active = Capacity
    BY <1>0, <1>3 DEF Enqueue, TypeOK
  <2> QED
    BY <1>0, <1>3, <2>1, <2>2, <2>4, <2>5, <2>6 DEF IInv, Enqueue, beatVars,
       QueueIsPending, WaitOnlyWhenFull, ClosedPoolIsEmpty, LeaseAccounting
<1> QED
  BY <1>1, <1>2, <1>3 DEF Acquire

(* The acquire timer: the spliced queue still lists the pending callers.   *)
LEMMA TimeoutInv == \A c \in Callers : IInv /\ Timeout(c) => IInv'
<1> SUFFICES ASSUME NEW c \in Callers, IInv, Timeout(c) PROVE IInv'
  OBVIOUS
<1> USE CapacityType, PoolAssumption
<1>0. TypeOK /\ QueueIsPending /\ WaitOnlyWhenFull /\ ClosedPoolIsEmpty /\ LeaseAccounting
  BY DEF IInv
<1>1. PICK i \in DOMAIN waiters :
        /\ waiters[i] = c
        /\ waiters' = SubSeq(waiters, 1, i - 1) \o SubSeq(waiters, i + 1, Len(waiters))
        /\ call' = [call EXCEPT ![c] = "refused"]
        /\ UNCHANGED <<active, idle, isClosed, beatVars, abandoned>>
  BY DEF Timeout
<1>2. Len(waiters) \in Nat /\ DOMAIN waiters = 1..Len(waiters) /\ i \in 1..Len(waiters)
  BY <1>0, <1>1 DEF TypeOK
<1>3. /\ waiters' \in Seq(Callers)
      /\ Len(waiters') = Len(waiters) - 1
      /\ \A j \in 1..Len(waiters') :
           waiters'[j] = IF j < i THEN waiters[j] ELSE waiters[j + 1]
  BY <1>0, <1>1, <1>2, SpliceQueue DEF TypeOK
<1>4. call[c] = "waiting"
  BY <1>0, <1>1 DEF QueueIsPending, Waiting, Range
<1>5. Leased' = Leased /\ Waiting' = Waiting \ {c}
  BY <1>0, <1>1, <1>4 DEF TypeOK, Leased, Waiting
<1>6. TypeOK'
  BY <1>0, <1>1, <1>3 DEF TypeOK, beatVars
<1>7. QueueIsPending'
  <2>1. DOMAIN waiters' = 1..(Len(waiters) - 1)
    BY <1>2, <1>3
  <2>2. /\ IsInjective(waiters)
        /\ \A j \in 1..(Len(waiters) - 1) :
             waiters'[j] = IF j < i THEN waiters[j] ELSE waiters[j + 1]
    BY <1>0, <1>2, <1>3 DEF QueueIsPending
  <2>3. Range(waiters') = Range(waiters) \ {waiters[i]} /\ IsInjective(waiters')
    BY <1>2, <2>1, <2>2, DropEntry
  <2> QED
    BY <1>0, <1>1, <1>5, <2>3 DEF QueueIsPending
<1>8. WaitOnlyWhenFull' /\ ClosedPoolIsEmpty' /\ LeaseAccounting'
  <2>1. waiters # <<>>
    BY <1>2
  <2> QED
    BY <1>0, <1>1, <1>5, <2>1
       DEF WaitOnlyWhenFull, ClosedPoolIsEmpty, LeaseAccounting, beatVars
<1> QED
  BY <1>6, <1>7, <1>8 DEF IInv

(* release(): the head of the queue inherits the slot, or the slot is      *)
(* given back when nobody waits.                                           *)
LEMMA ReleaseInv == \A c \in Callers : IInv /\ Release(c) => IInv'
<1> SUFFICES ASSUME NEW c \in Callers, IInv, Release(c) PROVE IInv'
  OBVIOUS
<1> USE CapacityType, PoolAssumption
<1>0. TypeOK /\ QueueIsPending /\ WaitOnlyWhenFull /\ ClosedPoolIsEmpty /\ LeaseAccounting
  BY DEF IInv
<1>1. call[c] = "leased"
  BY DEF Release
<1>2. CASE HandOver(c)
  <2> DEFINE d == Head(waiters)
  <2>1. /\ waiters # <<>> /\ waiters' = Tail(waiters)
        /\ call' = [call EXCEPT ![c] = "none", ![d] = "leased"]
        /\ UNCHANGED <<active, idle, isClosed, beatVars, abandoned>>
    BY <1>2 DEF HandOver
  <2>2. /\ Len(waiters) \in Nat /\ DOMAIN waiters = 1..Len(waiters)
        /\ 1 \in 1..Len(waiters) /\ d = waiters[1]
    BY <1>0, <2>1 DEF TypeOK
  <2>3. /\ waiters' \in Seq(Callers) /\ DOMAIN waiters' = 1..(Len(waiters) - 1)
        /\ \A j \in 1..(Len(waiters) - 1) : waiters'[j] = waiters[j + 1]
    BY <1>0, <2>1, <2>2 DEF TypeOK
  <2>4. d \in Waiting /\ d \in Callers /\ call[d] = "waiting"
    BY <1>0, <2>2 DEF QueueIsPending, Waiting, Range
  <2> HIDE DEF d
  <2>5. Cardinality(Leased') = Cardinality(Leased)
    BY <1>0, <1>1, <2>1, <2>4, LeaseMoved DEF TypeOK
  <2>6. Waiting' = Waiting \ {d}
    BY <1>0, <1>1, <2>1, <2>4 DEF TypeOK, Waiting
  <2>7. TypeOK'
    BY <1>0, <2>1, <2>3, <2>4 DEF TypeOK, beatVars
  <2>8. QueueIsPending'
    <3>1. \A j \in 1..(Len(waiters) - 1) :
            waiters'[j] = IF j < 1 THEN waiters[j] ELSE waiters[j + 1]
      BY <2>3
    <3>2. IsInjective(waiters)
      BY <1>0 DEF QueueIsPending
    <3>3. Range(waiters') = Range(waiters) \ {waiters[1]} /\ IsInjective(waiters')
      BY <2>2, <2>3, <3>1, <3>2, DropEntry
    <3> QED
      BY <1>0, <2>2, <2>6, <3>3 DEF QueueIsPending
  <2> QED
    BY <1>0, <2>1, <2>5, <2>7, <2>8
       DEF IInv, WaitOnlyWhenFull, ClosedPoolIsEmpty, LeaseAccounting, beatVars
<1>3. CASE GiveBack(c)
  <2>1. /\ waiters = <<>> /\ waiters' = <<>>
        /\ active' = IF active > 0 THEN active - 1 ELSE active
        /\ call' = [call EXCEPT ![c] = "none"]
        /\ UNCHANGED <<isClosed, beatVars, abandoned>>
    BY <1>3 DEF GiveBack
  <2>2. Cardinality(Leased') = Cardinality(Leased) - 1 /\ Cardinality(Leased) > 0
    BY <1>0, <1>1, <2>1, LeaseDropped DEF TypeOK
  <2>3. Waiting' = Waiting
    BY <1>0, <1>1, <2>1 DEF TypeOK, Waiting
  <2>4. active' \in 0..Capacity /\ idle' \in 0..MinConnections
    BY <1>0, <1>3 DEF TypeOK, GiveBack
  <2>5. TypeOK'
    BY <1>0, <2>1, <2>4 DEF TypeOK, beatVars
  <2>6. LeaseAccounting'
    BY <1>0, <2>1, <2>2, LeasedFinite DEF LeaseAccounting, TypeOK
  <2> QED
    BY <1>0, <2>1, <2>3, <2>5, <2>6
       DEF IInv, QueueIsPending, WaitOnlyWhenFull, ClosedPoolIsEmpty, TypeOK, beatVars
<1> QED
  BY <1>2, <1>3 DEF Release, ReleaseSlot

(* start() and close(): reopening changes no count; closing empties the    *)
(* queue and zeroes the counts, whoever still holds a lease.               *)
LEMMA StartInv == IInv /\ Start => IInv'
<1> SUFFICES ASSUME IInv, Start PROVE IInv'
  OBVIOUS
<1>1. TypeOK'
  BY DEF IInv, TypeOK, Start
<1>2. Leased' = Leased /\ Waiting' = Waiting
  BY DEF Start, Leased, Waiting
<1> QED
  BY <1>1, <1>2 DEF IInv, Start, QueueIsPending, WaitOnlyWhenFull, ClosedPoolIsEmpty,
     LeaseAccounting

LEMMA CloseInv == IInv /\ Close => IInv'
<1> SUFFICES ASSUME IInv, Close PROVE IInv'
  OBVIOUS
<1> USE CapacityType, PoolAssumption
<1>1. TypeOK
  BY DEF IInv
<1>2. TypeOK'
  <2>1. active' \in 0..Capacity /\ idle' \in 0..MinConnections /\ waiters' \in Seq(Callers)
    BY DEF Close
  <2>2. call' \in [Callers -> {"none", "waiting", "leased", "refused"}]
    BY <1>1 DEF Close, TypeOK
  <2>3. isClosed' \in BOOLEAN /\ timer' \in BOOLEAN /\ abandoned' \in BOOLEAN
    BY <1>1 DEF Close, TypeOK
  <2>4. UNCHANGED <<healthy, pings, dbUp>>
    BY DEF Close
  <2> QED
    BY <1>1, <2>1, <2>2, <2>3, <2>4 DEF TypeOK
<1>3. Leased' = Leased /\ Waiting' = {}
  BY <1>1 DEF Close, TypeOK, Leased, Waiting
<1>4. QueueIsPending'
  BY <1>3 DEF Close, QueueIsPending, Range, IsInjective
<1>5. LeaseAccounting'
  <2>1. active' = 0 /\ (~abandoned' => Leased' = {})
    BY <1>3 DEF Close
  <2>2. Cardinality(Leased') \in Nat
    BY <1>3, LeasedFinite
  <2> QED
    BY <2>1, <2>2, FS_EmptySet DEF LeaseAccounting
<1>6. WaitOnlyWhenFull' /\ ClosedPoolIsEmpty'
  BY DEF Close, WaitOnlyWhenFull, ClosedPoolIsEmpty
<1> QED
  BY <1>2, <1>4, <1>5, <1>6 DEF IInv

(* The heartbeat reads and writes nothing the lease counts depend on.      *)
BeatStep == DbFlip \/ \E p \in Pings : SendPing(p) \/ AnswerPing(p) \/ RecordPing(p)

LEMMA BeatKeepsPool == BeatStep => UNCHANGED <<poolVars, timer, call, abandoned>>
BY DEF BeatStep, DbFlip, SendPing, AnswerPing, RecordPing

LEMMA BeatInv == IInv /\ BeatStep => IInv'
<1> SUFFICES ASSUME IInv, BeatStep PROVE IInv'
  OBVIOUS
<1>1. UNCHANGED <<active, idle, waiters, isClosed, timer, call, abandoned>>
  BY BeatKeepsPool DEF poolVars
<1>2. /\ healthy' \in BOOLEAN /\ dbUp' \in BOOLEAN
      /\ pings' \in [Pings -> {"none", "sent", "ok", "error"}]
  <2>0. TypeOK
    BY DEF IInv
  <2>1. CASE DbFlip
    BY <2>0, <2>1 DEF DbFlip, TypeOK
  <2>2. ASSUME NEW p \in Pings, SendPing(p) \/ AnswerPing(p) \/ RecordPing(p)
        PROVE  /\ healthy' \in BOOLEAN /\ dbUp' \in BOOLEAN
               /\ pings' \in [Pings -> {"none", "sent", "ok", "error"}]
    BY <2>0, <2>2 DEF SendPing, AnswerPing, RecordPing, TypeOK
  <2> QED
    BY <2>1, <2>2 DEF BeatStep
<1>3. TypeOK'
  BY <1>1, <1>2 DEF IInv, TypeOK
<1>4. Leased' = Leased /\ Waiting' = Waiting
  BY <1>1 DEF Leased, Waiting
<1> QED
  BY <1>1, <1>3, <1>4 DEF IInv, QueueIsPending, WaitOnlyWhenFull, ClosedPoolIsEmpty,
     LeaseAccounting

LEMMA StepInv == IInv /\ [Next]_vars => IInv'
<1> SUFFICES ASSUME IInv, [Next]_vars PROVE IInv'
  OBVIOUS
<1>1. CASE \E c \in Callers : Acquire(c) \/ Timeout(c) \/ Release(c)
  BY <1>1, AcquireInv, TimeoutInv, ReleaseInv
<1>2. CASE Start \/ Close
  BY <1>2, StartInv, CloseInv
<1>3. CASE BeatStep
  BY <1>3, BeatInv
<1>4. CASE UNCHANGED vars
  BY <1>4 DEF vars, poolVars, beatVars, IInv, TypeOK, QueueIsPending, WaitOnlyWhenFull,
     ClosedPoolIsEmpty, LeaseAccounting, Leased, Waiting
<1> QED
  BY <1>1, <1>2, <1>3, <1>4 DEF Next, BeatStep

-----------------------------------------------------------------------------
(* The counts, the queue and the closed flag agree in every reachable      *)
(* state of every pool.                                                    *)
THEOREM PoolInvariant == Spec => []IInv
<1>1. IInv /\ [Next]_vars => IInv'
  BY StepInv
<1> QED
  BY <1>1, InitInv, PTL DEF Spec

(* Variables keep their types: at most Capacity slots are ever counted.    *)
THEOREM PoolTypeOK == Spec => []TypeOK
<1>1. IInv => TypeOK
  BY DEF IInv
<1> QED
  BY <1>1, PoolInvariant, PTL

(* No slot is lost and none is granted twice: the pool counts each lease   *)
(* that is out, except those some close() abandoned.                       *)
THEOREM PoolAccounting == Spec => []LeaseAccounting
<1>1. IInv => LeaseAccounting
  BY DEF IInv
<1> QED
  BY <1>1, PoolInvariant, PTL

(* Nobody waits beside a free slot or in a closed pool.                    *)
THEOREM PoolNoLostWakeup == Spec => []WaitOnlyWhenFull
<1>1. IInv => WaitOnlyWhenFull
  BY DEF IInv
<1> QED
  BY <1>1, PoolInvariant, PTL

(* The queue lists the pending acquire() calls, each of them once.         *)
THEOREM PoolQueue == Spec => []QueueIsPending
<1>1. IInv => QueueIsPending
  BY DEF IInv
<1> QED
  BY <1>1, PoolInvariant, PTL

(* Late releases are all that still happens in a closed pool.              *)
LEMMA ClosedStep ==
  ASSUME IInv, IInv', Next, isClosed'
  PROVE  /\ ClosedPoolIsEmpty' /\ Leased' \subseteq Leased
         /\ IF isClosed
              THEN idle' + Cardinality(Leased') <= idle + Cardinality(Leased)
              ELSE idle' = 0
<1> USE CapacityType, PoolAssumption
<1>0. TypeOK /\ ClosedPoolIsEmpty /\ ClosedPoolIsEmpty' /\ idle \in Nat
  BY DEF IInv, TypeOK
<1>1. Cardinality(Leased) \in Nat
  BY LeasedFinite
<1>2. CASE Close
  <2>1. Leased' = Leased
    BY <1>0, <1>2 DEF Close, TypeOK, Leased
  <2>2. idle' = 0
    BY <1>2 DEF Close
  <2>3. 0 + Cardinality(Leased) <= idle + Cardinality(Leased)
    BY <1>0, <1>1
  <2> QED
    BY <1>0, <2>1, <2>2, <2>3
<1>3. ASSUME NEW c \in Callers, Acquire(c) \/ Timeout(c)
      PROVE  isClosed /\ idle' = idle /\ Leased' = Leased
  <2>1. waiters = <<>> /\ isClosed
    BY <1>0, <1>3 DEF Acquire, Refuse, TakeSlot, Enqueue, Timeout, poolVars, ClosedPoolIsEmpty
  <2> QED
    BY <1>0, <1>3, <2>1
       DEF Acquire, Refuse, TakeSlot, Enqueue, Timeout, MayCall, poolVars, TypeOK, Leased
<1>4. ASSUME NEW c \in Callers, Release(c)
      PROVE  /\ isClosed /\ idle' <= idle + 1 /\ idle' \in Nat
             /\ Leased' \subseteq Leased /\ Cardinality(Leased') = Cardinality(Leased) - 1
  <2>1. isClosed /\ waiters = <<>> /\ call[c] = "leased" /\ GiveBack(c)
    BY <1>0, <1>4 DEF Release, ReleaseSlot, HandOver, GiveBack, ClosedPoolIsEmpty
  <2>2. call' = [call EXCEPT ![c] = "none"]
    BY <2>1 DEF GiveBack
  <2>3. Leased' = Leased \ {c} /\ Cardinality(Leased') = Cardinality(Leased) - 1
    BY <1>0, <2>1, <2>2, LeaseDropped DEF TypeOK, Leased
  <2>4. idle' <= idle + 1 /\ idle' \in Nat
    BY <1>0, <2>1 DEF GiveBack
  <2> QED
    BY <2>1, <2>3, <2>4
<1>5. CASE BeatStep
  <2>1. UNCHANGED <<active, idle, waiters, isClosed, timer, call>>
    BY <1>5, BeatKeepsPool DEF poolVars
  <2>2. Leased' = Leased /\ idle' = idle
    BY <2>1 DEF Leased
  <2>3. isClosed
    BY <2>1
  <2> QED
    BY <1>0, <1>1, <2>2, <2>3
<1>6. ~Start
  BY DEF Start
<1>7. Next => Close \/ BeatStep \/ \E c \in Callers : Acquire(c) \/ Timeout(c) \/ Release(c)
  BY <1>6 DEF Next, BeatStep
<1>8. ASSUME NEW c \in Callers, Release(c)
      PROVE  /\ ClosedPoolIsEmpty' /\ Leased' \subseteq Leased
             /\ isClosed /\ idle' + Cardinality(Leased') <= idle + Cardinality(Leased)
  <2>1. idle' <= idle + 1 /\ idle' \in Nat /\ Cardinality(Leased') = Cardinality(Leased) - 1
    BY <1>4, <1>8
  <2>2. idle' + Cardinality(Leased') <= idle + Cardinality(Leased)
    BY <1>0, <1>1, <2>1
  <2> QED
    BY <1>0, <1>4, <1>8, <2>2
<1>9. ASSUME NEW c \in Callers, Acquire(c) \/ Timeout(c)
      PROVE  /\ ClosedPoolIsEmpty' /\ Leased' \subseteq Leased
             /\ isClosed /\ idle' + Cardinality(Leased') <= idle + Cardinality(Leased)
  BY <1>0, <1>1, <1>3, <1>9
<1> QED
  BY <1>2, <1>5, <1>7, <1>8, <1>9

(* A closed pool only drains: nobody is granted a slot, and a late         *)
(* release() revives at most the one idle connection it gives back.        *)
THEOREM PoolClosedDrains == Spec => ClosedPoolDrains
<1>1. IInv /\ IInv' /\ Next /\ isClosed' =>
        /\ ClosedPoolIsEmpty' /\ Leased' \subseteq Leased
        /\ IF isClosed
             THEN idle' + Cardinality(Leased') <= idle + Cardinality(Leased)
             ELSE idle' = 0
  BY ClosedStep
<1> DEFINE Drains == isClosed' =>
      /\ ClosedPoolIsEmpty'
      /\ Leased' \subseteq Leased
      /\ IF isClosed
           THEN idle' + Cardinality(Leased') <= idle + Cardinality(Leased)
           ELSE idle' = 0
<1>2. IInv /\ IInv' /\ [Next]_vars => [Drains]_vars
  BY <1>1
<1>3. Spec => [][Drains]_vars
  BY <1>2, PoolInvariant, PTL DEF Spec
<1> QED
  BY <1>3 DEF ClosedPoolDrains

(* The pool implements LeasePool.  Each step of the pool is matched by the *)
(* promise's step of the same purpose; heartbeats, restarts and refusals   *)
(* change nothing the promise speaks of.                                   *)

LEMMA SameCardinality == \A S : Promise!Cardinality(S) = Cardinality(S)
BY DEF Promise!Cardinality, Cardinality

LEMMA PromiseCounts == IInv => Promise!Counted = active
BY LeasedFinite, CapacityType, SameCardinality DEF IInv, TypeOK, Promise!Counted

LEMMA PromiseInit == Init => Promise!Init
<1> SUFFICES ASSUME Init PROVE Promise!Init
  OBVIOUS
<1>1. Leased = {}
  BY DEF Init, Leased
<1> QED
  BY <1>1, FS_EmptySet DEF Init, Promise!Init

LEMMA PromiseAcquire ==
  \A c \in Callers : IInv /\ Acquire(c) => [Promise!Next]_Promise!vars
<1> SUFFICES ASSUME NEW c \in Callers, IInv, Acquire(c)
             PROVE  [Promise!Next]_Promise!vars
  OBVIOUS
<1> USE CapacityType
<1>0. TypeOK /\ QueueIsPending /\ WaitOnlyWhenFull
  BY DEF IInv
<1>1. CASE Refuse(c)
  <2>1. Leased' = Leased
    BY <1>0, <1>1 DEF Refuse, MayCall, TypeOK, Leased
  <2> QED
    BY <1>1, <2>1 DEF Refuse, poolVars, Promise!vars
<1>2. CASE TakeSlot(c)
  <2>1. Cardinality(Leased') = Cardinality(Leased) + 1
    BY <1>0, <1>2, LeaseGained DEF TakeSlot, MayCall, TypeOK
  <2>2. Leased' = Leased \cup {c} /\ c \notin Leased
    BY <1>0, <1>2 DEF TakeSlot, MayCall, TypeOK, Leased
  <2>3. waiters = <<>> /\ waiters' = waiters /\ active < Capacity /\ active' = active + 1
    BY <1>0, <1>2 DEF TakeSlot, WaitOnlyWhenFull, TypeOK
  <2>4. Cardinality(Leased') - active' = Cardinality(Leased) - active
    BY <1>0, <2>1, <2>3, LeasedFinite DEF TypeOK
  <2> QED
    BY <2>2, <2>3, <2>4, PromiseCounts DEF Promise!Grant, Promise!Next
<1>3. CASE Enqueue(c)
  <2>1. Leased' = Leased /\ c \notin Leased /\ c \notin Waiting
    BY <1>0, <1>3 DEF Enqueue, MayCall, TypeOK, Leased, Waiting
  <2>2. \A i \in DOMAIN waiters : waiters[i] # c
    BY <1>0, <2>1 DEF QueueIsPending, Range
  <2>3. active = Capacity /\ active' = active /\ waiters' = Append(waiters, c)
    BY <1>0, <1>3 DEF Enqueue, TypeOK
  <2> QED
    BY <2>1, <2>2, <2>3, PromiseCounts DEF Promise!Wait, Promise!Next
<1> QED
  BY <1>1, <1>2, <1>3 DEF Acquire

LEMMA PromiseTimeout ==
  \A c \in Callers : IInv /\ Timeout(c) => Promise!Next
<1> SUFFICES ASSUME NEW c \in Callers, IInv, Timeout(c) PROVE Promise!Next
  OBVIOUS
<1>1. PICK i \in DOMAIN waiters :
        /\ waiters[i] = c
        /\ waiters' = SubSeq(waiters, 1, i - 1) \o SubSeq(waiters, i + 1, Len(waiters))
        /\ call' = [call EXCEPT ![c] = "refused"]
        /\ UNCHANGED active
  BY DEF Timeout
<1>2. call[c] = "waiting"
  BY <1>1 DEF IInv, QueueIsPending, Range, Waiting
<1>3. Leased' = Leased
  BY <1>1, <1>2 DEF IInv, TypeOK, Leased
<1> QED
  BY <1>1, <1>3 DEF Promise!GiveUp, Promise!Next

LEMMA PromiseRelease ==
  \A c \in Callers : IInv /\ Release(c) => Promise!Next
<1> SUFFICES ASSUME NEW c \in Callers, IInv, Release(c) PROVE Promise!Next
  OBVIOUS
<1>0. TypeOK /\ QueueIsPending /\ LeaseAccounting /\ c \in Leased
  BY DEF IInv, Release, Leased
<1>1. CASE HandOver(c)
  <2> DEFINE d == Head(waiters)
  <2>1. /\ waiters # <<>> /\ waiters' = Tail(waiters) /\ active' = active
        /\ call' = [call EXCEPT ![c] = "none", ![d] = "leased"]
    BY <1>1 DEF HandOver
  <2>2. d \in Range(waiters)
    BY <1>0, <2>1 DEF TypeOK, Range
  <2>3. d \in Callers /\ call[d] = "waiting"
    BY <1>0, <2>2 DEF QueueIsPending, Waiting
  <2>4. Leased' = (Leased \ {c}) \cup {d}
    BY <1>0, <2>1, <2>3 DEF TypeOK, Leased
  <2>5. Cardinality(Leased') = Cardinality(Leased)
    BY <1>0, <2>1, <2>3, LeaseMoved DEF TypeOK, Leased
  <2> QED
    BY <1>0, <2>1, <2>4, <2>5 DEF Promise!PassOn, Promise!Next
<1>2. CASE GiveBack(c)
  <2>1. /\ waiters = <<>> /\ waiters' = waiters
        /\ active' = IF active > 0 THEN active - 1 ELSE active
        /\ call' = [call EXCEPT ![c] = "none"]
    BY <1>2 DEF GiveBack
  <2>2. Leased' = Leased \ {c}
    BY <1>0, <2>1 DEF TypeOK, Leased
  <2>3. Cardinality(Leased') = Cardinality(Leased) - 1 /\ Cardinality(Leased) > 0
    BY <1>0, <2>1, LeaseDropped DEF TypeOK, Leased
  <2>4. \/ Cardinality(Leased') - active' = Cardinality(Leased) - active
        \/ /\ Cardinality(Leased) - active > 0
           /\ Cardinality(Leased') - active' = Cardinality(Leased) - active - 1
    BY <1>0, <2>1, <2>3, LeasedFinite, CapacityType DEF TypeOK
  <2> QED
    BY <1>0, <2>1, <2>2, <2>4 DEF Promise!Return, Promise!Next
<1> QED
  BY <1>1, <1>2 DEF Release, ReleaseSlot

LEMMA PromiseClose == IInv /\ Close => Promise!Next
<1> SUFFICES ASSUME IInv, Close PROVE Promise!Next
  OBVIOUS
<1>1. Leased' = Leased
  BY DEF IInv, TypeOK, Close, Leased
<1>2. waiters' = <<>> /\ active' = 0
  BY DEF Close
<1>3. Cardinality(Leased') - active' = Cardinality(Leased)
  BY <1>1, <1>2, LeasedFinite
<1> QED
  BY <1>1, <1>2, <1>3, SameCardinality DEF Promise!Close, Promise!Next

(* Every behaviour of the pool is one LeasePool allows: bounded grants,    *)
(* first come first served, and no lease unaccounted for but by close().   *)
THEOREM PoolKeepsPromise == Spec => KeepsPromise
<1>1. IInv /\ [Next]_vars => [Promise!Next]_Promise!vars
  <2> SUFFICES ASSUME IInv, [Next]_vars PROVE [Promise!Next]_Promise!vars
    OBVIOUS
  <2>1. CASE \E c \in Callers : Acquire(c) \/ Timeout(c) \/ Release(c)
    BY <2>1, PromiseAcquire, PromiseTimeout, PromiseRelease
  <2>2. CASE Close
    BY <2>2, PromiseClose
  <2>3. CASE Start \/ BeatStep \/ UNCHANGED vars
    <3>1. UNCHANGED <<active, waiters, call>>
      BY <2>3, BeatKeepsPool DEF Start, vars, poolVars
    <3>2. Leased' = Leased
      BY <3>1 DEF Leased
    <3> QED
      BY <3>1, <3>2 DEF Promise!vars
  <2> QED
    BY <2>1, <2>2, <2>3 DEF Next, BeatStep
<1> QED
  BY <1>1, PromiseInit, PoolInvariant, PTL DEF Spec, KeepsPromise, Promise!Spec
=============================================================================
