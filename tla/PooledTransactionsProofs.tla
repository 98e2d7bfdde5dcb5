---------------------- MODULE PooledTransactionsProofs ----------------------
(***************************************************************************)
(* Proofs about PooledTransactions, for every finite set of sessions, any  *)
(* clients of the driver's pool and every size of the ConnectionPool.  The *)
(* pool's own invariant is taken over from ConnectionPoolProofs: a step of *)
(* the sessions is a step of the pool, or does not touch it.               *)
(***************************************************************************)
EXTENDS PooledTransactions, FiniteSetTheorems, TLAPS

PoolFacts == INSTANCE ConnectionPoolProofs WITH
  Callers <- Jobs, HeartbeatMs <- 0, Pings <- {},
  timer <- Calm.timer, healthy <- Calm.healthy, pings <- Calm.pings, dbUp <- Calm.dbUp

PoolInv ==
  /\ Pool!TypeOK
  /\ Pool!QueueIsPending
  /\ Pool!WaitOnlyWhenFull
  /\ Pool!ClosedPoolIsEmpty
  /\ Pool!LeaseAccounting

(* There are finitely many acquire() calls: two for each session.          *)
LEMMA JobsFinite == PoolFacts!IsFiniteSet(Jobs)
<1>1. IsFiniteSet({"tx", "query"})
  BY FS_EmptySet, FS_AddElement, {"tx", "query"} = ({} \cup {"tx"}) \cup {"query"}
<1>2. IsFiniteSet(Jobs)
  BY <1>1, FS_Product, SessionAssumption DEF Jobs
<1> QED
  BY <1>2 DEF IsFiniteSet, PoolFacts!IsFiniteSet

(* The pool proved about is the pool the sessions use.                     *)
LEMMA SamePool ==
  /\ Pool!Init <=> PoolFacts!Init
  /\ [Pool!Next]_(Pool!vars) <=> [PoolFacts!Next]_(PoolFacts!vars)
  /\ PoolInv <=> PoolFacts!IInv
<1>1. Pool!Init <=> PoolFacts!Init
  BY DEF Pool!Init, PoolFacts!Init
<1>2. UNCHANGED Pool!vars <=> UNCHANGED PoolFacts!vars
  BY DEF Pool!vars, PoolFacts!vars, Pool!poolVars, PoolFacts!poolVars,
         Pool!beatVars, PoolFacts!beatVars
<1>3. Pool!Next <=> PoolFacts!Next
  <2>1. \A c : Pool!Acquire(c) <=> PoolFacts!Acquire(c)
    BY DEF Pool!Acquire, Pool!Refuse, Pool!TakeSlot, Pool!Enqueue, Pool!MayCall, Pool!Capacity,
           Pool!poolVars, Pool!beatVars,
           PoolFacts!Acquire, PoolFacts!Refuse, PoolFacts!TakeSlot, PoolFacts!Enqueue,
           PoolFacts!MayCall, PoolFacts!Capacity, PoolFacts!poolVars, PoolFacts!beatVars
  <2>2. \A c : Pool!Timeout(c) <=> PoolFacts!Timeout(c)
    BY DEF Pool!Timeout, PoolFacts!Timeout, Pool!beatVars, PoolFacts!beatVars
  <2>3. \A c : Pool!Release(c) <=> PoolFacts!Release(c)
    BY DEF Pool!Release, Pool!ReleaseSlot, Pool!HandOver, Pool!GiveBack, Pool!Capacity,
           Pool!beatVars,
           PoolFacts!Release, PoolFacts!ReleaseSlot, PoolFacts!HandOver, PoolFacts!GiveBack,
           PoolFacts!Capacity, PoolFacts!beatVars
  <2>4. (Pool!Start <=> PoolFacts!Start) /\ (Pool!Close <=> PoolFacts!Close)
    BY DEF Pool!Start, Pool!Close, Pool!Leased, PoolFacts!Start, PoolFacts!Close, PoolFacts!Leased
  <2>5. Pool!DbFlip <=> PoolFacts!DbFlip
    BY DEF Pool!DbFlip, PoolFacts!DbFlip, Pool!poolVars, PoolFacts!poolVars
  <2> QED
    BY <2>1, <2>2, <2>3, <2>4, <2>5 DEF Pool!Next, PoolFacts!Next
<1>4. PoolInv <=> PoolFacts!IInv
  <2>1. Pool!Capacity = PoolFacts!Capacity
    BY DEF Pool!Capacity, PoolFacts!Capacity
  <2>2. Pool!TypeOK <=> PoolFacts!TypeOK
    BY <2>1 DEF Pool!TypeOK, PoolFacts!TypeOK
  <2>3. Pool!Leased = PoolFacts!Leased /\ Pool!Waiting = PoolFacts!Waiting
    BY DEF Pool!Leased, PoolFacts!Leased, Pool!Waiting, PoolFacts!Waiting
  <2>4. Pool!QueueIsPending <=> PoolFacts!QueueIsPending
    BY <2>3 DEF Pool!QueueIsPending, PoolFacts!QueueIsPending, Pool!Range, PoolFacts!Range,
                Pool!IsInjective, PoolFacts!IsInjective
  <2>5. \A S : Pool!Cardinality(S) = PoolFacts!Cardinality(S)
    BY DEF Pool!Cardinality, PoolFacts!Cardinality
  <2>6. Pool!LeaseAccounting <=> PoolFacts!LeaseAccounting
    BY <2>3, <2>5 DEF Pool!LeaseAccounting, PoolFacts!LeaseAccounting
  <2>7. /\ Pool!WaitOnlyWhenFull <=> PoolFacts!WaitOnlyWhenFull
        /\ Pool!ClosedPoolIsEmpty <=> PoolFacts!ClosedPoolIsEmpty
    BY <2>1 DEF Pool!WaitOnlyWhenFull, PoolFacts!WaitOnlyWhenFull,
                Pool!ClosedPoolIsEmpty, PoolFacts!ClosedPoolIsEmpty
  <2> QED
    BY <2>2, <2>4, <2>6, <2>7 DEF PoolInv, PoolFacts!IInv
<1>5. [Pool!Next]_(Pool!vars) <=> [PoolFacts!Next]_(PoolFacts!vars)
  BY <1>2, <1>3
<1> QED
  BY <1>1, <1>4, <1>5

(* What the pool's invariant says of any user of it holds of the sessions. *)
LEMMA PoolStarts == Pool!Init => PoolInv
BY SamePool, PoolFacts!InitInv, JobsFinite, SessionAssumption

LEMMA PoolSteps == PoolInv /\ [Pool!Next]_(Pool!vars) => PoolInv'
<1>1. PoolFacts!IInv /\ [PoolFacts!Next]_(PoolFacts!vars) => PoolFacts!IInv'
  BY PoolFacts!StepInv, JobsFinite, SessionAssumption
<1>2. (PoolInv <=> PoolFacts!IInv)'
  BY SamePool, PTL
<1> QED
  BY <1>1, <1>2, SamePool

-----------------------------------------------------------------------------
(* What the sessions' own steps preserve.  Matched(s) is LeaseMatchesWork  *)
(* of one session.                                                         *)

Matched(s) ==
  /\ phase[s] \in Ended => call[TxJob(s)] \notin {"leased", "waiting"}
  /\ phase[s] = "leasing" => call[TxJob(s)] \in {"leased", "waiting"}
  /\ phase[s] \in Holding \cup {"aborting"} =>
       call[TxJob(s)] = IF released[s] THEN "none" ELSE "leased"
  /\ call[QueryJob(s)] \in {"leased", "waiting"} <=> phase[s] = "querying"

(* Until a transaction is open nothing of it was released, and from BEGIN  *)
(* to its end its session has a client.                                    *)
Begun(s) ==
  /\ phase[s] \in {"idle", "leasing", "beginning"} => ~released[s]
  /\ phase[s] \in Holding \cup {"aborting"} => client[s] \in Clients

(* LeaseMatchesWork is inductive in a pool that is never closed and whose  *)
(* queue holds pending calls only, so that a release wakes a waiting one.  *)
IInv ==
  /\ TypeOK
  /\ PoolInv
  /\ ~isClosed
  /\ LeaseMatchesWork
  /\ \A s \in Sessions : Begun(s)

CallStates == {"none", "waiting", "leased", "refused"}

LEMMA SessionJobs ==
  \A s, t \in Sessions :
    /\ TxJob(s) \in Jobs /\ QueryJob(s) \in Jobs
    /\ TxJob(s) # QueryJob(t)
    /\ s # t => TxJob(s) # TxJob(t) /\ QueryJob(s) # QueryJob(t)
BY DEF TxJob, QueryJob, Jobs

(* What an operation of the pool does to the calls of others: at most it   *)
(* grants a waiting one the lease.                                         *)
OthersWait(c) ==
  /\ call' \in [Jobs -> CallStates]
  /\ \A d \in Jobs \ {c} : call'[d] = call[d] \/ (call[d] = "waiting" /\ call'[d] = "leased")

LEMMA AcquireEffect ==
  ASSUME NEW c \in Jobs, IInv, Pool!Acquire(c)
  PROVE  OthersWait(c) /\ call'[c] \in {"leased", "waiting"} /\ isClosed' = isClosed
<1>1. call \in [Jobs -> CallStates] /\ ~isClosed
  BY DEF IInv, PoolInv, Pool!TypeOK, CallStates
<1>2. ~Pool!Refuse(c)
  BY <1>1 DEF Pool!Refuse
<1>3. /\ \E x \in {"leased", "waiting"} : call' = [call EXCEPT ![c] = x]
      /\ isClosed' = isClosed
  BY <1>2 DEF Pool!Acquire, Pool!TakeSlot, Pool!Enqueue
<1> QED
  BY <1>1, <1>3 DEF OthersWait, CallStates

LEMMA TimeoutEffect ==
  ASSUME NEW c \in Jobs, IInv, Pool!Timeout(c)
  PROVE  /\ OthersWait(c) /\ isClosed' = isClosed
         /\ call[c] = "waiting" /\ call'[c] = "refused"
<1>1. call \in [Jobs -> CallStates]
  BY DEF IInv, PoolInv, Pool!TypeOK, CallStates
<1>2. /\ c \in Pool!Range(waiters)
      /\ call' = [call EXCEPT ![c] = "refused"]
      /\ isClosed' = isClosed
  BY DEF Pool!Timeout, Pool!Range
<1>3. call[c] = "waiting"
  BY <1>2 DEF IInv, PoolInv, Pool!QueueIsPending, Pool!Waiting
<1> QED
  BY <1>1, <1>2, <1>3 DEF OthersWait, CallStates

LEMMA ReleaseEffect ==
  ASSUME NEW c \in Jobs, IInv, call[c] = "leased", Pool!ReleaseSlot(c)
  PROVE  OthersWait(c) /\ call'[c] = "none" /\ isClosed' = isClosed
<1>1. call \in [Jobs -> CallStates] /\ waiters \in Seq(Jobs)
  BY DEF IInv, PoolInv, Pool!TypeOK, CallStates
<1>2. CASE Pool!HandOver(c)
  <2> DEFINE d == Head(waiters)
  <2>1. /\ waiters # <<>> /\ isClosed' = isClosed
        /\ call' = [call EXCEPT ![c] = "none", ![d] = "leased"]
    BY <1>2 DEF Pool!HandOver
  <2>2. d \in Pool!Range(waiters)
    BY <1>1, <2>1 DEF Pool!Range
  <2>3. d \in Jobs /\ call[d] = "waiting"
    BY <2>2 DEF IInv, PoolInv, Pool!QueueIsPending, Pool!Waiting
  <2> QED
    BY <1>1, <2>1, <2>3 DEF OthersWait, CallStates
<1>3. CASE Pool!GiveBack(c)
  BY <1>1, <1>3 DEF Pool!GiveBack, OthersWait, CallStates
<1> QED
  BY <1>2, <1>3 DEF Pool!ReleaseSlot

(* The end of a transaction returns its lease once, whoever asks for it    *)
(* again, and otherwise leaves the pool alone.                             *)
LEMMA SafeReleaseEffect ==
  ASSUME NEW s \in Sessions, IInv, phase[s] \in Holding \cup {"aborting"}, SafeRelease(s)
  PROVE  /\ OthersWait(TxJob(s)) /\ call'[TxJob(s)] = "none"
         /\ isClosed' = isClosed
         /\ released' = [released EXCEPT ![s] = TRUE]
         /\ [Pool!Next]_(Pool!vars)
<1>0. /\ call[TxJob(s)] = IF released[s] THEN "none" ELSE "leased"
      /\ TxJob(s) \in Jobs /\ call \in [Jobs -> CallStates]
  BY SessionJobs DEF IInv, LeaseMatchesWork, PoolInv, Pool!TypeOK, CallStates
<1>1. CASE released[s]
  BY <1>0, <1>1 DEF SafeRelease, OthersWait, poolVars, Pool!vars, Pool!poolVars, Pool!beatVars
<1>2. CASE ~released[s]
  BY <1>0, <1>2, ReleaseEffect DEF SafeRelease, Pool!Next, Pool!Release
<1> QED
  BY <1>1, <1>2

(* A step of session s with its call c leaves the others matched.          *)
LEMMA OthersMatched ==
  ASSUME NEW s \in Sessions, IInv, NEW c \in {TxJob(s), QueryJob(s)}, OthersWait(c),
         \A t \in Sessions \ {s} : phase'[t] = phase[t] /\ released'[t] = released[t],
         Matched(s)'
  PROVE  LeaseMatchesWork'
<1> SUFFICES ASSUME NEW t \in Sessions \ {s} PROVE Matched(t)'
  BY DEF LeaseMatchesWork, Matched
<1>1. Matched(t)
  BY DEF IInv, LeaseMatchesWork, Matched
<1>2. TxJob(t) \in Jobs \ {c} /\ QueryJob(t) \in Jobs \ {c}
  BY SessionJobs
<1> QED
  BY <1>1, <1>2 DEF Matched, OthersWait, Ended, Holding

-----------------------------------------------------------------------------
(* One lemma for each kind of step: what it does to the pool, and that the *)
(* session it belongs to stays matched.                                    *)

SessionsTyped ==
  /\ phase \in [Sessions -> Phases]
  /\ released \in [Sessions -> BOOLEAN]
  /\ completed \in [Sessions -> BOOLEAN]
  /\ client \in [Sessions -> Clients \cup {NoOne}]
  /\ lent \in [Clients -> Sessions \cup {NoOne}]
  /\ inTx \in [Clients -> BOOLEAN]
  /\ broken \in SUBSET Clients
  /\ pending \in [Clients -> SUBSET (Sessions \X (1..MaxWrites))]
  /\ kept \in [Sessions -> SUBSET (1..MaxWrites)]
  /\ wrote \in [Sessions -> 0..MaxWrites]
  /\ mishap \in [Sessions -> SUBSET {"foreignEnd", "lostAnswer"}]
  /\ swallowed \in SUBSET Sessions

(* What every step has to show.                                            *)
Preserved ==
  /\ SessionsTyped'
  /\ [Pool!Next]_(Pool!vars)
  /\ ~isClosed'
  /\ LeaseMatchesWork'
  /\ \A t \in Sessions : Begun(t)'

LEMMA Frame ==
  ASSUME NEW s \in Sessions, IInv, NEW c \in {TxJob(s), QueryJob(s)}, OthersWait(c),
         isClosed' = isClosed, [Pool!Next]_(Pool!vars), SessionsTyped',
         \A t \in Sessions \ {s} :
           phase'[t] = phase[t] /\ released'[t] = released[t] /\ client'[t] = client[t],
         Matched(s)', Begun(s)'
  PROVE  Preserved
<1>1. LeaseMatchesWork'
  BY OthersMatched
<1>2. \A t \in Sessions : Begun(t)'
  BY DEF IInv, Begun
<1> QED
  BY <1>1, <1>2 DEF Preserved, IInv

LEMMA Untouched ==
  ASSUME IInv, UNCHANGED poolVars, NEW c \in Jobs
  PROVE  OthersWait(c) /\ call' = call /\ isClosed' = isClosed /\ [Pool!Next]_(Pool!vars)
BY DEF poolVars, IInv, PoolInv, Pool!TypeOK, OthersWait, CallStates,
       Pool!vars, Pool!poolVars, Pool!beatVars

(* beginTransaction()                                                      *)
LEMMA BeginSteps ==
  ASSUME NEW s \in Sessions, IInv,
         \/ UseTransaction(s) \/ LeaseTimeout(s) \/ Connect(s) \/ ConnectFail(s)
         \/ BeginOk(s) \/ BeginFail(s)
  PROVE  Preserved
<1> DEFINE c == TxJob(s)
           e == QueryJob(s)
<1>0. /\ c \in Jobs /\ e \in Jobs /\ c # e /\ SessionsTyped
      /\ Matched(s) /\ Begun(s) /\ NoOne \notin Clients
  BY SessionJobs, SessionAssumption DEF IInv, TypeOK, SessionsTyped, LeaseMatchesWork, Matched
<1> HIDE DEF c, e
<1>1. CASE UseTransaction(s)
  <2>1. Pool!Acquire(c) /\ phase[s] = "idle" /\ phase' = [phase EXCEPT ![s] = "leasing"]
        /\ UNCHANGED <<flagVars, serverVars>>
    BY <1>1 DEF UseTransaction, Enter, c
  <2>2. OthersWait(c) /\ call'[c] \in {"leased", "waiting"} /\ isClosed' = isClosed
    BY <1>0, <2>1, AcquireEffect
  <2>3. Matched(s)'
    BY <1>0, <2>1, <2>2 DEF Matched, OthersWait, SessionsTyped, Ended, Holding, c, e
  <2>4. SessionsTyped' /\ Begun(s)'
    BY <1>0, <2>1 DEF SessionsTyped, Phases, Ended, Begun, Holding, flagVars, serverVars
  <2> QED
    BY <1>0, <2>1, <2>2, <2>3, <2>4, Frame DEF Pool!Next, SessionsTyped, flagVars, serverVars, c
<1>2. CASE LeaseTimeout(s)
  <2>1. Pool!Timeout(c) /\ phase[s] = "leasing" /\ phase' = [phase EXCEPT ![s] = "rejected"]
        /\ UNCHANGED <<flagVars, serverVars>>
    BY <1>2 DEF LeaseTimeout, Enter, c
  <2>2. OthersWait(c) /\ call'[c] = "refused" /\ isClosed' = isClosed
    BY <1>0, <2>1, TimeoutEffect
  <2>3. Matched(s)'
    BY <1>0, <2>1, <2>2 DEF Matched, OthersWait, SessionsTyped, Ended, Holding, c, e
  <2>4. SessionsTyped' /\ Begun(s)'
    BY <1>0, <2>1 DEF SessionsTyped, Phases, Ended, Begun, Holding, flagVars, serverVars
  <2> QED
    BY <1>0, <2>1, <2>2, <2>3, <2>4, Frame DEF Pool!Next, SessionsTyped, flagVars, serverVars, c
<1>3. CASE Connect(s)
  <2>1. /\ phase[s] = "leasing" /\ call[c] = "leased"
        /\ phase' = [phase EXCEPT ![s] = "beginning"]
        /\ UNCHANGED <<poolVars, flagVars, inTx, broken, pending, kept, wrote, mishap, swallowed>>
        /\ \E k \in Clients : /\ lent' = [lent EXCEPT ![k] = s]
                               /\ client' = [client EXCEPT ![s] = k]
    BY <1>3 DEF Connect, Enter, Free, c
  <2>2. OthersWait(c) /\ call' = call /\ isClosed' = isClosed /\ [Pool!Next]_(Pool!vars)
    BY <1>0, <2>1, Untouched
  <2>3. Matched(s)' /\ Begun(s)'
    BY <1>0, <2>1, <2>2 DEF Matched, Begun, SessionsTyped, Ended, Holding, flagVars, c
  <2>4. SessionsTyped'
    BY <1>0, <2>1 DEF SessionsTyped, Phases, flagVars
  <2>5. \A t \in Sessions \ {s} : client'[t] = client[t] /\ phase'[t] = phase[t]
    BY <1>0, <2>1 DEF SessionsTyped
  <2> QED
    BY <1>0, <2>1, <2>2, <2>3, <2>4, <2>5, Frame DEF flagVars, c
<1>4. CASE BeginOk(s)
  <2>1. /\ phase[s] = "beginning" /\ phase' = [phase EXCEPT ![s] = "open"]
        /\ inTx' = [inTx EXCEPT ![client[s]] = TRUE]
        /\ UNCHANGED <<poolVars, flagVars, client, lent, broken, pending, kept, wrote, mishap, swallowed>>
    BY <1>4 DEF BeginOk, Enter
  <2>2. OthersWait(c) /\ call' = call /\ isClosed' = isClosed /\ [Pool!Next]_(Pool!vars)
    BY <1>0, <2>1, Untouched
  <2>3. Matched(s)' /\ Begun(s)'
    BY <1>0, <2>1, <2>2 DEF Matched, Begun, SessionsTyped, Ended, Holding, flagVars
  <2>4. SessionsTyped'
    BY <1>0, <2>1 DEF SessionsTyped, Phases, flagVars
  <2> QED
    BY <1>0, <2>1, <2>2, <2>3, <2>4, Frame DEF SessionsTyped, flagVars, c
<1>5. CASE BeginFail(s)
  <2>1. /\ phase[s] = "beginning" /\ phase' = [phase EXCEPT ![s] = "rejected"]
        /\ Pool!ReleaseSlot(c)
        /\ client' = [client EXCEPT ![s] = NoOne]
        /\ UNCHANGED <<flagVars, lent, inTx, broken, pending, kept, wrote, mishap, swallowed>>
    BY <1>5 DEF BeginFail, Enter, c
  <2>2. call[c] = "leased"
    BY <1>0, <2>1 DEF Matched, Begun, Holding, c
  <2>3. OthersWait(c) /\ call'[c] = "none" /\ isClosed' = isClosed /\ Pool!Next
    BY <1>0, <2>1, <2>2, ReleaseEffect DEF Pool!Next, Pool!Release
  <2>4. Matched(s)' /\ Begun(s)'
    BY <1>0, <2>1, <2>3
       DEF Matched, Begun, OthersWait, SessionsTyped, Ended, Holding, flagVars, c, e
  <2>5. SessionsTyped'
    BY <1>0, <2>1 DEF SessionsTyped, Phases, Ended, flagVars
  <2> QED
    BY <1>0, <2>1, <2>3, <2>4, <2>5, Frame DEF SessionsTyped, flagVars, c
<1>6. CASE ConnectFail(s)
  <2>1. /\ phase[s] = "leasing" /\ phase' = [phase EXCEPT ![s] = "rejected"]
        /\ call[c] = "leased" /\ Pool!ReleaseSlot(c)
        /\ UNCHANGED <<flagVars, serverVars>>
    BY <1>6 DEF ConnectFail, Enter, c
  <2>2. OthersWait(c) /\ call'[c] = "none" /\ isClosed' = isClosed /\ Pool!Next
    BY <1>0, <2>1, ReleaseEffect DEF Pool!Next, Pool!Release
  <2>3. Matched(s)' /\ Begun(s)'
    BY <1>0, <2>1, <2>2
       DEF Matched, Begun, OthersWait, SessionsTyped, Ended, Holding, flagVars, serverVars, c, e
  <2>4. SessionsTyped'
    BY <1>0, <2>1 DEF SessionsTyped, Phases, Ended, flagVars, serverVars
  <2> QED
    BY <1>0, <2>1, <2>2, <2>3, <2>4, Frame DEF SessionsTyped, flagVars, serverVars, c
<1> QED
  BY <1>1, <1>2, <1>3, <1>4, <1>5, <1>6

(* fn(tx): writes, statements beside the transaction, and how fn ends.     *)
LEMMA WorkSteps ==
  ASSUME NEW s \in Sessions, IInv,
         Write(s) \/ WriteFail(s) \/ UndoInFn(s) \/ Throw(s) \/ Return(s)
  PROVE  Preserved
<1> DEFINE c == TxJob(s)
<1>0. /\ c \in Jobs /\ SessionsTyped /\ Matched(s) /\ Begun(s) /\ phase[s] = "open"
      /\ UNCHANGED <<poolVars, flagVars, client>>
  BY SessionJobs DEF IInv, TypeOK, SessionsTyped, LeaseMatchesWork, Matched,
     Write, WriteFail, UndoInFn, Throw, Return, serverVars
<1>1. OthersWait(c) /\ call' = call /\ isClosed' = isClosed /\ [Pool!Next]_(Pool!vars)
  BY <1>0, Untouched
<1>2. phase' = phase \/ \E p \in {"undoing", "aborting", "committing"} : phase' = [phase EXCEPT ![s] = p]
  BY DEF Write, WriteFail, UndoInFn, Throw, Return, Enter
<1>3. Matched(s)' /\ Begun(s)'
  BY <1>0, <1>1, <1>2 DEF Matched, Begun, SessionsTyped, Ended, Holding, flagVars
<1>4. SessionsTyped'
  <2>1. CASE Write(s)
    <3>1. wrote[s] + 1 \in 1..MaxWrites /\ client[s] \in Clients
      BY <1>0, <2>1, SessionAssumption DEF Write, SessionsTyped, Begun, Holding
    <3>2. wrote' \in [Sessions -> 0..MaxWrites]
      BY <1>0, <2>1, <3>1, SessionAssumption DEF Write, SessionsTyped
    <3>3. /\ pending' \in [Clients -> SUBSET (Sessions \X (1..MaxWrites))]
          /\ kept' \in [Sessions -> SUBSET (1..MaxWrites)]
      <4>1. CASE inTx[client[s]]
        <5>1. <<s, wrote[s] + 1>> \in Sessions \X (1..MaxWrites)
          BY <3>1
        <5>2. UNCHANGED kept
              /\ pending' = [pending EXCEPT ![client[s]] = @ \cup {<<s, wrote[s] + 1>>}]
          BY <2>1, <4>1 DEF Write
        <5> QED
          BY <1>0, <5>1, <5>2 DEF SessionsTyped
      <4>2. CASE ~inTx[client[s]]
        BY <1>0, <2>1, <3>1, <4>2 DEF Write, SessionsTyped
      <4> QED
        BY <4>1, <4>2
    <3>4. UNCHANGED <<phase, released, completed, client, lent, inTx, broken, mishap, swallowed>>
      BY <2>1 DEF Write, flagVars
    <3> QED
      BY <1>0, <3>2, <3>3, <3>4 DEF SessionsTyped
  <2>2. CASE UndoInFn(s) \/ Throw(s) \/ Return(s)
    BY <1>0, <1>2, <2>2 DEF UndoInFn, Throw, Return, SessionsTyped, Phases, flagVars, serverVars
  <2>3. CASE WriteFail(s)
    <3>1. client[s] \in Clients /\ phase' \in [Sessions -> Phases]
      BY <1>0, <1>2 DEF Begun, Holding, SessionsTyped, Phases
    <3>2. swallowed' \in SUBSET Sessions /\ UNCHANGED <<flagVars, lent, inTx, kept, wrote>>
      BY <1>0, <2>3 DEF WriteFail, SessionsTyped
    <3>3. /\ broken' \in SUBSET Clients
          /\ pending' \in [Clients -> SUBSET (Sessions \X (1..MaxWrites))]
      BY <1>0, <2>3, <3>1 DEF WriteFail, SessionsTyped
    <3>4. mishap' \in [Sessions -> SUBSET {"foreignEnd", "lostAnswer"}]
      BY <1>0, <2>3 DEF WriteFail, Struck, SessionsTyped
    <3> QED
      BY <1>0, <3>1, <3>2, <3>3, <3>4 DEF SessionsTyped, flagVars
  <2> QED
    BY <2>1, <2>2, <2>3
<1> QED
  BY <1>0, <1>1, <1>2, <1>3, <1>4, Frame DEF SessionsTyped, flagVars

LEMMA QuerySteps ==
  ASSUME NEW s \in Sessions, IInv, Query(s) \/ QueryTimeout(s) \/ RunQuery(s)
  PROVE  Preserved
<1> DEFINE c == QueryJob(s)
           e == TxJob(s)
<1>0. /\ c \in Jobs /\ e \in Jobs /\ c # e
      /\ SessionsTyped /\ Matched(s) /\ Begun(s) /\ UNCHANGED <<flagVars, serverVars>>
  BY SessionJobs DEF IInv, TypeOK, SessionsTyped, LeaseMatchesWork, Matched,
     Query, QueryTimeout, RunQuery
<1> HIDE DEF c, e
<1>1. \E p \in {"open", "querying", "aborting"} : phase' = [phase EXCEPT ![s] = p]
  BY DEF Query, QueryTimeout, RunQuery, Enter
<1>2. SessionsTyped'
  BY <1>0, <1>1 DEF SessionsTyped, Phases, flagVars, serverVars
<1>3. OthersWait(c) /\ isClosed' = isClosed /\ Pool!Next /\ Matched(s)'
  <2>1. CASE Query(s)
    <3>1. Pool!Acquire(c) /\ phase[s] = "open" /\ phase' = [phase EXCEPT ![s] = "querying"]
      BY <2>1 DEF Query, Enter, c
    <3>2. OthersWait(c) /\ call'[c] \in {"leased", "waiting"} /\ isClosed' = isClosed
      BY <1>0, <3>1, AcquireEffect
    <3> QED
      BY <1>0, <3>1, <3>2
         DEF Matched, OthersWait, SessionsTyped, Ended, Holding, flagVars, Pool!Next, c, e
  <2>2. CASE QueryTimeout(s)
    <3>1. /\ Pool!Timeout(c) /\ phase[s] = "querying"
          /\ \E p \in {"open", "aborting"} : phase' = [phase EXCEPT ![s] = p]
      BY <2>2 DEF QueryTimeout, Enter, c
    <3>2. OthersWait(c) /\ call'[c] = "refused" /\ isClosed' = isClosed
      BY <1>0, <3>1, TimeoutEffect
    <3> QED
      BY <1>0, <3>1, <3>2
         DEF Matched, OthersWait, SessionsTyped, Ended, Holding, flagVars, Pool!Next, c, e
  <2>3. CASE RunQuery(s)
    <3>1. /\ phase[s] = "querying" /\ call[c] = "leased" /\ Pool!ReleaseSlot(c)
          /\ \E p \in {"open", "aborting"} : phase' = [phase EXCEPT ![s] = p]
      BY <2>3 DEF RunQuery, Enter, c
    <3>2. OthersWait(c) /\ call'[c] = "none" /\ isClosed' = isClosed
      BY <1>0, <3>1, ReleaseEffect
    <3> QED
      BY <1>0, <3>1, <3>2 DEF Matched, OthersWait, SessionsTyped, Ended, Holding, flagVars,
         Pool!Next, Pool!Release, c, e
  <2> QED
    BY <2>1, <2>2, <2>3
<1>4. Begun(s)'
  BY <1>0, <1>1, <1>3 DEF Begun, SessionsTyped, Holding, flagVars, serverVars, Query, QueryTimeout,
     RunQuery
<1> QED
  BY <1>0, <1>1, <1>2, <1>3, <1>4, Frame DEF SessionsTyped, flagVars, serverVars, c

(* commit(), rollback() and what follows a failed one.                     *)
LEMMA EndTyped ==
  ASSUME NEW s \in Sessions, SessionsTyped, NEW keep \in BOOLEAN, EndOnServer(s, keep)
  PROVE  /\ kept' \in [Sessions -> SUBSET (1..MaxWrites)]
         /\ pending' \in [Clients -> SUBSET (Sessions \X (1..MaxWrites))]
         /\ inTx' \in [Clients -> BOOLEAN]
         /\ broken' \in SUBSET Clients
<1>1. kept' \in [Sessions -> SUBSET (1..MaxWrites)]
  <2>1. \A t \in Sessions :
          kept[t] \cup (IF keep THEN {i \in 1..MaxWrites : <<t, i>> \in pending[client[s]]} ELSE {})
            \in SUBSET (1..MaxWrites)
    BY DEF SessionsTyped
  <2> QED
    BY <2>1 DEF EndOnServer
<1>2. /\ pending' = [pending EXCEPT ![client[s]] = {}] /\ inTx' = [inTx EXCEPT ![client[s]] = FALSE]
      /\ broken' = broken \ {client[s]}
  BY DEF EndOnServer
<1> QED
  BY <1>1, <1>2 DEF SessionsTyped

LEMMA StruckTyped ==
  ASSUME NEW s \in Sessions, SessionsTyped, NEW own \in SUBSET {"foreignEnd", "lostAnswer"}
  PROVE  Struck(s, own) \in [Sessions -> SUBSET {"foreignEnd", "lostAnswer"}]
BY DEF Struck, SessionsTyped

(* The four steps that end a transaction on the server, or find it ended.  *)
EndStep(s) == CommitOk(s) \/ CommitFail(s) \/ RollbackInFn(s) \/ Abort(s)

LEMMA EndStepEffect ==
  ASSUME NEW s \in Sessions, SessionsTyped, EndStep(s)
  PROVE  /\ SafeRelease(s) /\ UNCHANGED <<client, wrote, swallowed>>
         /\ phase[s] \in {"committing", "undoing", "aborting"}
         /\ \E p \in {"open", "aborting", "resolved", "rejected"} :
              phase' = [phase EXCEPT ![s] = p] /\ (phase[s] = "aborting" => p = "rejected")
         /\ /\ completed' \in [Sessions -> BOOLEAN]
            /\ lent' \in [Clients -> Sessions \cup {NoOne}]
            /\ inTx' \in [Clients -> BOOLEAN]
            /\ broken' \in SUBSET Clients
            /\ pending' \in [Clients -> SUBSET (Sessions \X (1..MaxWrites))]
            /\ kept' \in [Sessions -> SUBSET (1..MaxWrites)]
            /\ mishap' \in [Sessions -> SUBSET {"foreignEnd", "lostAnswer"}]
<1>1. CASE CommitOk(s)
  <2>1. /\ phase[s] = "committing" /\ SafeRelease(s) /\ UNCHANGED <<client, wrote, swallowed>>
        /\ EndOnServer(s, TRUE) /\ mishap' = Struck(s, {})
        /\ lent' = [lent EXCEPT ![client[s]] = NoOne]
        /\ \/ phase' = [phase EXCEPT ![s] = "aborting"] /\ UNCHANGED completed
           \/ /\ phase' = [phase EXCEPT ![s] = "resolved"]
              /\ completed' = [completed EXCEPT ![s] = TRUE]
    BY <1>1 DEF CommitOk, Enter, ReleaseClient
  <2>2. mishap' \in [Sessions -> SUBSET {"foreignEnd", "lostAnswer"}]
    BY <2>1, StruckTyped
  <2> QED
    BY <2>1, <2>2, EndTyped DEF SessionsTyped
<1>2. CASE CommitFail(s)
  <2>1. /\ phase[s] = "committing" /\ SafeRelease(s) /\ UNCHANGED <<completed, client, wrote, swallowed>>
        /\ \E lost \in BOOLEAN :
             EndOnServer(s, lost) /\ mishap' = Struck(s, IF lost THEN {"lostAnswer"} ELSE {})
        /\ lent' = [lent EXCEPT ![client[s]] = NoOne]
        /\ phase' = [phase EXCEPT ![s] = "aborting"]
    BY <1>2 DEF CommitFail, Enter, ReleaseClient
  <2>2. PICK lost \in BOOLEAN :
          EndOnServer(s, lost) /\ mishap' = Struck(s, IF lost THEN {"lostAnswer"} ELSE {})
    BY <2>1
  <2>3. mishap' \in [Sessions -> SUBSET {"foreignEnd", "lostAnswer"}]
    BY <2>2, StruckTyped
  <2> QED
    BY <2>1, <2>2, <2>3, EndTyped DEF SessionsTyped
<1>3. CASE RollbackInFn(s) \/ Abort(s)
  <2>1. /\ phase[s] \in {"undoing", "aborting"} /\ Rollback(s)
        /\ \E p \in {"open", "aborting", "rejected"} :
             phase' = [phase EXCEPT ![s] = p] /\ (phase[s] = "aborting" => p = "rejected")
    BY <1>3 DEF RollbackInFn, Abort, Enter
  <2>2. CASE RollbackNothing(s)
    BY <2>1, <2>2 DEF RollbackNothing, SessionsTyped, serverVars
  <2>3. CASE RollbackOnClient(s)
    <3>1. /\ SafeRelease(s) /\ UNCHANGED <<client, wrote, swallowed>>
          /\ EndOnServer(s, FALSE) /\ mishap' = Struck(s, {})
          /\ lent' = [lent EXCEPT ![client[s]] = NoOne]
          /\ completed' = [completed EXCEPT ![s] = ~ReleaseThrows(s)]
      BY <2>3 DEF RollbackOnClient, ReleaseClient
    <3>2. mishap' \in [Sessions -> SUBSET {"foreignEnd", "lostAnswer"}]
      BY <3>1, StruckTyped
    <3>3. completed' \in [Sessions -> BOOLEAN]
      BY <3>1 DEF SessionsTyped, ReleaseThrows
    <3> QED
      BY <2>1, <3>1, <3>2, <3>3, EndTyped DEF SessionsTyped
  <2> QED
    BY <2>1, <2>2, <2>3 DEF Rollback
<1> QED
  BY <1>1, <1>2, <1>3 DEF EndStep

LEMMA EndSteps ==
  ASSUME NEW s \in Sessions, IInv, EndStep(s)
  PROVE  Preserved
<1> DEFINE c == TxJob(s)
           e == QueryJob(s)
<1>0. /\ c \in Jobs /\ e \in Jobs /\ c # e
      /\ SessionsTyped /\ Matched(s) /\ Begun(s)
  BY SessionJobs DEF IInv, TypeOK, SessionsTyped, LeaseMatchesWork, Matched
<1>1. /\ SafeRelease(s) /\ UNCHANGED <<client, wrote, swallowed>>
      /\ phase[s] \in {"committing", "undoing", "aborting"}
      /\ \E p \in {"open", "aborting", "resolved", "rejected"} : phase' = [phase EXCEPT ![s] = p]
  BY <1>0, EndStepEffect
<1>2. /\ OthersWait(c) /\ call'[c] = "none" /\ isClosed' = isClosed
      /\ released' = [released EXCEPT ![s] = TRUE]
      /\ [Pool!Next]_(Pool!vars)
  BY <1>1, SafeReleaseEffect DEF Holding
<1> HIDE DEF c, e
<1>3. SessionsTyped'
  <2>1. phase' \in [Sessions -> Phases] /\ released' \in [Sessions -> BOOLEAN]
    BY <1>0, <1>1, <1>2 DEF SessionsTyped, Phases, Ended
  <2> QED
    BY <1>0, <1>1, <2>1, EndStepEffect DEF SessionsTyped
<1>4. Matched(s)' /\ Begun(s)'
  BY <1>0, <1>1, <1>2 DEF Matched, Begun, OthersWait, SessionsTyped, Ended, Holding, c, e
<1> QED
  BY <1>0, <1>1, <1>2, <1>3, <1>4, Frame DEF SessionsTyped, c

LEMMA StepPreserves == IInv /\ Next => Preserved
BY BeginSteps, WorkSteps, QuerySteps, EndSteps DEF Next, EndStep

LEMMA StepInv == IInv /\ [Next]_vars => IInv' /\ [Pool!Next]_(Pool!vars)
<1>1. ASSUME IInv, Preserved PROVE IInv' /\ [Pool!Next]_(Pool!vars)
  <2>1. PoolInv' /\ [Pool!Next]_(Pool!vars)
    BY <1>1, PoolSteps DEF IInv, Preserved
  <2>2. TypeOK'
    BY <1>1, <2>1 DEF TypeOK, Preserved, SessionsTyped, PoolInv
  <2> QED
    BY <1>1, <2>1, <2>2 DEF IInv, Preserved
<1>2. ASSUME IInv, UNCHANGED vars PROVE IInv' /\ [Pool!Next]_(Pool!vars)
  <2>1. [Pool!Next]_(Pool!vars)
    BY <1>2 DEF vars, poolVars, Pool!vars, Pool!poolVars, Pool!beatVars
  <2>2. PoolInv'
    BY <1>2, <2>1, PoolSteps DEF IInv
  <2>3. TypeOK'
    BY <1>2, <2>2 DEF IInv, TypeOK, PoolInv, vars, flagVars, serverVars
  <2>4. LeaseMatchesWork' /\ (\A s \in Sessions : Begun(s)') /\ ~isClosed'
    BY <1>2 DEF IInv, LeaseMatchesWork, Begun, vars, poolVars, flagVars, serverVars
  <2> QED
    BY <2>1, <2>2, <2>3, <2>4 DEF IInv
<1> QED
  BY <1>1, <1>2, StepPreserves

LEMMA InitInv == Init => IInv
<1> SUFFICES ASSUME Init PROVE IInv
  OBVIOUS
<1>1. PoolInv
  BY PoolStarts DEF Init
<1>2. TypeOK
  BY <1>1, SessionAssumption DEF Init, TypeOK, PoolInv, Phases, Ended
<1>3. ~isClosed /\ \A d \in Jobs : call[d] = "none"
  BY DEF Init, Pool!Init
<1>4. LeaseMatchesWork /\ \A s \in Sessions : Begun(s)
  BY <1>3, SessionJobs DEF Init, LeaseMatchesWork, Begun, Ended, Holding
<1> QED
  BY <1>1, <1>2, <1>3, <1>4 DEF IInv

-----------------------------------------------------------------------------
(* Leases, calls, phases and the pool agree in every reachable state.      *)
THEOREM TransactionsInvariant == Spec => []IInv
<1>1. IInv /\ [Next]_vars => IInv'
  BY StepInv
<1> QED
  BY <1>1, InitInv, PTL DEF Spec

(* Variables keep their types, the pool's included.                        *)
THEOREM TransactionsTypeOK == Spec => []TypeOK
<1>1. IInv => TypeOK
  BY DEF IInv
<1> QED
  BY <1>1, TransactionsInvariant, PTL

(* A transaction holds its lease exactly once on every path from acquire() *)
(* to the end of commit() or rollback(), and an ended call holds nothing.  *)
THEOREM LeasesAreReturned == Spec => []LeaseMatchesWork
<1>1. IInv => LeaseMatchesWork
  BY DEF IInv
<1> QED
  BY <1>1, TransactionsInvariant, PTL

(* useTransaction() uses the pool as its interface asks: no step releases  *)
(* a lease that is not held, on whatever error path.                       *)
THEOREM TransactionsUseThePool == Spec => PoolDiscipline
<1>1. IInv /\ [Next]_vars => [Pool!Next]_(Pool!vars)
  BY StepInv
<1>2. Init => Pool!Init
  BY DEF Init
<1> QED
  BY <1>1, <1>2, TransactionsInvariant, PTL DEF Spec, PoolDiscipline, Pool!Spec

(* So the pool under the sessions loses no slot: it counts exactly the     *)
(* leases that are out, and nobody waits beside a free one.                *)
THEOREM TransactionsLoseNoSlot ==
  Spec => [](Pool!LeaseAccounting /\ Pool!WaitOnlyWhenFull /\ Pool!QueueIsPending)
<1>1. IInv => Pool!LeaseAccounting /\ Pool!WaitOnlyWhenFull /\ Pool!QueueIsPending
  BY DEF IInv, PoolInv
<1> QED
  BY <1>1, TransactionsInvariant, PTL

-----------------------------------------------------------------------------
(* What the server holds for each transaction, for AtomicUnlessStruck.     *)

Writes(s, k) == {i \in 1..MaxWrites : <<s, i>> \in pending[k]}
Opened == {"open", "querying", "undoing", "committing"}

(* Writes wait on the session's own client, only while its transaction     *)
(* lasts; and while nobody else interfered, the client is still lent to    *)
(* the session and has the transaction open with all its writes waiting,   *)
(* or aborted and with none.                                               *)
Atomic(s) ==
  /\ \A k \in Clients : Writes(s, k) # {} =>
       k = client[s] /\ phase[s] \in Opened \cup {"aborting"} /\ ~completed[s]
  /\ phase[s] \in {"idle", "leasing", "beginning"} =>
       wrote[s] = 0 /\ kept[s] = {} /\ ~completed[s] /\ s \notin swallowed
  /\ phase[s] \in {"undoing", "committing"} => ~completed[s]
  /\ mishap[s] = {} =>
       /\ kept[s] = IF phase[s] = "resolved" /\ s \notin swallowed THEN 1..wrote[s] ELSE {}
       /\ phase[s] \in Opened \cup {"beginning"} /\ ~completed[s] => lent[client[s]] = s
       /\ phase[s] \in Opened /\ ~completed[s] =>
            /\ inTx[client[s]]
            /\ s \notin swallowed => Writes(s, client[s]) = 1..wrote[s]
            /\ s \in swallowed => client[s] \in broken /\ Writes(s, client[s]) = {}

AtomicInv == \A s \in Sessions : Atomic(s)

LEMMA AtomicInit == Init => AtomicInv
<1> SUFFICES ASSUME Init, NEW s \in Sessions PROVE Atomic(s)
  BY DEF AtomicInv
<1>1. \A k \in Clients : Writes(s, k) = {}
  BY DEF Init, Writes
<1> QED
  BY <1>1 DEF Init, Atomic, Opened

(* Steps that leave the server alone.                                      *)
LEMMA AtomicLocal ==
  ASSUME NEW s \in Sessions, IInv, AtomicInv,
         \/ UseTransaction(s) \/ LeaseTimeout(s) \/ ConnectFail(s)
         \/ Query(s) \/ QueryTimeout(s) \/ RunQuery(s)
         \/ UndoInFn(s) \/ Throw(s) \/ Return(s)
  PROVE  AtomicInv'
<1>0. SessionsTyped /\ UNCHANGED <<flagVars, serverVars>>
  BY DEF IInv, TypeOK, SessionsTyped, UseTransaction, LeaseTimeout, ConnectFail, Query, QueryTimeout, RunQuery,
     UndoInFn, Throw, Return
<1>1. \A t \in Sessions, k \in Clients : Writes(t, k)' = Writes(t, k)
  BY <1>0 DEF Writes, serverVars
<1>2. \A t \in Sessions : Writes(t, client[t])' = Writes(t, client[t])
  BY <1>0 DEF Writes, serverVars
<1>3. ASSUME NEW t \in Sessions \ {s} PROVE Atomic(t)'
  <2>1. phase'[t] = phase[t] /\ Atomic(t)
    BY <1>0 DEF AtomicInv, SessionsTyped, UseTransaction, LeaseTimeout, ConnectFail, Query, QueryTimeout, RunQuery,
       UndoInFn, Throw, Return, Enter
  <2> QED
    BY <1>0, <1>1, <1>2, <2>1 DEF Atomic, flagVars, serverVars
<1>4. Atomic(s)'
  <2>1. Atomic(s)
    BY DEF AtomicInv
  <2>2. \/ phase[s] = "idle" /\ phase'[s] = "leasing"
        \/ phase[s] = "leasing" /\ phase'[s] = "rejected"
        \/ phase[s] \in {"open", "querying"} /\ phase'[s] \in {"open", "querying", "aborting"}
        \/ phase[s] = "open" /\ phase'[s] \in {"undoing", "committing"} /\ ~completed[s]
    BY <1>0 DEF SessionsTyped, UseTransaction, LeaseTimeout, ConnectFail, Query, QueryTimeout, RunQuery,
       UndoInFn, Throw, Return, Enter
  <2> QED
    BY <1>0, <1>1, <1>2, <2>1, <2>2 DEF Atomic, Opened, flagVars, serverVars
<1> QED
  BY <1>3, <1>4 DEF AtomicInv

(* A client is lent to nobody else, BEGIN opens the transaction, writes    *)
(* join it.                                                                *)
LEMMA AtomicBegin ==
  ASSUME NEW s \in Sessions, IInv, AtomicInv, Connect(s) \/ BeginOk(s) \/ BeginFail(s)
  PROVE  AtomicInv'
<1>0. SessionsTyped /\ NoOne \notin Sessions /\ NoOne \notin Clients
      /\ UNCHANGED <<flagVars, broken, pending, kept, wrote, mishap, swallowed>> /\ Atomic(s)
  BY SessionAssumption DEF IInv, TypeOK, SessionsTyped, Connect, BeginOk, BeginFail, AtomicInv
<1>1. \A t \in Sessions : \A k : Writes(t, k)' = Writes(t, k)
  BY <1>0 DEF Writes
<1>2. ASSUME NEW t \in Sessions \ {s} PROVE Atomic(t)'
  <2>1. phase'[t] = phase[t] /\ client'[t] = client[t] /\ Atomic(t)
    BY <1>0 DEF AtomicInv, SessionsTyped, Connect, BeginOk, BeginFail, Enter
  <2>2. lent[client[t]] = t /\ client[t] \in Clients => lent'[client[t]] = t
    BY <1>0 DEF Connect, BeginOk, BeginFail, Free, SessionsTyped
  <2>3. inTx[client[t]] /\ client[t] \in Clients => inTx'[client[t]]
    BY <1>0 DEF Connect, BeginOk, BeginFail, SessionsTyped
  <2>4. phase[t] \in Opened \cup {"beginning"} => client[t] \in Clients
    BY DEF IInv, Begun, Holding, Opened
  <2>5. Writes(t, client[t])' = Writes(t, client[t])
    BY <1>0, <2>1 DEF Writes
  <2> QED
    BY <1>0, <1>1, <2>1, <2>2, <2>3, <2>4, <2>5 DEF Atomic, flagVars
<1>3. Atomic(s)'
  <2>1. \/ /\ phase[s] = "leasing" /\ phase'[s] = "beginning"
           /\ lent'[client'[s]] = s
        \/ /\ phase[s] = "beginning" /\ phase'[s] = "open" /\ client' = client /\ lent' = lent
           /\ inTx'[client[s]] /\ client[s] \in Clients
        \/ phase[s] = "beginning" /\ phase'[s] = "rejected"
    BY <1>0 DEF SessionsTyped, Connect, BeginOk, BeginFail, Enter, Free, IInv, Begun, Holding
  <2>2. \A k \in Clients : Writes(s, k)' = {}
    BY <1>0, <1>1, <2>1 DEF Atomic, Opened
  <2>3. client'[s] \in Clients => Writes(s, client[s])' = {}
    BY <2>2
  <2>4. wrote[s] = 0 /\ 1..wrote'[s] = {}
    BY <1>0, <2>1 DEF Atomic
  <2> QED
    BY <1>0, <2>1, <2>2, <2>3, <2>4 DEF Atomic, Opened, flagVars
<1> QED
  BY <1>2, <1>3 DEF AtomicInv

LEMMA AtomicWrite ==
  ASSUME NEW s \in Sessions, IInv, AtomicInv, Write(s)
  PROVE  AtomicInv'
<1> DEFINE n == wrote[s] + 1
<1>0. /\ SessionsTyped /\ Atomic(s) /\ phase[s] = "open" /\ ~completed[s] /\ client[s] \in Clients
      /\ wrote[s] \in 0..MaxWrites /\ n \in 1..MaxWrites /\ wrote' = [wrote EXCEPT ![s] = n]
      /\ UNCHANGED <<phase, flagVars, client, lent, inTx, broken, mishap, swallowed>>
      /\ client[s] \notin broken
  BY SessionAssumption
     DEF IInv, TypeOK, SessionsTyped, AtomicInv, Begun, Holding, Write
<1>1. 1..n = (1..wrote[s]) \cup {n}
  BY <1>0, SessionAssumption
<1> HIDE DEF n
<1>2. \/ /\ inTx[client[s]] /\ UNCHANGED kept
         /\ pending' = [pending EXCEPT ![client[s]] = @ \cup {<<s, n>>}]
      \/ /\ ~inTx[client[s]] /\ UNCHANGED pending
         /\ kept' = [kept EXCEPT ![s] = @ \cup {n}]
  BY DEF Write, n
<1>3. ASSUME NEW t \in Sessions \ {s} PROVE Atomic(t)'
  <2>1. Atomic(t) /\ kept'[t] = kept[t] /\ wrote'[t] = wrote[t]
    BY <1>0, <1>2 DEF AtomicInv, SessionsTyped
  <2>2. \A k \in Clients : Writes(t, k)' = Writes(t, k)
    BY <1>0, <1>2 DEF Writes, SessionsTyped
  <2>3. client[t] \in Clients => Writes(t, client[t])' = Writes(t, client[t])
    BY <1>0, <2>2
  <2>4. phase[t] \in Opened => client[t] \in Clients
    BY DEF IInv, Begun, Holding, Opened
  <2> QED
    BY <1>0, <2>1, <2>2, <2>3, <2>4 DEF Atomic, flagVars
<1>4. Atomic(s)'
  <2>1. \A k \in Clients \ {client[s]} : Writes(s, k)' = Writes(s, k)
    BY <1>0, <1>2 DEF Writes, SessionsTyped
  <2>2. CASE mishap[s] # {}
    BY <1>0, <2>1, <2>2 DEF Atomic, Opened, flagVars
  <2>3. CASE mishap[s] = {}
    <3>1. /\ inTx[client[s]] /\ Writes(s, client[s]) = 1..wrote[s] /\ kept[s] = {}
          /\ s \notin swallowed
      BY <1>0, <2>3 DEF Atomic, Opened
    <3>2. Writes(s, client[s])' = Writes(s, client[s]) \cup {n} /\ kept' = kept
      BY <1>0, <1>2, <3>1 DEF Writes, SessionsTyped
    <3>3. Writes(s, client[s])' = 1..wrote'[s]
      BY <1>0, <1>1, <3>1, <3>2 DEF SessionsTyped
    <3> QED
      BY <1>0, <2>1, <2>3, <3>1, <3>2, <3>3 DEF Atomic, Opened, flagVars
  <2> QED
    BY <2>2, <2>3
<1> QED
  BY <1>3, <1>4 DEF AtomicInv

(* A failing statement aborts the transaction: nothing of it waits on the  *)
(* client any more, whoever wrote it, and another session is struck.       *)
LEMMA AtomicWriteFail ==
  ASSUME NEW s \in Sessions, IInv, AtomicInv, WriteFail(s)
  PROVE  AtomicInv'
<1> DEFINE c == client[s]
<1>0. /\ SessionsTyped /\ Atomic(s) /\ phase[s] = "open" /\ ~completed[s] /\ c \in Clients
      /\ UNCHANGED <<flagVars, client, lent, inTx, kept, wrote>>
  BY DEF IInv, TypeOK, SessionsTyped, AtomicInv, Begun, Holding, WriteFail
<1>1. \/ phase'[s] = "aborting" /\ swallowed' = swallowed
      \/ phase' = phase /\ swallowed' = swallowed \cup {s}
  BY <1>0 DEF WriteFail, Enter, SessionsTyped
<1>2. ASSUME NEW t \in Sessions \ {s}
      PROVE  phase'[t] = phase[t] /\ (t \in swallowed' <=> t \in swallowed)
  BY <1>0 DEF WriteFail, Enter, SessionsTyped
<1>3. CASE ~inTx[c]
  <2>1. UNCHANGED <<broken, pending, mishap>> /\ mishap[s] # {}
    BY <1>0, <1>3 DEF WriteFail, Atomic, Opened
  <2>2. \A t \in Sessions : \A k : Writes(t, k)' = Writes(t, k)
    BY <2>1 DEF Writes
  <2>3. \A t \in Sessions : Writes(t, client[t])' = Writes(t, client[t])
    BY <1>0, <2>1 DEF Writes
  <2>4. ASSUME NEW t \in Sessions \ {s} PROVE Atomic(t)'
    BY <1>0, <1>2, <2>1, <2>2, <2>3, <2>4 DEF Atomic, AtomicInv, flagVars
  <2>5. Atomic(s)'
    BY <1>0, <1>1, <2>1, <2>2 DEF Atomic, flagVars, Opened
  <2> QED
    BY <2>4, <2>5 DEF AtomicInv
<1>4. CASE inTx[c]
  <2>1. /\ broken' = broken \cup {c} /\ pending' = [pending EXCEPT ![c] = {}]
        /\ mishap' = Struck(s, {})
    BY <1>4 DEF WriteFail
  <2>2. ASSUME NEW t \in Sessions, NEW k \in Clients
        PROVE  Writes(t, k)' = IF k = c THEN {} ELSE Writes(t, k)
    BY <1>0, <2>1 DEF Writes, SessionsTyped
  <2>3. mishap'[s] = mishap[s]
    BY <1>0, <2>1 DEF Struck, SessionsTyped
  <2>4. Atomic(s)'
    BY <1>0, <1>1, <2>1, <2>2, <2>3 DEF Atomic, flagVars, Opened
  <2>5. ASSUME NEW t \in Sessions \ {s} PROVE Atomic(t)'
    <3>1. Atomic(t) /\ Opened \cap Ended = {}
      BY DEF AtomicInv, Opened, Ended
    <3>2. mishap'[t] # {} <=> mishap[t] # {} \/ (client[t] = c /\ phase[t] \notin Ended)
      BY <1>0, <2>1 DEF Struck
    <3>3. phase[t] \in Opened => client[t] \in Clients
      BY DEF IInv, Begun, Holding, Opened
    <3>4. client[t] \in Clients /\ client[t] # c =>
            Writes(t, client[t])' = Writes(t, client[t])
      BY <1>0, <2>2
    <3>5. mishap'[t] = {} /\ phase[t] \in Opened => client[t] # c
      BY <3>1, <3>2
    <3> QED
      BY <1>0, <1>2, <2>1, <2>2, <3>1, <3>2, <3>3, <3>4, <3>5 DEF Atomic, flagVars
  <2> QED
    BY <2>4, <2>5 DEF AtomicInv
<1> QED
  BY <1>3, <1>4

(* The end of a transaction on the server: it takes every write waiting on *)
(* the client, so a session that still used the client is struck by it.    *)
LEMMA AtomicOthers ==
  ASSUME NEW s \in Sessions, IInv, AtomicInv, NEW keep \in BOOLEAN, EndOnServer(s, keep),
         NEW own, mishap' = Struck(s, own), ReleaseClient(s), client[s] \in Clients,
         UNCHANGED <<client, wrote, swallowed>>,
         NEW t \in Sessions \ {s}, phase'[t] = phase[t], completed'[t] = completed[t]
  PROVE  Atomic(t)'
<1>0. SessionsTyped /\ Atomic(t)
  BY DEF IInv, TypeOK, SessionsTyped, AtomicInv
<1>1. /\ kept'[t] = kept[t] \cup IF keep THEN Writes(t, client[s]) ELSE {}
      /\ pending' = [pending EXCEPT ![client[s]] = {}]
      /\ inTx' = [inTx EXCEPT ![client[s]] = FALSE] /\ broken' = broken \ {client[s]}
      /\ lent' = [lent EXCEPT ![client[s]] = NoOne]
  BY DEF EndOnServer, Writes, ReleaseClient
<1>2. \A k \in Clients : Writes(t, k)' = IF k = client[s] THEN {} ELSE Writes(t, k)
  BY <1>0, <1>1 DEF Writes, SessionsTyped
<1>3. /\ mishap'[t] # {} <=> mishap[t] # {} \/ (client[t] = client[s] /\ phase[t] \notin Ended)
      /\ Opened \cap Ended = {} /\ "aborting" \notin Ended /\ "beginning" \notin Ended
  BY <1>0 DEF Struck, Ended, Opened
<1>4. CASE client[t] = client[s] /\ phase[t] \notin Ended
  <2>1. phase[t] \in {"idle", "leasing", "beginning"} => kept'[t] = {}
    BY <1>0, <1>1 DEF Atomic, Opened
  <2> QED
    BY <1>0, <1>2, <1>3, <1>4, <2>1 DEF Atomic
<1>5. CASE ~(client[t] = client[s] /\ phase[t] \notin Ended)
  <2>1. Writes(t, client[s]) = {} /\ kept'[t] = kept[t] /\ (mishap'[t] = {} <=> mishap[t] = {})
    BY <1>0, <1>1, <1>3, <1>5 DEF Atomic
  <2>2. ASSUME phase[t] \in Opened \cup {"beginning"}
        PROVE  /\ client[t] \in Clients /\ client[t] # client[s]
               /\ lent'[client[t]] = lent[client[t]] /\ inTx'[client[t]] = inTx[client[t]]
               /\ (client[t] \in broken => client[t] \in broken')
               /\ Writes(t, client[t])' = Writes(t, client[t])
    <3>1. client[t] \in Clients /\ client[t] # client[s]
      BY <1>3, <1>5, <2>2 DEF IInv, Begun, Holding, Opened
    <3> QED
      BY <1>0, <1>1, <1>2, <3>1 DEF SessionsTyped
  <2> QED
    BY <1>0, <1>2, <2>1, <2>2 DEF Atomic
<1> QED
  BY <1>4, <1>5

LEMMA AtomicEnd ==
  ASSUME NEW s \in Sessions, IInv, AtomicInv, EndStep(s)
  PROVE  AtomicInv'
<1>0. /\ SessionsTyped /\ Atomic(s) /\ client[s] \in Clients
      /\ phase[s] \in {"committing", "undoing", "aborting"}
      /\ UNCHANGED <<client, wrote, swallowed>>
      /\ \A t \in Sessions \ {s} : phase'[t] = phase[t]
  <2>1. SessionsTyped /\ Atomic(s)
    BY DEF IInv, TypeOK, SessionsTyped, AtomicInv
  <2> QED
    BY <2>1, EndStepEffect DEF IInv, Begun, Holding, SessionsTyped
<1>1. CASE RollbackNothing(s)
  <2>1. /\ completed[s] /\ UNCHANGED <<completed, serverVars>>
        /\ phase[s] = "aborting" /\ phase'[s] = "rejected"
    BY <1>0, <1>1 DEF RollbackNothing, EndStep, CommitOk, CommitFail, RollbackInFn, Abort, Enter,
       Atomic, SessionsTyped
  <2>2. \A t \in Sessions : \A k : Writes(t, k)' = Writes(t, k)
    BY <2>1 DEF Writes, serverVars
  <2>3. \A t \in Sessions : Writes(t, client[t])' = Writes(t, client[t])
    BY <2>1 DEF Writes, serverVars
  <2>4. ASSUME NEW t \in Sessions PROVE Atomic(t)'
    BY <1>0, <2>1, <2>2, <2>3, <2>4 DEF Atomic, AtomicInv, serverVars, Opened
  <2> QED
    BY <2>4 DEF AtomicInv
<1>2. CASE ~RollbackNothing(s)
  <2>1. PICK keep \in BOOLEAN, own \in SUBSET {"lostAnswer"} :
          /\ EndOnServer(s, keep) /\ mishap' = Struck(s, own) /\ ReleaseClient(s)
          /\ \/ /\ CommitOk(s) /\ keep
             \/ /\ CommitFail(s) /\ (keep => own # {})
             \/ /\ ~keep /\ ~completed[s] /\ completed' = [completed EXCEPT ![s] = ~ReleaseThrows(s)]
                /\ phase'[s] \in {"open", "aborting", "rejected"}
                /\ phase'[s] = "open" => completed'[s]
    <3>1. CASE CommitOk(s)
      BY <3>1 DEF CommitOk
    <3>2. CASE CommitFail(s)
      <4>1. PICK lost \in BOOLEAN :
              EndOnServer(s, lost) /\ mishap' = Struck(s, IF lost THEN {"lostAnswer"} ELSE {})
        BY <3>2 DEF CommitFail
      <4> QED
        BY <3>2, <4>1 DEF CommitFail
    <3>3. CASE RollbackInFn(s) \/ Abort(s)
      <4>1. RollbackOnClient(s)
        BY <1>2, <3>3 DEF RollbackInFn, Abort, Rollback
      <4> QED
        BY <1>0, <3>3, <4>1 DEF RollbackInFn, Abort, RollbackOnClient, Enter, SessionsTyped
    <3> QED
      BY <3>1, <3>2, <3>3 DEF EndStep
  <2>2. \A t \in Sessions \ {s} : completed'[t] = completed[t]
    BY <1>0, <2>1 DEF CommitOk, CommitFail, SessionsTyped
  <2>3. \A t \in Sessions \ {s} : Atomic(t)'
    BY <1>0, <2>1, <2>2, AtomicOthers
  <2>4. \A k \in Clients : Writes(s, k)' = {}
    BY <1>0, <2>1 DEF EndOnServer, Writes, SessionsTyped, Atomic
  <2>5. kept'[s] = kept[s] \cup IF keep THEN Writes(s, client[s]) ELSE {}
    BY <2>1 DEF EndOnServer, Writes
  <2>6. mishap'[s] = mishap[s] \cup own
    BY <1>0, <2>1 DEF Struck
  <2>7. CASE CommitOk(s) /\ keep
    <3>1. /\ phase[s] = "committing" /\ ~completed[s]
          /\ \/ phase'[s] = "aborting" /\ lent[client[s]] = NoOne
             \/ phase'[s] = "resolved" /\ completed'[s]
      BY <1>0, <2>7 DEF CommitOk, Enter, ReleaseThrows, SessionsTyped, Atomic
    <3>2. mishap'[s] = {} => /\ kept[s] = {} /\ lent[client[s]] # NoOne
                             /\ Writes(s, client[s]) = IF s \in swallowed THEN {} ELSE 1..wrote[s]
      BY <1>0, <2>6, <3>1, SessionAssumption DEF Atomic, Opened
    <3>3. mishap'[s] = {} => kept'[s] = IF s \in swallowed THEN {} ELSE 1..wrote[s]
      BY <2>5, <2>7, <3>2
    <3>4. mishap'[s] = {} => phase'[s] = "resolved"
      BY <3>1, <3>2
    <3>5. Atomic(s)'
      BY <1>0, <2>4, <3>1, <3>3, <3>4 DEF Atomic, Opened
    <3> QED
      BY <2>3, <3>5 DEF AtomicInv
  <2>8. CASE CommitFail(s) /\ (keep => own # {})
    <3>1. phase[s] = "committing" /\ ~completed[s] /\ phase'[s] = "aborting"
          /\ completed' = completed
      BY <1>0, <2>8 DEF CommitFail, Enter, SessionsTyped, Atomic
    <3>2. mishap'[s] = {} => kept'[s] = {}
      BY <1>0, <2>5, <2>6, <2>8, <3>1 DEF Atomic
    <3> QED
      BY <1>0, <2>3, <2>4, <3>1, <3>2 DEF AtomicInv, Atomic, Opened
  <2>9. CASE /\ ~keep /\ ~completed[s] /\ completed' = [completed EXCEPT ![s] = ~ReleaseThrows(s)]
             /\ phase'[s] \in {"open", "aborting", "rejected"}
             /\ phase'[s] = "open" => completed'[s]
    <3>1. mishap'[s] = {} => kept'[s] = {}
      BY <1>0, <2>5, <2>6, <2>9 DEF Atomic
    <3> QED
      BY <1>0, <2>3, <2>4, <2>9, <3>1 DEF AtomicInv, Atomic, Opened
  <2> QED
    BY <2>1, <2>7, <2>8, <2>9
<1> QED
  BY <1>1, <1>2

LEMMA AtomicStep == IInv /\ AtomicInv /\ [Next]_vars => AtomicInv'
<1> SUFFICES ASSUME IInv, AtomicInv, [Next]_vars PROVE AtomicInv'
  OBVIOUS
<1>1. CASE Next
  BY <1>1, AtomicLocal, AtomicBegin, AtomicWrite, AtomicWriteFail, AtomicEnd DEF Next, EndStep
<1>2. CASE UNCHANGED vars
  BY <1>2 DEF vars, flagVars, serverVars, AtomicInv, Atomic, Writes
<1> QED
  BY <1>1, <1>2

(* What useTransaction() reports is what the server did with all of the    *)
(* writes (all of them kept, or none when fn caught a failing statement),  *)
(* unless another session ended the transaction or COMMIT's answer was     *)
(* lost.                                                                   *)
THEOREM TransactionsAreAtomic == Spec => []AtomicUnlessStruck
<1>1. AtomicInv => AtomicUnlessStruck
  BY DEF AtomicInv, Atomic, AtomicUnlessStruck, Reported
<1> QED
  BY <1>1, AtomicInit, AtomicStep, TransactionsInvariant, PTL DEF Spec
=============================================================================
