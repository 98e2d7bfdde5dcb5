------------------------- MODULE PooledTransactions -------------------------
(***************************************************************************)
(* DbContext.useTransaction() over a PooledDbAdapter over a PostgresAdapter *)
(* (MysqlAdapter has the same shape).  A transaction needs a lease of the  *)
(* ConnectionPool and then a client of the driver's own pool; the lease is *)
(* returned by the commit() and rollback() that PooledDbAdapter wraps, the *)
(* client by the ones the driver defines.                                  *)
(*                                                                         *)
(* The driver's client pool and the server are outside the repository:     *)
(* lent, inTx, broken, pending and kept model what the adapter's calls do  *)
(* to them, as PostgreSQL answers: a failing statement aborts the open     *)
(* transaction, and COMMIT of an aborted one rolls back without an error.  *)
(***************************************************************************)
EXTENDS Integers, Sequences, FiniteSets

CONSTANTS
  Sessions,         \* the calls of useTransaction()
  Clients,          \* connections of the driver's pool
  NoOne,            \* a client nobody has, a session without a client
  MaxWrites,        \* bound: statements one transaction runs
  MinConnections,   \* options of the ConnectionPool
  MaxConnections

ASSUME SessionAssumption ==
  /\ IsFiniteSet(Sessions)
  /\ MaxWrites \in Nat
  /\ MinConnections \in Nat
  /\ MaxConnections \in Nat
  /\ NoOne \notin Sessions \cup Clients

VARIABLES
  active, idle, waiters, isClosed, call, abandoned,   \* of ConnectionPool
  phase,      \* where each session's useTransaction() is
  released,   \* the flag safeRelease() closes over
  completed,  \* DbTransaction._isCompleted
  client,     \* the client the driver's closures captured
  lent,       \* for each client, the session its pool lent it to
  inTx,       \* for each client, the server has a transaction open on it
  broken,     \* clients whose open transaction a failing statement aborted
  pending,    \* for each client, the writes that transaction holds
  kept,       \* for each session, its writes that are durable
  wrote,      \* for each session, how many writes it ran
  mishap,     \* what befell a session from outside (history)
  swallowed   \* sessions whose fn went on after a failing statement (history)

poolVars == <<active, idle, waiters, isClosed, call, abandoned>>
flagVars == <<released, completed>>
serverVars == <<client, lent, inTx, broken, pending, kept, wrote, mishap, swallowed>>
vars == <<poolVars, phase, flagVars, serverVars>>

(* One acquire() for the transaction, one for a statement that fn runs     *)
(* inside it without passing the transaction.                              *)
TxJob(s) == <<s, "tx">>
QueryJob(s) == <<s, "query">>
Jobs == Sessions \X {"tx", "query"}

(* The pool is seen without its heartbeat and with the database up. *)
Calm == [timer |-> FALSE, healthy |-> TRUE, pings |-> [p \in {} |-> "none"], dbUp |-> TRUE]

Pool == INSTANCE ConnectionPool WITH
  Callers <- Jobs, HeartbeatMs <- 0, Pings <- {},
  timer <- Calm.timer, healthy <- Calm.healthy, pings <- Calm.pings, dbUp <- Calm.dbUp

Ended == {"idle", "resolved", "rejected"}
Phases == Ended \cup
  {"leasing", "beginning", "open", "querying", "undoing", "committing", "aborting"}

TypeOK ==
  /\ Pool!TypeOK
  /\ phase \in [Sessions -> Phases]
  /\ released \in [Sessions -> BOOLEAN]
  /\ completed \in [Sessions -> BOOLEAN]
  /\ client \in [Sessions -> Clients \cup {NoOne}]
  /\ lent \in [Clients -> Sessions \cup {NoOne}]
  /\ inTx \in [Clients -> BOOLEAN]
  /\ broken \in SUBSET Clients
  /\ pending \in [Clients -> SUBSET (Sessions \X (1..MaxWrites))]
  /\ kept \in [Sessions -> SUBSET (1..MaxWrites)]
  /\ wrote \in [Sessions -> 0..MaxWrites]
  /\ mishap \in [Sessions -> SUBSET {"foreignEnd", "lostAnswer"}]
  /\ swallowed \in SUBSET Sessions

Init ==
  /\ Pool!Init
  /\ phase = [s \in Sessions |-> "idle"]
  /\ released = [s \in Sessions |-> FALSE]
  /\ completed = [s \in Sessions |-> FALSE]
  /\ client = [s \in Sessions |-> NoOne]
  /\ lent = [k \in Clients |-> NoOne]
  /\ inTx = [k \in Clients |-> FALSE]
  /\ broken = {}
  /\ pending = [k \in Clients |-> {}]
  /\ kept = [s \in Sessions |-> {}]
  /\ wrote = [s \in Sessions |-> 0]
  /\ mishap = [s \in Sessions |-> {}]
  /\ swallowed = {}

Enter(s, p) == phase' = [phase EXCEPT ![s] = p]

-----------------------------------------------------------------------------
(* beginTransaction(): a lease, then a client, then BEGIN. *)

UseTransaction(s) ==
  /\ phase[s] = "idle"
  /\ Pool!Acquire(TxJob(s))
  /\ Enter(s, "leasing")
  /\ UNCHANGED <<flagVars, serverVars>>

LeaseTimeout(s) ==
  /\ phase[s] = "leasing"
  /\ Pool!Timeout(TxJob(s))
  /\ Enter(s, "rejected")
  /\ UNCHANGED <<flagVars, serverVars>>

Free == {k \in Clients : lent[k] = NoOne}

Connect(s) ==
  /\ phase[s] = "leasing"
  /\ call[TxJob(s)] = "leased"
  /\ \E k \in Free :
       /\ lent' = [lent EXCEPT ![k] = s]
       /\ client' = [client EXCEPT ![s] = k]
  /\ Enter(s, "beginning")
  /\ UNCHANGED <<poolVars, flagVars, inTx, broken, pending, kept, wrote, mishap, swallowed>>

(* The driver cannot make a new client: PooledDbAdapter returns the lease. *)
ConnectFail(s) ==
  /\ phase[s] = "leasing"
  /\ call[TxJob(s)] = "leased"
  /\ Free # {}
  /\ Pool!ReleaseSlot(TxJob(s))
  /\ Enter(s, "rejected")
  /\ UNCHANGED <<flagVars, serverVars>>

BeginOk(s) ==
  /\ phase[s] = "beginning"
  /\ inTx' = [inTx EXCEPT ![client[s]] = TRUE]
  /\ Enter(s, "open")
  /\ UNCHANGED <<poolVars, flagVars, client, lent, broken, pending, kept, wrote, mishap, swallowed>>

(* BEGIN fails: PooledDbAdapter returns the lease, nobody the client. *)
BeginFailKeepsLease(s) ==    \* fault: the catch of beginTransaction() is missing
  /\ phase[s] = "beginning"
  /\ client' = [client EXCEPT ![s] = NoOne]
  /\ Enter(s, "rejected")
  /\ UNCHANGED <<poolVars, flagVars, lent, inTx, broken, pending, kept, wrote, mishap, swallowed>>

BeginFail(s) ==
  /\ phase[s] = "beginning"
  /\ Pool!ReleaseSlot(TxJob(s))
  /\ client' = [client EXCEPT ![s] = NoOne]
  /\ Enter(s, "rejected")
  /\ UNCHANGED <<flagVars, lent, inTx, broken, pending, kept, wrote, mishap, swallowed>>

-----------------------------------------------------------------------------
(* fn(tx): writes on the transaction's client, statements outside it. *)

(* Every other session still using the client is struck when s aborts or   *)
(* ends the transaction on it.                                             *)
Struck(s, own) ==
  [t \in Sessions |->
     mishap[t] \cup IF t = s THEN own
                    ELSE IF client[t] = client[s] /\ phase[t] \notin Ended
                    THEN {"foreignEnd"} ELSE {}]

Write(s) ==
  /\ phase[s] = "open"
  /\ ~completed[s]
  /\ client[s] \notin broken
  /\ wrote[s] < MaxWrites
  /\ wrote' = [wrote EXCEPT ![s] = @ + 1]
  /\ IF inTx[client[s]]
       THEN /\ pending' = [pending EXCEPT ![client[s]] = @ \cup {<<s, wrote[s] + 1>>}]
            /\ UNCHANGED kept
       ELSE /\ kept' = [kept EXCEPT ![s] = @ \cup {wrote[s] + 1}]
            /\ UNCHANGED pending
  /\ UNCHANGED <<poolVars, phase, flagVars, client, lent, inTx, broken, mishap, swallowed>>

(* A statement of the transaction throws: the server gives up what the     *)
(* transaction wrote, and fn lets the error pass or catches it and goes on.*)
WriteFail(s) ==
  /\ phase[s] = "open"
  /\ ~completed[s]
  /\ IF inTx[client[s]]
       THEN /\ broken' = broken \cup {client[s]}
            /\ pending' = [pending EXCEPT ![client[s]] = {}]
            /\ mishap' = Struck(s, {})
       ELSE UNCHANGED <<broken, pending, mishap>>
  /\ \/ /\ Enter(s, "aborting")
        /\ UNCHANGED swallowed
     \/ /\ swallowed' = swallowed \cup {s}
        /\ UNCHANGED phase
  /\ UNCHANGED <<poolVars, flagVars, client, lent, inTx, kept, wrote>>

(* A statement without the transaction takes a second lease. *)
Query(s) ==
  /\ phase[s] = "open"
  /\ Pool!Acquire(QueryJob(s))
  /\ Enter(s, "querying")
  /\ UNCHANGED <<flagVars, serverVars>>

QueryTimeoutIgnored(s) ==    \* fault: the refusal never reaches the awaiting fn
  /\ phase[s] = "querying"
  /\ Pool!Timeout(QueryJob(s))
  /\ UNCHANGED <<phase, flagVars, serverVars>>

(* The refusal reaches fn, which lets it pass or catches it.               *)
QueryTimeout(s) ==
  /\ phase[s] = "querying"
  /\ Pool!Timeout(QueryJob(s))
  /\ Enter(s, "open") \/ Enter(s, "aborting")
  /\ UNCHANGED <<flagVars, serverVars>>

(* It borrows a client, and returns it and the lease, failing or not. *)
RunQuery(s) ==
  /\ phase[s] = "querying"
  /\ call[QueryJob(s)] = "leased"
  /\ Free # {}
  /\ Pool!ReleaseSlot(QueryJob(s))
  /\ Enter(s, "open") \/ Enter(s, "aborting")
  /\ UNCHANGED <<flagVars, serverVars>>

(* fn may roll back on its own, throw, or return. *)
UndoInFn(s) ==
  /\ phase[s] = "open"
  /\ ~completed[s]
  /\ Enter(s, "undoing")
  /\ UNCHANGED <<poolVars, flagVars, serverVars>>

Throw(s) ==
  /\ phase[s] = "open"
  /\ Enter(s, "aborting")
  /\ UNCHANGED <<poolVars, flagVars, serverVars>>

Return(s) ==
  /\ phase[s] = "open"
  /\ Enter(s, IF completed[s] THEN "aborting" ELSE "committing")
  /\ UNCHANGED <<poolVars, flagVars, serverVars>>

-----------------------------------------------------------------------------
(* The end of a transaction: what the server does with the writes pending  *)
(* on the client, and what the wrapped commit() and rollback() give back.  *)

EndOnServer(s, keep) ==
  LET k == client[s]
  IN /\ kept' = [t \in Sessions |->
                   kept[t] \cup IF keep THEN {i \in 1..MaxWrites : <<t, i>> \in pending[k]} ELSE {}]
     /\ pending' = [pending EXCEPT ![k] = {}]
     /\ inTx' = [inTx EXCEPT ![k] = FALSE]
     /\ broken' = broken \ {k}

(* client.release() ends the current loan of the client, whoever has it;   *)
(* it throws when there is none.                                           *)
ReleaseClient(s) == lent' = [lent EXCEPT ![client[s]] = NoOne]
ReleaseThrows(s) == lent[client[s]] = NoOne

DoubleRelease(s) ==          \* fault: safeRelease() does not look at its flag
  /\ released' = [released EXCEPT ![s] = TRUE]
  /\ Pool!ReleaseSlot(TxJob(s))

SafeRelease(s) ==
  /\ released' = [released EXCEPT ![s] = TRUE]
  /\ IF released[s] THEN UNCHANGED poolVars ELSE Pool!ReleaseSlot(TxJob(s))

(* COMMIT succeeds. useTransaction() resolves, unless client.release()     *)
(* threw: then it goes on to roll back.                                    *)
CommitOk(s) ==
  /\ phase[s] = "committing"
  /\ EndOnServer(s, TRUE)
  /\ ReleaseClient(s)
  /\ SafeRelease(s)
  /\ IF ReleaseThrows(s)
       THEN /\ Enter(s, "aborting")
            /\ UNCHANGED completed
       ELSE /\ Enter(s, "resolved")
            /\ completed' = [completed EXCEPT ![s] = TRUE]
  /\ mishap' = Struck(s, {})
  /\ UNCHANGED <<client, wrote, swallowed>>

(* COMMIT fails on the server, or succeeds there and its answer is lost.   *)
CommitFail(s) ==
  /\ phase[s] = "committing"
  /\ \E lost \in BOOLEAN :
       /\ EndOnServer(s, lost)
       /\ mishap' = Struck(s, IF lost THEN {"lostAnswer"} ELSE {})
  /\ ReleaseClient(s)
  /\ SafeRelease(s)
  /\ Enter(s, "aborting")
  /\ UNCHANGED <<completed, client, wrote, swallowed>>

(* tx.rollback(): nothing when the transaction is completed, or ROLLBACK   *)
(* on the client the driver captured, still lent to this session or not.   *)
RollbackNothing(s) ==
  /\ completed[s]
  /\ SafeRelease(s)
  /\ UNCHANGED <<completed, serverVars>>

RollbackOnClient(s) ==
  /\ ~completed[s]
  /\ EndOnServer(s, FALSE)
  /\ ReleaseClient(s)
  /\ SafeRelease(s)
  /\ completed' = [completed EXCEPT ![s] = ~ReleaseThrows(s)]
  /\ mishap' = Struck(s, {})
  /\ UNCHANGED <<client, wrote, swallowed>>

Rollback(s) == RollbackNothing(s) \/ RollbackOnClient(s)

RollbackInFn(s) ==
  /\ phase[s] = "undoing"
  /\ Rollback(s)
  /\ Enter(s, IF completed'[s] THEN "open" ELSE "aborting")

AbortSkipsRollback(s) ==     \* fault: the catch of useTransaction() only rethrows
  /\ phase[s] = "aborting"
  /\ SafeRelease(s)
  /\ ReleaseClient(s)
  /\ Enter(s, "rejected")
  /\ UNCHANGED <<completed, client, inTx, broken, pending, kept, wrote, mishap, swallowed>>

Abort(s) ==
  /\ phase[s] = "aborting"
  /\ Rollback(s)
  /\ Enter(s, "rejected")

-----------------------------------------------------------------------------
Next ==
  \E s \in Sessions :
    \/ UseTransaction(s) \/ LeaseTimeout(s) \/ Connect(s) \/ ConnectFail(s)
    \/ BeginOk(s) \/ BeginFail(s)
    \/ Write(s) \/ WriteFail(s) \/ Query(s) \/ QueryTimeout(s) \/ RunQuery(s)
    \/ UndoInFn(s) \/ Throw(s) \/ Return(s)
    \/ CommitOk(s) \/ CommitFail(s) \/ RollbackInFn(s) \/ Abort(s)

Spec == Init /\ [][Next]_vars

(* fn ends, the server answers, timers fire, and the driver's client pool  *)
(* serves its waiting callers in turn.                                     *)
Fairness == \A s \in Sessions :
  /\ WF_vars(LeaseTimeout(s)) /\ SF_vars(Connect(s) \/ ConnectFail(s))
  /\ WF_vars(BeginOk(s) \/ BeginFail(s))
  /\ WF_vars(QueryTimeout(s)) /\ SF_vars(RunQuery(s))
  /\ SF_vars(Throw(s) \/ Return(s))
  /\ WF_vars(CommitOk(s) \/ CommitFail(s))
  /\ WF_vars(RollbackInFn(s)) /\ WF_vars(Abort(s))

FairSpec == Spec /\ Fairness

-----------------------------------------------------------------------------
Holding == {"beginning", "open", "querying", "undoing", "committing"}

(* A transaction has its lease from acquire() to the end of its commit()   *)
(* or rollback(), exactly once and on every error path; a statement beside *)
(* it only while it runs; an ended call has neither.                       *)
LeaseMatchesWork == \A s \in Sessions :
  /\ phase[s] \in Ended => call[TxJob(s)] \notin {"leased", "waiting"}
  /\ phase[s] = "leasing" => call[TxJob(s)] \in {"leased", "waiting"}
  /\ phase[s] \in Holding \cup {"aborting"} =>
       call[TxJob(s)] = IF released[s] THEN "none" ELSE "leased"
  /\ call[QueryJob(s)] \in {"leased", "waiting"} <=> phase[s] = "querying"

(* Every step uses the pool as its interface asks: a lease is released     *)
(* only by the call that holds it, so no stray release() frees another's.  *)
PoolDiscipline == Pool!Spec

(* What useTransaction() tells its caller is what the server did with all  *)
(* its writes: a call that rejected kept none, one that resolved kept all  *)
(* of them, or none when its fn caught the error of a failing statement    *)
(* (COMMIT then rolls back and says nothing). Excused is only a call whose *)
(* transaction another session ended, or whose COMMIT lost its answer.     *)
Reported(s) ==
  /\ phase[s] = "resolved" => kept[s] = IF s \in swallowed THEN {} ELSE 1..wrote[s]
  /\ phase[s] = "rejected" => kept[s] = {}

AtomicUnlessStruck == \A s \in Sessions : mishap[s] = {} => Reported(s)

(* "auto-committing on success or rolling back on error" (DbContext.ts:457)*)
(* of a call: when it resolves, its writes are committed. Not so when fn   *)
(* caught the error of one of its statements.                              *)
ResolvedIsKept ==
  \A s \in Sessions : mishap[s] = {} /\ phase[s] = "resolved" => kept[s] = 1..wrote[s]

(* A client stays lent only to a session that uses it, or it was lost to a *)
(* failed BEGIN.                                                           *)
Lost == {k \in Clients : lent[k] # NoOne /\ client[lent[k]] # k}

(* Transactions that wait for a second lease while holding the first do    *)
(* not block each other for ever: the acquire timeout breaks the cycle.    *)
(* Not so once a client was lost: the driver's pool has no such timeout.   *)
EveryTransactionEnds ==
  [](Lost = {}) => \A s \in Sessions : phase[s] \notin Ended ~> phase[s] \in Ended
=============================================================================
