-------------------------- MODULE OutboxDispatcher --------------------------
(***************************************************************************)
(* src/outbox/OutboxDispatcher.ts: messages enqueued with the transaction  *)
(* they belong to, and dispatchPending() run by several workers over the   *)
(* same table.  A worker reads a batch once and goes through it message by *)
(* message; what it writes back comes from that reading, so the work of    *)
(* other workers in between is overwritten.                                *)
(*                                                                         *)
(* The server drivers give a transaction a connection of its own.  With    *)
(* SqliteAdapter and D1Adapter one connection serves every caller and the  *)
(* transaction argument is ignored: whatever runs between a BEGIN and its  *)
(* end belongs to that transaction.  shared says which of the two it is.   *)
(***************************************************************************)
EXTENDS Integers, Sequences, Functions

CONSTANTS
  Messages,
  Workers,      \* processes that call dispatchPending() again and again
  BatchSize,    \* options.batchSize
  MaxRetries,   \* options.maxRetries
  MaxFaults,    \* bound: crashes, failed updates of the failure branch, and
                \* rollbacks of a transaction that had other callers' statements
  NoTx          \* no transaction is open on the shared connection

ASSUME OutboxAssumption ==
  /\ BatchSize \in Nat \ {0}
  /\ MaxRetries \in Nat \ {0}
  /\ MaxFaults \in Nat
  /\ NoTx \notin [row : [Messages -> {"absent", "inTx", "undone", "PENDING", "DISPATCHED", "FAILED"}],
                 retry : [Messages -> 0..MaxRetries]]

VARIABLES
  shared,     \* one connection serves all callers
  saved,      \* row and retry as a ROLLBACK on it restores them, or NoTx
  row,        \* status of each message's row; before it is visible, its transaction
  retry,      \* retry_count of each message
  order,      \* the messages by created_at
  batch,      \* what is left of each worker's messages, as it read them
  at,         \* what each worker does with the first of them
  accepted,   \* messages some handler call resolved for (history)
  failures,   \* failed attempts at each message, up to MaxRetries (history)
  faults      \* faults so far

outbox == <<row, retry, order>>
conn == <<shared, saved>>
vars == <<conn, outbox, batch, at, accepted, failures, faults>>

Statuses == {"PENDING", "DISPATCHED", "FAILED"}

Rows == [Messages -> {"absent", "inTx", "undone"} \cup Statuses]
Counts == [Messages -> 0..MaxRetries]

TypeOK ==
  /\ shared \in BOOLEAN
  /\ saved \in [row : Rows, retry : Counts] \cup {NoTx}
  /\ row \in Rows
  /\ retry \in Counts
  /\ order \in Seq(Messages)
  /\ batch \in [Workers -> Seq([id : Messages, retryCount : 0..MaxRetries - 1])]
  /\ at \in [Workers -> {"idle", "handling", "sent", "caught"}]
  /\ accepted \in SUBSET Messages
  /\ failures \in [Messages -> 0..MaxRetries]
  /\ faults \in 0..MaxFaults

Init ==
  /\ shared \in BOOLEAN
  /\ saved = NoTx
  /\ row = [m \in Messages |-> "absent"]
  /\ retry = [m \in Messages |-> 0]
  /\ order = <<>>
  /\ batch = [w \in Workers |-> <<>>]
  /\ at = [w \in Workers |-> "idle"]
  /\ accepted = {}
  /\ failures = [m \in Messages |-> 0]
  /\ faults = 0

-----------------------------------------------------------------------------
(* enqueue(), inside a transaction or on its own.  On a shared connection  *)
(* the INSERT belongs to whatever transaction is open.                     *)
Enqueue(m) ==
  /\ row[m] = "absent"
  /\ \E s \in IF shared THEN {"PENDING"} ELSE {"inTx", "PENDING"} :
       row' = [row EXCEPT ![m] = s]
  /\ order' = Append(order, m)
  /\ UNCHANGED <<conn, retry, batch, at, accepted, failures, faults>>

(* The end of that transaction shows the row to everyone, or undoes it. *)
EndTx(m) ==
  /\ row[m] = "inTx"
  /\ \E s \in {"PENDING", "undone"} : row' = [row EXCEPT ![m] = s]
  /\ UNCHANGED <<conn, retry, order, batch, at, accepted, failures, faults>>

(* A caller's transaction on the shared connection: a ROLLBACK takes back  *)
(* all that was written since the BEGIN, by whomever.                      *)
BeginShared ==
  /\ shared
  /\ saved = NoTx
  /\ faults < MaxFaults
  /\ saved' = [row |-> row, retry |-> retry]
  /\ UNCHANGED <<shared, outbox, batch, at, accepted, failures, faults>>

CommitShared ==
  /\ saved # NoTx
  /\ saved' = NoTx
  /\ UNCHANGED <<shared, outbox, batch, at, accepted, failures, faults>>

RollbackShared ==
  /\ saved # NoTx
  /\ faults < MaxFaults     \* a crash may have come between
  /\ faults' = faults + 1
  /\ row' = [m \in Messages |->
               IF saved.row[m] = "absent" /\ row[m] # "absent" THEN "undone" ELSE saved.row[m]]
  /\ retry' = saved.retry
  /\ saved' = NoTx
  /\ UNCHANGED <<shared, order, batch, at, accepted, failures>>

-----------------------------------------------------------------------------
(* dispatchPending() *)

Due(m) == row[m] = "PENDING" /\ retry[m] < MaxRetries

(* UPDATE ... WHERE id = m changes nothing when the row is gone. *)
SetStatus(m, s) == row' = IF row[m] \in Statuses THEN [row EXCEPT ![m] = s] ELSE row
SetRetry(m, n) == retry' = IF row[m] \in Statuses THEN [retry EXCEPT ![m] = n] ELSE retry

Snapshot(m) == [id |-> m, retryCount |-> retry[m]]

Before(m, k) == \E i, j \in DOMAIN order : i < j /\ order[i] = m /\ order[j] = k

(* ORDER BY created_at and slice(0, batchSize): b lists due messages in    *)
(* order, and leaves out only later ones, and those only when it is full.  *)
IsBatch(b) ==
  /\ \A i \in DOMAIN b : Due(b[i])
  /\ \A i, j \in DOMAIN b : i < j => Before(b[i], b[j])
  /\ \A m \in Messages \ Range(b) :
       Due(m) => Len(b) = BatchSize /\ \A i \in DOMAIN b : Before(b[i], m)

Fetch(w) ==
  /\ at[w] = "idle"
  /\ \E n \in 1..BatchSize : \E b \in [1..n -> Messages] :
       /\ IsBatch(b)
       /\ batch' = [batch EXCEPT ![w] = [i \in 1..n |-> Snapshot(b[i])]]
  /\ at' = [at EXCEPT ![w] = "handling"]
  /\ UNCHANGED <<conn, outbox, accepted, failures, faults>>

Current(w) == Head(batch[w])

(* On to the next message of the batch, or return. *)
Advance(w) ==
  /\ batch' = [batch EXCEPT ![w] = Tail(@)]
  /\ at' = [at EXCEPT ![w] = IF Tail(batch[w]) = <<>> THEN "idle" ELSE "handling"]

HandlerResolves(w) ==
  /\ at[w] = "handling"
  /\ accepted' = accepted \cup {Current(w).id}
  /\ at' = [at EXCEPT ![w] = "sent"]
  /\ UNCHANGED <<conn, outbox, batch, failures, faults>>

HandlerThrowsIgnored(w) ==   \* fault: an error of the handler is swallowed
  /\ at[w] = "handling"
  /\ at' = [at EXCEPT ![w] = "sent"]
  /\ UNCHANGED <<conn, outbox, batch, accepted, failures, faults>>

HandlerThrows(w) ==
  /\ at[w] = "handling"
  /\ at' = [at EXCEPT ![w] = "caught"]
  /\ UNCHANGED <<conn, outbox, batch, accepted, failures, faults>>

MarkDispatched(w) ==
  /\ at[w] = "sent"
  /\ SetStatus(Current(w).id, "DISPATCHED")
  /\ Advance(w)
  /\ UNCHANGED <<conn, retry, order, accepted, failures, faults>>

(* The update fails inside the same try, after the handler resolved. *)
MarkThrows(w) ==
  /\ at[w] = "sent"
  /\ at' = [at EXCEPT ![w] = "caught"]
  /\ UNCHANGED <<conn, outbox, batch, accepted, failures, faults>>

CountFailure(m) ==
  failures' = [failures EXCEPT ![m] = IF @ < MaxRetries THEN @ + 1 ELSE @]

RecordFailureTwice(w) ==     \* fault: the count goes up by two
  /\ at[w] = "caught"
  /\ LET m    == Current(w).id
         next == Current(w).retryCount + 2
     IN /\ SetStatus(m, IF next >= MaxRetries THEN "FAILED" ELSE "PENDING")
        /\ SetRetry(m, next)
        /\ CountFailure(m)
  /\ Advance(w)
  /\ UNCHANGED <<conn, order, accepted, faults>>

RecordFailureAgain(w) ==     \* fault: counts up from what the row holds by now
  /\ at[w] = "caught"
  /\ LET m    == Current(w).id
         next == retry[m] + 1
     IN /\ SetStatus(m, IF next >= MaxRetries THEN "FAILED" ELSE "PENDING")
        /\ SetRetry(m, next)
        /\ CountFailure(m)
  /\ Advance(w)
  /\ UNCHANGED <<conn, order, accepted, faults>>

RecordFailureUncounted(w) == \* fault: retry_count is not written
  /\ at[w] = "caught"
  /\ SetStatus(Current(w).id,
       IF Current(w).retryCount + 1 >= MaxRetries THEN "FAILED" ELSE "PENDING")
  /\ CountFailure(Current(w).id)
  /\ Advance(w)
  /\ UNCHANGED <<conn, retry, order, accepted, faults>>

RecordFailure(w) ==
  /\ at[w] = "caught"
  /\ LET m    == Current(w).id
         next == Current(w).retryCount + 1
     IN /\ SetStatus(m, IF next >= MaxRetries THEN "FAILED" ELSE "PENDING")
        /\ SetRetry(m, next)
        /\ CountFailure(m)
  /\ Advance(w)
  /\ UNCHANGED <<conn, order, accepted, faults>>

(* The failure's own update throws out of dispatchPending(), or the worker *)
(* dies: the rest of the batch is dropped.                                 *)
Stop(w) ==
  /\ at[w] # "idle"
  /\ faults < MaxFaults
  /\ faults' = faults + 1
  /\ batch' = [batch EXCEPT ![w] = <<>>]
  /\ at' = [at EXCEPT ![w] = "idle"]
  /\ UNCHANGED <<conn, outbox, accepted, failures>>

-----------------------------------------------------------------------------
Work(w) ==
  \/ HandlerResolves(w) \/ HandlerThrows(w)
  \/ MarkDispatched(w) \/ MarkThrows(w) \/ RecordFailure(w)

Next ==
  \/ \E m \in Messages : Enqueue(m) \/ EndTx(m)
  \/ BeginShared \/ CommitShared \/ RollbackShared
  \/ \E w \in Workers : Fetch(w) \/ Work(w) \/ Stop(w)

Spec == Init /\ [][Next]_vars

(* Workers poll, and handlers and updates come to an end. *)
Fairness == \A w \in Workers : WF_vars(Fetch(w)) /\ WF_vars(Work(w))

FairSpec == Spec /\ Fairness

-----------------------------------------------------------------------------
(* At least once: a row says DISPATCHED only for a message the handler     *)
(* accepted, whatever the other workers or a rollback wrote over it.       *)
DispatchedWasAccepted == \A m \in Messages : row[m] = "DISPATCHED" => m \in accepted

(* What enqueue() promises of its transaction: "if rolled back, nothing is *)
(* emitted".  A shared connection reads what is not committed.             *)
RolledBackIsNotEmitted == \A m \in Messages : row[m] = "undone" => m \notin accepted

(* Counts overwritten by other workers, or taken back by the rollback of a *)
(* transaction that shares the connection, only go down: a message is      *)
(* given up after at least maxRetries failed attempts.                     *)
GivenUpAfterRetries == \A m \in Messages :
  /\ retry[m] <= failures[m]
  /\ row[m] = "FAILED" => failures[m] >= MaxRetries

(* A stale worker, or a rollback on the shared connection, can put a       *)
(* settled message back to PENDING, but only so often: every message ends  *)
(* DISPATCHED or FAILED, or undone with its transaction, and stays so.     *)
EventuallySettled == \A m \in Messages :
  row[m] = "PENDING" ~> [](row[m] \in {"DISPATCHED", "FAILED", "undone"})
=============================================================================
