----------------------- MODULE OutboxDispatcherProofs -----------------------
(***************************************************************************)
(* Proofs about OutboxDispatcher, for any messages and workers, any batch  *)
(* size and any number of attempts.                                        *)
(***************************************************************************)
EXTENDS OutboxDispatcher, TLAPS

(* A worker is busy exactly while it has messages left.                    *)
BusyHasMessages == \A w \in Workers : at[w] # "idle" <=> batch[w] # <<>>

(* What a worker is about to mark as dispatched was accepted.              *)
SentWasAccepted ==
  /\ DispatchedWasAccepted
  /\ \A w \in Workers : at[w] = "sent" => Current(w).id \in accepted

(* No count, in a row or in a worker's memory, exceeds the failed attempts *)
(* there were: a stale count is too low, never too high.                   *)
CountsAreEarned ==
  /\ GivenUpAfterRetries
  /\ \A w \in Workers : \A i \in DOMAIN batch[w] :
       batch[w][i].retryCount <= failures[batch[w][i].id]

(* Both hold of what a rollback on the shared connection would restore.    *)
SavedIsEarned == saved # NoTx => \A m \in Messages :
  /\ saved.row[m] = "DISPATCHED" => m \in accepted
  /\ saved.retry[m] <= failures[m]
  /\ saved.row[m] = "FAILED" => failures[m] >= MaxRetries

IInv == TypeOK /\ BusyHasMessages /\ SentWasAccepted /\ CountsAreEarned /\ SavedIsEarned

USE DEF Counts

Snapshots == [id : Messages, retryCount : 0..MaxRetries - 1]
Steps == {"idle", "handling", "sent", "caught"}

-----------------------------------------------------------------------------
(* Advancing drops the first message and keeps the others as they were.    *)
LEMMA TailFacts ==
  ASSUME NEW S, NEW q \in Seq(S), q # <<>>
  PROVE  /\ Head(q) \in S /\ Head(q) = q[1] /\ 1 \in DOMAIN q
         /\ Tail(q) \in Seq(S)
         /\ \A i \in DOMAIN Tail(q) : i + 1 \in DOMAIN q /\ Tail(q)[i] = q[i + 1]
OBVIOUS

(* What Advance() leaves to the worker, and to the others. *)
LEMMA AdvanceFacts ==
  ASSUME TypeOK, NEW w \in Workers, batch[w] # <<>>, Advance(w)
  PROVE  /\ batch' \in [Workers -> Seq(Snapshots)]
         /\ at' \in [Workers -> Steps]
         /\ at'[w] \in {"idle", "handling"}
         /\ at'[w] # "idle" <=> batch'[w] # <<>>
         /\ \A i \in DOMAIN batch'[w] :
              i + 1 \in DOMAIN batch[w] /\ batch'[w][i] = batch[w][i + 1]
         /\ \A v \in Workers \ {w} : at'[v] = at[v] /\ batch'[v] = batch[v]
<1>1. batch[w] \in Seq(Snapshots)
  BY DEF TypeOK, Snapshots
<1>2. Tail(batch[w]) \in Seq(Snapshots)
  BY <1>1, TailFacts
<1>3. batch' = [batch EXCEPT ![w] = Tail(batch[w])]
  BY DEF Advance
<1>4. at' = [at EXCEPT ![w] = IF Tail(batch[w]) = <<>> THEN "idle" ELSE "handling"]
  BY DEF Advance
<1>5. batch \in [Workers -> Seq(Snapshots)] /\ at \in [Workers -> Steps]
  BY DEF TypeOK, Snapshots, Steps
<1>6. batch'[w] = Tail(batch[w])
  BY <1>3, <1>5
<1>7. \A i \in DOMAIN Tail(batch[w]) :
        i + 1 \in DOMAIN batch[w] /\ Tail(batch[w])[i] = batch[w][i + 1]
  BY <1>1, TailFacts
<1> QED
  BY <1>2, <1>3, <1>4, <1>5, <1>6, <1>7 DEF Steps

(* The message a busy worker is at. *)
LEMMA CurrentFacts ==
  ASSUME TypeOK, BusyHasMessages, NEW w \in Workers, at[w] # "idle"
  PROVE  /\ batch[w] # <<>> /\ Current(w) = batch[w][1] /\ 1 \in DOMAIN batch[w]
         /\ Current(w) \in Snapshots
<1>1. batch[w] \in Seq(Snapshots) /\ batch[w] # <<>>
  BY DEF TypeOK, Snapshots, BusyHasMessages
<1>2. Head(batch[w]) \in Snapshots /\ Head(batch[w]) = batch[w][1] /\ 1 \in DOMAIN batch[w]
  BY <1>1, TailFacts
<1> QED
  BY <1>1, <1>2 DEF Current, BusyHasMessages

(* Whatever is left of a batch names messages. *)
LEMMA BatchFacts ==
  ASSUME TypeOK, NEW w \in Workers
  PROVE  \A i \in DOMAIN batch[w] :
           batch[w][i].id \in Messages /\ batch[w][i].retryCount \in 0..MaxRetries - 1
<1>1. batch[w] \in Seq(Snapshots)
  BY DEF TypeOK, Snapshots
<1>2. \A i \in DOMAIN batch[w] : batch[w][i] \in Snapshots
  BY <1>1
<1> QED
  BY <1>2 DEF Snapshots

(* A batch that was just read holds due messages with the counts of their  *)
(* rows.                                                                   *)
LEMMA FetchFacts ==
  ASSUME TypeOK, NEW w \in Workers, Fetch(w)
  PROVE  /\ batch' \in [Workers -> Seq(Snapshots)]
         /\ batch'[w] # <<>>
         /\ \A i \in DOMAIN batch'[w] :
              LET m == batch'[w][i].id
              IN  m \in Messages /\ row[m] = "PENDING" /\ batch'[w][i].retryCount = retry[m]
         /\ \A v \in Workers \ {w} : batch'[v] = batch[v]
<1>0. PICK n \in 1..BatchSize : \E b \in [1..n -> Messages] :
        /\ IsBatch(b)
        /\ batch' = [batch EXCEPT ![w] = [i \in 1..n |-> Snapshot(b[i])]]
  BY DEF Fetch
<1>1. PICK b \in [1..n -> Messages] :
        /\ IsBatch(b)
        /\ batch' = [batch EXCEPT ![w] = [i \in 1..n |-> Snapshot(b[i])]]
  BY <1>0
<1> DEFINE s == [i \in 1..n |-> Snapshot(b[i])]
<1>2. \A i \in 1..n : b[i] \in Messages /\ row[b[i]] = "PENDING" /\ retry[b[i]] < MaxRetries
  BY <1>1 DEF IsBatch, Due
<1>3. \A i \in 1..n : Snapshot(b[i]) \in Snapshots
  BY <1>2, OutboxAssumption DEF Snapshot, Snapshots, TypeOK
<1>4. n \in Nat \ {0}
  BY OutboxAssumption
<1>5. s \in Seq(Snapshots) /\ s # <<>> /\ DOMAIN s = 1..n
  BY <1>3, <1>4
<1>6. batch \in [Workers -> Seq(Snapshots)]
  BY DEF TypeOK, Snapshots
<1>7. batch'[w] = s
  BY <1>1, <1>6
<1>8. \A i \in 1..n : s[i].id = b[i] /\ s[i].retryCount = retry[b[i]]
  BY DEF Snapshot
<1>9. batch' = [batch EXCEPT ![w] = s]
  BY <1>1
<1> HIDE DEF s
<1> QED
  BY <1>2, <1>5, <1>6, <1>7, <1>8, <1>9

(* What a rollback would restore stays earned: messages are accepted and   *)
(* failures counted, never the reverse.                                    *)
LEMMA SavedKept ==
  ASSUME TypeOK, TypeOK', SavedIsEarned, saved' = saved, accepted \subseteq accepted',
         \A m \in Messages : failures[m] <= failures'[m]
  PROVE  SavedIsEarned'
<1> SUFFICES ASSUME saved # NoTx, NEW m \in Messages
             PROVE  /\ saved.row[m] = "DISPATCHED" => m \in accepted'
                    /\ saved.retry[m] <= failures'[m]
                    /\ saved.row[m] = "FAILED" => failures'[m] >= MaxRetries
  BY DEF SavedIsEarned
<1>1. /\ saved.row[m] = "DISPATCHED" => m \in accepted
      /\ saved.retry[m] <= failures[m]
      /\ saved.row[m] = "FAILED" => failures[m] >= MaxRetries
  BY DEF SavedIsEarned
<1>2. saved \in [row : Rows, retry : Counts]
  BY DEF TypeOK
<1>3. saved.retry \in Counts
  BY <1>2
<1>4. saved.retry[m] \in Nat /\ failures[m] \in Nat /\ failures'[m] \in Nat /\ MaxRetries \in Nat
  BY <1>3, OutboxAssumption DEF TypeOK, Counts
<1>5. failures[m] <= failures'[m]
  OBVIOUS
<1> QED
  BY <1>1, <1>4, <1>5

-----------------------------------------------------------------------------
LEMMA InitInv == Init => IInv
<1> SUFFICES ASSUME Init PROVE IInv
  OBVIOUS
<1>1. TypeOK
  <2>1. batch \in [Workers -> Seq([id : Messages, retryCount : 0..MaxRetries - 1])]
    BY DEF Init
  <2> QED
    BY <2>1, OutboxAssumption DEF Init, TypeOK, Rows, Counts
<1>2. BusyHasMessages /\ SentWasAccepted /\ CountsAreEarned /\ SavedIsEarned
  BY OutboxAssumption DEF Init, BusyHasMessages, SentWasAccepted, DispatchedWasAccepted,
     CountsAreEarned, GivenUpAfterRetries, SavedIsEarned
<1> QED
  BY <1>1, <1>2 DEF IInv

(* enqueue() and the end of its transaction make rows visible that no      *)
(* worker has read, with a count of zero.                                  *)
LEMMA EnqueueInv ==
  ASSUME IInv, NEW m \in Messages, Enqueue(m) \/ EndTx(m)
  PROVE  IInv'
<1>0. TypeOK /\ BusyHasMessages /\ SentWasAccepted /\ CountsAreEarned /\ SavedIsEarned
  BY DEF IInv
<1>1. TypeOK'
  <2>1. PICK t \in {"inTx", "PENDING", "undone"} : row' = [row EXCEPT ![m] = t]
    BY DEF Enqueue, EndTx
  <2>2. row' \in Rows
    BY <1>0, <2>1 DEF TypeOK, Rows, Statuses
  <2>3. order' \in Seq(Messages)
    <3>1. order \in Seq(Messages) /\ (order' = order \/ order' = Append(order, m))
      BY <1>0 DEF TypeOK, Enqueue, EndTx
    <3> QED
      BY <3>1
  <2>4. UNCHANGED <<shared, saved, retry, batch, at, accepted, failures, faults>>
    BY DEF Enqueue, EndTx, conn
  <2> QED
    BY <1>0, <2>2, <2>3, <2>4 DEF TypeOK
<1>2. /\ row[m] \notin Statuses /\ row'[m] # "DISPATCHED" /\ row'[m] # "FAILED"
      /\ \A k \in Messages \ {m} : row'[k] = row[k]
      /\ UNCHANGED <<saved, retry, batch, at, accepted, failures>>
  BY <1>0 DEF TypeOK, Rows, Enqueue, EndTx, Statuses, conn
<1>4. BusyHasMessages' /\ SavedIsEarned'
  BY <1>0, <1>2 DEF BusyHasMessages, SavedIsEarned
<1>5. SentWasAccepted'
  BY <1>2 DEF IInv, SentWasAccepted, DispatchedWasAccepted, Current
<1>6. CountsAreEarned'
  BY <1>2 DEF IInv, CountsAreEarned, GivenUpAfterRetries
<1> QED
  BY <1>1, <1>4, <1>5, <1>6 DEF IInv

(* A transaction on the shared connection: what its rollback restores was  *)
(* earned when it began.                                                   *)
LEMMA SharedInv ==
  ASSUME IInv, BeginShared \/ CommitShared \/ RollbackShared
  PROVE  IInv'
<1>0. TypeOK /\ BusyHasMessages /\ SentWasAccepted /\ CountsAreEarned /\ SavedIsEarned
  BY DEF IInv
<1>1. UNCHANGED <<shared, order, batch, at, accepted, failures>> /\ faults' \in 0..MaxFaults
  BY <1>0, OutboxAssumption DEF BeginShared, CommitShared, RollbackShared, outbox, TypeOK
<1>2. CASE BeginShared
  <2>1. saved' = [row |-> row, retry |-> retry] /\ UNCHANGED <<row, retry>>
    BY <1>2 DEF BeginShared, outbox
  <2>2. saved' \in [row : Rows, retry : Counts]
    BY <1>0, <2>1 DEF TypeOK
  <2>3. TypeOK'
    BY <1>0, <1>1, <2>1, <2>2 DEF TypeOK
  <2>4. saved'.row = row /\ saved'.retry = retry
    BY <2>1
  <2>5. SavedIsEarned'
    BY <1>0, <1>1, <2>1, <2>4
       DEF SavedIsEarned, SentWasAccepted, DispatchedWasAccepted, CountsAreEarned,
           GivenUpAfterRetries
  <2> QED
    BY <1>0, <1>1, <2>1, <2>3, <2>5
       DEF IInv, BusyHasMessages, SentWasAccepted, DispatchedWasAccepted, Current,
           CountsAreEarned, GivenUpAfterRetries
<1>3. CASE CommitShared
  <2>1. saved' = NoTx /\ UNCHANGED <<row, retry>>
    BY <1>3 DEF CommitShared, outbox
  <2>2. TypeOK' /\ SavedIsEarned'
    BY <1>0, <1>1, <2>1 DEF TypeOK, SavedIsEarned
  <2> QED
    BY <1>0, <1>1, <2>1, <2>2
       DEF IInv, BusyHasMessages, SentWasAccepted, DispatchedWasAccepted, Current,
           CountsAreEarned, GivenUpAfterRetries
<1>4. CASE RollbackShared
  <2>1. /\ saved # NoTx /\ saved' = NoTx /\ retry' = saved.retry
        /\ row' = [m \in Messages |->
             IF saved.row[m] = "absent" /\ row[m] # "absent" THEN "undone" ELSE saved.row[m]]
    BY <1>4 DEF RollbackShared
  <2>2. saved.row \in Rows /\ saved.retry \in Counts
    <3>1. saved \in [row : Rows, retry : Counts]
      BY <1>0, <2>1 DEF TypeOK
    <3> QED
      BY <3>1
  <2>3. row' \in Rows /\ retry' \in Counts
    BY <2>1, <2>2 DEF Rows
  <2>4. TypeOK' /\ SavedIsEarned'
    BY <1>0, <1>1, <2>1, <2>3 DEF TypeOK, SavedIsEarned
  <2>5. \A m \in Messages : row'[m] = saved.row[m] \/ row'[m] = "undone"
    BY <2>1
  <2>6. DispatchedWasAccepted' /\ GivenUpAfterRetries'
    BY <1>0, <1>1, <2>1, <2>5 DEF SavedIsEarned, DispatchedWasAccepted, GivenUpAfterRetries
  <2> QED
    BY <1>0, <1>1, <2>4, <2>6 DEF IInv, BusyHasMessages, SentWasAccepted, Current, CountsAreEarned
<1> QED
  BY <1>2, <1>3, <1>4

LEMMA FetchInv ==
  ASSUME IInv, NEW w \in Workers, Fetch(w)
  PROVE  IInv'
<1>0. TypeOK /\ BusyHasMessages /\ SentWasAccepted /\ CountsAreEarned /\ SavedIsEarned
  BY DEF IInv
<1>1. /\ at[w] = "idle" /\ at' = [at EXCEPT ![w] = "handling"]
      /\ UNCHANGED <<shared, saved, row, retry, order, accepted, failures, faults>>
  BY DEF Fetch, outbox, conn
<1>2. /\ batch' \in [Workers -> Seq(Snapshots)]
      /\ batch'[w] # <<>>
      /\ \A i \in DOMAIN batch'[w] :
           LET m == batch'[w][i].id
           IN  m \in Messages /\ row[m] = "PENDING" /\ batch'[w][i].retryCount = retry[m]
      /\ \A v \in Workers \ {w} : batch'[v] = batch[v]
  BY <1>0, FetchFacts
<1>3. at' \in [Workers -> Steps] /\ at'[w] = "handling" /\ \A v \in Workers \ {w} : at'[v] = at[v]
  BY <1>0, <1>1 DEF TypeOK, Steps
<1>4. TypeOK'
  BY <1>0, <1>1, <1>2, <1>3 DEF TypeOK, Snapshots, Steps
<1>5. BusyHasMessages' /\ SavedIsEarned'
  BY <1>0, <1>1, <1>2, <1>3 DEF BusyHasMessages, SavedIsEarned
<1>6. SentWasAccepted'
  BY <1>0, <1>1, <1>2, <1>3 DEF SentWasAccepted, DispatchedWasAccepted, Current
<1>7. CountsAreEarned'
  BY <1>0, <1>1, <1>2 DEF CountsAreEarned, GivenUpAfterRetries
<1> QED
  BY <1>4, <1>5, <1>6, <1>7 DEF IInv

(* The handler's outcome is known; nothing is written yet. *)
LEMMA HandlerInv ==
  ASSUME IInv, NEW w \in Workers, HandlerResolves(w) \/ HandlerThrows(w) \/ MarkThrows(w)
  PROVE  IInv'
<1>0. TypeOK /\ BusyHasMessages /\ SentWasAccepted /\ CountsAreEarned /\ SavedIsEarned
  BY DEF IInv
<1>1. /\ at[w] # "idle" /\ UNCHANGED <<shared, saved, row, retry, order, batch, failures, faults>>
      /\ accepted \subseteq accepted' /\ accepted' \subseteq accepted \cup {Current(w).id}
      /\ at' \in [Workers -> Steps] /\ at'[w] \in {"sent", "caught"}
      /\ at'[w] = "sent" => Current(w).id \in accepted'
      /\ \A v \in Workers \ {w} : at'[v] = at[v]
  BY <1>0 DEF HandlerResolves, HandlerThrows, MarkThrows, outbox, conn, TypeOK, Steps
<1>2. Current(w).id \in Messages
  BY <1>0, <1>1, CurrentFacts DEF Snapshots
<1>3. TypeOK'
  BY <1>0, <1>1, <1>2 DEF TypeOK, Steps
<1>4. BusyHasMessages' /\ CountsAreEarned' /\ SavedIsEarned'
  BY <1>0, <1>1 DEF BusyHasMessages, CountsAreEarned, GivenUpAfterRetries, SavedIsEarned
<1>5. SentWasAccepted'
  BY <1>0, <1>1 DEF SentWasAccepted, DispatchedWasAccepted, Current
<1> QED
  BY <1>3, <1>4, <1>5 DEF IInv

LEMMA DispatchedInv ==
  ASSUME IInv, NEW w \in Workers, MarkDispatched(w)
  PROVE  IInv'
<1>0. TypeOK /\ BusyHasMessages /\ SentWasAccepted /\ CountsAreEarned /\ SavedIsEarned
  BY DEF IInv
<1> DEFINE m == Current(w).id
<1>1. /\ at[w] = "sent" /\ m \in accepted /\ Advance(w)
      /\ row' = IF row[m] \in Statuses THEN [row EXCEPT ![m] = "DISPATCHED"] ELSE row
      /\ UNCHANGED <<shared, saved, retry, order, accepted, failures, faults>>
  BY <1>0 DEF MarkDispatched, SetStatus, SentWasAccepted, conn
<1>2. batch[w] # <<>> /\ m \in Messages
  BY <1>0, <1>1, CurrentFacts DEF Snapshots
<1>3. /\ batch' \in [Workers -> Seq(Snapshots)]
      /\ at' \in [Workers -> Steps]
      /\ at'[w] \in {"idle", "handling"}
      /\ at'[w] # "idle" <=> batch'[w] # <<>>
      /\ \A i \in DOMAIN batch'[w] :
           i + 1 \in DOMAIN batch[w] /\ batch'[w][i] = batch[w][i + 1]
      /\ \A v \in Workers \ {w} : at'[v] = at[v] /\ batch'[v] = batch[v]
  BY <1>0, <1>1, <1>2, AdvanceFacts
<1> HIDE DEF m
<1>4. /\ row' \in Rows
      /\ row'[m] \in {row[m], "DISPATCHED"} /\ \A k \in Messages \ {m} : row'[k] = row[k]
  BY <1>0, <1>1, <1>2 DEF TypeOK, Rows, Statuses
<1>5. TypeOK'
  BY <1>0, <1>1, <1>3, <1>4 DEF TypeOK, Snapshots, Steps
<1>6. BusyHasMessages' /\ SavedIsEarned'
  BY <1>0, <1>1, <1>3 DEF BusyHasMessages, SavedIsEarned
<1>7. SentWasAccepted'
  BY <1>0, <1>1, <1>3, <1>4 DEF SentWasAccepted, DispatchedWasAccepted, Current
<1>8. CountsAreEarned'
  <2>1. \A k \in Messages : row'[k] = "FAILED" => row[k] = "FAILED"
    BY <1>4
  <2>2. GivenUpAfterRetries'
    BY <1>0, <1>1, <2>1 DEF CountsAreEarned, GivenUpAfterRetries
  <2> QED
    BY <1>0, <1>1, <1>3, <2>2 DEF CountsAreEarned
<1> QED
  BY <1>5, <1>6, <1>7, <1>8 DEF IInv

(* The count a failure writes is one more than the worker read: no more    *)
(* than the attempts there were, this one included.                        *)
LEMMA RecordFailureInv ==
  ASSUME IInv, NEW w \in Workers, RecordFailure(w)
  PROVE  IInv'
<1>0. TypeOK /\ BusyHasMessages /\ SentWasAccepted /\ CountsAreEarned /\ SavedIsEarned
  BY DEF IInv
<1> DEFINE m    == Current(w).id
           next == Current(w).retryCount + 1
<1>1. /\ at[w] = "caught" /\ Advance(w) /\ UNCHANGED <<shared, saved, order, accepted, faults>>
      /\ row' = IF row[m] \in Statuses
                  THEN [row EXCEPT ![m] = IF next >= MaxRetries THEN "FAILED" ELSE "PENDING"]
                  ELSE row
      /\ retry' = IF row[m] \in Statuses THEN [retry EXCEPT ![m] = next] ELSE retry
      /\ failures' = [failures EXCEPT ![m] =
                        IF failures[m] < MaxRetries THEN failures[m] + 1 ELSE failures[m]]
  BY DEF RecordFailure, CountFailure, SetStatus, SetRetry, conn
<1>2. batch[w] # <<>> /\ m \in Messages /\ next \in 1..MaxRetries /\ next <= failures[m] + 1
  <2>1. batch[w] # <<>> /\ Current(w) = batch[w][1] /\ 1 \in DOMAIN batch[w]
        /\ Current(w) \in Snapshots
    BY <1>0, <1>1, CurrentFacts
  <2>2. Current(w).retryCount <= failures[m]
    BY <1>0, <2>1 DEF CountsAreEarned
  <2>3. m \in Messages /\ Current(w).retryCount \in 0..MaxRetries - 1
    BY <2>1 DEF Snapshots
  <2>4. failures[m] \in 0..MaxRetries
    BY <1>0, <2>3 DEF TypeOK
  <2> QED
    BY <2>1, <2>2, <2>3, <2>4, OutboxAssumption
<1>3. /\ batch' \in [Workers -> Seq(Snapshots)]
      /\ at' \in [Workers -> Steps]
      /\ at'[w] \in {"idle", "handling"}
      /\ at'[w] # "idle" <=> batch'[w] # <<>>
      /\ \A i \in DOMAIN batch'[w] :
           i + 1 \in DOMAIN batch[w] /\ batch'[w][i] = batch[w][i + 1]
      /\ \A v \in Workers \ {w} : at'[v] = at[v] /\ batch'[v] = batch[v]
  BY <1>0, <1>1, <1>2, AdvanceFacts
<1> HIDE DEF m, next
<1>4. /\ row' \in Rows
      /\ \/ row'[m] = row[m]
         \/ row'[m] = (IF next >= MaxRetries THEN "FAILED" ELSE "PENDING")
      /\ \A k \in Messages \ {m} : row'[k] = row[k]
  BY <1>0, <1>1, <1>2 DEF TypeOK, Rows, Statuses
<1>5. /\ retry' \in Counts
      /\ retry'[m] \in {retry[m], next} /\ \A k \in Messages \ {m} : retry'[k] = retry[k]
  BY <1>0, <1>1, <1>2, OutboxAssumption DEF TypeOK, Counts
<1>6. /\ failures' \in [Messages -> 0..MaxRetries]
      /\ next <= failures'[m]
      /\ \A k \in Messages : failures[k] <= failures'[k]
  <2>1. failures \in [Messages -> 0..MaxRetries] /\ failures[m] \in 0..MaxRetries
    BY <1>0, <1>2 DEF TypeOK
  <2>2. \A k \in Messages : failures'[k] =
          IF k = m /\ failures[m] < MaxRetries THEN failures[m] + 1 ELSE failures[k]
    BY <1>1, <1>2, <2>1
  <2>3. \A k \in Messages : failures[k] \in 0..MaxRetries
    BY <2>1
  <2>4. \A k \in Messages : failures'[k] \in 0..MaxRetries /\ failures[k] <= failures'[k]
    BY <2>1, <2>2, <2>3, OutboxAssumption
  <2>5. next <= failures'[m]
    BY <1>2, <2>1, <2>2, OutboxAssumption
  <2> QED
    BY <1>1, <2>1, <2>4, <2>5
<1>7. \A v \in Workers : \A i \in DOMAIN batch'[v] : \E j \in DOMAIN batch[v] :
        batch'[v][i] = batch[v][j]
  BY <1>3
<1>8. TypeOK'
  BY <1>0, <1>1, <1>3, <1>4, <1>5, <1>6 DEF TypeOK, Snapshots, Steps
<1>9. BusyHasMessages' /\ SavedIsEarned'
  <2>1. BusyHasMessages'
    BY <1>0, <1>1, <1>3 DEF BusyHasMessages
  <2>2. saved' = saved /\ accepted \subseteq accepted'
    BY <1>1
  <2> QED
    BY <1>0, <1>6, <1>8, <2>1, <2>2, SavedKept
<1>10. SentWasAccepted'
  <2>1. \A k \in Messages : row'[k] = "DISPATCHED" => row[k] = "DISPATCHED"
    BY <1>4
  <2>2. DispatchedWasAccepted'
    BY <1>0, <1>1, <2>1 DEF SentWasAccepted, DispatchedWasAccepted
  <2> QED
    BY <1>0, <1>1, <1>3, <2>2 DEF SentWasAccepted, Current
<1>11. GivenUpAfterRetries'
  <2>1. \A k \in Messages : failures[k] \in 0..MaxRetries /\ failures'[k] \in 0..MaxRetries
                           /\ retry[k] \in 0..MaxRetries
    BY <1>0, <1>6 DEF TypeOK, Counts
  <2>2. ASSUME NEW k \in Messages
        PROVE  retry'[k] <= failures'[k] /\ (row'[k] = "FAILED" => failures'[k] >= MaxRetries)
    <3>1. CASE k = m
      <4>1. failures[m] <= failures'[m] /\ next <= failures'[m]
        BY <1>2, <1>6
      <4>2. retry[m] <= failures[m] /\ (row[m] = "FAILED" => failures[m] >= MaxRetries)
        BY <1>0, <1>2 DEF CountsAreEarned, GivenUpAfterRetries
      <4>3. retry'[m] <= failures'[m]
        BY <1>2, <1>5, <2>1, <4>1, <4>2
      <4>4. row'[m] = "FAILED" => failures'[m] >= MaxRetries
        BY <1>2, <1>4, <2>1, <4>1, <4>2, OutboxAssumption
      <4> QED
        BY <3>1, <4>3, <4>4
    <3>2. CASE k # m
      BY <1>0, <1>4, <1>5, <1>6, <2>1, <3>2, OutboxAssumption
         DEF CountsAreEarned, GivenUpAfterRetries
    <3> QED
      BY <3>1, <3>2
  <2> QED
    BY <2>2 DEF GivenUpAfterRetries
<1>12. CountsAreEarned'
  <2>1. ASSUME NEW v \in Workers, NEW i \in DOMAIN batch'[v]
        PROVE  batch'[v][i].retryCount <= failures'[batch'[v][i].id]
    <3>1. PICK j \in DOMAIN batch[v] : batch'[v][i] = batch[v][j]
      BY <1>7
    <3>2. /\ batch[v][j].id \in Messages /\ batch[v][j].retryCount \in 0..MaxRetries - 1
          /\ batch[v][j].retryCount <= failures[batch[v][j].id]
      BY <1>0, BatchFacts DEF CountsAreEarned
    <3>3. /\ failures[batch[v][j].id] \in 0..MaxRetries
          /\ failures'[batch[v][j].id] \in 0..MaxRetries
          /\ failures[batch[v][j].id] <= failures'[batch[v][j].id]
      BY <1>0, <1>6, <3>2 DEF TypeOK
    <3> QED
      BY <3>1, <3>2, <3>3, OutboxAssumption
  <2> QED
    BY <1>11, <2>1 DEF CountsAreEarned
<1> QED
  BY <1>8, <1>9, <1>10, <1>12 DEF IInv

LEMMA StopInv ==
  ASSUME IInv, NEW w \in Workers, Stop(w)
  PROVE  IInv'
<1>0. TypeOK /\ BusyHasMessages /\ SentWasAccepted /\ CountsAreEarned /\ SavedIsEarned
  BY DEF IInv
<1>1. /\ UNCHANGED <<shared, saved, row, retry, order, accepted, failures>>
      /\ faults' \in 0..MaxFaults
      /\ batch' = [batch EXCEPT ![w] = <<>>] /\ at' = [at EXCEPT ![w] = "idle"]
  BY <1>0, OutboxAssumption DEF Stop, TypeOK, outbox, conn
<1>2. batch \in [Workers -> Seq(Snapshots)] /\ <<>> \in Seq(Snapshots)
  <2>1. batch \in [Workers -> Seq(Snapshots)]
    BY <1>0 DEF TypeOK, Snapshots
  <2>2. <<>> \in Seq(Snapshots)
    OBVIOUS
  <2> QED
    BY <2>1, <2>2
<1>3. /\ batch' \in [Workers -> Seq(Snapshots)] /\ batch'[w] = <<>>
      /\ \A v \in Workers \ {w} : batch'[v] = batch[v]
  BY <1>1, <1>2
<1>4. /\ at' \in [Workers -> Steps] /\ at'[w] = "idle"
      /\ \A v \in Workers \ {w} : at'[v] = at[v]
  BY <1>0, <1>1 DEF TypeOK, Steps
<1>5. TypeOK'
  BY <1>0, <1>1, <1>3, <1>4 DEF TypeOK, Snapshots, Steps
<1>6. BusyHasMessages' /\ SavedIsEarned'
  BY <1>0, <1>1, <1>3, <1>4 DEF BusyHasMessages, SavedIsEarned
<1>7. SentWasAccepted'
  BY <1>0, <1>1, <1>3, <1>4 DEF SentWasAccepted, DispatchedWasAccepted, Current
<1>8. CountsAreEarned'
  BY <1>0, <1>1, <1>3 DEF CountsAreEarned, GivenUpAfterRetries
<1> QED
  BY <1>5, <1>6, <1>7, <1>8 DEF IInv

-----------------------------------------------------------------------------
LEMMA StepInv == IInv /\ [Next]_vars => IInv'
<1> SUFFICES ASSUME IInv, [Next]_vars PROVE IInv'
  OBVIOUS
<1>1. CASE \E m \in Messages : Enqueue(m) \/ EndTx(m)
  BY <1>1, EnqueueInv
<1>2. CASE \E w \in Workers : Fetch(w) \/ Work(w) \/ Stop(w)
  <2>1. PICK w \in Workers : Fetch(w) \/ Work(w) \/ Stop(w)
    BY <1>2
  <2>2. CASE Fetch(w)
    BY <2>2, FetchInv
  <2>3. CASE HandlerResolves(w) \/ HandlerThrows(w) \/ MarkThrows(w)
    BY <2>3, HandlerInv
  <2>4. CASE MarkDispatched(w)
    BY <2>4, DispatchedInv
  <2>5. CASE RecordFailure(w)
    BY <2>5, RecordFailureInv
  <2>6. CASE Stop(w)
    BY <2>6, StopInv
  <2> QED
    BY <2>1, <2>2, <2>3, <2>4, <2>5, <2>6 DEF Work
<1>3. CASE BeginShared \/ CommitShared \/ RollbackShared
  BY <1>3, SharedInv
<1>4. CASE UNCHANGED vars
  <2>1. UNCHANGED <<shared, saved, row, retry, order, batch, at, accepted, failures, faults>>
    BY <1>4 DEF vars, outbox, conn
  <2>2. TypeOK'
    BY <2>1 DEF IInv, TypeOK
  <2>3. BusyHasMessages' /\ SavedIsEarned'
    BY <2>1 DEF IInv, BusyHasMessages, SavedIsEarned
  <2>4. SentWasAccepted' /\ CountsAreEarned'
    BY <2>1 DEF IInv, SentWasAccepted, DispatchedWasAccepted, Current, CountsAreEarned,
       GivenUpAfterRetries
  <2> QED
    BY <2>2, <2>3, <2>4 DEF IInv
<1> QED
  BY <1>1, <1>2, <1>3, <1>4 DEF Next

(* The rows, the counts and what each worker remembers of them stay in     *)
(* agreement, whatever workers overwrite.                                  *)
THEOREM OutboxInvariant == Spec => []IInv
BY InitInv, StepInv, PTL DEF Spec

(* Statuses, counts and batches keep their types; no worker takes up a     *)
(* message that has used up its retries.                                   *)
THEOREM OutboxTypeOK == Spec => []TypeOK
<1>1. IInv => TypeOK
  BY DEF IInv
<1> QED
  BY <1>1, OutboxInvariant, PTL

(* updateStatus('DISPATCHED') is only reached by a message whose handler   *)
(* resolved.                                                               *)
THEOREM DispatchedIsAccepted == Spec => []DispatchedWasAccepted
<1>1. IInv => DispatchedWasAccepted
  BY DEF IInv, SentWasAccepted
<1> QED
  BY <1>1, OutboxInvariant, PTL

(* FAILED is written after at least maxRetries failed attempts.            *)
THEOREM GivenUpIsEarned == Spec => []GivenUpAfterRetries
<1>1. IInv => GivenUpAfterRetries
  BY DEF IInv, CountsAreEarned
<1> QED
  BY <1>1, OutboxInvariant, PTL
=============================================================================
