------------------------- MODULE IdempotencyManager -------------------------
(***************************************************************************)
(* src/idempotency/IdempotencyManager.ts: execute() calls with one key.    *)
(* Each statement on the key's row is a step of its own, so calls of the   *)
(* same or of other processes come in between; the clock is read once, at  *)
(* the start.  Rows of different keys never meet: one key is modelled.     *)
(***************************************************************************)
EXTENDS Integers, FiniteSets

CONSTANTS
  Requests,      \* the calls of execute()
  LockTimeout,   \* options.lockTimeoutMs, in ticks of the clock
  MaxTime,       \* bound on the clock
  None           \* no response

ASSUME IdempotencyAssumption ==
  /\ IsFiniteSet(Requests)
  /\ LockTimeout \in Nat
  /\ MaxTime \in Nat
  /\ None \notin Requests

VARIABLES
  row,        \* the key's row; a response is named by the request it is of
  now,        \* Date.now()
  phase,      \* where each request is
  started,    \* const now: the clock as the request read it
  answer,     \* the response each request returned
  executed,   \* requests whose handler resolved (history)
  tookOver    \* requests that took over an existing row (history)

vars == <<row, now, phase, started, answer, executed, tookOver>>

Absent == [status |-> "absent", lockedUntil |-> 0, response |-> None]

Rows == [status      : {"absent", "IN_PROGRESS", "COMPLETED", "FAILED"},
         lockedUntil : 0..MaxTime + LockTimeout,
         response    : Requests \cup {None}]

Final == {"returned", "conflict", "threw"}

TypeOK ==
  /\ row \in Rows
  /\ now \in 0..MaxTime
  /\ phase \in [Requests -> Final \cup
       {"idle", "selecting", "inserting", "takingOver", "running", "storing", "clearing"}]
  /\ started \in [Requests -> 0..MaxTime]
  /\ answer \in [Requests -> Requests \cup {None}]
  /\ executed \in SUBSET Requests
  /\ tookOver \in SUBSET Requests

Init ==
  /\ row = Absent
  /\ now = 0
  /\ phase = [r \in Requests |-> "idle"]
  /\ started = [r \in Requests |-> 0]
  /\ answer = [r \in Requests |-> None]
  /\ executed = {}
  /\ tookOver = {}

Go(r, from, to) ==
  /\ phase[r] = from
  /\ phase' = [phase EXCEPT ![r] = to]

-----------------------------------------------------------------------------
Start(r) ==
  /\ Go(r, "idle", "selecting")
  /\ started' = [started EXCEPT ![r] = now]
  /\ UNCHANGED <<row, now, answer, executed, tookOver>>

(* The existing record decides how execute() goes on. *)
Locked(r) == row.status = "IN_PROGRESS" /\ row.lockedUntil > started[r]

SelectNone(r) ==
  /\ row.status = "absent"
  /\ Go(r, "selecting", "inserting")
  /\ UNCHANGED <<row, now, started, answer, executed, tookOver>>

SelectCompleted(r) ==
  /\ row.status = "COMPLETED"
  /\ Go(r, "selecting", "returned")
  /\ answer' = [answer EXCEPT ![r] = row.response]
  /\ UNCHANGED <<row, now, started, executed, tookOver>>

SelectLocked(r) ==
  /\ Locked(r)
  /\ Go(r, "selecting", "conflict")
  /\ UNCHANGED <<row, now, started, answer, executed, tookOver>>

SelectOpen(r) ==
  /\ row.status \in {"IN_PROGRESS", "FAILED"}
  /\ ~Locked(r)
  /\ Go(r, "selecting", "takingOver")
  /\ UNCHANGED <<row, now, started, answer, executed, tookOver>>

LockTwice(r) ==              \* fault: the timeout is added a second time
  [status      |-> "IN_PROGRESS",
   lockedUntil |-> started[r] + LockTimeout + LockTimeout,
   response    |-> None]

Lock(r) == [status      |-> "IN_PROGRESS",
            lockedUntil |-> started[r] + LockTimeout,
            response    |-> None]

(* The update names the key alone: it finds any row, or none.  The         *)
(* response column keeps what it held.                                     *)
TakeOver(r) ==
  /\ Go(r, "takingOver", "running")
  /\ row' = IF row.status = "absent" THEN row
            ELSE [Lock(r) EXCEPT !.response = row.response]
  /\ tookOver' = tookOver \cup {r}
  /\ UNCHANGED <<now, started, answer, executed>>

InsertIgnoresConflict(r) ==  \* fault: a unique violation is not an error
  /\ Go(r, "inserting", "running")
  /\ row' = IF row.status = "absent" THEN Lock(r) ELSE row
  /\ UNCHANGED <<now, started, answer, executed, tookOver>>

(* The primary key lets one insert through. *)
Insert(r) ==
  /\ Go(r, "inserting", IF row.status = "absent" THEN "running" ELSE "conflict")
  /\ row' = IF row.status = "absent" THEN Lock(r) ELSE row
  /\ UNCHANGED <<now, started, answer, executed, tookOver>>

-----------------------------------------------------------------------------
HandlerResolves(r) ==
  /\ Go(r, "running", "storing")
  /\ executed' = executed \cup {r}
  /\ UNCHANGED <<row, now, started, answer, tookOver>>

HandlerThrows(r) ==
  /\ Go(r, "running", "clearing")
  /\ UNCHANGED <<row, now, started, answer, executed, tookOver>>

(* By removeOnFailure the row is deleted or marked, whosever it is now; a  *)
(* failure to do so is ignored.                                            *)
Clear(r) ==
  /\ Go(r, "clearing", "threw")
  /\ \/ row' = Absent
     \/ row' = IF row.status = "absent" THEN row ELSE [row EXCEPT !.status = "FAILED"]
     \/ UNCHANGED row
  /\ UNCHANGED <<now, started, answer, executed, tookOver>>

StoreBeforeResponse(r) ==    \* fault: the response is not part of the update
  /\ Go(r, "storing", "returned")
  /\ row' = IF row.status = "absent" THEN row ELSE [row EXCEPT !.status = "COMPLETED"]
  /\ answer' = [answer EXCEPT ![r] = r]
  /\ UNCHANGED <<now, started, executed, tookOver>>

Store(r) ==
  /\ Go(r, "storing", "returned")
  /\ row' = IF row.status = "absent" THEN row
            ELSE [row EXCEPT !.status = "COMPLETED", !.response = r]
  /\ answer' = [answer EXCEPT ![r] = r]
  /\ UNCHANGED <<now, started, executed, tookOver>>

(* The process dies, or a statement outside the handler's own try throws.  *)
Break(r) ==
  /\ phase[r] \notin Final \cup {"idle"}
  /\ phase' = [phase EXCEPT ![r] = "threw"]
  /\ UNCHANGED <<row, now, started, answer, executed, tookOver>>

Tick ==
  /\ now < MaxTime
  /\ now' = now + 1
  /\ UNCHANGED <<row, phase, started, answer, executed, tookOver>>

-----------------------------------------------------------------------------
Select(r) == SelectNone(r) \/ SelectCompleted(r) \/ SelectLocked(r) \/ SelectOpen(r)

Next ==
  \/ \E r \in Requests :
       \/ Start(r) \/ Select(r) \/ TakeOver(r) \/ Insert(r)
       \/ HandlerResolves(r) \/ HandlerThrows(r) \/ Clear(r) \/ Store(r)
       \/ Break(r)
  \/ Tick

Spec == Init /\ [][Next]_vars

-----------------------------------------------------------------------------
(* What the unguarded statements cannot break: every execution beyond the  *)
(* first is owed to a takeover of its own, and so to a lock that expired   *)
(* or a handler that failed.                                               *)
ExecutionsPerTakeover == Cardinality(executed) <= 1 + Cardinality(tookOver)

(* What IdempotencyManager.ts:24-25 says: duplicates of a request never    *)
(* execute twice.  It is false where a handler outlives its lock: a second *)
(* request takes the row over, and both handlers resolve.                  *)
NothingRunsTwice == Cardinality(executed) <= 1

(* A returned response is the result of a real execution, and as long as   *)
(* nobody took over all requests return the same one.                      *)
AnswersAgree ==
  /\ \A r \in Requests : phase[r] = "returned" => answer[r] \in executed
  /\ tookOver = {} => \A q, r \in Requests :
       phase[q] = "returned" /\ phase[r] = "returned" => answer[q] = answer[r]

(* Without a takeover a completed row is never deleted, reopened or        *)
(* rewritten, whatever the requests that found it earlier still do.        *)
CompletedIsFinal ==
  [][row.status = "COMPLETED" /\ tookOver' = {} => row' = row]_vars
=============================================================================
