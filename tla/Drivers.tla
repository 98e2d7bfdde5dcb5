------------------------------- MODULE Drivers -------------------------------
(* executeResilientTransaction() and executeResilient() (context/DbContext.ts) *)
(* over the database drivers (adapters/): each statement, BEGIN and COMMIT of   *)
(* concurrent calls is a step that may fail, on a session of the driver's pool  *)
(* or on its one connection.  The SQL, and the delay before a retry, are left   *)
(* out: any other step may happen between two of one call.                      *)
EXTENDS Integers, Sequences, FiniteSets

CONSTANTS Flows,      \* the asynchronous calls
          Sessions,   \* the connections a pool keeps
          Workloads,  \* the driver and what each call runs
          MaxRetry,   \* maxRetryCount
          MaxFaults,  \* how many times a statement, hook, BEGIN or COMMIT fails
          MaxBody,    \* the longest body
          None

VARIABLES work,       \* one of Workloads
          sessions,   \* what the server holds for each connection
          idle,       \* how often each connection is in the pool's idle list
          stored,     \* how often each write is committed
          op,         \* the call of each flow
          faults      \* how many faults happened

vars == <<work, sessions, idle, stored, op, faults>>

driver == work.driver
Call(f) == work.calls[f]

(* ------------------------------- the drivers ------------------------------ *)

\* shared: statements run on one connection, whatever transaction they name;
\* transacts: BEGIN is sent; lends: BEGIN takes a client that commit() and
\* rollback() release; strict: releasing twice throws; aborts: a failed statement
\* fails the ones after it; victim: a deadlock ends the transaction; awaits:
\* commit() waits for COMMIT; savepoints: the driver has them; variables: an
\* INOUT argument is set by a statement of its own; falls: a CALL that fails is
\* tried as a SELECT; refuses: a rollback() after a failed commit() throws;
\* implicit: BEGIN commits the transaction that is open.
Driver == [shared |-> FALSE, transacts |-> TRUE, lends |-> FALSE, strict |-> FALSE, aborts |-> FALSE,
           victim |-> FALSE, awaits |-> TRUE, savepoints |-> TRUE, variables |-> FALSE,
           falls |-> FALSE, refuses |-> FALSE, implicit |-> FALSE,
           faults |-> {"deadlock", "reset", "unique"}]

Postgres == [Driver EXCEPT !.lends = TRUE, !.strict = TRUE, !.aborts = TRUE, !.falls = TRUE,
                           !.faults = @ \cup {"serialization", "terminated"}]
Neon == Postgres
Mysql == [Driver EXCEPT !.lends = TRUE, !.victim = TRUE, !.variables = TRUE, !.implicit = TRUE]
Mssql == [Driver EXCEPT !.victim = TRUE, !.refuses = TRUE]
Turso == [Driver EXCEPT !.savepoints = FALSE]
PlanetScale == [Driver EXCEPT !.victim = TRUE, !.awaits = FALSE, !.savepoints = FALSE]
Sqlite == [Driver EXCEPT !.shared = TRUE, !.faults = {"deadlock", "unique"}]
D1(exec) == [Driver EXCEPT !.shared = TRUE, !.transacts = exec, !.savepoints = FALSE, !.faults = {"reset", "unique"}]

Adapters == {Postgres, Neon, Mysql, Mssql, Turso, PlanetScale, Sqlite, D1(TRUE), D1(FALSE)}

(* --------------------------------- the calls ------------------------------ *)

\* A body runs these in turn.  It catches the error of a "try", and rolls back to
\* the savepoint it made just before; and of an "attempt", and goes on, as an
\* audited write does when its audit entry cannot be stored.
Statements == {"write", "inout", "function"}
Caught == {"try", "attempt"}
Bodies == {b \in Seq(Statements \cup Caught \cup {"point"}) :
              /\ Len(b) \in 1 .. MaxBody
              /\ \A n \in 1 .. Len(b) : b[n] = "try" => n > 1 /\ b[n - 1] = "point"}

\* executeResilientTransaction() runs a body, executeResilient() one statement.
ASSUME WorkloadAssumption ==
    \A w \in Workloads :
        /\ w.driver \in Adapters
        /\ \A f \in Flows : \/ w.calls[f].tx = TRUE /\ w.calls[f].body \in Bodies
                            \/ w.calls[f].tx = FALSE /\ \E x \in Statements : w.calls[f].body = <<x>>

ASSUME BoundAssumption == Sessions # {} /\ MaxRetry \in Nat /\ MaxFaults \in Nat /\ MaxBody \in Nat \ {0}

(* -------------------------------- the errors ------------------------------ *)

\* An error: what failed, and whether the driver's code is still on it.
Coded == {"deadlock", "serialization", "reset"}
Worded == {"deadlock", "terminated", "hook"}             \* known by their messages
Lost == {"reset", "terminated"}                          \* and the connection with it
Causes == Coded \cup Worded \cup {"unique", "nested", "silent", "aborted", "unsupported", "released"}
Errors == [cause : Causes, coded : BOOLEAN]
Raw(cause) == [cause |-> cause, coded |-> cause \in Coded]
Wrapped(cause) == [cause |-> cause, coded |-> FALSE]     \* translate(): the code stays on err.cause

\* fault: the message is not looked at.
isTransientByCode(e) == e.coded

\* isTransientError() reads the code, and the message: a deadlock, a timeout, a
\* terminated connection.
isTransientError(e) == e.coded \/ e.cause \in Worded

(* -------------------------------- the state ------------------------------- *)

Effects == Flows \X (0 .. MaxBody)      \* <<f, 0>>: a CALL of f with another's argument
Amounts == [Effects -> Nat]
Zero == [x \in Effects |-> 0]
Sum2(a, b) == [x \in Effects |-> a[x] + b[x]]

ASSUME MarkAssumption ==
    None \notin Flows \cup Sessions \cup Amounts \cup Errors \cup {"gone", "there"}

Clean == [open |-> FALSE, pending |-> Zero, saved |-> None, aborted |-> FALSE, dead |-> FALSE,
          closing |-> None, var |-> None]

Fresh == [phase |-> "begin", attempt |-> 1, item |-> 1, s |-> None, err |-> None, ok |-> FALSE, skipped |-> {},
          root |-> None, masked |-> FALSE, late |-> None, failed |-> FALSE,
          void |-> FALSE, unsure |-> FALSE, joined |-> FALSE, struck |-> FALSE]

Init ==
    /\ work \in Workloads
    /\ sessions = [s \in Sessions |-> Clean]
    /\ idle = [s \in Sessions |-> 1]
    /\ stored = Zero
    /\ op = [f \in Flows |-> Fresh]
    /\ faults = 0

Shared == CHOOSE s \in Sessions : TRUE
Free == IF driver.shared THEN {Shared} ELSE {s \in Sessions : idle[s] > 0}

\* fault: the client of the transaction is not used.
ClientsOfThePool(f) == Free

\* transaction ? transaction.getDriver().client : this.pool
Clients(f) == IF op[f].s = None THEN Free ELSE {op[f].s}

Body(f) == Call(f).body
Item(f) == Body(f)[op[f].item]

(* ------------------------- resolving and retrying ------------------------- *)

Restart(o) == [o EXCEPT !.phase = "begin", !.attempt = @ + 1, !.item = 1, !.s = None, !.err = None,
                        !.skipped = {}, !.root = None, !.masked = FALSE, !.late = None, !.void = FALSE]

\* The catch of DefaultExecutionStrategy.execute().
Settle(o, e) == IF o.attempt > MaxRetry \/ ~isTransientError(e)
                THEN [o EXCEPT !.phase = "done", !.err = e, !.failed = TRUE]
                ELSE [Restart(o) EXCEPT !.failed = TRUE]

Rooted(o, e) == [o EXCEPT !.root = IF @ = None THEN e ELSE @]

\* An error of the body: caught by it, or by useTransaction(), or by nobody.
Thrown(f, o, e) == IF o.phase # "run" \/ Item(f) \notin Caught THEN
                     IF Call(f).tx THEN [Rooted(o, e) EXCEPT !.phase = "rollback", !.err = e]
                     ELSE Settle(Rooted(o, e), e)
                   ELSE [o EXCEPT !.phase = "undo", !.skipped = @ \cup {o.item}]

Next1(f, o) == IF o.item < Len(Body(f)) THEN [o EXCEPT !.phase = "run", !.item = @ + 1]
               ELSE IF Call(f).tx THEN [o EXCEPT !.phase = "commit"]
               ELSE [o EXCEPT !.phase = "done", !.ok = TRUE]

(* --------------------------------- BEGIN ---------------------------------- *)

Holders(s) == {g \in Flows : op[g].s = s /\ op[g].phase \notin {"begin", "done"}}

\* BEGIN on a connection that was lent twice: what is open there goes on
\* (PostgreSQL), or is committed first (MySQL).
Begun(s) == IF sessions[s].open /\ ~driver.implicit THEN sessions[s]
            ELSE [sessions[s] EXCEPT !.open = driver.transacts, !.pending = Zero, !.saved = None]

Begin(f) ==
    /\ op[f].phase = "begin" /\ Call(f).tx
    /\ \E s \in Free :
        /\ idle' = IF driver.shared THEN idle ELSE [idle EXCEPT ![s] = @ - 1]
        /\ \/ /\ driver.transacts => ~sessions[s].open \/ ~driver.shared
              /\ stored' = IF sessions[s].open /\ driver.implicit THEN Sum2(stored, sessions[s].pending) ELSE stored
              /\ sessions' = [sessions EXCEPT ![s] = Begun(s)]
              /\ LET met == {g \in Holders(s) : op[g].late = None /\ driver.transacts}
                 IN op' = [g \in Flows |->
                              IF g = f THEN [op[f] EXCEPT !.phase = "run", !.s = s, !.struck = @ \/ met # {}]
                              ELSE IF g \in met THEN [op[g] EXCEPT !.struck = TRUE] ELSE op[g]]
              /\ faults' = faults
           \/ \* a second BEGIN on the one connection
              /\ driver.shared /\ driver.transacts /\ sessions[s].open
              /\ op' = [op EXCEPT ![f] = Settle(Rooted(@, Raw("nested")), Raw("nested"))]
              /\ UNCHANGED <<sessions, stored, faults>>
    /\ UNCHANGED work

\* BEGIN fails after a client was taken: nobody releases it.
BeginFails(f) ==
    /\ op[f].phase = "begin" /\ Call(f).tx /\ faults < MaxFaults /\ "reset" \in driver.faults
    /\ \E s \in Free : idle' = IF driver.lends THEN [idle EXCEPT ![s] = @ - 1] ELSE idle
    /\ op' = [op EXCEPT ![f] = Settle(Rooted(@, Raw("reset")), Raw("reset"))]
    /\ faults' = faults + 1
    /\ UNCHANGED <<work, sessions, stored>>

Plain(f) ==
    /\ op[f].phase = "begin" /\ ~Call(f).tx
    /\ op' = [op EXCEPT ![f].phase = "run"]
    /\ UNCHANGED <<work, sessions, idle, stored, faults>>

(* ------------------------------- statements ------------------------------- *)

Refuses(s) == sessions[s].dead \/ sessions[s].aborted

\* Outcomes of a statement, and of the hooks around it: an onAfterQuery that
\* throws reports an applied statement as failed, an onError that throws hides
\* the statement's error.
Outcome(applied, root, err) == [applied |-> applied, root |-> root, err |-> err]
Answers(s) == IF Refuses(s) THEN {Outcome(FALSE, Wrapped("aborted"), Wrapped("aborted"))}
              ELSE {Outcome(TRUE, None, None)}
Fails(s) == IF Refuses(s) THEN {}
            ELSE {Outcome(FALSE, Wrapped(c), Wrapped(c)) : c \in driver.faults}
                 \cup {Outcome(TRUE, Wrapped(c), Wrapped(c)) : c \in driver.faults \cap Lost}
intercept(s) == {Outcome(a, Wrapped("hook"), Wrapped("hook")) : a \in {FALSE, ~Refuses(s)}}
                \cup {Outcome(x.applied, x.root, Wrapped("silent")) : x \in Fails(s)}

\* What a statement leaves of its session: a lost connection takes its
\* transaction along (a pool replaces it).
After(ss, f, x) ==
    IF x.root # None /\ x.root.cause \in Lost /\ ~driver.shared THEN [Clean EXCEPT !.dead = op[f].s # None]
    ELSE IF x.root # None /\ x.root.cause = "deadlock" /\ driver.victim THEN Clean
    ELSE IF ~x.applied /\ driver.aborts /\ ss.open /\ x.root.cause # "hook" THEN [ss EXCEPT !.aborted = TRUE]
    ELSE ss

\* Another call works on the connection of g.
Meets(g, s) == [op[g] EXCEPT !.struck = @ \/ (g \in Holders(s) /\ ~driver.shared)]

\* Statement n of f: it joins whatever transaction its session has open.
Execute(f, s, x, n) ==
    LET joins == sessions[s].open
        o == [op[f] EXCEPT !.joined = @ \/ (joins /\ op[f].s = None /\ x.applied),
                           !.unsure = @ \/ ((~joins \/ Item(f) = "attempt") /\ x.err # None /\ x.applied)]
        written == IF x.applied THEN [Zero EXCEPT ![<<f, n>>] = 1] ELSE Zero
        ss == IF joins THEN [sessions[s] EXCEPT !.pending = Sum2(@, written)] ELSE sessions[s]
    IN /\ stored' = IF joins THEN stored ELSE Sum2(stored, written)
       /\ sessions' = [sessions EXCEPT ![s] = After(ss, f, x)]
       /\ op' = [g \in Flows |->
                    IF g # f THEN Meets(g, s)
                    ELSE IF x.err = None THEN Next1(f, o)
                    ELSE Thrown(f, [Rooted(o, x.root) EXCEPT !.masked = @ \/ x.err # x.root], x.err)]
       /\ faults' = IF x \in Answers(s) THEN faults ELSE faults + 1
       /\ UNCHANGED <<work, idle>>

Outcomes(s) == Answers(s) \cup IF faults < MaxFaults THEN Fails(s) \cup intercept(s) ELSE {}

\* executeNonQuery(), and a procedure that one statement calls.
Statement(f) ==
    /\ op[f].phase = "run"
    /\ \/ Item(f) \in {"write"} \cup Caught
       \/ Item(f) = "inout" /\ ~driver.variables
       \/ Item(f) = "function" /\ ~driver.falls
    /\ \E s \in Clients(f) : \E x \in Outcomes(s) : Execute(f, s, x, op[f].item)

\* executeProcedure() in two statements, each on whatever client it gets: SET of
\* the variable then CALL, or a CALL that fails then SELECT.
CallFirst(f) ==
    /\ op[f].phase = "run"
    /\ \/ Item(f) = "inout" /\ driver.variables
       \/ Item(f) = "function" /\ driver.falls
    /\ \E s \in Clients(f) :
        IF Refuses(s) THEN \E x \in Answers(s) : Execute(f, s, x, op[f].item)
        ELSE /\ sessions' = [sessions EXCEPT ![s] = IF driver.variables THEN [@ EXCEPT !.var = f]
                                                    ELSE [@ EXCEPT !.aborted = sessions[s].open /\ driver.aborts]]
             /\ op' = [g \in Flows |-> IF g = f THEN [op[f] EXCEPT !.phase = "call"]
                                       ELSE Meets(g, s)]
             /\ UNCHANGED <<work, idle, stored, faults>>

CallSecond(f) ==
    /\ op[f].phase = "call"
    /\ \E s \in Clients(f) : \E x \in Outcomes(s) :
        Execute(f, s, x, IF driver.variables /\ sessions[s].var # f THEN 0 ELSE op[f].item)

Savepoint(f) ==
    /\ op[f].phase = "run" /\ Item(f) = "point"
    /\ LET s == op[f].s
           e == IF driver.savepoints THEN Raw("aborted") ELSE Raw("unsupported")
       IN IF driver.savepoints /\ ~Refuses(s)
          THEN /\ sessions' = [sessions EXCEPT ![s].saved = sessions[s].pending]
               /\ op' = [op EXCEPT ![f] = Next1(f, @)]
          ELSE /\ op' = [op EXCEPT ![f] = Thrown(f, @, e)]
               /\ UNCHANGED sessions
    /\ UNCHANGED <<work, idle, stored, faults>>

\* A savepoint is gone with the transaction a deadlock or a lost connection ended.
RollbackTo(f) ==
    /\ op[f].phase = "undo" /\ Item(f) = "try"
    /\ LET s == op[f].s
       IN IF sessions[s].saved # None /\ ~sessions[s].dead
          THEN /\ sessions' = [sessions EXCEPT ![s].pending = sessions[s].saved, ![s].aborted = FALSE]
               /\ op' = [op EXCEPT ![f] = Next1(f, [@ EXCEPT !.root = None, !.masked = FALSE, !.void = FALSE])]
          ELSE /\ op' = [op EXCEPT ![f] = Thrown(f, [@ EXCEPT !.masked = TRUE], Raw("aborted"))]
               /\ UNCHANGED sessions
    /\ UNCHANGED <<work, idle, stored, faults>>

\* An error caught without a savepoint.  What PostgreSQL aborted stays aborted;
\* what the server ended is not begun again, and the statements to come stand alone.
Swallowed(o, ss) == [o EXCEPT !.root = None, !.masked = FALSE,
                              !.void = @ \/ (driver.aborts /\ ss.aborted),
                              !.struck = @ \/ (driver.transacts /\ (~ss.open \/ ss.dead))]

Catch(f) ==
    /\ op[f].phase = "undo" /\ Item(f) = "attempt"
    /\ op' = [op EXCEPT ![f] = Next1(f, Swallowed(@, sessions[@.s]))]
    /\ UNCHANGED <<work, sessions, idle, stored, faults>>

(* ---------------------------- COMMIT and ROLLBACK ------------------------- *)

\* SQLite refuses to end a transaction that is not open.
NoneOpen(s) == driver.shared /\ driver.transacts /\ ~sessions[s].open

\* client.release(): a client lent to another meanwhile is taken from it.
ReleaseThrows(s) == driver.lends /\ driver.strict /\ idle[s] > 0
Released(s) == IF driver.shared \/ ReleaseThrows(s) THEN idle ELSE [idle EXCEPT ![s] = @ + 1]

\* commit() of the driver, awaited, then useTransaction() returns; a COMMIT of an
\* aborted transaction rolls back and is answered.
Commit(f) ==
    /\ op[f].phase = "commit" /\ driver.awaits
    /\ LET s == op[f].s
           ss == sessions[s]
           thrown == ss.dead \/ NoneOpen(s) \/ ReleaseThrows(s)
       IN /\ stored' = IF ss.open /\ ~ss.aborted THEN Sum2(stored, ss.pending) ELSE stored
          /\ sessions' = [sessions EXCEPT ![s] = [Clean EXCEPT !.var = ss.var]]
          /\ idle' = Released(s)
          /\ op' = [op EXCEPT ![f] = IF thrown THEN [Thrown(f, @, Raw("released")) EXCEPT !.late = IF ss.dead THEN "gone" ELSE "there"]
                                     ELSE [@ EXCEPT !.phase = "done", !.ok = TRUE]]
    /\ UNCHANGED <<work, faults>>

\* COMMIT fails; or its answer is lost, and with it the connection.  The one
\* connection keeps its transaction open.
CommitFails(f) ==
    /\ op[f].phase = "commit" /\ driver.awaits /\ driver.transacts /\ faults < MaxFaults
    /\ LET s == op[f].s
       IN \E c \in driver.faults, happened \in BOOLEAN :
          /\ happened => c \in Lost /\ sessions[s].open /\ ~sessions[s].aborted
          /\ stored' = IF happened THEN Sum2(stored, sessions[s].pending) ELSE stored
          /\ sessions' = IF driver.shared /\ ~happened THEN sessions ELSE [sessions EXCEPT ![s] = Clean]
          /\ idle' = Released(s)
          /\ LET thrown == Thrown(f, op[f], IF ReleaseThrows(s) THEN Raw("released") ELSE Raw(c))
             IN op' = [op EXCEPT ![f] = [thrown EXCEPT !.late = IF c \in Lost THEN "gone" ELSE "there",
                                                       !.unsure = thrown.unsure \/ happened]]
    /\ faults' = faults + 1
    /\ UNCHANGED work

\* PlanetScale: commit() only lets the driver's callback return, and resolves;
\* the COMMIT that follows may fail, and nobody hears.
CommitSignalled(f) ==
    /\ op[f].phase = "commit" /\ ~driver.awaits
    /\ sessions' = [sessions EXCEPT ![op[f].s].closing = f]
    /\ op' = [op EXCEPT ![f].phase = "done", ![f].ok = TRUE]
    /\ UNCHANGED <<work, idle, stored, faults>>

CommitLater(s) ==
    /\ sessions[s].closing # None
    /\ \E fails \in {sessions[s].dead} \cup {x \in {TRUE} : faults < MaxFaults} :
        /\ stored' = IF fails \/ ~sessions[s].open THEN stored ELSE Sum2(stored, sessions[s].pending)
        /\ op' = IF fails THEN [op EXCEPT ![sessions[s].closing].unsure = TRUE] ELSE op
        /\ faults' = IF fails /\ ~sessions[s].dead THEN faults + 1 ELSE faults
    /\ sessions' = [sessions EXCEPT ![s] = Clean]
    /\ idle' = [idle EXCEPT ![s] = @ + 1]
    /\ UNCHANGED work

\* The catch of useTransaction(): an error of rollback() replaces the first.
RolledBack(f, error) == [op EXCEPT ![f] = IF error = None THEN Settle(@, @.err) ELSE Settle([@ EXCEPT !.masked = TRUE], error)]

Rollback(f) ==
    /\ op[f].phase = "rollback" /\ op[f].late = None
    /\ LET s == op[f].s
           thrown == (sessions[s].dead /\ driver.lends) \/ NoneOpen(s) \/ ReleaseThrows(s)
       IN /\ sessions' = [sessions EXCEPT ![s] = Clean]
          /\ idle' = Released(s)
          /\ op' = RolledBack(f, IF thrown THEN Raw("released") ELSE None)
    /\ UNCHANGED <<work, stored, faults>>

\* After a failed commit() the client was released already: ROLLBACK is sent on
\* it all the same, and it is released again, from under whoever has it now.
RollbackLate(f) ==
    /\ op[f].phase = "rollback" /\ op[f].late # None
    /\ LET s == op[f].s
           reaches == driver.shared \/ (driver.lends /\ op[f].late = "there")
           hit == IF reaches THEN Holders(s) \ {f} ELSE {}
           thrown == IF reaches THEN NoneOpen(s) \/ ReleaseThrows(s) ELSE driver.lends \/ driver.refuses
       IN /\ sessions' = IF reaches THEN [sessions EXCEPT ![s] = Clean] ELSE sessions
          /\ idle' = IF reaches THEN Released(s) ELSE idle
          /\ op' = [g \in Flows |-> IF g \in hit THEN [op[g] EXCEPT !.struck = TRUE]
                                    ELSE RolledBack(f, IF thrown THEN Raw("released") ELSE None)[g]]
    /\ UNCHANGED <<work, stored, faults>>

Next ==
    \/ \E f \in Flows : \/ Begin(f) \/ BeginFails(f) \/ Plain(f)
                        \/ Statement(f) \/ CallFirst(f) \/ CallSecond(f) \/ Savepoint(f) \/ RollbackTo(f) \/ Catch(f)
                        \/ Commit(f) \/ CommitFails(f) \/ CommitSignalled(f) \/ Rollback(f) \/ RollbackLate(f)
    \/ \E s \in Sessions : CommitLater(s)

Spec == Init /\ [][Next]_vars
(* ------------------------------- the properties --------------------------- *)

Done(f) == op[f].phase = "done"
Wanted(f) == {n \in 1 .. Len(Body(f)) : Body(f)[n] # "point"} \ op[f].skipped

\* What the drivers cannot promise, named: the answer to an applied statement or
\* COMMIT was lost or reported as a failure; a statement landed in another call's
\* transaction; the session was rolled back or released by another call, or its
\* transaction ended with an error that the body caught; COMMIT is still to be
\* sent; there was no transaction to roll back; an INOUT argument was set on one
\* connection and used on another.
Excused(f) ==
    \/ op[f].unsure \/ op[f].joined \/ op[f].struck
    \/ ~driver.awaits /\ \E s \in Sessions : sessions[s].closing = f
    \/ ~driver.transacts /\ op[f].failed
    \/ driver.variables /\ ~Call(f).tx /\ "inout" \in {Body(f)[n] : n \in 1 .. Len(Body(f))}

\* A call that resolved has stored each of its writes exactly once, a call that
\* was rejected none, however often it was tried.  None is stored either when the
\* body caught the error of a statement that had aborted its transaction
\* (PostgreSQL, Neon): COMMIT is answered, and the call resolves.
AllOrNothing ==
    \A f \in Flows : Done(f) /\ ~Excused(f) =>
        \A n \in 0 .. MaxBody : stored[<<f, n>>] = IF op[f].ok /\ ~op[f].void /\ n \in Wanted(f) THEN 1 ELSE 0

\* What ExecutionStrategy.ts:53 says of the errors it retries, that they are safe to
\* retry: no write of a transaction that others leave alone is stored twice.  It is
\* false of a connection that is lost once COMMIT was sent.
RetriesAreSafe ==
    driver.transacts => \A f \in Flows : Call(f).tx /\ ~op[f].joined /\ ~op[f].struck =>
        \A n \in 1 .. Len(Body(f)) : stored[<<f, n>>] <= 1

\* A call is rejected after fewer than MaxRetry retries only if what failed is
\* not transient, unless its code was lost in wrapping it or another error
\* (of rollback(), release() or a hook) took its place.
TransientIsRetried ==
    \A f \in Flows : Done(f) /\ ~op[f].ok /\ op[f].attempt <= MaxRetry /\ op[f].root.cause \in Coded \cup Worded =>
        \/ op[f].masked
        \/ ~op[f].root.coded /\ op[f].root.cause \notin Worded
=============================================================================
