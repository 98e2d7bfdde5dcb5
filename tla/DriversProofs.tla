---------------------------- MODULE DriversProofs ----------------------------
(***************************************************************************)
(* Proofs about Drivers, for any calls and sessions, any bodies, retries   *)
(* and faults, over each of the drivers: a call without an excuse stores   *)
(* all of its writes once or none, and transient errors are retried.       *)
(*                                                                         *)
(* A call's own record (FlowInv) needs nothing of the others.  What the    *)
(* server holds of it (Whole) does: a session may be lent twice, or be     *)
(* the only one, and BEGIN, COMMIT and ROLLBACK act on whatever is there.  *)
(***************************************************************************)
EXTENDS Drivers, TLAPS

Holding == {"run", "call", "undo", "commit", "rollback"}

Calls == [phase : Holding \cup {"begin", "done"}, attempt : Nat, item : Nat, s : Sessions \cup {None},
          err : Errors \cup {None}, ok : BOOLEAN, skipped : SUBSET Nat, root : Errors \cup {None},
          masked : BOOLEAN, late : {None, "gone", "there"}, failed : BOOLEAN, void : BOOLEAN,
          unsure : BOOLEAN, joined : BOOLEAN, struck : BOOLEAN]

Connections == [open : BOOLEAN, pending : Amounts, saved : Amounts \cup {None}, aborted : BOOLEAN,
                dead : BOOLEAN, closing : Flows \cup {None}, var : Flows \cup {None}]

TypeInv ==
  /\ work \in Workloads
  /\ sessions \in [Sessions -> Connections]
  /\ idle \in [Sessions -> Nat]
  /\ stored \in Amounts
  /\ op \in [Flows -> Calls]
  /\ faults \in Nat

(* Where a call is in its body, and which of its items it has skipped.     *)
Placed(f, o) ==
  /\ o.item \in 1 .. Len(Body(f))
  /\ o.skipped \subseteq 1 .. o.item
  /\ o.phase \in {"run", "call"} => o.item \notin o.skipped
  /\ o.phase = "begin" => o.item = 1 /\ o.skipped = {} /\ ~o.void
  /\ o.phase = "commit" => o.item = Len(Body(f))
  /\ o.phase = "call" => \/ Body(f)[o.item] = "inout" /\ driver.variables
                         \/ Body(f)[o.item] = "function" /\ driver.falls
  /\ o.phase = "undo" => Body(f)[o.item] \in Caught /\ o.item \in o.skipped
  /\ o.void => driver.aborts
  /\ o.ok => o.phase = "done" /\ o.item = Len(Body(f))
  /\ o.phase = "done" => o.ok \/ o.failed

(* A transaction at work has a session; only its commit() releases it      *)
(* before rollback() does.                                                 *)
Housed(f, o) ==
  /\ Call(f).tx /\ o.phase \in Holding => o.s \in Sessions
  /\ ~Call(f).tx => o.s = None /\ ~o.void /\ o.phase \in {"begin", "run", "call", "done"}
  /\ o.phase = "begin" => o.s = None
  /\ o.late # None => o.phase \in {"rollback", "done"} /\ ~o.ok

(* The first error is the one to be judged, unless another took its place. *)
Blamed(o) ==
  /\ o.phase \in {"begin", "run", "call", "commit"} => o.root = None
  /\ o.phase = "rollback" => o.err # None /\ (o.masked \/ o.root = o.err)
  /\ o.phase = "done" /\ ~o.ok /\ o.attempt <= MaxRetry /\ ~o.masked =>
       o.root \in Errors /\ ~isTransientError(o.root)

FlowInv == \A f \in Flows : Placed(f, op[f]) /\ Housed(f, op[f]) /\ Blamed(op[f])

-----------------------------------------------------------------------------
(* What the server holds of a call. *)

Has(fn, f, D) == \A n \in 0 .. MaxBody : fn[<<f, n>>] = IF n \in D THEN 1 ELSE 0

Did(f) == {n \in 1 .. Len(Body(f)) : /\ Body(f)[n] # "point" /\ n \notin op[f].skipped
                                     /\ n < op[f].item \/ op[f].phase = "commit" \/ op[f].ok}

Clear(f) ==
  /\ ~op[f].unsure /\ ~op[f].joined /\ ~op[f].struck
  /\ driver.transacts \/ ~op[f].failed
  /\ ~driver.variables \/ Call(f).tx \/ "inout" \notin {Body(f)[n] : n \in 1 .. Len(Body(f))}

Closing(f) == \E s \in Sessions : sessions[s].closing = f
Away(f, s) == /\ Has(sessions[s].pending, f, {})
              /\ sessions[s].saved = None \/ Has(sessions[s].saved, f, {})
Sole(f, s) == \A g \in Holders(s) : g = f \/ op[g].late # None

(* A session holds nothing of f, unless COMMIT of all it did is on its way *)
(* or f may still end its transaction there.                               *)
Lies(f, s) ==
  IF sessions[s].closing = f
  THEN sessions[s].open /\ ~sessions[s].aborted /\ Has(sessions[s].pending, f, Did(f))
  ELSE \/ Away(f, s)
       \/ /\ f \in Holders(s) /\ Sole(f, s)
          /\ op[f].late = None \/ (driver.shared /\ sessions[s].open)

(* The session f works on is its own, and holds what f did.                *)
Works(f) ==
  LET o == op[f]
      ss == sessions[o.s]
  IN /\ Sole(f, o.s)
     /\ driver.strict => idle[o.s] = 0
     /\ o.phase \in {"run", "call", "commit"} =>
          /\ ss.open /\ ~ss.dead /\ Has(ss.pending, f, Did(f))
          /\ o.void => ss.aborted
          /\ o.phase # "call" /\ ss.aborted => o.void
     /\ o.phase = "call" /\ driver.variables => ss.var = f
     /\ o.phase = "run" /\ Item(f) = "try" => ss.saved # None /\ Has(ss.saved, f, Did(f))
     /\ o.phase = "undo" /\ Item(f) = "try" /\ ss.saved # None /\ ~ss.dead =>
          ss.open /\ Has(ss.saved, f, Did(f))
     /\ o.phase = "undo" /\ Item(f) = "attempt" /\ ss.open /\ ~ss.dead =>
          /\ Has(ss.pending, f, Did(f))
          /\ o.void => ss.aborted
          /\ ss.aborted => driver.aborts

Working(f) == Call(f).tx /\ op[f].phase \in Holding /\ op[f].late = None

Whole(f) ==
  Clear(f) =>
    /\ Has(stored, f, IF driver.transacts /\ (~op[f].ok \/ Closing(f) \/ op[f].void) THEN {} ELSE Did(f))
    /\ driver.transacts => /\ \A s \in Sessions : Lies(f, s)
                           /\ Working(f) => Works(f)

(* How the driver's pool lends its sessions.                               *)
Lent(s) ==
  /\ ~driver.transacts => ~sessions[s].open
  /\ driver.strict => idle[s] <= 1
  /\ driver.awaits => sessions[s].closing = None
  /\ IF driver.shared THEN ~sessions[s].dead /\ ~sessions[s].aborted
     ELSE sessions[s].open \/ sessions[s].dead \/ sessions[s].aborted =>
            sessions[s].closing # None \/ \E g \in Holders(s) : op[g].late = None
  /\ ~driver.awaits =>
       /\ idle[s] \in {0, 1}
       /\ idle[s] = 1 => sessions[s].closing = None /\ Holders(s) = {}
       /\ sessions[s].closing # None =>
            /\ Holders(s) = {}
            /\ op[sessions[s].closing].ok /\ op[sessions[s].closing].s = s
       /\ \A g, h \in Holders(s) : g = h

SessionInv == \A s \in Sessions : Lent(s)
WholeInv == \A f \in Flows : Whole(f)

IInv == TypeInv /\ FlowInv /\ SessionInv /\ WholeInv

-----------------------------------------------------------------------------
(* Constants and the records of the model. *)

(* What the drivers have in common that the proofs use.                    *)
LEMMA DriverFacts ==
  ASSUME work \in Workloads
  PROVE  /\ driver.shared \in BOOLEAN /\ driver.transacts \in BOOLEAN /\ driver.lends \in BOOLEAN
         /\ driver.strict \in BOOLEAN /\ driver.aborts \in BOOLEAN /\ driver.victim \in BOOLEAN
         /\ driver.awaits \in BOOLEAN /\ driver.savepoints \in BOOLEAN /\ driver.variables \in BOOLEAN
         /\ driver.falls \in BOOLEAN /\ driver.refuses \in BOOLEAN
         /\ driver.faults \subseteq {"deadlock", "serialization", "reset", "terminated", "unique"}
         /\ driver.shared => /\ driver.awaits /\ ~driver.lends /\ ~driver.victim /\ ~driver.aborts
                             /\ ~driver.variables /\ ~driver.falls
         /\ ~driver.transacts => driver.shared
         /\ driver.aborts => driver.awaits
         /\ driver.strict => driver.lends /\ driver.awaits
         /\ ~driver.awaits => ~driver.lends
         /\ ~driver.variables \/ ~driver.falls
<1>1. driver \in Adapters
  BY WorkloadAssumption DEF driver
<1>2. CASE driver \in {Postgres, Neon}
  BY <1>2 DEF Neon, Postgres, Driver
<1>3. CASE driver = Mysql
  BY <1>3 DEF Mysql, Driver
<1>4. CASE driver \in {Mssql, Turso, PlanetScale}
  BY <1>4 DEF Mssql, Turso, PlanetScale, Driver
<1>5. CASE driver \in {Sqlite, D1(TRUE), D1(FALSE)}
  BY <1>5 DEF Sqlite, D1, Driver
<1> QED
  BY <1>1, <1>2, <1>3, <1>4, <1>5 DEF Adapters

(* Bodies are not empty, and a try follows its savepoint.                  *)
LEMMA BodyFacts ==
  ASSUME work \in Workloads, NEW f \in Flows
  PROVE  /\ Call(f).tx \in BOOLEAN
         /\ Len(Body(f)) \in 1 .. MaxBody
         /\ \A n \in 1 .. Len(Body(f)) :
              /\ Body(f)[n] \in Statements \cup Caught \cup {"point"}
              /\ Body(f)[n] = "try" => n > 1 /\ Body(f)[n - 1] = "point"
         /\ ~Call(f).tx => Len(Body(f)) = 1 /\ Body(f)[1] \in Statements
<1>1. \/ Call(f).tx = TRUE /\ Body(f) \in Bodies
      \/ Call(f).tx = FALSE /\ \E x \in Statements : Body(f) = <<x>>
  BY WorkloadAssumption DEF Call, Body
<1>2. CASE Call(f).tx = TRUE /\ Body(f) \in Bodies
  <2>1. /\ Len(Body(f)) \in 1 .. MaxBody
        /\ \A n \in 1 .. Len(Body(f)) : Body(f)[n] = "try" => n > 1 /\ Body(f)[n - 1] = "point"
        /\ Body(f) \in Seq(Statements \cup Caught \cup {"point"})
    BY <1>2 DEF Bodies
  <2>2. \A n \in 1 .. Len(Body(f)) : Body(f)[n] \in Statements \cup Caught \cup {"point"}
    BY <2>1
  <2> QED
    BY <1>2, <2>1, <2>2
<1>3. CASE Call(f).tx = FALSE /\ \E x \in Statements : Body(f) = <<x>>
  <2>1. PICK x \in Statements : Body(f) = <<x>>
    BY <1>3
  <2>2. x # "try" /\ Len(<<x>>) = 1 /\ <<x>>[1] = x /\ 1 \in 1 .. MaxBody
    BY BoundAssumption DEF Statements
  <2>3. Len(Body(f)) = 1 /\ Body(f)[1] = x
    BY <2>1, <2>2
  <2>4. \A n \in 1 .. Len(Body(f)) : n = 1
    BY <2>3
  <2> QED
    BY <1>3, <2>2, <2>3, <2>4
<1> QED
  BY <1>1, <1>2, <1>3

(* The mark for nothing is no error, session or amount.                    *)
LEMMA Marks ==
  /\ None \notin Flows /\ None \notin Sessions /\ None \notin Amounts
  /\ None \notin {"gone", "there"}
  /\ None \notin Errors
  /\ \A c \in Causes : Raw(c) \in Errors /\ Wrapped(c) \in Errors
BY MarkAssumption DEF Errors, Raw, Wrapped, Causes, Coded, Worded

(* Settle(), Rooted() and Next1(), and what they leave alone.              *)
LEMMA SettleFacts ==
  ASSUME NEW o \in Calls, NEW e \in Errors
  PROVE  LET p == Settle(o, e)
         IN /\ p \in Calls
            /\ p.failed /\ p.ok = o.ok
            /\ p.struck = o.struck /\ p.unsure = o.unsure /\ p.joined = o.joined
            /\ \/ /\ p.phase = "begin" /\ p.item = 1 /\ p.skipped = {} /\ ~p.void
                  /\ p.s = None /\ p.late = None /\ p.root = None
               \/ /\ p.phase = "done" /\ p.item = o.item /\ p.skipped = o.skipped
                  /\ p.s = o.s /\ p.late = o.late /\ p.root = o.root
                  /\ p.masked = o.masked /\ p.attempt = o.attempt /\ p.void = o.void
                  /\ o.attempt > MaxRetry \/ ~isTransientError(e)
<1>1. CASE o.attempt > MaxRetry \/ ~isTransientError(e)
  <2>1. Settle(o, e) = [o EXCEPT !.phase = "done", !.err = e, !.failed = TRUE]
    BY <1>1 DEF Settle
  <2> QED
    BY <1>1, <2>1 DEF Calls
<1>2. CASE ~(o.attempt > MaxRetry \/ ~isTransientError(e))
  <2>1. Settle(o, e) = [Restart(o) EXCEPT !.failed = TRUE]
    BY <1>2 DEF Settle
  <2> DEFINE r == Restart(o)
  <2>2. r = [o EXCEPT !.phase = "begin", !.attempt = o.attempt + 1, !.item = 1, !.s = None,
                      !.err = None, !.skipped = {}, !.root = None, !.masked = FALSE, !.late = None,
                      !.void = FALSE]
    BY DEF Restart
  <2>3. o.attempt + 1 \in Nat /\ 1 \in Nat /\ {} \in SUBSET Nat
    BY DEF Calls
  <2>4. r \in Calls
    BY <2>2, <2>3 DEF Calls
  <2>5. /\ r.ok = o.ok /\ r.phase = "begin" /\ r.item = 1 /\ r.skipped = {} /\ ~r.void
        /\ r.s = None /\ r.late = None /\ r.root = None
        /\ r.struck = o.struck /\ r.unsure = o.unsure /\ r.joined = o.joined
    BY <2>2 DEF Calls
  <2> HIDE DEF r
  <2>6. Settle(o, e) = [r EXCEPT !.failed = TRUE]
    BY <2>1 DEF r
  <2> QED
    BY <2>4, <2>5, <2>6 DEF Calls
<1> QED
  BY <1>1, <1>2

LEMMA RootedFacts ==
  ASSUME NEW o \in Calls, NEW e \in Errors
  PROVE  LET p == Rooted(o, e)
         IN /\ p = [o EXCEPT !.root = p.root]
            /\ p \in Calls
            /\ p.root = IF o.root = None THEN e ELSE o.root
BY DEF Calls, Rooted

-----------------------------------------------------------------------------
(* A call's record after it goes on, fails or settles. *)

Good(f, o) == o \in Calls /\ Placed(f, o) /\ Housed(f, o) /\ Blamed(o)

(* A call that is still running, with what it has done so far.             *)
Running(f, o) ==
  /\ o \in Calls
  /\ o.item \in 1 .. Len(Body(f)) /\ o.skipped \subseteq 1 .. o.item
  /\ ~o.ok /\ o.late = None /\ (o.void => driver.aborts)
  /\ IF Call(f).tx THEN o.s \in Sessions ELSE o.s = None /\ ~o.void

(* What no step of the call itself changes, but for its statements.        *)
Marked(p, o) == p.struck = o.struck /\ p.unsure = o.unsure /\ p.joined = o.joined

(* The next item, or the end of the body.                                  *)
LEMMA NextGood ==
  ASSUME work \in Workloads, NEW f \in Flows, NEW o, Running(f, o), o.root = None
  PROVE  LET p == Next1(f, o)
         IN /\ Good(f, p) /\ Marked(p, o)
            /\ p.s = o.s /\ p.skipped = o.skipped /\ p.failed = o.failed /\ p.late = None /\ p.void = o.void
            /\ \/ /\ o.item < Len(Body(f)) /\ Call(f).tx
                  /\ p.phase = "run" /\ p.item = o.item + 1 /\ ~p.ok
               \/ /\ o.item = Len(Body(f)) /\ Call(f).tx
                  /\ p.phase = "commit" /\ p.item = o.item /\ ~p.ok
               \/ /\ o.item = Len(Body(f)) /\ ~Call(f).tx
                  /\ p.phase = "done" /\ p.item = o.item /\ p.ok
<1> USE BodyFacts DEF Running
<1>1. CASE o.item < Len(Body(f))
  <2>1. Next1(f, o) = [o EXCEPT !.phase = "run", !.item = o.item + 1]
    BY <1>1 DEF Next1
  <2>2. o.item + 1 \in Nat /\ o.item + 1 \in 1 .. Len(Body(f)) /\ Call(f).tx
        /\ o.item + 1 \notin o.skipped /\ o.skipped \subseteq 1 .. o.item + 1
        /\ o \in Calls /\ "run" \in Holding
    BY <1>1 DEF Holding
  <2>3. Next1(f, o) \in Calls
    BY ONLY <2>1, <2>2 DEF Calls
  <2> QED
    BY <1>1, <2>1, <2>2, <2>3 DEF Calls, Holding, Good, Placed, Housed, Blamed, Marked
<1>2. CASE o.item = Len(Body(f)) /\ Call(f).tx
  <2>1. Next1(f, o) = [o EXCEPT !.phase = "commit"]
    BY <1>2 DEF Next1
  <2> QED
    BY <1>2, <2>1 DEF Calls, Holding, Good, Placed, Housed, Blamed, Marked
<1>3. CASE o.item = Len(Body(f)) /\ ~Call(f).tx
  <2>1. Next1(f, o) = [o EXCEPT !.phase = "done", !.ok = TRUE]
    BY <1>3 DEF Next1
  <2> QED
    BY <1>3, <2>1 DEF Calls, Holding, Good, Placed, Housed, Blamed, Marked
<1> QED
  BY <1>1, <1>2, <1>3

(* An error the execution strategy judges.                                 *)
LEMMA SettleGood ==
  ASSUME work \in Workloads, NEW f \in Flows, NEW o \in Calls, NEW e \in Errors,
         o.item \in 1 .. Len(Body(f)), o.skipped \subseteq 1 .. o.item, ~o.ok,
         ~Call(f).tx => o.s = None /\ ~o.void, o.void => driver.aborts,
         o.masked \/ o.root = e
  PROVE  LET p == Settle(o, e)
         IN /\ Good(f, p) /\ Marked(p, o)
            /\ p.phase \in {"begin", "done"} /\ p.failed /\ ~p.ok
<1> DEFINE p == Settle(o, e)
<1>1. /\ p \in Calls
      /\ p.failed /\ p.ok = o.ok
      /\ p.struck = o.struck /\ p.unsure = o.unsure /\ p.joined = o.joined
      /\ \/ /\ p.phase = "begin" /\ p.item = 1 /\ p.skipped = {} /\ ~p.void
            /\ p.s = None /\ p.late = None /\ p.root = None
         \/ /\ p.phase = "done" /\ p.item = o.item /\ p.skipped = o.skipped
            /\ p.s = o.s /\ p.late = o.late /\ p.root = o.root
            /\ p.masked = o.masked /\ p.attempt = o.attempt /\ p.void = o.void
            /\ o.attempt > MaxRetry \/ ~isTransientError(e)
  BY SettleFacts
<1>2. 1 \in 1 .. Len(Body(f))
  BY BodyFacts
<1> HIDE DEF p
<1>3. Placed(f, p) /\ Housed(f, p)
  BY <1>1, <1>2 DEF Placed, Housed, Holding
<1>4. Blamed(p)
  <2>1. o.attempt \in Nat
    BY DEF Calls
  <2> QED
    BY <1>1, <2>1, BoundAssumption DEF Blamed
<1> QED
  BY <1>1, <1>3, <1>4 DEF p, Good, Marked

(* An error of the body: caught by it, by useTransaction() or by nobody.   *)
LEMMA ThrownGood ==
  ASSUME work \in Workloads, NEW f \in Flows, NEW o, NEW e \in Errors,
         Running(f, o), o.item = op[f].item,
         o.phase \in {"run", "call", "undo", "commit"},
         o.masked \/ o.root \in {None, e}
  PROVE  LET p == Thrown(f, o, e)
         IN /\ Good(f, p) /\ Marked(p, o) /\ ~p.ok
            /\ \/ /\ Call(f).tx /\ p.phase = "rollback" /\ p.s = o.s /\ p.late = None
                  /\ p.item = o.item /\ p.skipped = o.skipped /\ p.failed = o.failed
               \/ /\ Call(f).tx /\ p.phase = "undo" /\ p.s = o.s /\ p.late = None /\ p.void = o.void
                  /\ o.phase = "run" /\ Item(f) \in Caught
                  /\ p.item = o.item /\ p.skipped = o.skipped \cup {o.item} /\ p.failed = o.failed
               \/ ~Call(f).tx /\ p.phase \in {"begin", "done"} /\ p.failed
<1> USE BodyFacts DEF Running
<1> DEFINE q == Rooted(o, e)
<1>0. /\ q = [o EXCEPT !.root = q.root] /\ q \in Calls
      /\ q.root = IF o.root = None THEN e ELSE o.root
  BY RootedFacts
<1>1. e # None /\ o.item \in Nat
  BY Marks
<1>2. CASE o.phase = "run" /\ Item(f) \in Caught
  <2>1. Thrown(f, o, e) = [o EXCEPT !.phase = "undo", !.skipped = o.skipped \cup {o.item}]
    BY <1>2 DEF Thrown
  <2>2. Body(f)[o.item] \in Caught /\ Call(f).tx
    BY <1>2 DEF Item, Statements, Caught
  <2>3. o.skipped \cup {o.item} \subseteq 1 .. o.item /\ o.skipped \cup {o.item} \in SUBSET Nat
    BY <1>1 DEF Calls
  <2>4. o \in Calls /\ "undo" \in Holding
    BY DEF Holding
  <2>5. Thrown(f, o, e) \in Calls
    BY ONLY <2>1, <2>3, <2>4 DEF Calls
  <2> QED
    BY <1>2, <2>1, <2>2, <2>3, <2>5 DEF Calls, Holding, Good, Placed, Housed, Blamed, Marked
<1>3. CASE ~(o.phase = "run" /\ Item(f) \in Caught) /\ Call(f).tx
  <2>1. Thrown(f, o, e) = [q EXCEPT !.phase = "rollback", !.err = e]
    BY <1>3 DEF Thrown
  <2> HIDE DEF q
  <2>2. "rollback" \in Holding /\ e \in Errors
    BY DEF Holding
  <2>3. Thrown(f, o, e) \in Calls
    BY ONLY <1>0, <2>1, <2>2 DEF Calls
  <2> QED
    BY <1>0, <1>1, <1>3, <2>1, <2>3 DEF Calls, Holding, Good, Placed, Housed, Blamed, Marked
<1>4. CASE ~(o.phase = "run" /\ Item(f) \in Caught) /\ ~Call(f).tx
  <2>1. Thrown(f, o, e) = Settle(q, e)
    BY <1>4 DEF Thrown
  <2> HIDE DEF q
  <2>2. /\ q.item \in 1 .. Len(Body(f)) /\ q.skipped \subseteq 1 .. q.item /\ ~q.ok
        /\ q.s = None /\ ~q.void /\ q.masked = o.masked /\ Marked(q, o)
    BY <1>0, <1>4 DEF Calls, Marked
  <2>3. q.masked \/ q.root = e
    BY <1>0, <2>2
  <2> QED
    BY <1>0, <1>4, <2>1, <2>2, <2>3, SettleGood DEF Marked
<1> QED
  BY <1>2, <1>3, <1>4

-----------------------------------------------------------------------------
(* A statement: how it is answered, and what it leaves of session and call. *)

LEMMA OutcomeFacts ==
  ASSUME work \in Workloads, NEW s \in Sessions, NEW x \in Outcomes(s)
  PROVE  /\ x.applied \in BOOLEAN /\ (x.applied => ~Refuses(s))
         /\ \/ x.root = None /\ x.err = None /\ x.applied
            \/ x.root \in Errors /\ x.err \in Errors
<1>1. CASE x \in Answers(s)
  <2>1. Wrapped("aborted") \in Errors
    BY Marks DEF Causes
  <2> QED
    <3>1. CASE Refuses(s)
      <4>1. x = Outcome(FALSE, Wrapped("aborted"), Wrapped("aborted"))
        BY <1>1, <3>1 DEF Answers
      <4> QED
        BY <2>1, <4>1 DEF Outcome
    <3>2. CASE ~Refuses(s)
      <4>1. x = Outcome(TRUE, None, None)
        BY <1>1, <3>2 DEF Answers
      <4> QED
        BY <3>2, <4>1 DEF Outcome
    <3> QED
      BY <3>1, <3>2
<1>2. /\ \A y \in Fails(s) : /\ y.applied \in BOOLEAN /\ y.root \in Errors /\ y.err \in Errors
                             /\ ~Refuses(s)
  <2>1. \A c \in driver.faults : c \in Causes
    BY DriverFacts DEF Causes, Coded, Worded
  <2>2. \A c \in driver.faults : Wrapped(c) \in Errors
    BY <2>1, Marks
  <2> SUFFICES ASSUME NEW y \in Fails(s)
               PROVE  y.applied \in BOOLEAN /\ y.root \in Errors /\ y.err \in Errors /\ ~Refuses(s)
    OBVIOUS
  <2>3. ~Refuses(s)
    BY DEF Fails
  <2>4. PICK c \in driver.faults, a \in BOOLEAN : y = Outcome(a, Wrapped(c), Wrapped(c))
    BY <2>3 DEF Fails
  <2> QED
    BY <2>2, <2>3, <2>4 DEF Outcome
<1>3. CASE x \in Fails(s)
  BY <1>2, <1>3
<1>4. CASE x \in intercept(s)
  <2>1. Wrapped("hook") \in Errors /\ Wrapped("silent") \in Errors
    BY Marks DEF Causes, Worded
  <2> QED
    <3>1. CASE \E a \in {FALSE, ~Refuses(s)} : x = Outcome(a, Wrapped("hook"), Wrapped("hook"))
      <4>1. PICK a \in {FALSE, ~Refuses(s)} : x = Outcome(a, Wrapped("hook"), Wrapped("hook"))
        BY <3>1
      <4>2. x.applied = a /\ x.root = Wrapped("hook") /\ x.err = Wrapped("hook")
        BY <4>1 DEF Outcome
      <4> QED
        BY <2>1, <4>2 DEF Refuses
    <3>2. CASE \E y \in Fails(s) : x = Outcome(y.applied, y.root, Wrapped("silent"))
      <4>1. PICK y \in Fails(s) : x = Outcome(y.applied, y.root, Wrapped("silent"))
        BY <3>2
      <4>2. x.applied = y.applied /\ x.root = y.root /\ x.err = Wrapped("silent")
        BY <4>1 DEF Outcome
      <4> QED
        BY <1>2, <2>1, <4>2
    <3> QED
      BY <1>4, <3>1, <3>2 DEF intercept
<1> QED
  BY <1>1, <1>3, <1>4 DEF Outcomes

(* A failed statement may end or abort the transaction of its session; the *)
(* one connection of SQLite and D1 stays as it is.                         *)
LEMMA AfterFacts ==
  ASSUME work \in Workloads, NEW f \in Flows, op[f] \in Calls, NEW s \in Sessions,
         NEW x \in Outcomes(s), NEW ss \in Connections
  PROVE  LET a == After(ss, f, x)
         IN /\ a \in Connections
            /\ \/ a = ss
               \/ /\ x.err # None /\ ~driver.shared /\ driver.aborts /\ ss.open
                  /\ a = [ss EXCEPT !.aborted = TRUE]
               \/ /\ x.err # None /\ ~driver.shared
                  /\ a.pending = Zero /\ a.saved = None /\ a.closing = None
                  /\ ~a.open /\ ~a.aborted /\ (a.dead => op[f].s # None)
<1>1. Clean \in Connections /\ [Clean EXCEPT !.dead = op[f].s # None] \in Connections
  BY DEF Clean, Connections, Zero, Amounts
<1>2. /\ x.applied \in BOOLEAN
      /\ \/ x.root = None /\ x.err = None /\ x.applied
         \/ x.root \in Errors /\ x.err \in Errors /\ x.err # None
  BY OutcomeFacts, Marks
<1>3. CASE x.root # None /\ x.root.cause \in Lost /\ ~driver.shared
  <2>1. After(ss, f, x) = [Clean EXCEPT !.dead = op[f].s # None]
    BY <1>3 DEF After
  <2> QED
    BY <1>1, <1>2, <1>3, <2>1 DEF Clean
<1>4. CASE /\ ~(x.root # None /\ x.root.cause \in Lost /\ ~driver.shared)
           /\ x.root # None /\ x.root.cause = "deadlock" /\ driver.victim
  <2>1. After(ss, f, x) = Clean
    BY <1>4 DEF After
  <2> QED
    BY <1>1, <1>2, <1>4, <2>1, DriverFacts DEF Clean
<1>5. CASE /\ ~(x.root # None /\ x.root.cause \in Lost /\ ~driver.shared)
           /\ ~(x.root # None /\ x.root.cause = "deadlock" /\ driver.victim)
           /\ ~x.applied /\ driver.aborts /\ ss.open /\ x.root.cause # "hook"
  <2>1. After(ss, f, x) = [ss EXCEPT !.aborted = TRUE]
    BY <1>5 DEF After
  <2> QED
    BY <1>2, <1>5, <2>1, DriverFacts DEF Connections
<1>6. CASE /\ ~(x.root # None /\ x.root.cause \in Lost /\ ~driver.shared)
           /\ ~(x.root # None /\ x.root.cause = "deadlock" /\ driver.victim)
           /\ ~(~x.applied /\ driver.aborts /\ ss.open /\ x.root.cause # "hook")
  BY <1>6 DEF After
<1> QED
  BY <1>3, <1>4, <1>5, <1>6

(* The other calls stand still, or are struck.                             *)
Stand(f) == \A g \in Flows \ {f} : \/ op'[g] = op[g]
                                   \/ op'[g] = [op[g] EXCEPT !.struck = TRUE]

LEMMA MeetsFacts ==
  ASSUME NEW g \in Flows, op[g] \in Calls, NEW s, work \in Workloads
  PROVE  IF g \in Holders(s) /\ ~driver.shared THEN Meets(g, s) = [op[g] EXCEPT !.struck = TRUE]
         ELSE Meets(g, s) = op[g]
BY DriverFacts DEF Meets, Calls

(* A call sends a statement when it runs an item, or the second of a CALL. *)
Sends(f) == /\ op[f].phase \in {"run", "call"}
            /\ Running(f, op[f]) /\ op[f].root = None

LEMMA ExecuteFlow ==
  ASSUME TypeInv, NEW f \in Flows, NEW s \in Sessions, NEW x \in Outcomes(s), NEW n,
         Sends(f), Execute(f, s, x, n)
  PROVE  /\ op' \in [Flows -> Calls] /\ Stand(f) /\ Good(f, op'[f])
         /\ op'[f].unsure = (op[f].unsure \/ ((~sessions[s].open \/ Item(f) = "attempt") /\ x.err # None /\ x.applied))
         /\ op'[f].joined = (op[f].joined \/ (sessions[s].open /\ op[f].s = None /\ x.applied))
         /\ op'[f].struck = op[f].struck
         /\ \/ /\ x.err = None /\ x.applied
               /\ op'[f].s = op[f].s /\ op'[f].skipped = op[f].skipped
               /\ op'[f].failed = op[f].failed /\ op'[f].late = None /\ op'[f].void = op[f].void
               /\ \/ /\ op[f].item < Len(Body(f)) /\ Call(f).tx
                     /\ op'[f].phase = "run" /\ op'[f].item = op[f].item + 1 /\ ~op'[f].ok
                  \/ /\ op[f].item = Len(Body(f)) /\ Call(f).tx
                     /\ op'[f].phase = "commit" /\ op'[f].item = op[f].item /\ ~op'[f].ok
                  \/ /\ op[f].item = Len(Body(f)) /\ ~Call(f).tx
                     /\ op'[f].phase = "done" /\ op'[f].item = op[f].item /\ op'[f].ok
            \/ /\ x.err # None /\ ~op'[f].ok
               /\ \/ /\ Call(f).tx /\ op'[f].phase = "rollback" /\ op'[f].s = op[f].s
                     /\ op'[f].late = None /\ op'[f].item = op[f].item
                     /\ op'[f].skipped = op[f].skipped /\ op'[f].failed = op[f].failed
                  \/ /\ Call(f).tx /\ op'[f].phase = "undo" /\ op'[f].s = op[f].s /\ op'[f].void = op[f].void
                     /\ op[f].phase = "run" /\ Item(f) \in Caught
                     /\ op'[f].late = None /\ op'[f].item = op[f].item
                     /\ op'[f].skipped = op[f].skipped \cup {op[f].item}
                     /\ op'[f].failed = op[f].failed
                  \/ ~Call(f).tx /\ op'[f].phase \in {"begin", "done"} /\ op'[f].failed
<1> USE DEF TypeInv
<1> DEFINE joins == sessions[s].open
           o == [op[f] EXCEPT !.joined = @ \/ (joins /\ op[f].s = None /\ x.applied),
                              !.unsure = @ \/ ((~joins \/ Item(f) = "attempt") /\ x.err # None /\ x.applied)]
           q == [Rooted(o, x.root) EXCEPT !.masked = @ \/ x.err # x.root]
<1>1. /\ x.applied \in BOOLEAN
      /\ \/ x.root = None /\ x.err = None /\ x.applied
         \/ x.root \in Errors /\ x.err \in Errors /\ x.err # None
  BY OutcomeFacts, Marks
<1>2. joins \in BOOLEAN
  BY DEF Connections
<1>3. /\ Running(f, o) /\ o.root = None /\ o.phase = op[f].phase /\ o.item = op[f].item
      /\ o.s = op[f].s /\ o.skipped = op[f].skipped /\ o.failed = op[f].failed
      /\ o.struck = op[f].struck
      /\ o.void = op[f].void
      /\ o.unsure = (op[f].unsure \/ ((~joins \/ Item(f) = "attempt") /\ x.err # None /\ x.applied))
      /\ o.joined = (op[f].joined \/ (joins /\ op[f].s = None /\ x.applied))
  <2> DEFINE j == op[f].joined \/ (joins /\ op[f].s = None /\ x.applied)
             u == op[f].unsure \/ ((~joins \/ Item(f) = "attempt") /\ x.err # None /\ x.applied)
  <2>1. j \in BOOLEAN /\ u \in BOOLEAN
    BY <1>1, <1>2 DEF Calls
  <2>2. o = [op[f] EXCEPT !.joined = j, !.unsure = u]
    OBVIOUS
  <2> HIDE DEF j, u, o
  <2>3. /\ Running(f, o) /\ o.root = None /\ o.phase = op[f].phase /\ o.item = op[f].item
        /\ o.s = op[f].s /\ o.skipped = op[f].skipped /\ o.failed = op[f].failed
        /\ o.struck = op[f].struck /\ o.void = op[f].void /\ o.unsure = u /\ o.joined = j
    BY <2>1, <2>2 DEF Sends, Running, Calls
  <2> QED
    BY <2>3 DEF j, u
<1>4. op' = [g \in Flows |-> IF g # f THEN Meets(g, s)
                             ELSE IF x.err = None THEN Next1(f, o) ELSE Thrown(f, q, x.err)]
  BY DEF Execute
<1>5. \A g \in Flows \ {f} : op'[g] = Meets(g, s)
  BY <1>4
<1>6. Stand(f) /\ \A g \in Flows \ {f} : op'[g] \in Calls
  <2>1. ASSUME NEW g \in Flows \ {f}
        PROVE  /\ op'[g] = op[g] \/ op'[g] = [op[g] EXCEPT !.struck = TRUE]
               /\ op'[g] \in Calls
    <3>1. op[g] \in Calls /\ [op[g] EXCEPT !.struck = TRUE] \in Calls
      BY DEF Calls
    <3>2. op'[g] = Meets(g, s)
      BY <1>5
    <3> QED
      BY <3>1, <3>2, MeetsFacts
  <2> QED
    BY <2>1 DEF Stand
<1>7. op'[f] = IF x.err = None THEN Next1(f, o) ELSE Thrown(f, q, x.err)
  BY <1>4
<1> HIDE DEF o, joins
<1>8. CASE x.err = None
  <2>1. op'[f] = Next1(f, o) /\ x.applied
    BY <1>1, <1>7, <1>8
  <2>2. op'[f] \in Calls
    BY <1>3, <2>1, NextGood DEF Good
  <2>3. op' \in [Flows -> Calls]
    BY <1>4, <1>6, <2>2
  <2> QED
    BY <1>1, <1>3, <1>6, <1>8, <2>1, <2>3, NextGood DEF Marked, joins
<1>9. CASE x.err # None
  <2>1. x.root \in Errors /\ x.err \in Errors
    BY <1>1, <1>9
  <2>2. o \in Calls /\ Rooted(o, x.root) = [o EXCEPT !.root = x.root]
    BY <1>3 DEF Rooted, Running
  <2>3. /\ Running(f, q) /\ q.phase = op[f].phase /\ q.item = op[f].item /\ q.s = op[f].s
        /\ q.skipped = op[f].skipped /\ q.failed = op[f].failed /\ Marked(q, o) /\ q.void = op[f].void
        /\ q.masked \/ q.root = x.err
    BY <1>3, <2>1, <2>2 DEF Running, Calls, Marked
  <2> HIDE DEF q
  <2>4. op'[f] = Thrown(f, q, x.err)
    BY <1>7, <1>9
  <2>5. q.phase \in {"run", "call", "undo", "commit"}
    BY <2>3 DEF Sends
  <2>6. /\ Good(f, op'[f]) /\ Marked(op'[f], q) /\ ~op'[f].ok
        /\ \/ /\ Call(f).tx /\ op'[f].phase = "rollback" /\ op'[f].s = q.s /\ op'[f].late = None
              /\ op'[f].item = q.item /\ op'[f].skipped = q.skipped /\ op'[f].failed = q.failed
           \/ /\ Call(f).tx /\ op'[f].phase = "undo" /\ op'[f].s = q.s /\ op'[f].late = None
              /\ q.phase = "run" /\ Item(f) \in Caught /\ op'[f].void = q.void
              /\ op'[f].item = q.item /\ op'[f].skipped = q.skipped \cup {q.item}
              /\ op'[f].failed = q.failed
           \/ ~Call(f).tx /\ op'[f].phase \in {"begin", "done"} /\ op'[f].failed
    BY <2>1, <2>3, <2>4, <2>5, ThrownGood
  <2>7. op' \in [Flows -> Calls]
    BY <1>4, <1>6, <2>6 DEF Good
  <2> QED
    BY <1>3, <1>6, <1>9, <2>3, <2>6, <2>7 DEF Marked, joins
<1> QED
  BY <1>8, <1>9

-----------------------------------------------------------------------------
(* What each of the other steps makes of the call's record. *)

(* The call starts over, or has been rejected.                             *)
Undone(f) == op'[f].phase \in {"begin", "done"} /\ op'[f].failed /\ ~op'[f].ok

Recorded(f) == op' \in [Flows -> Calls] /\ Stand(f) /\ Good(f, op'[f])

(* What FlowInv says of a call that is in the middle of its body.          *)
LEMMA AtWork ==
  ASSUME TypeInv, FlowInv, NEW f \in Flows, op[f].phase \in {"run", "call", "undo", "commit"}
  PROVE  /\ Running(f, op[f])
         /\ op[f].phase # "undo" => op[f].root = None
         /\ op[f].phase \in {"undo", "commit"} => Call(f).tx
         /\ Item(f) = "point" => Call(f).tx
<1>1. Placed(f, op[f]) /\ Housed(f, op[f]) /\ Blamed(op[f]) /\ op[f] \in Calls
  BY DEF TypeInv, FlowInv
<1>2. work \in Workloads
  BY DEF TypeInv
<1>3. Item(f) = "point" => Call(f).tx
  BY <1>1, <1>2, BodyFacts DEF Placed, Item, Statements
<1> QED
  BY <1>1, <1>2, <1>3, BodyFacts DEF Placed, Housed, Blamed, Running, Holding

(* Changing the record of one call alone.                                  *)
LEMMA OneMoves ==
  ASSUME TypeInv, NEW f \in Flows, NEW p, op' = [op EXCEPT ![f] = p], Good(f, p)
  PROVE  Recorded(f) /\ op'[f] = p
<1>1. op'[f] = p /\ \A g \in Flows \ {f} : op'[g] = op[g]
  BY DEF TypeInv
<1>2. op' \in [Flows -> Calls]
  BY DEF TypeInv, Good
<1> QED
  BY <1>1, <1>2 DEF Recorded, Stand

(* rollback() has been called, and the error goes to the strategy.         *)
LEMMA RolledBackFlow ==
  ASSUME TypeInv, FlowInv, NEW f \in Flows, op[f].phase = "rollback",
         NEW e \in {Raw("released"), None}
  PROVE  LET p == RolledBack(f, e)[f]
         IN /\ Good(f, p) /\ Marked(p, op[f])
            /\ p.phase \in {"begin", "done"} /\ p.failed /\ ~p.ok
            /\ RolledBack(f, e) = [op EXCEPT ![f] = p]
<1>1. /\ Placed(f, op[f]) /\ Housed(f, op[f]) /\ Blamed(op[f]) /\ op[f] \in Calls
      /\ work \in Workloads /\ op \in [Flows -> Calls]
  BY DEF TypeInv, FlowInv
<1>2. /\ op[f].item \in 1 .. Len(Body(f)) /\ op[f].skipped \subseteq 1 .. op[f].item
      /\ ~op[f].ok /\ Call(f).tx /\ op[f].err \in Errors /\ (op[f].void => driver.aborts)
      /\ op[f].masked \/ op[f].root = op[f].err
  BY <1>1, BodyFacts DEF Placed, Housed, Blamed, Calls
<1>3. CASE e = None
  <2>1. RolledBack(f, e) = [op EXCEPT ![f] = Settle(op[f], op[f].err)]
    BY <1>3 DEF RolledBack
  <2>2. RolledBack(f, e)[f] = Settle(op[f], op[f].err)
    BY <1>1, <2>1
  <2> QED
    BY <1>1, <1>2, <2>1, <2>2, SettleGood
<1>4. CASE e # None
  <2> DEFINE o == [op[f] EXCEPT !.masked = TRUE]
  <2>1. e \in Errors
    BY <1>4, Marks DEF Causes
  <2>2. RolledBack(f, e) = [op EXCEPT ![f] = Settle(o, e)]
    BY <1>4 DEF RolledBack
  <2>3. RolledBack(f, e)[f] = Settle(o, e)
    BY <1>1, <2>2
  <2>4. /\ o \in Calls /\ o.item = op[f].item /\ o.skipped = op[f].skipped /\ ~o.ok /\ o.masked
        /\ Marked(o, op[f]) /\ (o.void => driver.aborts)
    BY <1>1, <1>2 DEF Calls, Marked
  <2> HIDE DEF o
  <2>5. /\ Good(f, Settle(o, e)) /\ Marked(Settle(o, e), o)
        /\ Settle(o, e).phase \in {"begin", "done"} /\ Settle(o, e).failed /\ ~Settle(o, e).ok
    BY <1>1, <1>2, <2>1, <2>4, SettleGood
  <2> QED
    BY <2>2, <2>3, <2>4, <2>5 DEF Marked
<1> QED
  BY <1>3, <1>4

LEMMA BeginFlow ==
  ASSUME TypeInv, FlowInv, NEW f \in Flows, Begin(f)
  PROVE  /\ Recorded(f)
         /\ op'[f].unsure = op[f].unsure /\ op'[f].joined = op[f].joined
         /\ op[f].struck => op'[f].struck
         /\ \E s \in Free :
              /\ idle' = IF driver.shared THEN idle ELSE [idle EXCEPT ![s] = @ - 1]
              /\ \/ /\ ~driver.transacts \/ ~driver.shared \/ ~sessions[s].open
                    /\ stored' = IF sessions[s].open /\ driver.implicit THEN Sum2(stored, sessions[s].pending) ELSE stored
                    /\ sessions' = [sessions EXCEPT ![s] = Begun(s)]
                    /\ op'[f].phase = "run" /\ op'[f].s = s /\ op'[f].item = 1 /\ op'[f].skipped = {}
                    /\ op'[f].late = None /\ ~op'[f].ok /\ op'[f].failed = op[f].failed /\ ~op'[f].void
                    /\ driver.transacts =>
                         \A g \in Holders(s) : op[g].late = None => op'[g].struck /\ op'[f].struck
                 \/ driver.shared /\ Undone(f) /\ UNCHANGED <<sessions, stored>>
<1> USE DEF TypeInv
<1>0. /\ Placed(f, op[f]) /\ Housed(f, op[f]) /\ Blamed(op[f]) /\ op[f] \in Calls
      /\ op[f].phase = "begin" /\ Call(f).tx
  BY DEF FlowInv, Begin
<1>1. /\ op[f].item = 1 /\ op[f].skipped = {} /\ op[f].late = None /\ ~op[f].ok /\ op[f].root = None
      /\ ~op[f].void
      /\ 1 \in 1 .. Len(Body(f))
  BY <1>0, BodyFacts DEF Placed, Housed, Blamed
<1>2. PICK s \in Free :
         /\ idle' = IF driver.shared THEN idle ELSE [idle EXCEPT ![s] = @ - 1]
         /\ \/ /\ driver.transacts => ~sessions[s].open \/ ~driver.shared
               /\ stored' = IF sessions[s].open /\ driver.implicit THEN Sum2(stored, sessions[s].pending) ELSE stored
               /\ sessions' = [sessions EXCEPT ![s] = Begun(s)]
               /\ LET met == {g \in Holders(s) : op[g].late = None /\ driver.transacts}
                  IN op' = [g \in Flows |->
                              IF g = f THEN [op[f] EXCEPT !.phase = "run", !.s = s, !.struck = @ \/ met # {}]
                              ELSE IF g \in met THEN [op[g] EXCEPT !.struck = TRUE] ELSE op[g]]
            \/ /\ driver.shared
               /\ op' = [op EXCEPT ![f] = Settle(Rooted(@, Raw("nested")), Raw("nested"))]
               /\ UNCHANGED <<sessions, stored>>
  BY DEF Begin
<1>3. s \in Sessions
  BY BoundAssumption DEF Free, Shared
<1>4. CASE /\ driver.transacts => ~sessions[s].open \/ ~driver.shared
           /\ stored' = IF sessions[s].open /\ driver.implicit THEN Sum2(stored, sessions[s].pending) ELSE stored
           /\ sessions' = [sessions EXCEPT ![s] = Begun(s)]
           /\ LET met == {g \in Holders(s) : op[g].late = None /\ driver.transacts}
              IN op' = [g \in Flows |->
                          IF g = f THEN [op[f] EXCEPT !.phase = "run", !.s = s, !.struck = @ \/ met # {}]
                          ELSE IF g \in met THEN [op[g] EXCEPT !.struck = TRUE] ELSE op[g]]
  <2> DEFINE met == {g \in Holders(s) : op[g].late = None /\ driver.transacts}
  <2>1. op' = [g \in Flows |->
                 IF g = f THEN [op[f] EXCEPT !.phase = "run", !.s = s, !.struck = @ \/ met # {}]
                 ELSE IF g \in met THEN [op[g] EXCEPT !.struck = TRUE] ELSE op[g]]
    BY <1>4
  <2>2. \A g \in Holders(s) : op[g].late = None /\ driver.transacts => g \in met /\ met # {}
    OBVIOUS
  <2>3. Holders(s) \subseteq Flows /\ f \notin Holders(s)
    BY <1>0 DEF Holders
  <2> HIDE DEF met
  <2> DEFINE b == op[f].struck \/ met # {}
  <2>4. op'[f] = [op[f] EXCEPT !.phase = "run", !.s = s, !.struck = b] /\ b \in BOOLEAN
    BY <2>1
  <2>5. \A g \in Flows \ {f} : op'[g] = IF g \in met THEN [op[g] EXCEPT !.struck = TRUE] ELSE op[g]
    BY <2>1
  <2> HIDE DEF b
  <2>6. /\ op'[f] \in Calls /\ op'[f].phase = "run" /\ op'[f].s = s /\ op'[f].item = 1
        /\ op'[f].skipped = {} /\ op'[f].late = None /\ ~op'[f].ok /\ op'[f].failed = op[f].failed
        /\ op'[f].unsure = op[f].unsure /\ op'[f].joined = op[f].joined
        /\ op'[f].struck = b /\ op'[f].root = None /\ ~op'[f].void
    <3>1. op[f] \in Calls /\ "run" \in Holding /\ op[f].item = 1
      BY <1>0, <1>1 DEF Holding
    <3> QED
      BY ONLY <1>1, <1>3, <2>4, <3>1 DEF Calls
  <2>7. Good(f, op'[f])
    BY <1>0, <1>1, <1>3, <2>6 DEF Good, Placed, Housed, Blamed, Holding
  <2>8. ASSUME NEW g \in Flows \ {f}
        PROVE  /\ op'[g] \in Calls
               /\ op'[g] = op[g] \/ op'[g] = [op[g] EXCEPT !.struck = TRUE]
               /\ op[g].struck \/ g \in met => op'[g].struck
    BY <2>5 DEF Calls
  <2>9. Recorded(f)
    BY <2>1, <2>6, <2>7, <2>8 DEF Recorded, Stand
  <2> QED
    BY <1>2, <1>4, <2>2, <2>3, <2>6, <2>8, <2>9 DEF b
<1>5. CASE /\ driver.shared
           /\ op' = [op EXCEPT ![f] = Settle(Rooted(@, Raw("nested")), Raw("nested"))]
           /\ UNCHANGED <<sessions, stored>>
  <2> DEFINE o == Rooted(op[f], Raw("nested"))
  <2>1. Raw("nested") \in Errors
    BY Marks DEF Causes
  <2>2. o = [op[f] EXCEPT !.root = o.root] /\ o \in Calls /\ o.root = Raw("nested")
    BY <1>0, <1>1, <2>1, RootedFacts
  <2>3. op' = [op EXCEPT ![f] = Settle(o, Raw("nested"))]
    BY <1>5
  <2> HIDE DEF o
  <2>4. /\ o.item = 1 /\ o.skipped = {} /\ ~o.ok /\ ~o.void /\ Marked(o, op[f])
    BY <1>0, <1>1, <2>2 DEF Calls, Marked
  <2>5. /\ Good(f, Settle(o, Raw("nested"))) /\ Marked(Settle(o, Raw("nested")), o)
        /\ Settle(o, Raw("nested")).phase \in {"begin", "done"} /\ Settle(o, Raw("nested")).failed
        /\ ~Settle(o, Raw("nested")).ok
    BY <1>0, <1>1, <2>1, <2>2, <2>4, SettleGood
  <2>6. Recorded(f) /\ op'[f] = Settle(o, Raw("nested"))
    BY <2>3, <2>5, OneMoves
  <2> QED
    BY <1>2, <1>5, <2>4, <2>5, <2>6 DEF Undone, Marked
<1> QED
  BY <1>2, <1>4, <1>5

(* A failed BEGIN of a client that is not given back.                      *)
LEMMA BeginFailsFlow ==
  ASSUME TypeInv, FlowInv, NEW f \in Flows, BeginFails(f)
  PROVE  Recorded(f) /\ Undone(f) /\ Marked(op'[f], op[f])
<1> USE DEF TypeInv
<1> DEFINE o == Rooted(op[f], Raw("reset"))
           e == Raw("reset")
<1>1. /\ Placed(f, op[f]) /\ Housed(f, op[f]) /\ Blamed(op[f]) /\ op[f] \in Calls
      /\ op[f].phase = "begin" /\ Call(f).tx
      /\ op' = [op EXCEPT ![f] = Settle(o, e)]
  BY DEF FlowInv, BeginFails
<1>2. /\ op[f].item = 1 /\ op[f].skipped = {} /\ ~op[f].ok /\ op[f].root = None /\ ~op[f].void
      /\ 1 \in 1 .. Len(Body(f))
  BY <1>1, BodyFacts DEF Placed, Blamed
<1>3. e \in Errors
  BY Marks DEF Causes, Coded, Worded
<1>4. o = [op[f] EXCEPT !.root = o.root] /\ o \in Calls /\ o.root = e
  BY <1>1, <1>2, <1>3, RootedFacts
<1> HIDE DEF o, e
<1>5. o.item = 1 /\ o.skipped = {} /\ ~o.ok /\ ~o.void /\ Marked(o, op[f])
  BY <1>1, <1>2, <1>4 DEF Calls, Marked
<1>6. /\ Good(f, Settle(o, e)) /\ Marked(Settle(o, e), o)
      /\ Settle(o, e).phase \in {"begin", "done"} /\ Settle(o, e).failed /\ ~Settle(o, e).ok
  BY <1>1, <1>2, <1>3, <1>4, <1>5, SettleGood
<1>7. Recorded(f) /\ op'[f] = Settle(o, e)
  BY <1>1, <1>6, OneMoves
<1> QED
  BY <1>5, <1>6, <1>7 DEF Undone, Marked

(* A change of phase that nothing can go wrong with.                       *)
LEMMA PlainFlow ==
  ASSUME TypeInv, FlowInv, NEW f \in Flows, Plain(f)
  PROVE  /\ Recorded(f) /\ op'[f] = [op[f] EXCEPT !.phase = "run"]
         /\ op[f].phase = "begin" /\ ~Call(f).tx /\ ~op[f].ok
<1> USE DEF TypeInv
<1> DEFINE p == [op[f] EXCEPT !.phase = "run"]
<1>1. /\ Placed(f, op[f]) /\ Housed(f, op[f]) /\ Blamed(op[f]) /\ op[f] \in Calls
      /\ op[f].phase = "begin" /\ ~Call(f).tx /\ op' = [op EXCEPT ![f] = p]
  BY DEF FlowInv, Plain
<1>2. Good(f, p)
  BY <1>1, BodyFacts DEF Calls, Holding, Good, Placed, Housed, Blamed
<1> QED
  BY <1>1, <1>2, OneMoves DEF Placed

LEMMA CallFirstFlow ==
  ASSUME TypeInv, FlowInv, NEW f \in Flows, NEW s \in Sessions, op[f].phase = "run",
         \/ Item(f) = "inout" /\ driver.variables
         \/ Item(f) = "function" /\ driver.falls,
         op' = [g \in Flows |-> IF g = f THEN [op[f] EXCEPT !.phase = "call"] ELSE Meets(g, s)]
  PROVE  Recorded(f) /\ op'[f] = [op[f] EXCEPT !.phase = "call"]
<1> USE DEF TypeInv
<1>1. op[f] \in Calls /\ Running(f, op[f]) /\ op[f].root = None /\ Placed(f, op[f])
  BY AtWork DEF FlowInv
<1>2. op'[f] = [op[f] EXCEPT !.phase = "call"]
  OBVIOUS
<1>3. Good(f, op'[f])
  BY <1>1, <1>2 DEF Calls, Holding, Good, Placed, Housed, Blamed, Running, Item
<1>4. ASSUME NEW g \in Flows \ {f}
      PROVE  /\ op'[g] \in Calls
             /\ op'[g] = op[g] \/ op'[g] = [op[g] EXCEPT !.struck = TRUE]
  <2>1. op'[g] = Meets(g, s) /\ op[g] \in Calls
    OBVIOUS
  <2>2. [op[g] EXCEPT !.struck = TRUE] \in Calls
    BY <2>1 DEF Calls
  <2> QED
    BY <2>1, <2>2, MeetsFacts
<1> QED
  BY <1>2, <1>3, <1>4 DEF Recorded, Stand, Good

(* How a call goes on after an item, and how it ends it with an error.     *)
Continues(f) ==
  /\ op'[f].s = op[f].s /\ op'[f].failed = op[f].failed /\ op'[f].late = None /\ ~op'[f].ok
  /\ op'[f].skipped = op[f].skipped
  /\ \/ /\ op[f].item < Len(Body(f)) /\ op'[f].phase = "run" /\ op'[f].item = op[f].item + 1
     \/ /\ op[f].item = Len(Body(f)) /\ op'[f].phase = "commit" /\ op'[f].item = op[f].item

Fails1(f) ==
  /\ op'[f].s = op[f].s /\ op'[f].failed = op[f].failed /\ op'[f].late = None /\ ~op'[f].ok
  /\ op'[f].skipped = op[f].skipped /\ op'[f].item = op[f].item /\ op'[f].phase = "rollback"

LEMMA SavepointFlow ==
  ASSUME TypeInv, FlowInv, NEW f \in Flows, Savepoint(f)
  PROVE  /\ Recorded(f) /\ Marked(op'[f], op[f])
         /\ Call(f).tx /\ op[f].phase = "run" /\ Item(f) = "point" /\ op[f].s \in Sessions
         /\ \/ /\ Continues(f) /\ op'[f].void = op[f].void
               /\ sessions' = [sessions EXCEPT ![op[f].s].saved = sessions[op[f].s].pending]
            \/ Fails1(f) /\ UNCHANGED sessions
<1> USE DEF TypeInv
<1>1. /\ Call(f).tx /\ op[f].phase = "run" /\ Item(f) = "point" /\ Running(f, op[f])
      /\ op[f].root = None /\ op[f].s \in Sessions /\ op[f] \in Calls
  BY AtWork DEF Savepoint, Running
<1>2. CASE driver.savepoints /\ ~Refuses(op[f].s)
  <2>1. /\ op' = [op EXCEPT ![f] = Next1(f, op[f])]
        /\ sessions' = [sessions EXCEPT ![op[f].s].saved = sessions[op[f].s].pending]
    BY <1>2 DEF Savepoint
  <2>2. Good(f, Next1(f, op[f]))
    BY <1>1, NextGood
  <2>3. Recorded(f) /\ op'[f] = Next1(f, op[f])
    BY <2>1, <2>2, OneMoves
  <2>4. Marked(op'[f], op[f]) /\ Continues(f) /\ op'[f].void = op[f].void
    BY <1>1, <2>3, NextGood DEF Continues, Running
  <2> QED
    BY <1>1, <2>1, <2>3, <2>4
<1>3. CASE ~(driver.savepoints /\ ~Refuses(op[f].s))
  <2> DEFINE e == IF driver.savepoints THEN Raw("aborted") ELSE Raw("unsupported")
  <2>1. op' = [op EXCEPT ![f] = Thrown(f, op[f], e)] /\ UNCHANGED sessions
    BY <1>3 DEF Savepoint
  <2>2. e \in Errors
    BY Marks DEF Causes
  <2> HIDE DEF e
  <2>3. /\ Good(f, Thrown(f, op[f], e)) /\ Marked(Thrown(f, op[f], e), op[f])
        /\ LET p == Thrown(f, op[f], e)
           IN /\ p.phase = "rollback" /\ p.s = op[f].s /\ p.late = None /\ ~p.ok
              /\ p.item = op[f].item /\ p.skipped = op[f].skipped /\ p.failed = op[f].failed
    BY <1>1, <2>2, ThrownGood DEF Caught
  <2>4. Recorded(f) /\ op'[f] = Thrown(f, op[f], e)
    BY <2>1, <2>3, OneMoves
  <2> QED
    BY <1>1, <2>1, <2>3, <2>4 DEF Fails1
<1> QED
  BY <1>2, <1>3

LEMMA RollbackToFlow ==
  ASSUME TypeInv, FlowInv, NEW f \in Flows, RollbackTo(f)
  PROVE  /\ Recorded(f) /\ Marked(op'[f], op[f])
         /\ Call(f).tx /\ op[f].phase = "undo" /\ op[f].s \in Sessions
         /\ op[f].item \in op[f].skipped /\ Item(f) = "try"
         /\ LET ss == sessions[op[f].s]
            IN \/ /\ Continues(f) /\ ~op'[f].void /\ ss.saved # None /\ ~ss.dead
                  /\ sessions' = [sessions EXCEPT ![op[f].s].pending = ss.saved, ![op[f].s].aborted = FALSE]
               \/ Fails1(f) /\ UNCHANGED sessions
<1> USE DEF TypeInv
<1>1. /\ Call(f).tx /\ op[f].phase = "undo" /\ Running(f, op[f])
      /\ op[f].s \in Sessions /\ op[f] \in Calls /\ op[f].item \in op[f].skipped /\ Item(f) = "try"
  BY AtWork DEF RollbackTo, Running, FlowInv, Placed, Item
<1>2. CASE sessions[op[f].s].saved # None /\ ~sessions[op[f].s].dead
  <2> DEFINE o == [op[f] EXCEPT !.root = None, !.masked = FALSE, !.void = FALSE]
  <2>1. /\ op' = [op EXCEPT ![f] = Next1(f, o)]
        /\ sessions' = [sessions EXCEPT ![op[f].s].pending = sessions[op[f].s].saved,
                                        ![op[f].s].aborted = FALSE]
    BY <1>2 DEF RollbackTo
  <2>2. /\ Running(f, o) /\ o.root = None /\ Marked(o, op[f]) /\ o.item = op[f].item /\ o.s = op[f].s
        /\ o.skipped = op[f].skipped /\ o.failed = op[f].failed /\ ~o.void
    BY <1>1 DEF Running, Calls, Marked
  <2> HIDE DEF o
  <2>3. Good(f, Next1(f, o))
    BY <2>2, NextGood
  <2>4. Recorded(f) /\ op'[f] = Next1(f, o)
    BY <2>1, <2>3, OneMoves
  <2>5. Marked(op'[f], op[f]) /\ Continues(f) /\ ~op'[f].void
    BY <1>1, <2>2, <2>4, NextGood DEF Continues, Running, Marked
  <2> QED
    BY <1>1, <1>2, <2>1, <2>4, <2>5
<1>3. CASE ~(sessions[op[f].s].saved # None /\ ~sessions[op[f].s].dead)
  <2> DEFINE o == [op[f] EXCEPT !.masked = TRUE]
             e == Raw("aborted")
  <2>1. op' = [op EXCEPT ![f] = Thrown(f, o, e)] /\ UNCHANGED sessions
    BY <1>3 DEF RollbackTo
  <2>2. e \in Errors
    BY Marks DEF Causes
  <2>3. /\ Running(f, o) /\ o.masked /\ Marked(o, op[f]) /\ o.item = op[f].item /\ o.s = op[f].s
        /\ o.skipped = op[f].skipped /\ o.failed = op[f].failed /\ o.phase = "undo"
    BY <1>1 DEF Running, Calls, Marked
  <2> HIDE DEF o, e
  <2>4. /\ Good(f, Thrown(f, o, e)) /\ Marked(Thrown(f, o, e), o)
        /\ LET p == Thrown(f, o, e)
           IN /\ p.phase = "rollback" /\ p.s = o.s /\ p.late = None /\ ~p.ok
              /\ p.item = o.item /\ p.skipped = o.skipped /\ p.failed = o.failed
    BY <1>1, <2>2, <2>3, ThrownGood
  <2>5. Recorded(f) /\ op'[f] = Thrown(f, o, e)
    BY <2>1, <2>4, OneMoves
  <2> QED
    BY <1>1, <2>1, <2>3, <2>4, <2>5 DEF Fails1, Marked
<1> QED
  BY <1>2, <1>3

(* The body goes on after an error, without a savepoint.                   *)
LEMMA CatchFlow ==
  ASSUME TypeInv, FlowInv, NEW f \in Flows, Catch(f)
  PROVE  /\ Recorded(f) /\ Continues(f)
         /\ op'[f].unsure = op[f].unsure /\ op'[f].joined = op[f].joined
         /\ op'[f].struck = (op[f].struck \/ (driver.transacts /\ (~sessions[op[f].s].open \/ sessions[op[f].s].dead)))
         /\ op'[f].void = (op[f].void \/ (driver.aborts /\ sessions[op[f].s].aborted))
         /\ Call(f).tx /\ op[f].phase = "undo" /\ op[f].s \in Sessions
         /\ op[f].item \in op[f].skipped /\ Item(f) = "attempt"
<1> USE DEF TypeInv
<1>1. /\ Call(f).tx /\ op[f].phase = "undo" /\ Running(f, op[f])
      /\ op[f].s \in Sessions /\ op[f] \in Calls /\ op[f].item \in op[f].skipped /\ Item(f) = "attempt"
  BY AtWork DEF Catch, Running, FlowInv, Placed, Item
<1>2. driver.aborts \in BOOLEAN /\ driver.transacts \in BOOLEAN /\ sessions[op[f].s] \in Connections
  BY <1>1, DriverFacts
<1> DEFINE v == op[f].void \/ (driver.aborts /\ sessions[op[f].s].aborted)
           k == op[f].struck \/ (driver.transacts /\ (~sessions[op[f].s].open \/ sessions[op[f].s].dead))
           o == [op[f] EXCEPT !.root = None, !.masked = FALSE, !.void = v, !.struck = k]
<1>3. op' = [op EXCEPT ![f] = Next1(f, o)]
  <2>1. op' = [op EXCEPT ![f] = Next1(f, Swallowed(op[f], sessions[op[f].s]))]
    BY <1>1 DEF Catch
  <2>2. Swallowed(op[f], sessions[op[f].s]) = o
    BY Zenon DEF Swallowed
  <2> QED
    BY <2>1, <2>2
<1>4. v \in BOOLEAN /\ k \in BOOLEAN /\ (v => driver.aborts)
  BY <1>1, <1>2 DEF Connections, Calls, Running
<1> HIDE DEF v, k
<1>5. /\ Running(f, o) /\ o.root = None /\ o.item = op[f].item /\ o.s = op[f].s
      /\ o.skipped = op[f].skipped /\ o.failed = op[f].failed /\ o.void = v /\ o.struck = k
      /\ o.unsure = op[f].unsure /\ o.joined = op[f].joined
  BY <1>1, <1>4 DEF Running, Calls
<1> HIDE DEF o
<1>6. Good(f, Next1(f, o))
  BY <1>5, NextGood
<1>7. Recorded(f) /\ op'[f] = Next1(f, o)
  BY <1>3, <1>6, OneMoves
<1>8. /\ Continues(f) /\ op'[f].void = v /\ op'[f].struck = k
      /\ op'[f].unsure = op[f].unsure /\ op'[f].joined = op[f].joined
  BY <1>1, <1>5, <1>7, NextGood DEF Continues, Running, Marked
<1> QED
  BY <1>1, <1>7, <1>8 DEF v, k

(* After a failed commit() the client has gone back already.               *)
Later(p, l, b) == [p EXCEPT !.late = l, !.unsure = b]

LEMMA LateGood ==
  ASSUME NEW f \in Flows, NEW p, Good(f, p), p.phase = "rollback", ~p.ok,
         NEW l \in {"gone", "there"}, NEW b \in BOOLEAN
  PROVE  LET q == Later(p, l, b)
         IN /\ Good(f, q) /\ q.phase = "rollback" /\ ~q.ok /\ q.late = l /\ q.unsure = b
            /\ q.s = p.s /\ q.struck = p.struck /\ q.joined = p.joined
            /\ q.item = p.item /\ q.skipped = p.skipped /\ q.failed = p.failed
BY DEF Later, Good, Calls, Placed, Housed, Blamed

FailedLate(f) ==
  /\ op'[f].phase = "rollback" /\ ~op'[f].ok /\ op'[f].late # None
  /\ op'[f].s = op[f].s /\ op'[f].struck = op[f].struck /\ op'[f].joined = op[f].joined
  /\ op'[f].item = op[f].item /\ op'[f].skipped = op[f].skipped /\ op'[f].failed = op[f].failed

Resolved(f) == op'[f] = [op[f] EXCEPT !.phase = "done", !.ok = TRUE]

LEMMA ResolvedGood ==
  ASSUME TypeInv, FlowInv, NEW f \in Flows, op[f].phase = "commit"
  PROVE  Good(f, [op[f] EXCEPT !.phase = "done", !.ok = TRUE])
<1>1. /\ Placed(f, op[f]) /\ Housed(f, op[f]) /\ Blamed(op[f]) /\ op[f] \in Calls
      /\ Running(f, op[f]) /\ Call(f).tx
  BY AtWork DEF TypeInv, FlowInv
<1> QED
  BY <1>1 DEF Running, Calls, Holding, Good, Placed, Housed, Blamed

LEMMA CommitFlow ==
  ASSUME TypeInv, FlowInv, NEW f \in Flows, Commit(f)
  PROVE  /\ Recorded(f) /\ Running(f, op[f]) /\ Call(f).tx /\ op[f].phase = "commit"
         /\ op'[f].unsure = op[f].unsure
         /\ LET ss == sessions[op[f].s]
            IN IF ss.dead \/ NoneOpen(op[f].s) \/ ReleaseThrows(op[f].s) THEN FailedLate(f)
               ELSE Resolved(f)
<1> USE DEF TypeInv
<1>1. /\ Call(f).tx /\ op[f].phase = "commit" /\ Running(f, op[f]) /\ op[f].root = None
      /\ op[f] \in Calls
  BY AtWork DEF Commit, Running
<1> DEFINE thrown == sessions[op[f].s].dead \/ NoneOpen(op[f].s) \/ ReleaseThrows(op[f].s)
<1>2. CASE ~thrown
  <2>1. op' = [op EXCEPT ![f] = [op[f] EXCEPT !.phase = "done", !.ok = TRUE]]
    BY <1>2 DEF Commit
  <2>2. Recorded(f) /\ Resolved(f)
    BY <1>1, <2>1, ResolvedGood, OneMoves DEF Resolved
  <2> QED
    BY <1>1, <1>2, <2>2 DEF Resolved, Calls
<1>3. CASE thrown
  <2> DEFINE p == Thrown(f, op[f], Raw("released"))
             l == IF sessions[op[f].s].dead THEN "gone" ELSE "there"
  <2>1. op' = [op EXCEPT ![f] = [p EXCEPT !.late = l]]
    BY <1>3 DEF Commit
  <2>2. Raw("released") \in Errors /\ l \in {"gone", "there"} /\ l # None
    BY Marks DEF Causes
  <2>3. /\ Good(f, p) /\ Marked(p, op[f]) /\ p.phase = "rollback" /\ p.s = op[f].s /\ ~p.ok
        /\ p.item = op[f].item /\ p.skipped = op[f].skipped /\ p.failed = op[f].failed
    BY <1>1, <2>2, ThrownGood
  <2> HIDE DEF p, l
  <2> DEFINE q == Later(p, l, p.unsure)
  <2>4. [p EXCEPT !.late = l] = q /\ p.unsure \in BOOLEAN
    BY <2>3 DEF Good, Calls, Later
  <2>5. /\ Good(f, q) /\ q.phase = "rollback" /\ ~q.ok /\ q.late = l /\ q.unsure = p.unsure
        /\ q.s = p.s /\ q.struck = p.struck /\ q.joined = p.joined
        /\ q.item = p.item /\ q.skipped = p.skipped /\ q.failed = p.failed
    BY <2>2, <2>3, <2>4, LateGood
  <2> HIDE DEF q
  <2>6. Recorded(f) /\ op'[f] = q
    <3>1. op' = [op EXCEPT ![f] = q]
      BY <2>1, <2>4
    <3> QED
      BY <2>5, <3>1, OneMoves
  <2> QED
    BY <1>1, <1>3, <2>2, <2>3, <2>5, <2>6 DEF FailedLate, Marked
<1> QED
  BY <1>2, <1>3

LEMMA CommitFailsFlow ==
  ASSUME TypeInv, FlowInv, NEW f \in Flows, CommitFails(f)
  PROVE  /\ Recorded(f) /\ Running(f, op[f]) /\ Call(f).tx /\ op[f].phase = "commit"
         /\ FailedLate(f) /\ (op[f].unsure => op'[f].unsure)
         /\ idle' = Released(op[f].s)
         /\ \/ /\ op'[f].unsure
               /\ sessions[op[f].s].open /\ ~sessions[op[f].s].aborted
               /\ stored' = Sum2(stored, sessions[op[f].s].pending)
               /\ sessions' = [sessions EXCEPT ![op[f].s] = Clean]
            \/ /\ stored' = stored
               /\ sessions' = IF driver.shared THEN sessions ELSE [sessions EXCEPT ![op[f].s] = Clean]
<1> USE DEF TypeInv
<1>1. /\ Call(f).tx /\ op[f].phase = "commit" /\ Running(f, op[f]) /\ op[f].root = None
      /\ op[f] \in Calls
  BY AtWork DEF CommitFails, Running
<1>2. PICK c \in driver.faults, happened \in BOOLEAN :
        /\ happened => c \in Lost /\ sessions[op[f].s].open /\ ~sessions[op[f].s].aborted
        /\ stored' = IF happened THEN Sum2(stored, sessions[op[f].s].pending) ELSE stored
        /\ sessions' = IF driver.shared /\ ~happened THEN sessions
                       ELSE [sessions EXCEPT ![op[f].s] = Clean]
        /\ idle' = Released(op[f].s)
        /\ LET thrown == Thrown(f, op[f], IF ReleaseThrows(op[f].s) THEN Raw("released") ELSE Raw(c))
           IN op' = [op EXCEPT ![f] = [thrown EXCEPT !.late = IF c \in Lost THEN "gone" ELSE "there",
                                                     !.unsure = thrown.unsure \/ happened]]
  BY DEF CommitFails
<1> DEFINE e == IF ReleaseThrows(op[f].s) THEN Raw("released") ELSE Raw(c)
           l == IF c \in Lost THEN "gone" ELSE "there"
           p == Thrown(f, op[f], e)
<1>3. e \in Errors /\ l \in {"gone", "there"} /\ l # None
  <2>1. c \in Causes /\ "released" \in Causes
    BY DriverFacts DEF Causes, Coded, Worded
  <2> QED
    BY <2>1, Marks
<1> HIDE DEF e, l
<1>4. /\ Good(f, p) /\ Marked(p, op[f]) /\ p.phase = "rollback" /\ p.s = op[f].s /\ ~p.ok
      /\ p.item = op[f].item /\ p.skipped = op[f].skipped /\ p.failed = op[f].failed
  BY <1>1, <1>3, ThrownGood
<1>5. op' = [op EXCEPT ![f] = Later(p, l, p.unsure \/ happened)]
  BY <1>2 DEF e, l, Later
<1> HIDE DEF p
<1> DEFINE b == p.unsure \/ happened
           q == Later(p, l, b)
<1>6. b \in BOOLEAN /\ p.unsure = op[f].unsure
  BY <1>4 DEF Good, Calls, Marked
<1> HIDE DEF b
<1>7. /\ Good(f, q) /\ q.phase = "rollback" /\ ~q.ok /\ q.late = l /\ q.unsure = b
      /\ q.s = p.s /\ q.struck = p.struck /\ q.joined = p.joined
      /\ q.item = p.item /\ q.skipped = p.skipped /\ q.failed = p.failed
  BY <1>3, <1>4, <1>6, LateGood
<1> HIDE DEF q
<1>8. Recorded(f) /\ op'[f] = q
  <2>1. op' = [op EXCEPT ![f] = q]
    BY <1>5 DEF q, b
  <2> QED
    BY <1>7, <2>1, OneMoves
<1>9. FailedLate(f) /\ op'[f].unsure = b
  BY <1>3, <1>4, <1>7, <1>8 DEF FailedLate, Marked
<1>10. CASE happened
  BY <1>1, <1>2, <1>6, <1>8, <1>9, <1>10 DEF b
<1>11. CASE ~happened
  BY <1>1, <1>2, <1>6, <1>8, <1>9, <1>11 DEF b
<1> QED
  BY <1>10, <1>11

LEMMA CommitSignalledFlow ==
  ASSUME TypeInv, FlowInv, NEW f \in Flows, CommitSignalled(f)
  PROVE  /\ Recorded(f) /\ Running(f, op[f]) /\ Call(f).tx /\ op[f].phase = "commit"
         /\ Resolved(f)
<1> USE DEF TypeInv
<1>1. /\ Call(f).tx /\ op[f].phase = "commit" /\ Running(f, op[f]) /\ op[f] \in Calls
  BY AtWork DEF CommitSignalled, Running
<1>2. op' = [op EXCEPT ![f] = [op[f] EXCEPT !.phase = "done", !.ok = TRUE]]
  BY DEF CommitSignalled
<1> QED
  BY <1>1, <1>2, ResolvedGood, OneMoves DEF Resolved

LEMMA RollbackFlow ==
  ASSUME TypeInv, FlowInv, NEW f \in Flows, Rollback(f)
  PROVE  /\ Recorded(f) /\ Undone(f) /\ Marked(op'[f], op[f])
         /\ Call(f).tx /\ op[f].s \in Sessions
<1> USE DEF TypeInv
<1> DEFINE s == op[f].s
           thrown == (sessions[s].dead /\ driver.lends) \/ NoneOpen(s) \/ ReleaseThrows(s)
           e == IF thrown THEN Raw("released") ELSE None
<1>1. op[f].phase = "rollback" /\ Housed(f, op[f]) /\ work \in Workloads
  BY DEF Rollback, FlowInv
<1>2. Call(f).tx /\ s \in Sessions
  BY <1>1, BodyFacts DEF Housed, Holding
<1>3. op' = RolledBack(f, e) /\ e \in {Raw("released"), None}
  BY DEF Rollback
<1> HIDE DEF e, s
<1>4. /\ Good(f, op'[f]) /\ Marked(op'[f], op[f])
      /\ op'[f].phase \in {"begin", "done"} /\ op'[f].failed /\ ~op'[f].ok
      /\ op' = [op EXCEPT ![f] = op'[f]]
  BY <1>1, <1>3, RolledBackFlow
<1> QED
  BY <1>2, <1>4, OneMoves DEF Undone, s

Reaches(f) == driver.shared \/ (driver.lends /\ op[f].late = "there")

LEMMA RollbackLateFlow ==
  ASSUME TypeInv, FlowInv, NEW f \in Flows, RollbackLate(f)
  PROVE  /\ Recorded(f) /\ Undone(f) /\ Marked(op'[f], op[f])
         /\ Call(f).tx /\ op[f].s \in Sessions
         /\ Reaches(f) => \A g \in Holders(op[f].s) \ {f} : op'[g].struck
<1> USE DEF TypeInv
<1> DEFINE s == op[f].s
           hit == IF Reaches(f) THEN Holders(s) \ {f} ELSE {}
           thrown == IF Reaches(f) THEN NoneOpen(s) \/ ReleaseThrows(s) ELSE driver.lends \/ driver.refuses
           e == IF thrown THEN Raw("released") ELSE None
           r == RolledBack(f, e)
<1>1. op[f].phase = "rollback" /\ Housed(f, op[f]) /\ work \in Workloads
  BY DEF RollbackLate, FlowInv
<1>2. Call(f).tx /\ s \in Sessions
  BY <1>1, BodyFacts DEF Housed, Holding
<1>3. op' = [g \in Flows |-> IF g \in hit THEN [op[g] EXCEPT !.struck = TRUE] ELSE r[g]]
  BY DEF RollbackLate, Reaches
<1>4. /\ e \in {Raw("released"), None} /\ f \notin hit /\ hit \subseteq Flows
      /\ Reaches(f) => hit = Holders(s) \ {f}
  BY DEF Holders
<1> HIDE DEF e, hit, s
<1>5. /\ Good(f, r[f]) /\ Marked(r[f], op[f])
      /\ r[f].phase \in {"begin", "done"} /\ r[f].failed /\ ~r[f].ok
      /\ r = [op EXCEPT ![f] = r[f]]
  BY <1>1, <1>4, RolledBackFlow
<1> HIDE DEF r
<1>6. op'[f] = r[f]
  BY <1>3, <1>4
<1>7. \A g \in Flows \ {f} : op'[g] = IF g \in hit THEN [op[g] EXCEPT !.struck = TRUE] ELSE op[g]
  BY <1>3, <1>5
<1>8. ASSUME NEW g \in Flows \ {f}
      PROVE  op'[g] \in Calls /\ (g \in hit => op'[g].struck)
  <2>1. op[g] \in Calls
    OBVIOUS
  <2>2. op'[g] = IF g \in hit THEN [op[g] EXCEPT !.struck = TRUE] ELSE op[g]
    BY <1>7
  <2> QED
    BY <2>1, <2>2 DEF Calls
<1>9. Recorded(f)
  BY <1>3, <1>5, <1>6, <1>7, <1>8 DEF Recorded, Stand, Good
<1> QED
  BY <1>2, <1>4, <1>5, <1>6, <1>8, <1>9 DEF Undone, s

LEMMA CommitLaterFlow ==
  ASSUME TypeInv, FlowInv, NEW s \in Sessions, CommitLater(s)
  PROVE  LET f == sessions[s].closing
         IN /\ f \in Flows
            /\ op' \in [Flows -> Calls]
            /\ op' = op \/ (op' = [op EXCEPT ![f].unsure = TRUE] /\ op'[f].unsure)
            /\ \A g \in Flows : Good(g, op'[g])
<1> USE DEF TypeInv
<1> DEFINE f == sessions[s].closing
<1>1. f \in Flows
  BY DEF CommitLater, Connections
<1>2. op' = op \/ op' = [op EXCEPT ![f].unsure = TRUE]
  BY DEF CommitLater
<1> HIDE DEF f
<1>3. ASSUME NEW g \in Flows
      PROVE  /\ op'[g] \in Calls
             /\ op'[g] = op[g] \/ (g = f /\ op'[g] = [op[g] EXCEPT !.unsure = TRUE])
  <2>1. op[g] \in Calls
    OBVIOUS
  <2>2. op'[g] = op[g] \/ (g = f /\ op'[g] = [op[g] EXCEPT !.unsure = TRUE])
    BY <1>1, <1>2
  <2> QED
    BY <2>1, <2>2 DEF Calls
<1>4. ASSUME NEW g \in Flows
      PROVE  Good(g, op'[g])
  <2>1. Placed(g, op[g]) /\ Housed(g, op[g]) /\ Blamed(op[g]) /\ op[g] \in Calls
    BY DEF FlowInv
  <2>2. CASE op'[g] = op[g]
    BY <2>1, <2>2 DEF Good
  <2>3. CASE op'[g] = [op[g] EXCEPT !.unsure = TRUE]
    <3>1. /\ op'[g].phase = op[g].phase /\ op'[g].attempt = op[g].attempt /\ op'[g].item = op[g].item
          /\ op'[g].s = op[g].s /\ op'[g].err = op[g].err /\ op'[g].ok = op[g].ok
          /\ op'[g].skipped = op[g].skipped /\ op'[g].root = op[g].root /\ op'[g].late = op[g].late
          /\ op'[g].masked = op[g].masked /\ op'[g].failed = op[g].failed /\ op'[g].void = op[g].void
      BY <2>1, <2>3 DEF Calls
    <3> QED
      BY <1>3, <2>1, <3>1 DEF Good, Placed, Housed, Blamed
  <2> QED
    BY <1>3, <2>2, <2>3
<1>5. op' \in [Flows -> Calls]
  BY <1>2, <1>3
<1> QED
  BY <1>1, <1>2, <1>4, <1>5 DEF f, Calls

(* Steps of a call keep FlowInv, if its own record is good.                *)
LEMMA FlowKept ==
  ASSUME TypeInv, FlowInv, work' = work, op' \in [Flows -> Calls],
         \A g \in Flows : Good(g, op'[g])
  PROVE  FlowInv'
<1>1. \A g \in Flows : Placed(g, op'[g]) /\ Housed(g, op'[g]) /\ Blamed(op'[g])
  BY DEF Good
<1> QED
  BY <1>1 DEF FlowInv, Placed, Housed, Blamed, Body, Call, driver

LEMMA StandGood ==
  ASSUME TypeInv, FlowInv, NEW f \in Flows, work' = work, Recorded(f)
  PROVE  FlowInv'
<1>1. ASSUME NEW g \in Flows
      PROVE  Good(g, op'[g])
  <2>1. Placed(g, op[g]) /\ Housed(g, op[g]) /\ Blamed(op[g]) /\ op[g] \in Calls
    BY DEF FlowInv, TypeInv
  <2>2. CASE g = f
    BY <2>2 DEF Recorded
  <2>3. CASE op'[g] = op[g]
    BY <2>1, <2>3 DEF Good
  <2>4. CASE op'[g] = [op[g] EXCEPT !.struck = TRUE]
    <3>1. /\ op'[g].phase = op[g].phase /\ op'[g].attempt = op[g].attempt /\ op'[g].item = op[g].item
          /\ op'[g].s = op[g].s /\ op'[g].err = op[g].err /\ op'[g].ok = op[g].ok
          /\ op'[g].skipped = op[g].skipped /\ op'[g].root = op[g].root /\ op'[g].late = op[g].late
          /\ op'[g].masked = op[g].masked /\ op'[g].failed = op[g].failed /\ op'[g].void = op[g].void
      BY <2>1, <2>4 DEF Calls
    <3> QED
      BY <2>1, <3>1 DEF Good, Placed, Housed, Blamed, Recorded
  <2> QED
    BY <2>2, <2>3, <2>4 DEF Recorded, Stand
<1> QED
  BY <1>1, FlowKept DEF Recorded

-----------------------------------------------------------------------------
(* Types of what the server holds. *)

LEMMA Amount ==
  /\ Zero \in Amounts
  /\ \A a, b \in Amounts : Sum2(a, b) \in Amounts
  /\ \A x \in Effects : [Zero EXCEPT ![x] = 1] \in Amounts
BY DEF Zero, Amounts, Sum2

LEMMA CleanTyped ==
  /\ Clean \in Connections
  /\ \A v \in Flows \cup {None} : [Clean EXCEPT !.var = v] \in Connections
BY Amount DEF Clean, Connections

LEMMA FreeTyped ==
  ASSUME TypeInv, NEW s \in Free
  PROVE  s \in Sessions /\ (driver.shared \/ idle[s] > 0)
BY BoundAssumption DEF Free, Shared

LEMMA LentTyped ==
  ASSUME TypeInv, NEW s \in Sessions
  PROVE  /\ Released(s) \in [Sessions -> Nat]
         /\ ~driver.shared /\ idle[s] > 0 => [idle EXCEPT ![s] = @ - 1] \in [Sessions -> Nat]
BY DEF TypeInv, Released

(* The session a statement is sent on.                                     *)
LEMMA ClientTyped ==
  ASSUME TypeInv, FlowInv, NEW f \in Flows, op[f].phase \in {"run", "call"}, NEW s \in Clients(f)
  PROVE  /\ s \in Sessions /\ Sends(f)
         /\ IF Call(f).tx THEN s = op[f].s
            ELSE op[f].s = None /\ (driver.shared \/ idle[s] > 0)
<1>1. Running(f, op[f]) /\ op[f].root = None /\ work \in Workloads
  BY AtWork DEF TypeInv
<1>2. None \notin Sessions
  BY Marks
<1> QED
  BY <1>1, <1>2, FreeTyped, BodyFacts DEF Clients, Sends, Running

LEMMA ExecuteTyped ==
  ASSUME TypeInv, FlowInv, NEW f \in Flows, op[f].phase \in {"run", "call"}, NEW s \in Clients(f),
         NEW x \in Outcomes(s), NEW n \in {0, op[f].item}, Execute(f, s, x, n)
  PROVE  TypeInv' /\ FlowInv'
<1>1. s \in Sessions /\ Sends(f) /\ work \in Workloads /\ work' = work /\ idle' = idle
  BY ClientTyped DEF Execute, TypeInv
<1>2. Recorded(f)
  BY <1>1, ExecuteFlow DEF Recorded
<1>3. FlowInv'
  BY <1>1, <1>2, StandGood
<1> DEFINE joins == sessions[s].open
           written == IF x.applied THEN [Zero EXCEPT ![<<f, n>>] = 1] ELSE Zero
           ss == IF joins THEN [sessions[s] EXCEPT !.pending = Sum2(@, written)] ELSE sessions[s]
<1>4. <<f, n>> \in Effects
  BY <1>1, BodyFacts, BoundAssumption DEF Sends, Running, Effects
<1>5. written \in Amounts
  BY <1>4, Amount
<1>6. /\ stored' = IF joins THEN stored ELSE Sum2(stored, written)
      /\ sessions' = [sessions EXCEPT ![s] = After(ss, f, x)]
      /\ faults' \in {faults, faults + 1}
  BY DEF Execute
<1> HIDE DEF written
<1>7. sessions[s] \in Connections
  BY <1>1 DEF TypeInv
<1>8. ss \in Connections
  BY <1>5, <1>7, Amount DEF Connections
<1> HIDE DEF ss
<1>9. After(ss, f, x) \in Connections
  <2>1. op[f] \in Calls
    BY DEF TypeInv
  <2> QED
    BY <1>1, <1>8, <2>1, AfterFacts
<1>10. sessions' \in [Sessions -> Connections] /\ stored' \in Amounts /\ faults' \in Nat
  <2>1. sessions \in [Sessions -> Connections] /\ stored \in Amounts /\ faults \in Nat
    BY DEF TypeInv
  <2>2. Sum2(stored, written) \in Amounts
    BY ONLY <1>5, <2>1, Amount
  <2>3. stored' \in Amounts
    BY ONLY <1>6, <2>1, <2>2
  <2>4. sessions' \in [Sessions -> Connections]
    BY ONLY <1>6, <1>9, <2>1
  <2>5. faults' \in Nat
    BY ONLY <1>6, <2>1
  <2> QED
    BY <2>3, <2>4, <2>5
<1> QED
  BY <1>1, <1>2, <1>3, <1>10 DEF TypeInv, Recorded

LEMMA TypeStep ==
  ASSUME TypeInv, FlowInv, [Next]_vars
  PROVE  TypeInv' /\ FlowInv'
<1> USE DEF TypeInv
<1>1. CASE UNCHANGED vars
  BY <1>1 DEF vars, FlowInv, Placed, Housed, Blamed, Body, Call, driver
<1>2. ASSUME NEW f \in Flows, Begin(f)
      PROVE  TypeInv' /\ FlowInv'
  <2>1. Recorded(f) /\ work' = work /\ faults' \in {faults, faults + 1}
    BY <1>2, BeginFlow DEF Begin
  <2>2. PICK s \in Free :
          /\ idle' = IF driver.shared THEN idle ELSE [idle EXCEPT ![s] = @ - 1]
          /\ \/ /\ stored' = IF sessions[s].open /\ driver.implicit THEN Sum2(stored, sessions[s].pending) ELSE stored
                /\ sessions' = [sessions EXCEPT ![s] = Begun(s)]
             \/ UNCHANGED <<sessions, stored>>
    BY <1>2, BeginFlow
  <2>3. s \in Sessions /\ idle' \in [Sessions -> Nat] /\ sessions[s] \in Connections
    BY <2>2, FreeTyped, LentTyped
  <2>4. /\ sessions[s].pending \in Amounts
        /\ Begun(s) \in Connections
    BY <2>3, Amount, DriverFacts DEF Connections, Begun
  <2>5. sessions' \in [Sessions -> Connections] /\ stored' \in Amounts
    BY <2>2, <2>3, <2>4, Amount
  <2> QED
    BY <2>1, <2>3, <2>5, StandGood DEF Recorded
<1>3. ASSUME NEW f \in Flows, BeginFails(f)
      PROVE  TypeInv' /\ FlowInv'
  <2>1. Recorded(f) /\ work' = work /\ faults' = faults + 1 /\ sessions' = sessions /\ stored' = stored
    BY <1>3, BeginFailsFlow DEF BeginFails
  <2>2. PICK s \in Free : idle' = IF driver.lends THEN [idle EXCEPT ![s] = @ - 1] ELSE idle
    BY <1>3 DEF BeginFails
  <2>3. idle' \in [Sessions -> Nat]
    BY <2>2, FreeTyped, LentTyped, DriverFacts
  <2> QED
    BY <2>1, <2>3, StandGood DEF Recorded
<1>4. ASSUME NEW f \in Flows, Plain(f)
      PROVE  TypeInv' /\ FlowInv'
  <2>1. Recorded(f) /\ UNCHANGED <<work, sessions, idle, stored, faults>>
    BY <1>4, PlainFlow DEF Plain
  <2> QED
    BY <2>1, StandGood DEF Recorded
<1>5. ASSUME NEW f \in Flows, Statement(f)
      PROVE  TypeInv' /\ FlowInv'
  BY <1>5, ExecuteTyped DEF Statement
<1>6. ASSUME NEW f \in Flows, CallFirst(f)
      PROVE  TypeInv' /\ FlowInv'
  <2>1. PICK s \in Clients(f) :
          IF Refuses(s) THEN \E x \in Answers(s) : Execute(f, s, x, op[f].item)
          ELSE /\ sessions' = [sessions EXCEPT ![s] =
                                 IF driver.variables THEN [@ EXCEPT !.var = f]
                                 ELSE [@ EXCEPT !.aborted = sessions[s].open /\ driver.aborts]]
               /\ op' = [g \in Flows |-> IF g = f THEN [op[f] EXCEPT !.phase = "call"] ELSE Meets(g, s)]
               /\ UNCHANGED <<work, idle, stored, faults>>
    BY <1>6 DEF CallFirst
  <2>2. op[f].phase = "run" /\ s \in Sessions
    BY <1>6, ClientTyped DEF CallFirst
  <2>3. CASE Refuses(s)
    BY <2>1, <2>2, <2>3, ExecuteTyped DEF Outcomes
  <2>4. CASE ~Refuses(s)
    <3>1. Recorded(f)
      BY <1>6, <2>1, <2>2, <2>4, CallFirstFlow DEF CallFirst
    <3>2. sessions[s] \in Connections
      BY <2>2
    <3>3. /\ [sessions[s] EXCEPT !.var = f] \in Connections
          /\ [sessions[s] EXCEPT !.aborted = sessions[s].open /\ driver.aborts] \in Connections
      BY <3>2, DriverFacts DEF Connections
    <3>4. sessions' \in [Sessions -> Connections]
      BY <2>1, <2>2, <2>4, <3>3
    <3> QED
      BY <2>1, <2>4, <3>1, <3>4, StandGood DEF Recorded
  <2> QED
    BY <2>3, <2>4
<1>7. ASSUME NEW f \in Flows, CallSecond(f)
      PROVE  TypeInv' /\ FlowInv'
  BY <1>7, ExecuteTyped DEF CallSecond
<1>8. ASSUME NEW f \in Flows, Savepoint(f)
      PROVE  TypeInv' /\ FlowInv'
  <2>1. /\ Recorded(f) /\ op[f].s \in Sessions /\ UNCHANGED <<work, idle, stored, faults>>
        /\ \/ sessions' = [sessions EXCEPT ![op[f].s].saved = sessions[op[f].s].pending]
           \/ sessions' = sessions
    BY <1>8, SavepointFlow DEF Savepoint
  <2>2. sessions' \in [Sessions -> Connections]
    BY <2>1 DEF Connections
  <2> QED
    BY <2>1, <2>2, StandGood DEF Recorded
<1>9. ASSUME NEW f \in Flows, RollbackTo(f)
      PROVE  TypeInv' /\ FlowInv'
  <2>1. /\ Recorded(f) /\ op[f].s \in Sessions /\ UNCHANGED <<work, idle, stored, faults>>
        /\ \/ /\ sessions[op[f].s].saved # None
              /\ sessions' = [sessions EXCEPT ![op[f].s].pending = sessions[op[f].s].saved,
                                              ![op[f].s].aborted = FALSE]
           \/ sessions' = sessions
    BY <1>9, RollbackToFlow DEF RollbackTo
  <2>2. sessions' \in [Sessions -> Connections]
    BY <2>1 DEF Connections
  <2> QED
    BY <2>1, <2>2, StandGood DEF Recorded
<1>10. ASSUME NEW f \in Flows, Commit(f)
       PROVE  TypeInv' /\ FlowInv'
  <2>1. Recorded(f) /\ op[f].s \in Sessions
    BY <1>10, CommitFlow DEF Running
  <2>2. /\ stored' = IF sessions[op[f].s].open /\ ~sessions[op[f].s].aborted
                     THEN Sum2(stored, sessions[op[f].s].pending) ELSE stored
        /\ sessions' = [sessions EXCEPT ![op[f].s] = [Clean EXCEPT !.var = sessions[op[f].s].var]]
        /\ idle' = Released(op[f].s) /\ work' = work /\ faults' = faults
    BY <1>10 DEF Commit
  <2>3. sessions[op[f].s].pending \in Amounts /\ sessions[op[f].s].var \in Flows \cup {None}
    BY <2>1 DEF Connections
  <2>4. sessions' \in [Sessions -> Connections] /\ idle' \in [Sessions -> Nat] /\ stored' \in Amounts
    BY <2>1, <2>2, <2>3, Amount, CleanTyped, LentTyped
  <2> QED
    BY <2>1, <2>2, <2>4, StandGood DEF Recorded
<1>11. ASSUME NEW f \in Flows, CommitFails(f)
       PROVE  TypeInv' /\ FlowInv'
  <2>1. /\ Recorded(f) /\ op[f].s \in Sessions /\ work' = work /\ faults' = faults + 1
        /\ idle' = Released(op[f].s)
        /\ stored' \in {stored, Sum2(stored, sessions[op[f].s].pending)}
        /\ sessions' \in {sessions, [sessions EXCEPT ![op[f].s] = Clean]}
    BY <1>11, CommitFailsFlow DEF CommitFails, Running
  <2>2. sessions[op[f].s].pending \in Amounts
    BY <2>1 DEF Connections
  <2>3. sessions' \in [Sessions -> Connections] /\ idle' \in [Sessions -> Nat] /\ stored' \in Amounts
    BY <2>1, <2>2, Amount, CleanTyped, LentTyped
  <2> QED
    BY <2>1, <2>3, StandGood DEF Recorded
<1>12. ASSUME NEW f \in Flows, CommitSignalled(f)
       PROVE  TypeInv' /\ FlowInv'
  <2>1. /\ Recorded(f) /\ op[f].s \in Sessions /\ UNCHANGED <<work, idle, stored, faults>>
        /\ sessions' = [sessions EXCEPT ![op[f].s].closing = f]
    BY <1>12, CommitSignalledFlow DEF CommitSignalled, Running
  <2>2. sessions' \in [Sessions -> Connections]
    BY <2>1 DEF Connections
  <2> QED
    BY <2>1, <2>2, StandGood DEF Recorded
<1>13. ASSUME NEW f \in Flows, Rollback(f)
       PROVE  TypeInv' /\ FlowInv'
  <2>1. /\ Recorded(f) /\ op[f].s \in Sessions /\ UNCHANGED <<work, stored, faults>>
        /\ sessions' = [sessions EXCEPT ![op[f].s] = Clean] /\ idle' = Released(op[f].s)
    BY <1>13, RollbackFlow DEF Rollback
  <2>2. sessions' \in [Sessions -> Connections] /\ idle' \in [Sessions -> Nat]
    BY <2>1, CleanTyped, LentTyped
  <2> QED
    BY <2>1, <2>2, StandGood DEF Recorded
<1>14. ASSUME NEW f \in Flows, RollbackLate(f)
       PROVE  TypeInv' /\ FlowInv'
  <2>1. /\ Recorded(f) /\ op[f].s \in Sessions /\ UNCHANGED <<work, stored, faults>>
        /\ sessions' \in {sessions, [sessions EXCEPT ![op[f].s] = Clean]}
        /\ idle' \in {idle, Released(op[f].s)}
    BY <1>14, RollbackLateFlow DEF RollbackLate
  <2>2. sessions' \in [Sessions -> Connections] /\ idle' \in [Sessions -> Nat]
    BY <2>1, CleanTyped, LentTyped
  <2> QED
    BY <2>1, <2>2, StandGood DEF Recorded
<1>15. ASSUME NEW s \in Sessions, CommitLater(s)
       PROVE  TypeInv' /\ FlowInv'
  <2>1. op' \in [Flows -> Calls] /\ \A g \in Flows : Good(g, op'[g])
    BY <1>15, CommitLaterFlow
  <2>2. /\ work' = work /\ faults' \in {faults, faults + 1}
        /\ stored' \in {stored, Sum2(stored, sessions[s].pending)}
        /\ sessions' = [sessions EXCEPT ![s] = Clean]
        /\ idle' = [idle EXCEPT ![s] = @ + 1]
    BY <1>15 DEF CommitLater
  <2>3. sessions[s].pending \in Amounts
    BY DEF Connections
  <2>4. sessions' \in [Sessions -> Connections] /\ idle' \in [Sessions -> Nat] /\ stored' \in Amounts
    BY <2>2, <2>3, Amount, CleanTyped
  <2> QED
    BY <2>1, <2>2, <2>4, FlowKept
<1>16. ASSUME NEW f \in Flows, Catch(f)
       PROVE  TypeInv' /\ FlowInv'
  <2>1. Recorded(f) /\ UNCHANGED <<work, sessions, idle, stored, faults>>
    BY <1>16, CatchFlow DEF Catch
  <2> QED
    BY <2>1, StandGood DEF Recorded
<1> QED
  BY <1>1, <1>2, <1>3, <1>4, <1>5, <1>6, <1>7, <1>8, <1>9, <1>10, <1>11, <1>12, <1>13, <1>14, <1>15, <1>16
     DEF Next

-----------------------------------------------------------------------------

LEMMA InitTyped ==
  ASSUME Init
  PROVE  TypeInv /\ FlowInv
<1> USE DEF Init
<1>1. work \in Workloads /\ \A f \in Flows : op[f] = Fresh
  OBVIOUS
<1>2. Fresh \in Calls
  BY DEF Fresh, Calls
<1>3. TypeInv
  BY <1>1, <1>2, Amount, CleanTyped DEF TypeInv
<1>4. ASSUME NEW f \in Flows
      PROVE  Placed(f, Fresh) /\ Housed(f, Fresh) /\ Blamed(Fresh)
  <2>1. 1 \in 1 .. Len(Body(f))
    BY <1>1, BodyFacts
  <2> QED
    BY <1>1, <2>1, BodyFacts DEF Fresh, Placed, Housed, Blamed, Holding
<1> QED
  BY <1>1, <1>3, <1>4 DEF FlowInv

(* A call's record is well formed in every reachable state: where it is in *)
(* its body, which session its transaction is given, and which error the   *)
(* catch of DefaultExecutionStrategy.execute() will be asked about.        *)
THEOREM CallsAreWellFormed == Spec => [](TypeInv /\ FlowInv)
<1>1. Init => TypeInv /\ FlowInv
  BY InitTyped
<1>2. TypeInv /\ FlowInv /\ [Next]_vars => TypeInv' /\ FlowInv'
  BY TypeStep
<1> QED
  BY <1>1, <1>2, PTL DEF Spec

(* executeResilient() and executeResilientTransaction() reject before the  *)
(* last retry only what is not transient, or what translate(), rollback(), *)
(* release() or a hook made unrecognisable.                                *)
THEOREM TransientErrorsAreRetried == Spec => []TransientIsRetried
<1>1. TypeInv /\ FlowInv => TransientIsRetried
  <2> SUFFICES ASSUME FlowInv, NEW f \in Flows, Done(f), ~op[f].ok, op[f].attempt <= MaxRetry, ~op[f].masked
               PROVE  ~op[f].root.coded /\ op[f].root.cause \notin Worded
    BY DEF TransientIsRetried
  <2> QED
    BY DEF FlowInv, Blamed, Done, isTransientError
<1> QED
  BY <1>1, CallsAreWellFormed, PTL

-----------------------------------------------------------------------------
(* What is stored or pending of a call. *)

Alike(a, b, f) == \A n \in 0 .. MaxBody : b[<<f, n>>] = a[<<f, n>>]

LEMMA HasAlike ==
  ASSUME NEW f, NEW a, NEW b, NEW D, Alike(a, b, f), Has(a, f, D)
  PROVE  Has(b, f, D)
BY DEF Alike, Has

LEMMA HasSum ==
  ASSUME NEW f \in Flows, NEW a \in Amounts, NEW b \in Amounts
  PROVE  /\ Has(b, f, {}) => Alike(a, Sum2(a, b), f)
         /\ \A D : Has(a, f, {}) /\ Has(b, f, D) => Has(Sum2(a, b), f, D)
         /\ Has(Zero, f, {})
<1>1. \A n \in 0 .. MaxBody : <<f, n>> \in Effects
  BY DEF Effects
<1>2. \A n \in 0 .. MaxBody : /\ Sum2(a, b)[<<f, n>>] = a[<<f, n>>] + b[<<f, n>>]
                              /\ a[<<f, n>>] \in Nat /\ b[<<f, n>>] \in Nat
                              /\ Zero[<<f, n>>] = 0
  BY <1>1 DEF Amounts, Sum2, Zero
<1> QED
  BY <1>2 DEF Has, Alike

(* One more write.                                                         *)
LEMMA HasOneMore ==
  ASSUME NEW f \in Flows, NEW n \in 0 .. MaxBody, NEW a \in Amounts
  PROVE  LET w == [Zero EXCEPT ![<<f, n>>] = 1]
         IN /\ \A g \in Flows \ {f} : Alike(a, Sum2(a, w), g)
            /\ \A D : Has(a, f, D) /\ n \notin D => Has(Sum2(a, w), f, D \cup {n})
<1> DEFINE w == [Zero EXCEPT ![<<f, n>>] = 1]
<1>1. \A g \in Flows, m \in 0 .. MaxBody : <<g, m>> \in Effects
  BY DEF Effects
<1>2. \A g \in Flows, m \in 0 .. MaxBody : w[<<g, m>>] = IF g = f /\ m = n THEN 1 ELSE 0
  BY <1>1 DEF Zero
<1> HIDE DEF w
<1>3. \A g \in Flows, m \in 0 .. MaxBody : /\ Sum2(a, w)[<<g, m>>] = a[<<g, m>>] + w[<<g, m>>]
                                           /\ a[<<g, m>>] \in Nat
  BY <1>1 DEF Amounts, Sum2
<1>4. \A g \in Flows \ {f} : Alike(a, Sum2(a, w), g)
  <2>1. ASSUME NEW g \in Flows \ {f}, NEW m \in 0 .. MaxBody
        PROVE  Sum2(a, w)[<<g, m>>] = a[<<g, m>>]
    <3>1. w[<<g, m>>] = 0
      BY <1>2
    <3>2. Sum2(a, w)[<<g, m>>] = a[<<g, m>>] + w[<<g, m>>] /\ a[<<g, m>>] \in Nat
      BY <1>3
    <3> QED
      BY <3>1, <3>2
  <2> QED
    BY <2>1 DEF Alike
<1>5. ASSUME NEW D, Has(a, f, D), n \notin D
      PROVE  Has(Sum2(a, w), f, D \cup {n})
  BY <1>2, <1>3, <1>5 DEF Has
<1> QED
  BY <1>4, <1>5 DEF w

LEMMA NothingMore ==
  ASSUME NEW f \in Flows, NEW a \in Amounts
  PROVE  Alike(a, Sum2(a, Zero), f)
BY HasSum, Amount

(* A session left clean holds nothing.                                     *)
LEMMA CleanAway ==
  ASSUME NEW f \in Flows, NEW s, NEW v,
         sessions'[s] \in {Clean, [Clean EXCEPT !.dead = v], [Clean EXCEPT !.var = v]}
  PROVE  Away(f, s)' /\ sessions'[s].closing = None /\ ~sessions'[s].open
<1>1. Has(Zero, f, {})
  BY HasSum, Amount
<1>2. sessions'[s].pending = Zero /\ sessions'[s].saved = None /\ sessions'[s].closing = None
      /\ ~sessions'[s].open
  BY DEF Clean
<1> QED
  BY <1>1, <1>2 DEF Away

-----------------------------------------------------------------------------
(* A step that is not the call's own. *)

(* The step leaves a session as it was, so far as g can tell; or the       *)
(* session held nothing of g, and holds nothing now.                       *)
Same(g, t) ==
  LET a == sessions[t]
      b == sessions'[t]
  IN /\ b.open = a.open /\ b.aborted = a.aborted /\ b.dead = a.dead /\ b.saved = a.saved
     /\ b.closing = a.closing /\ b.var = a.var /\ Alike(a.pending, b.pending, g)
     /\ idle[t] = 0 => idle'[t] = 0
     /\ \A h \in Holders(t)' : h \in Holders(t) /\ (op[h].late # None => op'[h].late # None)

Off(g, t) ==
  /\ Away(g, t)' /\ sessions[t].closing # g /\ sessions'[t].closing # g
  /\ ~(Working(g) /\ op[g].s = t)

LEMMA Unmoved ==
  ASSUME NEW g \in Flows, op'[g] = op[g], work' = work
  PROVE  /\ Did(g)' = Did(g) /\ Body(g)' = Body(g) /\ Call(g)' = Call(g) /\ driver' = driver
         /\ Item(g)' = Item(g) /\ Working(g)' = Working(g)
         /\ Clear(g)' => Clear(g)
         /\ \A t : g \in Holders(t)' <=> g \in Holders(t)
BY DEF Did, Body, Call, driver, Item, Working, Clear, Holders

LEMMA FrameLies ==
  ASSUME NEW g \in Flows, op'[g] = op[g], work' = work, NEW t \in Sessions, Lies(g, t), Same(g, t) \/ Off(g, t)
  PROVE  Lies(g, t)'
<1>1. CASE Same(g, t)
  <2>1. Away(g, t) => Away(g, t)'
    BY <1>1, HasAlike DEF Away, Same
  <2>2. Sole(g, t) => Sole(g, t)'
    BY <1>1 DEF Sole, Same
  <2>3. Has(sessions[t].pending, g, Did(g)) => Has(sessions'[t].pending, g, Did(g))
    BY <1>1, HasAlike DEF Same
  <2>4. /\ Did(g)' = Did(g) /\ driver' = driver /\ (g \in Holders(t)' <=> g \in Holders(t))
    BY Unmoved
  <2>5. /\ sessions'[t].closing = sessions[t].closing /\ sessions'[t].open = sessions[t].open
        /\ sessions'[t].aborted = sessions[t].aborted
    BY <1>1 DEF Same
  <2> QED
    BY <2>1, <2>2, <2>3, <2>4, <2>5 DEF Lies
<1>2. CASE Off(g, t)
  BY <1>2 DEF Off, Lies
<1> QED
  BY <1>1, <1>2

LEMMA FrameWorks ==
  ASSUME TypeInv, FlowInv, NEW g \in Flows, op'[g] = op[g], work' = work, Working(g), Works(g),
         NEW t \in Sessions, op[g].s = t, Same(g, t)
  PROVE  Works(g)'
<1>1. Sole(g, t) => Sole(g, t)'
  BY DEF Sole, Same
<1>2. \A D : Has(sessions[t].pending, g, D) => Has(sessions'[t].pending, g, D)
  BY HasAlike DEF Same
<1>3. Did(g)' = Did(g) /\ driver' = driver /\ Item(g)' = Item(g)
  BY Unmoved
<1>4. op'[g].s = t
  OBVIOUS
<1> QED
  BY <1>1, <1>2, <1>3, <1>4 DEF Works, Same

LEMMA Frame ==
  ASSUME TypeInv, FlowInv, NEW g \in Flows, op'[g] = op[g], work' = work,
         Whole(g), Clear(g)', Alike(stored, stored', g),
         driver.transacts => \A t \in Sessions : Same(g, t) \/ Off(g, t)
  PROVE  Whole(g)'
<1>1. /\ Clear(g) /\ Did(g)' = Did(g) /\ driver' = driver /\ Working(g)' = Working(g)
  BY Unmoved
<1>2. CASE ~driver.transacts
  <2>1. Has(stored, g, Did(g))
    BY <1>1, <1>2 DEF Whole
  <2> QED
    BY <1>1, <1>2, <2>1, HasAlike DEF Whole
<1>3. CASE driver.transacts
  <2>1. /\ Has(stored, g, IF ~op[g].ok \/ Closing(g) \/ op[g].void THEN {} ELSE Did(g))
        /\ \A t \in Sessions : Lies(g, t)
        /\ Working(g) => Works(g)
    BY <1>1, <1>3 DEF Whole
  <2>2. \A t \in Sessions : Lies(g, t)'
    BY <1>3, <2>1, FrameLies
  <2>3. Closing(g)' = Closing(g)
    <3>1. \A t \in Sessions : sessions'[t].closing = g <=> sessions[t].closing = g
      BY <1>3 DEF Same, Off
    <3> QED
      BY <3>1 DEF Closing
  <2>4. Has(stored', g, IF ~op[g].ok \/ Closing(g) \/ op[g].void THEN {} ELSE Did(g))
    BY <2>1, HasAlike
  <2>5. ASSUME Working(g)
        PROVE  Works(g)'
    <3>1. PICK t \in Sessions : op[g].s = t
      BY <2>5 DEF FlowInv, Housed, Working
    <3>2. Same(g, t)
      BY <1>3, <2>5, <3>1 DEF Off
    <3> QED
      BY <2>1, <2>5, <3>1, <3>2, FrameWorks
  <2> QED
    BY <1>1, <1>3, <2>2, <2>3, <2>4, <2>5 DEF Whole
<1> QED
  BY <1>2, <1>3

-----------------------------------------------------------------------------
(* A step of one call on one session. *)

Alters(f, s) ==
  /\ Recorded(f) /\ work' = work
  /\ op[f].phase # "done" /\ op[f].s \in {s, None}
  /\ \A t \in Sessions \ {s} : /\ sessions'[t] = sessions[t] /\ idle'[t] = idle[t]
                               /\ f \notin Holders(t)'

LEMMA StandFacts ==
  ASSUME TypeInv, NEW f \in Flows, Stand(f), NEW g \in Flows \ {f}
  PROVE  /\ op'[g].s = op[g].s /\ op'[g].phase = op[g].phase /\ op'[g].late = op[g].late
         /\ op'[g].ok = op[g].ok /\ op'[g].struck \in {op[g].struck, TRUE}
         /\ op'[g] = op[g] \/ op'[g].struck
         /\ \A t : g \in Holders(t)' <=> g \in Holders(t)
<1>1. op[g] \in Calls /\ (op'[g] = op[g] \/ op'[g] = [op[g] EXCEPT !.struck = TRUE])
  BY DEF Stand, TypeInv
<1>2. /\ op'[g].s = op[g].s /\ op'[g].phase = op[g].phase /\ op'[g].late = op[g].late
      /\ op'[g].ok = op[g].ok /\ op'[g].struck \in {op[g].struck, TRUE}
      /\ op'[g] = op[g] \/ op'[g].struck
  BY <1>1 DEF Calls
<1> QED
  BY <1>2 DEF Holders

LEMMA Others ==
  ASSUME TypeInv, FlowInv, NEW f \in Flows, NEW s \in Sessions, Alters(f, s),
         NEW g \in Flows \ {f}, Whole(g), Clear(g)', Alike(stored, stored', g),
         driver.transacts => Same(g, s) \/ Off(g, s)
  PROVE  Whole(g)'
<1>1. op'[g] = op[g] /\ work' = work /\ Stand(f)
  BY StandFacts DEF Alters, Recorded, Clear
<1>2. ASSUME NEW t \in Sessions \ {s}
      PROVE  Same(g, t)
  <2>1. ASSUME NEW h \in Flows, h \in Holders(t)'
        PROVE  h \in Holders(t) /\ op'[h].late = op[h].late
    <3>1. h # f
      BY <2>1 DEF Alters
    <3> QED
      BY <1>1, <2>1, <3>1, StandFacts
  <2>2. sessions'[t] = sessions[t] /\ idle'[t] = idle[t]
    BY DEF Alters
  <2>3. \A h \in Holders(t)' : h \in Flows
    BY DEF Holders
  <2> QED
    BY <2>1, <2>2, <2>3 DEF Same, Alike
<1> QED
  BY <1>1, <1>2, Frame

(* Nothing of the call itself is on the other sessions.                    *)
LEMMA Elsewhere ==
  ASSUME TypeInv, FlowInv, SessionInv, NEW f \in Flows, NEW s \in Sessions, Alters(f, s),
         Whole(f), Clear(f), driver.transacts
  PROVE  /\ sessions[s].closing # f
         /\ \A t \in Sessions \ {s} : /\ Away(f, t) /\ sessions[t].closing # f
                                      /\ Away(f, t)' /\ sessions'[t].closing # f
<1>1. \A t \in Sessions : sessions[t].closing # f
  <2>1. ~op[f].ok /\ f # None
    BY Marks DEF FlowInv, Placed, Alters
  <2> QED
    BY <2>1 DEF SessionInv, Lent
<1>2. ASSUME NEW t \in Sessions \ {s}
      PROVE  Away(f, t) /\ Away(f, t)' /\ sessions'[t].closing # f
  <2>1. f \notin Holders(t)
    BY Marks DEF Alters, Holders
  <2>2. Lies(f, t) /\ sessions'[t] = sessions[t]
    BY DEF Whole, Alters
  <2>3. Away(f, t)
    BY <1>1, <2>1, <2>2 DEF Lies
  <2> QED
    BY <1>1, <2>2, <2>3 DEF Away
<1> QED
  BY <1>1, <1>2

LEMMA LentElsewhere ==
  ASSUME TypeInv, FlowInv, SessionInv, NEW f \in Flows, NEW s \in Sessions, Alters(f, s),
         NEW t \in Sessions \ {s}
  PROVE  Lent(t)'
<1>1. /\ Stand(f) /\ sessions'[t] = sessions[t] /\ idle'[t] = idle[t] /\ f \notin Holders(t)'
      /\ driver' = driver
  BY DEF Alters, Recorded, driver
<1>2. ~op[f].ok
  BY DEF FlowInv, Placed, Alters
<1>3. f \notin Holders(t)
  BY Marks DEF Alters, Holders
<1>4. Holders(t)' = Holders(t) /\ \A g \in Holders(t) : op'[g].late = op[g].late
  <2>1. ASSUME NEW g \in Flows
        PROVE  /\ g \in Holders(t)' <=> g \in Holders(t)
               /\ g \in Holders(t) => op'[g].late = op[g].late
    BY <1>1, <1>3, StandFacts
  <2>2. Holders(t) \subseteq Flows /\ Holders(t)' \subseteq Flows
    BY DEF Holders
  <2> QED
    BY <2>1, <2>2
<1>5. ASSUME sessions[t].closing # None, op[sessions[t].closing].ok, op[sessions[t].closing].s = t
      PROVE  op'[sessions[t].closing].ok /\ op'[sessions[t].closing].s = t
  <2>1. sessions[t].closing \in Flows \ {f}
    BY <1>2, <1>5 DEF TypeInv, Connections
  <2> QED
    BY <1>1, <1>5, <2>1, StandFacts
<1>6. Lent(t)
  BY DEF SessionInv
<1> QED
  BY <1>1, <1>4, <1>5, <1>6 DEF Lent

(* What is left to show of a step of f on s: it leaves the other calls     *)
(* alone, keeps what f did, and s is lent as before.                       *)
LEMMA OneStep ==
  ASSUME TypeInv, FlowInv, SessionInv, WholeInv,
         NEW f \in Flows, NEW s \in Sessions, Alters(f, s), Lent(s)',
         \A g \in Flows \ {f} : Clear(g)' => /\ Alike(stored, stored', g)
                                             /\ driver.transacts => Same(g, s) \/ Off(g, s),
         Clear(f)' => Clear(f),
         Clear(f)' /\ ~driver.transacts => Has(stored', f, Did(f)'),
         Clear(f)' /\ driver.transacts =>
           /\ Has(stored', f, IF ~op'[f].ok \/ sessions'[s].closing = f \/ op'[f].void THEN {}
                                ELSE Did(f)')
           /\ Lies(f, s)'
           /\ Working(f)' => Works(f)'
  PROVE  SessionInv' /\ WholeInv'
<1>1. ASSUME NEW g \in Flows \ {f}
      PROVE  Whole(g)'
  <2>1. CASE Clear(g)'
    BY <2>1, Others DEF WholeInv
  <2>2. CASE ~Clear(g)'
    BY <2>2 DEF Whole
  <2> QED
    BY <2>1, <2>2
<1>2. Whole(f)'
  <2> SUFFICES ASSUME Clear(f)'
               PROVE  Whole(f)'
    BY DEF Whole
  <2>1. Clear(f) /\ Whole(f) /\ driver' = driver
    BY DEF WholeInv, Alters, driver
  <2>2. CASE ~driver.transacts
    BY <2>1, <2>2 DEF Whole
  <2>3. CASE driver.transacts
    <3>1. \A t \in Sessions \ {s} : Away(f, t)' /\ sessions'[t].closing # f
      BY <2>1, <2>3, Elsewhere
    <3>2. \A t \in Sessions : Lies(f, t)'
      BY <2>3, <3>1 DEF Lies
    <3>3. Closing(f)' <=> sessions'[s].closing = f
      BY <3>1 DEF Closing
    <3> QED
      BY <2>1, <2>3, <3>2, <3>3 DEF Whole
  <2> QED
    BY <2>2, <2>3
<1>3. SessionInv'
  BY LentElsewhere DEF SessionInv
<1> QED
  BY <1>1, <1>2, <1>3 DEF WholeInv

-----------------------------------------------------------------------------
(* Whose session it is. *)

Absent(g, s) == Away(g, s) /\ sessions[s].closing # g /\ ~(Working(g) /\ op[g].s = s)

LEMMA FreeSession ==
  ASSUME TypeInv, SessionInv, NEW s \in Free
  PROVE  /\ s \in Sessions /\ sessions[s].closing = None
         /\ ~driver.awaits => Holders(s) = {} /\ idle[s] = 1
BY FreeTyped, DriverFacts DEF SessionInv, Lent, TypeInv

(* A session that g does not work on holds nothing of g.                   *)
LEMMA Unheld ==
  ASSUME TypeInv, NEW g \in Flows, NEW s \in Sessions, Clear(g), Whole(g), driver.transacts,
         sessions[s].closing # g, g \in Holders(s) => op[g].late # None,
         g \in Holders(s) => ~driver.shared \/ ~sessions[s].open
  PROVE  Absent(g, s)
<1>1. Working(g) /\ op[g].s = s => g \in Holders(s) /\ op[g].late = None
  BY DEF Working, Holding, Holders
<1>2. Lies(g, s)
  BY DEF Whole
<1> QED
  BY <1>1, <1>2 DEF Absent, Lies

(* While another call works on s, it is that call's alone.                 *)
LEMMA HeldAlone ==
  ASSUME TypeInv, SessionInv, NEW f \in Flows, NEW g \in Flows \ {f}, NEW s \in Sessions,
         f \in Holders(s), op[f].late = None, Clear(g), Whole(g), driver.transacts
  PROVE  Absent(g, s)
<1>1. sessions[s].closing # g
  BY Marks DEF SessionInv, Lent
<1>2. ~Sole(g, s)
  BY DEF Sole
<1>3. ~(Working(g) /\ op[g].s = s)
  BY <1>2 DEF Whole, Works
<1>4. Lies(g, s)
  BY DEF Whole
<1> QED
  BY <1>1, <1>2, <1>3, <1>4 DEF Absent, Lies

(* The holders of a session after a step of f.                             *)
LEMMA HoldersStand ==
  ASSUME TypeInv, NEW f \in Flows, Stand(f), NEW s
  PROVE  /\ \A h \in Holders(s)' : h = f \/ (h \in Holders(s) /\ op'[h].late = op[h].late)
         /\ \A h \in Holders(s) : h = f \/ (h \in Holders(s)' /\ op'[h].late = op[h].late)
<1>1. Holders(s) \subseteq Flows /\ Holders(s)' \subseteq Flows
  BY DEF Holders
<1>2. ASSUME NEW h \in Flows \ {f}
      PROVE  op'[h].late = op[h].late /\ (h \in Holders(s)' <=> h \in Holders(s))
  BY StandFacts
<1> QED
  BY <1>1, <1>2

LEMMA OffAbsent ==
  ASSUME NEW g, NEW s, Absent(g, s), Away(g, s)', sessions'[s].closing # g
  PROVE  Off(g, s)
BY DEF Off, Absent

(* A call that has not begun has nothing on any session.                   *)
LEMMA NotBegun ==
  ASSUME TypeInv, FlowInv, SessionInv, NEW f \in Flows, op[f].s = None, ~op[f].ok, Clear(f), Whole(f),
         driver.transacts, NEW s \in Sessions
  PROVE  /\ Away(f, s) /\ sessions[s].closing # f /\ f \notin Holders(s)
         /\ Has(stored, f, {})
<1>1. f \notin Holders(s)
  BY Marks DEF Holders
<1>2. sessions[s].closing # f
  BY Marks DEF SessionInv, Lent
<1>3. Lies(f, s) /\ Has(stored, f, {})
  BY DEF Whole
<1> QED
  BY <1>1, <1>2, <1>3 DEF Lies

(* A step that takes at most a client from the pool.                       *)
LEMMA StillKeeps ==
  ASSUME TypeInv, FlowInv, SessionInv, WholeInv, NEW f \in Flows, NEW s \in Sessions, Alters(f, s),
         sessions' = sessions, stored' = stored, op[f].s = None, f \notin Holders(s)',
         idle'[s] \in Nat, idle'[s] <= idle[s],
         ~op'[f].ok, ~Working(f)', Clear(f)' => Clear(f) /\ (driver.transacts \/ Did(f)' = Did(f))
  PROVE  SessionInv' /\ WholeInv'
<1>1. Stand(f) /\ work' = work /\ driver' = driver /\ ~op[f].ok /\ f \notin Holders(s)
  BY Marks DEF Alters, Recorded, driver, FlowInv, Placed, Holders
<1>2. /\ \A h \in Holders(s)' : h \in Holders(s) /\ op'[h].late = op[h].late
      /\ \A h \in Holders(s) : h \in Holders(s)' /\ op'[h].late = op[h].late
  BY <1>1, HoldersStand
<1>3. idle[s] \in Nat /\ Lent(s)
  BY DEF TypeInv, SessionInv
<1>4. Lent(s)'
  <2>1. ASSUME sessions[s].closing # None, op[sessions[s].closing].ok, op[sessions[s].closing].s = s
        PROVE  op'[sessions[s].closing].ok /\ op'[sessions[s].closing].s = s
    <3>1. sessions[s].closing \in Flows \ {f}
      BY <1>1, <2>1 DEF TypeInv, Connections
    <3> QED
      BY <1>1, <2>1, <3>1, StandFacts
  <2> QED
    BY <1>1, <1>2, <1>3, <2>1 DEF Lent
<1>5. ASSUME NEW g \in Flows \ {f}
      PROVE  Alike(stored, stored', g) /\ Same(g, s)
  BY <1>2, <1>3 DEF Alike, Same
<1>6. ASSUME Clear(f)', ~driver.transacts
      PROVE  Has(stored', f, Did(f)')
  BY <1>6 DEF WholeInv, Whole
<1>7. ASSUME Clear(f)', driver.transacts
      PROVE  Has(stored', f, {}) /\ Lies(f, s)'
  <2>1. Away(f, s) /\ sessions[s].closing # f /\ Has(stored, f, {})
    BY <1>1, <1>7, NotBegun DEF WholeInv
  <2> QED
    BY <2>1 DEF Away, Lies
<1> QED
  BY <1>1, <1>4, <1>5, <1>6, <1>7, OneStep

-----------------------------------------------------------------------------
(* BEGIN: the session it takes is empty, unless others are told.           *)

LEMMA BeginKeeps ==
  ASSUME TypeInv, FlowInv, SessionInv, WholeInv, NEW f \in Flows, Begin(f)
  PROVE  SessionInv' /\ WholeInv'
<1>0. /\ work' = work /\ op[f].phase = "begin" /\ op[f].s = None /\ op[f].item = 1 /\ ~op[f].ok
      /\ op[f] \in Calls /\ Call(f).tx
  BY DEF Begin, FlowInv, Placed, Housed, TypeInv
<1>1. /\ Recorded(f)
      /\ op'[f].unsure = op[f].unsure /\ op'[f].joined = op[f].joined
      /\ op[f].struck => op'[f].struck
  BY BeginFlow
<1>2. PICK s \in Free :
        /\ idle' = IF driver.shared THEN idle ELSE [idle EXCEPT ![s] = @ - 1]
        /\ \/ /\ ~driver.transacts \/ ~driver.shared \/ ~sessions[s].open
              /\ stored' = IF sessions[s].open /\ driver.implicit THEN Sum2(stored, sessions[s].pending) ELSE stored
              /\ sessions' = [sessions EXCEPT ![s] = Begun(s)]
              /\ op'[f].phase = "run" /\ op'[f].s = s /\ op'[f].item = 1 /\ op'[f].skipped = {}
              /\ op'[f].late = None /\ ~op'[f].ok /\ op'[f].failed = op[f].failed /\ ~op'[f].void
              /\ driver.transacts =>
                   \A g \in Holders(s) : op[g].late = None => op'[g].struck /\ op'[f].struck
           \/ driver.shared /\ Undone(f) /\ UNCHANGED <<sessions, stored>>
  BY BeginFlow
<1>3. /\ s \in Sessions /\ sessions[s].closing = None /\ sessions[s] \in Connections
      /\ ~driver.awaits => Holders(s) = {} /\ idle[s] = 1
      /\ driver.shared \/ idle[s] > 0
      /\ Lent(s) /\ driver' = driver
      /\ idle[s] \in Nat /\ idle'[s] = IF driver.shared THEN idle[s] ELSE idle[s] - 1
  BY <1>0, <1>2, FreeSession, FreeTyped DEF SessionInv, TypeInv, driver
<1>4. Stand(f) /\ f \notin Holders(s)
  BY <1>0, <1>1 DEF Recorded, Holders
<1>5. CASE /\ ~driver.transacts \/ ~driver.shared \/ ~sessions[s].open
           /\ stored' = IF sessions[s].open /\ driver.implicit THEN Sum2(stored, sessions[s].pending) ELSE stored
           /\ sessions' = [sessions EXCEPT ![s] = Begun(s)]
           /\ op'[f].phase = "run" /\ op'[f].s = s /\ op'[f].item = 1 /\ op'[f].skipped = {}
           /\ op'[f].late = None /\ ~op'[f].ok /\ op'[f].failed = op[f].failed /\ ~op'[f].void
           /\ driver.transacts =>
                \A g \in Holders(s) : op[g].late = None => op'[g].struck /\ op'[f].struck
  <2> DEFINE ss == sessions'[s]
  <2>1. /\ ss.open <=> driver.transacts
        /\ ss = sessions[s] \/ (ss.pending = Zero /\ ss.saved = None)
        /\ ss.closing = None /\ ss.dead = sessions[s].dead /\ ss.aborted = sessions[s].aborted
        /\ \A t \in Sessions \ {s} : sessions'[t] = sessions[t] /\ idle'[t] = idle[t]
    <3>1. ss = Begun(s) /\ \A t \in Sessions \ {s} : sessions'[t] = sessions[t] /\ idle'[t] = idle[t]
      BY <1>2, <1>3, <1>5 DEF TypeInv
    <3>2. CASE sessions[s].open /\ ~driver.implicit
      BY <1>3, <3>1, <3>2 DEF Begun, Lent
    <3>3. CASE ~(sessions[s].open /\ ~driver.implicit)
      <4>1. ss = [sessions[s] EXCEPT !.open = driver.transacts, !.pending = Zero, !.saved = None]
        BY <3>1, <3>3 DEF Begun
      <4> QED
        BY <1>3, <3>1, <4>1 DEF Connections
    <3> QED
      BY <3>2, <3>3
  <2> HIDE DEF ss
  <2>2. f \in Holders(s)' /\ \A t \in Sessions \ {s} : f \notin Holders(t)'
    BY <1>5 DEF Holders
  <2>3. Alters(f, s)
    BY <1>0, <1>1, <2>1, <2>2 DEF Alters
  <2>4. \A g \in Flows : Away(g, s) => Away(g, s)'
    BY <2>1, HasSum, Amount DEF Away, ss
  <2>5. /\ \A h \in Holders(s)' : h = f \/ (h \in Holders(s) /\ op'[h].late = op[h].late)
        /\ \A h \in Holders(s) : h = f \/ (h \in Holders(s)' /\ op'[h].late = op[h].late)
    BY <1>4, HoldersStand
  <2>6. Lent(s)'
    BY <1>3, <1>5, <2>1, <2>2, <2>5, DriverFacts DEF Lent, ss, TypeInv
  <2>7. ASSUME NEW g \in Flows \ {f}, Clear(g)'
        PROVE  Alike(stored, stored', g) /\ (driver.transacts => Off(g, s))
    <3>1. Clear(g) /\ Whole(g) /\ ~op'[g].struck
      BY <1>0, <1>4, <2>7, StandFacts, Unmoved DEF Clear, WholeInv
    <3>2. CASE driver.transacts
      <4>1. Absent(g, s)
        BY <1>3, <1>5, <3>1, <3>2, Marks, Unheld
      <4>2. Off(g, s)
        BY <1>3, <2>1, <2>4, <4>1, Marks, OffAbsent DEF ss, Absent
      <4>3. Has(sessions[s].pending, g, {})
        BY <4>1 DEF Absent, Away
      <4>4. sessions[s].pending \in Amounts /\ stored \in Amounts
        BY <1>3 DEF Connections, TypeInv
      <4> QED
        BY <1>5, <4>2, <4>3, <4>4, HasSum DEF Alike
    <3>3. CASE ~driver.transacts
      BY <1>3, <1>5, <3>3 DEF Lent, Alike
    <3> QED
      BY <3>2, <3>3, DriverFacts DEF TypeInv
  <2>8. Did(f)' = {} /\ Did(f) = {}
    BY <1>0, <1>5 DEF Did
  <2>9. Clear(f)' => Clear(f)
    BY <1>0, <1>1, <1>3, <1>5 DEF Clear, Call, Body
  <2>10. ASSUME Clear(f)', ~driver.transacts
         PROVE  Has(stored', f, Did(f)')
    BY <1>3, <1>5, <2>8, <2>9, <2>10 DEF Whole, WholeInv, Lent
  <2>11. ASSUME Clear(f)', driver.transacts
         PROVE  Has(stored', f, {}) /\ Lies(f, s)' /\ Works(f)'
    <3>1. Away(f, s) /\ Has(stored, f, {})
      BY <1>0, <1>3, <2>9, <2>11, NotBegun DEF WholeInv
    <3>2. Has(stored', f, {})
      <4>1. sessions[s].pending \in Amounts /\ stored \in Amounts
        BY <1>3 DEF Connections, TypeInv
      <4> QED
        BY <1>5, <3>1, <4>1, HasSum DEF Away
    <3>3. Sole(f, s)'
      BY <1>5, <2>5, <2>11 DEF Sole, Clear
    <3>4. driver.strict => idle'[s] = 0
      BY <1>3, DriverFacts DEF Lent, TypeInv
    <3>5. ~ss.dead /\ ~ss.aborted
      BY <1>3, <1>5, <2>1, <2>11 DEF Lent, Clear
    <3>6. Item(f)' # "try"
      BY <1>0, <1>5, BodyFacts DEF Item, Body, Call, TypeInv
    <3>7. Away(f, s)' /\ Has(ss.pending, f, {})
      BY <2>4, <3>1 DEF Away, ss
    <3>8. Works(f)'
      BY <1>3, <1>5, <2>1, <2>8, <2>11, <3>3, <3>4, <3>5, <3>6, <3>7 DEF Works, ss
    <3>9. Lies(f, s)'
      BY <2>1, <3>7, Marks DEF Lies, ss
    <3> QED
      BY <3>2, <3>8, <3>9
  <2> QED
    BY <1>3, <1>5, <2>3, <2>6, <2>7, <2>9, <2>10, <2>11, OneStep
<1>6. CASE driver.shared /\ Undone(f) /\ UNCHANGED <<sessions, stored>>
  <2>1. \A t : f \notin Holders(t)'
    BY <1>6 DEF Undone, Holders
  <2>2. Alters(f, s)
    BY <1>0, <1>1, <1>2, <1>6, <2>1 DEF Alters
  <2>3. ~Working(f)'
    BY <1>6 DEF Working, Holding, Undone
  <2>4. Clear(f)' => Clear(f) /\ driver.transacts
    BY <1>0, <1>1, <1>3, <1>6 DEF Clear, Undone, Call, Body
  <2> QED
    BY <1>0, <1>3, <1>6, <2>1, <2>2, <2>3, <2>4, StillKeeps DEF Undone
<1> QED
  BY <1>2, <1>5, <1>6

LEMMA BeginFailsKeeps ==
  ASSUME TypeInv, FlowInv, SessionInv, WholeInv, NEW f \in Flows, BeginFails(f)
  PROVE  SessionInv' /\ WholeInv'
<1>1. /\ Recorded(f) /\ Undone(f) /\ Marked(op'[f], op[f])
      /\ work' = work /\ driver' = driver /\ op[f].phase = "begin" /\ op[f].s = None
      /\ sessions' = sessions /\ stored' = stored
  BY BeginFailsFlow DEF BeginFails, FlowInv, Housed, driver
<1>2. PICK s \in Free : idle' = IF driver.lends THEN [idle EXCEPT ![s] = @ - 1] ELSE idle
  BY DEF BeginFails
<1>3. /\ s \in Sessions /\ idle[s] \in Nat /\ idle'[s] \in Nat /\ idle'[s] <= idle[s]
      /\ \A t \in Sessions \ {s} : idle'[t] = idle[t]
  BY <1>2, FreeTyped, DriverFacts DEF TypeInv
<1>4. \A t : f \notin Holders(t)'
  BY <1>1 DEF Undone, Holders
<1>5. Alters(f, s) /\ ~Working(f)'
  BY <1>1, <1>3, <1>4 DEF Alters, Working, Holding, Undone
<1>6. Clear(f)' => Clear(f) /\ driver.transacts
  BY <1>1 DEF Clear, Undone, Marked, Call, Body
<1> QED
  BY <1>1, <1>3, <1>4, <1>5, <1>6, StillKeeps DEF Undone

LEMMA PlainKeeps ==
  ASSUME TypeInv, FlowInv, SessionInv, WholeInv, NEW f \in Flows, Plain(f)
  PROVE  SessionInv' /\ WholeInv'
<1>1. /\ Recorded(f) /\ op'[f] = [op[f] EXCEPT !.phase = "run"] /\ op[f] \in Calls
      /\ op[f].phase = "begin" /\ ~Call(f).tx /\ ~op[f].ok /\ op[f].s = None
      /\ work' = work /\ driver' = driver
      /\ sessions' = sessions /\ stored' = stored /\ idle' = idle
  BY PlainFlow DEF Plain, FlowInv, Housed, driver, TypeInv
<1>2. PICK s \in Sessions : TRUE
  BY BoundAssumption
<1>3. /\ op'[f].s = None /\ op'[f].ok = op[f].ok /\ op'[f].item = op[f].item /\ op'[f].phase = "run"
      /\ op'[f].skipped = op[f].skipped /\ op'[f].failed = op[f].failed /\ Marked(op'[f], op[f])
  BY <1>1 DEF Calls, Marked
<1>4. \A t \in Sessions : f \notin Holders(t)'
  BY <1>3, Marks DEF Holders
<1>5. Alters(f, s) /\ ~Working(f)' /\ f \notin Holders(s)'
  BY <1>1, <1>4 DEF Alters, Working, Call
<1>6. Clear(f)' => Clear(f) /\ Did(f)' = Did(f)
  BY <1>1, <1>3 DEF Clear, Did, Marked, Call, Body
<1>7. idle'[s] \in Nat /\ idle'[s] <= idle[s]
  BY <1>1 DEF TypeInv
<1>8. ~op'[f].ok
  BY <1>1, <1>3
<1> QED
  BY ONLY <1>1, <1>5, <1>6, <1>7, <1>8, StillKeeps, TypeInv, FlowInv, SessionInv, WholeInv

-----------------------------------------------------------------------------
(* A statement, on the session of its transaction or on a free one.        *)

(* What f has done after an item went well, and after it failed.           *)
LEMMA DidMore ==
  ASSUME NEW f \in Flows, work' = work, op[f].phase \in {"run", "call"}, ~op[f].ok,
         op[f].item \in 1 .. Len(Body(f)), op'[f].skipped = op[f].skipped,
         \/ op'[f].phase = "run" /\ op'[f].item = op[f].item + 1 /\ ~op'[f].ok
         \/ op'[f].phase = "commit" /\ op[f].item = Len(Body(f))
         \/ op'[f].ok /\ op[f].item = Len(Body(f))
  PROVE  /\ Did(f)' = Did(f) \cup (IF Item(f) = "point" \/ op[f].item \in op[f].skipped THEN {} ELSE {op[f].item})
         /\ op[f].item \notin Did(f)
<1>1. /\ Body(f)' = Body(f) /\ Len(Body(f)) \in Int
  BY DEF Body, Call
<1>2. Did(f) = {n \in 1 .. Len(Body(f)) : Body(f)[n] # "point" /\ n \notin op[f].skipped /\ n < op[f].item}
  BY DEF Did
<1>3. Did(f)' = {n \in 1 .. Len(Body(f)) : Body(f)[n] # "point" /\ n \notin op[f].skipped /\ n <= op[f].item}
  BY <1>1 DEF Did
<1> QED
  BY <1>2, <1>3 DEF Item

LEMMA DidSame ==
  ASSUME NEW f \in Flows, work' = work, op[f].phase \in {"run", "call", "undo"}, ~op[f].ok, ~op'[f].ok,
         op[f].item \in 1 .. Len(Body(f)), op'[f].item = op[f].item,
         \/ op'[f].phase = "rollback" /\ op'[f].skipped = op[f].skipped
         \/ op'[f].phase = "undo" /\ op'[f].skipped = op[f].skipped \cup {op[f].item}
         \/ op'[f].phase = "call" /\ op'[f].skipped = op[f].skipped
  PROVE  Did(f)' = Did(f)
<1>1. Body(f)' = Body(f)
  BY DEF Body, Call
<1> QED
  BY <1>1 DEF Did

(* How a statement changes its session, and what is stored.                *)
Lands(f, s, x, written) ==
  LET a == sessions[s]
      b == sessions'[s]
  IN \/ /\ b.pending = IF a.open THEN Sum2(a.pending, written) ELSE a.pending
        /\ b.open = a.open /\ b.saved = a.saved /\ b.dead = a.dead /\ b.closing = a.closing
        /\ b.var = a.var /\ b.aborted = a.aborted
     \/ /\ x.err # None /\ ~driver.shared /\ driver.aborts /\ a.open
        /\ b.pending = Sum2(a.pending, written) /\ b.aborted = TRUE
        /\ b.open = a.open /\ b.saved = a.saved /\ b.dead = a.dead /\ b.closing = a.closing
     \/ /\ x.err # None /\ ~driver.shared
        /\ b.pending = Zero /\ b.saved = None /\ b.closing = None
        /\ ~b.open /\ ~b.aborted /\ (b.dead => op[f].s # None)

LEMMA ExecuteLands ==
  ASSUME TypeInv, FlowInv, NEW f \in Flows, op[f].phase \in {"run", "call"}, NEW s \in Clients(f),
         NEW x \in Outcomes(s), NEW n \in {0, op[f].item}, Execute(f, s, x, n)
  PROVE  LET joins == sessions[s].open
             written == IF x.applied THEN [Zero EXCEPT ![<<f, n>>] = 1] ELSE Zero
         IN /\ written \in Amounts /\ n \in 0 .. MaxBody
            /\ stored' = IF joins THEN stored ELSE Sum2(stored, written)
            /\ \A t \in Sessions \ {s} : sessions'[t] = sessions[t]
            /\ Lands(f, s, x, written)
<1>1. s \in Sessions /\ Sends(f) /\ work \in Workloads
  BY ClientTyped DEF TypeInv
<1> DEFINE joins == sessions[s].open
           written == IF x.applied THEN [Zero EXCEPT ![<<f, n>>] = 1] ELSE Zero
           ss == IF joins THEN [sessions[s] EXCEPT !.pending = Sum2(@, written)] ELSE sessions[s]
<1>2. <<f, n>> \in Effects /\ n \in 0 .. MaxBody
  BY <1>1, BodyFacts, BoundAssumption DEF Sends, Running, Effects
<1>3. written \in Amounts
  BY <1>2, Amount
<1>4. /\ stored' = IF joins THEN stored ELSE Sum2(stored, written)
      /\ sessions' = [sessions EXCEPT ![s] = After(ss, f, x)]
  BY DEF Execute
<1> HIDE DEF written
<1>5. sessions[s] \in Connections
  BY <1>1 DEF TypeInv
<1>6. /\ ss \in Connections
      /\ ss.pending = IF joins THEN Sum2(sessions[s].pending, written) ELSE sessions[s].pending
      /\ ss.open = sessions[s].open /\ ss.saved = sessions[s].saved /\ ss.dead = sessions[s].dead
      /\ ss.closing = sessions[s].closing /\ ss.var = sessions[s].var /\ ss.aborted = sessions[s].aborted
  BY <1>3, <1>5, Amount DEF Connections
<1> HIDE DEF ss
<1>7. LET a == After(ss, f, x)
      IN \/ a = ss
         \/ /\ x.err # None /\ ~driver.shared /\ driver.aborts /\ ss.open
            /\ a = [ss EXCEPT !.aborted = TRUE]
         \/ /\ x.err # None /\ ~driver.shared
            /\ a.pending = Zero /\ a.saved = None /\ a.closing = None
            /\ ~a.open /\ ~a.aborted /\ (a.dead => op[f].s # None)
  <2>1. op[f] \in Calls
    BY DEF TypeInv
  <2> QED
    BY <1>1, <1>6, <2>1, AfterFacts
<1>8. sessions'[s] = After(ss, f, x) /\ \A t \in Sessions \ {s} : sessions'[t] = sessions[t]
  BY <1>1, <1>4 DEF TypeInv
<1>9. CASE After(ss, f, x) = ss
  BY <1>2, <1>3, <1>4, <1>6, <1>8, <1>9 DEF written, Lands
<1>10. CASE /\ x.err # None /\ ~driver.shared /\ driver.aborts /\ ss.open
            /\ After(ss, f, x) = [ss EXCEPT !.aborted = TRUE]
  <2>1. LET b == sessions'[s]
        IN /\ b.pending = ss.pending /\ b.open = ss.open /\ b.saved = ss.saved /\ b.aborted = TRUE
           /\ b.dead = ss.dead /\ b.closing = ss.closing
    BY <1>6, <1>8, <1>10 DEF Connections
  <2> QED
    BY <1>2, <1>3, <1>4, <1>6, <1>8, <1>10, <2>1 DEF written, Lands
<1>11. CASE LET a == After(ss, f, x)
            IN /\ x.err # None /\ ~driver.shared
               /\ a.pending = Zero /\ a.saved = None /\ a.closing = None
               /\ ~a.open /\ ~a.aborted /\ (a.dead => op[f].s # None)
  BY <1>2, <1>3, <1>4, <1>8, <1>11 DEF written, Lands
<1> QED
  BY <1>7, <1>9, <1>10, <1>11

LEMMA ExecuteMoves ==
  ASSUME TypeInv, FlowInv, SessionInv,
         NEW f \in Flows, op[f].phase \in {"run", "call"}, NEW s \in Clients(f),
         NEW x \in Outcomes(s), NEW n \in {0, op[f].item}, Execute(f, s, x, n)
  PROVE  /\ Alters(f, s) /\ idle' = idle /\ sessions[s].closing = None
         /\ f \in Holders(s) <=> Call(f).tx
         /\ Call(f).tx => op[f].late = None /\ op'[f].late = None /\ f \in Holders(s)' /\ op'[f].s = s
         /\ ~Call(f).tx => f \notin Holders(s)' /\ s \in Free
         /\ \A g \in Holders(s) \ {f} : ~driver.shared => op'[g].struck
         /\ Clear(f)' => Clear(f)
<1>1. /\ s \in Sessions /\ Sends(f) /\ work' = work /\ idle' = idle
      /\ IF Call(f).tx THEN s = op[f].s ELSE op[f].s = None
      /\ op[f].late = None /\ driver' = driver /\ work \in Workloads
  BY ClientTyped DEF Execute, Sends, Running, driver, TypeInv
<1>2. /\ Recorded(f) /\ op'[f] \in Calls
      /\ op[f].unsure => op'[f].unsure
      /\ op[f].joined => op'[f].joined
      /\ op'[f].struck = op[f].struck
      /\ op[f].failed => op'[f].failed
      /\ Call(f).tx => /\ op'[f].s = s /\ op'[f].late = None
                       /\ op'[f].phase \in {"run", "commit", "rollback", "undo"}
      /\ ~Call(f).tx => op'[f].phase \in {"begin", "done"}
  BY <1>1, ExecuteFlow DEF Recorded, Good
<1>3. \A t \in Sessions \ {s} : sessions'[t] = sessions[t]
  BY ExecuteLands
<1>4. \A t \in Sessions \ {s} : f \notin Holders(t)'
  BY <1>1, <1>2, BodyFacts DEF Holders
<1>5. Alters(f, s)
  BY <1>1, <1>2, <1>3, <1>4 DEF Alters
<1>6. /\ f \in Holders(s) <=> Call(f).tx
      /\ Call(f).tx => f \in Holders(s)'
      /\ ~Call(f).tx => f \notin Holders(s)'
  BY <1>1, <1>2, Marks DEF Holders
<1>7. ~Call(f).tx => s \in Free
  BY <1>1 DEF Clients
<1>8. sessions[s].closing = None
  <2>1. CASE Call(f).tx
    BY <1>1, <1>6, <2>1 DEF SessionInv, Lent
  <2>2. CASE ~Call(f).tx
    BY <1>7, <2>2, FreeSession
  <2> QED
    BY <2>1, <2>2
<1>9. ASSUME NEW g \in Holders(s) \ {f}, ~driver.shared
      PROVE  op'[g].struck
  <2>1. g \in Flows /\ g # f /\ op[g] \in Calls
    BY <1>9 DEF Holders, TypeInv
  <2>2. op'[g] = Meets(g, s)
    BY <2>1 DEF Execute
  <2>3. op'[g] = [op[g] EXCEPT !.struck = TRUE]
    BY <1>1, <1>9, <2>1, <2>2, MeetsFacts
  <2> QED
    BY <2>1, <2>3 DEF Calls
<1>10. Clear(f)' => Clear(f)
  BY <1>1, <1>2 DEF Clear, Call, Body
<1> QED
  BY <1>1, <1>2, <1>5, <1>6, <1>7, <1>8, <1>9, <1>10

LEMMA ExecuteLent ==
  ASSUME TypeInv, FlowInv, SessionInv,
         NEW f \in Flows, op[f].phase \in {"run", "call"}, NEW s \in Clients(f),
         NEW x \in Outcomes(s), NEW n \in {0, op[f].item}, Execute(f, s, x, n)
  PROVE  Lent(s)'
<1>1. /\ Alters(f, s) /\ idle' = idle /\ sessions[s].closing = None
      /\ f \in Holders(s) <=> Call(f).tx
      /\ Call(f).tx => op[f].late = None /\ op'[f].late = None /\ f \in Holders(s)'
      /\ ~Call(f).tx => f \notin Holders(s)'
  BY ExecuteMoves
<1>2. /\ s \in Sessions /\ Lent(s) /\ driver' = driver /\ Stand(f)
      /\ ~Call(f).tx => op[f].s = None
  BY <1>1, ClientTyped DEF SessionInv, Alters, Recorded, driver
<1>3. LET a == sessions[s]
          b == sessions'[s]
      IN \/ /\ b.open = a.open /\ b.dead = a.dead /\ b.closing = a.closing /\ b.aborted = a.aborted
         \/ /\ ~driver.shared /\ a.open
            /\ b.open = a.open /\ b.dead = a.dead /\ b.closing = a.closing
         \/ /\ ~driver.shared /\ b.closing = None
            /\ ~b.open /\ ~b.aborted /\ (b.dead => op[f].s # None)
  BY ExecuteLands DEF Lands
<1>4. /\ \A h \in Holders(s)' : h \in Holders(s) /\ op'[h].late = op[h].late
      /\ \A h \in Holders(s) : h \in Holders(s)' /\ op'[h].late = op[h].late
  BY <1>1, <1>2, HoldersStand
<1>5. /\ ~driver.transacts => ~sessions'[s].open
      /\ sessions'[s].closing = None
      /\ driver.shared => ~sessions'[s].dead /\ ~sessions'[s].aborted
  BY <1>1, <1>2, <1>3, DriverFacts DEF Lent, TypeInv
<1>6. ASSUME ~driver.shared, sessions'[s].open \/ sessions'[s].dead \/ sessions'[s].aborted
      PROVE  \E g \in Holders(s)' : op'[g].late = None
  <2>1. sessions[s].open \/ sessions[s].dead \/ sessions[s].aborted \/ op[f].s # None
    BY <1>3, <1>6
  <2>2. CASE Call(f).tx
    BY <1>1, <2>2
  <2>3. CASE ~Call(f).tx
    <3>1. PICK g \in Holders(s) : op[g].late = None
      BY <1>1, <1>2, <1>6, <2>1, <2>3 DEF Lent
    <3> QED
      BY <1>4, <3>1
  <2> QED
    BY <2>2, <2>3
<1> QED
  BY <1>1, <1>2, <1>4, <1>5, <1>6 DEF Lent

LEMMA ExecuteOthers ==
  ASSUME TypeInv, FlowInv, SessionInv, WholeInv,
         NEW f \in Flows, op[f].phase \in {"run", "call"}, NEW s \in Clients(f),
         NEW x \in Outcomes(s), NEW n \in {0, op[f].item}, Execute(f, s, x, n),
         NEW g \in Flows \ {f}, Clear(g)'
  PROVE  /\ Alike(stored, stored', g)
         /\ driver.transacts => Same(g, s) \/ Off(g, s)
<1> DEFINE written == IF x.applied THEN [Zero EXCEPT ![<<f, n>>] = 1] ELSE Zero
<1>1. /\ Alters(f, s) /\ idle' = idle /\ sessions[s].closing = None
      /\ Call(f).tx => op[f].late = None /\ op'[f].late = None
      /\ f \in Holders(s) <=> Call(f).tx
      /\ ~Call(f).tx => f \notin Holders(s)'
      /\ \A h \in Holders(s) \ {f} : ~driver.shared => op'[h].struck
  BY ExecuteMoves
<1>2. /\ s \in Sessions /\ Stand(f) /\ work' = work /\ stored \in Amounts
      /\ sessions[s].pending \in Amounts
  BY <1>1, ClientTyped DEF Alters, Recorded, TypeInv, Connections
<1>3. /\ written \in Amounts /\ n \in 0 .. MaxBody
      /\ stored' = IF sessions[s].open THEN stored ELSE Sum2(stored, written)
  BY ExecuteLands
<1>4. \A a \in Amounts : Alike(a, Sum2(a, written), g)
  BY <1>3, HasOneMore, NothingMore
<1> HIDE DEF written
<1>5. Alike(stored, stored', g)
  BY <1>2, <1>3, <1>4 DEF Alike
<1>6. LET a == sessions[s]
          b == sessions'[s]
      IN \/ /\ Alike(a.pending, b.pending, g)
            /\ b.open = a.open /\ b.saved = a.saved /\ b.dead = a.dead /\ b.closing = a.closing
            /\ b.var = a.var /\ b.aborted = a.aborted
         \/ /\ ~driver.shared /\ Alike(a.pending, b.pending, g)
            /\ b.saved = a.saved /\ b.closing = a.closing
         \/ /\ ~driver.shared
            /\ b.pending = Zero /\ b.saved = None /\ b.closing = None
  <2>1. Lands(f, s, x, written)
    BY ExecuteLands DEF written
  <2>2. \A p : p = (IF sessions[s].open THEN Sum2(sessions[s].pending, written) ELSE sessions[s].pending)
                 => Alike(sessions[s].pending, p, g)
    BY <1>2, <1>4 DEF Alike
  <2>3. Alike(sessions[s].pending, Sum2(sessions[s].pending, written), g)
    BY <1>2, <1>4
  <2> QED
    BY <2>1, <2>2, <2>3 DEF Lands
<1>7. CASE driver.shared
  <2>1. \A h \in Holders(s)' : h \in Holders(s) /\ (op[h].late # None => op'[h].late # None)
    BY <1>1, <1>2, HoldersStand
  <2> QED
    BY <1>1, <1>5, <1>6, <1>7, <2>1 DEF Same
<1>8. CASE ~driver.shared
  <2>1. g \notin Holders(s) /\ ~op'[g].struck
    BY <1>1, <1>8 DEF Clear
  <2>2. op'[g] = op[g] /\ Clear(g) /\ Whole(g) /\ driver.transacts
    BY <1>2, <1>8, <2>1, StandFacts, Unmoved, DriverFacts DEF WholeInv, TypeInv
  <2>3. Absent(g, s)
    BY <1>1, <1>2, <2>1, <2>2, Marks, Unheld
  <2>4. Away(g, s)'
    <3>1. Away(g, s) /\ Has(Zero, g, {})
      BY <2>3, HasSum, Amount DEF Absent
    <3> QED
      BY <1>6, <3>1, HasAlike DEF Away
  <2>5. sessions'[s].closing # g
    BY <1>1, <1>6, Marks
  <2> QED
    BY <1>5, <2>3, <2>4, <2>5, OffAbsent
<1> QED
  BY <1>7, <1>8, DriverFacts DEF TypeInv

(* An item is sent once: its number is known, but for the INOUT argument   *)
(* of a CALL whose variable was set on another session.                    *)
LEMMA ExecuteOwn ==
  ASSUME TypeInv, FlowInv, SessionInv, WholeInv,
         NEW f \in Flows, op[f].phase \in {"run", "call"}, NEW s \in Clients(f),
         NEW x \in Outcomes(s), NEW n \in {0, op[f].item}, Execute(f, s, x, n), Item(f) # "point",
         \/ n = op[f].item
         \/ op[f].phase = "call" /\ driver.variables /\ sessions[s].var # f,
         Clear(f)'
  PROVE  /\ ~driver.transacts => Has(stored', f, Did(f)')
         /\ driver.transacts =>
              /\ Has(stored', f, IF ~op'[f].ok \/ sessions'[s].closing = f \/ op'[f].void THEN {}
                                ELSE Did(f)')
              /\ Lies(f, s)'
              /\ Working(f)' => Works(f)'
<1> DEFINE written == IF x.applied THEN [Zero EXCEPT ![<<f, n>>] = 1] ELSE Zero
           a == sessions[s]
           b == sessions'[s]
<1>1. /\ Alters(f, s) /\ idle' = idle /\ a.closing = None
      /\ f \in Holders(s) <=> Call(f).tx
      /\ Call(f).tx => op[f].late = None /\ op'[f].late = None /\ f \in Holders(s)' /\ op'[f].s = s
      /\ Clear(f)
  BY ExecuteMoves
<1>2. /\ s \in Sessions /\ Stand(f) /\ work' = work /\ stored \in Amounts /\ a \in Connections
      /\ a.pending \in Amounts /\ Sends(f) /\ Whole(f) /\ driver' = driver /\ Call(f)' = Call(f)
      /\ ~op[f].ok /\ op[f].item \in 1 .. Len(Body(f)) /\ Placed(f, op[f])
      /\ Call(f).tx \in BOOLEAN /\ f # None /\ work \in Workloads
      /\ Call(f).tx => s = op[f].s
      /\ ~Call(f).tx => op[f].s = None
  BY <1>1, ClientTyped, BodyFacts, Marks
     DEF Alters, Recorded, TypeInv, Connections, Sends, Running, WholeInv, driver, Call, FlowInv
<1>3. /\ written \in Amounts /\ n \in 0 .. MaxBody
      /\ stored' = IF a.open THEN stored ELSE Sum2(stored, written)
      /\ Lands(f, s, x, written)
  BY ExecuteLands
<1>4. /\ x.applied \in BOOLEAN /\ (x.applied => ~Refuses(s))
      /\ x.err = None => x.applied
  BY <1>2, OutcomeFacts, Marks
<1>5. /\ op'[f].unsure = (op[f].unsure \/ ((~a.open \/ Item(f) = "attempt") /\ x.err # None /\ x.applied))
      /\ op'[f].joined = (op[f].joined \/ (a.open /\ op[f].s = None /\ x.applied))
  BY <1>2, ExecuteFlow
<1>6. /\ ~((~a.open \/ Item(f) = "attempt") /\ x.err # None /\ x.applied)
      /\ ~(a.open /\ op[f].s = None /\ x.applied)
  BY <1>5 DEF Clear
<1>7. /\ \A p \in Amounts : ~x.applied => Alike(p, Sum2(p, written), f)
      /\ \A p \in Amounts : \A D : x.applied /\ n = op[f].item /\ Has(p, f, D) /\ n \notin D =>
                                Has(Sum2(p, written), f, D \cup {n})
  BY <1>3, HasOneMore, NothingMore
<1> HIDE DEF written
<1>8. ASSUME x.err = None
      PROVE  /\ Did(f)' = Did(f) \cup {op[f].item} /\ op[f].item \notin Did(f)
             /\ x.applied
             /\ Call(f).tx => /\ ~op'[f].ok
                              /\ \/ op'[f].phase = "run" /\ op'[f].item = op[f].item + 1
                                    /\ op[f].item < Len(Body(f))
                                 \/ op'[f].phase = "commit"
             /\ ~Call(f).tx => op'[f].ok
  <2>1. op'[f].skipped = op[f].skipped /\ x.applied
    BY <1>2, <1>8, ExecuteFlow
  <2>2. /\ \/ op'[f].phase = "run" /\ op'[f].item = op[f].item + 1 /\ ~op'[f].ok
              /\ op[f].item < Len(Body(f)) /\ Call(f).tx
           \/ op'[f].phase = "commit" /\ op[f].item = Len(Body(f)) /\ ~op'[f].ok /\ Call(f).tx
           \/ op'[f].ok /\ op[f].item = Len(Body(f)) /\ ~Call(f).tx
    BY <1>2, <1>8, ExecuteFlow
  <2>3. op[f].item \notin op[f].skipped
    BY <1>2 DEF Placed
  <2> QED
    BY <1>2, <2>1, <2>2, <2>3, DidMore
<1>9. ASSUME x.err # None
      PROVE  /\ ~op'[f].ok
             /\ ~Call(f).tx => op'[f].failed
             /\ Call(f).tx => /\ Did(f)' = Did(f)
                              /\ \/ op'[f].phase = "rollback"
                                 \/ op'[f].phase = "undo" /\ op[f].phase = "run" /\ Item(f) \in Caught
  <2>1. /\ ~op'[f].ok
        /\ ~Call(f).tx => op'[f].failed
        /\ Call(f).tx => /\ op'[f].item = op[f].item
                         /\ \/ op'[f].phase = "rollback" /\ op'[f].skipped = op[f].skipped
                            \/ /\ op'[f].phase = "undo" /\ op[f].phase = "run" /\ Item(f) \in Caught
                               /\ op'[f].skipped = op[f].skipped \cup {op[f].item}
    BY <1>2, <1>9, ExecuteFlow
  <2> QED
    BY <1>2, <2>1, DidSame
<1>10. b.closing = None /\ (driver.shared => b.saved = a.saved)
  BY <1>1, <1>3 DEF Lands
<1>11. CASE ~driver.transacts
  <2>1. /\ ~a.open /\ n = op[f].item /\ Has(stored, f, Did(f)) /\ stored' = Sum2(stored, written)
    BY <1>1, <1>2, <1>3, <1>11, DriverFacts DEF SessionInv, Lent, Whole
  <2>2. ~op'[f].failed
    BY <1>2, <1>11 DEF Clear
  <2>3. CASE x.err = None
    BY <1>2, <1>7, <1>8, <1>11, <2>1, <2>3
  <2>4. CASE x.err # None
    <3>1. Did(f)' = Did(f) /\ ~x.applied
      BY <1>2, <1>4, <1>6, <1>9, <2>1, <2>2, <2>4
    <3> QED
      BY <1>2, <1>7, <1>11, <2>1, <3>1, HasAlike
  <2> QED
    BY <2>3, <2>4
<1>12. CASE driver.transacts /\ Call(f).tx
  <2>1. Working(f)
    BY <1>1, <1>12 DEF Working, Holding
  <2>2. /\ a.open /\ ~a.dead /\ Has(a.pending, f, Did(f)) /\ Sole(f, s)
        /\ driver.strict => idle[s] = 0
        /\ op[f].phase = "call" /\ driver.variables => a.var = f
        /\ op[f].phase = "run" /\ Item(f) = "try" => a.saved # None /\ Has(a.saved, f, Did(f))
        /\ op[f].void => a.aborted
        /\ op[f].phase # "call" /\ a.aborted => op[f].void
        /\ Has(stored, f, {})
    BY <1>1, <1>2, <1>12, <2>1 DEF Whole, Works
  <2>3. n = op[f].item /\ stored' = stored
    BY <1>3, <2>2
  <2>4. Sole(f, s)' /\ (driver.strict => idle'[s] = 0)
    BY <1>1, <1>2, <2>2, HoldersStand DEF Sole
  <2>5. Lies(f, s)'
    <3>1. sessions'[s].closing # f
      BY <1>2, <1>10
    <3>2. f \in Holders(s)' /\ op'[f].late = None
      BY <1>1, <1>12
    <3> QED
      BY ONLY <2>4, <3>1, <3>2 DEF Lies
  <2>6. CASE x.err = None
    <3>1. /\ b.open /\ ~b.dead /\ ~b.aborted
          /\ b.pending = Sum2(a.pending, written)
      BY <1>3, <1>4, <2>2, <2>6 DEF Lands, Refuses
    <3>2. Has(b.pending, f, Did(f)')
      BY <1>2, <1>4, <1>7, <1>8, <2>2, <2>3, <2>6, <3>1
    <3>3. op'[f].phase = "run" => Item(f)' # "try"
      <4>1. ASSUME op'[f].phase = "run"
            PROVE  op'[f].item = op[f].item + 1 /\ op[f].item + 1 \in 1 .. Len(Body(f))
        BY <1>2, <1>8, <1>12, <2>6, <4>1, BodyFacts
      <4>2. Item(f)' = Body(f)[op'[f].item]
        BY <1>2 DEF Item, Body
      <4> QED
        BY <1>2, <4>1, <4>2, BodyFacts DEF Item
    <3>4. ~op'[f].void
      <4>1. op'[f].void = op[f].void
        BY <1>2, <2>6, ExecuteFlow
      <4>2. ~a.aborted
        BY <1>4, <2>6 DEF Refuses
      <4> QED
        BY <2>2, <4>1, <4>2
    <3>5. op'[f].phase \in {"run", "commit"} /\ op'[f].s = s
      BY <1>1, <1>8, <1>12, <2>6
    <3>6. Works(f)'
      BY ONLY <1>2, <2>4, <3>1, <3>2, <3>3, <3>4, <3>5 DEF Works
    <3> QED
      BY <1>8, <1>12, <2>2, <2>3, <2>5, <2>6, <3>6
  <2>7. CASE x.err # None
    <3>1. Did(f)' = Did(f) /\ op'[f].phase \in {"rollback", "undo"} /\ op'[f].s = s
      BY <1>1, <1>9, <1>12, <2>7
    <3>2. op'[f].phase = "undo" =>
            op[f].phase = "run" /\ op'[f].void = op[f].void /\ op'[f].item = op[f].item
      BY <1>2, <2>7, ExecuteFlow
    <3>3. op'[f].phase = "undo" => Item(f)' = Item(f)
      BY <1>2, <3>2 DEF Item, Body
    <3>4. op'[f].phase = "undo" /\ Item(f) = "try" /\ b.saved # None /\ ~b.dead =>
            b.open /\ Has(b.saved, f, Did(f)')
      BY <1>3, <2>2, <2>7, <3>1, <3>2 DEF Lands
    <3>5. ASSUME op'[f].phase = "undo", Item(f) = "attempt", b.open
          PROVE  /\ Has(b.pending, f, Did(f)')
                 /\ op'[f].void => b.aborted
                 /\ b.aborted => driver.aborts
      <4>1. ~x.applied
        BY <1>4, <1>6, <2>7, <3>5
      <4>2. Has(Sum2(a.pending, written), f, Did(f)')
        BY <1>2, <1>7, <2>2, <3>1, <4>1, HasAlike
      <4>3. a.aborted = op[f].void /\ (op[f].void => driver.aborts)
        <5>1. a.aborted \in BOOLEAN /\ op[f].void \in BOOLEAN
          BY <1>2 DEF Connections, Sends, Running, Calls
        <5>2. (op[f].void => a.aborted) /\ (a.aborted => op[f].void) /\ (op[f].void => driver.aborts)
          BY <1>2, <2>2, <3>2, <3>5 DEF Placed
        <5> QED
          BY <5>1, <5>2
      <4>4. b.pending = Sum2(a.pending, written) /\ (b.aborted = a.aborted \/ (b.aborted = TRUE /\ driver.aborts))
        BY <1>3, <2>2, <3>5 DEF Lands
      <4> QED
        BY <3>2, <3>5, <4>2, <4>3, <4>4
    <3>6. Works(f)'
      BY ONLY <1>2, <2>4, <3>1, <3>3, <3>4, <3>5 DEF Works
    <3> QED
      BY <1>9, <1>12, <2>2, <2>3, <2>5, <2>7, <3>6
  <2> QED
    BY <2>6, <2>7
<1>13. CASE driver.transacts /\ ~Call(f).tx
  <2>1. Away(f, s) /\ Has(stored, f, {})
    BY <1>1, <1>2, <1>13, NotBegun
  <2>2. ~Working(f)'
    BY <1>2, <1>13 DEF Working
  <2>3. n = op[f].item
    <3>1. ASSUME op[f].phase = "call", driver.variables
          PROVE  FALSE
      <4>1. Body(f)[op[f].item] = "inout"
        BY <1>2, <3>1, DriverFacts DEF Placed
      <4> QED
        BY <1>1, <1>2, <1>13, <3>1, <4>1 DEF Clear
    <3> QED
      BY <3>1
  <2>4. ~(a.open /\ x.applied)
    BY <1>2, <1>6, <1>13
  <2>5. Away(f, s)'
    <3>1. a.open => Alike(a.pending, Sum2(a.pending, written), f)
      BY <1>2, <1>4, <1>7, <2>4
    <3>2. a.open => Has(Sum2(a.pending, written), f, {})
      BY <2>1, <3>1, HasAlike DEF Away
    <3>3. Has(Zero, f, {})
      BY HasSum, Amount
    <3> QED
      BY <1>3, <2>1, <3>2, <3>3 DEF Lands, Away
  <2>6. Lies(f, s)'
    BY <1>2, <1>10, <2>5 DEF Lies
  <2>7. CASE x.err = None
    <3>1. x.applied /\ stored' = Sum2(stored, written) /\ op'[f].ok
      BY <1>3, <1>4, <1>8, <1>13, <2>4, <2>7
    <3>2. Did(f) = {}
      <4>1. op[f].item = 1
        BY <1>2, <1>13, BodyFacts
      <4> QED
        BY <1>2, <4>1 DEF Did
    <3>3. Has(stored', f, Did(f)')
      BY <1>2, <1>7, <1>8, <2>1, <2>3, <2>7, <3>1, <3>2
    <3>4. ~op'[f].void
      BY <1>2, <1>13, <2>7, ExecuteFlow DEF Sends, Running
    <3> QED
      BY <1>2, <1>10, <1>13, <2>2, <2>6, <3>1, <3>3, <3>4
  <2>8. CASE x.err # None
    <3>1. ~x.applied
      BY <1>4, <1>6, <2>4, <2>8
    <3>2. Has(stored', f, {})
      BY <1>2, <1>3, <1>7, <2>1, <3>1, HasAlike
    <3> QED
      BY <1>9, <1>13, <2>2, <2>6, <2>8, <3>2
  <2> QED
    BY <2>7, <2>8
<1> QED
  BY <1>2, <1>11, <1>12, <1>13, DriverFacts

LEMMA ExecuteKeeps ==
  ASSUME TypeInv, FlowInv, SessionInv, WholeInv,
         NEW f \in Flows, op[f].phase \in {"run", "call"}, NEW s \in Clients(f),
         NEW x \in Outcomes(s), NEW n \in {0, op[f].item}, Execute(f, s, x, n), Item(f) # "point",
         \/ n = op[f].item
         \/ op[f].phase = "call" /\ driver.variables /\ sessions[s].var # f
  PROVE  SessionInv' /\ WholeInv'
<1>1. Alters(f, s) /\ (Clear(f)' => Clear(f)) /\ s \in Sessions
  BY ClientTyped, ExecuteMoves
<1>2. Lent(s)'
  BY ExecuteLent
<1>3. \A g \in Flows \ {f} : Clear(g)' => /\ Alike(stored, stored', g)
                                          /\ driver.transacts => Same(g, s) \/ Off(g, s)
  BY ExecuteOthers
<1>4. Clear(f)' =>
        /\ ~driver.transacts => Has(stored', f, Did(f)')
        /\ driver.transacts =>
             /\ Has(stored', f, IF ~op'[f].ok \/ sessions'[s].closing = f \/ op'[f].void THEN {}
                                ELSE Did(f)')
             /\ Lies(f, s)'
             /\ Working(f)' => Works(f)'
  BY ExecuteOwn
<1> QED
  BY <1>1, <1>2, <1>3, <1>4, OneStep

(* While f works on s, a step of f leaves the other calls off s.           *)
LEMMA HeldOff ==
  ASSUME TypeInv, SessionInv, NEW f \in Flows, NEW g \in Flows \ {f}, NEW s \in Sessions,
         f \in Holders(s), op[f].late = None, Stand(f), work' = work, Clear(g)', Whole(g),
         driver.transacts, sessions'[s].closing # g, Away(g, s) => Away(g, s)'
  PROVE  Absent(g, s) /\ Off(g, s)
<1>1. op'[g] = op[g]
  BY StandFacts DEF Clear
<1>2. Clear(g)
  BY <1>1, Unmoved
<1>3. Absent(g, s)
  BY <1>2, HeldAlone
<1> QED
  BY <1>3, OffAbsent DEF Absent

LEMMA HeldLent ==
  ASSUME TypeInv, SessionInv, NEW f \in Flows, NEW s \in Sessions,
         f \in Holders(s), f \in Holders(s)', op'[f].late = None,
         Stand(f), work' = work, idle'[s] = idle[s],
         sessions'[s].closing = sessions[s].closing, sessions'[s].open = sessions[s].open,
         driver.shared => ~sessions'[s].dead /\ ~sessions'[s].aborted
  PROVE  Lent(s)' /\ sessions[s].closing = None
<1>1. /\ \A h \in Holders(s)' : h = f \/ (h \in Holders(s) /\ op'[h].late = op[h].late)
      /\ driver' = driver /\ Lent(s)
  BY HoldersStand DEF driver, SessionInv
<1>2. sessions[s].closing = None
  BY <1>1 DEF Lent
<1>3. ~driver.awaits => \A g, h \in Holders(s)' : g = h
  BY <1>1 DEF Lent
<1> QED
  BY <1>1, <1>2, <1>3 DEF Lent

LEMMA CallFirstKeeps ==
  ASSUME TypeInv, FlowInv, SessionInv, WholeInv, NEW f \in Flows, CallFirst(f)
  PROVE  SessionInv' /\ WholeInv'
<1>1. PICK s \in Clients(f) :
        IF Refuses(s) THEN \E x \in Answers(s) : Execute(f, s, x, op[f].item)
        ELSE /\ sessions' = [sessions EXCEPT ![s] =
                               IF driver.variables THEN [@ EXCEPT !.var = f]
                               ELSE [@ EXCEPT !.aborted = sessions[s].open /\ driver.aborts]]
             /\ op' = [g \in Flows |-> IF g = f THEN [op[f] EXCEPT !.phase = "call"] ELSE Meets(g, s)]
             /\ UNCHANGED <<work, idle, stored, faults>>
  BY DEF CallFirst
<1>2. /\ op[f].phase = "run" /\ s \in Sessions /\ work \in Workloads /\ sessions[s] \in Connections
      /\ IF Call(f).tx THEN s = op[f].s ELSE op[f].s = None
      /\ \/ Item(f) = "inout" /\ driver.variables
         \/ Item(f) = "function" /\ driver.falls
      /\ op[f] \in Calls
  BY ClientTyped DEF CallFirst, TypeInv
<1>3. CASE Refuses(s)
  <2>1. PICK x \in Answers(s) : Execute(f, s, x, op[f].item)
    BY <1>1, <1>3
  <2>2. x \in Outcomes(s) /\ Item(f) # "point"
    BY <1>2 DEF Outcomes
  <2> QED
    BY <1>2, <2>1, <2>2, ExecuteKeeps
<1>4. CASE ~Refuses(s)
  <2> DEFINE a == sessions[s]
             b == sessions'[s]
  <2>1. /\ sessions' = [sessions EXCEPT ![s] =
                          IF driver.variables THEN [@ EXCEPT !.var = f]
                          ELSE [@ EXCEPT !.aborted = sessions[s].open /\ driver.aborts]]
        /\ op' = [g \in Flows |-> IF g = f THEN [op[f] EXCEPT !.phase = "call"] ELSE Meets(g, s)]
        /\ UNCHANGED <<work, idle, stored, faults>>
    BY <1>1, <1>4
  <2>2. Recorded(f) /\ op'[f] = [op[f] EXCEPT !.phase = "call"]
    BY <1>2, <2>1, CallFirstFlow
  <2>3. ~driver.shared /\ driver.transacts /\ driver' = driver /\ Stand(f) /\ Running(f, op[f])
    BY <1>2, <2>1, <2>2, DriverFacts, AtWork DEF driver, Recorded
  <2>4. /\ b.open = a.open /\ b.pending = a.pending /\ b.saved = a.saved /\ b.closing = a.closing
        /\ b.dead = a.dead /\ (driver.variables => b.var = f)
        /\ b.aborted => a.aborted \/ a.open
        /\ \A t \in Sessions \ {s} : sessions'[t] = sessions[t]
    BY <1>2, <2>1 DEF TypeInv, Connections
  <2> HIDE DEF a, b
  <2>5. /\ op'[f].phase = "call" /\ op'[f].void = op[f].void /\ op'[f].s = op[f].s /\ op'[f].late = None /\ op[f].late = None
        /\ op'[f].item = op[f].item /\ op'[f].skipped = op[f].skipped /\ ~op'[f].ok /\ ~op[f].ok
        /\ op'[f].failed = op[f].failed /\ Marked(op'[f], op[f])
    BY <1>2, <2>2, <2>3 DEF Calls, Marked, Running
  <2>6. /\ \A t \in Sessions \ {s} : f \notin Holders(t)'
        /\ f \in Holders(s) <=> Call(f).tx
        /\ f \in Holders(s)' <=> Call(f).tx
    BY <1>2, <2>5, Marks DEF Holders
  <2>7. Alters(f, s)
    BY <1>2, <2>1, <2>2, <2>4, <2>6 DEF Alters
  <2>8. a.closing = None
    <3>1. CASE Call(f).tx
      BY <1>2, <2>6, <3>1 DEF SessionInv, Lent, a
    <3>2. CASE ~Call(f).tx
      BY <1>2, <3>2, FreeSession DEF Clients, a
    <3> QED
      BY <3>1, <3>2
  <2>9. Lent(s)'
    <3>1. CASE Call(f).tx
      BY <1>2, <2>1, <2>3, <2>4, <2>5, <2>6, <3>1, HeldLent DEF a, b
    <3>2. CASE ~Call(f).tx
      <4>1. /\ \A h \in Holders(s)' : h \in Holders(s) /\ op'[h].late = op[h].late
            /\ \A h \in Holders(s) : h \in Holders(s)' /\ op'[h].late = op[h].late
        BY <2>3, <2>6, <3>2, HoldersStand
      <4>2. Lent(s)
        BY <1>2 DEF SessionInv
      <4>3. ASSUME b.open \/ b.dead \/ b.aborted
            PROVE  \E h \in Holders(s)' : op'[h].late = None
        <5>1. PICK h \in Holders(s) : op[h].late = None
          BY <2>3, <2>4, <2>8, <4>2, <4>3 DEF Lent, a
        <5> QED
          BY <4>1, <5>1
      <4>4. b.closing = None /\ idle'[s] = idle[s]
        BY <2>1, <2>4, <2>8
      <4> QED
        BY <2>3, <4>1, <4>2, <4>3, <4>4 DEF Lent, b
    <3> QED
      BY <3>1, <3>2
  <2>10. ASSUME NEW g \in Flows \ {f}, Clear(g)'
         PROVE  Alike(stored, stored', g) /\ Off(g, s)
    <3>1. op[g] \in Calls /\ op'[g] = Meets(g, s)
      BY <2>1 DEF TypeInv
    <3>2. g \in Holders(s) => op'[g].struck
      BY <1>2, <2>3, <3>1, MeetsFacts DEF Calls
    <3>3. op'[g] = op[g] /\ Clear(g) /\ Whole(g) /\ g \notin Holders(s)
      BY <2>1, <2>3, <2>10, <3>2, StandFacts, Unmoved DEF Clear, WholeInv
    <3>4. Absent(g, s)
      BY <1>2, <2>3, <2>8, <3>3, Marks, Unheld DEF a
    <3>5. Away(g, s)' /\ sessions'[s].closing # g
      BY <2>4, <2>8, <3>4, Marks DEF Absent, Away, a, b
    <3> QED
      BY <2>1, <3>4, <3>5, OffAbsent DEF Alike
  <2>11. Clear(f)' => Clear(f)
    BY <2>1, <2>5 DEF Clear, Marked, Call, Body, driver
  <2>12. ASSUME Clear(f)'
         PROVE  Has(stored', f, {}) /\ Lies(f, s)' /\ (Working(f)' => Works(f)')
    <3>1. CASE Call(f).tx
      <4>1. Working(f) /\ Whole(f)
        BY <1>2, <2>5, <3>1 DEF Working, Holding, WholeInv
      <4>2. /\ a.open /\ ~a.dead /\ Has(a.pending, f, Did(f)) /\ Sole(f, s)
            /\ driver.strict => idle[s] = 0
            /\ Has(stored, f, {})
            /\ op[f].void => a.aborted
        BY <1>2, <2>3, <2>5, <2>11, <2>12, <3>1, <4>1 DEF Whole, Works, a
      <4>3. Did(f)' = Did(f)
        BY <1>2, <2>1, <2>3, <2>5, DidSame DEF Running
      <4>4. Sole(f, s)'
        BY <2>3, <4>2, HoldersStand DEF Sole
      <4>5. Works(f)'
        <5>1. op'[f].s = s /\ op'[f].phase = "call" /\ idle'[s] = idle[s] /\ driver' = driver
          BY <1>2, <2>1, <2>3, <2>5, <3>1
        <5>2. b.open /\ ~b.dead /\ Has(b.pending, f, Did(f)') /\ (driver.variables => b.var = f)
          BY <2>4, <4>2, <4>3
        <5>3. ~op'[f].void
          BY <1>4, <2>5, <4>2 DEF Refuses, a
        <5> QED
          BY ONLY <4>2, <4>4, <5>1, <5>2, <5>3 DEF Works, b
      <4>6. Lies(f, s)'
        <5>1. sessions'[s].closing # f
          BY <2>4, <2>8, Marks DEF b
        <5>2. f \in Holders(s)' /\ op'[f].late = None
          BY <2>5, <2>6, <3>1
        <5> QED
          BY ONLY <4>4, <5>1, <5>2 DEF Lies
      <4> QED
        BY <2>1, <4>2, <4>5, <4>6
    <3>2. CASE ~Call(f).tx
      <4>1. Away(f, s) /\ Has(stored, f, {})
        BY <1>2, <2>3, <2>5, <2>11, <2>12, <3>2, NotBegun DEF WholeInv
      <4>2. Away(f, s)' /\ sessions'[s].closing # f
        BY <2>4, <2>8, <4>1, Marks DEF Away, a, b
      <4>3. ~Working(f)'
        BY <2>1, <3>2 DEF Working, Call
      <4> QED
        BY <2>1, <4>1, <4>2, <4>3 DEF Lies
    <3> QED
      BY <3>1, <3>2
  <2> QED
    BY <1>2, <2>3, <2>5, <2>7, <2>9, <2>10, <2>11, <2>12, OneStep
<1> QED
  BY <1>3, <1>4

-----------------------------------------------------------------------------
(* SAVEPOINT and ROLLBACK TO: the transaction goes on, on its session.     *)

LEMMA HeldKeeps ==
  ASSUME TypeInv, FlowInv, SessionInv, WholeInv, NEW f \in Flows, NEW s \in Sessions,
         Call(f).tx, op[f].s = s, op[f].phase \in Holding, op[f].late = None,
         Recorded(f), op'[f].unsure = op[f].unsure, op'[f].joined = op[f].joined,
         op[f].struck => op'[f].struck, UNCHANGED <<work, stored, idle>>,
         op'[f].s = s, op'[f].phase \in Holding, op'[f].late = None, ~op'[f].ok,
         op'[f].failed = op[f].failed,
         \A t \in Sessions \ {s} : sessions'[t] = sessions[t],
         sessions'[s].closing = sessions[s].closing, sessions'[s].open = sessions[s].open,
         sessions'[s].dead = sessions[s].dead, sessions'[s].aborted => sessions[s].aborted,
         \A g \in Flows \ {f} : Away(g, s) => Away(g, s)',
         ~driver.transacts => Did(f)' = Did(f),
         Works(f) /\ Clear(f)' /\ driver.transacts => Works(f)'
  PROVE  SessionInv' /\ WholeInv'
<1>1. /\ f \in Holders(s) /\ f \in Holders(s)' /\ \A t \in Sessions \ {s} : f \notin Holders(t)'
      /\ Stand(f) /\ driver' = driver
  BY DEF Holders, Holding, Recorded, driver
<1>2. Alters(f, s)
  BY <1>1 DEF Alters, Holding
<1>3. Lent(s)' /\ sessions[s].closing = None
  <2>1. driver.shared => ~sessions'[s].dead /\ ~sessions'[s].aborted
    BY DEF SessionInv, Lent
  <2> QED
    BY <1>1, <2>1, HeldLent
<1>4. ASSUME NEW g \in Flows \ {f}, Clear(g)'
      PROVE  Alike(stored, stored', g) /\ (driver.transacts => Off(g, s))
  BY <1>1, <1>3, <1>4, HeldOff, Marks DEF WholeInv, Alike
<1>5. Clear(f)' => Clear(f)
  BY <1>1 DEF Clear, Call, Body, driver
<1>6. ASSUME Clear(f)'
      PROVE  /\ ~driver.transacts => Has(stored', f, Did(f)')
             /\ driver.transacts => Has(stored', f, {}) /\ Lies(f, s)' /\ Works(f)'
  <2>1. Working(f) /\ Whole(f) /\ ~op[f].ok
    BY DEF Working, WholeInv, FlowInv, Placed, Holding
  <2>2. CASE ~driver.transacts
    BY <1>5, <1>6, <2>1, <2>2 DEF Whole
  <2>3. CASE driver.transacts
    <3>1. Has(stored, f, {}) /\ Works(f)'
      BY <1>5, <1>6, <2>1, <2>3 DEF Whole
    <3>2. Sole(f, s)'
      BY <3>1 DEF Works
    <3>3. sessions'[s].closing # f
      BY <1>3, Marks
    <3>4. Lies(f, s)'
      BY <1>1, <3>2, <3>3 DEF Lies
    <3> QED
      BY <2>3, <3>1, <3>4
  <2> QED
    BY <2>2, <2>3
<1> QED
  BY <1>2, <1>3, <1>4, <1>5, <1>6, DriverFacts, OneStep DEF TypeInv

LEMMA SavepointKeeps ==
  ASSUME TypeInv, FlowInv, SessionInv, WholeInv, NEW f \in Flows, Savepoint(f)
  PROVE  SessionInv' /\ WholeInv'
<1>1. /\ Recorded(f) /\ Marked(op'[f], op[f])
      /\ Call(f).tx /\ op[f].phase = "run" /\ Item(f) = "point" /\ op[f].s \in Sessions
      /\ \/ /\ Continues(f) /\ op'[f].void = op[f].void
            /\ sessions' = [sessions EXCEPT ![op[f].s].saved = sessions[op[f].s].pending]
         \/ Fails1(f) /\ UNCHANGED sessions
      /\ UNCHANGED <<work, stored, idle>> /\ driver' = driver
  BY SavepointFlow DEF Savepoint, driver
<1>2. PICK s \in Sessions : s = op[f].s
  BY <1>1
<1>3. /\ Running(f, op[f]) /\ op[f].late = None /\ sessions[s] \in Connections
      /\ ~op[f].ok /\ op[f].item \in 1 .. Len(Body(f))
  BY <1>1, AtWork DEF Running, TypeInv
<1>4. /\ op'[f].s = s /\ op'[f].phase \in {"run", "commit", "rollback"} /\ op'[f].late = None /\ ~op'[f].ok
      /\ op'[f].failed = op[f].failed
  BY <1>1, <1>2 DEF Continues, Fails1
<1> DEFINE a == sessions[s]
           b == sessions'[s]
<1>5. /\ b.open = a.open /\ b.closing = a.closing /\ b.dead = a.dead /\ b.aborted = a.aborted
      /\ b.pending = a.pending /\ b.saved \in {a.saved, a.pending}
      /\ \A t \in Sessions \ {s} : sessions'[t] = sessions[t]
  BY <1>1, <1>2, <1>3 DEF TypeInv, Connections
<1>6. \A g \in Flows \ {f} : Away(g, s) => Away(g, s)'
  BY <1>5 DEF Away
<1>7. Did(f)' = Did(f)
  <2>1. CASE Continues(f)
    BY <1>1, <1>3, <2>1, DidMore DEF Continues
  <2>2. CASE Fails1(f)
    BY <1>1, <1>3, <2>2, DidSame DEF Fails1
  <2> QED
    BY <1>1, <2>1, <2>2
<1>8. ASSUME Works(f)
      PROVE  Works(f)'
  <2>1. /\ Sole(f, s) /\ (driver.strict => idle[s] = 0)
        /\ a.open /\ ~a.dead /\ Has(a.pending, f, Did(f))
        /\ (op[f].void => a.aborted) /\ (a.aborted => op[f].void)
    BY <1>1, <1>2, <1>8 DEF Works
  <2>2. Sole(f, s)'
    BY <1>1, <2>1, HoldersStand DEF Sole, Recorded
  <2>3. CASE /\ Continues(f) /\ op'[f].void = op[f].void
             /\ sessions' = [sessions EXCEPT ![op[f].s].saved = sessions[op[f].s].pending]
    <3>1. b.saved = a.pending /\ a.pending # None
      BY <1>2, <1>3, <2>3, Marks DEF TypeInv, Connections
    <3>2. /\ b.open /\ ~b.dead /\ Has(b.pending, f, Did(f)')
          /\ (op'[f].void => b.aborted) /\ (b.aborted => op'[f].void)
          /\ b.saved # None /\ Has(b.saved, f, Did(f)')
      BY <1>5, <1>7, <2>1, <2>3, <3>1
    <3>3. op'[f].s = s /\ op'[f].phase \in {"run", "commit"} /\ (driver.strict => idle'[s] = 0)
      BY <1>1, <1>4, <2>1, <2>3 DEF Continues
    <3> QED
      BY ONLY <1>1, <2>2, <3>2, <3>3 DEF Works
  <2>4. CASE Fails1(f)
    <3>1. op'[f].s = s /\ op'[f].phase = "rollback" /\ (driver.strict => idle'[s] = 0)
      BY <1>1, <1>4, <2>1, <2>4 DEF Fails1
    <3> QED
      BY ONLY <1>1, <2>2, <3>1 DEF Works
  <2> QED
    BY <1>1, <2>3, <2>4
<1> QED
  BY <1>1, <1>2, <1>3, <1>4, <1>5, <1>6, <1>7, <1>8, HeldKeeps DEF Holding, Marked

LEMMA RollbackToKeeps ==
  ASSUME TypeInv, FlowInv, SessionInv, WholeInv, NEW f \in Flows, RollbackTo(f)
  PROVE  SessionInv' /\ WholeInv'
<1>1. /\ Recorded(f) /\ Marked(op'[f], op[f])
      /\ Call(f).tx /\ op[f].phase = "undo" /\ op[f].s \in Sessions
      /\ op[f].item \in op[f].skipped /\ Item(f) = "try"
      /\ UNCHANGED <<work, stored, idle>> /\ driver' = driver
  BY RollbackToFlow DEF RollbackTo, driver
<1>2. PICK s \in Sessions : s = op[f].s
  BY <1>1
<1> DEFINE a == sessions[s]
           b == sessions'[s]
<1>3. \/ /\ Continues(f) /\ ~op'[f].void /\ a.saved # None /\ ~a.dead
         /\ sessions' = [sessions EXCEPT ![s].pending = a.saved, ![s].aborted = FALSE]
      \/ Fails1(f) /\ sessions' = sessions
  BY <1>2, RollbackToFlow
<1>4. /\ Running(f, op[f]) /\ op[f].late = None /\ a \in Connections
      /\ ~op[f].ok /\ op[f].item \in 1 .. Len(Body(f)) /\ work \in Workloads
  BY <1>1, AtWork DEF Running, TypeInv
<1>5. /\ op'[f].s = s /\ op'[f].phase \in {"run", "commit", "rollback"} /\ op'[f].late = None /\ ~op'[f].ok
      /\ op'[f].failed = op[f].failed
  BY <1>2, <1>3 DEF Continues, Fails1
<1>6. /\ b.open = a.open /\ b.closing = a.closing /\ b.dead = a.dead /\ (b.aborted => a.aborted)
      /\ b.saved = a.saved
      /\ \/ Continues(f) /\ ~op'[f].void /\ a.saved # None /\ ~a.dead /\ b.pending = a.saved /\ ~b.aborted
         \/ Fails1(f) /\ b.pending = a.pending
      /\ \A t \in Sessions \ {s} : sessions'[t] = sessions[t]
  <2>1. CASE /\ Continues(f) /\ ~op'[f].void /\ a.saved # None /\ ~a.dead
             /\ sessions' = [sessions EXCEPT ![s].pending = a.saved, ![s].aborted = FALSE]
    <3>1. b = [a EXCEPT !.pending = a.saved, !.aborted = FALSE]
      BY <1>4, <2>1 DEF TypeInv, Connections
    <3>2. \A t \in Sessions \ {s} : sessions'[t] = sessions[t]
      BY <2>1 DEF TypeInv
    <3> HIDE DEF a, b
    <3> QED
      BY <1>4, <2>1, <3>1, <3>2 DEF Connections
  <2>2. CASE Fails1(f) /\ sessions' = sessions
    BY <2>2
  <2> QED
    BY <1>3, <2>1, <2>2
<1>7. \A g \in Flows \ {f} : Away(g, s) => Away(g, s)'
  BY <1>6 DEF Away
<1>8. Did(f)' = Did(f)
  <2>1. CASE Continues(f)
    <3>1. Body(f)' = Body(f) /\ Len(Body(f)) \in Int
      BY <1>1 DEF Body, Call
    <3>2. Did(f) = {n \in 1 .. Len(Body(f)) : Body(f)[n] # "point" /\ n \notin op[f].skipped /\ n < op[f].item}
      BY <1>1, <1>4 DEF Did
    <3>3. Did(f)' = {n \in 1 .. Len(Body(f)) : Body(f)[n] # "point" /\ n \notin op[f].skipped /\ n <= op[f].item}
      BY <1>4, <2>1, <3>1 DEF Did, Continues
    <3> QED
      BY <1>1, <1>4, <3>2, <3>3
  <2>2. CASE Fails1(f)
    BY <1>1, <1>4, <2>2, DidSame DEF Fails1
  <2> QED
    BY <1>3, <2>1, <2>2
<1>9. ASSUME Works(f)
      PROVE  Works(f)'
  <2>1. /\ Sole(f, s) /\ (driver.strict => idle[s] = 0)
        /\ a.saved # None /\ ~a.dead => a.open /\ Has(a.saved, f, Did(f))
    BY <1>1, <1>2, <1>9 DEF Works
  <2>2. Sole(f, s)'
    BY <1>1, <2>1, HoldersStand DEF Sole, Recorded
  <2>3. CASE Continues(f) /\ ~op'[f].void /\ a.saved # None /\ ~a.dead /\ b.pending = a.saved /\ ~b.aborted
    <3>1. b.open /\ ~b.dead /\ ~b.aborted /\ ~op'[f].void /\ Has(b.pending, f, Did(f)')
      BY <1>6, <1>8, <2>1, <2>3
    <3>2. op'[f].phase = "run" => Item(f)' # "try"
      <4>1. ASSUME op'[f].phase = "run"
            PROVE  op'[f].item = op[f].item + 1 /\ op[f].item + 1 \in 1 .. Len(Body(f))
        BY <1>4, <2>3, <4>1, BodyFacts DEF Continues
      <4>2. Item(f)' = Body(f)[op'[f].item]
        BY <1>1 DEF Item, Body, Call
      <4> QED
        BY <1>1, <1>4, <4>1, <4>2, BodyFacts DEF Item
    <3>3. op'[f].s = s /\ op'[f].phase \in {"run", "commit"} /\ (driver.strict => idle'[s] = 0)
      BY <1>1, <1>5, <2>1, <2>3 DEF Continues
    <3> QED
      BY ONLY <1>1, <2>2, <3>1, <3>2, <3>3 DEF Works
  <2>4. CASE Fails1(f)
    <3>1. op'[f].s = s /\ op'[f].phase = "rollback" /\ (driver.strict => idle'[s] = 0)
      BY <1>1, <1>5, <2>1, <2>4 DEF Fails1
    <3> QED
      BY ONLY <1>1, <2>2, <3>1 DEF Works
  <2> QED
    BY <1>6, <2>3, <2>4
<1> QED
  BY <1>1, <1>2, <1>4, <1>5, <1>6, <1>7, <1>8, <1>9, HeldKeeps DEF Holding, Marked

LEMMA CatchKeeps ==
  ASSUME TypeInv, FlowInv, SessionInv, WholeInv, NEW f \in Flows, Catch(f)
  PROVE  SessionInv' /\ WholeInv'
<1>1. /\ Recorded(f) /\ Continues(f)
      /\ op'[f].unsure = op[f].unsure /\ op'[f].joined = op[f].joined
      /\ op'[f].struck = (op[f].struck \/ (driver.transacts /\ (~sessions[op[f].s].open \/ sessions[op[f].s].dead)))
      /\ op'[f].void = (op[f].void \/ (driver.aborts /\ sessions[op[f].s].aborted))
      /\ Call(f).tx /\ op[f].phase = "undo" /\ op[f].s \in Sessions
      /\ op[f].item \in op[f].skipped /\ Item(f) = "attempt"
      /\ UNCHANGED <<work, sessions, stored, idle>> /\ driver' = driver
  BY CatchFlow DEF Catch, driver
<1>2. PICK s \in Sessions : s = op[f].s
  BY <1>1
<1> DEFINE a == sessions[s]
<1>3. /\ Running(f, op[f]) /\ op[f].late = None /\ a \in Connections
      /\ ~op[f].ok /\ op[f].item \in 1 .. Len(Body(f)) /\ work \in Workloads
  BY <1>1, AtWork DEF Running, TypeInv
<1>4. /\ op'[f].s = s /\ op'[f].phase \in {"run", "commit"} /\ op'[f].late = None /\ ~op'[f].ok
      /\ op'[f].failed = op[f].failed
  BY <1>1, <1>2 DEF Continues
<1>5. \A g \in Flows \ {f} : Away(g, s) => Away(g, s)'
  BY <1>1 DEF Away
<1>6. Did(f)' = Did(f)
  <2>1. Body(f)' = Body(f) /\ Len(Body(f)) \in Int
    BY <1>1 DEF Body, Call
  <2>2. Did(f) = {n \in 1 .. Len(Body(f)) : Body(f)[n] # "point" /\ n \notin op[f].skipped /\ n < op[f].item}
    BY <1>1, <1>3 DEF Did
  <2>3. Did(f)' = {n \in 1 .. Len(Body(f)) : Body(f)[n] # "point" /\ n \notin op[f].skipped /\ n <= op[f].item}
    BY <1>1, <1>3, <1>4, <2>1 DEF Did, Continues
  <2> QED
    BY <1>1, <1>3, <2>2, <2>3
<1>7. ASSUME Works(f), Clear(f)', driver.transacts
    PROVE  Works(f)'
  <2>1. a.open /\ ~a.dead
    BY <1>1, <1>2, <1>7 DEF Clear
  <2>2. /\ Sole(f, s) /\ (driver.strict => idle[s] = 0)
        /\ Has(a.pending, f, Did(f))
        /\ op[f].void => a.aborted
        /\ a.aborted => driver.aborts
    BY <1>1, <1>2, <1>7, <2>1 DEF Works
  <2>3. Sole(f, s)'
    BY <1>1, <2>2, HoldersStand DEF Sole, Recorded
  <2>4. (op'[f].void => a.aborted) /\ (a.aborted => op'[f].void)
    BY <1>1, <1>2, <2>2
  <2>5. op'[f].phase = "run" => Item(f)' # "try"
    <3>1. ASSUME op'[f].phase = "run"
          PROVE  op'[f].item = op[f].item + 1 /\ op[f].item + 1 \in 1 .. Len(Body(f))
      BY <1>1, <1>3, <3>1, BodyFacts DEF Continues
    <3>2. Item(f)' = Body(f)[op'[f].item]
      BY <1>1 DEF Item, Body, Call
    <3> QED
      BY <1>1, <1>3, <3>1, <3>2, BodyFacts DEF Item
  <2>6. Has(a.pending, f, Did(f)')
    BY <1>6, <2>2
  <2>7. sessions'[s] = a /\ idle'[s] = idle[s] /\ driver' = driver
    BY <1>1
  <2> QED
    BY ONLY <1>4, <2>1, <2>2, <2>3, <2>4, <2>5, <2>6, <2>7 DEF Works
<1> QED
  BY <1>1, <1>2, <1>3, <1>4, <1>5, <1>6, <1>7, HeldKeeps DEF Holding

-----------------------------------------------------------------------------
(* COMMIT and ROLLBACK: the session is clean, and free.                    *)

LEMMA EndedLent ==
  ASSUME TypeInv, SessionInv, NEW f \in Flows, NEW s \in Sessions, f \in Holders(s), Stand(f), work' = work,
         sessions'[s].closing = None, ~sessions'[s].open, ~sessions'[s].dead, ~sessions'[s].aborted,
         idle' = Released(s), f \notin Holders(s)' \/ driver.awaits
  PROVE  Lent(s)'
<1>1. /\ \A h \in Holders(s)' : h = f \/ (h \in Holders(s) /\ op'[h].late = op[h].late)
      /\ driver' = driver /\ Lent(s) /\ idle[s] \in Nat /\ work \in Workloads
  BY HoldersStand DEF driver, SessionInv, TypeInv
<1>2. idle'[s] = IF driver.shared \/ ReleaseThrows(s) THEN idle[s] ELSE idle[s] + 1
  BY DEF Released, TypeInv
<1>3. driver.strict => idle'[s] <= 1
  <2>1. driver.strict => driver.lends
    BY <1>1, DriverFacts
  <2> QED
    BY <1>1, <1>2, <2>1 DEF Lent, ReleaseThrows
<1>4. ~driver.awaits => idle'[s] = 1 /\ Holders(s)' = {}
  <2> SUFFICES ASSUME ~driver.awaits
               PROVE  idle'[s] = 1 /\ Holders(s)' = {}
    OBVIOUS
  <2>1. \A h \in Holders(s) : h = f
    BY <1>1 DEF Lent
  <2>2. idle[s] = 0 /\ ~driver.shared /\ ~driver.lends
    BY <1>1, DriverFacts DEF Lent
  <2> QED
    BY <1>1, <1>2, <2>1, <2>2 DEF ReleaseThrows
<1> QED
  BY <1>1, <1>3, <1>4, DriverFacts DEF Lent

LEMMA ReleasedElsewhere ==
  ASSUME TypeInv, NEW s \in Sessions, idle' = Released(s)
  PROVE  \A t \in Sessions \ {s} : idle'[t] = idle[t]
BY DEF TypeInv, Released

(* What a step that ends the transaction of f on s leaves of the others.   *)
LEMMA EndedOthers ==
  ASSUME TypeInv, FlowInv, SessionInv, WholeInv, NEW f \in Flows, NEW s \in Sessions,
         f \in Holders(s), op[f].late = None, Stand(f), work' = work,
         stored' \in {stored, IF sessions[s].open THEN Sum2(stored, sessions[s].pending) ELSE stored},
         NEW g \in Flows \ {f}, Clear(g)', sessions'[s].closing # g, Away(g, s) => Away(g, s)'
  PROVE  Alike(stored, stored', g) /\ (driver.transacts => Off(g, s))
<1>1. sessions[s].pending \in Amounts /\ stored \in Amounts /\ driver.transacts \in BOOLEAN
  BY DriverFacts DEF TypeInv, Connections
<1>2. CASE driver.transacts
  <2>1. Absent(g, s) /\ Off(g, s)
    BY <1>2, HeldOff DEF WholeInv
  <2>2. Alike(stored, Sum2(stored, sessions[s].pending), g)
    BY <1>1, <2>1, HasSum DEF Absent, Away
  <2> QED
    BY <2>1, <2>2 DEF Alike
<1>3. CASE ~driver.transacts
  BY <1>3 DEF SessionInv, Lent, Alike
<1> QED
  BY <1>1, <1>2, <1>3

LEMMA CommitKeeps ==
  ASSUME TypeInv, FlowInv, SessionInv, WholeInv, NEW f \in Flows, Commit(f)
  PROVE  SessionInv' /\ WholeInv'
<1>1. /\ Recorded(f) /\ Running(f, op[f]) /\ Call(f).tx /\ op[f].phase = "commit"
      /\ op'[f].unsure = op[f].unsure
      /\ LET ss == sessions[op[f].s]
         IN IF ss.dead \/ NoneOpen(op[f].s) \/ ReleaseThrows(op[f].s) THEN FailedLate(f)
            ELSE Resolved(f)
  BY CommitFlow
<1>2. PICK s \in Sessions : s = op[f].s
  BY <1>1 DEF Running
<1> DEFINE a == sessions[s]
           b == sessions'[s]
<1>3. /\ stored' = IF a.open /\ ~a.aborted THEN Sum2(stored, a.pending) ELSE stored
      /\ sessions' = [sessions EXCEPT ![s] = [Clean EXCEPT !.var = a.var]]
      /\ idle' = Released(s) /\ work' = work /\ driver' = driver /\ driver.awaits
  BY <1>2 DEF Commit, driver
<1>4. /\ op[f].late = None /\ ~op[f].ok /\ op[f] \in Calls /\ Stand(f) /\ Lent(s) /\ work \in Workloads
      /\ a.pending \in Amounts /\ stored \in Amounts
  BY <1>1 DEF Running, Recorded, SessionInv, TypeInv, Connections
<1>5. f \in Holders(s)
  BY <1>1, <1>2 DEF Holders
<1>6. /\ op'[f].s = s /\ op'[f].struck = op[f].struck /\ op'[f].joined = op[f].joined
      /\ op'[f].failed = op[f].failed
  BY <1>1, <1>2, <1>4 DEF FailedLate, Resolved, Calls
<1>7. b = [Clean EXCEPT !.var = a.var] /\ \A t \in Sessions \ {s} : sessions'[t] = sessions[t]
  BY <1>3 DEF TypeInv
<1>8. /\ b.closing = None /\ ~b.open /\ ~b.dead /\ ~b.aborted
      /\ \A g \in Flows : Away(g, s)'
  <2>1. b.closing = None /\ ~b.open /\ ~b.dead /\ ~b.aborted
    BY <1>7 DEF Clean
  <2>2. sessions'[s] \in {Clean, [Clean EXCEPT !.dead = a.var], [Clean EXCEPT !.var = a.var]}
    BY <1>7
  <2>3. ASSUME NEW g \in Flows
        PROVE  Away(g, s)'
    BY <2>2, CleanAway
  <2> QED
    BY <2>1, <2>3
<1>9. Alters(f, s)
  <2>1. \A t \in Sessions \ {s} : f \notin Holders(t)'
    BY <1>6 DEF Holders
  <2> QED
    BY <1>1, <1>2, <1>3, <1>7, <2>1, ReleasedElsewhere DEF Alters
<1>10. Lent(s)'
  BY <1>3, <1>4, <1>5, <1>8, EndedLent
<1>11. ASSUME NEW g \in Flows \ {f}, Clear(g)'
       PROVE  Alike(stored, stored', g) /\ (driver.transacts => Off(g, s))
  <2>1. stored' \in {stored, IF a.open THEN Sum2(stored, a.pending) ELSE stored}
    BY <1>3
  <2> QED
    BY <1>3, <1>4, <1>5, <1>8, <1>11, <2>1, EndedOthers, Marks
<1>12. Clear(f)' => Clear(f)
  BY <1>1, <1>3, <1>6 DEF Clear, Call, Body
<1>13. ASSUME Clear(f)'
       PROVE  /\ Has(stored', f, IF op'[f].void THEN {} ELSE Did(f)') /\ ~Working(f)' /\ op'[f].ok
              /\ op'[f].void => driver.transacts
  <2>1. Whole(f) /\ Working(f)
    BY <1>1, <1>4 DEF WholeInv, Working, Holding
  <2>0. driver.transacts \in BOOLEAN /\ (op[f].void => driver.aborts /\ driver.transacts)
    BY <1>1, <1>4, DriverFacts DEF Running
  <2>2. /\ ~a.dead /\ ~NoneOpen(s) /\ ~ReleaseThrows(s)
        /\ Has(stored', f, IF op[f].void THEN {} ELSE Did(f))
    <3>1. CASE driver.transacts
      <4>1. Works(f) /\ Has(stored, f, {})
        BY <1>4, <1>12, <1>13, <2>1, <3>1 DEF Whole
      <4>2. a.open /\ ~a.dead /\ Has(a.pending, f, Did(f)) /\ (driver.strict => idle[s] = 0)
            /\ (op[f].void => a.aborted) /\ (a.aborted => op[f].void)
        BY <1>1, <1>2, <4>1 DEF Works
      <4>3. stored' = IF op[f].void THEN stored ELSE Sum2(stored, a.pending)
        BY <1>3, <4>2
      <4>4. Has(stored', f, IF op[f].void THEN {} ELSE Did(f))
        BY <1>4, <4>1, <4>2, <4>3, HasSum
      <4> QED
        BY <4>2, <4>4 DEF NoneOpen, ReleaseThrows
    <3>2. CASE ~driver.transacts
      <4>1. ~op[f].void
        BY <2>0, <3>2
      <4> QED
        BY <1>3, <1>4, <1>12, <1>13, <2>1, <3>2, <4>1, DriverFacts DEF Whole, Lent, NoneOpen, ReleaseThrows
    <3> QED
      BY <1>4, <3>1, <3>2, DriverFacts
  <2>3. op'[f] = [op[f] EXCEPT !.phase = "done", !.ok = TRUE]
    BY <1>1, <1>2, <2>2 DEF Resolved
  <2>4. op'[f].phase = "done" /\ op'[f].ok /\ op'[f].skipped = op[f].skipped /\ op'[f].void = op[f].void
    BY <1>4, <2>3 DEF Calls
  <2>5. Did(f)' = Did(f)
    BY <1>1, <1>3, <2>4 DEF Did, Body, Call
  <2> QED
    BY <2>0, <2>2, <2>4, <2>5 DEF Working, Holding
<1> QED
  BY <1>8, <1>9, <1>10, <1>11, <1>12, <1>13, Marks, OneStep DEF Lies

LEMMA CommitFailsKeeps ==
  ASSUME TypeInv, FlowInv, SessionInv, WholeInv, NEW f \in Flows, CommitFails(f)
  PROVE  SessionInv' /\ WholeInv'
<1>1. /\ Recorded(f) /\ Running(f, op[f]) /\ Call(f).tx /\ op[f].phase = "commit"
      /\ FailedLate(f) /\ (op[f].unsure => op'[f].unsure)
  BY CommitFailsFlow
<1>2. PICK s \in Sessions : s = op[f].s
  BY <1>1 DEF Running
<1> DEFINE a == sessions[s]
           b == sessions'[s]
<1>3. /\ idle' = Released(s) /\ work' = work /\ driver' = driver /\ driver.awaits /\ driver.transacts
      /\ \/ /\ op'[f].unsure /\ a.open /\ stored' = Sum2(stored, a.pending)
            /\ sessions' = [sessions EXCEPT ![s] = Clean]
         \/ /\ stored' = stored
            /\ sessions' = IF driver.shared THEN sessions ELSE [sessions EXCEPT ![s] = Clean]
  BY <1>2, CommitFailsFlow DEF CommitFails, driver
<1>4. /\ op[f].late = None /\ ~op[f].ok /\ Stand(f) /\ Lent(s) /\ work \in Workloads /\ idle[s] \in Nat
  BY <1>1 DEF Running, Recorded, SessionInv, TypeInv
<1>5. f \in Holders(s) /\ op'[f].s = s /\ op'[f].late # None /\ op'[f].phase = "rollback" /\ ~op'[f].ok
  BY <1>1, <1>2 DEF Holders, FailedLate
<1>6. f \in Holders(s)' /\ \A t \in Sessions \ {s} : f \notin Holders(t)'
  BY <1>5 DEF Holders
<1>7. \/ b = Clean
      \/ driver.shared /\ sessions' = sessions /\ stored' = stored
  BY <1>3 DEF TypeInv
<1>8. /\ b.closing = None
      /\ \A g \in Flows : Away(g, s) => Away(g, s)'
      /\ b = Clean => /\ ~b.open /\ ~b.dead /\ ~b.aborted
                      /\ \A g \in Flows : Away(g, s)'
  <2>1. CASE b = Clean
    <3>1. ASSUME NEW g \in Flows
          PROVE  Away(g, s)'
      BY <2>1, CleanAway
    <3> QED
      BY <2>1, <3>1 DEF Clean
  <2>2. CASE driver.shared /\ sessions' = sessions
    <3>1. b.closing = None /\ \A g \in Flows : Away(g, s) => Away(g, s)'
      BY <1>3, <1>4, <2>2 DEF Lent, Away
    <3> QED
      BY <2>1, <3>1
  <2> QED
    BY <1>7, <2>1, <2>2
<1>9. Alters(f, s)
  <2>1. \A t \in Sessions \ {s} : sessions'[t] = sessions[t]
    BY <1>3 DEF TypeInv
  <2> QED
    BY <1>1, <1>2, <1>3, <1>6, <2>1, ReleasedElsewhere DEF Alters
<1>10. Lent(s)'
  <2>1. CASE b = Clean
    BY <1>3, <1>4, <1>5, <1>8, <2>1, EndedLent
  <2>2. CASE driver.shared /\ sessions' = sessions
    BY <1>3, <1>4, <2>2, DriverFacts DEF Lent, Released
  <2> QED
    BY <1>7, <2>1, <2>2
<1>11. ASSUME NEW g \in Flows \ {f}, Clear(g)'
       PROVE  Alike(stored, stored', g) /\ Off(g, s)
  <2>1. stored' \in {stored, IF a.open THEN Sum2(stored, a.pending) ELSE stored}
    BY <1>3
  <2> QED
    BY <1>3, <1>4, <1>5, <1>8, <1>11, <2>1, EndedOthers, Marks
<1>12. Clear(f)' => Clear(f)
  BY <1>1, <1>3 DEF Clear, Call, Body, FailedLate
<1>13. ASSUME Clear(f)'
       PROVE  Has(stored', f, {}) /\ Lies(f, s)' /\ ~Working(f)'
  <2>1. stored' = stored
    BY <1>3, <1>13 DEF Clear
  <2>2. Whole(f) /\ Working(f) /\ ~Working(f)'
    BY <1>1, <1>4, <1>5 DEF WholeInv, Working, Holding
  <2>3. Works(f) /\ Has(stored, f, {})
    BY <1>3, <1>4, <1>12, <1>13, <2>2 DEF Whole
  <2>4. a.open /\ Sole(f, s)
    BY <1>1, <1>2, <2>3 DEF Works
  <2>5. Sole(f, s)'
    BY <1>4, <2>4, HoldersStand DEF Sole
  <2>6. b.closing # f
    BY <1>8, Marks
  <2>7. Lies(f, s)'
    <3>1. CASE b = Clean
      <4>1. Away(f, s)'
        BY <1>8, <3>1
      <4> QED
        BY <2>6, <4>1 DEF Lies
    <3>2. CASE driver.shared /\ sessions' = sessions
      BY <1>3, <1>6, <2>4, <2>5, <2>6, <3>2 DEF Lies
    <3> QED
      BY <1>7, <3>1, <3>2
  <2> QED
    BY <2>1, <2>2, <2>3, <2>7
<1> QED
  BY <1>3, <1>5, <1>9, <1>10, <1>11, <1>12, <1>13, OneStep

LEMMA CommitSignalledKeeps ==
  ASSUME TypeInv, FlowInv, SessionInv, WholeInv, NEW f \in Flows, CommitSignalled(f)
  PROVE  SessionInv' /\ WholeInv'
<1>1. /\ Recorded(f) /\ Running(f, op[f]) /\ Call(f).tx /\ op[f].phase = "commit"
      /\ op'[f] = [op[f] EXCEPT !.phase = "done", !.ok = TRUE]
      /\ UNCHANGED <<work, idle, stored>> /\ driver' = driver /\ ~driver.awaits
  BY CommitSignalledFlow DEF Resolved, CommitSignalled, driver
<1>2. PICK s \in Sessions : s = op[f].s
  BY <1>1 DEF Running
<1> DEFINE a == sessions[s]
           b == sessions'[s]
<1>3. /\ op[f].late = None /\ ~op[f].ok /\ op[f] \in Calls /\ Stand(f) /\ Lent(s) /\ work \in Workloads
      /\ ~driver.shared /\ driver.transacts /\ idle[s] \in Nat
  BY <1>1, DriverFacts DEF Running, Recorded, SessionInv, TypeInv
<1>4. /\ op'[f].phase = "done" /\ op'[f].ok /\ op'[f].s = s /\ op'[f].skipped = op[f].skipped
      /\ op'[f].failed = op[f].failed /\ Marked(op'[f], op[f])
  BY <1>1, <1>2, <1>3 DEF Calls, Marked
<1>5. f \in Holders(s) /\ \A t \in Sessions : f \notin Holders(t)'
  BY <1>1, <1>2, <1>4 DEF Holders
<1>6. /\ b.open = a.open /\ b.pending = a.pending /\ b.saved = a.saved /\ b.aborted = a.aborted
      /\ b.closing = f /\ \A t \in Sessions \ {s} : sessions'[t] = sessions[t]
  BY <1>2 DEF CommitSignalled, TypeInv, Connections
<1>7. Alters(f, s)
  BY <1>1, <1>2, <1>5, <1>6 DEF Alters
<1>8. Lent(s)'
  <2>1. \A h \in Holders(s) : h = f
    BY <1>1, <1>3, <1>5 DEF Lent
  <2>2. Holders(s)' = {}
    BY <1>3, <1>5, <2>1, HoldersStand
  <2>3. idle'[s] = 0
    BY <1>1, <1>3, <1>5 DEF Lent
  <2>4. ~driver.strict /\ f # None
    BY <1>1, <1>3, DriverFacts, Marks
  <2>5. /\ ~driver'.strict /\ ~driver'.awaits /\ ~driver'.shared /\ driver'.transacts
        /\ sessions'[s].closing = f /\ op'[f].ok /\ op'[f].s = s
    BY <1>1, <1>3, <1>4, <1>6, <2>4
  <2> QED
    BY ONLY <2>2, <2>3, <2>4, <2>5 DEF Lent
<1>9. ASSUME NEW g \in Flows \ {f}, Clear(g)'
      PROVE  Alike(stored, stored', g) /\ Off(g, s)
  <2>1. Away(g, s) => Away(g, s)'
    BY <1>6 DEF Away
  <2> QED
    BY <1>1, <1>3, <1>5, <1>6, <1>9, <2>1, EndedOthers
<1>10. Clear(f)' => Clear(f)
  BY <1>1, <1>4 DEF Clear, Call, Body, Marked
<1>11. ASSUME Clear(f)'
       PROVE  Has(stored', f, {}) /\ Lies(f, s)' /\ ~Working(f)'
  <2>1. Whole(f) /\ Working(f) /\ ~Working(f)'
    BY <1>1, <1>3, <1>4 DEF WholeInv, Working, Holding
  <2>2. Works(f) /\ Has(stored, f, {})
    BY <1>3, <1>10, <1>11, <2>1 DEF Whole
  <2>3. a.open /\ ~a.aborted /\ Has(a.pending, f, Did(f))
    <3>1. ~op[f].void
      BY <1>1, <1>3, DriverFacts DEF Running
    <3> QED
      BY <1>1, <1>2, <2>2, <3>1 DEF Works
  <2>4. Did(f)' = Did(f)
    BY <1>1, <1>4 DEF Did, Body, Call
  <2>5. Lies(f, s)'
    BY <1>6, <2>3, <2>4 DEF Lies
  <2> QED
    BY <1>1, <2>1, <2>2, <2>5
<1> QED
  BY <1>3, <1>6, <1>7, <1>8, <1>9, <1>10, <1>11, OneStep

LEMMA RollbackKeeps ==
  ASSUME TypeInv, FlowInv, SessionInv, WholeInv, NEW f \in Flows, Rollback(f)
  PROVE  SessionInv' /\ WholeInv'
<1>1. /\ Recorded(f) /\ Undone(f) /\ Marked(op'[f], op[f])
      /\ Call(f).tx /\ op[f].s \in Sessions /\ op[f].phase = "rollback" /\ op[f].late = None
  BY RollbackFlow DEF Rollback
<1>2. PICK s \in Sessions : s = op[f].s
  BY <1>1
<1>3. /\ sessions' = [sessions EXCEPT ![s] = Clean] /\ idle' = Released(s)
      /\ work' = work /\ stored' = stored /\ driver' = driver
  BY <1>2 DEF Rollback, driver
<1>4. Stand(f) /\ f \in Holders(s) /\ \A t : f \notin Holders(t)'
  BY <1>1, <1>2 DEF Recorded, Holders, Undone
<1>5. /\ sessions'[s] = Clean /\ \A t \in Sessions \ {s} : sessions'[t] = sessions[t]
  BY <1>3 DEF TypeInv
<1>6. /\ sessions'[s].closing = None /\ ~sessions'[s].open /\ ~sessions'[s].dead /\ ~sessions'[s].aborted
  BY <1>5 DEF Clean
<1>7. ASSUME NEW g \in Flows
      PROVE  Away(g, s)'
  BY <1>5, CleanAway
<1>8. Alters(f, s)
  BY <1>1, <1>2, <1>3, <1>4, <1>5, ReleasedElsewhere DEF Alters
<1>9. Lent(s)'
  BY <1>3, <1>4, <1>6, EndedLent
<1>10. ASSUME NEW g \in Flows \ {f}, Clear(g)'
       PROVE  Alike(stored, stored', g) /\ (driver.transacts => Off(g, s))
  BY <1>1, <1>3, <1>4, <1>6, <1>7, <1>10, EndedOthers, Marks
<1>11. Clear(f)' => Clear(f) /\ driver.transacts
  BY <1>1, <1>3 DEF Clear, Undone, Marked, Call, Body
<1>12. ASSUME Clear(f)'
       PROVE  Has(stored', f, {}) /\ Lies(f, s)' /\ ~Working(f)'
  <2>1. Has(stored, f, {})
    BY <1>1, <1>11, <1>12 DEF WholeInv, Whole, FlowInv, Placed
  <2> QED
    BY <1>1, <1>3, <1>6, <1>7, <2>1, Marks DEF Lies, Undone, Working, Holding
<1> QED
  BY <1>1, <1>8, <1>9, <1>10, <1>11, <1>12, OneStep DEF Undone

LEMMA RollbackLateKeeps ==
  ASSUME TypeInv, FlowInv, SessionInv, WholeInv, NEW f \in Flows, RollbackLate(f)
  PROVE  SessionInv' /\ WholeInv'
<1>1. /\ Recorded(f) /\ Undone(f) /\ Marked(op'[f], op[f])
      /\ Call(f).tx /\ op[f].s \in Sessions /\ op[f].phase = "rollback" /\ op[f].late # None
      /\ Reaches(f) => \A g \in Holders(op[f].s) \ {f} : op'[g].struck
  BY RollbackLateFlow DEF RollbackLate
<1>2. PICK s \in Sessions : s = op[f].s
  BY <1>1
<1>3. /\ sessions' = IF Reaches(f) THEN [sessions EXCEPT ![s] = Clean] ELSE sessions
      /\ idle' = IF Reaches(f) THEN Released(s) ELSE idle
      /\ work' = work /\ stored' = stored /\ driver' = driver
  BY <1>2 DEF RollbackLate, Reaches, driver
<1>4. /\ Stand(f) /\ f \in Holders(s) /\ \A t : f \notin Holders(t)'
      /\ Lent(s) /\ idle[s] \in Nat /\ work \in Workloads
  BY <1>1, <1>2 DEF Recorded, Holders, Undone, SessionInv, TypeInv
<1>5. sessions[s].closing = None
  BY <1>4 DEF Lent
<1>6. \A t \in Sessions \ {s} : sessions'[t] = sessions[t] /\ idle'[t] = idle[t]
  BY <1>3, ReleasedElsewhere DEF TypeInv
<1>7. Alters(f, s)
  BY <1>1, <1>2, <1>3, <1>4, <1>6 DEF Alters
<1>8. Clear(f)' => Clear(f) /\ driver.transacts
  BY <1>1, <1>3 DEF Clear, Undone, Marked, Call, Body
<1>9. Clear(f)' => Has(stored', f, {})
  BY <1>1, <1>3, <1>8 DEF WholeInv, Whole, FlowInv, Placed
<1>10. ~Working(f)' /\ ~op'[f].ok
  BY <1>1 DEF Undone, Working, Holding
<1>11. CASE Reaches(f)
  <2>1. sessions'[s] = Clean /\ idle' = Released(s)
    BY <1>3, <1>11 DEF TypeInv
  <2>2. /\ sessions'[s].closing = None /\ ~sessions'[s].open
        /\ ~sessions'[s].dead /\ ~sessions'[s].aborted
    BY <2>1 DEF Clean
  <2>3. ASSUME NEW g \in Flows
        PROVE  Away(g, s)'
    BY <2>1, CleanAway
  <2>4. Lent(s)'
    BY <1>3, <1>4, <2>1, <2>2, EndedLent
  <2>5. ASSUME NEW g \in Flows \ {f}, Clear(g)', driver.transacts
        PROVE  Off(g, s)
    <3>1. g \notin Holders(s) /\ op'[g] = op[g]
      BY <1>1, <1>2, <1>4, <1>11, <2>5, StandFacts DEF Clear
    <3>2. Clear(g) /\ Whole(g)
      BY <1>3, <2>5, <3>1, Unmoved DEF WholeInv
    <3>3. Absent(g, s)
      BY <1>5, <2>5, <3>1, <3>2, Marks, Unheld
    <3> QED
      BY <2>2, <2>3, <3>3, Marks, OffAbsent
  <2>6. Clear(f)' => Lies(f, s)'
    BY <2>2, <2>3, Marks DEF Lies
  <2> QED
    BY <1>3, <1>7, <1>8, <1>9, <1>10, <2>4, <2>5, <2>6, OneStep DEF Alike
<1>12. CASE ~Reaches(f)
  <2>1. sessions' = sessions /\ idle' = idle /\ ~driver.shared /\ driver.transacts
    BY <1>3, <1>4, <1>12, DriverFacts DEF Reaches
  <2>2. /\ \A h \in Holders(s)' : h \in Holders(s) /\ op'[h].late = op[h].late
        /\ \A h \in Holders(s) : h = f \/ (h \in Holders(s)' /\ op'[h].late = op[h].late)
    BY <1>4, HoldersStand
  <2>3. Lent(s)'
    BY <1>1, <1>3, <1>4, <1>5, <2>1, <2>2 DEF Lent
  <2>4. ASSUME NEW g \in Flows \ {f}
        PROVE  Same(g, s)
    BY <2>1, <2>2 DEF Same, Alike
  <2>5. ASSUME Clear(f)'
        PROVE  Lies(f, s)'
    <3>1. Lies(f, s) /\ sessions[s].closing # f
      BY <1>5, <1>8, <2>1, <2>5, Marks DEF WholeInv, Whole
    <3>2. Away(f, s)
      BY <1>1, <2>1, <3>1 DEF Lies
    <3>3. Away(f, s)'
      BY <2>1, <3>2 DEF Away
    <3> QED
      BY <2>1, <3>1, <3>3 DEF Lies
  <2> QED
    BY <1>3, <1>7, <1>8, <1>9, <1>10, <2>1, <2>3, <2>4, <2>5, OneStep DEF Alike
<1> QED
  BY <1>11, <1>12

(* COMMIT of a call that has resolved: it was the only one on its session. *)
LEMMA CommitLaterKeeps ==
  ASSUME TypeInv, FlowInv, SessionInv, WholeInv, NEW s \in Sessions, CommitLater(s)
  PROVE  SessionInv' /\ WholeInv'
<1> DEFINE a == sessions[s]
           b == sessions'[s]
<1>1. PICK c \in Flows : c = a.closing
  BY CommitLaterFlow
<1>2. /\ op' \in [Flows -> Calls] /\ op[c] \in Calls /\ a \in Connections /\ stored \in Amounts
      /\ work \in Workloads /\ idle[s] \in Nat
  BY <1>1, CommitLaterFlow DEF TypeInv
<1>3. /\ work' = work /\ driver' = driver
      /\ \/ op' = op /\ stored' = IF a.open THEN Sum2(stored, a.pending) ELSE stored
         \/ op'[c].unsure /\ op' = [op EXCEPT ![c].unsure = TRUE] /\ stored' = stored
  <2>1. op' = op \/ (op' = [op EXCEPT ![c].unsure = TRUE] /\ op'[c].unsure)
    BY <1>1, CommitLaterFlow
  <2>2. work' = work /\ driver' = driver
    BY DEF CommitLater, driver
  <2>3. PICK fails \in {a.dead} \cup {x \in {TRUE} : faults < MaxFaults} :
          /\ stored' = IF fails \/ ~a.open THEN stored ELSE Sum2(stored, a.pending)
          /\ op' = IF fails THEN [op EXCEPT ![c].unsure = TRUE] ELSE op
    BY <1>1 DEF CommitLater
  <2>4. CASE fails
    <3>1. op' = [op EXCEPT ![c].unsure = TRUE] /\ stored' = stored
      BY <2>3, <2>4
    <3>2. op'[c] = [op[c] EXCEPT !.unsure = TRUE]
      BY <3>1 DEF TypeInv
    <3>3. op'[c].unsure
      BY <1>2, <3>2 DEF Calls
    <3> QED
      BY <2>2, <3>1, <3>3
  <2>5. CASE ~fails
    BY <2>2, <2>3, <2>5
  <2> QED
    BY <2>4, <2>5
<1>4. /\ ~driver.awaits /\ ~driver.shared /\ driver.transacts /\ ~driver.strict
      /\ Holders(s) = {} /\ op[c].ok /\ op[c].s = s /\ idle[s] = 0
  BY <1>1, <1>2, Marks, DriverFacts DEF SessionInv, Lent
<1>5. /\ op'[c].s = s /\ op'[c].ok = op[c].ok /\ op'[c].phase = op[c].phase /\ op'[c].late = op[c].late
      /\ \A g \in Flows \ {c} : op'[g] = op[g]
  <2>1. op'[c] = op[c] \/ op'[c] = [op[c] EXCEPT !.unsure = TRUE]
    BY <1>3 DEF TypeInv
  <2>2. \A g \in Flows \ {c} : op'[g] = op[g]
    BY <1>3 DEF TypeInv
  <2> QED
    BY <1>2, <1>4, <2>1, <2>2 DEF Calls
<1>6. \A t : Holders(t)' = Holders(t)
  <2>1. \A g \in Flows : op'[g].s = op[g].s /\ op'[g].phase = op[g].phase
    BY <1>4, <1>5
  <2> QED
    BY <2>1 DEF Holders
<1>7. \A g \in Flows : op'[g].late = op[g].late /\ op'[g].ok = op[g].ok /\ op'[g].s = op[g].s
  BY <1>4, <1>5
<1>8. /\ b = Clean /\ idle'[s] = 1
      /\ \A t \in Sessions \ {s} : sessions'[t] = sessions[t] /\ idle'[t] = idle[t]
  BY <1>4 DEF CommitLater, TypeInv
<1>9. /\ ~b.open /\ ~b.dead /\ ~b.aborted /\ b.closing = None
  BY <1>8 DEF Clean
<1>10. ASSUME NEW t \in Sessions
       PROVE  Lent(t)'
  <2>1. CASE t = s
    BY <1>3, <1>4, <1>6, <1>8, <1>9, <2>1 DEF Lent
  <2>2. CASE t # s
    <3>1. Lent(t) /\ sessions'[t] = sessions[t] /\ idle'[t] = idle[t] /\ Holders(t) \subseteq Flows
      BY <1>8, <2>2 DEF SessionInv, Holders
    <3>2. sessions[t] \in Connections
      BY DEF TypeInv
    <3>3. ASSUME sessions[t].closing # None
          PROVE  /\ Holders(t)' = {}
                 /\ op'[sessions'[t].closing].ok /\ op'[sessions'[t].closing].s = t
      <4>1. sessions[t].closing \in Flows /\ sessions'[t].closing = sessions[t].closing
        BY <3>1, <3>2, <3>3 DEF Connections
      <4>2. Holders(t) = {} /\ op[sessions[t].closing].ok /\ op[sessions[t].closing].s = t
        BY <1>4, <3>1, <3>3 DEF Lent
      <4> QED
        BY <1>6, <1>7, <4>1, <4>2
    <3> QED
      BY <1>3, <1>4, <1>6, <1>7, <3>1, <3>3 DEF Lent
  <2> QED
    BY <2>1, <2>2
<1>11. ASSUME NEW g \in Flows, NEW t \in Sessions \ {s}
       PROVE  Same(g, t)
  <2>1. sessions'[t] = sessions[t] /\ idle'[t] = idle[t] /\ Holders(t) \subseteq Flows
    BY <1>8 DEF Holders
  <2>2. \A h \in Holders(t)' : h \in Holders(t) /\ op'[h].late = op[h].late
    BY <1>6, <1>7, <2>1
  <2> QED
    BY <2>1, <2>2 DEF Same, Alike
<1>12. \A g \in Flows : Away(g, s)'
  BY <1>8, CleanAway
<1>13. ASSUME NEW g \in Flows \ {c}, Clear(g)'
       PROVE  Whole(g)'
  <2>1. op'[g] = op[g] /\ Clear(g) /\ Whole(g)
    BY <1>3, <1>5, <1>13, Unmoved DEF WholeInv
  <2>2. Absent(g, s)
    BY <1>1, <1>4, <2>1, Unheld
  <2>3. Off(g, s)
    BY <1>9, <1>12, <2>2, Marks, OffAbsent
  <2>4. Alike(stored, stored', g)
    <3>1. Has(a.pending, g, {}) /\ a.pending \in Amounts
      BY <1>2, <2>2 DEF Absent, Away, Connections
    <3>2. Alike(stored, Sum2(stored, a.pending), g)
      BY <1>2, <3>1, HasSum
    <3> QED
      BY <1>3, <3>2 DEF Alike
  <2> QED
    BY <1>3, <1>11, <1>13, <2>1, <2>3, <2>4, Frame
<1>14. ASSUME Clear(c)'
       PROVE  Whole(c)'
  <2>1. op' = op /\ stored' = IF a.open THEN Sum2(stored, a.pending) ELSE stored
    BY <1>3, <1>14 DEF Clear
  <2>2. Clear(c) /\ Whole(c) /\ Did(c)' = Did(c) /\ (Working(c)' <=> Working(c))
    BY <1>3, <1>14, <2>1, Unmoved DEF WholeInv
  <2>3. Closing(c) /\ Lies(c, s) /\ \A t \in Sessions : Lies(c, t)
    BY <1>1, <1>4, <2>2 DEF Closing, Whole
  <2>0. ~op[c].void /\ ~op'[c].void
    BY <1>2, <1>4, <2>1, DriverFacts DEF FlowInv, Placed
  <2>4. a.open /\ Has(a.pending, c, Did(c)) /\ Has(stored, c, {})
    BY <1>1, <1>4, <2>2, <2>3 DEF Lies, Whole
  <2>5. Has(stored', c, Did(c))
    BY <1>2, <2>1, <2>4, HasSum DEF Connections
  <2>6. \A t \in Sessions : Lies(c, t)'
    <3>1. ASSUME NEW t \in Sessions \ {s}
          PROVE  Lies(c, t)'
      BY <1>3, <1>11, <2>1, <2>3, FrameLies
    <3>2. Lies(c, s)'
      BY <1>9, <1>12, Marks DEF Lies
    <3> QED
      BY <3>1, <3>2
  <2>7. ~Closing(c)'
    <3>1. ASSUME NEW t \in Sessions, sessions'[t].closing = c
          PROVE  FALSE
      <4>1. t # s
        BY <1>9, <3>1, Marks
      <4>2. sessions[t].closing = c
        BY <1>8, <3>1, <4>1
      <4>3. op[c].s = t
        BY <1>4, <4>2, Marks DEF SessionInv, Lent
      <4> QED
        BY <1>4, <4>1, <4>3
    <3> QED
      BY <3>1 DEF Closing
  <2>8. ~Working(c)'
    <3>1. op[c].phase = "done"
      BY <1>4 DEF FlowInv, Placed
    <3> QED
      BY <2>1, <3>1 DEF Working, Holding
  <2> QED
    BY <1>3, <1>4, <2>0, <2>1, <2>2, <2>5, <2>6, <2>7, <2>8 DEF Whole
<1> QED
  BY <1>10, <1>13, <1>14 DEF SessionInv, WholeInv, Whole

-----------------------------------------------------------------------------
(* All steps together. *)

LEMMA StatementKeeps ==
  ASSUME TypeInv, FlowInv, SessionInv, WholeInv, NEW f \in Flows, Statement(f)
  PROVE  SessionInv' /\ WholeInv'
<1>0. PICK s \in Clients(f) : \E x \in Outcomes(s) : Execute(f, s, x, op[f].item)
  BY DEF Statement
<1>1. PICK x \in Outcomes(s) : Execute(f, s, x, op[f].item)
  BY <1>0
<1>2. op[f].phase = "run" /\ Item(f) # "point"
  BY DEF Statement, Caught
<1> QED
  BY <1>1, <1>2, ExecuteKeeps

LEMMA CallSecondKeeps ==
  ASSUME TypeInv, FlowInv, SessionInv, WholeInv, NEW f \in Flows, CallSecond(f)
  PROVE  SessionInv' /\ WholeInv'
<1>0. PICK s \in Clients(f) : \E x \in Outcomes(s) :
        Execute(f, s, x, IF driver.variables /\ sessions[s].var # f THEN 0 ELSE op[f].item)
  BY DEF CallSecond
<1>1. PICK x \in Outcomes(s) :
        Execute(f, s, x, IF driver.variables /\ sessions[s].var # f THEN 0 ELSE op[f].item)
  BY <1>0
<1>2. op[f].phase = "call" /\ Item(f) # "point"
  BY DEF CallSecond, FlowInv, Placed, Item
<1>3. CASE driver.variables /\ sessions[s].var # f
  BY <1>1, <1>2, <1>3, ExecuteKeeps
<1>4. CASE ~(driver.variables /\ sessions[s].var # f)
  BY <1>1, <1>2, <1>4, ExecuteKeeps
<1> QED
  BY <1>3, <1>4

LEMMA UnchangedKeeps ==
  ASSUME TypeInv, FlowInv, SessionInv, WholeInv, UNCHANGED vars
  PROVE  SessionInv' /\ WholeInv'
<1>1. /\ work' = work /\ sessions' = sessions /\ idle' = idle /\ stored' = stored /\ op' = op
      /\ driver' = driver
  BY DEF vars, driver
<1>2. \A t : Holders(t)' = Holders(t)
  BY <1>1 DEF Holders
<1>3. SessionInv'
  BY <1>1, <1>2 DEF SessionInv, Lent
<1>4. ASSUME NEW g \in Flows, Clear(g)'
      PROVE  Whole(g)'
  <2>1. \A t \in Sessions : Same(g, t)
    BY <1>1, <1>2 DEF Same, Alike
  <2> QED
    BY <1>1, <1>4, <2>1, Frame DEF WholeInv, Alike
<1> QED
  BY <1>3, <1>4 DEF WholeInv, Whole

LEMMA InitWhole ==
  ASSUME Init
  PROVE  SessionInv /\ WholeInv
<1> USE DEF Init
<1>1. /\ \A s \in Sessions : sessions[s] = Clean /\ idle[s] = 1
      /\ \A f \in Flows : op[f] = Fresh
      /\ work \in Workloads /\ stored = Zero
  OBVIOUS
<1>2. \A s : Holders(s) = {}
  BY <1>1 DEF Holders, Fresh
<1>3. SessionInv
  BY <1>1, <1>2, DriverFacts DEF SessionInv, Lent, Clean
<1>4. ASSUME NEW f \in Flows
      PROVE  Whole(f)
  <2>1. Has(Zero, f, {})
    BY HasSum, Amount
  <2>2. Did(f) = {} /\ ~Working(f)
    BY <1>1 DEF Did, Working, Fresh, Holding
  <2>3. \A s \in Sessions : Lies(f, s)
    BY <1>1, <2>1, Marks DEF Lies, Away, Clean
  <2> QED
    BY <1>1, <2>1, <2>2, <2>3 DEF Whole
<1> QED
  BY <1>3, <1>4 DEF WholeInv

(* The server holds of each call what the call believes: nothing of one    *)
(* that has to start over, all of one that is at work, and no session of   *)
(* the pool is lent, open or about to be committed but as it should be.    *)
THEOREM DriversInvariant == Spec => []IInv
<1>1. Init => IInv
  BY InitTyped, InitWhole DEF IInv
<1>2. IInv /\ [Next]_vars => IInv'
  <2> SUFFICES ASSUME TypeInv, FlowInv, SessionInv, WholeInv, [Next]_vars
               PROVE  IInv'
    BY DEF IInv
  <2>1. TypeInv' /\ FlowInv'
    BY TypeStep
  <2>2. SessionInv' /\ WholeInv'
    <3>1. CASE UNCHANGED vars
      BY <3>1, UnchangedKeeps
    <3>2. ASSUME NEW f \in Flows, Begin(f) \/ BeginFails(f) \/ Plain(f)
          PROVE  SessionInv' /\ WholeInv'
      BY <3>2, BeginKeeps, BeginFailsKeeps, PlainKeeps
    <3>3. ASSUME NEW f \in Flows, Statement(f) \/ CallFirst(f) \/ CallSecond(f)
          PROVE  SessionInv' /\ WholeInv'
      BY <3>3, StatementKeeps, CallFirstKeeps, CallSecondKeeps
    <3>4. ASSUME NEW f \in Flows, Savepoint(f) \/ RollbackTo(f) \/ Catch(f)
          PROVE  SessionInv' /\ WholeInv'
      BY <3>4, SavepointKeeps, RollbackToKeeps, CatchKeeps
    <3>5. ASSUME NEW f \in Flows, Commit(f) \/ CommitFails(f) \/ CommitSignalled(f)
          PROVE  SessionInv' /\ WholeInv'
      BY <3>5, CommitKeeps, CommitFailsKeeps, CommitSignalledKeeps
    <3>6. ASSUME NEW f \in Flows, Rollback(f) \/ RollbackLate(f)
          PROVE  SessionInv' /\ WholeInv'
      BY <3>6, RollbackKeeps, RollbackLateKeeps
    <3>7. ASSUME NEW s \in Sessions, CommitLater(s)
          PROVE  SessionInv' /\ WholeInv'
      BY <3>7, CommitLaterKeeps
    <3> QED
      BY <3>1, <3>2, <3>3, <3>4, <3>5, <3>6, <3>7 DEF Next
  <2> QED
    BY <2>1, <2>2 DEF IInv
<1> QED
  BY <1>1, <1>2, PTL DEF Spec

(* executeResilientTransaction() stores all writes of a call that resolves *)
(* once and none of one that rejects, however often it is tried, on every  *)
(* driver, whoever shares its connections, but for the named excuses; and  *)
(* none of one that resolves after it caught the error of a statement that *)
(* had aborted its transaction, whose COMMIT is answered all the same.     *)
THEOREM CallsAreAllOrNothing == Spec => []AllOrNothing
<1>1. IInv => AllOrNothing
  <2> SUFFICES ASSUME TypeInv, FlowInv, SessionInv, WholeInv, NEW f \in Flows, Done(f), ~Excused(f)
               PROVE  Has(stored, f, IF op[f].ok /\ ~op[f].void THEN Wanted(f) ELSE {})
    BY DEF IInv, AllOrNothing, Has
  <2>1. Clear(f) /\ (driver.transacts \/ ~op[f].failed)
    BY DEF Excused, Clear
  <2>2. ~Closing(f)
    BY Marks DEF Excused, Closing, SessionInv, Lent
  <2>3. Has(stored, f, IF driver.transacts /\ (~op[f].ok \/ op[f].void) THEN {} ELSE Did(f))
    BY <2>1, <2>2 DEF WholeInv, Whole
  <2>4. op[f].ok => Did(f) = Wanted(f)
    BY DEF Did, Wanted
  <2>5. op[f].ok \/ driver.transacts
    BY <2>1 DEF Done, FlowInv, Placed
  <2>6. op[f].void => driver.transacts
    BY DriverFacts DEF TypeInv, FlowInv, Placed
  <2> QED
    BY <2>3, <2>4, <2>5, <2>6
<1> QED
  BY <1>1, DriversInvariant, PTL
=============================================================================
