----------------------------- MODULE Deployment -----------------------------
(* Deployments that migrate, push or create the schema, seed the tables and     *)
(* scaffold entities from them, concurrently and with failures: MigrationRunner,*)
(* SeedRunner, SchemaGenerator and db:scaffold, one statement a step.  A        *)
(* transaction that wrote keeps the writers of the others waiting; DDL on MySQL *)
(* commits by itself.  The reads of diff() are one step.                        *)
EXTENDS Scaffolding, FiniteSets

CONSTANTS Deployers,  \* the processes that deploy
          Workloads,  \* dialect, entities, migrations, seeds, the tables to scaffold ({}: all)
                      \* and what each deployer runs
          MaxFaults,  \* how many statements or processes fail
          None

VARIABLES work,       \* one of Workloads
          db,         \* what is committed: schema, records of migrations and seeds, seeded rows
          lock,       \* the deployer whose transaction wrote, or None
          op,         \* what each deployer is doing
          faults,
          dir,        \* the scaffolded files
          torn        \* <<migration or seed, why it is half done or its record gone>>

vars == <<work, db, lock, op, faults, dir, torn>>

d == work.dialect
Transactional == d # "mysql"
Ids(records) == {records[n].id : n \in DOMAIN records}

Idle == [phase |-> "idle", cmd |-> "none", left |-> <<>>, batch |-> 0, todo |-> <<>>, stmts |-> <<>>,
         tx |-> None, wrote |-> FALSE, read |-> {}, before |-> {}, ensured |-> {}, tables |-> <<>>, moved |-> FALSE]

Init ==
    /\ work \in Workloads
    /\ db = [schema |-> work.schema, applied |-> <<>>, seeds |-> {}, rows |-> [s \in work.seeds |-> 0]]
    /\ lock = None
    /\ op = [f \in Deployers |-> [Idle EXCEPT !.left = work.commands[f]]]
    /\ faults = 0 /\ torn = {}
    /\ dir = [classes |-> <<>>, context |-> {}]

(* ------------------------------- statements ------------------------------- *)

\* What a statement of f sees, and where it writes: the copy of its transaction,
\* or the database itself.
Seen(f) == IF op[f].tx = None THEN db ELSE op[f].tx

Write(f, new, o, inTx) ==
    /\ lock \in {None, f}
    /\ db' = IF inTx THEN db ELSE new
    /\ lock' = IF inTx THEN f ELSE lock
    /\ op' = [op EXCEPT ![f] = [o EXCEPT !.tx = IF inTx THEN new ELSE None, !.wrote = TRUE]]

Current(f) == Head(op[f].todo)
Failed(o) == [Idle EXCEPT !.phase = "failed", !.cmd = o.cmd, !.ensured = o.ensured]

\* What a failure leaves half done: nothing of a transaction, but what was
\* written outside one.
Left(f) ==
    IF /\ op[f].wrote /\ op[f].cmd \in {"up", "down", "seed"}
       /\ op[f].tx = None \/ (op[f].cmd = "seed" /\ d # "sqlite")
    THEN {<<Current(f).id, "failure">>} ELSE {}

Reject(f) ==
    /\ op' = [op EXCEPT ![f] = Failed(@)]
    /\ lock' = IF lock = f THEN None ELSE lock
    /\ torn' = torn \cup Left(f)
    /\ UNCHANGED <<work, db>>

(* ----------------------------- the commands ------------------------------- *)

\* getAppliedMigrations(): records of one batch may tie in applied_at, which MySQL
\* and SQLite keep in seconds.
InOrder(records, s) == \A m, n \in DOMAIN s : m < n => records[s[m]].batch <= records[s[n]].batch
getAppliedMigrations ==
    IF d \in {"postgres", "mssql"} THEN {db.applied}
    ELSE {[n \in DOMAIN s |-> db.applied[s[n]]] : s \in {x \in SetToSeqs(DOMAIN db.applied) : InOrder(db.applied, x)}}

maxBatch(records) == FoldLeft(LAMBDA m, r : IF r.batch > m THEN r.batch ELSE m, 0, records)

pending(records) == SelectSeq(work.migrations, LAMBDA m : m.id \notin Ids(records))
lastBatch(records) == SelectSeq(records, LAMBDA r : r.batch = maxBatch(records))
lastBatchRecords(records) == Reverse(lastBatch(records))

pendingSeeds == SetToSeq({[id |-> s] : s \in work.seeds \ db.seeds})

Migration(id) == CHOOSE m \in Range(work.migrations) : m.id = id
Known(id) == \E m \in Range(work.migrations) : m.id = id

fetchTableNames == Tables(d, db.schema)
filterTables(tables) == IF work.only = {} THEN tables ELSE tables \cap work.only

Started(f, cmd) == [Idle EXCEPT !.phase = "next", !.cmd = cmd, !.left = Tail(op[f].left), !.before = db.schema,
                            !.ensured = op[f].ensured]

\* CREATE TABLE IF NOT EXISTS of the records is no statement of SQL Server.
Start(f) ==
    /\ op[f].phase = "idle" /\ op[f].left # <<>> /\ Head(op[f].left) # "reset"
    /\ LET cmd == Head(op[f].left)
           o == Started(f, cmd)
       IN IF cmd \in {"up", "down", "seed"} /\ d = "mssql" THEN Reject(f)
          ELSE /\ \/ /\ cmd = "up"
                     /\ \E r \in getAppliedMigrations : op' = [op EXCEPT ![f] =
                            [o EXCEPT !.batch = maxBatch(r) + 1, !.todo = pending(r)]]
                  \/ /\ cmd = "down"
                     /\ \E r \in getAppliedMigrations : op' = [op EXCEPT ![f] = [o EXCEPT !.todo = lastBatchRecords(r), !.read = Ids(r)]]
                  \/ /\ cmd = "seed"
                     /\ op' = [op EXCEPT ![f] = [o EXCEPT !.todo = pendingSeeds]]
                  \/ /\ cmd = "push"
                     /\ op' = [op EXCEPT ![f] = [o EXCEPT !.phase = "run", !.stmts = push(d, work.entities, db.schema)]]
                  \/ /\ cmd = "ensure"
                     /\ op' = [op EXCEPT ![f] = [o EXCEPT !.phase = "run", !.stmts = ensureCreated(d, work.entities)]]
                  \/ /\ cmd \in {"scaffold", "scaffoldForce"}
                     /\ op' = [op EXCEPT ![f] = [o EXCEPT !.phase = "columns", !.todo = SetToSeq(filterTables(fetchTableNames))]]
               /\ UNCHANGED <<work, db, lock, torn>>
    /\ UNCHANGED <<faults, dir>>

\* SeedRunner.reset(): the records go, the rows stay.
Reset(f) ==
    /\ op[f].phase = "idle" /\ op[f].left # <<>> /\ Head(op[f].left) = "reset"
    /\ IF d = "mssql" THEN Reject(f)
       ELSE /\ Write(f, [db EXCEPT !.seeds = {}], [Started(f, "reset") EXCEPT !.phase = "idle"], FALSE)
            /\ torn' = torn \cup (db.seeds \X {"reset"})
            /\ UNCHANGED work
    /\ UNCHANGED <<faults, dir>>

\* Whether f works on a migration or seed.
Runs(f, id) == op[f].phase \in {"run", "commit"} /\ op[f].cmd \in {"up", "down", "seed"} /\ Current(f).id = id

\* The next migration or seed: its statements, in a transaction.  down() throws
\* at a record whose migration is gone.
NextOne(f) ==
    /\ op[f].phase = "next" /\ op[f].todo # <<>>
    /\ IF op[f].cmd = "down" /\ ~Known(Current(f).id) THEN Reject(f)
       ELSE /\ op' = [op EXCEPT ![f].phase = "run", ![f].wrote = FALSE,
                                ![f].stmts = CASE op[f].cmd = "up" -> Current(f).up
                                               [] op[f].cmd = "down" -> Migration(Current(f).id).down
                                               [] OTHER -> <<>>]
            /\ torn' = IF ~Transactional /\ op[f].cmd # "seed" /\ \E g \in Deployers \ {f} : Runs(g, Current(f).id)
                       THEN torn \cup {<<Current(f).id, "overlap">>} ELSE torn
            /\ UNCHANGED <<work, db, lock>>
    /\ UNCHANGED <<faults, dir>>

Finish(f) ==
    /\ op[f].phase = "next" /\ op[f].todo = <<>>
    /\ op' = [op EXCEPT ![f] = [@ EXCEPT !.phase = "idle"]]
    /\ UNCHANGED <<work, db, lock, faults, dir, torn>>

\* The migrations of which a statement of down() takes a part away although it does
\* not revert them: recorded since it read the records (again, after it reverted it), or
\* still to revert because records of its batch tied.
Effects(m) == FoldLeft(LAMBDA schema, s : effect(d, schema, s), {}, m.up)
Cut(gone) == {m.id : m \in {x \in Range(work.migrations) : Effects(x) \cap gone # {}}}
Undercut(f, gone) ==
    IF op[f].cmd # "down" THEN {}
    ELSE {<<id, "late">> : id \in Cut(gone) \ op[f].read}
         \cup {<<id, "tied">> : id \in IF d \in {"mysql", "sqlite"} THEN Cut(gone) \cap Ids(Tail(op[f].todo)) ELSE {}}

\* A DDL statement; ensureCreated() passes over what already exists.
Run(f) ==
    /\ op[f].phase = "run" /\ op[f].stmts # <<>>
    /\ LET s == Head(op[f].stmts)
           why == refusal(d, Seen(f).schema, s)
           o == [op[f] EXCEPT !.stmts = Tail(@)]
           inTx == Transactional /\ op[f].cmd \in {"up", "down"}
       IN CASE why = "none" -> Write(f, [Seen(f) EXCEPT !.schema = effect(d, @, s)], o, inTx)
                             /\ torn' = torn \cup Undercut(f, Seen(f).schema \ effect(d, Seen(f).schema, s))
                             /\ UNCHANGED work
            [] why = "exists" /\ op[f].cmd = "ensure" -> op' = [op EXCEPT ![f] = o] /\ UNCHANGED <<work, db, lock, torn>>
            [] OTHER -> lock \in {None, f} /\ Reject(f)
    /\ UNCHANGED <<faults, dir>>

\* A seed writes through the adapter: on SQLite that is the connection of the
\* transaction begun for it, elsewhere another one.
RunSeed(f) ==
    /\ op[f].cmd = "seed" /\ op[f].phase = "run" /\ ~op[f].wrote
    /\ Write(f, [Seen(f) EXCEPT !.rows[Current(f).id] = @ + 1], op[f], d = "sqlite")
    /\ UNCHANGED <<work, faults, dir, torn>>

\* INSERT or DELETE of the record; a MySQL transaction ended at its first DDL.
Recorded(f) ==
    LET id == Current(f).id
    IN CASE op[f].cmd = "up" -> [Seen(f) EXCEPT !.applied = Append(@, [id |-> id, batch |-> op[f].batch])]
         [] op[f].cmd = "down" -> [Seen(f) EXCEPT !.applied = SelectSeq(@, LAMBDA r : r.id # id)]
         [] OTHER -> [Seen(f) EXCEPT !.seeds = @ \cup {id}]

Taken(f) == \/ op[f].cmd = "up" /\ Current(f).id \in Ids(Seen(f).applied)
            \/ op[f].cmd = "seed" /\ Current(f).id \in Seen(f).seeds

Record(f) ==
    /\ op[f].phase = "run" /\ op[f].stmts = <<>> /\ op[f].cmd \in {"up", "down", "seed"}
    /\ op[f].cmd = "seed" => op[f].wrote
    /\ IF Taken(f) THEN lock \in {None, f} /\ Reject(f)
       ELSE /\ Write(f, Recorded(f), [op[f] EXCEPT !.phase = "commit"], Transactional \/ op[f].cmd = "seed")
            /\ UNCHANGED <<work, torn>>
    /\ UNCHANGED <<faults, dir>>

Commit(f) ==
    /\ op[f].phase = "commit"
    /\ db' = Seen(f)
    /\ lock' = IF lock = f THEN None ELSE lock
    /\ op' = [op EXCEPT ![f].phase = "next", ![f].todo = Tail(@), ![f].tx = None, ![f].wrote = FALSE,
                        ![f].read = @ \ {Current(f).id}]
    /\ UNCHANGED <<work, faults, dir, torn>>

\* Generated schemas end without a record.
Done(f) ==
    /\ op[f].phase = "run" /\ op[f].stmts = <<>> /\ op[f].cmd \in {"push", "ensure"}
    /\ op' = [op EXCEPT ![f].phase = "next",
                        ![f].ensured = IF op[f].cmd = "ensure" THEN @ \cup (Tables(d, db.schema) \ Tables(d, op[f].before)) ELSE @]
    /\ UNCHANGED <<work, db, lock, faults, dir, torn>>

\* introspect() reads the columns of a table, then its foreign keys.
ReadColumns(f) ==
    /\ op[f].phase = "columns" /\ op[f].todo # <<>>
    /\ LET name == Current(f)
           t == [name |-> name, columns |-> fetchColumns(d, db.schema, name), foreignKeys |-> {},
                 seen |-> {x \in db.schema : x.table = name}, whole |-> TRUE]
       IN op' = [op EXCEPT ![f].phase = "foreign", ![f].tables = Append(@, t), ![f].moved = @ \/ db.schema # op[f].before]
    /\ UNCHANGED <<work, db, lock, faults, dir, torn>>

ReadForeignKeys(f) ==
    /\ op[f].phase = "foreign"
    /\ op' = [op EXCEPT ![f].phase = "columns", ![f].todo = Tail(@), ![f].moved = @ \/ db.schema # op[f].before,
                        ![f].tables[Len(op[f].tables)].foreignKeys = fetchForeignKeys(db.schema, Current(f))]
    /\ UNCHANGED <<work, db, lock, faults, dir, torn>>

\* The files are written at once, if any table was found.
Scaffold(f) ==
    /\ op[f].phase = "columns" /\ op[f].todo = <<>>
    /\ LET all == {[t EXCEPT !.whole = work.only = {} /\ ~op[f].moved] : t \in Range(op[f].tables)}
       IN dir' = IF all = {} THEN dir ELSE scaffold(d, dir, all, op[f].cmd = "scaffoldForce")
    /\ op' = [op EXCEPT ![f].phase = "next", ![f].tables = <<>>, ![f].moved = FALSE]
    /\ UNCHANGED <<work, db, lock, faults, torn>>

\* A statement or COMMIT fails, or the process dies.
Fail(f) ==
    /\ op[f].phase \in {"run", "commit"} /\ faults < MaxFaults
    /\ Reject(f)
    /\ faults' = faults + 1
    /\ UNCHANGED dir

Next == \E f \in Deployers : \/ Start(f) \/ Reset(f) \/ NextOne(f) \/ Finish(f) \/ Run(f) \/ RunSeed(f)
                             \/ Record(f) \/ Commit(f) \/ Done(f) \/ Fail(f)
                             \/ ReadColumns(f) \/ ReadForeignKeys(f) \/ Scaffold(f)

Spec == Init /\ [][Next]_vars

(* ------------------------------- the properties --------------------------- *)

Busy(id) == \E f \in Deployers : Runs(f, id)

Torn(id) == \E t \in torn : t[1] = id

\* What a migration makes is in the schema if it is recorded and not there if it
\* is not: unless the dialect commits each statement and one failed or another
\* deployment ran the same migration, or down() reverts statements of a migration
\* recorded since it read the records or tied with another.  A recorded seed has its
\* rows; they are there once if it is recorded and not at all if it is not, unless its
\* record was reset or, the seed not being part of its transaction but on SQLite, one
\* of its runs failed after it wrote: SeedsAreAtomic is about those.
RecordedIsThere ==
    /\ \A m \in Range(work.migrations) : ~Torn(m.id) /\ ~Busy(m.id) =>
           IF m.id \in Ids(db.applied) THEN Effects(m) \subseteq db.schema ELSE Effects(m) \cap db.schema = {}
    /\ \A s \in db.seeds : db.rows[s] >= 1
    /\ \A s \in work.seeds : ~Torn(s) /\ ~Busy(s) => db.rows[s] = IF s \in db.seeds THEN 1 ELSE 0

\* "Execute seed in a transaction for atomicity" (SeedRunner.ts:98), "preventing
\* double-execution" (37): while none of its runs is under way a seed's rows are there
\* once if it is recorded and not at all if it is not, whatever failed, unless its
\* record was reset.  It is false: SeedRunner begins a transaction for the seed and
\* gives it the adapter.
SeedsAreAtomic ==
    \A s \in work.seeds : <<s, "reset">> \notin torn /\ ~Busy(s) =>
        db.rows[s] = IF s \in db.seeds THEN 1 ELSE 0

\* What the declaration of an entity asks of its table: every column with its
\* type, key, NOT NULL, index and CHECK.  Not kept: a type that MigrationBuilder
\* has no column for; on SQLite a key that is not auto-incremented.
Kept == {"Int", "VarChar", "Text", "Decimal", "Json", "Bit"} \cup (IF d = "mssql" THEN {} ELSE {"DateTime"})
Declared(e) ==
    {Fact("table", e.table, "", "")}
    \cup {Fact("column", e.table, c.name, sqlTypeToColumnType(d, c.type)) : c \in {x \in e.columns : x.type \in Kept /\ ~x.enum}}
    \cup {Fact("key", e.table, c.name, IF c.auto /\ c.name \notin e.composite THEN "auto" ELSE "") : c \in {x \in e.columns : (x.primary \/ x.name \in e.composite) /\ (d = "sqlite" => x.auto)}}
    \cup {Fact("notnull", e.table, c.name, "") : c \in {x \in e.columns : x.nullable = "notnull"}}
    \cup {Fact("index", e.table, i, "unique") : i \in e.indexes}
    \cup {Fact("check", e.table, c.name, "") : c \in {x \in e.columns : x.enum /\ d # "mysql"}}

Generated(f) == op[f].phase = "next" /\ op[f].cmd \in {"push", "ensure"}

\* push() and ensureCreated() that resolve leave every table they created as its
\* entity declares it, and push() every column in place (with no more than its
\* name in a table that existed), whatever another deployer creates meanwhile; and
\* what an ensureCreated() made stays so through later calls, which may be rejected
\* (EnsureIsRepeatable).
SchemaIsDeclared ==
    \A f \in Deployers :
        /\ Generated(f) =>
               \A e \in Range(work.entities) : ~e.view =>
                   /\ e.table \notin Tables(d, op[f].before) => Declared(e) \subseteq db.schema
                   /\ e.table \in Tables(d, op[f].before) /\ op[f].cmd = "push" => missingColumns(d, e, db.schema) = {}
        /\ work.migrations = <<>> =>
               \A e \in Range(work.entities) : e.table \in op[f].ensured => Declared(e) \subseteq db.schema

\* What SchemaGenerator.ts:53 says: ensureCreated() is safe to call repeatedly, so where
\* one resolved and nothing failed by itself a later call resolves too.  It is false:
\* only CREATE TABLE gets IF NOT EXISTS, and of the errors of the keys, indexes and
\* checks made before only some are passed over.
EnsureIsRepeatable ==
    \A f \in Deployers : faults = 0 /\ op[f].cmd = "ensure" /\ op[f].ensured # {} => op[f].phase # "failed"

\* The table that generating a scaffolded class would make; a class with two keys
\* declares each as the key.
Again(file) == entityToMigrationBuilder(d, file.entity)[1]
Kind(facts, kind) == {x \in facts : x.kind = kind}
NameOf(facts) == {x.name : x \in facts}

\* Types that come back as they were, and those that keep NOT NULL.
Regained == {"INTEGER", "VARCHAR", "TEXT", "DECIMAL", "TIMESTAMP", "UUID"} \cup (IF d = "mysql" THEN {"BIGINT"} ELSE {"BIGINT", "BOOLEAN"})
KeepsNotNull(file, name) == ~\E x \in Kind(file.seen, "column") : x.name = name /\ x.value \in {"TEXT", "TIMESTAMP"}

\* A scaffolded class describes the table it was read from: generated again it is a
\* table of the same columns and key, with their types and NOT NULL as far as the two
\* mappings keep them; and the classes it refers to were scaffolded too, unless only
\* some tables were asked for or the schema changed between two of the reads.
ScaffoldsFit ==
    \A n \in DOMAIN dir.classes :
        LET file == dir.classes[n]
            made == Again(file).facts
            had(kind) == Kind(file.seen, kind)
        IN /\ NameOf(Kind(made, "column")) = NameOf(had("column"))
           /\ Kind(made, "key") = had("key")
           /\ Cardinality(had("key")) <= 1 => refusal(d, {}, Again(file)) = "none"
           /\ \A x \in had("column") : x.value \in Regained => x \in made
           /\ Kind(made, "notnull") \subseteq had("notnull")
           /\ \A x \in had("notnull") : KeepsNotNull(file, x.name) => x \in made
           /\ file.whole => /\ d \in {"sqlite", "mssql"} => Has(file.seen, "table", n, "")
                           /\ \A r \in file.relations : r.target \in DOMAIN dir.classes
=============================================================================
