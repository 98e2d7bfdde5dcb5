---- MODULE SetWrites ----
(* The writes of a DbSet (src/set/DbSet.ts) and of the bulk builders, made by *)
(* clients that share a database: every call is a list of steps, one for each *)
(* statement it awaits, and other calls run between two of them.  Versions,   *)
(* tenants, soft deletion with its cascades, the audit log and the lifecycle  *)
(* events are what the statements do; the columns they carry are left out.    *)
EXTENDS Integers, FiniteSets, Sequences, SequencesExt, EntityEventBus

CONSTANTS Clients,    \* the asynchronous flows of the application
          Tenants,    \* the tenants there are
          Tenant,     \* the tenant of each client's context, or None
          SeesDeleted,\* the clients whose sets are withDeleted()
          Ids,        \* the primary keys
          KindOf,     \* the entity class a key belongs to
          OwnerOf,    \* the key its foreign key holds, or None
          HasMany,    \* the classes each class declares as children
          Models,     \* the decorations of the classes, the rows at the start, what
                      \* each client does, and how many calls and failures there are
          Who,        \* the listeners that may subscribe to the context
          Aborts,     \* TRUE when a failed statement aborts its transaction
          None

Kinds == {KindOf[i] : i \in Ids}
Stored == [tenant : Tenants \cup {None}, version : Nat, by : Nat, deleted : BOOLEAN]

ASSUME IdsAssumption == IsFiniteSet(Ids) /\ HasMany \in [Kinds -> SUBSET Kinds]
ASSUME NoneAssumption == None \notin Stored /\ None \notin Clients
ASSUME ClientsAssumption == Tenant \in [Clients -> Tenants \cup {None}] /\ {"all", "own"} \cap Who = {}
ASSUME ModelsAssumption ==
    \A m \in Models :
        /\ m.soft \in [Kinds -> {"class", "property", "none"}]
        /\ m.cascade \subseteq {k \in Kinds : m.soft[k] # "none"}
        /\ m.rows \in [Ids -> Stored \cup {None}]
        /\ m.ids \in [Clients -> SUBSET Ids]

VARIABLES model,      \* the decorations and the workload, one of Models
          db,         \* rows, audit log; which call changed which row, by a statement of
                      \* its own about it or sweeping over it with others
          saved,      \* what a rollback of the open transaction returns to
          tx,         \* the client whose transaction is open, or None
          poisoned,   \* the open transaction fails every statement
          todo,       \* what is left of each client's call
          call,       \* each client's latest call, and how it ended
          seen,       \* the row its latest read returned, or None
          held,       \* the entity a client loaded before its calls
          listeners, told,
          calls, faults,
          loose,      \* rows written past their version
          meanwhile   \* rows others changed since a client's call began

vars == <<model, db, saved, tx, poisoned, todo, call, seen, held, listeners, told,
          calls, faults, loose, meanwhile>>

Soft(k) == model.soft[k]                   \* "class", "property" or "none"
Cascades(k) == k \in model.cascade
Versioned(i) == KindOf[i] \in model.versioned
Audited(i) == KindOf[i] \in model.audited
Owned(k, o) == {i \in Ids : KindOf[i] = k /\ OwnerOf[i] = o /\ db.rows[i] # None}

SameTenant(c, r) == Tenant[c] # None => r.tenant = Tenant[c]
Matches(c, i) == db.rows[i] # None /\ SameTenant(c, db.rows[i])
Visible(c, i) == Matches(c, i) /\ (db.rows[i].deleted => c \in SeesDeleted)

(* ----------------------------- steps of a call ---------------------------- *)

Step(do, i) == [do |-> do, id |-> i, arg |-> None, opt |-> FALSE]
With(do, i, arg) == [Step(do, i) EXCEPT !.arg = arg]
Again(do, i) == [Step(do, i) EXCEPT !.opt = TRUE]
Each(do, S) == [n \in 1 .. Cardinality(S) |-> Step(do, SetToSeq(S)[n])]
EachKind(do, ks, i) == [n \in 1 .. Cardinality(ks) |-> With(do, i, SetToSeq(ks)[n])]

\* emitLifecycleEvent(): the names it emits for one change are one event here.
Emitting(i, act) == <<With("emit", i, act)>>
Auditing(i, act) == IF Audited(i) THEN <<With("audit", i, act)>> ELSE <<>>
Ending(i, act) == Auditing(i, act) \o Emitting(i, act)

Adding(i, tree) == <<With("add", i, tree)>>

\* fault: the audit entry is written before the UPDATE has checked the version.
UpdatingAuditedFirst(i, do, entity) ==
    Auditing(i, "updated") \o <<With(do, i, entity), Step("reload", i)>> \o Emitting(i, "updated")

\* "entity" is the row whose version the caller names, or None.
Updating(i, do, entity) ==
    (IF Audited(i) THEN <<Step("find", i)>> ELSE <<>>)
    \o (IF Versioned(i) /\ entity = None THEN <<Step("find", i)>> ELSE <<>>)
    \o <<With(do, i, entity), Step("reload", i)>> \o Ending(i, "updated")

SoftChildren(k) == {d \in HasMany[k] : Soft(d) # "none"}

Removing(i, entity) == <<Step("find", i), With("remove", i, entity)>>

\* remove() passes over children without @SoftDelete, restore() does not.
CascadingRemove(i) ==
    IF Cascades(KindOf[i]) THEN EachKind("removeWhere", SoftChildren(KindOf[i]), i) ELSE <<>>
CascadingRestore(i) ==
    IF Cascades(KindOf[i]) THEN EachKind("restoreWhere", HasMany[KindOf[i]], i) ELSE <<>>

\* addRange() and upsertRange() make one call after another, in no transaction.
AddingRange(S) == FlattenSeq([n \in 1 .. Cardinality(S) |-> Adding(SetToSeq(S)[n], {})])
UpsertingRange(S) == FlattenSeq([n \in 1 .. Cardinality(S) |->
                        <<Step("find", SetToSeq(S)[n]), Step("upsert", SetToSeq(S)[n])>>])

InTransaction(steps) == <<Step("begin", None)>> \o steps \o <<Step("commit", None)>>

Calls(c) ==
    LET Entities(i) == {None} \cup (IF held[c] # None /\ held[c].id = i THEN {held[c].row} ELSE {}) IN
    UNION {
      {<<"addRange", i, AddingRange({d \in Ids : OwnerOf[d] = i} \cup {i})>>,
       <<"upsertRange", i, UpsertingRange({d \in Ids : OwnerOf[d] = i} \cup {i})>>}
      \cup {<<"add", i, Adding(i, t)>> : t \in {{}, {d \in Ids : OwnerOf[d] = i}}}
      \cup {<<"update", i, Updating(i, "write", e)>> : e \in Entities(i)}
      \cup {<<"upsert", i, <<Step("find", i), With("upsert", i, e)>> >> : e \in Entities(i)}
      \cup {<<"remove", i, Removing(i, e)>> : e \in Entities(i)}
      \cup {<<"hardRemove", i, <<With("hardRemove", i, e)>> >> : e \in Entities(i)}
      \cup {<<"nativeUpsert", i, <<Step("native", i)>> >>, <<"restore", i, <<Step("restore", i)>> >>}
      \cup {<<"where", i, <<With(do, i, k)>> >> :
                do \in {"removeWhere", "restoreWhere", "hardRemoveWhere", "bulkDelete"},
                k \in HasMany[KindOf[i]]}
      \cup {<<do, i, InTransaction(Each(do, {d \in Ids : OwnerOf[d] = i}))>> :
                do \in {"bulkInsert", "bulkUpdate", "bulkUpsert"}}
      : i \in Ids}

(* -------------------------------- the state ------------------------------- *)

InitialListeners == On(<<>>, "all", {"created", "updated", "deleted"})

Init ==
    /\ model \in Models
    /\ db = [rows |-> model.rows, trail |-> {}, changed |-> {}, swept |-> {}]
    /\ saved = db /\ tx = None /\ poisoned = FALSE
    /\ todo = [c \in Clients |-> <<>>]
    /\ call = [c \in Clients |-> [n |-> 0, op |-> "none", id |-> None, end |-> "resolved",
                                missed |-> {}, undone |-> FALSE]]
    /\ seen = [c \in Clients |-> None]
    /\ held = [c \in Clients |-> None]
    /\ listeners = InitialListeners /\ told = {}
    /\ calls = 0 /\ faults = 0 /\ loose = {}
    /\ meanwhile = [c \in Clients |-> {}]

Idle(c) == todo[c] = <<>>
Now(c) == Head(todo[c])
At(c, do) == todo[c] # <<>> /\ Now(c).do = do /\ tx \in {None, c} /\ ~poisoned

Kept == UNCHANGED <<model, held, calls, listeners, told>>
Database == <<db, saved, tx, poisoned>>

\* The call goes on with these steps before the rest of it, or it has returned.
Then(c, steps) ==
    LET rest == steps \o Tail(todo[c]) IN
    /\ todo' = [todo EXCEPT ![c] = rest]
    /\ call' = IF rest = <<>> THEN [call EXCEPT ![c].end = "resolved"] ELSE call

\* ... and its statement about i matched no row, which it does not notice.
Missing(c, i, steps) ==
    LET rest == steps \o Tail(todo[c]) IN
    /\ todo' = [todo EXCEPT ![c] = rest]
    /\ call' = [call EXCEPT ![c].missed = @ \cup {i}, ![c].end = IF rest = <<>> THEN "resolved" ELSE @]
    /\ UNCHANGED <<db, saved, tx, poisoned, seen, loose, meanwhile>>

\* The call throws: what is left of it is not run, and its transaction rolls back.
Throw(c) ==
    /\ todo' = [todo EXCEPT ![c] = <<>>]
    /\ call' = [call EXCEPT ![c].end = "rejected"]
    /\ IF tx = c THEN db' = saved /\ tx' = None /\ poisoned' = FALSE /\ saved' = saved
       ELSE UNCHANGED Database
    /\ UNCHANGED <<seen, loose, meanwhile>>

\* A statement of c that leaves these rows; "mine" are those it is about, the others
\* it changes are swept over.
Store(c, rows, mine) ==
    /\ db' = [db EXCEPT !.rows = rows, !.changed = @ \cup {<<call[c].n, i>> : i \in mine},
                        !.swept = @ \cup {<<call[c].n, i>> : i \in {j \in Ids \ mine : rows[j] # db.rows[j]}}]
    /\ meanwhile' = [d \in Clients |-> IF d = c THEN meanwhile[d] ELSE
                        meanwhile[d] \cup {i \in Ids : rows[i] # db.rows[i]}]
    /\ UNCHANGED <<saved, tx, poisoned>>

Read(c, steps) == Then(c, steps) /\ UNCHANGED <<db, saved, tx, poisoned, seen, loose, meanwhile>>

(* ------------------------------- statements ------------------------------- *)

\* find() and first(): what the filters of the client's set let it see.
Find(c) ==
    /\ At(c, "find")
    /\ seen' = [seen EXCEPT ![c] = IF Visible(c, Now(c).id) THEN db.rows[Now(c).id] ELSE None]
    /\ Then(c, <<>>) /\ UNCHANGED <<db, saved, tx, poisoned, loose, meanwhile>>

\* findOrThrow() at the end of update().
Reload(c) ==
    /\ At(c, "reload")
    /\ IF Visible(c, Now(c).id) THEN Read(c, <<>>) ELSE Throw(c)

NewRow(c, i, tenant, version) ==
    [tenant |-> tenant, version |-> IF Versioned(i) THEN version ELSE 0,
     by |-> call[c].n, deleted |-> FALSE]

\* The database's keys: one row for each, and the row a foreign key names.
Insertable(i) == db.rows[i] = None /\ (OwnerOf[i] # None => db.rows[OwnerOf[i]] # None)
Deletable(S) == \A i \in Ids : OwnerOf[i] \in S /\ db.rows[i] # None => i \in S

Add(c) ==
    /\ At(c, "add")
    /\ LET i == Now(c).id
           nested == {d \in Now(c).arg : OwnerOf[d] = i /\ KindOf[d] \in HasMany[KindOf[i]]} IN
       IF ~Insertable(i) THEN Throw(c)
       ELSE /\ Store(c, [db.rows EXCEPT ![i] = NewRow(c, i, Tenant[c], 1)], {i})
            /\ Then(c, [n \in 1 .. Cardinality(nested) |->
                          With("add", SetToSeq(nested)[n], Now(c).arg)] \o Ending(i, "created"))
            /\ UNCHANGED <<seen, loose>>

\* The UPDATE of update(): the version it checks is the caller's, or the one it
\* read; where it read none it checks none, and counts from the beginning.
Against(c) == IF ~Versioned(Now(c).id) THEN None
              ELSE IF Now(c).arg # None THEN Now(c).arg ELSE seen[c]
\* fault: the version is not compared.
AgreesWithAny(c) == Against(c) # None => Against(c).version # 0
Agrees(c) == Against(c) # None =>
    /\ Against(c).version # 0       \* "version = NULL" holds of no row
    /\ db.rows[Now(c).id].version = Against(c).version
Lands(c) == Matches(c, Now(c).id) /\ Agrees(c)
NextVersion(c) == IF ~Versioned(Now(c).id) THEN 0
                  ELSE IF Against(c) = None THEN 1 ELSE Against(c).version + 1

Write(c) ==
    /\ At(c, "write") \/ At(c, "stamp")
    /\ LET i == Now(c).id IN
       \/ /\ Lands(c)
          /\ Store(c, [db.rows EXCEPT ![i].version = NextVersion(c), ![i].by = call[c].n,
                                      ![i].deleted = @ \/ Now(c).do = "stamp"], {i})
          /\ loose' = IF Against(c) = None THEN loose \cup {i} ELSE loose
          /\ Then(c, <<>>) /\ UNCHANGED seen
       \/ ~Lands(c) /\ Against(c) # None /\ Throw(c)
       \/ ~Lands(c) /\ Against(c) = None /\ Missing(c, i, <<>>)

\* upsert() decides by what it read; the row may have come or gone since.
Upsert(c) ==
    /\ At(c, "upsert")
    /\ LET i == Now(c).id IN
       Read(c, IF seen[c] # None THEN Updating(i, "write", Now(c).arg) ELSE Adding(i, {}))

\* nativeUpsert(): one statement that no filter and no version guards; "opt" is
\* the second attempt of its catch block.
Native(c) ==
    /\ At(c, "native")
    /\ LET i == Now(c).id IN
       IF db.rows[i] = None /\ ~Insertable(i)
       THEN IF Now(c).opt THEN Throw(c) ELSE Read(c, <<Again("native", i)>>)
       ELSE /\ Store(c, [db.rows EXCEPT ![i] = IF @ = None THEN NewRow(c, i, None, 0)
                                               ELSE [@ EXCEPT !.by = call[c].n]], {i})
            /\ loose' = loose \cup {i}
            /\ Then(c, Emitting(i, "updated")) /\ UNCHANGED seen

Unversioned(c, i) == ~Versioned(i) \/ Now(c).arg = None
Removable(c, i) == Matches(c, i) /\ (~Unversioned(c, i) =>
    Now(c).arg.version # 0 /\ db.rows[i].version = Now(c).arg.version)

\* The DELETE of hardRemove().
Delete(c, steps) ==
    LET i == Now(c).id IN
    \/ /\ Removable(c, i) /\ Deletable({i})
       /\ Store(c, [db.rows EXCEPT ![i] = None], {i})
       /\ loose' = loose \cup {i} /\ Then(c, steps) /\ UNCHANGED seen
    \/ (IF Removable(c, i) THEN ~Deletable({i}) ELSE ~Unversioned(c, i)) /\ Throw(c)
    \/ ~Removable(c, i) /\ Unversioned(c, i) /\ Missing(c, i, steps)

HardRemove(c) == At(c, "hardRemove") /\ Delete(c, <<>>)

RemoveRow(c) ==
    /\ At(c, "remove")
    /\ LET i == Now(c).id
           rest == CascadingRemove(i) \o Ending(i, "deleted") IN
       \/ Soft(KindOf[i]) = "property" /\ Read(c, Updating(i, "stamp", Now(c).arg) \o rest)
       \/ Soft(KindOf[i]) = "none" /\ Delete(c, Ending(i, "deleted"))
       \/ /\ Soft(KindOf[i]) = "class"
          /\ \/ /\ Removable(c, i)
                /\ Store(c, [db.rows EXCEPT ![i].deleted = TRUE], {i})
                /\ Then(c, rest) /\ UNCHANGED <<seen, loose>>
             \/ ~Removable(c, i) /\ ~Unversioned(c, i) /\ Throw(c)
             \/ ~Removable(c, i) /\ Unversioned(c, i) /\ Missing(c, i, rest)

Mark(c, S, gone, steps) ==
    /\ Store(c, [i \in Ids |-> IF i \in S THEN [db.rows[i] EXCEPT !.deleted = gone] ELSE db.rows[i]], {})
    /\ Then(c, steps) /\ UNCHANGED <<seen, loose>>

DeleteAll(c, S) ==
    IF ~Deletable(S) THEN Throw(c)
    ELSE /\ Store(c, [i \in Ids |-> IF i \in S THEN None ELSE db.rows[i]], {})
         /\ loose' = loose \cup S /\ Then(c, <<>>) /\ UNCHANGED seen

\* removeWhere() and hardRemoveWhere(), of the children of one row; no tenant filter.
RemoveWhere(c) ==
    /\ At(c, "removeWhere") \/ At(c, "hardRemoveWhere")
    /\ LET k == Now(c).arg
           o == Now(c).id IN
       IF Soft(k) = "none" \/ Now(c).do = "hardRemoveWhere" THEN DeleteAll(c, Owned(k, o))
       ELSE Mark(c, Owned(k, o), TRUE, IF Cascades(k) THEN <<With("listRemoved", o, k)>> ELSE <<>>)

\* fault: the rows are listed as a query would, without those just deleted.
ListRemovedActive(c) ==
    /\ At(c, "listRemoved")
    /\ LET k == Now(c).arg
           below == {i \in Owned(k, Now(c).id) : Visible(c, i)} IN
       Read(c, FlattenSeq([n \in 1 .. Cardinality(below) |->
                   EachKind("removeWhere", SoftChildren(k), SetToSeq(below)[n])]))

\* ... then the rows are listed, through the tenant filter, to go on below them.
ListRemoved(c) ==
    /\ At(c, "listRemoved")
    /\ LET k == Now(c).arg
           below == {i \in Owned(k, Now(c).id) : Matches(c, i)} IN
       Read(c, FlattenSeq([n \in 1 .. Cardinality(below) |->
                   EachKind("removeWhere", SoftChildren(k), SetToSeq(below)[n])]))

Restore(c) ==
    /\ At(c, "restore")
    /\ LET i == Now(c).id IN
       \/ Soft(KindOf[i]) = "none" /\ Throw(c)
       \/ /\ Soft(KindOf[i]) # "none"
          /\ Mark(c, {i} \cap {d \in Ids : db.rows[d] # None}, FALSE, CascadingRestore(i))

RestoreWhere(c) ==
    /\ At(c, "restoreWhere")
    /\ LET k == Now(c).arg
           o == Now(c).id IN
       \/ Soft(k) = "none" /\ Throw(c)
       \/ /\ Soft(k) # "none"
          /\ Mark(c, Owned(k, o), FALSE, IF Cascades(k) THEN <<With("listRestored", o, k)>> ELSE <<>>)

ListRestored(c) ==
    /\ At(c, "listRestored")
    /\ LET k == Now(c).arg
           below == {i \in Owned(k, Now(c).id) : Visible(c, i)} IN
       Read(c, FlattenSeq([n \in 1 .. Cardinality(below) |->
                   EachKind("restoreWhere", SoftChildren(k), SetToSeq(below)[n])]))

(* ---------------------------- the bulk builders --------------------------- *)

BulkDelete(c) ==
    /\ At(c, "bulkDelete")
    /\ LET S == Owned(Now(c).arg, Now(c).id) IN
       \/ Soft(Now(c).arg) # "none" /\ Mark(c, S, TRUE, <<>>)
       \/ DeleteAll(c, S)                               \* or options.hardDelete

BulkInsert(c) ==
    /\ At(c, "bulkInsert")
    /\ LET i == Now(c).id IN
       IF ~Insertable(i) THEN Throw(c)
       ELSE /\ Store(c, [db.rows EXCEPT ![i] = NewRow(c, i, None, 1)], {})
            /\ loose' = loose \cup {i} /\ Then(c, <<>>) /\ UNCHANGED seen

BulkUpdate(c) ==
    /\ At(c, "bulkUpdate")
    /\ LET i == Now(c).id IN
       IF db.rows[i] = None THEN Read(c, <<>>)
       ELSE /\ Store(c, [db.rows EXCEPT ![i].by = call[c].n], {})
            /\ loose' = loose \cup {i} /\ Then(c, <<>>) /\ UNCHANGED seen

\* The count, and the statement it decides, inside the transaction.
BulkUpsert(c) ==
    /\ At(c, "bulkUpsert")
    /\ Read(c, <<Step(IF db.rows[Now(c).id] = None THEN "bulkInsert" ELSE "bulkUpdate", Now(c).id)>>)

(* ------------------- the audit log, events, transactions ------------------ *)

Audit(c) ==
    /\ At(c, "audit")
    /\ db' = [db EXCEPT !.trail = @ \cup {[call |-> call[c].n, id |-> Now(c).id,
                                        op |-> Now(c).arg, missed |-> Now(c).id \in call[c].missed]}]
    /\ Then(c, <<>>) /\ UNCHANGED <<saved, tx, poisoned, seen, loose, meanwhile>>

\* c's write of row i goes through the set the context keeps: not through a clone,
\* as withDeleted() and inTransaction() return, but nested rows are added through it.
Itself(c, i) == \/ c \notin SeesDeleted /\ call[c].op # "unit"
                \/ call[c].op = "add" /\ i # call[c].id
\* The listener registered with on() at every set of the context: clones lose it.
OwnListener(c, i, name) == IF Itself(c, i) THEN <<Registration("own", {name}, FALSE)>> ELSE <<>>

\* emit() takes the matching listeners, forgets those registered once, and then
\* runs them one at a time; a transaction does not hold it up, nor does a failure.
\* The listeners of the set come after those of the context.
Emit(c) ==
    /\ todo[c] # <<>> /\ Now(c).do = "emit"
    /\ LET name == Now(c).arg
           heard == Matching(listeners, name) \o OwnListener(c, Now(c).id, name) IN
       /\ listeners' = Remaining(listeners, name)
       /\ Then(c, [n \in DOMAIN heard |-> With("tell", Now(c).id, <<heard[n].who, name>>)])
    /\ UNCHANGED <<model, held, calls, told, faults, seen, loose, meanwhile>> /\ UNCHANGED Database

Tell(c) ==
    /\ todo[c] # <<>> /\ Now(c).do = "tell"
    /\ told' = told \cup {[who |-> Now(c).arg[1], call |-> call[c].n, id |-> Now(c).id,
                              act |-> Now(c).arg[2], inTx |-> tx = c,
                              missed |-> Now(c).id \in call[c].missed]}
    /\ Then(c, <<>>)
    /\ UNCHANGED <<model, held, calls, listeners, faults, seen, loose, meanwhile>> /\ UNCHANGED Database

Begin(c) ==
    /\ At(c, "begin") /\ tx = None
    /\ tx' = c /\ saved' = db /\ Then(c, <<>>)
    /\ UNCHANGED <<db, poisoned, seen, loose, meanwhile>>

Commit(c) ==
    /\ At(c, "commit")
    /\ tx' = None /\ Then(c, <<>>)
    /\ UNCHANGED <<db, saved, poisoned, seen, loose, meanwhile>>

\* PostgreSQL answers COMMIT of an aborted transaction by rolling it back, and
\* reports no error; every other statement of it fails.
Aborted(c) ==
    /\ poisoned /\ tx = c /\ todo[c] # <<>> /\ Now(c).do \notin {"emit", "tell"}
    /\ \/ Now(c).do = "audit" /\ Read(c, <<>>)
       \/ Now(c).do \notin {"audit", "commit"} /\ Throw(c)
       \/ /\ Now(c).do = "commit"
          /\ db' = saved /\ tx' = None /\ poisoned' = FALSE
          /\ todo' = [todo EXCEPT ![c] = Tail(@)]
          /\ call' = [call EXCEPT ![c].undone = TRUE, ![c].end = IF Tail(todo[c]) = <<>> THEN "resolved" ELSE @]
          /\ UNCHANGED <<saved, seen, loose, meanwhile>>

\* A statement, a hook or a listener fails.  A failed audit entry is swallowed, a
\* failed native upsert is tried again.
Fault(c) ==
    /\ todo[c] # <<>> /\ faults < model.faults /\ tx \in {None, c} /\ ~poisoned
    /\ faults' = faults + 1
    /\ \/ /\ Now(c).do = "audit"
          /\ poisoned' = (Aborts /\ tx = c)
          /\ Then(c, <<>>) /\ UNCHANGED <<db, saved, tx, seen, loose, meanwhile>>
       \/ Now(c).do = "native" /\ ~Now(c).opt /\ Read(c, <<Again("native", Now(c).id)>>)
       \/ (Now(c).do = "native" => Now(c).opt) /\ Now(c).do \notin {"audit", "emit", "clear"} /\ Throw(c)

(* -------------------------------- the clients ----------------------------- *)

Start(c, op, i, steps) ==
    /\ Idle(c) /\ calls < model.calls
    /\ calls' = calls + 1
    /\ todo' = [todo EXCEPT ![c] = steps]
    /\ call' = [call EXCEPT ![c] = [n |-> calls + 1, op |-> op, id |-> i, end |-> "running",
                                     missed |-> {}, undone |-> FALSE]]
    /\ meanwhile' = [meanwhile EXCEPT ![c] = {}]
    /\ seen' = [seen EXCEPT ![c] = None]
    /\ UNCHANGED <<model, db, saved, tx, poisoned, held, listeners, told, faults, loose>>

Does(c, op) == op \in model.does[c]

CallSet(c) == \E x \in Calls(c) :
    /\ Does(c, x[1]) /\ x[2] \in model.ids[c] /\ x[3] # InTransaction(<<>>)
    /\ Start(c, x[1], x[2], x[3])

\* The client reads an entity it will pass, with its version, to a later call.
Load(c, i) ==
    /\ Does(c, "load") /\ Idle(c) /\ tx = None /\ Visible(c, i)
    /\ held' = [held EXCEPT ![c] = [id |-> i, row |-> db.rows[i]]]
    /\ UNCHANGED <<model, todo, call, seen, listeners, told, calls, faults, loose, meanwhile>>
    /\ UNCHANGED Database

\* once(), by a listener that never was registered before.
Subscribe(l, names) ==
    /\ l \notin {listeners[n].who : n \in DOMAIN listeners} \cup {t.who : t \in told}
    /\ \A c \in Clients : \A n \in DOMAIN todo[c] : todo[c][n].do = "tell" => todo[c][n].arg[1] # l
    /\ listeners' = Once(listeners, l, names)
    /\ UNCHANGED <<model, todo, call, seen, held, told, calls, faults, loose, meanwhile>>
    /\ UNCHANGED Database

Unsubscribe(l) ==
    /\ listeners' = Off(listeners, l) /\ listeners' # listeners
    /\ UNCHANGED <<model, todo, call, seen, held, told, calls, faults, loose, meanwhile>>
    /\ UNCHANGED Database

Statement(c) ==
    /\ \/ Find(c) \/ Reload(c) \/ Add(c) \/ Write(c) \/ Upsert(c) \/ Native(c)
       \/ HardRemove(c) \/ RemoveRow(c) \/ RemoveWhere(c) \/ ListRemoved(c)
       \/ Restore(c) \/ RestoreWhere(c) \/ ListRestored(c)
       \/ BulkDelete(c) \/ BulkInsert(c) \/ BulkUpdate(c) \/ BulkUpsert(c)
       \/ Audit(c) \/ Begin(c) \/ Commit(c) \/ Aborted(c)
    /\ UNCHANGED faults

Run(c) == Kept /\ (Statement(c) \/ Fault(c))

SetNext ==
    \/ \E c \in Clients : CallSet(c) \/ Run(c) \/ Emit(c) \/ Tell(c) \/ \E i \in Ids : Load(c, i)
    \/ \E l \in Who : /\ \E c \in Clients : Does(c, "subscribe")
                      /\ Subscribe(l, {"created", "updated"}) \/ Unsubscribe(l)

(* ------------------------------- properties ------------------------------- *)

\* A versioned update that lands replaces the very content its caller, or its own
\* read, saw: two users editing one row never overwrite each other unawares
\* (Version.ts:11-19).  Rows written past their version are excepted: by the bulk
\* builders and the native upsert, by adding again a row that was deleted, and by an
\* update that read nothing because the row is deleted, which counts from 1 again.
NoLostUpdate ==
    [][\A c \in Clients : (At(c, "write") \/ At(c, "stamp")) /\ Lands(c) /\ Against(c) # None
          /\ db' # db /\ todo'[c] # todo[c] =>
            \/ db.rows[Now(c).id].by = Against(c).by
            \/ Now(c).id \in loose]_vars

\* What Version.ts:11-12 says: every UPDATE meets the version token of what its caller
\* saw, so that nobody overwrites another's change.  It is false after those writes.
VersionsAreValidated ==
    [][\A c \in Clients : (At(c, "write") \/ At(c, "stamp")) /\ Lands(c) /\ Against(c) # None
          /\ db' # db /\ todo'[c] # todo[c] => db.rows[Now(c).id].by = Against(c).by]_vars

Resolves(c) == call[c].end = "running" /\ call'[c].end = "resolved"

\* The rows a cascade starting at i is meant to reach.
Below(S) == {d \in Ids : /\ OwnerOf[d] \in S /\ Cascades(KindOf[OwnerOf[d]])
                         /\ KindOf[d] \in SoftChildren(KindOf[OwnerOf[d]])}
Under(i) == Below({i}) \cup Below(Below({i}))

\* A remove() of a row of a cascading class that resolves leaves none of the rows under
\* it active, a restore() that resolves none of them deleted (SoftDelete.ts:13-19),
\* whatever runs between the statements; excepted are rows others wrote meanwhile, and
\* those below a row of another tenant, which the cascade marks and does not look under.
\* A call that is rejected outside a transaction may leave a cascade half done.
CascadeIsWhole ==
    [][\A c \in Clients : Resolves(c) /\ call[c].op \in {"remove", "restore"} =>
         \A d \in Under(call[c].id) :
           LET o == OwnerOf[d] IN
           db.rows[d] # None /\ {d, o} \cap meanwhile[c] = {} /\ (o # call[c].id => Matches(c, o)) =>
             /\ call[c].op = "remove" => db'.rows[d] = None \/ db'.rows[d].deleted
             /\ call[c].op = "restore" => ~db'.rows[d].deleted]_vars

\* What SoftDelete.ts:31-33 says of remove(), whichever way the class is decorated: once
\* it has marked its row it is rejected only when a statement, a hook or a listener
\* fails, or another call wrote the row.  It is false where @SoftDelete decorates a
\* property: the update() that marks the row cannot find it again.
SoftRemoveResolves ==
    [][\A c \in Clients : call[c].op = "remove" /\ call[c].end = "running" /\ call'[c].end = "rejected"
         /\ <<call[c].n, call[c].id>> \in db.changed =>
            faults' > 0 \/ call[c].id \in meanwhile[c]]_vars

\* hardRemove(), the native upsert, the where- and bulk forms write no audit entry.
Unaudited == {"hardRemove", "nativeUpsert", "where", "bulkInsert", "bulkUpdate", "bulkUpsert"}
Entered(c, i) == \E e \in db.trail : e.call = call[c].n /\ e.id = i

\* The audit log keeps step with the statements add(), update(), upsert() and remove()
\* make about one row: an entry is about a row its call changed so, also after a
\* rollback; and such a call that resolved without a failure has an entry for each
\* audited row it changed so, those it adds nested included.  Excepted is what a call
\* reports though its statement missed the row: a remove() always does, an update() when
\* the row was added or restored between its UPDATE and its reload.  Nothing is said of
\* the rows that restore(), a cascade, a where- or a bulk form sweeps over.
TrailIsTrue ==
    /\ \A e \in db.trail : <<e.call, e.id>> \in db.changed \/ e.missed
    /\ \A c \in Clients : call[c].end = "resolved" /\ call[c].op \notin Unaudited /\ faults = 0 =>
         \A i \in Ids : Audited(i) /\ <<call[c].n, i>> \in db.changed => Entered(c, i)

\* What AuditMetadata.ts:6 says: every INSERT, UPDATE and DELETE on an audited entity is
\* written to the log, by whatever call.  It is false of restore(), of cascades, of
\* hardRemove(), of the native upsert and of the where- and bulk forms.
EveryWriteIsAudited ==
    \A c \in Clients : call[c].end = "resolved" /\ faults = 0 =>
      \A i \in Ids : Audited(i) /\ <<call[c].n, i>> \in db.changed \cup db.swept => Entered(c, i)

\* What AuditDecorator.ts:11 says: there are no orphaned audit entries.  It is false of a
\* remove() whose statement matched no row, and of an update() as above.
NoOrphanedEntries == \A e \in db.trail : <<e.call, e.id>> \in db.changed

\* Who is sure to hear of what c did to row i: a listener of the context, and one of the
\* set when the call was made on the very set.
Ears(c, i) == {"all"} \cup (IF Itself(c, i) THEN {"own"} ELSE {})
Told(who, c, i) == \E t \in told : t.who = who /\ t.call = call[c].n /\ t.id = i

\* Listeners hear of what happened: of a row its call changed by a statement about it (or
\* missed, as above; and a unit of work reports before it commits); of every row that a
\* resolved add(), update(), upsert(), remove() or native upsert changed so, at the
\* context's bus and, unless a clone made the call, at the set's; and a listener
\* registered with once() of one event alone, whatever calls emit at the same time.
\* hardRemove() reports nothing, nor does any call of the rows it sweeps over.
ListenersHear ==
    /\ \A t \in told : <<t.call, t.id>> \in db.changed \/ t.missed \/ t.inTx
    /\ \A c \in Clients : call[c].end = "resolved" /\ call[c].op # "hardRemove" =>
         \A i \in Ids : <<call[c].n, i>> \in db.changed => \A v \in Ears(c, i) : Told(v, c, i)
    /\ \A l \in Who : Cardinality({t \in told : t.who = l}) <= 1

\* What DbSet.ts:170 says: events go to the context and to the set, so that a listener of
\* the set hears of what the context hears of.  It is false of the writes of a unit of
\* work and of every set that is a clone, which do not have the listeners of the set.
SetListenersHear ==
    \A c \in Clients : call[c].end = "resolved" =>
      \A i \in Ids : Told("all", c, i) => Told("own", c, i)
====
