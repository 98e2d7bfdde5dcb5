---- MODULE UnitOfWork ----
(* src/uow/UnitOfWork.ts over the writes of SetWrites: operations registered   *)
(* by any flow of a request, written together by commit().                     *)
EXTENDS SetWrites

CONSTANT BelongsTo    \* the classes each class declares as parents

VARIABLES unit,       \* the operations registered and not yet flushed
          serial,     \* how many were ever registered
          taken,      \* the operations each client's commit() is writing
          fate        \* what became of the operations that left the unit

uvars == <<vars, unit, serial, taken, fate>>

Op(n, do, i, entity) == [n |-> n, do |-> do, id |-> i, entity |-> entity]

(* ------------------ the order in which commit() writes them --------------- *)

IsChildOf(a, b) == \/ KindOf[b.id] \in BelongsTo[KindOf[a.id]]
                   \/ KindOf[a.id] \in HasMany[KindOf[b.id]]

Sorting(ops) == [out : Seq(Range(ops)), visited : SUBSET DOMAIN ops, visiting : SUBSET DOMAIN ops]

\* A loop over the operations that visits those of a set; "visit" is the function
\* that its calls compute.
Through(ops, among, visit, s) ==
    LET through[m \in 0 .. Len(ops)] ==
            IF m = 0 THEN s
            ELSE IF m \in among THEN visit[m][through[m - 1]] ELSE through[m - 1]
    IN through[Len(ops)]

Parents(ops, n) == {m \in DOMAIN ops : m # n /\ IsChildOf(ops[n], ops[m])}

\* visit(): an operation met again while it is being visited is put down at
\* once, and once more when its own visit ends.
Visit(ops, visit, n, s) ==
    IF n \in s.visited THEN s
    ELSE IF n \in s.visiting
    THEN [s EXCEPT !.out = Append(@, ops[n]), !.visited = @ \cup {n}]
    ELSE LET below == Through(ops, Parents(ops, n), visit, [s EXCEPT !.visiting = @ \cup {n}])
         IN [out |-> Append(below.out, ops[n]), visited |-> below.visited \cup {n},
             visiting |-> below.visiting \ {n}]

\* ... whose calls nest no deeper than there are operations.
Visits(ops) ==
    LET visits[depth \in 0 .. Len(ops) + 1] ==
            [n \in DOMAIN ops |-> [s \in Sorting(ops) |->
                IF depth = 0 THEN s ELSE Visit(ops, visits[depth - 1], n, s)]]
    IN visits[Len(ops) + 1]

\* fault: operations are written as they were registered.
SortAsRegistered(ops) == ops

SortInserts(ops) ==
    Through(ops, DOMAIN ops, Visits(ops), [out |-> <<>>, visited |-> {}, visiting |-> {}]).out
SortDeletes(ops) == Reverse(SortInserts(ops))

Doing(ops, do) == Among(ops, {op \in Range(ops) : op.do = do})

Flushing(ops) ==
    LET Inserted == SortInserts(Doing(ops, "Added"))
        Modified == Doing(ops, "Modified")
        Deleted == SortDeletes(Doing(ops, "Deleted")) IN
    FlattenSeq([n \in DOMAIN Inserted |-> Adding(Inserted[n].id, {})]
        \o [n \in DOMAIN Modified |-> Updating(Modified[n].id, "write", Modified[n].entity)]
        \o [n \in DOMAIN Deleted |-> Removing(Deleted[n].id, None)])

(* --------------------------------- actions -------------------------------- *)

UnitInit == Init /\ unit = <<>> /\ serial = 0 /\ taken = [c \in Clients |-> <<>>] /\ fate = {}

Registered == {unit[n] : n \in DOMAIN unit} \cup {f.op : f \in fate}
Left(how, by) == {[op |-> unit[n], how |-> how, call |-> by] : n \in DOMAIN unit}

\* registerDirty() without a patch writes the entity whole, its version included.
Register(c, do, i, entity) ==
    /\ serial < model.units /\ serial' = serial + 1
    /\ unit' = Append(unit, Op(serial + 1, do, i, entity))
    /\ UNCHANGED <<vars, taken, fate>>

Rollback ==
    /\ unit # <<>> /\ unit' = <<>>
    /\ fate' = fate \cup Left("dropped", 0)
    /\ UNCHANGED <<vars, serial, taken>>

CommitUnit(c) ==
    /\ unit # <<>> /\ Does(c, "commit")
    /\ Start(c, "unit", None, <<Step("begin", None)>> \o Flushing(unit)
                              \o <<Step("commit", None), Step("clear", None)>>)
    /\ taken' = [taken EXCEPT ![c] = unit]
    /\ UNCHANGED <<unit, serial, fate>>

\* The transaction is over: the list is emptied, whoever registered what meanwhile.
Clear(c) ==
    /\ todo[c] # <<>> /\ Now(c).do = "clear"
    /\ Then(c, <<>>)
    /\ unit' = <<>> /\ taken' = [taken EXCEPT ![c] = <<>>]
    /\ fate' = fate
         \cup {[op |-> taken[c][n], how |-> IF call[c].undone THEN "undone" ELSE "flushed",
                call |-> call[c].n] : n \in DOMAIN taken[c]}
         \cup {f \in Left("late", call[c].n) : f.op \notin Range(taken[c])}
    /\ UNCHANGED <<model, db, saved, tx, poisoned, seen, held, listeners, told, calls, faults,
                   loose, meanwhile, serial>>

Next ==
    \/ SetNext /\ UNCHANGED <<unit, serial, taken, fate>>
    \/ \E c \in Clients : CommitUnit(c) \/ Clear(c)
         \/ \E i \in model.ids[c], do \in {"Added", "Modified", "Deleted"} :
              /\ Does(c, do)
              /\ \/ Register(c, do, i, None)
                 \/ do = "Modified" /\ held[c] # None /\ held[c].id = i /\ Register(c, do, i, held[c].row)
    \/ Rollback

Spec == UnitInit /\ [][Next]_uvars

(* ------------------------------- properties ------------------------------- *)

\* Some operations each have a parent among them.
Cyclic(ops) == \E S \in SUBSET DOMAIN ops : S # {} /\ \A a \in S : \E b \in S : b \in Parents(ops, a)

ParentsFirst(ops, out) ==
    /\ Len(out) = Len(ops) /\ Range(out) = Range(ops)
    /\ \A a, b \in DOMAIN out : a # b /\ IsChildOf(out[a], out[b]) => b < a

\* What a call has in the database: rows it changed, and entries of the audit log.
Clean(D, n) == (\A p \in D.changed \cup D.swept : p[1] # n) /\ \A e \in D.trail : e.call # n

\* A unit of work is written whole and in an order the foreign keys allow: parents
\* before children unless the classes of its operations form a cycle (then visit()
\* repeats operations); every operation ever registered is still registered or is
\* accounted for - by a commit() that wrote it and so changed its row, by rollback(), by
\* a commit() that resolved although the database undid it, which takes a database whose
\* failed statements abort the transaction, or as one registered while a commit() ran,
\* whose end forgets it; and a commit() that is rejected has left nothing, neither rows
\* nor entries of the audit log, nor half a cascade.
UnitIsWhole ==
    /\ LET ops == Doing(unit, "Added") IN ~Cyclic(ops) => ParentsFirst(ops, SortInserts(ops))
    /\ {op.n : op \in Registered} = 1 .. serial
    /\ \A f \in fate : /\ f.how = "flushed" /\ f.op.do # "Deleted" => <<f.call, f.op.id>> \in db.changed
                       /\ f.how = "undone" => Aborts
    /\ \A c \in Clients : call[c].op = "unit" /\ call[c].end = "rejected" => Clean(db, call[c].n)

\* What AuditEngine.ts:112 says: a failed audit entry never breaks the operation it is
\* about.  It is false in a transaction of a database where a failed statement aborts
\* it: the failure is swallowed, COMMIT rolls back, and commit() resolves.
AuditNeverUndoes == \A f \in fate : f.how # "undone"

\* What UnitOfWork.ts:123 says of commit(): it commits all queued operations.  It is
\* false of those that are registered while it runs: it empties the list unwritten.
CommitTakesAll == \A f \in fate : f.how # "late"
====
