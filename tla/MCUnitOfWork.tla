---- MODULE MCUnitOfWork ----
(* Two flows, one with a tenant and one without; an order, its line and a     *)
(* note under the line.  The classes are decorated in two ways: all softly    *)
(* deleted through the class, or the order through a property, its line not.  *)
EXTENDS UnitOfWork, TLC

CONSTANTS c1, c2, t1, w1

MCTenant == c1 :> t1 @@ c2 :> None
MCKindOf == 1 :> "order" @@ 2 :> "line" @@ 3 :> "note"
MCOwnerOf == 1 :> None @@ 2 :> 1 @@ 3 :> 2
MCHasMany == ("order" :> {"line"}) @@ ("line" :> {"note"}) @@ ("note" :> {})
MCBelongsTo == ("order" :> {}) @@ ("line" :> {"order"}) @@ ("note" :> {"line", "note"})

\* All softly deleted through the class; or the order through a property of it.
ByClass == [soft |-> [k \in {"order", "line", "note"} |-> "class"], cascade |-> {"order", "line"},
            versioned |-> {"order", "line"}, audited |-> {"order"}]
ByProperty == [soft |-> ("order" :> "property") @@ ("line" :> "none") @@ ("note" :> "none"),
               cascade |-> {"order"}, versioned |-> {"order", "line"}, audited |-> {"line"}]

Row(i) == [tenant |-> t1, version |-> 1, by |-> 0, deleted |-> FALSE]
Full == [i \in 1 .. 3 |-> Row(i)]
OrderOnly == [i \in 1 .. 3 |-> IF i = 1 THEN Row(1) ELSE None]

Works(rows, n, f, u, ids1, does1, ids2, does2) ==
    [rows |-> rows, calls |-> n, faults |-> f, units |-> u,
     ids |-> (c1 :> ids1 @@ c2 :> ids2), does |-> (c1 :> does1 @@ c2 :> does2)]

Editing == {Works(Full, 3, 0, 0, {2}, {"load", "update"}, {2}, {"update", "remove", "restore", "nativeUpsert"}),
            Works(OrderOnly, 3, 0, 0, {1}, {"load", "update", "upsert"}, {1}, {"hardRemove", "add", "update"})}
Cascading == {Works(rows, 2, 1, 0, {1, 2}, {"remove", "restore"}, 1 .. 3,
                    {"add", "remove", "restore", "where", "bulkInsert", "bulkUpdate", "bulkUpsert"})
                  : rows \in {Full, OrderOnly}}
Listening == {Works(OrderOnly, 2, 1, 0, {2}, {"add", "addRange", "upsertRange", "nativeUpsert"}, {2, 3}, {"subscribe", "add", "remove", "update"})}
InUnits == {Works([i \in 1 .. 3 |-> None], 2, 1, 3, {1, 2}, {"Added", "commit"}, {3}, {"Added"}),
            Works(Full, 2, 0, 2, {2}, {"load", "Modified", "Deleted", "commit"}, {2}, {"update", "commit"})}

MCModels == {m @@ w : m \in {ByClass, ByProperty}, w \in UNION {Editing, Cascading, Listening, InUnits}}
====
