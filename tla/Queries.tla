------------------------------- MODULE Queries -------------------------------
(* DbSet as a query: every chained call returns a new set over a clone of the  *)
(* builder, and a terminal call adds the filters of the model to its own clone,*)
(* maps property names to columns and sends a statement. Clones copy the list  *)
(* of conditions but share the condition objects, which the mapping rewrites:  *)
(* "cell" is the heap of those objects.                                        *)
EXTENDS Statements

CONSTANTS
  Rows,        \* the table: functions from columns to values
  Columns,     \* property name |-> column name, where they differ
  Wheres,      \* condition lists one where() call may add, with property names
  Ctes,        \* condition lists of a query given to withCte()
  Formals,     \* the parameters a procedure declares, in order
  Calls,       \* chains of StoredProcedureBuilder calls for it
  Writes,      \* rows to insert, update, upsert with or insert in bulk
  Tenant,      \* the context's tenant
  Global,      \* the conditions the model's query filter adds
  Cursors,     \* decoded cursors, <<value, tie>>
  MaxSets      \* bound on the sets derived in one behaviour

VARIABLES
  provider,
  cell,        \* condition objects
  set,         \* the DbSets made so far
  sent         \* the last statement: its set, what it was for, the text, the rows

vars == <<provider, cell, set, sent>>

Sent == [set |-> 0, op |-> "none", chain |-> <<>>, found |-> {}, sql |-> Plain(Blank, <<>>)]

\* "asked" is history: what each where() call of the chain meant.
Fresh ==
  [clause |-> <<>>, asked |-> <<>>, deleted |-> "hide", scoped |-> TRUE, filtered |-> TRUE,
   cte |-> <<>>, nearest |-> <<>>, ordered |-> FALSE, limit |-> None, offset |-> None,
   distinct |-> FALSE, locked |-> FALSE]

Init ==
  /\ provider \in Providers
  /\ cell = <<>>
  /\ set = <<Fresh>>
  /\ sent = Sent

-----------------------------------------------------------------------------
(* Chaining.                                                                   *)
ToColumn(name) == IF name \in DOMAIN Columns THEN Columns[name] ELSE name

MapColumn(c) == [c EXCEPT !.column = ToColumn(@)]
MapCond(c) ==
  [MapColumn(c) EXCEPT !.nested = IF c.kind = "group"
                                  THEN [j \in DOMAIN c.nested |-> MapColumn(c.nested[j])] ELSE @]

New(i, changed) ==
  /\ Len(set) < MaxSets
  /\ set' = Append(set, changed)
  /\ sent' = Sent
  /\ UNCHANGED provider

HasOr(cs) == \E k \in DOMAIN cs : cs[k].logical = "OR"

\* fault: the clone shares the list of conditions with the set it came from.
AddShared(i, cs, mapped, changed) ==
  LET clause == changed.clause \o [k \in DOMAIN cs |-> Len(cell) + k]
  IN /\ Len(set) < MaxSets
     /\ set' = Append([set EXCEPT ![i].clause = clause],
                      [changed EXCEPT !.clause = clause, !.asked = Append(@, cs)])
     /\ cell' = cell \o cs
     /\ sent' = Sent
     /\ UNCHANGED provider

\* where() on a clone of set[i]; "mapped" is the object form, which maps the names at once.
Add(i, cs, mapped, changed) ==
  LET ids == [k \in DOMAIN cs |-> Len(cell) + k]
  IN /\ New(i, [changed EXCEPT !.clause = @ \o ids, !.asked = Append(@, cs)])
     /\ cell' = cell \o (IF mapped THEN [k \in DOMAIN cs |-> MapCond(cs[k])] ELSE cs)

\* where() with a function: the names stay properties until the query runs.
Where(i) == \E cs \in Wheres : Add(i, cs, FALSE, set[i])

\* where() with an object, whereIn, whereBetween, whereNull, ...: columns at once.
WhereColumn(i) == \E cs \in Wheres : ~HasOr(cs) /\ Add(i, cs, TRUE, set[i])

Changed(i, q) == New(i, q) /\ UNCHANGED cell

\* withDeleted(), onlyDeleted(), ignoreTenant(), ignoreQueryFilters()
Unfilter(i) ==
  \/ \E d \in {"show", "only"} : Changed(i, [set[i] EXCEPT !.deleted = d])
  \/ Changed(i, [set[i] EXCEPT !.scoped = FALSE])
  \/ Changed(i, [set[i] EXCEPT !.filtered = FALSE])

Page(i) ==
  \/ Changed(i, limit(set[i], 1))
  \/ Changed(i, offset(set[i], 1))
OrderBy(i) == Changed(i, orderBy(set[i]))
Nearest(i) == \E n \in {None, 1} : Changed(i, nearest(set[i], 90, n))
DistinctForUpdate(i) == Changed(i, forUpdate(distinct(set[i])))
WithCte(i) == \E cs \in Ctes : Changed(i, withCte(set[i], cs))

\* The set toCursorPage() derives for the page after a cursor with a tie breaker.
After(cursor) ==
  <<Group(<<Gt("rank", cursor[1])>>),
    Or(Group(<<Eq("rank", cursor[1]), Gt("id", cursor[2])>>))>>

CursorPage(i) ==
  \E cursor \in Cursors :
    Add(i, After(cursor), TRUE, limit(orderBy(set[i]), 2))

-----------------------------------------------------------------------------
(* Terminal calls.                                                             *)
SoftDelete(q) ==
  CASE q.deleted = "hide" -> <<IsNull("deleted_at")>>
    [] q.deleted = "only" -> <<IsNotNull("deleted_at")>>
    [] OTHER -> <<>>

TenantFilter(q) == IF q.scoped THEN <<Eq("tenant_id", Tenant)>> ELSE <<>>

QueryFilters(q) == IF q.filtered THEN Global ELSE <<>>

Filters(q) == SoftDelete(q) \o TenantFilter(q) \o QueryFilters(q)

\* The mapping rewrites the objects that set[i] shares with its relatives.
Mapped(i) ==
  [k \in DOMAIN cell |-> IF k \in Range(set[i].clause) THEN MapCond(cell[k]) ELSE cell[k]]

Prepared(i) ==
  LET q == set[i]
  IN [where |-> [k \in DOMAIN q.clause |-> Mapped(i)[q.clause[k]]] \o Filters(q),
      cte |-> q.cte, having |-> <<>>, nearest |-> q.nearest, ordered |-> q.ordered,
      limit |-> q.limit, offset |-> q.offset, distinct |-> q.distinct, locked |-> q.locked]

Send(i, op, sql) ==
  /\ sent' = [set |-> i, op |-> op, chain |-> <<>>, sql |-> sql,
              found |-> {r \in Rows : Holds(r, sql.where)}]
  /\ cell' = Mapped(i)
  /\ UNCHANGED <<provider, set>>

ToList(i) == Send(i, "select", SelectSql(provider, Prepared(i)))

Count(i) == Send(i, "count", CountSql(provider, Prepared(i)))

Aggregate(i) == Send(i, "aggregate", AggregateSql(provider, Prepared(i)))

\* groupBy().having().select(), and take() on the groups
Grouped(i) ==
  \E g \in {<<<<>>, 1>>, <<<<91>>, None>>, <<<<91, 92>>, 1>>} :
    Send(i, "grouped", GroupedSql(provider, Prepared(i), g[1], g[2]))

\* Statements that begin with values, each from a new builder: they read no set, so
\* one state is enough to send them from.
IssueAs(op, chain, sql) ==
  /\ Len(set) = 1 /\ sent = Sent
  /\ sent' = [set |-> 0, op |-> op, chain |-> chain, found |-> {}, sql |-> sql]
  /\ UNCHANGED <<provider, cell, set>>
Issue(sql) == IssueAs("write", <<>>, sql)

Insert == \E row \in Writes : Issue(InsertSql(row))
Upsert == \E row, other \in Writes : Issue(UpsertSql(row, other))
BulkInsert == \E row, other \in Writes : Issue(BulkInsertSql(<<row, other>>))
Update == \E row \in Writes, cs \in Wheres : Issue(UpdateSql(provider, row, cs))
Delete == \E cs \in Wheres : Issue(DeleteSql(provider, cs))

Procedure ==
  /\ provider # "sqlite"
  /\ \E chain \in Calls : \/ IssueAs("call", chain, CallSql(provider, Formals, chain))
                         \/ IssueAs("callMultiple", chain, CallMultipleSql(provider, Formals, chain))

Next ==
  \/ Procedure
  \/ Insert \/ Upsert \/ BulkInsert \/ Update \/ Delete
  \/ \E i \in DOMAIN set :
    \/ Where(i) \/ WhereColumn(i) \/ Unfilter(i) \/ Page(i) \/ OrderBy(i) \/ Nearest(i)
    \/ DistinctForUpdate(i) \/ WithCte(i) \/ CursorPage(i)
    \/ ToList(i) \/ Count(i) \/ Aggregate(i) \/ Grouped(i)

Spec == Init /\ [][Next]_vars
-----------------------------------------------------------------------------
(* Properties.                                                                 *)

\* No OR outside a group stands beside a condition of another call or a filter.
OrsStandAlone(q) ==
  (\E n \in DOMAIN q.asked : HasOr(q.asked[n])) => Len(q.asked) = 1 /\ Filters(q) = <<>>

Visible(r, q) ==
  /\ q.deleted = "hide" => r["deleted_at"] = None
  /\ q.deleted = "only" => r["deleted_at"] # None
  /\ q.scoped => r["tenant_id"] = Tenant
  /\ q.filtered => Holds(r, Global)

Meant(r, q) ==
  \A n \in DOMAIN q.asked : Holds(r, [k \in DOMAIN q.asked[n] |-> MapCond(q.asked[n][k])])

\* A query returns the rows its own chain of calls describes, within what the
\* model's filters let through: whatever was chained onto its relatives before or
\* since, whatever of them has run already, and however often it ran itself.
\* It fails where an OR meets another call or a filter, which TenantsAreApart shows.
ReturnsWhatWasAsked ==
  sent.set # 0 /\ OrsStandAlone(set[sent.set]) =>
    sent.found = {r \in Rows : Visible(r, set[sent.set]) /\ Meant(r, set[sent.set])}

\* A subquery whose join predicate compares with a value and that has values of its own.
Correlates(cs) == \E k \in DOMAIN cs : cs[k].joins # <<>> /\ cs[k].nested # <<>>

\* Every placeholder of a statement, in the order of the text, is given the value
\* its condition, column or procedure parameter meant. On dialects with a bare ?
\* this fails for subqueries that correlate by value: their parameters are in
\* another order than their text. Outside SQL Server it fails for a procedure
\* whose parameters are not named in the order it declares them, and on MySQL for
\* several result sets of one with a return value.
BoundAsMeant ==
  /\ provider \notin Numbered =>
       ~Correlates(sent.sql.where) /\ (sent.set # 0 => ~Correlates(set[sent.set].cte))
  /\ sent.op \in {"call", "callMultiple"} /\ provider # "mssql" => Names(Arguments(sent.chain)) = Formals
  /\ sent.op = "callMultiple" /\ provider = "mysql" => Names(Params(sent.chain)) = Formals
  => BindsAsMeant(provider, sent.sql)

\* The database's grammar accepts what is sent, except for skip() without take()
\* on MySQL and SQLite, pages of a vector search on SQL Server without orderBy(),
\* a search without a query before other conditions, and several result sets of a
\* procedure with output parameters on MySQL.
AcceptedByDialect ==
  LET q == IF sent.set = 0 THEN Fresh ELSE set[sent.set]
      odd == \/ provider \in {"mysql", "sqlite"} /\ q.offset # None /\ q.limit = None
             \/ provider = "mssql" /\ q.nearest # <<>> /\ ~q.ordered
             \/ Dangles(sent.sql.where)
             \/ sent.op = "callMultiple" /\ provider = "mysql" /\ \E i \in DOMAIN sent.chain : sent.chain[i].how # "in"
  IN odd \/ Accepted(provider, sent.sql)

\* TenantId.ts:6: entities with a tenant "are automatically filtered by tenantId in
\* queries". Violated without any OR of the caller: the condition toCursorPage()
\* adds for a tie breaker is one, and the filters bind only to its right half.
TenantsAreApart ==
  sent.set # 0 /\ set[sent.set].scoped => \A r \in sent.found : r["tenant_id"] = Tenant
=============================================================================
