----------------------------- MODULE Statements -----------------------------
(* The SQL statements QueryBuilder and BulkInsertBuilder compile. Of the text  *)
(* only what decides its meaning is kept: the placeholders in the order they   *)
(* appear, the conditions of the WHERE, and the clauses a dialect may refuse.  *)
(* Providers stand for families: "postgres" also for neon, supabase and        *)
(* cockroachdb, "mysql" for planetscale, "sqlite" for turso and d1.            *)
EXTENDS Integers, Sequences, FiniteSets, SequencesExt

CONSTANT None    \* an undefined limit or offset, and SQL's NULL

Providers == {"postgres", "mssql", "mysql", "sqlite"}

\* $n and @p<n> name their parameter; a bare ? takes the next one.
Numbered == {"postgres", "mssql"}

-----------------------------------------------------------------------------
(* Conditions: the fields of WhereCondition. "nested" holds the conditions of  *)
(* a group or of an EXISTS subquery, one level deep; "joins" the values its    *)
(* join predicate compares with.                                               *)
Cond(kind, logical, column, vals) ==
  [kind |-> kind, logical |-> logical, column |-> column, vals |-> vals,
   nested |-> <<>>, joins |-> <<>>]

Eq(column, v) == Cond("eq", "AND", column, <<v>>)
Gt(column, v) == Cond("gt", "AND", column, <<v>>)
IsNull(column) == Cond("null", "AND", column, <<>>)
IsNotNull(column) == Cond("notnull", "AND", column, <<>>)
InList(column, vs) == Cond("in", "AND", column, vs)
Between(column, low, high) == Cond("between", "AND", column, <<low, high>>)
Raw(column, vs) == Cond("raw", "AND", column, vs)
Search(column, vs) == Cond("search", "AND", column, vs)
Or(c) == [c EXCEPT !.logical = "OR"]
Group(cs) == [Cond("group", "AND", None, <<>>) EXCEPT !.nested = cs]
Exists(cs, joins) == [Cond("exists", "AND", None, <<>>) EXCEPT !.nested = cs, !.joins = joins]

\* A statement under construction: each placeholder with the value its condition
\* means and the number it was given, and the parameters for the driver.
Blank == [text |-> <<>>, params |-> <<>>]

Bind(s, v) ==
  [text |-> Append(s.text, [want |-> v, num |-> Len(s.params) + 1]),
   params |-> Append(s.params, v)]

BindAll(s, vs) == FoldLeft(Bind, s, vs)

\* Full-text search binds its query once, except where it becomes one LIKE per column.
SearchColumns == 2
SearchValues(provider, vals) ==
  IF vals = <<>> \/ provider # "sqlite" THEN vals
  ELSE [i \in 1..SearchColumns |-> vals[1]]

Leaf(provider, s, c) ==
  BindAll(s, IF c.kind = "search" THEN SearchValues(provider, c.vals) ELSE c.vals)

Leaves(provider, s, cs) == FoldLeft(LAMBDA t, c : Leaf(provider, t, c), s, cs)

\* The comparisons a join predicate records with values; those with columns bind nothing.
Joined(s, joins) == [i \in DOMAIN joins |-> [want |-> joins[i], num |-> Len(s.params) + i]]

\* The values of the join predicate become parameters before the subquery's own
\* conditions are compiled, and their text is appended after them.
ExistsSql(provider, s, c) ==
  LET own == Leaves(provider, [s EXCEPT !.params = @ \o c.joins], c.nested)
  IN [own EXCEPT !.text = @ \o Joined(s, c.joins)]

\* fault: the conditions of a group are numbered as if the statement began with them.
GroupSqlRestarted(provider, s, c) ==
  LET own == Leaves(provider, Blank, c.nested)
  IN [text |-> s.text \o own.text, params |-> s.params \o own.params]

GroupSql(provider, s, c) == Leaves(provider, s, c.nested)

WhereSql(provider, s, cs) ==
  FoldLeft(LAMBDA t, c :
             CASE c.kind = "group"  -> GroupSql(provider, t, c)
               [] c.kind = "exists" -> ExistsSql(provider, t, c)
               [] OTHER             -> Leaf(provider, t, c),
           s, cs)

\* A search without a query leaves no text, nor does a group of such searches.
Emits(c) ==
  CASE c.kind = "search" -> c.vals # <<>>
    [] c.kind = "group"  -> \E i \in DOMAIN c.nested :
                              c.nested[i].kind # "search" \/ c.nested[i].vals # <<>>
    [] OTHER -> TRUE

\* Only the condition at index 0 goes without its AND or OR.
Dangles(cs) == cs # <<>> /\ ~Emits(cs[1]) /\ \E i \in DOMAIN cs : Emits(cs[i])

-----------------------------------------------------------------------------
(* Clauses of a SELECT. A query is a record: where, cte (its conditions),      *)
(* having (the values), nearest (the vectors, at most one), ordered, limit,    *)
(* offset, distinct, locked.                                                   *)
limit(q, n) == [q EXCEPT !.limit = n]
offset(q, n) == [q EXCEPT !.offset = n]
orderBy(q) == [q EXCEPT !.ordered = TRUE]
distinct(q) == [q EXCEPT !.distinct = TRUE]
forUpdate(q) == [q EXCEPT !.locked = TRUE]
having(q, vs) == [q EXCEPT !.having = @ \o vs]
withCte(q, cs) == [q EXCEPT !.cte = @ \o cs]
nearest(q, v, n) == [(IF n = None THEN q ELSE limit(q, n)) EXCEPT !.nearest = <<v>>]

CteSql(provider, q) == WhereSql(provider, Blank, q.cte)

HavingSql(s, q) == BindAll(s, q.having)

VectorSql(s, q) == BindAll(s, q.nearest)

Paged(q) == q.limit # None \/ q.offset # None

\* ORDER BY clauses of the text: the builder's own, and the one pagination adds
\* on SQL Server when no orderBy() was called.
\* fault: pagination forgets that SQL Server wants an order.
OrderBysUnpaged(provider, q) == IF q.ordered \/ q.nearest # <<>> THEN 1 ELSE 0
OrderBys(provider, q) ==
  (IF q.ordered \/ q.nearest # <<>> THEN 1 ELSE 0)
  + (IF provider = "mssql" /\ Paged(q) /\ ~q.ordered THEN 1 ELSE 0)

\* LIMIT and OFFSET as printed: SQL Server always prints an offset.
Pagination(provider, q) ==
  [limit |-> q.limit,
   offset |-> IF provider = "mssql" /\ Paged(q) /\ q.offset = None THEN 0 ELSE q.offset]

\* A hint behind the table on SQL Server, a suffix elsewhere, nothing on SQLite.
LockSql(provider, q) ==
  CASE ~q.locked -> "none"
    [] q.locked /\ provider = "mssql" -> "hint"
    [] q.locked /\ provider \in {"postgres", "mysql"} -> "suffix"
    [] OTHER -> "none"

SelectSql(provider, q) ==
  LET s == VectorSql(HavingSql(WhereSql(provider, CteSql(provider, q), q.where), q), q)
  IN [text |-> s.text, params |-> s.params, where |-> q.where,
      orders |-> OrderBys(provider, q), lock |-> LockSql(provider, q),
      page |-> Pagination(provider, q), outs |-> 0]

Plain(s, cs) ==
  [text |-> s.text, params |-> s.params, where |-> cs, orders |-> 0, lock |-> "none", outs |-> 0,
   page |-> [limit |-> None, offset |-> None]]

CountSql(provider, q) == Plain(WhereSql(provider, Blank, q.where), q.where)

\* SUM, AVG, MIN and MAX differ from COUNT in the column they read.
AggregateSql(provider, q) == Plain(WhereSql(provider, Blank, q.where), q.where)

\* ProjectedGroupedQuery: its own paging and order over a clone of the query.
GroupedSql(provider, q, vs, n) ==
  LET filtered == having(q, vs)
  IN SelectSql(provider, IF n = None THEN filtered ELSE limit(filtered, n))

-----------------------------------------------------------------------------
(* Writes. A row is a sequence of <<column, value>>.                           *)
Cols(row) == {row[i][1] : i \in DOMAIN row}
At(row, c) == IF c \in Cols(row) THEN row[CHOOSE i \in DOMAIN row : row[i][1] = c][2] ELSE None
Vals(row) == [i \in DOMAIN row |-> row[i][2]]

InsertSql(row) == Plain(BindAll(Blank, Vals(row)), <<>>)

\* { ...conflictTarget, ...updatePayload }: a key of both keeps its first place
\* and takes the update's value.
Merged(conflict, update) ==
  [i \in DOMAIN conflict |->
     IF conflict[i][1] \in Cols(update)
     THEN <<conflict[i][1], At(update, conflict[i][1])>> ELSE conflict[i]]
  \o SelectSeq(update, LAMBDA p : p[1] \notin Cols(conflict))

UpsertSql(conflict, update) == InsertSql(Merged(conflict, update))

UpdateSql(provider, row, cs) == Plain(WhereSql(provider, BindAll(Blank, Vals(row)), cs), cs)

DeleteSql(provider, cs) == Plain(WhereSql(provider, Blank, cs), cs)

\* One statement for a batch, with the columns of its first row.
BulkInsertSql(rows) ==
  LET columns == [i \in DOMAIN rows[1] |-> rows[1][i][1]]
      values(row) == [i \in DOMAIN columns |-> At(row, columns[i])]
  IN Plain(FoldLeft(LAMBDA s, row : BindAll(s, values(row)), Blank, rows), <<>>)

-----------------------------------------------------------------------------
(* Calls of procedures. A chain of StoredProcedureBuilder calls is a sequence of *)
(* [how, name, val]: "in" for input(), "inout" and "out" for withInputOutput-   *)
(* Param() and withOutputParam(), "output" for output(), "return" for           *)
(* withReturnValue(). SQLite has no procedures.                                 *)
Arg(how, name, v) == [how |-> how, name |-> name, val |-> v]

\* params is a Map: a name it holds keeps its place, and output() keeps its value.
SetParam(params, p) ==
  LET same == {i \in DOMAIN params : params[i].name = p.name}
      new == IF p.how = "output" THEN [p EXCEPT !.how = "out"] ELSE p
  IN IF same = {} THEN Append(params, new)
     ELSE [i \in DOMAIN params |-> CASE i \notin same -> params[i]
                                     [] p.how = "output" -> [params[i] EXCEPT !.how = "out"]
                                     [] OTHER -> new]
Params(chain) == FoldLeft(SetParam, <<>>, chain)
Arguments(chain) == SelectSeq(Params(chain), LAMBDA p : p.how # "return")
Names(ps) == [i \in DOMAIN ps |-> ps[i].name]

\* What the chain last gave a parameter of the procedure.
Given(chain, name) ==
  LET named == SelectSeq(chain, LAMBDA p : p.name = name /\ p.how # "output")
  IN IF named = <<>> THEN None ELSE Last(named).val

\* By position: the k-th argument is for the k-th parameter declared; "hows" are the
\* parameters passed as values.
Positional(formals, chain, ps, hows) ==
  LET slots == SelectSeq([k \in DOMAIN ps |-> k], LAMBDA k : ps[k].how \in hows)
  IN [text |-> [n \in DOMAIN slots |->
                  [want |-> IF slots[n] \in DOMAIN formals THEN Given(chain, formals[slots[n]]) ELSE None,
                   num |-> n]],
      params |-> [n \in DOMAIN slots |-> ps[slots[n]].val]]

\* By name: request.input() and request.output() of SQL Server.
ByName(formals, chain) ==
  LET ps == SelectSeq(Arguments(chain), LAMBDA p : p.how # "out")
      used == SelectSeq(formals, LAMBDA x : \E i \in DOMAIN ps : ps[i].name = x)
  IN [text |-> [n \in DOMAIN used |-> [want |-> Given(chain, used[n]), num |-> CHOOSE i \in DOMAIN ps : ps[i].name = used[n]]],
      params |-> [i \in DOMAIN ps |-> ps[i].val]]

\* executeProcedure(): MySQL gives session variables for what comes back.
CallSql(provider, formals, chain) ==
  Plain(CASE provider = "mssql" -> ByName(formals, chain)
          [] provider = "mysql" -> Positional(formals, chain, Arguments(chain), {"in"})
          [] OTHER -> Positional(formals, chain, Arguments(chain), {"in", "inout", "out"}), <<>>)

\* executeProcedureMultiple(): on MySQL every parameter is a value, the one for
\* the return value too.
CallMultipleSql(provider, formals, chain) ==
  IF provider # "mysql" THEN CallSql(provider, formals, chain)
  ELSE [Plain(Positional(formals, chain, Params(chain), {"in", "inout", "out", "return"}), <<>>)
        EXCEPT !.outs = Len(SelectSeq(Arguments(chain), LAMBDA p : p.how # "in"))]

-----------------------------------------------------------------------------
(* What a database makes of a statement.                                       *)
Bound(provider, s, k) ==
  IF provider \in Numbered THEN s.params[s.text[k].num] ELSE s.params[k]

BindsAsMeant(provider, s) ==
  /\ Len(s.text) = Len(s.params)
  /\ \A k \in DOMAIN s.text : Bound(provider, s, k) = s.text[k].want

\* Grammar: one ORDER BY; OFFSET needs it on SQL Server and needs LIMIT on MySQL
\* and SQLite; no AND or OR without a left operand; no value where MySQL wants a
\* variable.
Accepted(provider, s) ==
  /\ s.orders <= 1
  /\ s.page.offset # None /\ provider = "mssql" => s.orders = 1
  /\ s.page.offset # None /\ provider \in {"mysql", "sqlite"} => s.page.limit # None
  /\ ~Dangles(s.where)
  /\ s.outs > 0 => provider # "mysql"

True(r, c) ==
  CASE c.kind \in {"eq", "search", "raw"} -> c.vals # <<>> => r[c.column] = c.vals[1]
    [] c.kind = "gt" -> r[c.column] # None /\ r[c.column] > c.vals[1]
    [] c.kind = "in" -> \E i \in DOMAIN c.vals : r[c.column] = c.vals[i]
    [] c.kind = "between" -> r[c.column] \in c.vals[1]..c.vals[2]
    [] c.kind = "null" -> r[c.column] = None
    [] c.kind = "notnull" -> r[c.column] # None
    [] OTHER -> TRUE

\* Conditions stand side by side in the text: AND binds tighter than OR.
Flat(truth, cs) ==
  \/ cs = <<>>
  \/ \E first \in DOMAIN cs :
       /\ first = 1 \/ cs[first].logical = "OR"
       /\ \A i \in first..Len(cs) :
            (\A j \in (first + 1)..i : cs[j].logical = "AND") => truth[i]

Holds(r, cs) ==
  Flat([i \in DOMAIN cs |->
          IF cs[i].kind = "group"
          THEN Flat([j \in DOMAIN cs[i].nested |-> True(r, cs[i].nested[j])], cs[i].nested)
          ELSE True(r, cs[i])], cs)
=============================================================================
