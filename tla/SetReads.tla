------------------------------ MODULE SetReads ------------------------------
(* The reads of a DbSet (src/set/DbSet.ts): lists, pages, counts and eager     *)
(* relations, through a query cache, from a primary and replicas that lag      *)
(* behind it.  Every statement is a step of its own; commits, replication,     *)
(* expiry and invalidation happen between two of them.  The condition of a     *)
(* query is left out (Queries has it): a query asks for the whole table.       *)
EXTENDS QueryCaches, FiniteSets

CONSTANTS Readers,    \* the asynchronous flows that read
          Replicas,   \* the number of replicas
          Ids,        \* the primary keys
          Workloads,  \* what is in the table, read and written, and how much of it
          Size,       \* the batch size of chunk() and stream(), the page size
          Ttl, MaxTime,
          MaxMet      \* how far a flow reads on that meets rows again and again

Stored == [rank : Nat \cup {None}, kids : BOOLEAN]
Kinds == {"list", "chunk", "stream", "cursor", "paged", "all"}
Request(keys) == [kind : Kinds, limit : Nat \cup {None}, key : {None} \cup keys, cached : BOOLEAN,
                  include : BOOLEAN, primary : BOOLEAN, inTx : BOOLEAN, total : BOOLEAN]

ASSUME SizesAssumption == Replicas \in Nat /\ Size \in Nat \ {0} /\ Ttl \in Nat
ASSUME IdsAssumption == Ids \subseteq Int /\ IsFiniteSet(Ids)
ASSUME NoneAssumption == /\ None \notin Nat /\ None \notin [rank : Nat \cup {None}, id : Ids]
                         /\ None \notin [Ids -> Stored \cup {None}]
ASSUME WorkloadsAssumption ==
    \A w \in Workloads :
        /\ w.table \in [Ids -> Stored \cup {None}]
        /\ w.writes \subseteq Ids \X (Stored \cup {None})
        /\ w.requests \in [Readers -> SUBSET Request(w.keys)]
        /\ w.wrapped \in BOOLEAN /\ w.grain \in Nat \ {0}
        /\ w.edits \subseteq [rank : Nat \cup {None}, kids : BOOLEAN \cup {None}]

VARIABLES work,       \* one of Workloads
          log,        \* the committed states of the table
          open,       \* the table as the open transaction sees it, or None
          behind,     \* how far each replica has replayed the log
          turn,       \* roundRobinCounter
          cache, now,
          op,         \* the latest read of each flow
          reads, writes,
          cleared     \* the last state before each key was last invalidated

vars == <<work, log, open, behind, turn, cache, now, op, reads, writes, cleared>>

Latest == Len(log)
Primary == 0

(* ------------------------------- the requests ----------------------------- *)

\* A terminal operation of a set: its page, its options and its order; a total
\* order breaks ties by primary key.
Read(kind) == [kind |-> kind, limit |-> None, key |-> None, cached |-> FALSE,
               include |-> FALSE, primary |-> FALSE, inTx |-> FALSE, total |-> TRUE]
First == [Read("list") EXCEPT !.limit = 1]
Single == [Read("list") EXCEPT !.limit = 2]
UsePrimary(r) == [r EXCEPT !.primary = TRUE]
InTransaction(r) == [r EXCEPT !.inTx = TRUE]
Cached(r, key) == [r EXCEPT !.cached = TRUE, !.key = key]
Include(r) == [r EXCEPT !.include = TRUE]

(* ------------------------------- the database ----------------------------- *)

Present(t) == {i \in Ids : t[i] # None}
Rank(t, i) == IF t[i].rank = None THEN 0 ELSE t[i].rank    \* NULLs come first
Before(t, i, j, total) == Rank(t, i) < Rank(t, j) \/ (total /\ Rank(t, i) = Rank(t, j) /\ i < j)

\* Without a total order each query may order the ties differently.
Orders(t, ids, total) ==
    {s \in SetToSeqs(ids) : \A m, n \in DOMAIN s : m < n => ~Before(t, s[n], s[m], total)}

Rows(t, s) == [n \in DOMAIN s |-> [id |-> s[n], rank |-> t[s[n]].rank, kids |-> None]]

HasKids(t, i) == t[i] # None /\ t[i].kids

(* ----------------------------- ReplicaRouting ----------------------------- *)

Turn == (turn + 1) % (IF Replicas = 0 THEN 1 ELSE Replicas)
NextReplica == IF Replicas = 0 THEN {Primary}
               ELSE IF work.random THEN 1 .. Replicas ELSE {1 + turn}

\* fault: a SELECT of a transaction goes to a replica like any other.
RouteInTurn(primary, inTx) == IF primary /\ ~work.wrapped THEN {Primary} ELSE NextReplica

\* executeQuery() and executeScalar() of a SELECT.  usePrimary() asks the set's own
\* adapter for the primary, and the wrapper that hooks, logging or a pool put
\* around the routing adapter has none to give.
Unwraps(primary) == primary /\ ~work.wrapped
Route(primary, inTx) == IF Unwraps(primary) \/ inTx THEN {Primary} ELSE NextReplica
Turns(primary, inTx) == IF Unwraps(primary) \/ inTx \/ work.random THEN turn ELSE Turn

\* A statement of the transaction sees its own writes, if it reaches the primary;
\* 0 stands for that state, which is in no place of the log.
StateAt(a, inTx) == IF a # Primary THEN behind[a] ELSE IF inTx THEN 0 ELSE Latest
Table(a, inTx) == IF StateAt(a, inTx) = 0 THEN open ELSE log[StateAt(a, inTx)]

Lags(a) == a # Primary /\ behind[a] < Latest

(* ------------------------------- the statements --------------------------- *)

NoRead == [req |-> Read("none"), phase |-> "done", offset |-> 0, number |-> 1, cursor |-> None, total |-> 0,
           rows |-> <<>>, out |-> <<>>, since |-> 1, at |-> {}, read |-> 1, old |-> FALSE, hit |-> {}, late |-> FALSE,
           spoilt |-> FALSE, ok |-> TRUE]

Init ==
    /\ work \in Workloads
    /\ log = <<work.table>>
    /\ open = None
    /\ behind = [a \in 1 .. Replicas |-> 1]
    /\ turn = 0 /\ cache = <<>> /\ now = 0
    /\ op = [c \in Readers |-> NoRead]
    /\ reads = 0 /\ writes = 0
    /\ cleared = [k \in {None} \cup work.keys |-> 0]

Min2(a, b) == IF a < b THEN a ELSE b
Counting(o) == o.req.kind \in {"paged", "all"} /\ o.number = 1
Limited(o) == IF o.req.limit = None THEN Size ELSE Min2(Size, o.req.limit - Len(o.out))

\* take() of the next statement: toCursorPage() looks one row ahead.
Take(o) == CASE o.req.kind = "list" -> o.req.limit
             [] o.req.kind = "chunk" -> Limited(o)
             [] o.req.kind = "cursor" -> Size + 1
             [] OTHER -> Size

\* The condition a cursor adds: a comparison with NULL holds of no row.
After(t, cursor, total) ==
    IF cursor = None THEN Present(t)
    ELSE {i \in Present(t) : /\ t[i].rank # None /\ cursor.rank # None
                             /\ \/ t[i].rank > cursor.rank
                                \/ total /\ t[i].rank = cursor.rank /\ i > cursor.id}

\* The key of a page: table, SQL and parameters, but neither the relations to
\* include nor the transaction nor the adapter.
KeyOf(o) == IF o.req.key # None THEN <<o.req.key>>
            ELSE <<o.req.total, o.offset, Take(o), o.cursor>>

Page(s, offset, take) == SubSeq(s, offset + 1, IF take = None THEN Len(s) ELSE Min2(Len(s), offset + take))

Restart(o) == [o EXCEPT !.phase = IF o.req.kind = "chunk" /\ Limited(o) <= 0 THEN "done"
                                  ELSE IF Counting(o) THEN "count"
                                  ELSE IF o.req.cached THEN "get" ELSE "query"]

Start(c, req) ==
    /\ op[c].phase = "done" /\ reads < work.reads
    /\ req.inTx => open # None
    /\ op' = [op EXCEPT ![c] = Restart([NoRead EXCEPT !.req = req, !.since = Latest])]
    /\ reads' = reads + 1
    /\ UNCHANGED <<work, log, open, behind, turn, cache, now, writes, cleared>>

\* What the caller has once toList() returned rows, and whether another page follows.
Done(o) == [o EXCEPT !.phase = "done"]
PastBatch(o) ==
    LET next == [o EXCEPT !.out = @ \o o.rows, !.offset = @ + Take(o)] IN
    IF Len(o.rows) < Take(o) THEN Done(next) ELSE Restart(next)

\* encodeCursor(): JSON keeps a Date to the millisecond, the column may be finer.
Json(rank) == IF rank = None THEN None ELSE (rank \div work.grain) * work.grain

\* fault: the next page begins after the row read ahead.
CursorOfLookahead(o, items) == o.rows[Len(o.rows)]
CursorOf(o, items) == items[Len(items)]
PastCursor(o) ==
    LET items == SubSeq(o.rows, 1, Min2(Size, Len(o.rows)))
        next == [o EXCEPT !.out = @ \o items] IN
    IF Len(o.rows) > Size
    THEN Restart([next EXCEPT !.cursor = [rank |-> Json(CursorOf(o, items).rank), id |-> CursorOf(o, items).id]])
    ELSE Done(next)
PastPage(o) ==
    LET pages == (o.total + Size - 1) \div Size
        next == [o EXCEPT !.out = @ \o o.rows, !.offset = @ + Size, !.number = 1] IN
    IF o.offset \div Size + 1 < pages THEN Restart(next) ELSE Done(next)
PastList(o) == Done([o EXCEPT !.out = o.rows, !.ok = ~(o.req.limit = 2 /\ Len(o.rows) > 1)])

Arrived(o) == CASE o.req.kind \in {"chunk", "stream"} -> PastBatch(o)
                [] o.req.kind = "cursor" -> PastCursor(o)
                [] o.req.kind = "paged" -> PastPage(o)
                [] OTHER -> PastList(o)

\* cache.get()
Get(c) ==
    LET o == op[c] key == KeyOf(o) IN
    /\ o.phase = "get"
    /\ cache' = IF work.redis THEN RedisGet(cache, key, now) ELSE AfterGet(cache, key, now)
    /\ IF Hit(cache, key, now)
       THEN LET v == Value(cache, key) IN
            op' = [op EXCEPT ![c] = Arrived([o EXCEPT !.rows = v.rows, !.at = @ \cup {v.at}, !.spoilt = @ \/ v.edited,
                                              !.hit = {[v |-> v, now |-> now, floor |-> cleared[o.req.key]]}])]
       ELSE op' = [op EXCEPT ![c].phase = "query"]
    /\ UNCHANGED <<work, log, open, behind, turn, now, reads, writes, cleared>>

\* executeQuery() of a page of the rows.
Query(c) ==
    LET o == op[c] IN
    /\ o.phase = "query"
    /\ \E a \in Route(o.req.primary, o.req.inTx) :
         LET t == Table(a, o.req.inTx) IN
         \E s \in Orders(t, After(t, o.cursor, o.req.total), o.req.total) :
           LET read == [o EXCEPT !.rows = Rows(t, Page(s, o.offset, Take(o))), !.late = FALSE,
                                 !.at = @ \cup {StateAt(a, o.req.inTx)}, !.old = @ \/ Lags(a),
                                 !.read = StateAt(a, o.req.inTx)] IN
           op' = [op EXCEPT ![c] = IF o.req.include /\ read.rows # <<>> THEN [read EXCEPT !.phase = "include"]
                                   ELSE IF o.req.cached THEN [read EXCEPT !.phase = "set"]
                                   ELSE Arrived(read)]
    /\ turn' = Turns(o.req.primary, o.req.inTx)
    /\ UNCHANGED <<work, log, open, behind, cache, now, reads, writes, cleared>>

\* loadIncludes(): a set of the context reads the children, outside the
\* transaction and from a replica whatever the parents were read from.
LoadIncludes(c) ==
    LET o == op[c] IN
    /\ o.phase = "include"
    /\ \E a \in Route(FALSE, FALSE) :
         LET t == Table(a, FALSE)
             read == [o EXCEPT !.rows = [n \in DOMAIN o.rows |-> [o.rows[n] EXCEPT !.kids = HasKids(t, o.rows[n].id)]],
                               !.old = @ \/ Lags(a)] IN
         op' = [op EXCEPT ![c] = IF o.req.cached THEN [read EXCEPT !.phase = "set"] ELSE Arrived(read)]
    /\ turn' = Turns(FALSE, FALSE)
    /\ UNCHANGED <<work, log, open, behind, cache, now, reads, writes, cleared>>

\* cache.set()
Set(c) ==
    LET o == op[c]
        value == [rows |-> o.rows, at |-> o.read, late |-> o.late,
                  req |-> o.req, old |-> o.old, when |-> now, edited |-> FALSE] IN
    /\ o.phase = "set"
    /\ cache' = IF work.redis THEN RedisSet(cache, KeyOf(o), value, now + RedisTtl(Ttl))
                ELSE AfterSet(cache, KeyOf(o), value, now + Ttl)
    /\ op' = [op EXCEPT ![c] = Arrived(o)]
    /\ UNCHANGED <<work, log, open, behind, turn, now, reads, writes, cleared>>

\* executeScalar() of count(), once for a page, twice for all().
Count(c) ==
    LET o == op[c] IN
    /\ o.phase = "count"
    /\ \E a \in Route(o.req.primary, o.req.inTx) :
         LET t == Table(a, o.req.inTx)
             read == [o EXCEPT !.at = @ \cup {StateAt(a, o.req.inTx)}, !.number = 2,
                               !.total = Cardinality(Present(t))] IN
         op' = [op EXCEPT ![c] = IF o.req.kind = "all" /\ read.total > 0 THEN [read EXCEPT !.phase = "match"]
                                 ELSE IF o.req.kind = "all" THEN Done(read) ELSE Restart(read)]
    /\ turn' = Turns(o.req.primary, o.req.inTx)
    /\ UNCHANGED <<work, log, open, behind, cache, now, reads, writes, cleared>>

\* all(): the rows that match (whose rank is known) against those there were.
Match(c) ==
    LET o == op[c] IN
    /\ o.phase = "match"
    /\ \E a \in Route(o.req.primary, o.req.inTx) :
         LET t == Table(a, o.req.inTx) IN
         op' = [op EXCEPT ![c] = Done([o EXCEPT !.at = @ \cup {StateAt(a, o.req.inTx)},
                    !.ok = Cardinality({i \in Present(t) : t[i].rank # None}) = o.total])]
    /\ turn' = Turns(o.req.primary, o.req.inTx)
    /\ UNCHANGED <<work, log, open, behind, cache, now, reads, writes, cleared>>

\* fetchRelation(): the children of an entity that was read before, by LazyRelation.
FetchRelation(c) ==
    LET o == op[c] IN
    /\ o.phase = "done" /\ o.req.kind = "list" /\ o.out # <<>> /\ work.lazy
    /\ op' = [op EXCEPT ![c] = [NoRead EXCEPT !.req = Include(Read("fetch")), !.phase = "include",
                                              !.rows = <<o.out[1]>>, !.since = Latest]]
    /\ UNCHANGED <<work, log, open, behind, turn, cache, now, reads, writes, cleared>>

(* ------------------------- what happens meanwhile ------------------------- *)

Around == UNCHANGED <<work, turn, reads>>

\* A write is a statement on the primary, of the transaction or committed at once.
Commit(i, row) ==
    /\ writes < work.limit /\ open = None
    /\ log' = Append(log, [log[Latest] EXCEPT ![i] = row]) /\ writes' = writes + 1
    /\ Around /\ UNCHANGED <<open, behind, cache, now, op, cleared>>
WriteInTx(i, row) ==
    /\ work.transacts /\ writes < work.limit
    /\ open' = [(IF open = None THEN log[Latest] ELSE open) EXCEPT ![i] = row] /\ writes' = writes + 1
    /\ Around /\ UNCHANGED <<log, behind, cache, now, op, cleared>>
EndTx ==
    /\ open # None /\ \A c \in Readers : op[c].req.inTx => op[c].phase = "done"
    /\ log' \in {log, Append(log, open)} /\ open' = None
    /\ Around /\ UNCHANGED <<behind, cache, now, op, writes, cleared>>
Replicate(a) ==
    /\ behind[a] < Latest
    /\ behind' = [behind EXCEPT ![a] = @ + 1]
    /\ Around /\ UNCHANGED <<log, open, cache, now, op, writes, cleared>>
Tick ==
    /\ now < MaxTime /\ cache # <<>>
    /\ now' = now + 1
    /\ Around /\ UNCHANGED <<log, open, behind, cache, op, writes, cleared>>

\* invalidateCache() of a key, or of all of them: what is being read it cannot know.
InvalidateCache(k) ==
    /\ cache' = IF k = None THEN <<>> ELSE Delete(cache, <<k>>)
    /\ cleared' = [j \in DOMAIN cleared |-> IF k \in {None, j} THEN Latest ELSE cleared[j]]
    /\ op' = [c \in Readers |->
                 [op[c] EXCEPT !.late = @ \/ (op[c].phase \in {"include", "set"} /\ k \in {None, op[c].req.key})]]
    /\ \E c \in Readers : op[c].phase # "done" \/ cache # <<>>
    /\ Around /\ UNCHANGED <<log, open, behind, now, writes>>

\* MemoryQueryCache keeps the very objects it was given and answers with them:
\* what a caller does to an entity of its list it does to the entry, and to every
\* later answer.  RedisQueryCache keeps text.
Edited(e, n, with) ==
    LET row == [e.value.rows[n] EXCEPT !.rank = with.rank, !.kids = with.kids] IN
    [e EXCEPT !.value = [e.value EXCEPT !.rows = [e.value.rows EXCEPT ![n] = row], !.edited = TRUE]]
Edit(m, n, with) ==
    /\ ~work.redis
    /\ cache' = [cache EXCEPT ![m] = Edited(@, n, with)]
    /\ Around /\ UNCHANGED <<log, open, behind, now, op, writes, cleared>>

\* A flow that is reading reads on, up to the bound.
Reading(c) ==
    /\ op[c].phase # "done" => Len(op[c].out) <= MaxMet
    /\ \/ \E req \in work.requests[c] : Start(c, req)
       \/ Get(c) \/ Query(c) \/ LoadIncludes(c) \/ Set(c) \/ FetchRelation(c) \/ Count(c) \/ Match(c)

Next ==
    \/ \E c \in Readers : Reading(c)
    \/ \E w \in work.writes : Commit(w[1], w[2]) \/ WriteInTx(w[1], w[2])
    \/ EndTx \/ Tick
    \/ \E a \in 1 .. Replicas : Replicate(a)
    \/ \E k \in {None} \cup work.keys : work.invalidates /\ InvalidateCache(k)
    \/ \E m \in DOMAIN cache : \E n \in DOMAIN cache[m].value.rows : \E with \in work.edits : Edit(m, n, with)

Spec == Init /\ [][Next]_vars

(* -------------------------------- properties ------------------------------ *)

Ended(c) == op[c].phase = "done" /\ op[c].req.kind # "none"
Times(s, i) == Cardinality({n \in DOMAIN s : s[n].id = i})

\* A row that is there, with one rank, in every state since the read began.
Throughout(o) == {i \in Ids : \E r \in {log[Latest][i]} : r # None /\ \A n \in o.since .. Latest : log[n][i] = r}

Paging == {"chunk", "stream", "cursor", "paged"}
Ties(o) == ~o.req.total /\ \E n \in 1 .. Latest : \E i, j \in Present(log[n]) : i # j /\ Rank(log[n], i) = Rank(log[n], j)
Unkept(o) == \* a cursor would compare with NULL, or with what JSON makes of a rank
    o.req.kind = "cursor" /\ \E n \in 1 .. Latest : \E i \in Present(log[n]) :
        log[n][i].rank = None \/ Json(log[n][i].rank) # log[n][i].rank

\* A key of the caller's would be the key of every page; a page of the cache may
\* have been changed there.
OwnPages(o) == (o.req.cached => o.req.key = None) /\ ~o.spoilt
FromItsStart(o) == o.at \cap 0 .. o.since - 1 = {}

\* A flow that reads a table page by page (chunk(), stream(), toPagedList(),
\* toCursorPage()) meets every row that stays there once; of these chunk() alone
\* obeys take().  By cursor this holds while others write, by offset only when every
\* page was read from one state.  It needs an order without ties and, by cursor, no
\* NULLs and ranks that JSON keeps; and states no older than the flow's start,
\* which a replica that lags or a cached page does not give.
EachRowOnce ==
    \A c \in Readers : LET o == op[c] IN
        Ended(c) /\ o.req.kind \in Paging /\ OwnPages(o) /\ ~Ties(o) /\ ~Unkept(o) /\ FromItsStart(o)
        /\ (o.req.kind # "cursor" => Cardinality(o.at) = 1)
        => /\ \A i \in Throughout(o) : (o.req.kind = "chunk" => o.req.limit = None) => Times(o.out, i) = 1
           /\ o.req.kind = "cursor" \/ \A i \in Ids : Times(o.out, i) <= 1
           /\ o.req.kind = "chunk" /\ o.req.limit # None =>
                Len(o.out) = Min2(o.req.limit, Cardinality(Present(log[CHOOSE n \in o.at : TRUE])))

\* toCursorPage() meets every row that stays once without a tieBreaker too: it
\* "defaults to 'id'" (CursorPaginationOptions).
CursorsBreakTies ==
    \A c \in Readers : LET o == op[c] IN
        Ended(c) /\ o.req.kind = "cursor" /\ OwnPages(o) /\ ~Unkept(o) /\ FromItsStart(o)
        => \A i \in Throughout(o) : Times(o.out, i) = 1

Plain(rows) == [n \in DOMAIN rows |-> [rows[n] EXCEPT !.kids = None]]
KidsAsAsked(req, rows) ==
    \A n \in DOMAIN rows : IF req.include THEN rows[n].kids \in BOOLEAN ELSE rows[n].kids = None
IsPageOf(rows, t, o) == \E s \in Orders(t, Present(t), o.req.total) : Plain(rows) = Rows(t, Page(s, o.offset, Take(o)))

\* A page from the cache is no older than its time to live (rounded up by Redis)
\* nor than the last invalidation of its key, and is the page, with the relations,
\* that the read asked for; unless it was read while that invalidation ran, from a
\* replica that lagged or inside a transaction, was changed in memory by a caller
\* that had it, or was put there by another request with the same key (for whom
\* the relations are no part of a default key), all of which the cache keeps too.
FromTheCache(o, h) ==
    LET v == h.v IN
    /\ h.now <= v.when + (IF work.redis THEN RedisTtl(Ttl) ELSE Ttl)
    /\ v.late \/ v.old \/ v.at = 0 \/ v.at >= h.floor
    /\ v.edited => ~work.redis
    /\ ~v.edited /\ v.req = o.req => KidsAsAsked(o.req, v.rows)
    /\ ~v.edited /\ v.at # 0 /\ (o.req.key = None \/ v.req = o.req) => IsPageOf(v.rows, log[v.at], o)

\* A list from the database is the page of one state since the read began, of the
\* transaction's own state inside it, each row with the children of one such
\* state; only a replica answers from an older one, and only where the set did
\* not ask for the primary or its adapter is wrapped.  The children an include
\* adds come from outside the transaction and may come from a replica always.
FromTheDatabase(o) ==
    LET since == {log[n] : n \in o.since .. Latest} IN
    /\ o.req.inTx => o.at = {0}
    /\ Unwraps(o.req.primary) /\ ~o.req.include => ~o.old
    /\ ~o.old /\ ~o.req.inTx /\ o.req.kind = "list" => \E t \in since : IsPageOf(o.out, t, o)
    /\ ~o.old /\ o.req.include => \A n \in DOMAIN o.out : \E t \in since : o.out[n].kids = HasKids(t, o.out[n].id)

\* A list of a set that asked for the primary is of no replica's older state:
\* usePrimary() is "critical for read-after-write consistency to prevent
\* replication lag anomalies" (DbSet.usePrimary).
PrimaryIsRead ==
    \A c \in Readers : LET o == op[c] IN
        Ended(c) /\ o.req.kind = "list" /\ o.req.primary /\ ~o.req.include /\ o.hit = {} => ~o.old

\* Whatever the route of a list, its rows are true in this sense; single() and
\* all() answer for one state of that time, if all() counted twice in the same.
ListsAreTrue ==
    \A c \in Readers : LET o == op[c] IN
        Ended(c) =>
           /\ o.req.kind \in {"list", "fetch"} => IF o.hit = {} THEN FromTheDatabase(o) ELSE \A h \in o.hit : FromTheCache(o, h)
           /\ o.req.kind = "all" /\ ~o.req.inTx /\ Cardinality(o.at) = 1 =>
                LET t == log[CHOOSE n \in o.at : TRUE] IN o.ok = \A i \in Present(t) : t[i].rank # None
=============================================================================
