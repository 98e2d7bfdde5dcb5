------------------------------ MODULE MCSetReads ------------------------------
(* Workloads: page by page while others write and a replica lags; through *)
(* a cache with invalidation and expiry, whose objects the callers change; in  *)
(* and outside a transaction; behind a wrapper; a rank that is NULL, one that  *)
(* ties, one that JSON does not keep.                                          *)
EXTENDS SetReads, TLC

CONSTANTS r1, r2

Row(rank, kids) == [rank |-> rank, kids |-> kids]

Plainly == [table |-> 1 :> Row(1, TRUE) @@ 2 :> Row(1, FALSE) @@ 3 :> Row(2, FALSE) @@ 4 :> None, keys |-> {},
            writes |-> {}, reads |-> 2, limit |-> 0, transacts |-> FALSE, invalidates |-> FALSE,
            redis |-> FALSE, random |-> FALSE, lazy |-> FALSE, wrapped |-> FALSE, grain |-> 1, edits |-> {}]

Pages == {Read(k) : k \in Paging} \cup {[Read(k) EXCEPT !.limit = 2] : k \in {"chunk", "stream"}} \cup {UsePrimary(Read("cursor"))}
Untied == {[Read(k) EXCEPT !.total = FALSE] : k \in {"chunk", "cursor"}}

ByPage(reqs, ws) ==
    [Plainly EXCEPT !.writes = ws, !.limit = 2, !.reads = 1] @@ [requests |-> (r1 :> reqs @@ r2 :> {})]

Lists == {Cached(Read("list"), None), Cached(Include(First), None)}
Keyed == {Cached(Read("list"), "k"), InTransaction(Cached(Read("list"), "k"))}
Changed == [rank |-> 0, kids |-> FALSE]
ThroughCache(reqs1, reqs2, inTx, redis) ==
    [Plainly EXCEPT !.keys = {"k"}, !.writes = {<<2, None>>}, !.limit = 1, !.reads = 2,
                    !.invalidates = TRUE, !.redis = redis, !.transacts = inTx]
    @@ [requests |-> (r1 :> reqs1 @@ r2 :> reqs2)]

InTx(random) ==
    [Plainly EXCEPT !.writes = {<<1, Row(1, FALSE)>>, <<2, None>>}, !.limit = 2, !.transacts = TRUE, !.random = random, !.lazy = TRUE]
    @@ [requests |-> (r1 :> {InTransaction(Read("list")), UsePrimary(Include(First)), Read("all")}
                      @@ r2 :> {Single, UsePrimary(Read("list")), Include(Read("list"))})]

MCWorkloads ==
    {ByPage(Pages, {<<3, None>>, <<2, Row(2, FALSE)>>, <<4, Row(1, FALSE)>>}),
     ByPage(Untied, {<<2, Row(None, FALSE)>>}),
     [ByPage({Read("cursor")}, {<<2, Row(3, FALSE)>>}) EXCEPT !.grain = 2],
     InTx(FALSE), InTx(TRUE), [InTx(FALSE) EXCEPT !.wrapped = TRUE],
     [ThroughCache({Cached(Read("cursor"), None)}, {Cached(Read("chunk"), None)}, FALSE, FALSE) EXCEPT !.invalidates = FALSE, !.edits = {Changed}]}
    \cup {[ThroughCache(Lists, {Cached(Read("list"), None)}, FALSE, x) EXCEPT !.edits = {Changed}] : x \in BOOLEAN}
    \cup {ThroughCache(Keyed, {Cached(Read("list"), "k")}, TRUE, x) : x \in BOOLEAN}
=============================================================================
