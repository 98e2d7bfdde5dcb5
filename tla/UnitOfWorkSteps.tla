---- MODULE UnitOfWorkSteps ----
(* The kinds of steps there are of SetWrites and of the unit of work: a call goes *)
(* on, throws, begins, commits or rolls back a transaction, emits, tells, starts  *)
(* or clears; or the step is of no call.  UnitOfWorkProofs shows that there is no *)
(* other, and that each kind keeps every part of the invariant.                   *)
EXTENDS UnitOfWorkInvariant

(* ---------------------- the lists of steps of a call ---------------------- *)

Written(s) == {s[m].id : m \in {n \in DOMAIN s : IsWrite(s[n])}}

\* The lists of steps that an operation may add to what is left of a call.
Fit(Z, A, op) == {s \in Seq(Steps) : /\ Unframed(s) /\ Reads(s, 1) /\ Reports(s) /\ Backed(s, Z)
                                     /\ Carried(s, A) /\ Belong(s, op) /\ Untold(s)}
Quiet(x) == /\ x \in Steps /\ x.do \notin Frame \cup {"native", "hardRemove", "tell"} /\ ~IsWrite(x) /\ ~Says(x)
            /\ Carries(x) => x.arg = None
Opening(A, op) == {s \in Seq(Steps) :
  /\ Framed(s) /\ Reads(s, 1) /\ Reports(s) /\ Backed(s, {}) /\ Carried(s, A) /\ Belong(s, op) /\ Untold(s)
  /\ \A n \in DOMAIN s : s[n].do = "commit" => s[1].do = "begin"
  /\ \A n \in DOMAIN s : s[n].do = "clear" => op = "unit"}

\* A transaction around s, and what a unit of work does after it.
Frames(s, op, u) == \E e :
  /\ e = <<Step("commit", None)>> \/ (e = <<Step("commit", None), Step("clear", None)>> /\ op = "unit")
  /\ u = <<Step("begin", None)>> \o s \o e
Commissions(ops) == {<<ops[n].id, ops[n].entity>> : n \in DOMAIN ops}
HeldBy(c) == IF held[c] = None THEN {} ELSE {<<held[c].id, held[c].row>>}
Entities(c, i) == {None} \cup (IF held[c] # None /\ held[c].id = i THEN {held[c].row} ELSE {})
Children(i) == {d \in Ids : OwnerOf[d] = i}

\* What is left of s after its head, behind t.
IsRest(s, t, u) == s \in Seq(Steps) /\ s # <<>> /\ t \in Seq(Steps) /\ u = t \o Tail(s)

\* Of a row it changed a call will have an event to tell, and an entry if it is audited.
Promises(s, i) ==
  /\ \E n \in DOMAIN s : s[n].do = "emit" /\ s[n].id = i
  /\ Audited(i) => \E n \in DOMAIN s : s[n].do = "audit" /\ s[n].id = i

(* ---------------------------- steps of a call ----------------------------- *)

\* c's call goes on, with these steps before the rest of it.
Goes(c, steps, miss) ==
  /\ todo[c] # <<>>
  /\ todo' \in [Clients -> Seq(Steps)] /\ todo'[c] = steps \o Tail(todo[c])
  /\ \A d \in Clients : d # c => todo'[d] = todo[d] /\ call'[d] = call[d]
  /\ call' \in [Clients -> Ended]
  /\ call'[c].n = call[c].n /\ call'[c].op = call[c].op /\ call'[c].id = call[c].id
  /\ call'[c].missed = call[c].missed \cup miss
  /\ call[c].undone => call'[c].undone
  /\ call'[c].undone => call[c].undone \/ poisoned
  /\ call'[c].end = IF todo'[c] = <<>> THEN "resolved" ELSE call[c].end

\* Each row becomes newer, or keeps its version and with it its content.
Growing(rows, new) == \A i \in Ids : Versioned(i) /\ i \notin loose' /\ rows[i] # None =>
  new[i] # None /\ (new[i].version > rows[i].version \/ (new[i].version = rows[i].version /\ new[i].by = rows[i].by))

\* What a statement of c does to the database.
Stores(c, mine) ==
  /\ UNCHANGED <<saved, tx>> /\ tx \in {None, c}
  /\ db' \in Databases /\ mine \in SUBSET Ids
  /\ db'.changed = db.changed \cup {<<call[c].n, i>> : i \in mine}
  /\ \A p \in db'.swept : p \in db.swept \/ p[1] = call[c].n
  /\ db.trail \subseteq db'.trail
  /\ \A e \in db'.trail \ db.trail : e.call = call[c].n /\ (<<e.call, e.id>> \in db.changed \/ e.missed)
  /\ loose \subseteq loose' /\ loose' \in SUBSET Ids
  /\ Growing(db.rows, db'.rows)
  /\ meanwhile' \in [Clients -> SUBSET Ids] /\ meanwhile'[c] = meanwhile[c]
  /\ \A d \in Clients : d # c => meanwhile'[d] = meanwhile[d] \cup {i \in Ids : db'.rows[i] # db.rows[i]}
  /\ faults' \in Nat /\ faults <= faults' /\ poisoned' \in BOOLEAN
  /\ poisoned' => poisoned \/ (faults' > 0 /\ Aborts /\ tx # None)
Sees(c) ==
  /\ seen' \in [Clients -> Stored \cup {None}]
  /\ \A d \in Clients : d # c => seen'[d] = seen[d]
  /\ IF Now(c).do = "find" THEN seen'[c] = IF Visible(c, Now(c).id) THEN db.rows[Now(c).id] ELSE None
     ELSE seen'[c] = seen[c]

\* The row its statement was given, which the steps it adds may carry on.
Passed(c) == IF Carries(Now(c)) THEN {<<Now(c).id, Now(c).arg>>} ELSE {}

\* The steps it adds, and what it owes for the rows it changed.
Fits(c, steps) ==
  /\ steps \in Fit(Touched(c)', Passed(c), call[c].op)
  /\ Now(c).do \notin Frame \cup {"emit", "tell"}
  /\ Now(c).do = "find" => steps = <<>>
  /\ IsWrite(Now(c)) => Now(c).id \in Touched(c)'
Owes(c, steps, mine) ==
  /\ \A i \in mine : Audited(i) /\ call[c].op \notin Unaudited =>
       \E n \in DOMAIN todo'[c] : todo'[c][n].do = "audit" /\ todo'[c][n].id = i
  /\ \A i \in mine : call[c].op # "hardRemove" => \E n \in DOMAIN todo'[c] : todo'[c][n].do = "emit" /\ todo'[c][n].id = i
  /\ Now(c).do = "audit" /\ faults' = 0 => poisoned \/ \E e \in db'.trail : e.call = call[c].n /\ e.id = Now(c).id
  /\ Now(c).do = "add" => Now(c).id \in mine
  /\ \A i \in Ids : Now(c).do = "write" /\ Now(c).id = i => i \in mine \/ (steps = <<>> /\ ~Visible(c, i)')
  /\ Now(c).do = "reload" => Visible(c, Now(c).id)
Unmoved == UNCHANGED <<model, held, calls, listeners, told, unit, serial, taken, fate>>
Advances(c, steps, miss, mine) ==
  Goes(c, steps, miss) /\ Stores(c, mine) /\ Sees(c) /\ Fits(c, steps) /\ Owes(c, steps, mine) /\ Unmoved /\ miss \in SUBSET Ids

\* c's call ends in an error.
Throws(c) ==
  /\ todo[c] # <<>> /\ Now(c).do \notin {"emit", "clear"}
  /\ todo' \in [Clients -> Seq(Steps)] /\ todo'[c] = <<>>
  /\ \A d \in Clients : d # c => todo'[d] = todo[d] /\ call'[d] = call[d]
  /\ call' \in [Clients -> Ended]
  /\ call'[c].n = call[c].n /\ call'[c].op = call[c].op /\ call'[c].id = call[c].id
  /\ call'[c].missed = call[c].missed /\ call'[c].undone = call[c].undone /\ call'[c].end = "rejected"
  /\ tx \in {None, c}
  /\ IF tx = c THEN db' = saved /\ tx' = None /\ poisoned' = FALSE /\ saved' = saved ELSE UNCHANGED Database
  /\ faults' \in Nat /\ faults <= faults'
  /\ UNCHANGED <<seen, loose, meanwhile>> /\ Unmoved
Went(c) == Throws(c) \/ \E steps, miss, mine : Advances(c, steps, miss, mine)

(* ------------------------ transactions and events ------------------------- *)

Serves(c) == Goes(c, <<>>, {}) /\ UNCHANGED <<seen, loose, meanwhile>> /\ Unmoved

\* An aborted transaction ends at its COMMIT.
RollsBack(c) ==
  /\ Serves(c) /\ Now(c).do = "commit" /\ poisoned /\ tx = c /\ UNCHANGED faults /\ call'[c].undone
  /\ db' = saved /\ tx' = None /\ poisoned' = FALSE /\ saved' = saved
Begins(c) ==
  /\ Serves(c) /\ Now(c).do = "begin" /\ ~poisoned /\ tx = None /\ UNCHANGED faults
  /\ tx' = c /\ saved' = db /\ UNCHANGED <<db, poisoned>>
Commits(c) ==
  /\ Serves(c) /\ Now(c).do = "commit" /\ ~poisoned /\ tx \in {None, c} /\ UNCHANGED faults
  /\ tx' = None /\ UNCHANGED <<db, saved, poisoned>>
Asleep == UNCHANGED <<model, db, saved, tx, poisoned, seen, held, calls, faults, loose, meanwhile, unit, serial>>

\* The listeners that hear a name, one step for each, 0 for that of the set; and those
\* that stay.
Heard(c, steps) ==
  \E p \in [DOMAIN steps -> DOMAIN listeners \cup {0}] :
    /\ \A n \in DOMAIN steps : /\ steps[n].do = "tell" /\ steps[n].id = Now(c).id
                               /\ p[n] = 0 => steps[n].arg[1] = "own"
                               /\ p[n] # 0 => steps[n].arg[1] = listeners[p[n]].who /\ Now(c).arg \in listeners[p[n]].names
    /\ Itself(c, Now(c).id) => \E n \in DOMAIN steps : p[n] = 0
    /\ \A m, n \in DOMAIN steps : p[m] = p[n] => m = n
    /\ \A k \in DOMAIN listeners : Now(c).arg \in listeners[k].names => \E n \in DOMAIN steps : p[n] = k
Stayed(c) ==
  \E q \in [DOMAIN listeners' -> DOMAIN listeners] :
    /\ \A m \in DOMAIN listeners' : /\ listeners'[m] = listeners[q[m]]
                                    /\ Now(c).arg \notin listeners[q[m]].names \/ ~listeners[q[m]].once
    /\ \A m, n \in DOMAIN listeners' : q[m] = q[n] => m = n
    /\ \A k \in DOMAIN listeners : Now(c).arg \notin listeners[k].names \/ ~listeners[k].once =>
         \E m \in DOMAIN listeners' : q[m] = k
Emits(c, steps) ==
  /\ Goes(c, steps, {}) /\ Now(c).do = "emit" /\ Asleep /\ UNCHANGED <<told, taken, fate>>
  /\ steps \in Seq(Steps) /\ listeners' \in Seq(Listener) /\ Heard(c, steps) /\ Stayed(c)
Tells(c) ==
  /\ Goes(c, <<>>, {}) /\ Now(c).do = "tell" /\ Asleep /\ UNCHANGED <<listeners, taken, fate>>
  /\ \E t \in Tellings : /\ told' = told \cup {t} /\ t.who = Now(c).arg[1] /\ t.call = call[c].n /\ t.id = Now(c).id
                         /\ (t.inTx <=> tx = c) /\ (t.missed <=> Now(c).id \in call[c].missed)

(* ---------------------------- every next step ----------------------------- *)

Clearing(s) == \E n \in DOMAIN s : s[n].do = "clear"
Clears(c) == Goes(c, <<>>, {}) /\ Clear(c)

\* c begins a call, with no statement made: of a commit(), or of its set.
Starts(c, op, A, steps) ==
  /\ todo[c] = <<>> /\ op \in CallNames /\ steps \in Opening(A, op)
  /\ calls' = calls + 1
  /\ todo' \in [Clients -> Seq(Steps)] /\ todo'[c] = steps
  /\ call' \in [Clients -> Ended]
  /\ call'[c].n = calls + 1 /\ call'[c].op = op /\ call'[c].end = "running" /\ call'[c].missed = {}
  /\ ~call'[c].undone /\ (op = "unit" => Clearing(steps))
  /\ seen' \in [Clients -> Stored \cup {None}] /\ meanwhile' \in [Clients -> SUBSET Ids]
  /\ \A d \in Clients : d # c =>
       todo'[d] = todo[d] /\ call'[d] = call[d] /\ seen'[d] = seen[d] /\ meanwhile'[d] = meanwhile[d]
  /\ UNCHANGED <<model, db, saved, tx, poisoned, held, listeners, told, faults, loose, unit, serial, fate>>
  /\ \/ op # "unit" /\ A = HeldBy(c) /\ UNCHANGED taken
     \/ /\ op = "unit" /\ A = Commissions(unit) /\ taken' = [taken EXCEPT ![c] = unit]
        /\ \A k \in DOMAIN unit : unit[k].do # "Deleted" =>
             \E n \in DOMAIN steps : steps[n].do \in {"add", "write"} /\ steps[n].id = unit[k].id

\* No call goes on, and no row changes.
Still == UNCHANGED <<model, db, saved, tx, poisoned, todo, call, seen, calls, faults, loose, meanwhile, taken>>
Loads(c, i) ==
  /\ todo[c] = <<>> /\ tx = None /\ i \in Ids /\ db.rows[i] \in Stored
  /\ held' \in [Clients -> Loaded \cup {None}] /\ held'[c] = [id |-> i, row |-> db.rows[i]]
  /\ \A d \in Clients : d # c => held'[d] = held[d]
  /\ UNCHANGED <<listeners, told, unit, serial, fate>>
Listens == (\E l \in Who : Subscribe(l, {"created", "updated"}) \/ Unsubscribe(l)) /\ UNCHANGED <<unit, serial, fate>>
Registers(c, do, i, e) ==
  /\ do \in {"Added", "Modified", "Deleted"} /\ i \in Ids
  /\ e = None \/ (held[c] # None /\ held[c].id = i /\ e = held[c].row)
  /\ serial' = serial + 1 /\ unit' = Append(unit, Op(serial + 1, do, i, e))
  /\ UNCHANGED <<held, listeners, told, fate>>
Rests ==
  \/ UNCHANGED uvars
  \/ Still /\ \/ \E c \in Clients, i \in Ids : Loads(c, i)
              \/ Listens
              \/ \E c \in Clients, i \in Ids : \E do, e : Registers(c, do, i, e)
              \/ Rollback
Moves(c) ==
  \/ Went(c) \/ RollsBack(c) \/ Begins(c) \/ Commits(c) \/ Tells(c) \/ Clears(c)
  \/ (\E steps : Emits(c, steps)) \/ \E op, A, steps : Starts(c, op, A, steps)

\* A client's own step: of a call of its set, or of a commit().
Acting(c) ==
  \/ (CallSet(c) \/ Run(c) \/ Emit(c) \/ Tell(c)) /\ UNCHANGED <<unit, serial, taken, fate>>
  \/ CommitUnit(c) \/ Clear(c)

(* -------------------- what a step leaves to the others -------------------- *)

\* What a step of c leaves to d.
Spares(c, d) ==
  /\ todo'[d] = todo[d] /\ call'[d] = call[d] /\ seen'[d] = seen[d]
  /\ Changed(db', call[d].n) = Changed(db, call[d].n)
  /\ \A e \in db.trail : e.call = call[d].n => e \in db'.trail
  /\ (tx' = d <=> tx = d) /\ (tx = d => db' = db)

\* What it leaves alone, but when it is of a certain kind.
Leaves(c) ==
  /\ model' = model /\ held' = held /\ calls <= calls' /\ faults <= faults' /\ calls' \in Nat /\ faults' \in Nat
  /\ told' = told \/ Tells(c)
  /\ listeners' = listeners \/ \E steps : Emits(c, steps)
  /\ UNCHANGED <<unit, serial, fate>> \/ Clears(c)
  /\ taken' = taken \/ Clears(c) \/ \E op, A, steps : Starts(c, op, A, steps)
  /\ \A d \in Clients : d # c => taken'[d] = taken[d] /\ (tx = d => saved' = saved)

\* A step of c stores something, or leaves the database and what a rollback returns to
\* as they were, or makes one of the other.
Returns == {db, saved}' \subseteq {db, saved} /\ Current' \subseteq Current /\ loose' = loose

(* ----------------------------- units of work ------------------------------ *)

\* The write of an operation is still to come, in these steps.
Pending(s, i) == \E n \in DOMAIN s : s[n].do \in {"add", "write"} /\ s[n].id = i
Shows(rows, c, i) == rows[i] # None /\ SameTenant(c, rows[i]) /\ (rows[i].deleted => c \in SeesDeleted)

(* ----------------------- sequences and their sorting ---------------------- *)

\* The values a loop goes through, one for each round.
IsLoop(g, S, N, base, step) ==
  g \in [0 .. N -> S] /\ g[0] = base /\ \A n \in 1 .. N : g[n] = step[<<n, g[n - 1]>>]

\* "out" is what a filter leaves of s: "pos" says from where.
Picks(out, s, S, Good, pos) ==
  /\ out \in Seq(S) /\ pos \in [DOMAIN out -> DOMAIN s]
  /\ \A m \in DOMAIN out : out[m] = s[pos[m]] /\ out[m] \in Good
  /\ \A m, n \in DOMAIN out : pos[m] = pos[n] => m = n
  /\ \A k \in DOMAIN s : s[k] \in Good => \E m \in DOMAIN out : pos[m] = k
Picked(out, s, S, Good) == \E pos : Picks(out, s, S, Good, pos)
Filters(h, s, Good) ==
  h = [i \in 0 .. Len(s) |-> IF i = 0 THEN <<>> ELSE IF s[i] \in Good THEN Append(h[i - 1], s[i]) ELSE h[i - 1]]

\* The states a loop of SortInserts goes through.
Rounds(g, ops, among, visit, s) ==
  /\ g \in [0 .. Len(ops) -> Sorting(ops)] /\ g[0] = s
  /\ \A m \in 1 .. Len(ops) : g[m] = IF m \in among THEN visit[m][g[m - 1]] ELSE g[m - 1]
  /\ Through(ops, among, visit, s) = g[Len(ops)]

Visitors(ops) == [DOMAIN ops -> [Sorting(ops) -> Sorting(ops)]]
Visiting(ops, visit) == [n \in DOMAIN ops |-> [s \in Sorting(ops) |-> Visit(ops, visit, n, s)]]

\* How the visits of a depth are made of those one level down.
Descends(v, ops) ==
  /\ v \in [0 .. Len(ops) + 1 -> Visitors(ops)]
  /\ \A n \in DOMAIN ops : \A s \in Sorting(ops) : v[0][n][s] = s
  /\ \A d \in 1 .. Len(ops) + 1 : v[d] = Visiting(ops, v[d - 1])
  /\ Visits(ops) = v[Len(ops) + 1]

Listed(ops, s) == \A k \in s.visited : \E j \in DOMAIN s.out : s.out[j] = ops[k]
Grows(ops, s, r) == /\ r \in Sorting(ops) /\ s.visited \subseteq r.visited
                    /\ Listed(ops, s) => Listed(ops, r)
GrowsAt(v, ops, d) == \A n \in DOMAIN ops : \A s \in Sorting(ops) :
                        Grows(ops, s, v[d][n][s]) /\ (d > 0 => n \in v[d][n][s].visited)

Unsorted == [out |-> <<>>, visited |-> {}, visiting |-> {}]

\* What is listed is what is visited, once, and behind its parents.
Sound(ops, s) ==
  /\ s \in Sorting(ops) /\ s.visited \cap s.visiting = {} /\ Listed(ops, s)
  /\ \A j \in DOMAIN s.out : \E k \in s.visited : s.out[j] = ops[k]
  /\ \A j, k \in DOMAIN s.out : s.out[j] = s.out[k] => j = k
  /\ \A k \in s.visited : Parents(ops, k) \subseteq s.visited
  /\ \A j, k \in DOMAIN s.out : \A x, y \in DOMAIN ops :
       s.out[j] = ops[x] /\ s.out[k] = ops[y] /\ y \in Parents(ops, x) => k < j
\* Every operation being visited has a parent in the same visit, or is about to.
Leads(ops, S, n) == \A a \in S : \E b \in S \cup {n} : b \in Parents(ops, a)
Distinct(ops) == \A j, k \in DOMAIN ops : ops[j] = ops[k] => j = k
Settles(ops, n, s, r) == Sound(ops, r) /\ s.visited \subseteq r.visited /\ r.visiting = s.visiting /\ n \in r.visited
SettlesAt(v, ops, d) == \A n \in DOMAIN ops : \A s \in Sorting(ops) :
  Sound(ops, s) /\ Leads(ops, s.visiting, n) /\ Cardinality((DOMAIN ops) \ s.visiting) < d => Settles(ops, n, s, v[d][n][s])

\* The steps of u that tell l are steps of s, each of them another one.
Fewer(s, u, l) == \E k \in Int : \A n \in DOMAIN u : TellsTo(u[n], l) => n + k \in DOMAIN s /\ u[n] = s[n + k]
Thinner(l) == \E q :
  /\ \A m \in DOMAIN listeners' : listeners'[m].who = l => q[m] \in DOMAIN listeners /\ listeners'[m] = listeners[q[m]]
  /\ \A m, n \in DOMAIN listeners' : listeners'[m].who = l /\ listeners'[n].who = l /\ q[m] = q[n] => m = n

\* Numbered, spelled out for what the unit, the fates and what is being written become.
Counts(u, F, t, N) ==
  /\ \A m, n \in DOMAIN u : u[m].n = u[n].n => m = n
  /\ \A n \in DOMAIN u : u[n].n \in 1 .. N
  /\ \A f \in F : f.op.n \in 1 .. N
  /\ \A k \in 1 .. N : (\E n \in DOMAIN u : u[n].n = k) \/ \E f \in F : f.op.n = k
  /\ \A c \in Clients : \A n \in DOMAIN t[c] : t[c][n].n \in 1 .. N

(* --------------------------- steps of a cascade --------------------------- *)

Suited(c) == {s \in Seq(Steps) : \A n \in DOMAIN s : Suits(c, s[n])}

\* ... and for each row that one of them has listed.
Descents(c, ks, S) == FlattenSeq([n \in 1 .. Cardinality(S) |-> EachKind(Sweep(c), ks, SetToSeq(S)[n])])

\* A step of a cascade that does not begin it.
Marches(c, steps) ==
  /\ \E miss : Goes(c, steps, miss)
  /\ steps \in Suited(c) /\ Now(c).do # call[c].op
  /\ UNCHANGED <<model, tx>> /\ meanwhile'[c] = meanwhile[c]
  /\ tx \notin {None, c} => UNCHANGED <<db, saved>>
  /\ \A j \in Ids :
       /\ db'.rows[j] = None <=> db.rows[j] = None
       /\ db.rows[j] # None => db'.rows[j].tenant = db.rows[j].tenant /\ (Swept(c, db.rows, j) => Swept(c, db'.rows, j))
  /\ Now(c).do = Sweep(c) =>
       /\ \A j \in Owned(Now(c).arg, Now(c).id) : Swept(c, db'.rows, j)
       /\ Cascades(Now(c).arg) => Has(steps, Listing(c), Now(c).id, Now(c).arg)
  /\ Now(c).do = Listing(c) =>
       \A j \in Owned(Now(c).arg, Now(c).id) : Matches(c, j) /\ Swept(c, db.rows, j) =>
         \A k \in SoftChildren(Now(c).arg) : Has(steps, Sweep(c), j, k)

\* The step that begins it.
Opens(c, steps) ==
  /\ \E miss : Goes(c, steps, miss)
  /\ steps \in Suited(c) /\ UNCHANGED <<model, tx>> /\ tx \in {None, c} /\ meanwhile'[c] = meanwhile[c]
  /\ \A d \in Below({call[c].id}) : Has(steps, Sweep(c), call[c].id, KindOf[d])
Stops(c) == todo'[c] = <<>> /\ call'[c].end = "rejected"
Cascading(c) == call[c].op \in {"remove", "restore"} /\ todo[c] # <<>>
====
