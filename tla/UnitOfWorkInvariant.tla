---- MODULE UnitOfWorkInvariant ----
(* What is true of the writes of SetWrites, and of the unit of work over them,  *)
(* between any two steps.  The properties compare what was reported, versioned  *)
(* or written with what was done many steps before; the parts below say at each *)
(* step what is done by then and what is still ahead of its call.               *)
EXTENDS UnitOfWork

(* -------------------------------- the types ------------------------------- *)

Acts == {"created", "updated", "deleted"}
Voices == Who \cup {"all", "own"}
Rows == [Ids -> Stored \cup {None}]
Frame == {"begin", "commit", "clear"}
Doings == {"find", "reload", "add", "write", "stamp", "upsert", "native", "hardRemove", "remove",
           "removeWhere", "hardRemoveWhere", "bulkDelete", "listRemoved", "restore", "restoreWhere",
           "listRestored", "bulkInsert", "bulkUpdate", "bulkUpsert", "audit", "emit", "tell"} \cup Frame

IsWrite(x) == x.do \in {"write", "stamp"}
Says(x) == x.do \in {"audit", "emit", "tell"}
Carries(x) == x.do \in {"write", "stamp", "upsert", "remove", "hardRemove"}
OfKind(x) == x.do \in {"removeWhere", "hardRemoveWhere", "restoreWhere", "bulkDelete", "listRemoved", "listRestored"}
FitArg(x) ==
  /\ x.do \notin Frame => x.id \in Ids
  /\ Carries(x) => x.arg \in Stored \cup {None}
  /\ x.do = "add" => x.arg \in SUBSET Ids
  /\ OfKind(x) => x.arg \in Kinds
  /\ x.do \in {"audit", "emit"} => x.arg \in Acts
  /\ x.do = "tell" => x.arg \in Voices \X Acts

Args == Stored \cup {None} \cup (SUBSET Ids) \cup Kinds \cup Acts \cup (Voices \X Acts)
Steps == {x \in [do : Doings, id : Ids \cup {None}, arg : Args, opt : BOOLEAN] : FitArg(x)}
Entries == [call : Nat, id : Ids, op : Acts, missed : BOOLEAN]
Databases == [rows : Rows, trail : SUBSET Entries, changed : SUBSET (Nat \X Ids), swept : SUBSET (Nat \X Ids)]
CallNames == {"none", "unit", "add", "addRange", "update", "upsert", "upsertRange", "remove", "hardRemove",
              "nativeUpsert", "restore", "where", "bulkInsert", "bulkUpdate", "bulkUpsert"}
Ended == [n : Nat, op : CallNames, id : Ids \cup {None}, end : {"running", "resolved", "rejected"}, missed : SUBSET Ids,
          undone : BOOLEAN]
Loaded == [id : Ids, row : Stored]
Listener == [who : Voices, names : SUBSET Acts, once : BOOLEAN]
Tellings == [who : Voices, call : Nat, id : Ids, act : Acts, inTx : BOOLEAN, missed : BOOLEAN]
Ops == [n : Nat, do : {"Added", "Modified", "Deleted"}, id : Ids, entity : Stored \cup {None}]
Fates == [op : Ops, how : {"flushed", "undone", "dropped", "late"}, call : Nat]

TypeInv ==
  /\ model \in Models
  /\ db \in Databases /\ saved \in Databases
  /\ tx \in Clients \cup {None} /\ poisoned \in BOOLEAN
  /\ todo \in [Clients -> Seq(Steps)]
  /\ call \in [Clients -> Ended]
  /\ seen \in [Clients -> Stored \cup {None}]
  /\ held \in [Clients -> Loaded \cup {None}]
  /\ listeners \in Seq(Listener) /\ told \in SUBSET Tellings
  /\ calls \in Nat /\ faults \in Nat
  /\ loose \in SUBSET Ids /\ meanwhile \in [Clients -> SUBSET Ids]
  /\ unit \in Seq(Ops) /\ serial \in Nat
  /\ taken \in [Clients -> Seq(Ops)] /\ fate \in SUBSET Fates

(* --------------------------- what is left of a call ----------------------- *)

\* An update whose version is the one a read of its call returned.
NeedsRead(x) == IsWrite(x) /\ Versioned(x.id) /\ x.arg = None

\* Begin comes first, commit last or followed by clear; nothing else is a frame.
Framed(s) == \A n \in DOMAIN s :
  /\ s[n].do = "begin" => n = 1 /\ \E m \in DOMAIN s : s[m].do = "commit"
  /\ s[n].do = "commit" => \A m \in DOMAIN s : m > n => s[m].do = "clear"
  /\ s[n].do = "clear" => n = Len(s) /\ (n > 1 => s[n - 1].do = "commit")
Unframed(s) == \A n \in DOMAIN s : s[n].do \notin Frame

\* Such an update comes right after its read.
Reads(s, first) == \A n \in DOMAIN s : n >= first /\ NeedsRead(s[n]) =>
                     n > 1 /\ s[n - 1].do = "find" /\ s[n - 1].id = s[n].id
\* What an UPDATE is followed by: its reload, its event, its audit entry.
Reports(s) == \A n \in DOMAIN s : IsWrite(s[n]) =>
  /\ n < Len(s) /\ s[n + 1].do = "reload" /\ s[n + 1].id = s[n].id
  /\ \E m \in DOMAIN s : m > n /\ s[m].do = "emit" /\ s[m].id = s[n].id
  /\ Audited(s[n].id) => \E m \in DOMAIN s : m > n /\ s[m].do = "audit" /\ s[m].id = s[n].id
\* What is reported is of Z, or is of a row an UPDATE before it is about.
Backed(s, Z) == \A n \in DOMAIN s : Says(s[n]) =>
  \/ s[n].id \in Z
  \/ \E m \in DOMAIN s : m < n /\ IsWrite(s[m]) /\ s[m].id = s[n].id
\* The entities that are passed are of A.
Carried(s, A) == \A n \in DOMAIN s : Carries(s[n]) /\ s[n].arg # None => <<s[n].id, s[n].arg>> \in A
Belong(s, op) == \A n \in DOMAIN s :
  /\ s[n].do = "native" => op = "nativeUpsert"
  /\ s[n].do = "hardRemove" => op = "hardRemove"
Untold(s) == \A n \in DOMAIN s : s[n].do # "tell"

Changed(D, n) == {i \in Ids : <<n, i>> \in D.changed}
Touched(c) == Changed(db, call[c].n) \cup call[c].missed

CallInv(c) ==
  /\ call[c].n <= calls
  /\ todo[c] # <<>> => call[c].n > 0 /\ call[c].end = "running"
  /\ \A d \in Clients : d # c /\ call[d].n = call[c].n => call[c].n = 0
  /\ Framed(todo[c]) /\ Reads(todo[c], 2) /\ Reports(todo[c]) /\ Backed(todo[c], Touched(c))
  /\ Belong(todo[c], call[c].op)
  /\ tx = c <=> todo[c] # <<>> /\ Now(c).do # "begin" /\ \E n \in DOMAIN todo[c] : todo[c][n].do = "commit"

(* -------------------------------- transactions ---------------------------- *)

\* A transaction adds to what its rollback returns to, and what it adds is its call's.
TxInv ==
  /\ poisoned => tx # None /\ faults > 0 /\ Aborts
  /\ \A p \in db.changed \cup saved.changed : p[1] \in 1 .. calls
  /\ tx # None =>
       /\ saved.changed \subseteq db.changed /\ \A p \in db.changed \ saved.changed : p[1] = call[tx].n
       /\ saved.trail \subseteq db.trail /\ \A e \in db.trail \ saved.trail : e.call = call[tx].n

\* The databases that other clients may come to see.
Current == IF tx = None THEN {db} ELSE {db, saved}

(* ------------------------ versions, audit log, events --------------------- *)

\* The rows whose version tells their content, and a row that is no newer than the stored one.
Strict == {i \in Ids : Versioned(i) /\ i \notin loose}
Follows(S, rows, i, r) == i \in S =>
  /\ rows[i] # None
  /\ r.version <= rows[i].version
  /\ r.version = rows[i].version => r.by = rows[i].by

\* The rows that clients pass, or will pass, to an update.
Borrows(p) ==
  \/ \E c \in Clients : held[c] # None /\ p = <<held[c].id, held[c].row>>
  \/ \E c \in Clients : \E n \in DOMAIN todo[c] :
       Carries(todo[c][n]) /\ todo[c][n].arg # None /\ p = <<todo[c][n].id, todo[c][n].arg>>
  \/ \E n \in DOMAIN unit : unit[n].entity # None /\ p = <<unit[n].id, unit[n].entity>>
Mine(c) == IF tx = c THEN {db} ELSE Current
\* Every row that is passed, or will be, is no newer than the stored one, and has its
\* content when it has its version.
SnapInv == \A D \in Current :
  /\ \A c \in Clients : held[c] # None => Follows(Strict, D.rows, held[c].id, held[c].row)
  /\ \A c \in Clients : \A n \in DOMAIN todo[c] :
       Carries(todo[c][n]) /\ todo[c][n].arg # None => Follows(Strict, D.rows, todo[c][n].id, todo[c][n].arg)
  /\ \A n \in DOMAIN unit : unit[n].entity # None => Follows(Strict, D.rows, unit[n].id, unit[n].entity)
\* ... and so is the row that the next update has read.
ReadInv(c) == todo[c] # <<>> /\ NeedsRead(Now(c)) /\ seen[c] # None =>
  \A D \in Mine(c) : Follows(Strict, D.rows, Now(c).id, seen[c])

\* Entries and tellings are of rows their call changed, in either database.
TrailInv == \A D \in {db, saved} : \A e \in D.trail : <<e.call, e.id>> \in D.changed \/ e.missed
ToldInv == \A D \in Current : \A t \in told : <<t.call, t.id>> \in D.changed \/ t.missed \/ t.inTx

Live(c) == call[c].end \in {"running", "resolved"}
\* A changed row has its entry, or the call still has it to write.
OwedInv(c) == Live(c) /\ call[c].op \notin Unaudited /\ faults = 0 =>
  \A i \in Changed(db, call[c].n) : Audited(i) =>
    \/ \E e \in db.trail : e.call = call[c].n /\ e.id = i
    \/ \E n \in DOMAIN todo[c] : todo[c][n].do = "audit" /\ todo[c][n].id = i
ForVoice(x, v) == x.do = "emit" \/ (x.do = "tell" /\ x.arg[1] = v)
\* Whoever is sure to hear of a changed row has been told, or the call still has to tell.
HeardInv(c) == Live(c) /\ call[c].op # "hardRemove" =>
  \A i \in Changed(db, call[c].n) : \A v \in Ears(c, i) :
    \/ Told(v, c, i)
    \/ \E n \in DOMAIN todo[c] : ForVoice(todo[c][n], v) /\ todo[c][n].id = i

AllInv == \E n \in DOMAIN listeners : listeners[n] = Registration("all", Acts, FALSE)
TellsTo(x, l) == x.do = "tell" /\ x.arg[1] = l
\* What there is of a once() listener is one thing at most: its registration, one
\* telling that is due, or one that was made.
OnceInv(l) ==
  /\ \A m, n \in DOMAIN listeners : listeners[m].who = l /\ listeners[n].who = l => m = n /\ listeners[m].once
  /\ \A c, d \in Clients : \A m \in DOMAIN todo[c], n \in DOMAIN todo[d] :
       TellsTo(todo[c][m], l) /\ TellsTo(todo[d][n], l) => c = d /\ m = n
  /\ \A t, u \in told : t.who = l /\ u.who = l => t = u
  /\ \A n \in DOMAIN listeners : listeners[n].who = l =>
       /\ \A t \in told : t.who # l
       /\ \A c \in Clients : \A m \in DOMAIN todo[c] : ~TellsTo(todo[c][m], l)
  /\ \A t \in told : t.who = l => \A c \in Clients : \A m \in DOMAIN todo[c] : ~TellsTo(todo[c][m], l)

(* ------------------------------ units of work ----------------------------- *)

Numbered ==
  /\ \A m, n \in DOMAIN unit : unit[m].n = unit[n].n => m = n
  /\ {op.n : op \in Registered} = 1 .. serial
  /\ \A c \in Clients : \A n \in DOMAIN taken[c] : taken[c][n].n \in 1 .. serial

Flushes(c) == call[c].op = "unit" /\ \E n \in DOMAIN todo[c] : todo[c][n].do = "clear"
\* What commit() took and has not written, it still has to write.
UnitInv(c) ==
  /\ \A n \in DOMAIN todo[c] : todo[c][n].do = "clear" => call[c].op = "unit"
  /\ call[c].op = "unit" /\ todo[c] # <<>> => Flushes(c)
  /\ call[c].undone => Aborts
  /\ Flushes(c) => \A k \in DOMAIN taken[c] : taken[c][k].do # "Deleted" =>
       LET i == taken[c][k].id IN
       \/ i \in Changed(db, call[c].n) \/ call[c].undone
       \/ \E n \in DOMAIN todo[c] : todo[c][n].do \in {"add", "write"} /\ todo[c][n].id = i
       \/ Now(c).do = "reload" /\ Now(c).id = i /\ ~Visible(c, i) /\ tx = c
FateInv == \A f \in fate :
  /\ f.how = "flushed" /\ f.op.do # "Deleted" => \A D \in Current : <<f.call, f.op.id>> \in D.changed
  /\ f.how = "undone" => Aborts
\* Whatever a call has in the database carries the number of a call there was.
DatedInv == \A D \in {db, saved} :
  (\A p \in D.changed \cup D.swept : p[1] \in 1 .. calls) /\ \A e \in D.trail : e.call \in 1 .. calls
\* A commit() has nothing in the database before its transaction, nor when it is rejected;
\* and its rollback returns to a database where it has nothing.
Untouched(c) == (todo[c] # <<>> /\ Now(c).do = "begin") \/ call[c].end = "rejected"
AtomicInv(c) == call[c].op = "unit" =>
  /\ Untouched(c) => \A D \in Current : Clean(D, call[c].n)
  /\ tx = c => Clean(saved, call[c].n)

(* ------------------------------ the invariant ----------------------------- *)

CallsInv == \A c \in Clients : CallInv(c)
ReadsInv == \A c \in Clients : ReadInv(c)
OwedsInv == \A c \in Clients : OwedInv(c)
HeardsInv == \A c \in Clients : HeardInv(c)
OncesInv == \A l \in Who : OnceInv(l)
UnitsInv == \A c \in Clients : UnitInv(c)
AtomicsInv == \A c \in Clients : AtomicInv(c)

\* What every other part rests on.
Base == TypeInv /\ CallsInv /\ TxInv

\* The inductive invariant.
IInv ==
  /\ Base /\ TrailInv /\ ToldInv /\ AllInv /\ SnapInv /\ ReadsInv /\ OwedsInv /\ HeardsInv
  /\ OncesInv /\ Numbered /\ UnitsInv /\ FateInv /\ DatedInv /\ AtomicsInv

(* -------------------------------- cascades -------------------------------- *)

\* The steps that a cascade is made of, and what it makes of a row.
Gone(c) == call[c].op = "remove"
Sweep(c) == IF Gone(c) THEN "removeWhere" ELSE "restoreWhere"
Listing(c) == IF Gone(c) THEN "listRemoved" ELSE "listRestored"
Ways(c) == IF Gone(c) THEN {"find", "remove", "stamp", "reload", "removeWhere", "listRemoved", "audit", "emit", "tell"}
           ELSE {"restore", "restoreWhere", "listRestored"}
Suits(c, x) ==
  /\ x.do \in Ways(c)
  /\ x.do = call[c].op => x.id = call[c].id
  /\ x.do = "removeWhere" => Soft(x.arg) # "none"

\* A row under the call's is as the cascade leaves it, or t has the steps that get there.
Has(t, do, i, k) == \E n \in DOMAIN t : t[n].do = do /\ t[n].id = i /\ t[n].arg = k
Swept(c, rows, d) == rows[d].deleted = Gone(c)
ReachedAt(c, rows, t, d, o, i) ==
  \/ Swept(c, rows, d)
  \/ o = i /\ Has(t, Sweep(c), i, KindOf[d])
  \/ /\ o # i
     /\ \/ o \in meanwhile[c] \/ rows[o] = None \/ ~SameTenant(c, rows[o])
        \/ Has(t, Sweep(c), i, KindOf[o]) \/ Has(t, Sweep(c), o, KindOf[d])
        \/ Has(t, Listing(c), i, KindOf[o]) /\ Swept(c, rows, o)
Reached(c, rows, t) ==
  \A d \in Under(call[c].id) : rows[d] # None /\ d \notin meanwhile[c] =>
    ReachedAt(c, rows, t, d, OwnerOf[d], call[c].id)

\* What a rollback of others would return to differs where they wrote meanwhile.
Aside(c) == tx \notin {None, c} => \A j \in Ids : j \in meanwhile[c] \/ saved.rows[j] = db.rows[j]

\* A cascade has yet to begin, or each row under its row is reached: swept, or to be by
\* a step that is left, be it the listing of the class above it.
CascadeInv(c) == call[c].op \in {"remove", "restore"} /\ todo[c] # <<>> =>
  /\ call[c].id \in Ids
  /\ \A n \in DOMAIN todo[c] : Suits(c, todo[c][n])
  /\ \/ \E n \in DOMAIN todo[c] : todo[c][n].do = call[c].op
     \/ Reached(c, db.rows, todo[c]) /\ Aside(c)
CascadesInv == \A c \in Clients : CascadeInv(c)
====
