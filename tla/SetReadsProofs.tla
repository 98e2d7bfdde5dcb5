---------------------------- MODULE SetReadsProofs ----------------------------
(***************************************************************************)
(* Proofs about SetReads, for any requests, writes, tables and replicas,   *)
(* with the cache in memory or in Redis: lists are true to one state, and  *)
(* paging meets each row that stays once.                                  *)
(*                                                                         *)
(* What a flow has (FlowInv) is about the log, which only grows, so the    *)
(* steps of others keep it (Kept).  A step of the flow itself brings it a  *)
(* page of one state, from the database or from the cache (Brought), and   *)
(* what the pagers make of such a page is the same in both cases.          *)
(***************************************************************************)
EXTENDS SetReads, FiniteSetTheorems, SequenceTheorems, TLAPS

Ranks == Nat \cup {None}
Tables == [Ids -> Stored \cup {None}]
Cursors == {None} \cup [rank : Ranks, id : Ids]
Got == [id : Ids, rank : Ranks, kids : BOOLEAN \cup {None}]
Values == [rows : Seq(Got), at : Nat, late : BOOLEAN, req : Request(work.keys), old : BOOLEAN, when : Nat,
           edited : BOOLEAN]
Hits == [v : Values, now : Nat, floor : Nat]
CacheKeys == {<<k>> : k \in {None} \cup work.keys} \cup (BOOLEAN \X Nat \X Ranks \X Cursors)
Entries == [key : CacheKeys, value : Values, expires : Nat]
Fetch == Include(Read("fetch"))
Asked == Request(work.keys) \cup {Read("none"), Fetch}
Active == {"count", "get", "query", "include", "set", "match"}
Calls == [req : Asked, phase : Active \cup {"done"}, offset : Nat, number : {1, 2}, cursor : Cursors,
          total : Nat, rows : Seq(Got), out : Seq(Got), since : Nat \ {0}, at : SUBSET Nat, read : Nat,
          old : BOOLEAN, hit : SUBSET Hits, late : BOOLEAN, spoilt : BOOLEAN, ok : BOOLEAN]

TypeInv ==
  /\ work \in Workloads
  /\ log \in Seq(Tables) /\ log # <<>>
  /\ open \in Tables \cup {None}
  /\ behind \in [1 .. Replicas -> 1 .. Latest]
  /\ turn \in Nat /\ (turn < Replicas \/ turn = 0)
  /\ cache \in Seq(Entries)
  /\ now \in Nat
  /\ op \in [Readers -> Calls]
  /\ cleared \in [{None} \cup work.keys -> 0 .. Latest]

\* Rows that are a page of the table.
PageIs(rows, t, total, offset, take, cursor) ==
  \E s \in Orders(t, After(t, cursor, total), total) : Plain(rows) = Rows(t, Page(s, offset, take))
PageOf(rows, t, o) == PageIs(rows, t, o.req.total, o.offset, Take(o), o.cursor)

(* ------------------------------ sequences ------------------------------- *)

LEMMA Constants == /\ Replicas \in Nat /\ Size \in Nat \ {0} /\ Ttl \in Nat
                   /\ Ids \subseteq Int /\ IsFiniteSet(Ids)
                   /\ None \notin Nat /\ None \notin [rank : Ranks, id : Ids] /\ None \notin Tables
BY SizesAssumption, IdsAssumption, NoneAssumption DEF Ranks, Tables

\* An order of some of the rows goes through each of them once.
LEMMA OrdersGoThrough ==
  ASSUME NEW t, NEW total, NEW P \in SUBSET Ids, NEW s \in Orders(t, P, total)
  PROVE  /\ s \in Seq(P) /\ Len(s) \in Nat /\ Len(s) = Cardinality(P) /\ DOMAIN s = 1 .. Len(s)
         /\ \A n \in 1 .. Len(s) : s[n] \in P
         /\ \A m, n \in 1 .. Len(s) : s[m] = s[n] => m = n
         /\ \A i \in P : \E n \in 1 .. Len(s) : s[n] = i
         /\ \A m, n \in 1 .. Len(s) : m < n => ~Before(t, s[n], s[m], total)
<1>1. IsFiniteSet(P) /\ Cardinality(P) \in Nat BY Constants, FS_Subset, FS_CardinalityType
<1>2. s \in SetToSeqs(P) BY DEF Orders
<1>3. /\ s \in [1 .. Cardinality(P) -> P]
      /\ \A m, n \in 1 .. Cardinality(P) : m # n => s[m] # s[n]
  BY <1>2 DEF SetToSeqs
<1>4. s \in Seq(P) /\ Len(s) = Cardinality(P) /\ DOMAIN s = 1 .. Len(s) BY <1>1, <1>3
<1>5. s \in Injection(1 .. Cardinality(P), P) BY <1>3 DEF Injection, IsInjective
<1>6. Cardinality(1 .. Cardinality(P)) = Cardinality(P) BY <1>1, FS_Interval
<1>7. s \in Surjection(1 .. Cardinality(P), P) BY <1>1, <1>5, <1>6, FS_Injection
<1>8. \A i \in P : \E n \in 1 .. Len(s) : s[n] = i BY <1>7, <1>4 DEF Surjection
<1>9. \A m, n \in DOMAIN s : m < n => ~Before(t, s[n], s[m], total) BY DEF Orders
<1> QED BY <1>1, <1>3, <1>4, <1>8, <1>9

LEMMA PresentAre == ASSUME NEW t PROVE Present(t) \in SUBSET Ids
BY DEF Present
LEMMA AfterAre == ASSUME NEW t, NEW cursor, NEW total
                  PROVE After(t, cursor, total) \in SUBSET Ids /\ After(t, cursor, total) \subseteq Present(t)
BY DEF After, Present

\* What a page of a sequence consists of.
Much(s, offset, take) == LET left == IF offset < Len(s) THEN Len(s) - offset ELSE 0 IN
                         IF take = None THEN left ELSE Min2(left, take)
LEMMA PageConsists ==
  ASSUME NEW S, NEW s \in Seq(S), NEW offset \in Nat, NEW take \in Ranks
  PROVE  /\ Page(s, offset, take) \in Seq(S)
         /\ Len(Page(s, offset, take)) = Much(s, offset, take) /\ Much(s, offset, take) \in Nat
         /\ DOMAIN Page(s, offset, take) = 1 .. Much(s, offset, take)
         /\ \A n \in 1 .. Much(s, offset, take) : /\ offset + n \in 1 .. Len(s)
                                                  /\ Page(s, offset, take)[n] = s[offset + n]
<1> DEFINE last == IF take = None THEN Len(s) ELSE Min2(Len(s), offset + take)
           p == SubSeq(s, offset + 1, last)
<1>1. Len(s) \in Nat /\ DOMAIN s = 1 .. Len(s) /\ \A n \in 1 .. Len(s) : s[n] \in S OBVIOUS
<1>2. last \in Nat /\ last <= Len(s) BY <1>1 DEF Min2, Ranks
<1>3. \A n \in offset + 1 .. last : s[n] \in S BY <1>1, <1>2
<1> HIDE DEF last
<1>4. /\ p \in Seq(S)
      /\ Len(p) = IF offset + 1 <= last THEN last - (offset + 1) + 1 ELSE 0
      /\ \A n \in 1 .. last - (offset + 1) + 1 : p[n] = s[offset + 1 + n - 1]
  <2>1. offset + 1 \in Int /\ last \in Int BY <1>2
  <2> QED BY <1>3, <2>1, SubSeqProperties
<1>5. Much(s, offset, take) = IF offset + 1 <= last THEN last - offset ELSE 0
  BY <1>1, Constants DEF Much, Min2, last, Ranks
<1>6. Page(s, offset, take) = p BY DEF Page, last
<1>7. Much(s, offset, take) \in Nat /\ Len(p) = Much(s, offset, take) BY <1>2, <1>4, <1>5
<1>8. DOMAIN p = 1 .. Len(p) BY <1>4
<1>9. \A n \in 1 .. Much(s, offset, take) : offset + n \in 1 .. Len(s) /\ p[n] = s[offset + n]
  <2> TAKE n \in 1 .. Much(s, offset, take)
  <2>1. n \in Nat /\ n >= 1 /\ n <= last - offset BY <1>5, <1>2
  <2>2. n \in 1 .. last - (offset + 1) + 1 /\ offset + 1 + n - 1 = offset + n BY <2>1, <1>2
  <2> QED BY <2>1, <2>2, <1>2, <1>4
<1> QED BY <1>4, <1>6, <1>7, <1>8, <1>9

\* The rows of a page in hand: the places of the order after its offset.
PageHas(rows, t, s, offset, take) ==
  /\ Len(rows) = Much(s, offset, take) /\ Much(s, offset, take) \in Nat
  /\ DOMAIN rows = 1 .. Much(s, offset, take)
  /\ \A n \in 1 .. Much(s, offset, take) :
       offset + n \in 1 .. Len(s) /\ rows[n].id = s[offset + n] /\ rows[n].rank = t[s[offset + n]].rank

LEMMA PageIsSo ==
  ASSUME NEW t, NEW total, NEW offset \in Nat, NEW take \in Ranks, NEW cursor, NEW rows \in Seq(Got),
         PageIs(rows, t, total, offset, take, cursor)
  PROVE  \E s \in Orders(t, After(t, cursor, total), total) : PageHas(rows, t, s, offset, take)
<1>1. PICK s \in Orders(t, After(t, cursor, total), total) : Plain(rows) = Rows(t, Page(s, offset, take))
  BY DEF PageIs
<1> DEFINE p == Page(s, offset, take)
<1>2. s \in Seq(After(t, cursor, total)) BY AfterAre, OrdersGoThrough
<1>3. /\ DOMAIN p = 1 .. Much(s, offset, take) /\ Much(s, offset, take) \in Nat
      /\ \A n \in 1 .. Much(s, offset, take) : offset + n \in 1 .. Len(s) /\ p[n] = s[offset + n]
  BY <1>2, PageConsists
<1> HIDE DEF p
<1>4. [n \in DOMAIN rows |-> [rows[n] EXCEPT !.kids = None]]
        = [n \in DOMAIN p |-> [id |-> p[n], rank |-> t[p[n]].rank, kids |-> None]]
  BY <1>1 DEF Plain, Rows, p
<1>5. DOMAIN rows = DOMAIN p BY <1>4
<1>6. ASSUME NEW n \in DOMAIN rows PROVE rows[n].id = p[n] /\ rows[n].rank = t[p[n]].rank
  <2>1. [rows[n] EXCEPT !.kids = None] = [id |-> p[n], rank |-> t[p[n]].rank, kids |-> None] BY <1>4, <1>5
  <2>2. rows[n] \in Got OBVIOUS
  <2> QED BY <2>1, <2>2 DEF Got
<1>7. Len(rows) = Much(s, offset, take) BY <1>3, <1>5
<1> QED BY <1>3, <1>5, <1>6, <1>7 DEF PageHas

\* A page that is read has its type and is one.
LEMMA PageIsMade ==
  ASSUME NEW t \in Tables, NEW total, NEW offset \in Nat, NEW take \in Ranks, NEW cursor,
         NEW s \in Orders(t, After(t, cursor, total), total)
  PROVE  /\ Rows(t, Page(s, offset, take)) \in Seq(Got)
         /\ PageIs(Rows(t, Page(s, offset, take)), t, total, offset, take, cursor)
<1> DEFINE p == Page(s, offset, take)
           k == Much(s, offset, take)
           rows == Rows(t, p)
<1>1. s \in Seq(After(t, cursor, total)) BY AfterAre, OrdersGoThrough
<1>2. p \in Seq(After(t, cursor, total)) /\ DOMAIN p = 1 .. k /\ k \in Nat BY <1>1, PageConsists
<1> HIDE DEF p, k
<1>3. ASSUME NEW n \in 1 .. k PROVE [id |-> p[n], rank |-> t[p[n]].rank, kids |-> None] \in Got
  <2>1. p[n] \in After(t, cursor, total) BY <1>2
  <2>2. p[n] \in Ids /\ t[p[n]] # None BY <2>1, AfterAre DEF Present
  <2>3. t[p[n]] \in Stored BY <2>2 DEF Tables
  <2> QED BY <2>2, <2>3 DEF Stored, Got, Ranks
<1>4. rows = [n \in 1 .. k |-> [id |-> p[n], rank |-> t[p[n]].rank, kids |-> None]] BY <1>2 DEF Rows
<1>5. rows \in [1 .. k -> Got] BY <1>3, <1>4
<1>6. rows \in Seq(Got) BY <1>2, <1>5
<1>7. ASSUME NEW n \in 1 .. k PROVE [rows[n] EXCEPT !.kids = None] = [id |-> p[n], rank |-> t[p[n]].rank, kids |-> None]
  BY <1>4
<1>8. Plain(rows) = rows BY <1>4, <1>7 DEF Plain
<1> QED BY <1>6, <1>8 DEF PageIs, p

\* Children do not change whether rows are a page.
LEMMA KidsLeavePages ==
  ASSUME NEW rows \in Seq(Got), NEW kids \in [DOMAIN rows -> BOOLEAN],
         NEW new, new = [n \in DOMAIN rows |-> [rows[n] EXCEPT !.kids = kids[n]]]
  PROVE  /\ new \in Seq(Got) /\ Plain(new) = Plain(rows) /\ Len(new) = Len(rows) /\ DOMAIN new = DOMAIN rows
         /\ \A n \in DOMAIN rows : new[n].id = rows[n].id /\ new[n].kids = kids[n]
<1>1. DOMAIN rows = 1 .. Len(rows) /\ Len(rows) \in Nat OBVIOUS
<1>2. ASSUME NEW n \in DOMAIN rows
      PROVE  /\ new[n] \in Got /\ new[n].id = rows[n].id /\ new[n].kids = kids[n]
             /\ [new[n] EXCEPT !.kids = None] = [rows[n] EXCEPT !.kids = None]
  <2>1. rows[n] \in Got OBVIOUS
  <2>2. new[n] = [rows[n] EXCEPT !.kids = kids[n]] OBVIOUS
  <2> QED BY <2>1, <2>2 DEF Got
<1>3. new \in [1 .. Len(rows) -> Got] BY <1>1, <1>2
<1>4. new \in Seq(Got) /\ Len(new) = Len(rows) /\ DOMAIN new = DOMAIN rows BY <1>1, <1>3
<1>5. Plain(new) = Plain(rows) BY <1>2, <1>4 DEF Plain
<1> QED BY <1>2, <1>4, <1>5

(* ------------------------------- the cache ------------------------------- *)

KeysOnce(entries) == \A m, n \in DOMAIN entries : entries[m].key = entries[n].key => m = n
\* All of new was in entries, or is e.
OnlyFrom(new, entries, e) == \A n \in DOMAIN new : new[n] = e \/ \E m \in DOMAIN entries : new[n] = entries[m]

LEMMA Found ==
  ASSUME NEW entries, NEW key, key \in Keys(entries)
  PROVE  Find(entries, key) \in DOMAIN entries /\ entries[Find(entries, key)].key = key
BY DEF Keys, Find

LEMMA Deleted ==
  ASSUME NEW E, NEW entries \in Seq(E), KeysOnce(entries), NEW key
  PROVE  LET new == Delete(entries, key) IN
         /\ new \in Seq(E) /\ KeysOnce(new)
         /\ \A n \in DOMAIN new : new[n].key # key /\ \E m \in DOMAIN entries : new[n] = entries[m]
<1>0. DOMAIN entries = 1 .. Len(entries) /\ Len(entries) \in Nat OBVIOUS
<1>1. CASE key \notin Keys(entries) BY <1>1 DEF Delete, Keys
<1>2. CASE key \in Keys(entries)
  <2> DEFINE k == Find(entries, key)
             a == SubSeq(entries, 1, k - 1)
             b == SubSeq(entries, k + 1, Len(entries))
             new == Delete(entries, key)
  <2>1. k \in 1 .. Len(entries) /\ entries[k].key = key BY <1>0, <1>2, Found
  <2> HIDE DEF k
  <2>2. /\ a \in Seq(E) /\ Len(a) = k - 1
        /\ \A n \in 1 .. k - 1 : a[n] = entries[n]
    <3>1. \A n \in 1 .. k - 1 : entries[n] \in E BY <1>0, <2>1
    <3>2. 1 \in Int /\ k - 1 \in Int BY <2>1
    <3> QED BY <2>1, <3>1, <3>2, SubSeqProperties
  <2>3. /\ b \in Seq(E) /\ Len(b) = Len(entries) - k
        /\ \A n \in 1 .. Len(entries) - k : b[n] = entries[k + n]
    <3>1. \A n \in k + 1 .. Len(entries) : entries[n] \in E BY <1>0, <2>1
    <3>2. k + 1 \in Int /\ Len(entries) \in Int BY <2>1
    <3>3. /\ b \in Seq(E)
          /\ Len(b) = IF k + 1 <= Len(entries) THEN Len(entries) - (k + 1) + 1 ELSE 0
          /\ \A n \in 1 .. Len(entries) - (k + 1) + 1 : b[n] = entries[k + 1 + n - 1]
      BY <3>1, <3>2, SubSeqProperties
    <3> QED BY <3>3, <1>0, <2>1
  <2> HIDE DEF a, b
  <2>4. new = a \o b BY <1>2 DEF Delete, RemoveAt, a, b, k
  <2> HIDE DEF new
  <2>5. /\ new \in Seq(E) /\ Len(new) = Len(entries) - 1
        /\ \A n \in 1 .. Len(entries) - 1 : new[n] = IF n < k THEN entries[n] ELSE entries[n + 1]
    <3>1. /\ a \o b \in Seq(E) /\ Len(a \o b) = Len(a) + Len(b)
          /\ \A n \in 1 .. Len(a) + Len(b) : (a \o b)[n] = IF n <= Len(a) THEN a[n] ELSE b[n - Len(a)]
      BY <2>2, <2>3, ConcatProperties
    <3>2. ASSUME NEW n \in 1 .. Len(entries) - 1 PROVE new[n] = IF n < k THEN entries[n] ELSE entries[n + 1]
      <4>1. CASE n < k BY <4>1, <3>1, <2>1, <2>2, <2>3, <2>4, <1>0
      <4>2. CASE n >= k
        <5>1. n - (k - 1) \in 1 .. Len(entries) - k BY <4>2, <2>1, <1>0
        <5>2. b[n - (k - 1)] = entries[k + (n - (k - 1))] BY <5>1, <2>3
        <5> QED BY <5>2, <4>2, <3>1, <2>1, <2>2, <2>3, <2>4, <1>0
      <4> QED BY <4>1, <4>2, <2>1
    <3>3. new \in Seq(E) BY <3>1, <2>4
    <3>4. Len(a) + Len(b) = Len(entries) - 1 BY <2>1, <2>2, <2>3, <1>0
    <3>5. Len(new) = Len(entries) - 1 BY <3>1, <3>4, <2>4
    <3> QED BY <3>2, <3>3, <3>5
  <2>6. DOMAIN new = 1 .. Len(entries) - 1 BY <2>5
  <2> DEFINE from(n) == IF n < k THEN n ELSE n + 1
  <2>7. \A n \in DOMAIN new : from(n) \in DOMAIN entries /\ new[n] = entries[from(n)] /\ from(n) # k
    BY <2>5, <2>6, <2>1, <1>0
  <2>8. \A m, n \in DOMAIN new : from(m) = from(n) => m = n BY <2>6, <2>1, <1>0
  <2> HIDE DEF from
  <2>9. KeysOnce(new) BY <2>7, <2>8 DEF KeysOnce
  <2>10. \A n \in DOMAIN new : new[n].key # key BY <2>7, <2>1, <1>0 DEF KeysOnce
  <2> QED BY <2>5, <2>7, <2>9, <2>10 DEF new
<1> QED BY <1>1, <1>2

LEMMA Added ==
  ASSUME NEW E, NEW entries \in Seq(E), KeysOnce(entries), NEW e \in E,
         \A n \in DOMAIN entries : entries[n].key # e.key
  PROVE  LET new == Append(entries, e) IN new \in Seq(E) /\ KeysOnce(new) /\ OnlyFrom(new, entries, e)
<1> DEFINE new == Append(entries, e)
<1>1. /\ new \in Seq(E) /\ Len(new) = Len(entries) + 1 /\ new[Len(entries) + 1] = e
      /\ \A n \in 1 .. Len(entries) : new[n] = entries[n]
  BY AppendProperties
<1>2. DOMAIN new = 1 .. Len(entries) + 1 /\ DOMAIN entries = 1 .. Len(entries) /\ Len(entries) \in Nat BY <1>1
<1> HIDE DEF new
<1>3. \A n \in DOMAIN new : IF n = Len(entries) + 1 THEN new[n] = e ELSE n \in DOMAIN entries /\ new[n] = entries[n]
  BY <1>1, <1>2
<1>4. KeysOnce(new) BY <1>2, <1>3 DEF KeysOnce
<1>5. OnlyFrom(new, entries, e) BY <1>3 DEF OnlyFrom
<1> QED BY <1>1, <1>4, <1>5 DEF new

LEMMA MemoryGot ==
  ASSUME NEW E, NEW entries \in Seq(E), KeysOnce(entries), NEW key, NEW t
  PROVE  LET new == AfterGet(entries, key, t) IN
         new \in Seq(E) /\ KeysOnce(new) /\ \A n \in DOMAIN new : \E m \in DOMAIN entries : new[n] = entries[m]
<1>1. CASE key \notin Keys(entries) BY <1>1 DEF AfterGet
<1>2. CASE key \in Keys(entries) /\ Expired(entries, key, t)
  BY <1>2, Deleted DEF AfterGet
<1>3. CASE key \in Keys(entries) /\ ~Expired(entries, key, t)
  <2> DEFINE rest == Delete(entries, key)
             f == entries[Find(entries, key)]
             new == Append(rest, f)
  <2>1. rest \in Seq(E) /\ KeysOnce(rest) /\ \A n \in DOMAIN rest : rest[n].key # key /\ \E m \in DOMAIN entries : rest[n] = entries[m]
    BY Deleted
  <2>2. f \in E /\ f.key = key /\ \E m \in DOMAIN entries : f = entries[m] BY <1>3, Found
  <2>3. AfterGet(entries, key, t) = new BY <1>3 DEF AfterGet
  <2> HIDE DEF rest, f
  <2>4. new \in Seq(E) /\ KeysOnce(new) /\ OnlyFrom(new, rest, f) BY <2>1, <2>2, Added
  <2> HIDE DEF new
  <2>5. \A n \in DOMAIN new : \E m \in DOMAIN entries : new[n] = entries[m] BY <2>1, <2>2, <2>4 DEF OnlyFrom
  <2> QED BY <2>3, <2>4, <2>5
<1> QED BY <1>1, <1>2, <1>3

LEMMA MemorySet ==
  ASSUME NEW E, NEW entries \in Seq(E), KeysOnce(entries), NEW key, NEW value, NEW expires,
         Entry(key, value, expires) \in E
  PROVE  LET new == AfterSet(entries, key, value, expires) IN
         new \in Seq(E) /\ KeysOnce(new) /\ OnlyFrom(new, entries, Entry(key, value, expires))
<1> DEFINE e == Entry(key, value, expires)
           new == AfterSet(entries, key, value, expires)
<1>0. DOMAIN entries = 1 .. Len(entries) /\ Len(entries) \in Nat /\ e.key = key BY DEF Entry
<1>1. CASE key \in Keys(entries)
  <2> DEFINE k == Find(entries, key)
  <2>1. k \in DOMAIN entries /\ entries[k].key = key BY <1>1, Found
  <2>2. new = [entries EXCEPT ![k] = e] BY <1>1 DEF AfterSet
  <2> HIDE DEF k, e, new
  <2>3. new \in Seq(E) /\ DOMAIN new = DOMAIN entries BY <2>1, <2>2, <1>0 DEF e
  <2>4. \A n \in DOMAIN entries : new[n] = IF n = k THEN e ELSE entries[n] BY <2>2
  <2>5. \A n \in DOMAIN entries : new[n].key = entries[n].key BY <2>1, <2>4, <1>0
  <2>6. KeysOnce(new) BY <2>3, <2>5 DEF KeysOnce
  <2>7. OnlyFrom(new, entries, e) BY <2>3, <2>4 DEF OnlyFrom
  <2> QED BY <2>3, <2>6, <2>7 DEF new, e
<1>2. CASE key \notin Keys(entries)
  <2> DEFINE room == IF Len(entries) >= MaxSize /\ entries # <<>> THEN Tail(entries) ELSE entries
  <2>1. new = Append(room, e) BY <1>2 DEF AfterSet
  <2>2. room \in Seq(E) /\ KeysOnce(room) /\ \A n \in DOMAIN room : \E m \in DOMAIN entries : room[n] = entries[m]
    <3>1. CASE Len(entries) >= MaxSize /\ entries # <<>>
      <4>1. /\ Tail(entries) \in Seq(E) /\ Len(Tail(entries)) = Len(entries) - 1
            /\ \A n \in 1 .. Len(Tail(entries)) : Tail(entries)[n] = entries[n + 1]
        BY <3>1, HeadTailProperties
      <4>2. room = Tail(entries) /\ DOMAIN room = 1 .. Len(entries) - 1 BY <3>1, <4>1
      <4> HIDE DEF room
      <4>3. \A n \in DOMAIN room : n + 1 \in DOMAIN entries /\ room[n] = entries[n + 1] BY <4>1, <4>2, <1>0
      <4>4. KeysOnce(room) BY <4>2, <4>3, <1>0 DEF KeysOnce
      <4> QED BY <4>1, <4>2, <4>3, <4>4
    <3>2. CASE ~(Len(entries) >= MaxSize /\ entries # <<>>) BY <3>2
    <3> QED BY <3>1, <3>2
  <2> HIDE DEF room, e, new
  <2>3. \A n \in DOMAIN room : room[n].key # e.key BY <2>2, <1>0, <1>2 DEF Keys
  <2>4. new \in Seq(E) /\ KeysOnce(new) /\ OnlyFrom(new, room, e) BY <2>1, <2>2, <2>3, Added DEF e
  <2>5. OnlyFrom(new, entries, e) BY <2>2, <2>4 DEF OnlyFrom
  <2> QED BY <2>4, <2>5 DEF new, e
<1> QED BY <1>1, <1>2

LEMMA RedisWasSet ==
  ASSUME NEW E, NEW entries \in Seq(E), KeysOnce(entries), NEW key, NEW value, NEW expires,
         Entry(key, value, expires) \in E
  PROVE  LET new == RedisSet(entries, key, value, expires) IN
         new \in Seq(E) /\ KeysOnce(new) /\ OnlyFrom(new, entries, Entry(key, value, expires))
<1> DEFINE e == Entry(key, value, expires)
           rest == Delete(entries, key)
<1>1. rest \in Seq(E) /\ KeysOnce(rest) /\ \A n \in DOMAIN rest : rest[n].key # e.key /\ \E m \in DOMAIN entries : rest[n] = entries[m]
  BY Deleted DEF Entry
<1> HIDE DEF rest, e
<1>2. LET new == Append(rest, e) IN new \in Seq(E) /\ KeysOnce(new) /\ OnlyFrom(new, rest, e) BY <1>1, Added DEF e
<1> QED BY <1>1, <1>2 DEF RedisSet, OnlyFrom, rest, e

LEMMA RedisGot ==
  ASSUME NEW E, NEW entries \in Seq(E), KeysOnce(entries), NEW key, NEW t
  PROVE  LET new == RedisGet(entries, key, t) IN
         new \in Seq(E) /\ KeysOnce(new) /\ \A n \in DOMAIN new : \E m \in DOMAIN entries : new[n] = entries[m]
BY Deleted DEF RedisGet

(* ----------------------------- the invariant ----------------------------- *)

\* What is asked and where it stands, in the phases of a read and after it.
Basics(c, o) ==
  /\ o \in Calls
  /\ o.req \in work.requests[c] \cup {Read("none"), Fetch}
  /\ o.since \in 1 .. Latest
  /\ o.at \subseteq 0 .. Latest
  /\ o.req.kind # "cursor" => o.cursor = None
  /\ o.req.kind \in {"cursor", "list"} => o.offset = 0

Going(o) == o.req.kind = "chunk" /\ o.req.limit # None => Len(o.out) < o.req.limit

PhaseInv(o) ==
  /\ o.req.kind = "none" => o.phase = "done"
  /\ o.req.kind = "all" => o.phase \in {"count", "match", "done"}
  /\ o.req.kind = "fetch" => o.phase \in {"include", "done"}
  /\ o.phase = "match" => o.req.kind = "all"
  /\ o.phase = "count" => o.req.kind \in {"all", "paged"} /\ o.number = 1
  /\ o.phase \in {"get", "set"} => o.req.cached
  /\ o.phase = "include" => o.req.include
  /\ o.phase # "done" => Going(o) /\ (o.req.inTx => open # None)

\* The page a flow has read and not yet passed on.
Landing == {"include", "set"}
PageRead(o) ==
  /\ o.read \in o.at
  /\ o.read # 0 => PageOf(o.rows, log[o.read], o)
  /\ o.req.cached => o.late \/ o.old \/ o.read = 0 \/ o.read >= cleared[o.req.key]
LandInv(o) == o.phase \in Landing /\ o.req.kind # "fetch" => PageRead(o)

\* A list, and an entity with its children.
ListGot(o, rows) ==
  /\ o.req.inTx => o.at = {0}
  /\ Unwraps(o.req.primary) /\ ~o.req.include => ~o.old
  /\ ~o.old /\ ~o.req.inTx => o.read \in o.since .. Latest /\ PageOf(rows, log[o.read], o)
KidsAreTrue(o, rows) ==
  ~o.old /\ o.req.include => \A n \in DOMAIN rows : \E m \in o.since .. Latest : rows[n].kids = HasKids(log[m], rows[n].id)

ListInv(o) ==
  o.req.kind = "list" =>
    /\ o.phase \in {"get", "query"} => o.at = {} /\ ~o.old
    /\ o.phase # "done" => o.hit = {}
    /\ o.phase \in Landing => ListGot(o, o.rows)
    /\ o.phase = "set" => KidsAreTrue(o, o.rows) /\ KidsAsAsked(o.req, o.rows)
    /\ o.phase = "done" /\ o.hit = {} => ListGot(o, o.out) /\ KidsAreTrue(o, o.out)
    /\ \A h \in o.hit : FromTheCache(o, h) /\ h.v.at \in 0 .. Latest

FetchInv(o) ==
  o.req.kind = "fetch" =>
    /\ o.hit = {}
    /\ o.phase = "include" => ~o.old
    /\ o.phase = "done" => KidsAreTrue(o, o.out)

\* all(), between its two counts and after them.
Known(t) == \A i \in Present(t) : t[i].rank # None
AllInv(o) ==
  o.req.kind = "all" =>
    /\ o.phase = "count" => o.at = {} /\ o.ok
    /\ o.phase = "match" => \E x \in 0 .. Latest : /\ o.at = {x}
                                                   /\ ~o.req.inTx => x # 0 /\ o.total = Cardinality(Present(log[x]))
    /\ o.phase = "done" /\ ~o.req.inTx => \A x \in o.at : o.at = {x} => x # 0 /\ o.ok = Known(log[x])

\* Page by page.
Once(s, i) == \E n \in DOMAIN s : s[n].id = i /\ \A m \in DOMAIN s : s[m].id = i => m = n
Never(s, i) == \A n \in DOMAIN s : s[n].id # i

Decided(o) == OwnPages(o) /\ ~Ties(o) /\ ~Unkept(o)

\* By cursor: who stays was met or comes after the cursor.
CursorHas(o) ==
  \A i \in Throughout(o) : IF i \in After(log[Latest], o.cursor, o.req.total) THEN Never(o.out, i) ELSE Once(o.out, i)
CursorInv(o) ==
  o.req.kind = "cursor" /\ Decided(o) /\ FromItsStart(o) =>
    /\ o.phase # "done" => CursorHas(o)
    /\ o.phase = "done" => \A i \in Throughout(o) : Once(o.out, i)

\* By offset: what was met is the order of that state up to the offset.
Goes(o, s) == IF o.req.kind = "chunk" /\ o.req.limit # None THEN Min2(o.req.limit, Len(s)) ELSE Len(s)
Follows(out, s) == \A n \in DOMAIN out : n \in DOMAIN s /\ out[n].id = s[n]
OffsetHas(o) ==
  /\ o.req.kind = "paged" => \E q \in Nat : o.offset = q * Size
  /\ o.at = {} => o.out = <<>> /\ o.offset = 0
  /\ \A x \in o.at : o.at = {x} /\ x # 0 =>
       /\ o.req.kind # "paged" => Orders(log[x], Present(log[x]), o.req.total) # {}
       /\ \A s \in Orders(log[x], Present(log[x]), o.req.total) :
            Follows(o.out, s) /\ Len(o.out) = o.offset /\ Len(o.out) <= Goes(o, s)
PagedHas(o) ==
  o.req.kind = "paged" =>
    /\ o.at # {}
    /\ \A x \in o.at : o.at = {x} /\ x # 0 => o.total = Cardinality(Present(log[x]))
OffsetDone(o) ==
  \A x \in o.at : o.at = {x} /\ x # 0 =>
    /\ Orders(log[x], Present(log[x]), o.req.total) # {}
    /\ \A s \in Orders(log[x], Present(log[x]), o.req.total) : Follows(o.out, s) /\ Len(o.out) = Goes(o, s)
OffsetInv(o) ==
  o.req.kind \in {"chunk", "stream", "paged"} /\ Decided(o) =>
    /\ o.phase # "done" => OffsetHas(o) /\ (o.phase # "count" => PagedHas(o))
    /\ o.phase = "done" => OffsetDone(o)

FlowInv(c, o) ==
  Basics(c, o) /\ PhaseInv(o) /\ LandInv(o) /\ ListInv(o) /\ FetchInv(o) /\ AllInv(o) /\ CursorInv(o) /\ OffsetInv(o)

\* An entry of the cache is a page by its key, or by the request that gave the key.
Lasts == IF work.redis THEN RedisTtl(Ttl) ELSE Ttl
EntryInv(e) ==
  LET v == e.value key == e.key r == e.value.req IN
  /\ \E c \in Readers : r \in work.requests[c]
  /\ r.cached
  /\ key = IF r.key # None THEN <<r.key>> ELSE <<r.total, key[2], key[3], key[4]>>
  /\ v.edited => ~work.redis
  /\ ~v.edited /\ r.kind = "list" => KidsAsAsked(r, v.rows)
  /\ v.at \in 0 .. Latest
  /\ v.late \/ v.old \/ v.at = 0 \/ v.at >= cleared[r.key]
  /\ e.expires = v.when + Lasts
  /\ ~v.edited /\ v.at # 0 /\ r.key # None /\ r.kind = "list" => PageIs(v.rows, log[v.at], r.total, 0, r.limit, None)
  /\ ~v.edited /\ v.at # 0 /\ r.key = None => PageIs(v.rows, log[v.at], key[1], key[2], key[3], key[4])

CacheInv == KeysOnce(cache) /\ \A n \in DOMAIN cache : \A e \in {cache[n]} : EntryInv(e)

ReadsInv == TypeInv /\ CacheInv /\ \A c \in Readers : \A o \in {op[c]} : FlowInv(c, o)

(* --------------------- what the steps of others leave --------------------- *)

Grows == Latest' \in Nat /\ Latest <= Latest' /\ \A n \in 1 .. Latest : log'[n] = log[n]

LEMMA LatestIs == ASSUME TypeInv PROVE Latest \in Nat \ {0} /\ DOMAIN log = 1 .. Latest /\ \A n \in 1 .. Latest : log[n] \in Tables
<1>1. log \in Seq(Tables) /\ log # <<>> BY DEF TypeInv
<1>2. Len(log) \in Nat \ {0} BY <1>1, EmptySeq
<1> QED BY <1>1, <1>2 DEF Latest

LEMMA SameTypes == ASSUME work' = work PROVE Calls' = Calls /\ Entries' = Entries
<1>1. Asked' = Asked BY DEF Asked
<1>2. CacheKeys' = CacheKeys BY DEF CacheKeys
<1>3. Values' = Values BY DEF Values
<1>4. Hits' = Hits BY <1>3 DEF Hits
<1> QED BY <1>1, <1>2, <1>3, <1>4 DEF Calls, Entries

LEMMA KeptThroughout ==
  ASSUME TypeInv, NEW o, o.since \in 1 .. Latest, Grows
  PROVE  /\ Throughout(o)' \subseteq Throughout(o)
         /\ \A i \in Throughout(o)' : log'[Latest'][i] = log[Latest][i] /\ log[Latest][i] # None
<1>1. Latest \in Nat \ {0} /\ Latest' \in Nat /\ Latest <= Latest' /\ \A n \in 1 .. Latest : log'[n] = log[n]
  BY LatestIs DEF Grows
<1>2. ASSUME NEW i \in Throughout(o)'
      PROVE  i \in Throughout(o) /\ log'[Latest'][i] = log[Latest][i] /\ log[Latest][i] # None
  <2>1. PICK r : i \in Ids /\ r = log'[Latest'][i] /\ r # None /\ \A n \in o.since .. Latest' : log'[n][i] = r
    BY <1>2 DEF Throughout
  <2>2. \A n \in o.since .. Latest : n \in 1 .. Latest /\ n \in o.since .. Latest' BY <1>1
  <2>3. \A n \in o.since .. Latest : log[n][i] = r BY <1>1, <2>1, <2>2
  <2>4. Latest \in o.since .. Latest BY <1>1
  <2>5. log[Latest][i] = r BY <2>3, <2>4
  <2> QED BY <2>1, <2>3, <2>5 DEF Throughout
<1> QED BY <1>2

LEMMA KeptDecided ==
  ASSUME TypeInv, NEW o, Grows, work' = work, Decided(o)'
  PROVE  Decided(o)
<1>1. Latest \in Nat \ {0} /\ Latest' \in Nat /\ Latest <= Latest' /\ \A n \in 1 .. Latest : log'[n] = log[n]
  BY LatestIs DEF Grows
<1>2. \A n \in 1 .. Latest : n \in 1 .. Latest' BY <1>1
<1>3. ASSUME NEW n \in 1 .. Latest PROVE n \in 1 .. Latest' /\ log'[n] = log[n] BY <1>1, <1>2
<1>4. ~Unkept(o) BY <1>3 DEF Decided, Unkept, Present, Json
<1>5. ~Ties(o) BY <1>1, <1>2 DEF Decided, Ties
<1> QED BY <1>4, <1>5 DEF Decided, OwnPages

LEMMA KeptPages ==
  ASSUME TypeInv, NEW o, o.since \in 1 .. Latest, o.at \subseteq 0 .. Latest, Grows, work' = work,
         CursorInv(o), OffsetInv(o)
  PROVE  CursorInv(o)' /\ OffsetInv(o)'
<1>1. Latest \in Nat \ {0} /\ Latest' \in Nat /\ Latest <= Latest' /\ \A n \in 1 .. Latest : log'[n] = log[n]
  BY LatestIs DEF Grows
<1>2. CursorInv(o)'
  <2> SUFFICES ASSUME o.req.kind = "cursor", Decided(o)', FromItsStart(o)
               PROVE  /\ o.phase # "done" => CursorHas(o)'
                      /\ o.phase = "done" => \A i \in Throughout(o)' : Once(o.out, i)
    BY DEF CursorInv, FromItsStart, Once
  <2>1. Decided(o) BY KeptDecided
  <2>2. /\ Throughout(o)' \subseteq Throughout(o)
        /\ \A i \in Throughout(o)' : log'[Latest'][i] = log[Latest][i] /\ log[Latest][i] # None
    BY <1>1, KeptThroughout
  <2>3. ASSUME o.phase # "done" PROVE CursorHas(o)'
    <3>1. CursorHas(o) BY <2>1, <2>3 DEF CursorInv
    <3>2. ASSUME NEW i \in Throughout(o)'
          PROVE  IF i \in After(log'[Latest'], o.cursor, o.req.total) THEN Never(o.out, i) ELSE Once(o.out, i)
      <4>1. IF i \in After(log[Latest], o.cursor, o.req.total) THEN Never(o.out, i) ELSE Once(o.out, i)
        BY <3>1, <3>2, <2>2 DEF CursorHas
      <4>2. i \in After(log'[Latest'], o.cursor, o.req.total) <=> i \in After(log[Latest], o.cursor, o.req.total)
        BY <2>2, <3>2 DEF After, Present
      <4> QED BY <4>1, <4>2
    <3> QED BY <3>2 DEF CursorHas, Once, Never, After
  <2>4. ASSUME o.phase = "done" PROVE \A i \in Throughout(o)' : Once(o.out, i)
    BY <2>1, <2>2, <2>4 DEF CursorInv
  <2> QED BY <2>3, <2>4
<1>3. OffsetInv(o)'
  <2> SUFFICES ASSUME o.req.kind \in {"chunk", "stream", "paged"}, Decided(o)' PROVE OffsetInv(o)'
    BY DEF OffsetInv
  <2>1. Decided(o) BY KeptDecided
  <2>2. \A x \in o.at : x # 0 => log'[x] = log[x] BY <1>1
  <2>3. OffsetHas(o) => OffsetHas(o)' BY <2>2 DEF OffsetHas
  <2>4. PagedHas(o) => PagedHas(o)' BY <2>2 DEF PagedHas
  <2>5. OffsetDone(o) => OffsetDone(o)' BY <2>2 DEF OffsetDone
  <2> QED BY <2>1, <2>3, <2>4, <2>5 DEF OffsetInv
<1> QED BY <1>2, <1>3

LEMMA Kept ==
  ASSUME TypeInv, NEW c \in Readers, NEW o, FlowInv(c, o), Grows, UNCHANGED <<work, cleared>>,
         o.req.inTx /\ o.phase # "done" => open' # None
  PROVE  FlowInv(c, o)'
<1>1. Latest \in Nat \ {0} /\ Latest' \in Nat /\ Latest <= Latest' /\ \A n \in 1 .. Latest : log'[n] = log[n]
  BY LatestIs DEF Grows
<1>2. o.since \in 1 .. Latest /\ o.at \subseteq 0 .. Latest BY DEF FlowInv, Basics
<1>3. Basics(c, o)'
  <2>1. o.since \in 1 .. Latest' /\ o.at \subseteq 0 .. Latest' BY <1>1, <1>2
  <2> QED BY <2>1, SameTypes DEF FlowInv, Basics
<1>4. PhaseInv(o)' BY DEF FlowInv, PhaseInv, Going
<1>5. LandInv(o)'
  <2>1. o.read \in o.at /\ o.read # 0 => log'[o.read] = log[o.read] BY <1>1, <1>2
  <2> QED BY <2>1 DEF FlowInv, LandInv, PageRead
<1>6. ASSUME NEW rows PROVE (ListGot(o, rows) => ListGot(o, rows)') /\ (KidsAreTrue(o, rows) => KidsAreTrue(o, rows)')
  <2>1. \A n \in o.since .. Latest : n \in 1 .. Latest /\ n \in o.since .. Latest' BY <1>1, <1>2
  <2>2. ListGot(o, rows) => ListGot(o, rows)' BY <2>1, <1>1 DEF ListGot, Unwraps
  <2>3. KidsAreTrue(o, rows) => KidsAreTrue(o, rows)' BY <2>1, <1>1 DEF KidsAreTrue
  <2> QED BY <2>2, <2>3
<1>7. ListInv(o)'
  <2>1. ASSUME o.req.kind = "list", NEW h \in o.hit PROVE FromTheCache(o, h)' /\ h.v.at \in 0 .. Latest'
    <3>1. FromTheCache(o, h) /\ h.v.at \in 0 .. Latest BY <2>1 DEF FlowInv, ListInv
    <3>2. h.v.at # 0 => log'[h.v.at] = log[h.v.at] BY <3>1, <1>1
    <3> QED BY <3>1, <3>2, <1>1 DEF FromTheCache
  <2>2. (ListGot(o, o.rows) => ListGot(o, o.rows)') /\ (KidsAreTrue(o, o.rows) => KidsAreTrue(o, o.rows)') BY <1>6
  <2>3. (ListGot(o, o.out) => ListGot(o, o.out)') /\ (KidsAreTrue(o, o.out) => KidsAreTrue(o, o.out)') BY <1>6
  <2> QED BY <2>1, <2>2, <2>3 DEF FlowInv, ListInv
<1>8. FetchInv(o)' BY <1>6 DEF FlowInv, FetchInv
<1>9. AllInv(o)'
  <2>1. \A x \in 0 .. Latest : x \in 0 .. Latest' /\ (x # 0 => log'[x] = log[x]) BY <1>1
  <2>2. AllInv(o) BY DEF FlowInv
  <2>3. ASSUME o.req.kind = "all", o.phase = "match"
        PROVE  \E x \in 0 .. Latest' : o.at = {x} /\ (~o.req.inTx => x # 0 /\ o.total = Cardinality(Present(log'[x])))
    <3>1. PICK x \in 0 .. Latest : o.at = {x} /\ (~o.req.inTx => x # 0 /\ o.total = Cardinality(Present(log[x])))
      BY <2>2, <2>3 DEF AllInv
    <3>2. x \in 0 .. Latest' /\ (x # 0 => log'[x] = log[x]) BY <2>1
    <3> QED BY <3>1, <3>2
  <2>4. ASSUME o.req.kind = "all", o.phase = "done", ~o.req.inTx, NEW x \in o.at, o.at = {x}
        PROVE  x # 0 /\ o.ok = Known(log'[x])
    <3>1. x # 0 /\ o.ok = Known(log[x]) BY <2>2, <2>4 DEF AllInv
    <3>2. log'[x] = log[x] BY <2>1, <3>1, <1>2
    <3> QED BY <3>1, <3>2
  <2> QED BY <2>2, <2>3, <2>4 DEF AllInv
<1>10. CursorInv(o)' /\ OffsetInv(o)' BY <1>2, KeptPages DEF FlowInv
<1> QED BY <1>3, <1>4, <1>5, <1>7, <1>8, <1>9, <1>10 DEF FlowInv

LEMMA EntryKept ==
  ASSUME TypeInv, NEW e, EntryInv(e), Grows, UNCHANGED <<work, cleared>>
  PROVE  EntryInv(e)'
<1>1. Latest \in Nat \ {0} /\ Latest' \in Nat /\ Latest <= Latest' /\ \A n \in 1 .. Latest : log'[n] = log[n]
  BY LatestIs DEF Grows
<1>2. \A x \in 0 .. Latest : x \in 0 .. Latest' /\ (x # 0 => log'[x] = log[x]) BY <1>1
<1> QED BY <1>2 DEF EntryInv, Lasts

(* ------------------------------ arithmetic ------------------------------- *)

LEMMA ProductGrows == ASSUME NEW a \in Nat, NEW b \in Nat, NEW d \in Nat, a <= b PROVE a * d <= b * d
OBVIOUS

LEMMA PagesOf ==
  ASSUME NEW size \in Nat \ {0}, NEW total \in Nat, NEW q \in Nat
  PROVE  q + 1 < (total + size - 1) \div size <=> q * size + size < total
<1> DEFINE n == total + size - 1
           p == n \div size
<1>1. n \in Nat OBVIOUS
<1>2. p \in Nat /\ p * size <= n /\ n < (p + 1) * size BY <1>1
<1> HIDE DEF p
<1>3. (p + 1) * size = p * size + size /\ (q + 1) * size = q * size + size /\ (q + 2) * size = q * size + 2 * size
  BY <1>2
<1>4. ASSUME q + 1 < p PROVE q * size + size < total
  <2>1. (q + 2) * size <= p * size BY <1>2, <1>4, ProductGrows
  <2> QED BY <2>1, <1>2, <1>3
<1>5. ASSUME p <= q + 1 PROVE total <= q * size + size
  <2>1. p * size <= (q + 1) * size BY <1>2, <1>5, ProductGrows
  <2> QED BY <2>1, <1>2, <1>3
<1>6. q * size \in Nat OBVIOUS
<1> QED BY <1>2, <1>4, <1>5, <1>6 DEF p

LEMMA PageNumber == ASSUME NEW size \in Nat \ {0}, NEW q \in Nat PROVE (q * size) \div size = q /\ q * size + size = (q + 1) * size
OBVIOUS

LEMMA Least == ASSUME NEW T \in SUBSET Nat, T # {} PROVE \E x \in T : \A y \in T : x <= y
<1>1. PICK x \in T : \A y \in T : ~(<<y, x>> \in OpToRel(<, Nat)) BY NatLessThanWellFounded, WFMin
<1>2. ASSUME NEW y \in T PROVE x <= y
  <2>1. ~(y < x)
    <3> SUFFICES ASSUME y < x PROVE FALSE OBVIOUS
    <3>1. <<y, x>> \in Nat \X Nat /\ <<y, x>>[1] < <<y, x>>[2] OBVIOUS
    <3>2. <<y, x>> \in OpToRel(<, Nat) BY <3>1 DEF OpToRel
    <3> QED BY <3>2, <1>1
  <2> QED BY <2>1
<1> QED BY <1>2

(* ------------------------------- the pages ------------------------------- *)

\* An order that decides between any two rows is the only one.
LEMMA OneOrder ==
  ASSUME NEW t, NEW total, NEW P \in SUBSET Ids, NEW s \in Orders(t, P, total), NEW r \in Orders(t, P, total),
         \A i, j \in P : i # j => Before(t, i, j, total) \/ Before(t, j, i, total)
  PROVE  s = r
<1>1. /\ s \in Seq(P) /\ Len(s) \in Nat /\ Len(s) = Cardinality(P) /\ DOMAIN s = 1 .. Len(s)
      /\ \A n \in 1 .. Len(s) : s[n] \in P
      /\ \A m, n \in 1 .. Len(s) : s[m] = s[n] => m = n
      /\ \A i \in P : \E n \in 1 .. Len(s) : s[n] = i
      /\ \A m, n \in 1 .. Len(s) : m < n => ~Before(t, s[n], s[m], total)
  BY OrdersGoThrough
<1>2. /\ r \in Seq(P) /\ Len(r) = Len(s)
      /\ \A n \in 1 .. Len(s) : r[n] \in P
      /\ \A m, n \in 1 .. Len(s) : r[m] = r[n] => m = n
      /\ \A i \in P : \E n \in 1 .. Len(s) : r[n] = i
      /\ \A m, n \in 1 .. Len(s) : m < n => ~Before(t, r[n], r[m], total)
  <2>1. Len(r) = Cardinality(P) BY OrdersGoThrough
  <2>2. Len(r) = Len(s) BY <2>1, <1>1
  <2>3. r \in Seq(P) BY OrdersGoThrough
  <2>4. \A n \in 1 .. Len(r) : r[n] \in P BY OrdersGoThrough
  <2>5. \A m, n \in 1 .. Len(r) : r[m] = r[n] => m = n BY OrdersGoThrough
  <2>6. \A i \in P : \E n \in 1 .. Len(r) : r[n] = i BY OrdersGoThrough
  <2>7. \A m, n \in 1 .. Len(r) : m < n => ~Before(t, r[n], r[m], total) BY OrdersGoThrough
  <2>8. \A n \in 1 .. Len(s) : r[n] \in P BY <2>2, <2>4
  <2>9. \A m, n \in 1 .. Len(s) : r[m] = r[n] => m = n BY <2>2, <2>5, Zenon
  <2>10. \A i \in P : \E n \in 1 .. Len(s) : r[n] = i BY <2>2, <2>6, Zenon
  <2>11. \A m, n \in 1 .. Len(s) : m < n => ~Before(t, r[n], r[m], total) BY <2>2, <2>7, Zenon
  <2> QED BY <2>2, <2>3, <2>8, <2>9, <2>10, <2>11, Zenon
<1> DEFINE T == {n \in 1 .. Len(s) : s[n] # r[n]}
<1>3. ASSUME T # {} PROVE FALSE
  <2>1. PICK n \in T : \A m \in T : n <= m
    <3>1. T \in SUBSET Nat OBVIOUS
    <3> HIDE DEF T
    <3> QED BY <1>3, <3>1, Least
  <2>2. n \in 1 .. Len(s) /\ s[n] # r[n] /\ \A m \in 1 .. Len(s) : m < n => s[m] = r[m]
    <3>1. ASSUME NEW m \in 1 .. Len(s), m < n PROVE s[m] = r[m]
      <4>1. ~(n <= m) BY <3>1, <1>1
      <4> QED BY <4>1, <2>1
    <3> QED BY <3>1
  <2>3. PICK m \in 1 .. Len(s) : r[m] = s[n] BY <1>1, <1>2, <2>2
  <2>4. PICK k \in 1 .. Len(s) : s[k] = r[n] BY <1>1, <1>2, <2>2
  <2>5. n < m
    <3>1. m # n BY <2>2, <2>3
    <3>2. ~(m < n) BY <2>2, <2>3, <1>1
    <3> QED BY <3>1, <3>2, <1>1
  <2>6. n < k
    <3>1. k # n BY <2>2, <2>4
    <3>2. ~(k < n) BY <2>2, <2>4, <1>2
    <3> QED BY <3>1, <3>2, <1>1
  <2>7. ~Before(t, r[m], r[n], total) /\ ~Before(t, s[k], s[n], total) BY <1>1, <1>2, <2>2, <2>5, <2>6
  <2>8. s[n] \in P /\ r[n] \in P BY <1>1, <1>2, <2>2
  <2> QED BY <2>2, <2>3, <2>4, <2>7, <2>8
<1>4. \A n \in 1 .. Len(s) : s[n] = r[n] BY <1>3
<1> QED BY <1>1, <1>2, <1>4, SeqEqual

\* Which decides: the primary key, or that there are no ties.
LEMMA DecidesBetween ==
  ASSUME TypeInv, NEW o \in Calls, Decided(o), NEW x \in 1 .. Latest, NEW i \in Present(log[x]), NEW j \in Present(log[x]), i # j
  PROVE  Before(log[x], i, j, o.req.total) \/ Before(log[x], j, i, o.req.total)
<1> DEFINE t == log[x]
<1>1. t \in Tables BY LatestIs
<1>2. i \in Ids /\ j \in Ids /\ t[i] # None /\ t[j] # None BY DEF Present
<1>3. t[i] \in Stored /\ t[j] \in Stored BY <1>1, <1>2 DEF Tables
<1>4. Rank(t, i) \in Nat /\ Rank(t, j) \in Nat BY <1>3 DEF Stored, Rank
<1>5. i \in Int /\ j \in Int BY <1>2, Constants
<1>6. CASE Rank(t, i) # Rank(t, j) BY <1>4, <1>6 DEF Before
<1>7. CASE Rank(t, i) = Rank(t, j)
  <2>1. o.req.total BY <1>7 DEF Decided, Ties, Unkept, OwnPages
  <2> QED BY <2>1, <1>5, <1>7 DEF Before
<1> QED BY <1>6, <1>7

\* y is x but for its phase.
Again(x, y) ==
  /\ y.req = x.req /\ y.offset = x.offset /\ y.number = x.number /\ y.cursor = x.cursor /\ y.total = x.total
  /\ y.rows = x.rows /\ y.out = x.out /\ y.since = x.since /\ y.at = x.at /\ y.read = x.read /\ y.old = x.old
  /\ y.hit = x.hit /\ y.late = x.late /\ y.spoilt = x.spoilt /\ y.ok = x.ok

LEMMA PhaseIsSet ==
  ASSUME NEW x \in Calls, NEW p \in Active \cup {"done"}
  PROVE  LET y == [x EXCEPT !.phase = p] IN y \in Calls /\ Again(x, y) /\ y.phase = p
BY DEF Calls, Again

LEMMA SameAgain ==
  ASSUME NEW x, NEW y, Again(x, y)
  PROVE  /\ Take(y) = Take(x) /\ Going(y) = Going(x) /\ Decided(y) = Decided(x) /\ FromItsStart(y) = FromItsStart(x)
         /\ \A rows : ListGot(x, rows) => ListGot(y, rows)
         /\ \A rows : KidsAreTrue(x, rows) => KidsAreTrue(y, rows)
         /\ Throughout(y) = Throughout(x)
         /\ \A s : Goes(y, s) = Goes(x, s)
         /\ CursorHas(x) => CursorHas(y)
         /\ OffsetHas(x) => OffsetHas(y)
         /\ PagedHas(x) => PagedHas(y)
<1>1. Take(y) = Take(x) /\ Going(y) = Going(x) /\ Decided(y) = Decided(x) /\ FromItsStart(y) = FromItsStart(x)
  BY DEF Again, Take, Limited, Going, Decided, Ties, Unkept, OwnPages, FromItsStart
<1>2. \A rows : ListGot(x, rows) => ListGot(y, rows) BY <1>1 DEF Again, ListGot, PageOf
<1>3. \A rows : KidsAreTrue(x, rows) => KidsAreTrue(y, rows) BY DEF Again, KidsAreTrue
<1>4. Throughout(y) = Throughout(x) BY DEF Again, Throughout
<1>5. \A s : Goes(y, s) = Goes(x, s) BY DEF Again, Goes
<1>6. CursorHas(x) => CursorHas(y) BY <1>4 DEF Again, CursorHas
<1>7. OffsetHas(x) => OffsetHas(y) BY <1>5 DEF Again, OffsetHas
<1>8. PagedHas(x) => PagedHas(y) BY DEF Again, PagedHas
<1> QED BY <1>1, <1>2, <1>3, <1>4, <1>5, <1>6, <1>7, <1>8

LEMMA BasicsAgain == ASSUME NEW c, NEW x, NEW y \in Calls, Again(x, y), Basics(c, x) PROVE Basics(c, y)
BY DEF Again, Basics

LEMMA OutHas ==
  ASSUME NEW o \in Calls PROVE /\ o.out \in Seq(Got) /\ Len(o.out) \in Nat /\ DOMAIN o.out = 1 .. Len(o.out)
                               /\ o.rows \in Seq(Got) /\ Len(o.rows) \in Nat /\ DOMAIN o.rows = 1 .. Len(o.rows)
                               /\ \A n \in 1 .. Len(o.out) : o.out[n] \in Got
                               /\ \A n \in 1 .. Len(o.rows) : o.rows[n] \in Got
<1>1. o.out \in Seq(Got) /\ o.rows \in Seq(Got) BY DEF Calls
<1> QED BY <1>1

LEMMA ReqHas ==
  ASSUME TypeInv, NEW c \in Readers, NEW o, Basics(c, o)
  PROVE  /\ o.req \in Asked /\ o.req.limit \in Ranks /\ o.req.key \in {None} \cup work.keys
         /\ o.req.cached \in BOOLEAN /\ o.req.include \in BOOLEAN /\ o.req.primary \in BOOLEAN
         /\ o.req.inTx \in BOOLEAN /\ o.req.total \in BOOLEAN
         /\ o.req.kind \notin {"none", "fetch"} => o.req \in work.requests[c]
         /\ o.req.kind \in Kinds \cup {"none", "fetch"}
         /\ o.req.kind = "fetch" => o.req = Fetch
<1>1. o \in Calls BY DEF Basics
<1>2. o.req \in Asked BY <1>1 DEF Calls
<1>3. o.req \in work.requests[c] \cup {Read("none"), Fetch} BY DEF Basics
<1>4. Read("none").kind = "none" /\ Fetch.kind = "fetch" /\ Read("none").limit = None /\ Fetch.limit = None
      /\ Read("none").key = None /\ Fetch.key = None
      /\ Read("none").cached = FALSE /\ Fetch.cached = FALSE /\ Read("none").include = FALSE /\ Fetch.include = TRUE
      /\ Read("none").primary = FALSE /\ Fetch.primary = FALSE /\ Read("none").inTx = FALSE /\ Fetch.inTx = FALSE
      /\ Read("none").total = TRUE /\ Fetch.total = TRUE
  BY DEF Read, Fetch, Include
<1>5. work \in Workloads BY DEF TypeInv
<1>6. work.requests[c] \subseteq Request(work.keys) BY <1>5, WorkloadsAssumption
<1>7. CASE o.req \in work.requests[c] BY <1>2, <1>6, <1>7 DEF Request, Ranks, Kinds
<1>8. CASE o.req = Read("none") BY <1>2, <1>4, <1>8 DEF Ranks
<1>9. CASE o.req = Fetch BY <1>2, <1>4, <1>9 DEF Ranks
<1> QED BY <1>3, <1>7, <1>8, <1>9

LEMMA TakeHas ==
  ASSUME TypeInv, NEW c \in Readers, NEW o, Basics(c, o), Going(o)
  PROVE  /\ Take(o) \in Ranks
         /\ o.req.kind # "list" => Take(o) \in Nat \ {0} /\ Take(o) # None
         /\ o.req.kind \in {"stream", "paged"} => Take(o) = Size
         /\ o.req.kind = "cursor" => Take(o) = Size + 1
         /\ o.req.kind = "list" => Take(o) = o.req.limit
         /\ o.req.kind = "chunk" => Take(o) = Limited(o) /\ (o.req.limit # None => Take(o) <= o.req.limit - Len(o.out))
<1>1. o \in Calls BY DEF Basics
<1>2. Len(o.out) \in Nat BY <1>1, OutHas
<1>3. o.req.limit \in Ranks BY ReqHas
<1>4. o.req.kind = "chunk" => Limited(o) \in Nat \ {0} /\ (o.req.limit # None => Limited(o) <= o.req.limit - Len(o.out))
  BY <1>2, <1>3, Constants DEF Limited, Going, Min2, Ranks
<1> QED BY <1>3, <1>4, Constants DEF Take, Ranks

Pagers == {"chunk", "stream", "paged"}

\* What the next page, or the first, begins from.
LEMMA Restarts ==
  ASSUME TypeInv, NEW c \in Readers, NEW x, Basics(c, x), x.req.kind \in Kinds,
         x.req.inTx => open # None,
         x.req.kind = "list" => x.at = {} /\ ~x.old /\ x.hit = {},
         x.req.kind = "all" => x.at = {} /\ x.ok /\ x.number = 1,
         x.req.kind = "cursor" /\ Decided(x) /\ FromItsStart(x) => CursorHas(x),
         x.req.kind \in Pagers /\ Decided(x) => OffsetHas(x) /\ (x.number # 1 => PagedHas(x))
  PROVE  Basics(c, Restart(x)) /\ FlowInv(c, Restart(x))
<1> DEFINE p == IF x.req.kind = "chunk" /\ Limited(x) <= 0 THEN "done"
                ELSE IF Counting(x) THEN "count" ELSE IF x.req.cached THEN "get" ELSE "query"
           y == Restart(x)
<1>0. x \in Calls BY DEF Basics
<1>1. y = [x EXCEPT !.phase = p] BY DEF Restart
<1>2. p \in Active \cup {"done"} BY DEF Active
<1> HIDE DEF p
<1>3. y \in Calls /\ Again(x, y) /\ y.phase = p BY <1>0, <1>1, <1>2, PhaseIsSet
<1> HIDE DEF y
<1>4. Basics(c, y) BY <1>3, BasicsAgain
<1>5. y.req = x.req /\ y.out = x.out /\ y.at = x.at /\ y.number = x.number /\ y.ok = x.ok /\ y.old = x.old /\ y.hit = x.hit
  BY <1>3 DEF Again
<1>6. Len(x.out) \in Nat /\ x.req.limit \in Ranks BY <1>0, OutHas, ReqHas
<1>7. p # "done" => Going(y)
  <2>1. x.req.kind = "chunk" /\ x.req.limit # None /\ p # "done" => Len(x.out) < x.req.limit
    BY <1>6, Constants DEF p, Limited, Min2, Ranks
  <2> QED BY <2>1, <1>5 DEF Going
<1>8. p = "done" => x.req.kind = "chunk" /\ x.req.limit # None /\ x.req.limit <= Len(x.out)
  BY <1>6, Constants DEF p, Limited, Min2, Ranks, Counting
<1>9. PhaseInv(y)
  BY <1>3, <1>5, <1>7, <1>8 DEF PhaseInv, p, Counting, Kinds
<1>10. LandInv(y) BY <1>2, <1>3 DEF LandInv, Landing, p
<1>11. ListInv(y) BY <1>3, <1>5, <1>8 DEF ListInv, Landing, p
<1>12. FetchInv(y) BY <1>5 DEF FetchInv, Kinds
<1>13. AllInv(y) BY <1>3, <1>5, <1>8 DEF AllInv, p, Counting
<1>14. CursorInv(y)
  <2>1. (CursorHas(x) => CursorHas(y)) /\ Decided(y) = Decided(x) /\ FromItsStart(y) = FromItsStart(x) BY <1>3, SameAgain
  <2> QED BY <2>1, <1>3, <1>5, <1>8 DEF CursorInv
<1>15. OffsetInv(y)
  <2> SUFFICES ASSUME x.req.kind \in Pagers, Decided(y) PROVE OffsetInv(y)
    BY <1>5 DEF OffsetInv, Pagers
  <2>1. /\ OffsetHas(x) => OffsetHas(y)
        /\ PagedHas(x) => PagedHas(y)
        /\ Decided(x)
    BY <1>3, SameAgain
  <2>2. OffsetHas(y) BY <2>1
  <2>3. p \notin {"count", "done"} => PagedHas(y)
    <3>1. CASE x.req.kind = "paged" BY <3>1, <2>1 DEF p, Counting
    <3>2. CASE x.req.kind # "paged" BY <3>2, <1>5 DEF PagedHas
    <3> QED BY <3>1, <3>2
  <2>4. ASSUME p = "done", NEW z \in y.at, y.at = {z}, z # 0,
               NEW s \in Orders(log[z], Present(log[z]), y.req.total)
        PROVE  Follows(y.out, s) /\ Len(y.out) = Goes(y, s)
    <3>1. Follows(y.out, s) /\ Len(y.out) <= Goes(y, s) BY <2>2, <2>4 DEF OffsetHas
    <3>2. Len(s) \in Nat BY PresentAre, OrdersGoThrough
    <3>3. x.req.kind = "chunk" /\ x.req.limit # None /\ x.req.limit <= Len(x.out) BY <2>4, <1>8
    <3>4. Goes(y, s) \in Nat /\ Goes(y, s) <= Len(y.out) BY <3>2, <3>3, <1>5, <1>6 DEF Goes, Min2, Ranks
    <3> QED BY <3>1, <3>4, <1>5, <1>6
  <2>5. p = "done" => OffsetDone(y)
    <3>1. p = "done" => y.req.kind # "paged" BY <1>5, <1>8
    <3> QED BY <2>2, <2>4, <3>1 DEF OffsetHas, OffsetDone
  <2> QED BY <2>2, <2>3, <2>5, <1>3 DEF OffsetInv
<1> QED BY <1>4, <1>9, <1>10, <1>11, <1>12, <1>13, <1>14, <1>15 DEF FlowInv, y

\* A flow that has the rows of its page, of a state it says it read.
Brought(c, o) ==
  /\ Basics(c, o) /\ Going(o)
  /\ o.req.kind \in Kinds \cup {"fetch"} /\ o.req.kind # "all"
  /\ o.req.inTx => open # None
  /\ o.req.kind = "list" =>
       /\ o.hit = {} => ListGot(o, o.rows) /\ KidsAreTrue(o, o.rows)
       /\ \A h \in o.hit : FromTheCache(o, h) /\ h.v.at \in 0 .. Latest
  /\ o.req.kind = "fetch" => o.hit = {} /\ KidsAreTrue(o, o.rows)
  /\ o.req.kind \in Paging /\ Decided(o) => \E x \in o.at : x # 0 => PageOf(o.rows, log[x], o)
  /\ o.req.kind = "cursor" /\ Decided(o) /\ FromItsStart(o) => CursorHas(o)
  /\ o.req.kind \in Pagers /\ Decided(o) => OffsetHas(o) /\ PagedHas(o)

\* The answer of a list, whoever gave it.
LEMMA ListArrives ==
  ASSUME TypeInv, NEW c \in Readers, NEW o, Brought(c, o), o.req.kind \in {"list", "fetch"}
  PROVE  FlowInv(c, Arrived(o))
<1> DEFINE x == [o EXCEPT !.out = o.rows, !.ok = ~(o.req.limit = 2 /\ Len(o.rows) > 1)]
           y == Arrived(o)
<1>0. o \in Calls /\ Basics(c, o) BY DEF Brought, Basics
<1>1. y = [x EXCEPT !.phase = "done"] BY DEF Brought, Arrived, PastList, Done, Paging, Kinds
<1>2. x \in Calls /\ x.out = o.rows /\ x.req = o.req /\ x.since = o.since /\ x.at = o.at /\ x.cursor = o.cursor
      /\ x.offset = o.offset /\ x.read = o.read /\ x.old = o.old /\ x.hit = o.hit
  BY <1>0 DEF Calls
<1> HIDE DEF x
<1>3. y \in Calls /\ Again(x, y) /\ y.phase = "done" BY <1>1, <1>2, PhaseIsSet DEF Active
<1> HIDE DEF y
<1>4. /\ y.out = o.rows /\ y.req = o.req /\ y.since = o.since /\ y.at = o.at /\ y.cursor = o.cursor
      /\ y.offset = o.offset /\ y.read = o.read /\ y.old = o.old /\ y.hit = o.hit
  BY <1>2, <1>3 DEF Again
<1>5. Basics(c, y) BY <1>0, <1>3, <1>4 DEF Basics
<1>6. PhaseInv(y) /\ LandInv(y) /\ AllInv(y) /\ CursorInv(y) /\ OffsetInv(y)
  BY <1>3, <1>4 DEF PhaseInv, LandInv, Landing, AllInv, CursorInv, OffsetInv
<1>7. FetchInv(y) BY <1>3, <1>4 DEF Brought, FetchInv, KidsAreTrue
<1>8. ListInv(y)
  <2> SUFFICES ASSUME o.req.kind = "list" PROVE ListInv(y) BY <1>4 DEF ListInv
  <2>1. Take(y) = Take(o) BY <1>4 DEF Take
  <2>2. ListGot(o, o.rows) => ListGot(y, y.out) BY <1>4, <2>1 DEF ListGot, PageOf
  <2>3. KidsAreTrue(o, o.rows) => KidsAreTrue(y, y.out) BY <1>4 DEF KidsAreTrue
  <2>4. \A h : FromTheCache(o, h) => FromTheCache(y, h) BY <1>4, <2>1 DEF FromTheCache, IsPageOf
  <2> QED BY <1>3, <1>4, <2>2, <2>3, <2>4 DEF Brought, ListInv, Landing
<1> QED BY <1>5, <1>6, <1>7, <1>8 DEF FlowInv, y

LEMMA Concatenated ==
  ASSUME NEW a \in Seq(Got), NEW b \in Seq(Got)
  PROVE  /\ a \o b \in Seq(Got) /\ Len(a \o b) = Len(a) + Len(b) /\ DOMAIN (a \o b) = 1 .. Len(a) + Len(b)
         /\ \A n \in 1 .. Len(a) + Len(b) : (a \o b)[n] = IF n <= Len(a) THEN a[n] ELSE b[n - Len(a)]
<1>1. /\ a \o b \in Seq(Got) /\ Len(a \o b) = Len(a) + Len(b)
      /\ \A n \in 1 .. Len(a) + Len(b) : (a \o b)[n] = IF n <= Len(a) THEN a[n] ELSE b[n - Len(a)]
  BY ConcatProperties
<1>2. DOMAIN (a \o b) = 1 .. Len(a \o b) BY <1>1, LenProperties
<1> QED BY <1>1, <1>2

\* The page read by offset continues the one order of its state.
LEMMA PageContinues ==
  ASSUME TypeInv, NEW c \in Readers, NEW o, Brought(c, o), o.req.kind \in Pagers, Decided(o),
         NEW z \in o.at, o.at = {z}, z # 0,
         NEW s \in Orders(log[z], Present(log[z]), o.req.total)
  PROVE  /\ Follows(o.out, s) /\ Len(o.out) = o.offset /\ Len(o.out) <= Goes(o, s)
         /\ Len(s) \in Nat /\ o.offset <= Len(s) /\ Len(s) = Cardinality(Present(log[z]))
         /\ Len(o.rows) = Min2(Len(s) - o.offset, Take(o))
         /\ Follows(o.out \o o.rows, s) /\ Len(o.out \o o.rows) = o.offset + Len(o.rows)
<1>0. o \in Calls /\ Basics(c, o) /\ Going(o) BY DEF Brought, Basics
<1>1. z \in 1 .. Latest BY <1>0 DEF Basics
<1>2. Follows(o.out, s) /\ Len(o.out) = o.offset /\ Len(o.out) <= Goes(o, s) BY DEF Brought, OffsetHas
<1>3. PageOf(o.rows, log[z], o) BY DEF Brought, Paging, Pagers
<1>4. o.cursor = None /\ After(log[z], o.cursor, o.req.total) = Present(log[z]) BY <1>0 DEF Basics, After, Pagers
<1>5. Take(o) \in Nat \ {0} /\ Take(o) \in Ranks /\ Take(o) # None BY <1>0, TakeHas DEF Pagers
<1>6. o.offset \in Nat /\ o.rows \in Seq(Got) BY <1>0 DEF Calls
<1>7. PICK r \in Orders(log[z], Present(log[z]), o.req.total) : PageHas(o.rows, log[z], r, o.offset, Take(o))
  BY <1>3, <1>4, <1>5, <1>6, PageIsSo DEF PageOf
<1>8. r = s
  <2>1. \A i, j \in Present(log[z]) : i # j => Before(log[z], i, j, o.req.total) \/ Before(log[z], j, i, o.req.total)
    BY <1>0, <1>1, DecidesBetween
  <2> QED BY <2>1, PresentAre, OneOrder
<1>9. Len(s) \in Nat /\ Len(s) = Cardinality(Present(log[z])) /\ DOMAIN s = 1 .. Len(s) BY PresentAre, OrdersGoThrough
<1>10. Len(o.out) \in Nat /\ DOMAIN o.out = 1 .. Len(o.out) /\ o.out \in Seq(Got) BY <1>0, OutHas
<1>11. o.offset <= Len(s)
  <2>1. CASE o.offset = 0 BY <2>1, <1>9
  <2>2. CASE o.offset # 0
    <3>1. o.offset \in DOMAIN o.out BY <2>2, <1>2, <1>6, <1>10
    <3>2. o.offset \in DOMAIN s BY <3>1, <1>2 DEF Follows
    <3> QED BY <3>2, <1>9
  <2> QED BY <2>1, <2>2
<1>12. Much(s, o.offset, Take(o)) = Min2(Len(s) - o.offset, Take(o)) BY <1>5, <1>6, <1>9, <1>11 DEF Much, Min2
<1>13. /\ Len(o.rows) = Min2(Len(s) - o.offset, Take(o)) /\ Len(o.rows) \in Nat
       /\ \A n \in 1 .. Len(o.rows) : o.offset + n \in 1 .. Len(s) /\ o.rows[n].id = s[o.offset + n]
  BY <1>7, <1>8, <1>12 DEF PageHas
<1>14. /\ o.out \o o.rows \in Seq(Got) /\ Len(o.out \o o.rows) = Len(o.out) + Len(o.rows)
       /\ \A n \in 1 .. Len(o.out) + Len(o.rows) :
            (o.out \o o.rows)[n] = IF n <= Len(o.out) THEN o.out[n] ELSE o.rows[n - Len(o.out)]
  BY <1>6, <1>10, Concatenated
<1> DEFINE all == o.out \o o.rows
<1>15. DOMAIN all = 1 .. o.offset + Len(o.rows)
  <2>1. DOMAIN all = 1 .. Len(all) BY <1>14
  <2> QED BY <2>1, <1>14, <1>2
<1> HIDE DEF all
<1>16. ASSUME NEW n \in DOMAIN all PROVE n \in DOMAIN s /\ all[n].id = s[n]
  <2>1. CASE n <= Len(o.out)
    <3>1. n \in DOMAIN o.out BY <2>1, <1>15, <1>10
    <3>2. all[n] = o.out[n] BY <2>1, <1>2, <1>14, <1>15 DEF all
    <3> QED BY <3>1, <3>2, <1>2 DEF Follows
  <2>2. CASE ~(n <= Len(o.out))
    <3>1. n - o.offset \in 1 .. Len(o.rows) BY <2>2, <1>15, <1>2, <1>6, <1>13
    <3>2. all[n] = o.rows[n - o.offset] BY <2>2, <1>2, <1>14, <1>15 DEF all
    <3>3. o.offset + (n - o.offset) = n BY <1>15, <1>6, <1>13
    <3> QED BY <3>1, <3>2, <3>3, <1>13, <1>9
  <2> QED BY <2>1, <2>2
<1>17. Follows(all, s) BY <1>16 DEF Follows
<1> QED BY <1>2, <1>9, <1>11, <1>13, <1>14, <1>17 DEF all

\* A flow that ends.
LEMMA Ends ==
  ASSUME TypeInv, NEW c \in Readers, NEW x, Basics(c, x), x.req.kind \in Paging,
         x.req.kind = "cursor" /\ Decided(x) /\ FromItsStart(x) => \A i \in Throughout(x) : Once(x.out, i),
         x.req.kind \in Pagers /\ Decided(x) => OffsetDone(x)
  PROVE  FlowInv(c, Done(x))
<1> DEFINE y == Done(x)
<1>0. x \in Calls BY DEF Basics
<1>1. y \in Calls /\ Again(x, y) /\ y.phase = "done" BY <1>0, PhaseIsSet DEF Done, Active
<1> HIDE DEF y
<1>2. Basics(c, y) BY <1>1, BasicsAgain
<1>3. y.req = x.req /\ y.out = x.out /\ y.at = x.at BY <1>1 DEF Again
<1>4. PhaseInv(y) /\ LandInv(y) /\ AllInv(y) /\ ListInv(y) /\ FetchInv(y)
  BY <1>1, <1>3 DEF PhaseInv, LandInv, Landing, AllInv, ListInv, FetchInv, Paging
<1>5. Decided(y) = Decided(x) /\ FromItsStart(y) = FromItsStart(x) /\ Throughout(y) = Throughout(x) /\ \A s : Goes(y, s) = Goes(x, s)
  BY <1>1, SameAgain
<1>6. CursorInv(y) BY <1>1, <1>3, <1>5 DEF CursorInv
<1>7. OffsetDone(x) => OffsetDone(y) BY <1>3, <1>5 DEF OffsetDone
<1>8. OffsetInv(y) BY <1>1, <1>3, <1>5, <1>7 DEF OffsetInv, Pagers
<1> QED BY <1>2, <1>4, <1>6, <1>8 DEF FlowInv, y

LEMMA PageHasOrder ==
  ASSUME TypeInv, NEW c \in Readers, NEW o, Brought(c, o), o.req.kind \in Pagers, Decided(o),
         NEW z \in o.at, o.at = {z}, z # 0
  PROVE  Orders(log[z], Present(log[z]), o.req.total) # {}
<1>1. PageOf(o.rows, log[z], o) BY DEF Brought, Paging, Pagers
<1>2. o.cursor = None BY DEF Brought, Basics, Pagers
<1> QED BY <1>1, <1>2 DEF PageOf, PageIs, After

LEMMA BatchArrives ==
  ASSUME TypeInv, NEW c \in Readers, NEW o, Brought(c, o), o.req.kind \in {"chunk", "stream"}
  PROVE  FlowInv(c, Arrived(o))
<1> DEFINE next == [o EXCEPT !.out = @ \o o.rows, !.offset = @ + Take(o)]
           z == [o EXCEPT !.out = o.out \o o.rows, !.offset = o.offset + Take(o), !.number = o.number]
<1>0. o \in Calls /\ Basics(c, o) /\ Going(o) BY DEF Brought, Basics
<1>1. Arrived(o) = IF Len(o.rows) < Take(o) THEN Done(next) ELSE Restart(next) BY DEF Arrived, PastBatch
<1>2. Take(o) \in Nat \ {0} BY <1>0, TakeHas
<1>3. o.out \o o.rows \in Seq(Got) /\ Len(o.rows) \in Nat /\ Len(o.out) \in Nat BY <1>0, OutHas, Concatenated
<1>4. next = z BY <1>0 DEF Calls
<1>5. o.offset + Take(o) \in Nat /\ o.offset \in Nat /\ o.number \in {1, 2} BY <1>0, <1>2 DEF Calls
<1>6. /\ next \in Calls /\ next.out = o.out \o o.rows /\ next.offset = o.offset + Take(o)
      /\ next.req = o.req /\ next.since = o.since /\ next.at = o.at /\ next.cursor = o.cursor /\ next.total = o.total /\ next.spoilt = o.spoilt
  <2> DEFINE out == o.out \o o.rows
             offset == o.offset + Take(o)
  <2>1. out \in Seq(Got) /\ offset \in Nat BY <1>3, <1>5
  <2>2. next = [o EXCEPT !.out = out, !.offset = offset, !.number = o.number] BY <1>4
  <2> HIDE DEF out, offset, next
  <2>3. /\ next \in Calls /\ next.out = out /\ next.offset = offset /\ next.number = o.number
        /\ next.req = o.req /\ next.since = o.since /\ next.at = o.at /\ next.cursor = o.cursor /\ next.total = o.total /\ next.spoilt = o.spoilt
    BY <1>0, <1>5, <2>1, <2>2 DEF Calls
  <2> QED BY <2>3 DEF out, offset
<1> HIDE DEF next
<1>7. Basics(c, next) BY <1>0, <1>6 DEF Basics
<1>8. Decided(next) = Decided(o) BY <1>6 DEF Decided, Ties, Unkept, OwnPages
<1>9. \A s : Goes(next, s) = Goes(o, s) BY <1>6 DEF Goes
<1>10. o.req.limit \in Ranks BY <1>0, ReqHas
<1>11. ASSUME Decided(o), NEW w \in o.at, o.at = {w}, w # 0,
              NEW s \in Orders(log[w], Present(log[w]), o.req.total)
       PROVE  /\ Follows(next.out, s)
              /\ Len(o.rows) < Take(o) => Len(next.out) = Goes(next, s)
              /\ ~(Len(o.rows) < Take(o)) => Len(next.out) = next.offset /\ Len(next.out) <= Goes(next, s)
  <2>1. /\ Len(o.out) = o.offset /\ Len(o.out) <= Goes(o, s) /\ Len(s) \in Nat /\ o.offset <= Len(s)
        /\ Len(o.rows) = Min2(Len(s) - o.offset, Take(o))
        /\ Follows(o.out \o o.rows, s) /\ Len(o.out \o o.rows) = o.offset + Len(o.rows)
    BY <1>11, PageContinues DEF Pagers
  <2>2. o.req.kind = "chunk" /\ o.req.limit # None => Take(o) <= o.req.limit - o.offset BY <1>0, <2>1, TakeHas
  <2>3. Goes(next, s) = IF o.req.kind = "chunk" /\ o.req.limit # None THEN Min2(o.req.limit, Len(s)) ELSE Len(s)
    BY <1>6 DEF Goes
  <2>4. ASSUME Len(o.rows) < Take(o) PROVE Len(next.out) = Goes(next, s)
    <3>1. Len(o.rows) = Len(s) - o.offset BY <2>1, <2>4, <1>2, <1>3 DEF Min2
    <3>2. Len(next.out) = Len(s)
      <4>1. Len(next.out) = o.offset + Len(o.rows) BY <2>1, <1>6
      <4> QED BY <4>1, <3>1, <2>1, <1>5
    <3>3. o.req.kind = "chunk" /\ o.req.limit # None => Min2(o.req.limit, Len(s)) = Len(s)
      BY <2>1, <2>2, <2>4, <3>1, <1>2, <1>3, <1>10 DEF Min2, Ranks
    <3> QED BY <3>2, <3>3, <2>3
  <2>5. ASSUME ~(Len(o.rows) < Take(o)) PROVE Len(next.out) = next.offset /\ Len(next.out) <= Goes(next, s)
    <3>1. Len(o.rows) = Take(o) /\ o.offset + Take(o) <= Len(s) BY <2>1, <2>5, <1>2, <1>3 DEF Min2
    <3>2. Len(next.out) = o.offset + Take(o) BY <3>1, <2>1, <1>6
    <3>3. o.req.kind = "chunk" /\ o.req.limit # None => o.offset + Take(o) <= Min2(o.req.limit, Len(s))
      BY <2>1, <2>2, <3>1, <1>2, <1>3, <1>10 DEF Min2, Ranks
    <3> QED BY <3>1, <3>2, <3>3, <2>3, <1>6
  <2> QED BY <2>1, <2>4, <2>5, <1>6
<1>12. Decided(o) => \E x \in o.at : TRUE BY DEF Brought, Paging
<1>13. CASE Len(o.rows) < Take(o)
  <2>1. FlowInv(c, Done(next))
    <3>1. next.req.kind \in Paging /\ next.req.kind # "cursor" BY <1>6 DEF Paging
    <3>2. Decided(next) => OffsetDone(next)
      <4>1. Decided(o) => \A w \in o.at : o.at = {w} /\ w # 0 => Orders(log[w], Present(log[w]), o.req.total) # {}
        BY PageHasOrder DEF Pagers
      <4> QED BY <4>1, <1>6, <1>8, <1>11, <1>13 DEF OffsetDone
    <3> QED BY <3>1, <3>2, <1>7, Ends
  <2> QED BY <2>1, <1>1, <1>13
<1>14. CASE ~(Len(o.rows) < Take(o))
  <2>1. Decided(next) => OffsetHas(next)
    <3>1. Decided(o) => \A w \in o.at : o.at = {w} /\ w # 0 => Orders(log[w], Present(log[w]), o.req.total) # {}
      BY PageHasOrder DEF Pagers
    <3> QED BY <3>1, <1>6, <1>8, <1>11, <1>12, <1>14 DEF OffsetHas
  <2>2. PagedHas(next) BY <1>6 DEF PagedHas
  <2>3. next.req.inTx => open # None BY <1>6 DEF Brought
  <2>4. Basics(c, Restart(next)) /\ FlowInv(c, Restart(next))
    <3>1. next.req.kind \in Kinds /\ next.req.kind \notin {"list", "all", "cursor"} BY <1>6 DEF Kinds
    <3> QED BY <3>1, <2>1, <2>2, <2>3, <1>7, Restarts
  <2> QED BY <2>4, <1>1, <1>14
<1> QED BY <1>13, <1>14

LEMMA PageArrives ==
  ASSUME TypeInv, NEW c \in Readers, NEW o, Brought(c, o), o.req.kind = "paged"
  PROVE  FlowInv(c, Arrived(o))
<1> DEFINE next == [o EXCEPT !.out = @ \o o.rows, !.offset = @ + Size, !.number = 1]
           z == [o EXCEPT !.out = o.out \o o.rows, !.offset = o.offset + Size, !.number = 1]
           goesOn == o.offset \div Size + 1 < (o.total + Size - 1) \div Size
<1>0. o \in Calls /\ Basics(c, o) /\ Going(o) BY DEF Brought, Basics
<1>1. Arrived(o) = IF goesOn THEN Restart(next) ELSE Done(next) BY DEF Brought, Arrived, PastPage
<1>2. Take(o) = Size /\ Size \in Nat \ {0} BY <1>0, TakeHas, Constants
<1>3. o.out \o o.rows \in Seq(Got) /\ Len(o.rows) \in Nat /\ Len(o.out) \in Nat BY <1>0, OutHas, Concatenated
<1>4. next = z BY <1>0 DEF Calls
<1>5. o.offset + Size \in Nat /\ o.offset \in Nat /\ o.total \in Nat BY <1>0, <1>2 DEF Calls
<1>6. /\ next \in Calls /\ next.out = o.out \o o.rows /\ next.offset = o.offset + Size /\ next.number = 1
      /\ next.req = o.req /\ next.since = o.since /\ next.at = o.at /\ next.cursor = o.cursor /\ next.total = o.total /\ next.spoilt = o.spoilt
  <2> DEFINE out == o.out \o o.rows
             offset == o.offset + Size
  <2>1. out \in Seq(Got) /\ offset \in Nat BY <1>3, <1>5
  <2>2. next = [o EXCEPT !.out = out, !.offset = offset, !.number = 1] BY <1>4
  <2> HIDE DEF out, offset, next
  <2>3. /\ next \in Calls /\ next.out = out /\ next.offset = offset /\ next.number = 1
        /\ next.req = o.req /\ next.since = o.since /\ next.at = o.at /\ next.cursor = o.cursor /\ next.total = o.total /\ next.spoilt = o.spoilt
    BY <1>0, <1>5, <2>1, <2>2 DEF Calls
  <2> QED BY <2>3 DEF out, offset
<1> HIDE DEF next
<1>7. Basics(c, next) BY <1>0, <1>6 DEF Basics
<1>8. Decided(next) = Decided(o) BY <1>6 DEF Decided, Ties, Unkept, OwnPages
<1>9. ASSUME Decided(o) PROVE \E q \in Nat : o.offset = q * Size /\ next.offset = (q + 1) * Size
                                             /\ (goesOn <=> q * Size + Size < o.total)
  <2>1. PICK q \in Nat : o.offset = q * Size BY <1>9 DEF Brought, OffsetHas, Pagers
  <2>2. o.offset \div Size = q /\ q * Size + Size = (q + 1) * Size BY <2>1, <1>2, PageNumber
  <2>3. q + 1 < (o.total + Size - 1) \div Size <=> q * Size + Size < o.total BY <1>2, <1>5, PagesOf
  <2> QED BY <2>1, <2>2, <2>3, <1>6
<1>10. ASSUME Decided(o), NEW w \in o.at, o.at = {w}, w # 0,
              NEW s \in Orders(log[w], Present(log[w]), o.req.total)
       PROVE  /\ Follows(next.out, s)
              /\ ~goesOn => Len(next.out) = Goes(next, s)
              /\ goesOn => Len(next.out) = next.offset /\ Len(next.out) <= Goes(next, s)
  <2>1. /\ Len(o.out) = o.offset /\ Len(s) \in Nat /\ o.offset <= Len(s) /\ Len(s) = Cardinality(Present(log[w]))
        /\ Len(o.rows) = Min2(Len(s) - o.offset, Size)
        /\ Follows(o.out \o o.rows, s) /\ Len(o.out \o o.rows) = o.offset + Len(o.rows)
    BY <1>10, <1>2, PageContinues DEF Pagers
  <2>2. o.total = Len(s) BY <2>1, <1>10 DEF Brought, PagedHas, Pagers
  <2>3. goesOn <=> o.offset + Size < Len(s) BY <1>9, <1>10, <2>2
  <2>4. Goes(next, s) = Len(s) BY <1>6 DEF Goes
  <2>5. Len(next.out) = o.offset + Len(o.rows) BY <2>1, <1>6
  <2>6. ~goesOn => Len(o.rows) = Len(s) - o.offset
    <3> HIDE DEF goesOn
    <3> QED BY <2>1, <2>3, <1>2, <1>5 DEF Min2
  <2>7. goesOn => Len(o.rows) = Size /\ o.offset + Size <= Len(s)
    <3> HIDE DEF goesOn
    <3> QED BY <2>1, <2>3, <1>2, <1>5 DEF Min2
  <2> HIDE DEF goesOn
  <2>8. ~goesOn => Len(next.out) = Len(s) BY <2>1, <2>5, <2>6, <1>3, <1>5
  <2>9. goesOn => Len(next.out) = next.offset /\ Len(next.out) <= Len(s) BY <2>5, <2>7, <1>6
  <2> QED BY <2>1, <2>4, <2>8, <2>9, <1>6
<1> HIDE DEF goesOn
<1>11. Decided(o) => \E x \in o.at : TRUE BY DEF Brought, Paging
<1>12. CASE ~goesOn
  <2>1. next.req.kind \in Paging /\ next.req.kind # "cursor" BY <1>6 DEF Brought, Paging
  <2>2. Decided(next) => OffsetDone(next)
    <3>1. Decided(o) => \A w \in o.at : o.at = {w} /\ w # 0 => Orders(log[w], Present(log[w]), o.req.total) # {}
      BY PageHasOrder DEF Pagers
    <3> QED BY <3>1, <1>6, <1>8, <1>10, <1>12 DEF OffsetDone
  <2>3. FlowInv(c, Done(next)) BY <2>1, <2>2, <1>7, Ends
  <2> QED BY <2>3, <1>1, <1>12
<1>13. CASE goesOn
  <2>1. ASSUME Decided(next) PROVE OffsetHas(next)
    <3>1. Decided(o) BY <1>8, <2>1
    <3>2. next.at # {} BY <3>1, <1>6, <1>11
    <3>3. \E q \in Nat : next.offset = q * Size
      <4>1. PICK q \in Nat : next.offset = (q + 1) * Size BY <3>1, <1>9
      <4>2. q + 1 \in Nat OBVIOUS
      <4> QED BY <4>1, <4>2
    <3>4. \A w \in next.at : next.at = {w} /\ w # 0 =>
            \A s \in Orders(log[w], Present(log[w]), next.req.total) :
              Follows(next.out, s) /\ Len(next.out) = next.offset /\ Len(next.out) <= Goes(next, s)
      BY <3>1, <1>6, <1>10, <1>13
    <3>5. next.req.kind = "paged" BY <1>6
    <3> QED BY <3>2, <3>3, <3>4, <3>5 DEF OffsetHas
  <2>2. next.req.inTx => open # None BY <1>6 DEF Brought
  <2>3. next.req.kind \in Kinds /\ next.req.kind \notin {"list", "all", "cursor"} BY <1>6 DEF Kinds
  <2>4. FlowInv(c, Restart(next)) BY <2>1, <2>2, <2>3, <1>6, <1>7, Restarts
  <2> QED BY <2>4, <1>1, <1>13
<1> QED BY <1>12, <1>13

\* What passing on distinct rows does to who was met.
LEMMA MetWith ==
  ASSUME NEW a \in Seq(Got), NEW b \in Seq(Got), NEW i
  PROVE  /\ Once(a, i) /\ Never(b, i) => Once(a \o b, i)
         /\ Never(a, i) /\ Once(b, i) => Once(a \o b, i)
         /\ Never(a, i) /\ Never(b, i) => Never(a \o b, i)
<1> DEFINE d == a \o b
<1>1. /\ DOMAIN d = 1 .. Len(a) + Len(b)
      /\ \A n \in 1 .. Len(a) + Len(b) : d[n] = IF n <= Len(a) THEN a[n] ELSE b[n - Len(a)]
  BY Concatenated
<1>2. Len(a) \in Nat /\ DOMAIN a = 1 .. Len(a) /\ Len(b) \in Nat /\ DOMAIN b = 1 .. Len(b) OBVIOUS
<1> HIDE DEF d
<1>3. \A n \in DOMAIN a : n \in DOMAIN d /\ d[n] = a[n] BY <1>1, <1>2
<1>4. \A n \in DOMAIN b : Len(a) + n \in DOMAIN d /\ d[Len(a) + n] = b[n]
  <2> TAKE n \in DOMAIN b
  <2>1. Len(a) + n \in 1 .. Len(a) + Len(b) /\ ~(Len(a) + n <= Len(a)) /\ Len(a) + n - Len(a) = n BY <1>2
  <2> QED BY <2>1, <1>1
<1>5. \A n \in DOMAIN d : \/ n \in DOMAIN a /\ d[n] = a[n]
                          \/ n - Len(a) \in DOMAIN b /\ d[n] = b[n - Len(a)] /\ n = Len(a) + (n - Len(a))
  <2> TAKE n \in DOMAIN d
  <2>1. n \in 1 .. Len(a) + Len(b) BY <1>1
  <2>2. CASE n <= Len(a) BY <2>1, <2>2, <1>1, <1>2
  <2>3. CASE ~(n <= Len(a)) BY <2>1, <2>3, <1>1, <1>2
  <2> QED BY <2>2, <2>3
<1>6. ASSUME Once(a, i), Never(b, i) PROVE Once(d, i)
  <2>1. PICK n \in DOMAIN a : a[n].id = i /\ \A m \in DOMAIN a : a[m].id = i => m = n BY <1>6 DEF Once
  <2>2. \A m \in DOMAIN b : b[m].id # i BY <1>6 DEF Never
  <2>3. n \in DOMAIN d /\ d[n].id = i BY <2>1, <1>3
  <2>4. \A m \in DOMAIN d : d[m].id = i => m = n BY <2>1, <2>2, <1>5
  <2> QED BY <2>3, <2>4 DEF Once
<1>7. ASSUME Never(a, i), Once(b, i) PROVE Once(d, i)
  <2>1. PICK n \in DOMAIN b : b[n].id = i /\ \A m \in DOMAIN b : b[m].id = i => m = n BY <1>7 DEF Once
  <2>2. \A m \in DOMAIN a : a[m].id # i BY <1>7 DEF Never
  <2>3. Len(a) + n \in DOMAIN d /\ d[Len(a) + n].id = i BY <2>1, <1>4
  <2>4. \A m \in DOMAIN d : d[m].id = i => m = Len(a) + n BY <2>1, <2>2, <1>5
  <2> QED BY <2>3, <2>4 DEF Once
<1>8. ASSUME Never(a, i), Never(b, i) PROVE Never(d, i) BY <1>5, <1>8 DEF Never
<1> QED BY <1>6, <1>7, <1>8 DEF d

\* items, k of them, begin the rows after the cursor of a state since the read began.
BeginsPage(o, k, items) ==
  /\ items \in Seq(Got) /\ k \in Nat /\ k <= Size /\ k <= Len(o.rows) /\ Len(items) = k /\ DOMAIN items = 1 .. k
  /\ \A n \in 1 .. k : items[n] = o.rows[n]
  /\ Decided(o) /\ FromItsStart(o) =>
       \E x \in o.since .. Latest : \E s \in Orders(log[x], After(log[x], o.cursor, o.req.total), o.req.total) :
         /\ k <= Len(s) /\ (Len(o.rows) <= Size => k = Len(s))
         /\ \A n \in 1 .. k : items[n].id = s[n] /\ items[n].rank = log[x][s[n]].rank

\* The page read by cursor, of a state since the read began: its items are the
\* first of those after the cursor.
LEMMA CursorPage ==
  ASSUME TypeInv, NEW c \in Readers, NEW o, Brought(c, o), o.req.kind = "cursor",
         NEW k, k = Min2(Size, Len(o.rows)), NEW items, items = SubSeq(o.rows, 1, k)
  PROVE  BeginsPage(o, k, items)
<1>0. o \in Calls /\ Basics(c, o) /\ Going(o) BY DEF Brought, Basics
<1>1. o.rows \in Seq(Got) /\ Len(o.rows) \in Nat /\ \A n \in 1 .. Len(o.rows) : o.rows[n] \in Got BY <1>0, OutHas
<1>2. k \in Nat /\ k <= Size /\ k <= Len(o.rows) BY <1>1, Constants DEF Min2
<1>3. \A n \in 1 .. k : o.rows[n] \in Got BY <1>1, <1>2
<1>4. /\ items \in Seq(Got) /\ Len(items) = (IF 1 <= k THEN k - 1 + 1 ELSE 0)
      /\ \A n \in 1 .. k - 1 + 1 : items[n] = o.rows[1 + n - 1]
  <2>1. 1 \in Int /\ k \in Int BY <1>2
  <2> QED BY <1>3, <2>1, SubSeqProperties
<1>5. Len(items) = k /\ DOMAIN items = 1 .. k
  <2>1. Len(items) = k BY <1>2, <1>4
  <2> QED BY <2>1, <1>4
<1>6. \A n \in 1 .. k : items[n] = o.rows[n]
  <2> TAKE n \in 1 .. k
  <2>1. n \in 1 .. k - 1 + 1 /\ 1 + n - 1 = n BY <1>2
  <2> QED BY <2>1, <1>4
<1>7. ASSUME Decided(o), FromItsStart(o)
      PROVE  \E x \in o.since .. Latest : \E s \in Orders(log[x], After(log[x], o.cursor, o.req.total), o.req.total) :
                /\ k <= Len(s) /\ (Len(o.rows) <= Size => k = Len(s))
                /\ \A n \in 1 .. k : items[n].id = s[n] /\ items[n].rank = log[x][s[n]].rank
  <2>1. PICK x \in o.at : x # 0 => PageOf(o.rows, log[x], o) BY <1>7 DEF Brought, Paging
  <2>2. x \in 0 .. Latest /\ o.since \in 1 .. Latest /\ x \notin 0 .. o.since - 1 BY <1>0, <1>7 DEF Basics, FromItsStart
  <2>3. x \in o.since .. Latest /\ x # 0 BY <2>2, LatestIs
  <2>4. o.offset = 0 /\ o.offset \in Nat BY <1>0 DEF Basics
  <2>5. Take(o) = Size + 1 /\ Take(o) \in Ranks /\ Take(o) # None /\ Take(o) \in Nat BY <1>0, TakeHas
  <2>6. PICK s \in Orders(log[x], After(log[x], o.cursor, o.req.total), o.req.total) :
               PageHas(o.rows, log[x], s, o.offset, Take(o))
    BY <2>1, <2>3, <2>4, <2>5, <1>1, PageIsSo DEF PageOf
  <2>7. Len(s) \in Nat BY AfterAre, OrdersGoThrough
  <2>8. Much(s, o.offset, Take(o)) = Min2(Len(s), Size + 1) BY <2>4, <2>5, <2>7, Constants DEF Much, Min2
  <2>9. /\ Len(o.rows) = Min2(Len(s), Size + 1)
        /\ \A n \in 1 .. Len(o.rows) : o.rows[n].id = s[0 + n] /\ o.rows[n].rank = log[x][s[0 + n]].rank
    BY <2>4, <2>6, <2>8 DEF PageHas
  <2>10. k <= Len(s) /\ (Len(o.rows) <= Size => k = Len(s)) BY <2>7, <2>9, Constants DEF Min2
  <2>11. ASSUME NEW n \in 1 .. k PROVE items[n].id = s[n] /\ items[n].rank = log[x][s[n]].rank
    <3>1. n \in 1 .. Len(o.rows) /\ 0 + n = n BY <1>1, <1>2
    <3> QED BY <3>1, <2>9, <1>6
  <2> QED BY <2>3, <2>10, <2>11
<1> QED BY <1>2, <1>4, <1>5, <1>6, <1>7 DEF BeginsPage

LEMMA StaysSo ==
  ASSUME TypeInv, NEW o, o.since \in 1 .. Latest, NEW x \in o.since .. Latest, NEW i \in Throughout(o)
  PROVE  i \in Ids /\ x \in 1 .. Latest /\ log[x][i] = log[Latest][i] /\ log[x][i] # None /\ i \in Present(log[x])
<1>1. PICK r : i \in Ids /\ r = log[Latest][i] /\ r # None /\ \A n \in o.since .. Latest : log[n][i] = r BY DEF Throughout
<1>2. x \in 1 .. Latest BY LatestIs
<1> QED BY <1>1, <1>2 DEF Present

\* Who comes after the next cursor: the rest of the page's order.
LEMMA NextCursor ==
  ASSUME TypeInv, NEW c \in Readers, NEW o, Basics(c, o), o.req.kind = "cursor", Decided(o), NEW x \in o.since .. Latest,
         NEW s \in Orders(log[x], After(log[x], o.cursor, o.req.total), o.req.total),
         NEW i \in Throughout(o)
  PROVE  /\ i \in After(log[Latest], o.cursor, o.req.total) <=> \E n \in 1 .. Len(s) : s[n] = i
         /\ \A k \in 1 .. Len(s) :
              i \in After(log[Latest], [rank |-> log[x][s[k]].rank, id |-> s[k]], o.req.total)
                <=> \E n \in 1 .. Len(s) : n > k /\ s[n] = i
<1> DEFINE t == log[x]
           A == After(t, o.cursor, o.req.total)
<1>1. i \in Ids /\ x \in 1 .. Latest /\ t[i] = log[Latest][i] /\ t[i] # None /\ i \in Present(t)
  BY StaysSo DEF Basics
<1>2. /\ Len(s) \in Nat
      /\ \A n \in 1 .. Len(s) : s[n] \in A
      /\ \A m, n \in 1 .. Len(s) : s[m] = s[n] => m = n
      /\ \A j \in A : \E n \in 1 .. Len(s) : s[n] = j
      /\ \A m, n \in 1 .. Len(s) : m < n => ~Before(t, s[n], s[m], o.req.total)
  BY AfterAre, OrdersGoThrough
<1>3. i \in After(log[Latest], o.cursor, o.req.total) <=> i \in A BY <1>1 DEF After, Present
<1>4. i \in A <=> \E n \in 1 .. Len(s) : s[n] = i BY <1>2
<1>5. t \in Tables /\ t[i].rank \in Nat /\ Rank(t, i) = t[i].rank
  <2>1. t \in Tables BY <1>1, LatestIs
  <2>2. t[i].rank # None BY <1>1 DEF Decided, Ties, Unkept, OwnPages
  <2> QED BY <2>1, <2>2, <1>1 DEF Tables, Stored, Rank
<1>6. ASSUME NEW k \in 1 .. Len(s)
      PROVE  i \in After(log[Latest], [rank |-> t[s[k]].rank, id |-> s[k]], o.req.total)
               <=> \E n \in 1 .. Len(s) : n > k /\ s[n] = i
  <2> DEFINE j == s[k]
             B == After(log[Latest], [rank |-> t[j].rank, id |-> j], o.req.total)
  <2>1. j \in A BY <1>2
  <2>2. j \in Ids /\ j \in Present(t) /\ t[j] # None BY <2>1, AfterAre DEF Present
  <2>3. t[j].rank # None BY <1>1, <2>2 DEF Decided, Ties, Unkept, OwnPages
  <2>4. t[j].rank \in Nat /\ Rank(t, j) = t[j].rank BY <1>5, <2>2, <2>3 DEF Tables, Stored, Rank
  <2>5. i \in Int /\ j \in Int BY <1>1, <2>2, Constants
  <2>6. i \in B <=> t[i].rank > t[j].rank \/ (o.req.total /\ t[i].rank = t[j].rank /\ i > j)
    <3>1. [rank |-> t[j].rank, id |-> j] # None
      <4>1. [rank |-> t[j].rank, id |-> j] \in [rank : Ranks, id : Ids] BY <2>2, <2>4 DEF Ranks
      <4> QED BY <4>1, Constants
    <3>2. i \in Present(log[Latest]) BY <1>1 DEF Present
    <3>3. log[Latest][i].rank = t[i].rank /\ t[i].rank # None BY <1>1, <1>5, Constants
    <3> DEFINE cursor == [rank |-> t[j].rank, id |-> j]
    <3>4. cursor # None /\ cursor.rank = t[j].rank /\ cursor.rank # None /\ cursor.id = j BY <3>1, <2>3
    <3> HIDE DEF cursor, j, t
    <3>5. i \in After(log[Latest], cursor, o.req.total)
            <=> \/ log[Latest][i].rank > cursor.rank
                \/ o.req.total /\ log[Latest][i].rank = cursor.rank /\ i > cursor.id
      BY <3>2, <3>3, <3>4 DEF After
    <3> QED BY <3>3, <3>4, <3>5 DEF cursor
  <2>7. i \in B <=> Before(t, j, i, o.req.total) BY <1>5, <2>4, <2>5, <2>6 DEF Before
  <2> HIDE DEF B, j
  <2>8. ASSUME i \in B PROVE \E n \in 1 .. Len(s) : n > k /\ s[n] = i
    <3>1. i \in A
      <4>1. CASE o.cursor = None BY <4>1, <1>1 DEF After
      <4>2. CASE o.cursor # None
        <5>1. /\ t[j].rank # None /\ o.cursor.rank # None
              /\ t[j].rank > o.cursor.rank \/ (o.req.total /\ t[j].rank = o.cursor.rank /\ j > o.cursor.id)
          BY <2>1, <4>2 DEF After
        <5>2. o.cursor.rank \in Nat /\ o.cursor.id \in Int
          <6>1. o.cursor \in [rank : Ranks, id : Ids] BY <4>2 DEF Basics, Calls, Cursors
          <6> QED BY <6>1, <5>1, Constants DEF Ranks
        <5>3. t[i].rank > o.cursor.rank \/ (o.req.total /\ t[i].rank = o.cursor.rank /\ i > o.cursor.id)
          BY <5>1, <5>2, <2>4, <2>5, <2>6, <2>8, <1>5
        <5>4. t[i].rank # None BY <1>5, Constants
        <5> QED BY <5>1, <5>3, <5>4, <4>2, <1>1 DEF After
      <4> QED BY <4>1, <4>2
    <3>2. PICK n \in 1 .. Len(s) : s[n] = i BY <3>1, <1>4
    <3>3. ~(n < k) BY <3>2, <1>2, <2>7, <2>8 DEF j
    <3>4. n # k
      <4>1. i # j BY <2>6, <2>8, <1>5, <2>4, <2>5
      <4> QED BY <4>1, <3>2 DEF j
    <3>5. n > k BY <3>3, <3>4, <1>2
    <3> QED BY <3>2, <3>5
  <2>9. ASSUME NEW n \in 1 .. Len(s), n > k, s[n] = i PROVE i \in B
    <3>1. ~Before(t, i, j, o.req.total) BY <2>9, <1>2 DEF j
    <3>2. i # j
      <4>1. n # k BY <2>9
      <4> QED BY <4>1, <2>9, <1>2 DEF j
    <3>3. Before(t, i, j, o.req.total) \/ Before(t, j, i, o.req.total)
      <4>1. o \in Calls BY DEF Basics
      <4> QED BY <4>1, <3>2, <1>1, <2>2, DecidesBetween
    <3> QED BY <3>1, <3>3, <2>7
  <2> QED BY <2>8, <2>9 DEF B, j
<1> QED BY <1>3, <1>4, <1>6

LEMMA JsonIs == ASSUME TypeInv, NEW rank \in Ranks PROVE Json(rank) \in Ranks
<1>1. work.grain \in Nat \ {0} BY WorkloadsAssumption DEF TypeInv
<1>2. CASE rank = None BY <1>2 DEF Json, Ranks
<1>3. CASE rank # None
  <2>1. rank \in Nat /\ rank \div work.grain \in Nat BY <1>1, <1>3 DEF Ranks
  <2>2. (rank \div work.grain) * work.grain \in Nat BY <2>1, <1>1
  <2> QED BY <2>2, <1>3 DEF Json, Ranks
<1> QED BY <1>2, <1>3

LEMMA CursorArrives ==
  ASSUME TypeInv, NEW c \in Readers, NEW o, Brought(c, o), o.req.kind = "cursor"
  PROVE  FlowInv(c, Arrived(o))
<1> DEFINE k == Min2(Size, Len(o.rows))
           items == SubSeq(o.rows, 1, k)
           next == [o EXCEPT !.out = @ \o items]
           cursor == [rank |-> Json(CursorOf(o, items).rank), id |-> CursorOf(o, items).id]
           goes == [next EXCEPT !.cursor = cursor]
<1>0. o \in Calls /\ Basics(c, o) /\ Going(o) BY DEF Brought, Basics
<1>1. Arrived(o) = IF Len(o.rows) > Size THEN Restart(goes) ELSE Done(next) BY DEF Arrived, PastCursor
<1>2. /\ items \in Seq(Got) /\ k \in Nat /\ k <= Size /\ k <= Len(o.rows) /\ Len(items) = k /\ DOMAIN items = 1 .. k
      /\ \A n \in 1 .. k : items[n] = o.rows[n]
      /\ Decided(o) /\ FromItsStart(o) =>
              \E x \in o.since .. Latest : \E s \in Orders(log[x], After(log[x], o.cursor, o.req.total), o.req.total) :
                /\ k <= Len(s) /\ (Len(o.rows) <= Size => k = Len(s))
                /\ \A n \in 1 .. k : items[n].id = s[n] /\ items[n].rank = log[x][s[n]].rank
  <2>1. k = Min2(Size, Len(o.rows)) /\ items = SubSeq(o.rows, 1, k) OBVIOUS
  <2> HIDE DEF k, items
  <2>2. BeginsPage(o, k, items) BY <2>1, CursorPage
  <2> QED BY <2>2 DEF BeginsPage
<1>3. Len(o.rows) > Size => k = Size /\ k \in 1 .. k BY <1>0, OutHas, Constants DEF Min2
<1> HIDE DEF k, items
<1>4. o.out \in Seq(Got) /\ o.out \o items \in Seq(Got) BY <1>0, <1>2, OutHas, Concatenated
<1>5. /\ next \in Calls /\ next.out = o.out \o items /\ next.offset = o.offset
      /\ next.req = o.req /\ next.since = o.since /\ next.at = o.at /\ next.cursor = o.cursor /\ next.spoilt = o.spoilt
  <2> DEFINE out == o.out \o items
  <2>1. out \in Seq(Got) BY <1>4
  <2>2. next = [o EXCEPT !.out = out] BY <1>0 DEF Calls
  <2> HIDE DEF out, next
  <2>3. /\ next \in Calls /\ next.out = out /\ next.offset = o.offset
        /\ next.req = o.req /\ next.since = o.since /\ next.at = o.at /\ next.cursor = o.cursor /\ next.spoilt = o.spoilt
    BY <1>0, <2>1, <2>2 DEF Calls
  <2> QED BY <2>3 DEF out
<1> HIDE DEF next
<1>6. Basics(c, next) BY <1>0, <1>5 DEF Basics
<1>7. Decided(next) = Decided(o) /\ FromItsStart(next) = FromItsStart(o) /\ Throughout(next) = Throughout(o)
  BY <1>5 DEF Decided, Ties, Unkept, OwnPages, FromItsStart, Throughout
<1>8. ASSUME Decided(o), FromItsStart(o), NEW i \in Throughout(o)
      PROVE  /\ Len(o.rows) <= Size => Once(next.out, i)
             /\ Len(o.rows) > Size => IF i \in After(log[Latest], cursor, o.req.total) THEN Never(next.out, i) ELSE Once(next.out, i)
  <2>1. PICK x \in o.since .. Latest, s \in Seq(Ids) :
                /\ s \in Orders(log[x], After(log[x], o.cursor, o.req.total), o.req.total)
                /\ k <= Len(s) /\ (Len(o.rows) <= Size => k = Len(s))
                /\ \A n \in 1 .. k : items[n].id = s[n] /\ items[n].rank = log[x][s[n]].rank
    <3>1. PICK x \in o.since .. Latest : \E s \in Orders(log[x], After(log[x], o.cursor, o.req.total), o.req.total) :
                /\ k <= Len(s) /\ (Len(o.rows) <= Size => k = Len(s))
                /\ \A n \in 1 .. k : items[n].id = s[n] /\ items[n].rank = log[x][s[n]].rank
      BY <1>2, <1>8
    <3>2. PICK s \in Orders(log[x], After(log[x], o.cursor, o.req.total), o.req.total) :
                /\ k <= Len(s) /\ (Len(o.rows) <= Size => k = Len(s))
                /\ \A n \in 1 .. k : items[n].id = s[n] /\ items[n].rank = log[x][s[n]].rank
      BY <3>1
    <3>3. s \in Seq(Ids)
      <4>1. s \in Seq(After(log[x], o.cursor, o.req.total)) BY AfterAre, OrdersGoThrough
      <4> QED BY <4>1, AfterAre, SeqMonotonic
    <3> QED BY <3>2, <3>3
  <2>2. Len(s) \in Nat /\ \A m, n \in 1 .. Len(s) : s[m] = s[n] => m = n BY <2>1, AfterAre, OrdersGoThrough
  <2>3. IF i \in After(log[Latest], o.cursor, o.req.total) THEN Never(o.out, i) ELSE Once(o.out, i)
    BY <1>8 DEF Brought, CursorHas
  <2>4. /\ i \in After(log[Latest], o.cursor, o.req.total) <=> \E n \in 1 .. Len(s) : s[n] = i
        /\ \A n \in 1 .. Len(s) :
              i \in After(log[Latest], [rank |-> log[x][s[n]].rank, id |-> s[n]], o.req.total)
                <=> \E m \in 1 .. Len(s) : m > n /\ s[m] = i
    BY <1>0, <1>8, <2>1, NextCursor
  <2>4a. \A n \in 1 .. Len(s) : Json(log[x][s[n]].rank) = log[x][s[n]].rank
    <3>1. \A n \in 1 .. Len(s) : s[n] \in After(log[x], o.cursor, o.req.total) BY <2>1, AfterAre, OrdersGoThrough
    <3>2. \A n \in 1 .. Len(s) : s[n] \in Present(log[x]) BY <3>1, AfterAre
    <3>3. x \in 1 .. Latest BY <1>0 DEF Basics
    <3>4. \A j \in Present(log[x]) : Json(log[x][j].rank) = log[x][j].rank BY <3>3, <1>8 DEF Decided, Unkept, Brought
    <3> QED BY <3>2, <3>4
  <2>5. \A n \in 1 .. k : n \in 1 .. Len(s) BY <1>2, <2>1, <2>2
  <2>6. CASE ~ \E n \in 1 .. Len(s) : s[n] = i
    <3>1. Once(o.out, i) BY <2>3, <2>4, <2>6
    <3>2. Never(items, i) BY <2>1, <2>5, <2>6, <1>2 DEF Never
    <3>3. Once(next.out, i) BY <3>1, <3>2, <1>2, <1>4, <1>5, MetWith
    <3>4. Len(o.rows) > Size => i \notin After(log[Latest], cursor, o.req.total)
      <4> SUFFICES ASSUME Len(o.rows) > Size PROVE i \notin After(log[Latest], cursor, o.req.total) OBVIOUS
      <4>1. k \in 1 .. Len(s) BY <1>3, <2>5
      <4>2. cursor = [rank |-> log[x][s[k]].rank, id |-> s[k]] BY <1>2, <1>3, <2>1, <2>5, <2>4a DEF CursorOf
      <4> QED BY <4>1, <4>2, <2>4, <2>6
    <3> QED BY <3>3, <3>4
  <2>7. ASSUME NEW n \in 1 .. Len(s), s[n] = i
        PROVE  /\ Len(o.rows) <= Size => Once(next.out, i)
               /\ Len(o.rows) > Size => IF i \in After(log[Latest], cursor, o.req.total) THEN Never(next.out, i) ELSE Once(next.out, i)
    <3>1. Never(o.out, i) BY <2>3, <2>4, <2>7
    <3>2. ASSUME n <= k PROVE Once(next.out, i)
      <4>1. n \in DOMAIN items /\ items[n].id = i BY <3>2, <2>1, <2>7, <1>2
      <4>2. \A m \in DOMAIN items : items[m].id = i => m = n BY <2>1, <2>2, <2>5, <2>7, <1>2
      <4>3. Once(items, i) BY <4>1, <4>2 DEF Once
      <4> QED BY <4>3, <3>1, <1>2, <1>4, <1>5, MetWith
    <3>3. ASSUME ~(n <= k) PROVE Never(next.out, i)
      <4>1. \A m \in DOMAIN items : items[m].id # i
        <5>1. \A m \in 1 .. k : m # n BY <3>3, <1>2
        <5> QED BY <5>1, <2>1, <2>2, <2>5, <2>7, <1>2
      <4>2. Never(items, i) BY <4>1 DEF Never
      <4> QED BY <4>2, <3>1, <1>2, <1>4, <1>5, MetWith
    <3>4. Len(o.rows) <= Size => n <= k BY <2>1
    <3>5. ASSUME Len(o.rows) > Size PROVE i \in After(log[Latest], cursor, o.req.total) <=> ~(n <= k)
      <4>1. k \in 1 .. Len(s) BY <1>3, <2>5, <3>5
      <4>2. cursor = [rank |-> log[x][s[k]].rank, id |-> s[k]] BY <1>2, <1>3, <2>1, <3>5, <2>5, <2>4a DEF CursorOf
      <4>3. i \in After(log[Latest], cursor, o.req.total) <=> \E m \in 1 .. Len(s) : m > k /\ s[m] = i
        BY <4>1, <4>2, <2>4
      <4>4. (\E m \in 1 .. Len(s) : m > k /\ s[m] = i) <=> n > k BY <2>2, <2>7
      <4> QED BY <4>3, <4>4, <1>2, <2>2
    <3> QED BY <3>2, <3>3, <3>4, <3>5
  <2> QED BY <2>6, <2>7
<1>9. CASE ~(Len(o.rows) > Size)
  <2>1. Len(o.rows) <= Size BY <1>9, <1>0, OutHas, Constants
  <2>2. next.req.kind \in Paging /\ next.req.kind \notin Pagers BY <1>5 DEF Paging, Pagers
  <2>3. Decided(next) /\ FromItsStart(next) => \A i \in Throughout(next) : Once(next.out, i) BY <2>1, <1>7, <1>8
  <2>4. FlowInv(c, Done(next)) BY <2>2, <2>3, <1>6, Ends
  <2> QED BY <2>4, <1>1, <1>9
<1>10. CASE Len(o.rows) > Size
  <2>1. cursor \in Cursors
    <3>1. items[k] \in Got /\ Len(items) = k BY <1>2, <1>3, <1>10
    <3>2. Json(items[k].rank) \in Ranks BY <3>1, JsonIs DEF Got
    <3> QED BY <3>1, <3>2 DEF CursorOf, Got, Cursors
  <2> HIDE DEF cursor
  <2>2. /\ goes \in Calls /\ goes.cursor = cursor /\ goes.out = next.out /\ goes.offset = next.offset
        /\ goes.req = next.req /\ goes.since = next.since /\ goes.at = next.at /\ goes.spoilt = next.spoilt
    BY <1>5, <2>1 DEF Calls
  <2> HIDE DEF goes
  <2>3. Basics(c, goes) BY <2>2, <1>5, <1>6 DEF Basics
  <2>4. Decided(goes) = Decided(o) /\ FromItsStart(goes) = FromItsStart(o) /\ Throughout(goes) = Throughout(o)
    BY <1>5, <2>2 DEF Decided, Ties, Unkept, OwnPages, FromItsStart, Throughout
  <2>5. Decided(goes) /\ FromItsStart(goes) => CursorHas(goes) BY <2>2, <2>4, <1>5, <1>8, <1>10 DEF CursorHas
  <2>6. goes.req.kind = "cursor" /\ (goes.req.inTx => open # None) BY <1>5, <2>2 DEF Brought
  <2>7. FlowInv(c, Restart(goes)) BY <2>3, <2>5, <2>6, Restarts DEF Kinds, Pagers
  <2> QED BY <2>7, <1>1, <1>10
<1> QED BY <1>9, <1>10

LEMMA Arrives == ASSUME TypeInv, NEW c \in Readers, NEW o, Brought(c, o) PROVE FlowInv(c, Arrived(o))
<1>1. o.req.kind \in {"list", "fetch", "chunk", "stream", "cursor", "paged"} BY DEF Brought, Kinds
<1> QED BY <1>1, ListArrives, BatchArrives, CursorArrives, PageArrives

(* ------------------------------- the steps -------------------------------- *)

\* What a statement reads: a state of the log, or the transaction's own.
LEMMA RouteHas ==
  ASSUME TypeInv, NEW primary \in BOOLEAN, NEW inTx \in BOOLEAN, inTx => open # None, NEW a \in Route(primary, inTx)
  PROVE  /\ StateAt(a, inTx) \in 0 .. Latest /\ (inTx <=> StateAt(a, inTx) = 0)
         /\ Table(a, inTx) \in Tables /\ (~inTx => Table(a, inTx) = log[StateAt(a, inTx)])
         /\ ~Lags(a) /\ ~inTx => StateAt(a, inTx) = Latest
         /\ Unwraps(primary) \/ inTx => ~Lags(a)
         /\ Lags(a) \in BOOLEAN
<1>1. Latest \in Nat \ {0} /\ \A n \in 1 .. Latest : log[n] \in Tables BY LatestIs
<1>2. open \in Tables \cup {None} /\ behind \in [1 .. Replicas -> 1 .. Latest] /\ turn \in Nat /\ (turn < Replicas \/ turn = 0)
  BY DEF TypeInv
<1>3. CASE Unwraps(primary) \/ inTx
  <2>1. a = 0 BY <1>3 DEF Route, Primary
  <2> QED BY <2>1, <1>1, <1>2 DEF StateAt, Table, Lags, Primary
<1>4. CASE ~(Unwraps(primary) \/ inTx)
  <2>1. a \in NextReplica BY <1>4 DEF Route
  <2>2. a = 0 \/ a \in 1 .. Replicas BY <2>1, <1>2, Constants DEF NextReplica, Primary
  <2>3. CASE a = 0 BY <2>3, <1>1, <1>4 DEF StateAt, Table, Lags, Primary
  <2>4. CASE a \in 1 .. Replicas
    <3>1. a # 0 BY <2>4
    <3>2. behind[a] \in 1 .. Latest BY <2>4, <1>2
    <3>3. StateAt(a, inTx) = behind[a] BY <3>1 DEF StateAt, Primary
    <3>4. Table(a, inTx) = log[behind[a]] BY <3>2, <3>3 DEF Table
    <3> QED BY <3>1, <3>2, <3>3, <3>4, <1>1, <1>4 DEF Lags, Primary
  <2> QED BY <2>2, <2>3, <2>4
<1> QED BY <1>3, <1>4

LEMMA TurnHas ==
  ASSUME TypeInv, NEW primary, NEW inTx
  PROVE  Turns(primary, inTx) \in Nat /\ (Turns(primary, inTx) < Replicas \/ Turns(primary, inTx) = 0)
<1>1. turn \in Nat /\ (turn < Replicas \/ turn = 0) /\ Replicas \in Nat BY Constants DEF TypeInv
<1>2. Turn \in Nat /\ (Turn < Replicas \/ Turn = 0)
  <2>1. CASE Replicas = 0
    <3>1. Turn = (turn + 1) % 1 BY <2>1 DEF Turn
    <3> QED BY <3>1, <1>1
  <2>2. CASE Replicas # 0
    <3>1. Turn = (turn + 1) % Replicas BY <2>2 DEF Turn
    <3> QED BY <3>1, <2>2, <1>1
  <2> QED BY <2>1, <2>2
<1> QED BY <1>1, <1>2 DEF Turns

\* What is left to show of a step of a flow.
LEMMA ReadingStep ==
  ASSUME ReadsInv, NEW c \in Readers, NEW x, FlowInv(c, x), op' = [op EXCEPT ![c] = x],
         UNCHANGED <<work, log, open, behind, now, cleared>>,
         turn' \in Nat, turn' < Replicas \/ turn' = 0,
         cache' \in Seq(Entries), KeysOnce(cache'), \A n \in DOMAIN cache' : EntryInv(cache'[n])
  PROVE  ReadsInv'
<1>1. TypeInv /\ Latest \in Nat \ {0} BY LatestIs DEF ReadsInv
<1>2. Latest' = Latest /\ Grows BY <1>1 DEF Latest, Grows
<1>3. x \in Calls BY DEF FlowInv, Basics
<1>4. TypeInv'
  <2>1. op' \in [Readers -> Calls] BY <1>1, <1>3 DEF TypeInv
  <2>2. Calls' = Calls /\ Entries' = Entries BY SameTypes
  <2> QED BY <2>1, <2>2, <1>1, <1>2 DEF TypeInv
<1>5. CacheInv'
  <2>1. ASSUME NEW n \in DOMAIN cache', NEW e \in {cache'[n]} PROVE EntryInv(e)'
    <3>1. EntryInv(e) OBVIOUS
    <3> QED BY <3>1, <1>1, <1>2, EntryKept
  <2> QED BY <2>1 DEF CacheInv
<1>6. ASSUME NEW d \in Readers, NEW o \in {op'[d]} PROVE FlowInv(d, o)'
  <2>1. FlowInv(d, o)
    <3>1. op \in [Readers -> Calls] BY <1>1 DEF TypeInv
    <3> QED BY <3>1 DEF ReadsInv
  <2>2. o.req.inTx /\ o.phase # "done" => open' # None BY <2>1 DEF FlowInv, PhaseInv
  <2> QED BY <2>1, <2>2, <1>1, <1>2, Kept
<1> QED BY <1>4, <1>5, <1>6 DEF ReadsInv

\* Another state is read: the pages so far are the same.
LEMMA MoreRead ==
  ASSUME TypeInv, NEW c \in Readers, NEW o, Basics(c, o), OffsetHas(o),
         NEW y, NEW z, y.req = o.req, y.out = o.out, y.offset = o.offset, y.at = o.at \cup {z},
         o.req.kind # "paged" /\ z # 0 => Orders(log[z], Present(log[z]), o.req.total) # {}
  PROVE  OffsetHas(y)
<1>1. \A s : Goes(y, s) = Goes(o, s) BY DEF Goes
<1>2. ASSUME NEW x \in y.at, y.at = {x}, x # 0, NEW s \in Orders(log[x], Present(log[x]), y.req.total)
      PROVE  Follows(y.out, s) /\ Len(y.out) = y.offset /\ Len(y.out) <= Goes(y, s)
  <2>1. CASE o.at = {}
    <3>1. o.out = <<>> /\ o.offset = 0 BY <2>1 DEF OffsetHas
    <3>2. Len(s) \in Nat BY PresentAre, OrdersGoThrough
    <3>3. o.req.limit \in Ranks BY ReqHas
    <3>4. Goes(y, s) \in Nat BY <3>2, <3>3 DEF Goes, Min2, Ranks
    <3>5. Len(y.out) = 0 /\ DOMAIN y.out = {} BY <3>1
    <3> QED BY <3>1, <3>4, <3>5 DEF Follows
  <2>2. CASE o.at # {}
    <3>1. o.at = {x} BY <1>2, <2>2
    <3> QED BY <3>1, <1>1, <1>2 DEF OffsetHas
  <2> QED BY <2>1, <2>2
<1>3. (y.req.kind = "paged" => \E q \in Nat : y.offset = q * Size) /\ y.at # {} BY DEF OffsetHas
<1>4. ASSUME NEW x \in y.at, y.at = {x}, x # 0, o.req.kind # "paged"
      PROVE  Orders(log[x], Present(log[x]), o.req.total) # {}
  <2>1. x = z BY <1>4
  <2> QED BY <2>1, <1>4
<1> QED BY <1>2, <1>3, <1>4 DEF OffsetHas

LEMMA MorePages ==
  ASSUME TypeInv, NEW c \in Readers, NEW o, FlowInv(c, o), o.phase \in {"get", "query"}, o.req.kind # "list",
         NEW y, NEW z, y.req = o.req, y.out = o.out, y.offset = o.offset, y.since = o.since, y.cursor = o.cursor,
         y.total = o.total, y.at = o.at \cup {z}, o.spoilt => y.spoilt,
         y.req.kind \in Pagers /\ Decided(y) /\ z # 0 => PageOf(y.rows, log[z], y)
  PROVE  /\ y.req.kind = "cursor" /\ Decided(y) /\ FromItsStart(y) => CursorHas(y)
         /\ y.req.kind \in Pagers /\ Decided(y) => OffsetHas(y) /\ PagedHas(y)
<1>0. o \in Calls /\ Basics(c, o) /\ PhaseInv(o) BY DEF FlowInv, Basics
<1>1. (Decided(y) => Decided(o)) /\ Throughout(y) = Throughout(o) /\ (FromItsStart(y) => FromItsStart(o))
  BY DEF Decided, Ties, Unkept, OwnPages, Throughout, FromItsStart
<1>2. ASSUME y.req.kind = "cursor", Decided(y), FromItsStart(y) PROVE CursorHas(y)
  <2>1. CursorHas(o) BY <1>1, <1>2 DEF FlowInv, CursorInv
  <2> QED BY <2>1, <1>1 DEF CursorHas
<1>3. ASSUME y.req.kind \in Pagers, Decided(y) PROVE OffsetHas(y) /\ PagedHas(y)
  <2>1. OffsetHas(o) /\ PagedHas(o) BY <1>1, <1>3 DEF FlowInv, OffsetInv, Pagers
  <2>2. PagedHas(y) BY <2>1 DEF PagedHas
  <2>3. z # 0 => Orders(log[z], Present(log[z]), o.req.total) # {}
    <3>1. y.cursor = None BY <1>0, <1>3 DEF Basics, Pagers
    <3> QED BY <3>1, <1>3 DEF PageOf, PageIs, After
  <2>4. OffsetHas(y) BY <1>0, <2>1, <2>3, MoreRead
  <2> QED BY <2>2, <2>4
<1> QED BY <1>2, <1>3

\* A flow with the rows of a statement in hand, before they are passed on.
LandHas(c, o) ==
  /\ Basics(c, o) /\ Going(o)
  /\ o.req.kind \in Kinds \cup {"fetch"} /\ o.req.kind # "all"
  /\ o.req.inTx => open # None
  /\ o.req.kind = "list" => o.hit = {} /\ ListGot(o, o.rows)
  /\ o.req.kind = "fetch" => o.hit = {}
  /\ o.req.kind # "fetch" => PageRead(o)
  /\ o.req.kind = "cursor" /\ Decided(o) /\ FromItsStart(o) => CursorHas(o)
  /\ o.req.kind \in Pagers /\ Decided(o) => OffsetHas(o) /\ PagedHas(o)

LEMMA InHand ==
  ASSUME TypeInv, NEW c \in Readers, NEW o, FlowInv(c, o), o.phase \in Landing
  PROVE  LandHas(c, o) /\ (o.phase = "set" /\ o.req.kind = "list" => KidsAreTrue(o, o.rows) /\ KidsAsAsked(o.req, o.rows))
<1>0. o \in Calls /\ Basics(c, o) /\ PhaseInv(o) /\ Going(o) /\ (o.req.inTx => open # None)
  BY DEF FlowInv, Basics, PhaseInv, Landing
<1>1. o.req.kind \in Kinds \cup {"none", "fetch"} BY <1>0, ReqHas
<1>2. o.req.kind \notin {"none", "all"} BY <1>0 DEF PhaseInv, Landing
<1>3. o.req.kind = "list" => o.hit = {} /\ ListGot(o, o.rows) /\ (o.phase = "set" => KidsAreTrue(o, o.rows) /\ KidsAsAsked(o.req, o.rows))
  BY DEF FlowInv, ListInv, Landing
<1>4. o.req.kind = "fetch" => o.hit = {} BY DEF FlowInv, FetchInv
<1>5. o.req.kind # "fetch" => PageRead(o) BY DEF FlowInv, LandInv
<1>6. o.req.kind = "cursor" /\ Decided(o) /\ FromItsStart(o) => CursorHas(o) BY DEF FlowInv, CursorInv, Landing
<1>7. o.req.kind \in Pagers /\ Decided(o) => OffsetHas(o) /\ PagedHas(o) BY DEF FlowInv, OffsetInv, Landing, Pagers
<1> QED BY <1>0, <1>1, <1>2, <1>3, <1>4, <1>5, <1>6, <1>7 DEF LandHas

\* It goes on to the children, to the cache, or back to the caller.
LEMMA Lands ==
  ASSUME TypeInv, NEW c \in Readers, NEW o, LandHas(c, o), NEW p \in Landing,
         p = "include" => o.req.include /\ o.req.kind # "fetch",
         p = "set" => o.req.cached /\ KidsAreTrue(o, o.rows) /\ KidsAsAsked(o.req, o.rows)
  PROVE  FlowInv(c, [o EXCEPT !.phase = p])
<1> DEFINE y == [o EXCEPT !.phase = p]
<1>0. o \in Calls /\ Basics(c, o) /\ Going(o) /\ (o.req.inTx => open # None) BY DEF LandHas, Basics
<1>1. y \in Calls /\ Again(o, y) /\ y.phase = p BY <1>0, PhaseIsSet DEF Landing, Active
<1> HIDE DEF y
<1>2. Basics(c, y) BY <1>0, <1>1, BasicsAgain
<1>3. y.req = o.req /\ y.rows = o.rows /\ y.at = o.at /\ y.read = o.read /\ y.old = o.old /\ y.hit = o.hit /\ y.late = o.late
  BY <1>1 DEF Again
<1>4. /\ Take(y) = Take(o) /\ Going(y) = Going(o) /\ Decided(y) = Decided(o) /\ FromItsStart(y) = FromItsStart(o)
      /\ (ListGot(o, o.rows) => ListGot(y, y.rows)) /\ (KidsAreTrue(o, o.rows) => KidsAreTrue(y, y.rows))
      /\ (CursorHas(o) => CursorHas(y)) /\ (OffsetHas(o) => OffsetHas(y)) /\ (PagedHas(o) => PagedHas(y))
  BY <1>1, <1>3, SameAgain
<1>5. y.offset = o.offset /\ y.cursor = o.cursor BY <1>1 DEF Again
<1>6. o.req.kind = "fetch" => o.req.cached = FALSE
  <2>1. o.req.kind = "fetch" => o.req = Fetch BY <1>0, ReqHas
  <2> QED BY <2>1 DEF Fetch, Read, Include
<1>7. PhaseInv(y)
  <2>1. o.req.kind \notin {"none", "all"} BY DEF LandHas, Kinds
  <2> QED BY <2>1, <1>0, <1>1, <1>3, <1>4, <1>6 DEF PhaseInv, Landing
<1>8. LandInv(y)
  <2>1. o.req.kind # "fetch" => PageRead(o) BY DEF LandHas
  <2> QED BY <2>1, <1>3, <1>4, <1>5 DEF LandInv, PageRead, PageOf
<1>9. ListInv(y) BY <1>1, <1>3, <1>4 DEF LandHas, ListInv, Landing
<1>10. FetchInv(y) /\ AllInv(y) BY <1>1, <1>3, <1>6 DEF LandHas, FetchInv, AllInv, Landing, Kinds
<1>11. CursorInv(y) /\ OffsetInv(y) BY <1>1, <1>3, <1>4 DEF LandHas, CursorInv, OffsetInv, Landing, Pagers
<1> QED BY <1>2, <1>7, <1>8, <1>9, <1>10, <1>11 DEF FlowInv, y

LEMMA HandedOver ==
  ASSUME TypeInv, NEW c \in Readers, NEW o, LandHas(c, o),
         o.req.kind \in {"list", "fetch"} => KidsAreTrue(o, o.rows)
  PROVE  FlowInv(c, Arrived(o))
<1>1. o.req.kind \in Paging => \E x \in o.at : x # 0 => PageOf(o.rows, log[x], o) BY DEF LandHas, PageRead, Paging
<1>2. o.req.kind = "list" => \A h \in o.hit : FALSE BY DEF LandHas
<1>3. Brought(c, o) BY <1>1, <1>2 DEF LandHas, Brought
<1> QED BY <1>3, Arrives

LEMMA FlowHas == ASSUME ReadsInv, NEW c \in Readers
                 PROVE  TypeInv /\ CacheInv /\ op[c] \in Calls /\ FlowInv(c, op[c]) /\ Basics(c, op[c]) /\ PhaseInv(op[c])
BY DEF ReadsInv, FlowInv, Basics

\* A step of a flow that leaves the cache alone.
LEMMA StatementStep ==
  ASSUME ReadsInv, NEW c \in Readers, NEW x, FlowInv(c, x), op' = [op EXCEPT ![c] = x],
         UNCHANGED <<work, log, open, behind, cache, now, cleared>>,
         NEW primary, NEW inTx, turn' = turn \/ turn' = Turns(primary, inTx)
  PROVE  ReadsInv'
<1>1. TypeInv /\ CacheInv BY DEF ReadsInv
<1>2. turn' \in Nat /\ (turn' < Replicas \/ turn' = 0) BY <1>1, TurnHas DEF TypeInv
<1>3. cache' \in Seq(Entries) /\ KeysOnce(cache') /\ \A n \in DOMAIN cache' : EntryInv(cache'[n])
  <2>1. \A n \in DOMAIN cache : EntryInv(cache[n]) BY <1>1 DEF CacheInv
  <2> QED BY <1>1, <2>1 DEF TypeInv, CacheInv
<1> QED BY <1>2, <1>3, ReadingStep

LEMMA QueryKeeps == ASSUME ReadsInv, NEW c \in Readers, Query(c) PROVE ReadsInv'
<1> DEFINE o == op[c]
<1>0. TypeInv /\ o \in Calls /\ FlowInv(c, o) /\ Basics(c, o) /\ PhaseInv(o) BY FlowHas
<1>1. o.phase = "query" BY DEF Query
<1>2. PICK a \in Route(o.req.primary, o.req.inTx) :
        \E s \in Orders(Table(a, o.req.inTx), After(Table(a, o.req.inTx), o.cursor, o.req.total), o.req.total) :
          LET read == [o EXCEPT !.rows = Rows(Table(a, o.req.inTx), Page(s, o.offset, Take(o))), !.late = FALSE,
                                 !.at = @ \cup {StateAt(a, o.req.inTx)}, !.old = @ \/ Lags(a),
                                 !.read = StateAt(a, o.req.inTx)] IN
           op' = [op EXCEPT ![c] = IF o.req.include /\ read.rows # <<>> THEN [read EXCEPT !.phase = "include"]
                                   ELSE IF o.req.cached THEN [read EXCEPT !.phase = "set"]
                                   ELSE Arrived(read)]
  BY DEF Query
<1> DEFINE t == Table(a, o.req.inTx)
           x == StateAt(a, o.req.inTx)
           lags == Lags(a)
<1>3. PICK s \in Orders(t, After(t, o.cursor, o.req.total), o.req.total) :
        LET read == [o EXCEPT !.rows = Rows(t, Page(s, o.offset, Take(o))), !.late = FALSE,
                              !.at = @ \cup {x}, !.old = @ \/ lags, !.read = x] IN
        op' = [op EXCEPT ![c] = IF o.req.include /\ read.rows # <<>> THEN [read EXCEPT !.phase = "include"]
                                ELSE IF o.req.cached THEN [read EXCEPT !.phase = "set"]
                                ELSE Arrived(read)]
  BY <1>2
<1> DEFINE rows == Rows(t, Page(s, o.offset, Take(o)))
           read == [o EXCEPT !.rows = rows, !.late = FALSE, !.at = o.at \cup {x}, !.old = o.old \/ lags, !.read = x]
<1>4. op' = [op EXCEPT ![c] = IF o.req.include /\ read.rows # <<>> THEN [read EXCEPT !.phase = "include"]
                              ELSE IF o.req.cached THEN [read EXCEPT !.phase = "set"]
                              ELSE Arrived(read)]
  BY <1>3
<1>5. /\ o.req.limit \in Ranks /\ o.req.include \in BOOLEAN /\ o.req.cached \in BOOLEAN
      /\ o.req.primary \in BOOLEAN /\ o.req.inTx \in BOOLEAN /\ o.req.key \in {None} \cup work.keys
      /\ o.req.kind \in Kinds \cup {"none", "fetch"}
  BY <1>0, ReqHas
<1>6. o.req.kind \in Kinds /\ o.req.kind # "all" /\ Going(o) /\ (o.req.inTx => open # None)
  BY <1>0, <1>1, <1>5 DEF PhaseInv, Kinds
<1>7. /\ x \in 0 .. Latest /\ (o.req.inTx <=> x = 0) /\ t \in Tables /\ (~o.req.inTx => t = log[x])
      /\ (~lags /\ ~o.req.inTx => x = Latest) /\ (Unwraps(o.req.primary) \/ o.req.inTx => ~lags) /\ lags \in BOOLEAN
  BY <1>0, <1>5, <1>6, RouteHas
<1>8. Take(o) \in Ranks BY <1>0, <1>6, TakeHas
<1>9. rows \in Seq(Got) /\ PageIs(rows, t, o.req.total, o.offset, Take(o), o.cursor)
  <2>1. o.offset \in Nat BY <1>0 DEF Calls
  <2> QED BY <2>1, <1>7, <1>8, PageIsMade
<1>10. Latest \in Nat \ {0} /\ cleared \in [{None} \cup work.keys -> 0 .. Latest] BY <1>0, LatestIs DEF TypeInv
<1> HIDE DEF o, t, x, lags, rows
<1>11. /\ read \in Calls /\ read.req = o.req /\ read.offset = o.offset /\ read.number = o.number /\ read.cursor = o.cursor
       /\ read.total = o.total /\ read.rows = rows /\ read.out = o.out /\ read.since = o.since
       /\ read.at = o.at \cup {x} /\ read.read = x /\ read.old = (o.old \/ lags) /\ read.hit = o.hit /\ read.late = FALSE
       /\ read.spoilt = o.spoilt
  <2>1. o.at \cup {x} \in SUBSET Nat /\ x \in Nat /\ (o.old \/ lags) \in BOOLEAN BY <1>0, <1>7, <1>10 DEF Calls
  <2> QED BY <2>1, <1>0, <1>9 DEF Calls
<1> HIDE DEF read
<1>12. Take(read) = Take(o) /\ Going(read) BY <1>6, <1>11 DEF Take, Limited, Going
<1>13. Basics(c, read) BY <1>0, <1>7, <1>11 DEF Basics
<1>14. x # 0 => PageOf(rows, log[x], read) BY <1>7, <1>9, <1>11, <1>12 DEF PageOf
<1>15. o.req.kind # "list" => /\ read.req.kind = "cursor" /\ Decided(read) /\ FromItsStart(read) => CursorHas(read)
                              /\ read.req.kind \in Pagers /\ Decided(read) => OffsetHas(read) /\ PagedHas(read)
  BY <1>0, <1>1, <1>11, <1>14, MorePages
<1>16. PageRead(read) BY <1>5, <1>7, <1>10, <1>11, <1>14 DEF PageRead
<1>17. o.req.kind = "list" => read.hit = {} /\ ListGot(read, rows)
  <2> SUFFICES ASSUME o.req.kind = "list" PROVE read.hit = {} /\ ListGot(read, rows) OBVIOUS
  <2>1. o.at = {} /\ ~o.old /\ o.hit = {} BY <1>0, <1>1 DEF FlowInv, ListInv
  <2>2. o.since \in 1 .. Latest BY <1>0 DEF Basics
  <2>3. Latest \in o.since .. Latest BY <2>2, <1>10
  <2> QED BY <2>1, <2>3, <1>7, <1>10, <1>11, <1>14 DEF ListGot
<1>17a. ~o.req.include \/ rows = <<>> => KidsAsAsked(o.req, rows)
  <2>1. \A n \in DOMAIN rows : rows[n].kids = None BY DEF rows, Rows
  <2>2. rows = <<>> => DOMAIN rows = {} OBVIOUS
  <2> QED BY <2>1, <2>2 DEF KidsAsAsked
<1>18. LandHas(c, read)
  <2>1. o.req.kind = "list" => o.req.kind \notin Pagers /\ o.req.kind # "cursor" BY DEF Pagers
  <2> QED BY <2>1, <1>6, <1>11, <1>12, <1>13, <1>15, <1>16, <1>17 DEF LandHas, Kinds
<1>19. ~(o.req.include /\ rows # <<>>) => KidsAreTrue(read, read.rows)
  <2>1. rows = <<>> => DOMAIN rows = {} OBVIOUS
  <2> QED BY <2>1, <1>11 DEF KidsAreTrue
<1>20. FlowInv(c, IF o.req.include /\ read.rows # <<>> THEN [read EXCEPT !.phase = "include"]
                  ELSE IF o.req.cached THEN [read EXCEPT !.phase = "set"] ELSE Arrived(read))
  <2>1. CASE o.req.include /\ rows # <<>>
    <3>1. read.req.kind # "fetch" /\ read.req.include BY <2>1, <1>6, <1>11 DEF Kinds
    <3>2. FlowInv(c, [read EXCEPT !.phase = "include"]) BY <3>1, <1>0, <1>18, Lands DEF Landing
    <3> QED BY <3>2, <2>1, <1>11
  <2>2. CASE ~(o.req.include /\ rows # <<>>) /\ o.req.cached
    <3>1. FlowInv(c, [read EXCEPT !.phase = "set"]) BY <2>2, <1>0, <1>11, <1>17a, <1>18, <1>19, Lands DEF Landing
    <3> QED BY <3>1, <2>2, <1>11
  <2>3. CASE ~(o.req.include /\ rows # <<>>) /\ ~o.req.cached
    <3>1. FlowInv(c, Arrived(read)) BY <2>3, <1>0, <1>18, <1>19, HandedOver
    <3> QED BY <3>1, <2>3, <1>11
  <2> QED BY <2>1, <2>2, <2>3
<1>21. UNCHANGED <<work, log, open, behind, cache, now, cleared>> /\ turn' = Turns(o.req.primary, o.req.inTx)
  BY DEF Query, o
<1> QED BY <1>4, <1>20, <1>21, StatementStep

LEMMA LoadIncludesKeeps == ASSUME ReadsInv, NEW c \in Readers, LoadIncludes(c) PROVE ReadsInv'
<1> DEFINE o == op[c]
<1>0. TypeInv /\ o \in Calls /\ FlowInv(c, o) /\ Basics(c, o) /\ PhaseInv(o) BY FlowHas
<1>1. o.phase = "include" BY DEF LoadIncludes
<1>2. PICK a \in Route(FALSE, FALSE) :
        LET read == [o EXCEPT !.rows = [n \in DOMAIN o.rows |-> [o.rows[n] EXCEPT !.kids = HasKids(Table(a, FALSE), o.rows[n].id)]],
                              !.old = @ \/ Lags(a)] IN
        op' = [op EXCEPT ![c] = IF o.req.cached THEN [read EXCEPT !.phase = "set"] ELSE Arrived(read)]
  BY DEF LoadIncludes
<1> DEFINE t == Table(a, FALSE)
           x == StateAt(a, FALSE)
           lags == Lags(a)
           kids == [n \in DOMAIN o.rows |-> HasKids(t, o.rows[n].id)]
           rows == [n \in DOMAIN o.rows |-> [o.rows[n] EXCEPT !.kids = kids[n]]]
           read == [o EXCEPT !.rows = rows, !.old = o.old \/ lags]
<1>3. rows = [n \in DOMAIN o.rows |-> [o.rows[n] EXCEPT !.kids = HasKids(t, o.rows[n].id)]] OBVIOUS
<1>4. op' = [op EXCEPT ![c] = IF o.req.cached THEN [read EXCEPT !.phase = "set"] ELSE Arrived(read)]
  BY <1>2, <1>3
<1>5. LandHas(c, o) BY <1>0, <1>1, InHand DEF Landing
<1>6. x \in 1 .. Latest /\ t \in Tables /\ t = log[x] /\ (~lags => x = Latest) /\ lags \in BOOLEAN
  <2>1. /\ x \in 0 .. Latest /\ x # 0 /\ t \in Tables /\ t = log[x] /\ (~lags => x = Latest) /\ lags \in BOOLEAN
    BY <1>0, RouteHas
  <2>2. Latest \in Nat BY <1>0, LatestIs
  <2> HIDE DEF x, t, lags
  <2> QED BY <2>1, <2>2
<1>7. o.rows \in Seq(Got) /\ DOMAIN o.rows = 1 .. Len(o.rows) /\ \A n \in 1 .. Len(o.rows) : o.rows[n] \in Got BY <1>0, OutHas
<1>8. kids \in [DOMAIN o.rows -> BOOLEAN]
  <2>1. ASSUME NEW n \in DOMAIN o.rows PROVE HasKids(t, o.rows[n].id) \in BOOLEAN
    <3>1. o.rows[n].id \in Ids BY <2>1, <1>7 DEF Got
    <3>2. t[o.rows[n].id] \in Stored \cup {None} BY <3>1, <1>6 DEF Tables
    <3> QED BY <3>2 DEF HasKids, Stored
  <2> QED BY <2>1
<1> HIDE DEF kids
<1>9. /\ rows \in Seq(Got) /\ Plain(rows) = Plain(o.rows) /\ Len(rows) = Len(o.rows) /\ DOMAIN rows = DOMAIN o.rows
      /\ \A n \in DOMAIN o.rows : rows[n].id = o.rows[n].id /\ rows[n].kids = kids[n]
  <2> DEFINE new == rows
             old == o.rows
  <2>1. old \in Seq(Got) /\ kids \in [DOMAIN old -> BOOLEAN] BY <1>7, <1>8
  <2>2. new = [n \in DOMAIN old |-> [old[n] EXCEPT !.kids = kids[n]]] OBVIOUS
  <2> HIDE DEF o, new, old
  <2>3. /\ new \in Seq(Got) /\ Plain(new) = Plain(old) /\ Len(new) = Len(old) /\ DOMAIN new = DOMAIN old
        /\ \A n \in DOMAIN old : new[n].id = old[n].id /\ new[n].kids = kids[n]
    BY <2>1, <2>2, KidsLeavePages
  <2> QED BY <2>3 DEF new, old
<1>10. \A n \in DOMAIN rows : rows[n].kids = HasKids(log[x], rows[n].id) BY <1>6, <1>9 DEF kids
<1>11. o.req.include BY <1>0, <1>1 DEF PhaseInv
<1>11a. KidsAsAsked(o.req, rows) BY <1>8, <1>9, <1>11 DEF KidsAsAsked
<1>12. o.since \in 1 .. Latest /\ Latest \in Nat BY <1>0, LatestIs DEF Basics
<1> HIDE DEF o, t, x, lags, rows
<1>13. /\ read \in Calls /\ read.req = o.req /\ read.offset = o.offset /\ read.number = o.number /\ read.cursor = o.cursor
       /\ read.total = o.total /\ read.rows = rows /\ read.out = o.out /\ read.since = o.since
       /\ read.at = o.at /\ read.read = o.read /\ read.old = (o.old \/ lags) /\ read.hit = o.hit /\ read.late = o.late
       /\ read.spoilt = o.spoilt
  <2>1. (o.old \/ lags) \in BOOLEAN BY <1>0, <1>6 DEF Calls
  <2> QED BY <2>1, <1>0, <1>9 DEF Calls
<1> HIDE DEF read
<1>14. Take(read) = Take(o) /\ Going(read) = Going(o) BY <1>13 DEF Take, Limited, Going
<1>15. Basics(c, read) BY <1>0, <1>13 DEF Basics
<1>16. \A y : PageOf(o.rows, y, o) => PageOf(rows, y, read) BY <1>9, <1>13, <1>14 DEF PageOf, PageIs
<1>17. PageRead(o) => PageRead(read) BY <1>13, <1>16 DEF PageRead
<1>18. ListGot(o, o.rows) => ListGot(read, rows) BY <1>11, <1>13, <1>16 DEF ListGot
<1>19. Decided(read) = Decided(o) /\ FromItsStart(read) = FromItsStart(o) /\ Throughout(read) = Throughout(o) /\ \A s : Goes(read, s) = Goes(o, s)
  BY <1>13 DEF Decided, Ties, Unkept, OwnPages, FromItsStart, Throughout, Goes
<1>20. CursorHas(o) => CursorHas(read) BY <1>13, <1>19 DEF CursorHas
<1>21. OffsetHas(o) => OffsetHas(read) BY <1>13, <1>19 DEF OffsetHas
<1>22. PagedHas(o) => PagedHas(read) BY <1>13 DEF PagedHas
<1>23. LandHas(c, read)
  BY <1>5, <1>13, <1>14, <1>15, <1>17, <1>18, <1>19, <1>20, <1>21, <1>22 DEF LandHas
<1>24. KidsAreTrue(read, rows)
  <2>1. ~read.old => Latest \in o.since .. Latest /\ x = Latest BY <1>6, <1>12, <1>13
  <2> QED BY <2>1, <1>10, <1>13 DEF KidsAreTrue
<1>25. FlowInv(c, IF o.req.cached THEN [read EXCEPT !.phase = "set"] ELSE Arrived(read))
  <2>1. CASE o.req.cached
    <3>1. FlowInv(c, [read EXCEPT !.phase = "set"]) BY <2>1, <1>0, <1>11a, <1>13, <1>23, <1>24, Lands DEF Landing
    <3> QED BY <3>1, <2>1
  <2>2. CASE ~o.req.cached
    <3>1. FlowInv(c, Arrived(read)) BY <1>0, <1>13, <1>23, <1>24, HandedOver
    <3> QED BY <3>1, <2>2
  <2> QED BY <2>1, <2>2
<1>26. UNCHANGED <<work, log, open, behind, cache, now, cleared>> /\ turn' = Turns(FALSE, FALSE)
  BY DEF LoadIncludes
<1> QED BY <1>4, <1>25, <1>26, StatementStep

\* What a flow leaves in the cache.
LEMMA EntryIsMade ==
  ASSUME ReadsInv, NEW c \in Readers, op[c].phase = "set"
  PROVE  LET o == op[c]
             e == Entry(KeyOf(o), [rows |-> o.rows, at |-> o.read, late |-> o.late, req |-> o.req,
                                   old |-> o.old, when |-> now, edited |-> FALSE], now + Lasts) IN
         e \in Entries /\ EntryInv(e)
<1> DEFINE o == op[c]
           v == [rows |-> o.rows, at |-> o.read, late |-> o.late, req |-> o.req, old |-> o.old, when |-> now, edited |-> FALSE]
           e == Entry(KeyOf(o), v, now + Lasts)
<1>0. TypeInv /\ o \in Calls /\ FlowInv(c, o) /\ Basics(c, o) /\ PhaseInv(o) BY FlowHas
<1>1. /\ o.req \in work.requests[c] /\ o.req.limit \in Ranks /\ o.req.key \in {None} \cup work.keys
      /\ o.req.include \in BOOLEAN /\ o.req.total \in BOOLEAN /\ o.req.cached /\ o.req.kind # "fetch"
  <2>1. o.req.kind \notin {"none", "fetch"} /\ o.req.cached BY <1>0 DEF PhaseInv
  <2> QED BY <2>1, <1>0, ReqHas
<1>2. LandHas(c, o) /\ PageRead(o) BY <1>0, <1>1, InHand DEF Landing, FlowInv, LandInv
<1>2a. o.req.kind = "list" => KidsAsAsked(o.req, o.rows) BY <1>0, InHand DEF Landing
<1>3. Take(o) \in Ranks /\ (o.req.kind = "list" => Take(o) = o.req.limit) BY <1>0, <1>2, TakeHas DEF LandHas
<1>4. now \in Nat /\ Lasts \in Nat
  <2>1. RedisTtl(Ttl) \in Nat BY Constants DEF RedisTtl
  <2> QED BY <2>1, <1>0, Constants DEF TypeInv, Lasts
<1>5. o.read \in 0 .. Latest BY <1>2, <1>0 DEF PageRead, Basics
<1>6. /\ o.req.kind \in {"cursor", "list"} => o.offset = 0
      /\ o.req.kind # "cursor" => o.cursor = None
  BY <1>0 DEF Basics
<1> DEFINE key == KeyOf(o)
<1> HIDE DEF o
<1>7. key \in CacheKeys /\ key = IF o.req.key # None THEN <<o.req.key>> ELSE <<o.req.total, o.offset, Take(o), o.cursor>>
  <2>1. o.offset \in Nat /\ o.cursor \in Cursors BY <1>0 DEF Calls
  <2> QED BY <2>1, <1>1, <1>3 DEF KeyOf, CacheKeys
<1> HIDE DEF key
<1>8. v \in Values
  <2>1. o.rows \in Seq(Got) /\ o.read \in Nat /\ o.late \in BOOLEAN /\ o.old \in BOOLEAN BY <1>0 DEF Calls
  <2>2. o.req \in Request(work.keys) BY <1>0, <1>1, WorkloadsAssumption DEF TypeInv
  <2> QED BY <2>1, <2>2, <1>4 DEF Values
<1>9. v.rows = o.rows /\ v.at = o.read /\ v.late = o.late /\ v.req = o.req /\ v.old = o.old /\ v.when = now /\ v.edited = FALSE
  OBVIOUS
<1> HIDE DEF v
<1>10. e.key = key /\ e.value = v /\ e.expires = now + Lasts BY DEF Entry, key
<1>11. e \in Entries BY <1>4, <1>7, <1>8 DEF Entry, Entries, key
<1> HIDE DEF e
<1>12. o.req.key = None => key[1] = o.req.total /\ key[2] = o.offset /\ key[3] = Take(o) /\ key[4] = o.cursor
  BY <1>7
<1>13. key = IF o.req.key # None THEN <<o.req.key>> ELSE <<o.req.total, key[2], key[3], key[4]>> BY <1>7, <1>12
<1>14. o.read # 0 => PageIs(o.rows, log[o.read], o.req.total, o.offset, Take(o), o.cursor) BY <1>2 DEF PageRead, PageOf
<1>15. o.late \/ o.old \/ o.read = 0 \/ o.read >= cleared[o.req.key] BY <1>1, <1>2 DEF PageRead
<1>16. v.at # 0 /\ o.req.key # None /\ o.req.kind = "list" => PageIs(v.rows, log[v.at], o.req.total, 0, o.req.limit, None)
  BY <1>3, <1>6, <1>9, <1>14
<1>17. v.at # 0 /\ o.req.key = None => PageIs(v.rows, log[v.at], key[1], key[2], key[3], key[4]) BY <1>9, <1>12, <1>14
<1>17a. o.req.kind = "list" => KidsAsAsked(o.req, v.rows) BY <1>0, <1>2a, <1>9
<1>18. EntryInv(e)
  BY <1>17a, <1>1, <1>5, <1>9, <1>10, <1>13, <1>15, <1>16, <1>17 DEF EntryInv
<1> QED BY <1>11, <1>18 DEF e, v, key, o

LEMMA SetKeeps == ASSUME ReadsInv, NEW c \in Readers, Set(c) PROVE ReadsInv'
<1> DEFINE o == op[c]
           v == [rows |-> o.rows, at |-> o.read, late |-> o.late, req |-> o.req, old |-> o.old, when |-> now, edited |-> FALSE]
           key == KeyOf(o)
           e == Entry(key, v, now + Lasts)
<1>0. TypeInv /\ CacheInv /\ o \in Calls /\ FlowInv(c, o) /\ Basics(c, o) /\ PhaseInv(o) BY FlowHas
<1>1. /\ o.phase = "set" /\ op' = [op EXCEPT ![c] = Arrived(o)]
      /\ cache' = IF work.redis THEN RedisSet(cache, key, v, now + RedisTtl(Ttl)) ELSE AfterSet(cache, key, v, now + Ttl)
      /\ UNCHANGED <<work, log, open, behind, turn, now, cleared>>
  BY DEF Set
<1>2. e \in Entries /\ EntryInv(e) BY <1>1, EntryIsMade
<1>3. FlowInv(c, Arrived(o))
  <2>1. LandHas(c, o) /\ (o.req.kind = "list" => KidsAreTrue(o, o.rows)) BY <1>0, <1>1, InHand DEF Landing
  <2>2. o.req.kind # "fetch" BY <1>0, <1>1 DEF PhaseInv
  <2> HIDE DEF o
  <2> QED BY <2>1, <2>2, <1>0, HandedOver
<1> HIDE DEF o, v, key
<1>4. cache \in Seq(Entries) /\ KeysOnce(cache) /\ \A n \in DOMAIN cache : EntryInv(cache[n]) BY <1>0 DEF TypeInv, CacheInv
<1>5. cache' \in Seq(Entries) /\ KeysOnce(cache') /\ OnlyFrom(cache', cache, e)
  <2>1. CASE work.redis
    <3>1. e = Entry(key, v, now + RedisTtl(Ttl)) BY <2>1 DEF Lasts
    <3>2. cache' = RedisSet(cache, key, v, now + RedisTtl(Ttl)) BY <2>1, <1>1
    <3>3. LET new == RedisSet(cache, key, v, now + RedisTtl(Ttl)) IN
          new \in Seq(Entries) /\ KeysOnce(new) /\ OnlyFrom(new, cache, Entry(key, v, now + RedisTtl(Ttl)))
      BY <3>1, <1>2, <1>4, RedisWasSet
    <3> QED BY <3>1, <3>2, <3>3, Zenon
  <2>2. CASE ~work.redis
    <3>1. e = Entry(key, v, now + Ttl) BY <2>2 DEF Lasts
    <3>2. cache' = AfterSet(cache, key, v, now + Ttl) BY <2>2, <1>1
    <3>3. LET new == AfterSet(cache, key, v, now + Ttl) IN
          new \in Seq(Entries) /\ KeysOnce(new) /\ OnlyFrom(new, cache, Entry(key, v, now + Ttl))
      BY <3>1, <1>2, <1>4, MemorySet
    <3> QED BY <3>1, <3>2, <3>3, Zenon
  <2> QED BY <2>1, <2>2
<1> HIDE DEF e
<1>6. \A n \in DOMAIN cache' : EntryInv(cache'[n])
  <2>1. ASSUME NEW n \in DOMAIN cache', NEW f, f = cache'[n] PROVE EntryInv(f)
    <3>1. f = e \/ \E m \in DOMAIN cache : f = cache[m] BY <2>1, <1>5 DEF OnlyFrom
    <3> QED BY <3>1, <1>2, <1>4
  <2> QED BY <2>1
<1>7. turn' \in Nat /\ (turn' < Replicas \/ turn' = 0) BY <1>0, <1>1 DEF TypeInv
<1> QED BY <1>1, <1>3, <1>5, <1>6, <1>7, ReadingStep

\* A hit of the cache, in the hand of the flow that asked.
LEMMA HitBrings ==
  ASSUME TypeInv, NEW c \in Readers, NEW o, FlowInv(c, o), o.phase = "get", NEW e \in Entries, EntryInv(e),
         e.key = KeyOf(o), now <= e.expires,
         NEW h \in Hits, h.v = e.value, h.now = now, h.floor = cleared[o.req.key],
         NEW y \in Calls, y.req = o.req, y.offset = o.offset, y.cursor = o.cursor, y.total = o.total, y.out = o.out,
         y.since = o.since, y.rows = e.value.rows, y.at = o.at \cup {e.value.at}, y.hit = {h},
         y.spoilt = (o.spoilt \/ e.value.edited)
  PROVE  FlowInv(c, Arrived(y))
<1> DEFINE v == e.value
           key == e.key
<1>0. o \in Calls /\ Basics(c, o) /\ PhaseInv(o) BY DEF FlowInv, Basics
<1>1. /\ o.req \in work.requests[c] /\ o.req.limit \in Ranks /\ o.req.key \in {None} \cup work.keys
      /\ o.req.cached /\ o.req.kind \in Kinds /\ o.req.kind # "all" /\ Going(o) /\ (o.req.inTx => open # None)
  <2>1. o.req.kind \notin {"none", "fetch", "all"} /\ o.req.cached BY <1>0 DEF PhaseInv
  <2>2. Going(o) /\ (o.req.inTx => open # None) BY <1>0 DEF PhaseInv
  <2>3. /\ o.req.limit \in Ranks /\ o.req.key \in {None} \cup work.keys
        /\ o.req.kind \notin {"none", "fetch"} => o.req \in work.requests[c]
        /\ o.req.kind \in Kinds \cup {"none", "fetch"}
    BY <1>0, ReqHas
  <2> QED BY <2>1, <2>2, <2>3
<1> DEFINE r == v.req
<1>2. /\ r.cached
      /\ key = IF r.key # None THEN <<r.key>> ELSE <<r.total, key[2], key[3], key[4]>>
      /\ v.edited => ~work.redis
      /\ ~v.edited /\ r.kind = "list" => KidsAsAsked(r, v.rows)
      /\ v.at \in 0 .. Latest
      /\ v.late \/ v.old \/ v.at = 0 \/ v.at >= cleared[r.key]
      /\ e.expires = v.when + Lasts
      /\ ~v.edited /\ v.at # 0 /\ r.key # None /\ r.kind = "list" => PageIs(v.rows, log[v.at], r.total, 0, r.limit, None)
      /\ ~v.edited /\ v.at # 0 /\ r.key = None => PageIs(v.rows, log[v.at], key[1], key[2], key[3], key[4])
  BY DEF EntryInv
<1>3. v \in Values /\ v.rows \in Seq(Got) /\ v.at \in Nat /\ v.edited \in BOOLEAN BY DEF Entries, Values
<1> HIDE DEF v, r
<1>4. r = v.req BY DEF r
<1>5. h.v = v BY DEF v
<1>6. y.rows = v.rows /\ y.at = o.at \cup {v.at} /\ y.spoilt = (o.spoilt \/ v.edited) BY DEF v
<1>7. r.key = o.req.key /\ (o.req.key = None => key[1] = o.req.total /\ key[2] = o.offset /\ key[3] = Take(o) /\ key[4] = o.cursor)
  <2>1. key = IF o.req.key # None THEN <<o.req.key>> ELSE <<o.req.total, o.offset, Take(o), o.cursor>> BY DEF KeyOf
  <2>2. \A k, p, q, u, w : <<k>> # <<p, q, u, w>>
    <3> SUFFICES ASSUME NEW k, NEW p, NEW q, NEW u, NEW w, <<k>> = <<p, q, u, w>> PROVE FALSE OBVIOUS
    <3>1. Len(<<k>>) = 1 /\ Len(<<p, q, u, w>>) = 4 OBVIOUS
    <3> QED BY <3>1
  <2> HIDE DEF key
  <2>3. CASE o.req.key # None
    <3>1. key = <<o.req.key>> BY <2>1, <2>3
    <3>2. r.key # None BY <3>1, <2>2, <1>2
    <3>3. <<r.key>> = <<o.req.key>> BY <3>1, <3>2, <1>2
    <3>4. r.key = o.req.key BY <3>3
    <3> QED BY <3>4, <2>3
  <2>4. CASE o.req.key = None
    <3>1. key = <<o.req.total, o.offset, Take(o), o.cursor>> BY <2>1, <2>4
    <3>2. r.key = None BY <3>1, <2>2, <1>2
    <3> QED BY <3>1, <3>2, <2>4
  <2> QED BY <2>3, <2>4
<1> HIDE DEF key
<1>8. Take(y) = Take(o) /\ Going(y) = Going(o) BY <1>6 DEF Take, Limited, Going
<1>9. Basics(c, y) BY <1>0, <1>2, <1>6 DEF Basics
<1>10. ~v.edited /\ o.req.key = None /\ v.at # 0 => PageOf(v.rows, log[v.at], y) BY <1>2, <1>6, <1>7, <1>8 DEF PageOf
<1>11. o.req.kind = "list" => FromTheCache(y, h)
  <2> SUFFICES ASSUME o.req.kind = "list" PROVE FromTheCache(y, h) OBVIOUS
  <2>1. h.now <= v.when + (IF work.redis THEN RedisTtl(Ttl) ELSE Ttl) BY <1>2, <1>5 DEF Lasts
  <2>2. v.late \/ v.old \/ v.at = 0 \/ v.at >= h.floor BY <1>2, <1>5, <1>7
  <2>3. o.offset = 0 /\ o.cursor = None /\ Take(o) = o.req.limit BY <1>0 DEF Basics, Take
  <2>4. ASSUME ~v.edited, v.at # 0, o.req.key = None \/ r = o.req PROVE IsPageOf(v.rows, log[v.at], y)
    <3>1. CASE o.req.key = None BY <3>1, <2>3, <2>4, <1>2, <1>6, <1>7, <1>8 DEF IsPageOf, PageIs, After
    <3>2. CASE o.req.key # None
      <4>1. PageIs(v.rows, log[v.at], o.req.total, 0, o.req.limit, None) BY <3>2, <2>4, <1>2
      <4> QED BY <4>1, <2>3, <1>6, <1>8 DEF IsPageOf, PageIs, After
    <3> QED BY <3>1, <3>2
  <2>5. v.edited => ~work.redis BY <1>2
  <2>6. ~v.edited /\ r = o.req => KidsAsAsked(o.req, v.rows) BY <1>2
  <2>7. h.v.req = r BY <1>4, <1>5
  <2> QED BY <2>1, <2>2, <2>4, <2>5, <2>6, <2>7, <1>5, <1>6 DEF FromTheCache
<1>12. o.req.kind # "list" => /\ y.req.kind = "cursor" /\ Decided(y) /\ FromItsStart(y) => CursorHas(y)
                              /\ y.req.kind \in Pagers /\ Decided(y) => OffsetHas(y) /\ PagedHas(y)
  <2>1. Decided(y) /\ v.at # 0 => PageOf(y.rows, log[v.at], y) BY <1>1, <1>6, <1>10 DEF Decided, OwnPages
  <2> QED BY <2>1, <1>0, <1>6, MorePages
<1>13. y.req.kind \in Paging /\ Decided(y) => \E x \in y.at : x # 0 => PageOf(y.rows, log[x], y)
  <2>1. Decided(y) => o.req.key = None /\ ~v.edited BY <1>1, <1>6 DEF Decided, OwnPages
  <2> QED BY <2>1, <1>6, <1>10
<1>14. Brought(c, y)
  <2>1. o.req.kind = "list" => o.req.kind \notin Pagers /\ o.req.kind # "cursor" BY DEF Pagers
  <2>2. o.req.kind = "list" => y.hit # {} /\ \A g \in y.hit : FromTheCache(y, g) /\ g.v.at \in 0 .. Latest
    BY <1>2, <1>5, <1>6, <1>11
  <2> QED BY <2>1, <2>2, <1>1, <1>6, <1>8, <1>9, <1>12, <1>13 DEF Brought, Kinds
<1> QED BY <1>0, <1>14, Arrives

LEMMA GetKeeps == ASSUME ReadsInv, NEW c \in Readers, Get(c) PROVE ReadsInv'
<1> DEFINE o == op[c]
           key == KeyOf(o)
           e == cache[Find(cache, key)]
           h == [v |-> e.value, now |-> now, floor |-> cleared[o.req.key]]
           y == [o EXCEPT !.rows = e.value.rows, !.at = o.at \cup {e.value.at}, !.spoilt = (o.spoilt \/ e.value.edited),
                          !.hit = {h}]
           miss == [o EXCEPT !.phase = "query"]
<1>0. TypeInv /\ CacheInv /\ o \in Calls /\ FlowInv(c, o) /\ Basics(c, o) /\ PhaseInv(o) BY FlowHas
<1>1. /\ o.phase = "get"
      /\ cache' = IF work.redis THEN RedisGet(cache, key, now) ELSE AfterGet(cache, key, now)
      /\ Hit(cache, key, now) => op' = [op EXCEPT ![c] = Arrived(y)]
      /\ ~Hit(cache, key, now) => op' = [op EXCEPT ![c] = miss]
      /\ UNCHANGED <<work, log, open, behind, turn, now, cleared>>
  BY DEF Get, Value
<1>2. cache \in Seq(Entries) /\ KeysOnce(cache) /\ \A n \in DOMAIN cache : cache[n] \in Entries /\ EntryInv(cache[n])
  BY <1>0 DEF TypeInv, CacheInv
<1>3. o.req.key \in {None} \cup work.keys /\ now \in Nat /\ cleared[o.req.key] \in Nat
  <2>1. o.req.key \in {None} \cup work.keys /\ Latest \in Nat BY <1>0, ReqHas, LatestIs
  <2> QED BY <2>1, <1>0 DEF TypeInv
<1> HIDE DEF o, key
<1>4. ASSUME Hit(cache, key, now) PROVE FlowInv(c, Arrived(y))
  <2>1. key \in Keys(cache) /\ ~(now > e.expires) BY <1>4 DEF Hit, Expired
  <2>2. e \in Entries /\ EntryInv(e) /\ e.key = key BY <2>1, <1>2, Found
  <2>3. e.expires \in Nat /\ now <= e.expires BY <2>1, <2>2, <1>3 DEF Entries
  <2>4. e.value \in Values /\ e.value.rows \in Seq(Got) /\ e.value.at \in Nat BY <2>2 DEF Entries, Values
  <2> HIDE DEF e
  <2>5. h \in Hits /\ h.v = e.value /\ h.now = now /\ h.floor = cleared[o.req.key] BY <2>4, <1>3 DEF Hits
  <2> HIDE DEF h
  <2>6. /\ y \in Calls /\ y.req = o.req /\ y.offset = o.offset /\ y.cursor = o.cursor /\ y.total = o.total /\ y.out = o.out
        /\ y.since = o.since /\ y.rows = e.value.rows /\ y.at = o.at \cup {e.value.at} /\ y.hit = {h}
        /\ y.spoilt = (o.spoilt \/ e.value.edited)
    <3>1. o.at \cup {e.value.at} \in SUBSET Nat /\ {h} \in SUBSET Hits /\ (o.spoilt \/ e.value.edited) \in BOOLEAN
      BY <1>0, <2>4, <2>5 DEF Calls
    <3> QED BY <3>1, <1>0, <2>4 DEF Calls
  <2> HIDE DEF y
  <2> QED BY <1>0, <1>1, <2>2, <2>3, <2>5, <2>6, HitBrings DEF key
<1>5. FlowInv(c, miss)
  <2>1. miss \in Calls /\ Again(o, miss) /\ miss.phase = "query" BY <1>0, PhaseIsSet DEF Active
  <2> HIDE DEF miss
  <2>2. miss.req = o.req /\ miss.at = o.at /\ miss.old = o.old /\ miss.hit = o.hit BY <2>1 DEF Again
  <2>3. /\ Going(miss) = Going(o) /\ Decided(miss) = Decided(o) /\ FromItsStart(miss) = FromItsStart(o)
        /\ (CursorHas(o) => CursorHas(miss)) /\ (OffsetHas(o) => OffsetHas(miss)) /\ (PagedHas(o) => PagedHas(miss))
    BY <2>1, SameAgain
  <2>4. Basics(c, miss) BY <2>1, <1>0, BasicsAgain
  <2>5. PhaseInv(miss) BY <1>0, <1>1, <2>1, <2>2, <2>3 DEF PhaseInv
  <2>6. LandInv(miss) BY <2>1 DEF LandInv, Landing
  <2>7. ListInv(miss) BY <1>0, <1>1, <2>1, <2>2 DEF FlowInv, ListInv, Landing
  <2>8. FetchInv(miss) /\ AllInv(miss) BY <1>0, <1>1, <2>1, <2>2 DEF FlowInv, FetchInv, AllInv, PhaseInv
  <2>9. CursorInv(miss) BY <1>0, <1>1, <2>1, <2>2, <2>3 DEF FlowInv, CursorInv
  <2>10. OffsetInv(miss) BY <1>0, <1>1, <2>1, <2>2, <2>3 DEF FlowInv, OffsetInv
  <2> QED BY <2>4, <2>5, <2>6, <2>7, <2>8, <2>9, <2>10 DEF FlowInv
<1> HIDE DEF y, miss
<1>6. cache' \in Seq(Entries) /\ KeysOnce(cache') /\ \A n \in DOMAIN cache' : \E m \in DOMAIN cache : cache'[n] = cache[m]
  <2>1. LET new == RedisGet(cache, key, now) IN
        new \in Seq(Entries) /\ KeysOnce(new) /\ \A n \in DOMAIN new : \E m \in DOMAIN cache : new[n] = cache[m]
    BY <1>2, RedisGot
  <2>2. LET new == AfterGet(cache, key, now) IN
        new \in Seq(Entries) /\ KeysOnce(new) /\ \A n \in DOMAIN new : \E m \in DOMAIN cache : new[n] = cache[m]
    BY <1>2, MemoryGot
  <2> QED BY <2>1, <2>2, <1>1
<1>7. \A n \in DOMAIN cache' : EntryInv(cache'[n])
  <2>1. ASSUME NEW n \in DOMAIN cache' PROVE EntryInv(cache'[n])
    <3>1. PICK m \in DOMAIN cache : cache'[n] = cache[m] BY <1>6
    <3> QED BY <3>1, <1>2
  <2> QED BY <2>1
<1>8. turn' \in Nat /\ (turn' < Replicas \/ turn' = 0) BY <1>0, <1>1 DEF TypeInv
<1>9. CASE Hit(cache, key, now) BY <1>1, <1>4, <1>6, <1>7, <1>8, <1>9, ReadingStep
<1>10. CASE ~Hit(cache, key, now) BY <1>1, <1>5, <1>6, <1>7, <1>8, <1>10, ReadingStep
<1> QED BY <1>9, <1>10

\* A flow begins.
Begun(req, since) == [NoRead EXCEPT !.req = req, !.since = since]
LEMMA NewIs ==
  ASSUME NEW req \in Asked, NEW since \in Nat \ {0}
  PROVE  LET x == Begun(req, since) IN
         /\ x \in Calls /\ x.req = req /\ x.since = since /\ x.phase = "done" /\ x.offset = 0 /\ x.number = 1 /\ x.cursor = None
         /\ x.total = 0 /\ x.rows = <<>> /\ x.out = <<>> /\ x.at = {} /\ ~x.old /\ x.hit = {} /\ ~x.spoilt /\ x.ok
<1>1. <<>> \in Seq(Got) /\ {} \in SUBSET Nat /\ {} \in SUBSET Hits /\ None \in Cursors BY DEF Cursors
<1> QED BY <1>1 DEF Begun, NoRead, Calls

LEMMA StartKeeps == ASSUME ReadsInv, NEW c \in Readers, NEW req \in work.requests[c], Start(c, req) PROVE ReadsInv'
<1> DEFINE x == Begun(req, Latest)
<1>0. TypeInv BY FlowHas
<1>1. op' = [op EXCEPT ![c] = Restart(x)] /\ (req.inTx => open # None)
      /\ UNCHANGED <<work, log, open, behind, turn, cache, now, cleared>>
  BY DEF Start, Begun
<1>2. req \in Request(work.keys) BY <1>0, WorkloadsAssumption DEF TypeInv
<1>3. Latest \in Nat \ {0} BY <1>0, LatestIs
<1>4. /\ x \in Calls /\ x.req = req /\ x.since = Latest /\ x.offset = 0 /\ x.number = 1 /\ x.cursor = None
      /\ x.out = <<>> /\ x.at = {} /\ ~x.old /\ x.hit = {} /\ x.ok
  <2>1. req \in Asked BY <1>2 DEF Asked
  <2> QED BY <2>1, <1>3, NewIs
<1> HIDE DEF x
<1>5. req.kind \in Kinds BY <1>2 DEF Request
<1>6. Basics(c, x) BY <1>3, <1>4 DEF Basics
<1>7. DOMAIN x.out = {} /\ Len(x.out) = 0 BY <1>4
<1>8. CursorHas(x)
  <2>1. ASSUME NEW i \in Throughout(x) PROVE i \in After(log[Latest], None, req.total)
    <3>1. Latest \in x.since .. Latest BY <1>3, <1>4
    <3> QED BY <3>1, <1>0, <1>3, <1>4, StaysSo DEF After, Present
  <2> QED BY <2>1, <1>4, <1>7 DEF CursorHas, Never
<1>9. OffsetHas(x)
  <2>1. 0 = 0 * Size BY Constants
  <2> QED BY <2>1, <1>4 DEF OffsetHas
<1>10. FlowInv(c, Restart(x)) BY <1>0, <1>1, <1>4, <1>5, <1>6, <1>8, <1>9, Restarts
<1> QED BY <1>1, <1>10, StatementStep

LEMMA FetchRelationKeeps == ASSUME ReadsInv, NEW c \in Readers, FetchRelation(c) PROVE ReadsInv'
<1> DEFINE o == op[c]
           x == Begun(Fetch, Latest)
           rows == <<o.out[1]>>
           y == [x EXCEPT !.phase = "include", !.rows = rows]
<1>0. TypeInv /\ o \in Calls BY FlowHas
<1>1. /\ o.out # <<>>
      /\ op' = [op EXCEPT ![c] = [NoRead EXCEPT !.req = Fetch, !.phase = "include", !.rows = <<o.out[1]>>, !.since = Latest]]
      /\ UNCHANGED <<work, log, open, behind, turn, cache, now, cleared>>
  BY DEF FetchRelation, Fetch
<1>2. op' = [op EXCEPT ![c] = y] BY <1>1 DEF Begun, NoRead
<1>3. Latest \in Nat \ {0} BY <1>0, LatestIs
<1>4. /\ x \in Calls /\ x.req = Fetch /\ x.since = Latest /\ x.offset = 0 /\ x.number = 1 /\ x.cursor = None
      /\ x.out = <<>> /\ x.at = {} /\ ~x.old /\ x.hit = {} /\ x.ok
  <2>1. Fetch \in Asked BY DEF Asked
  <2> QED BY <2>1, <1>3, NewIs
<1>5. rows \in Seq(Got)
  <2>1. o.out \in Seq(Got) /\ Len(o.out) \in Nat /\ Len(o.out) # 0 BY <1>0, <1>1, OutHas, EmptySeq
  <2>2. o.out[1] \in Got BY <2>1
  <2> QED BY <2>2
<1> HIDE DEF x, rows, o
<1>6. /\ y \in Calls /\ y.req = Fetch /\ y.phase = "include" /\ y.since = Latest /\ y.offset = 0 /\ y.cursor = None
      /\ y.at = {} /\ ~y.old /\ y.hit = {}
  BY <1>4, <1>5 DEF Calls, Active
<1> HIDE DEF y
<1>7. Fetch.kind = "fetch" /\ Fetch.include /\ ~Fetch.inTx /\ ~Fetch.cached BY DEF Fetch, Include, Read
<1>8. Basics(c, y) BY <1>3, <1>6, <1>7 DEF Basics
<1>9. PhaseInv(y) /\ LandInv(y) /\ ListInv(y) /\ FetchInv(y) /\ AllInv(y) /\ CursorInv(y) /\ OffsetInv(y)
  BY <1>6, <1>7 DEF PhaseInv, Going, LandInv, ListInv, FetchInv, AllInv, CursorInv, OffsetInv
<1>10. FlowInv(c, y) BY <1>8, <1>9 DEF FlowInv
<1> QED BY <1>1, <1>2, <1>10, StatementStep

LEMMA CountKeeps == ASSUME ReadsInv, NEW c \in Readers, Count(c) PROVE ReadsInv'
<1> DEFINE o == op[c]
<1>0. TypeInv /\ o \in Calls /\ FlowInv(c, o) /\ Basics(c, o) /\ PhaseInv(o) BY FlowHas
<1>1. PICK a \in Route(o.req.primary, o.req.inTx) :
        LET read == [o EXCEPT !.at = @ \cup {StateAt(a, o.req.inTx)}, !.number = 2,
                              !.total = Cardinality(Present(Table(a, o.req.inTx)))] IN
        op' = [op EXCEPT ![c] = IF o.req.kind = "all" /\ read.total > 0 THEN [read EXCEPT !.phase = "match"]
                                ELSE IF o.req.kind = "all" THEN Done(read) ELSE Restart(read)]
  BY DEF Count
<1> DEFINE t == Table(a, o.req.inTx)
           x == StateAt(a, o.req.inTx)
           n == Cardinality(Present(t))
           read == [o EXCEPT !.at = o.at \cup {x}, !.number = 2, !.total = n]
           match == [read EXCEPT !.phase = "match"]
<1>2. op' = [op EXCEPT ![c] = IF o.req.kind = "all" /\ read.total > 0 THEN match
                              ELSE IF o.req.kind = "all" THEN Done(read) ELSE Restart(read)]
  BY <1>1
<1>3. o.phase = "count" /\ UNCHANGED <<work, log, open, behind, cache, now, cleared>> /\ turn' = Turns(o.req.primary, o.req.inTx)
  BY DEF Count
<1>4. o.req.kind \in {"all", "paged"} /\ o.number = 1 /\ (o.req.inTx => open # None) BY <1>0, <1>3 DEF PhaseInv
<1>5. /\ x \in 0 .. Latest /\ (o.req.inTx <=> x = 0) /\ t \in Tables /\ (~o.req.inTx => t = log[x])
  <2>1. o.req.primary \in BOOLEAN /\ o.req.inTx \in BOOLEAN BY <1>0, ReqHas
  <2> QED BY <2>1, <1>0, <1>4, RouteHas
<1>6. IsFiniteSet(Present(t)) /\ n \in Nat BY Constants, PresentAre, FS_Subset, FS_CardinalityType
<1>7. Latest \in Nat \ {0} BY <1>0, LatestIs
<1> HIDE DEF o, t, x, n
<1>8. /\ read \in Calls /\ read.req = o.req /\ read.offset = o.offset /\ read.number = 2 /\ read.cursor = o.cursor
      /\ read.total = n /\ read.out = o.out /\ read.since = o.since /\ read.at = o.at \cup {x} /\ read.ok = o.ok
      /\ read.spoilt = o.spoilt
  <2>1. o.at \cup {x} \in SUBSET Nat BY <1>0, <1>5, <1>7 DEF Calls
  <2> QED BY <2>1, <1>0, <1>6 DEF Calls
<1> HIDE DEF read
<1>9. Basics(c, read) BY <1>0, <1>5, <1>8 DEF Basics
<1>10. ASSUME o.req.kind = "all" PROVE FlowInv(c, match) /\ (n = 0 => FlowInv(c, Done(read)))
  <2>1. o.at = {} /\ o.ok BY <1>0, <1>3, <1>10 DEF FlowInv, AllInv
  <2>2. ASSUME NEW p \in {"match", "done"}, NEW y, y \in Calls, Again(read, y), y.phase = p, p = "done" => n = 0
        PROVE  FlowInv(c, y)
    <3>1. y.req = o.req /\ y.at = {x} /\ y.total = n /\ y.ok = o.ok BY <1>8, <2>1, <2>2 DEF Again
    <3>2. Basics(c, y) BY <1>9, <2>2, BasicsAgain
    <3>3. PhaseInv(y) BY <1>4, <1>10, <2>2, <3>1 DEF PhaseInv, Going
    <3>4. ~o.req.inTx => x # 0 /\ n = Cardinality(Present(log[x])) BY <1>5 DEF n
    <3>5. ~o.req.inTx /\ n = 0 => Known(log[x])
      <4>1. n = 0 => Present(t) = {} BY <1>6, FS_EmptySet DEF n
      <4> QED BY <4>1, <1>5 DEF Known
    <3>6. AllInv(y) BY <1>5, <2>1, <2>2, <3>1, <3>4, <3>5 DEF AllInv, Known
    <3>7. LandInv(y) /\ ListInv(y) /\ FetchInv(y) /\ CursorInv(y) /\ OffsetInv(y)
      BY <1>10, <2>2, <3>1 DEF LandInv, Landing, ListInv, FetchInv, CursorInv, OffsetInv
    <3> QED BY <3>2, <3>3, <3>6, <3>7 DEF FlowInv
  <2>3. match \in Calls /\ Again(read, match) /\ match.phase = "match" BY <1>8, PhaseIsSet DEF Active
  <2>4. Done(read) \in Calls /\ Again(read, Done(read)) /\ Done(read).phase = "done" BY <1>8, PhaseIsSet DEF Done, Active
  <2> QED BY <2>2, <2>3, <2>4
<1>11. ASSUME o.req.kind = "paged" PROVE FlowInv(c, Restart(read))
  <2>1. read.req.kind \in Kinds /\ (read.req.inTx => open # None) BY <1>4, <1>8, <1>11 DEF Kinds
  <2>2. ASSUME Decided(read) PROVE OffsetHas(read) /\ PagedHas(read)
    <3>1. Decided(o) BY <1>8, <2>2 DEF Decided, Ties, Unkept, OwnPages
    <3>2. OffsetHas(o) BY <3>1, <1>0, <1>3, <1>11 DEF FlowInv, OffsetInv
    <3>3. OffsetHas(read) BY <3>2, <1>0, <1>8, <1>11, MoreRead
    <3>4. PagedHas(read) BY <1>5, <1>8 DEF PagedHas, n
    <3> QED BY <3>3, <3>4
  <2> QED BY <2>1, <2>2, <1>0, <1>8, <1>9, <1>11, Restarts
<1>12. FlowInv(c, IF o.req.kind = "all" /\ read.total > 0 THEN match ELSE IF o.req.kind = "all" THEN Done(read) ELSE Restart(read))
  <2>1. CASE o.req.kind = "all" /\ n > 0 BY <2>1, <1>8, <1>10
  <2>2. CASE o.req.kind = "all" /\ ~(n > 0) BY <2>2, <1>6, <1>8, <1>10
  <2>3. CASE o.req.kind # "all" BY <2>3, <1>4, <1>11
  <2> QED BY <2>1, <2>2, <2>3
<1> QED BY <1>2, <1>3, <1>12, StatementStep

LEMMA MatchKeeps == ASSUME ReadsInv, NEW c \in Readers, Match(c) PROVE ReadsInv'
<1> DEFINE o == op[c]
           matches(t) == {i \in Present(t) : t[i].rank # None}
<1>0. TypeInv /\ o \in Calls /\ FlowInv(c, o) /\ Basics(c, o) /\ PhaseInv(o) BY FlowHas
<1>1. PICK a \in Route(o.req.primary, o.req.inTx) :
        op' = [op EXCEPT ![c] = Done([o EXCEPT !.at = @ \cup {StateAt(a, o.req.inTx)},
                                               !.ok = Cardinality(matches(Table(a, o.req.inTx))) = o.total])]
  BY DEF Match
<1> DEFINE t == Table(a, o.req.inTx)
           x == StateAt(a, o.req.inTx)
           ok == Cardinality(matches(t)) = o.total
           read == [o EXCEPT !.at = o.at \cup {x}, !.ok = ok]
           y == Done(read)
<1>2. op' = [op EXCEPT ![c] = y] BY <1>1
<1>3. o.phase = "match" /\ UNCHANGED <<work, log, open, behind, cache, now, cleared>> /\ turn' = Turns(o.req.primary, o.req.inTx)
  BY DEF Match
<1>4. o.req.kind = "all" /\ (o.req.inTx => open # None) BY <1>0, <1>3 DEF PhaseInv
<1>5. /\ x \in 0 .. Latest /\ (o.req.inTx <=> x = 0) /\ t \in Tables /\ (~o.req.inTx => t = log[x])
  <2>1. o.req.primary \in BOOLEAN /\ o.req.inTx \in BOOLEAN BY <1>0, ReqHas
  <2> QED BY <2>1, <1>0, <1>4, RouteHas
<1>6. Cardinality(matches(t)) = Cardinality(Present(t)) <=> Known(t)
  <2>1. IsFiniteSet(Present(t)) BY Constants, PresentAre, FS_Subset
  <2>2. matches(t) \subseteq Present(t) OBVIOUS
  <2>3. Cardinality(matches(t)) = Cardinality(Present(t)) <=> matches(t) = Present(t) BY <2>1, <2>2, FS_Subset
  <2>4. matches(t) = Present(t) <=> Known(t) BY DEF Known
  <2> QED BY <2>3, <2>4
<1>7. PICK z \in 0 .. Latest : o.at = {z} /\ (~o.req.inTx => z # 0 /\ o.total = Cardinality(Present(log[z])))
  BY <1>0, <1>3, <1>4 DEF FlowInv, AllInv
<1>8. Latest \in Nat \ {0} BY <1>0, LatestIs
<1>9. ~o.req.inTx /\ z = x => (ok <=> Known(log[x])) BY <1>5, <1>6, <1>7
<1> HIDE DEF o, t, x, ok, matches
<1>10. ok \in BOOLEAN BY DEF ok
<1>11. read \in Calls /\ read.req = o.req /\ read.offset = o.offset /\ read.cursor = o.cursor /\ read.since = o.since
       /\ read.at = {z, x} /\ read.ok = ok
  <2>1. o.at \cup {x} \in SUBSET Nat BY <1>0, <1>5, <1>8 DEF Calls
  <2> QED BY <2>1, <1>0, <1>7, <1>10 DEF Calls
<1> HIDE DEF read
<1>12. y \in Calls /\ Again(read, y) /\ y.phase = "done" BY <1>11, PhaseIsSet DEF Done, Active
<1> HIDE DEF y
<1>13. Basics(c, y)
  <2>1. Basics(c, read) BY <1>0, <1>5, <1>7, <1>11 DEF Basics
  <2> QED BY <2>1, <1>12, BasicsAgain
<1>14. y.req = o.req /\ y.at = {z, x} /\ y.ok = ok BY <1>11, <1>12 DEF Again
<1>15. AllInv(y)
  <2>1. ASSUME ~o.req.inTx, NEW w \in y.at, y.at = {w} PROVE w # 0 /\ y.ok = Known(log[w])
    <3>1. w = x /\ w = z BY <2>1, <1>14
    <3>2. ok <=> Known(log[w]) BY <2>1, <3>1, <1>9
    <3>3. ok = Known(log[w]) BY <3>2, <1>10 DEF Known
    <3> QED BY <2>1, <3>1, <3>3, <1>5, <1>14
  <2> QED BY <2>1, <1>4, <1>12, <1>14 DEF AllInv
<1>16. PhaseInv(y) /\ LandInv(y) /\ ListInv(y) /\ FetchInv(y) /\ CursorInv(y) /\ OffsetInv(y)
  BY <1>4, <1>12, <1>14 DEF PhaseInv, LandInv, Landing, ListInv, FetchInv, CursorInv, OffsetInv
<1>17. FlowInv(c, y) BY <1>13, <1>15, <1>16 DEF FlowInv
<1> QED BY <1>2, <1>3, <1>17, StatementStep

\* A step of the database, which leaves every flow what it has.
LEMMA DatabaseStep ==
  ASSUME ReadsInv, Grows, log' \in Seq(Tables), log' # <<>>, open' \in Tables \cup {None},
         UNCHANGED <<work, turn, cache, op, cleared>>, now' \in Nat,
         behind' = behind \/ behind' \in [1 .. Replicas -> 1 .. Latest],
         \A c \in Readers : op[c].req.inTx /\ op[c].phase # "done" => open' # None
  PROVE  ReadsInv'
<1>1. TypeInv /\ CacheInv BY DEF ReadsInv
<1>2. Latest \in Nat \ {0} /\ Latest' \in Nat /\ Latest <= Latest' BY <1>1, LatestIs DEF Grows
<1>3. TypeInv'
  <2>1. behind' \in [1 .. Replicas -> 1 .. Latest'] /\ cleared \in [{None} \cup work.keys -> 0 .. Latest']
    <3>1. 1 .. Latest \subseteq 1 .. Latest' /\ 0 .. Latest \subseteq 0 .. Latest' BY <1>2
    <3> QED BY <3>1, <1>1 DEF TypeInv
  <2>2. Calls' = Calls /\ Entries' = Entries BY SameTypes
  <2> QED BY <2>1, <2>2, <1>1 DEF TypeInv
<1>4. CacheInv'
  <2>1. ASSUME NEW n \in DOMAIN cache, NEW e \in {cache[n]} PROVE EntryInv(e)'
    <3>1. EntryInv(e) BY <1>1 DEF CacheInv
    <3> QED BY <3>1, <1>1, EntryKept
  <2> QED BY <2>1, <1>1 DEF CacheInv
<1>5. ASSUME NEW c \in Readers, NEW o \in {op[c]} PROVE FlowInv(c, o)'
  <2>1. FlowInv(c, o) BY DEF ReadsInv
  <2> QED BY <2>1, <1>1, Kept
<1> QED BY <1>3, <1>4, <1>5 DEF ReadsInv

LEMMA OpenStays == ASSUME ReadsInv, NEW c \in Readers, op[c].req.inTx, op[c].phase # "done" PROVE open # None
BY FlowHas DEF PhaseInv

LEMMA Appended ==
  ASSUME TypeInv, NEW t \in Tables, log' = Append(log, t)
  PROVE  Grows /\ log' \in Seq(Tables) /\ log' # <<>>
<1>1. log \in Seq(Tables) /\ Latest = Len(log) /\ Latest' = Len(log') BY DEF TypeInv, Latest
<1>2. Latest \in Nat /\ log' \in Seq(Tables) /\ Len(log') = Latest + 1 /\ \A n \in 1 .. Latest : log'[n] = log[n]
  BY <1>1, AppendProperties
<1>3. log' # <<>> BY <1>2, EmptySeq
<1> QED BY <1>1, <1>2, <1>3 DEF Grows

LEMMA RowWritten == ASSUME NEW t \in Tables, NEW i \in Ids, NEW row \in Stored \cup {None} PROVE [t EXCEPT ![i] = row] \in Tables
BY DEF Tables

LEMMA WorkHas == ASSUME TypeInv, NEW w \in work.writes PROVE w[1] \in Ids /\ w[2] \in Stored \cup {None}
<1>1. work \in Workloads BY DEF TypeInv
<1>2. w \in Ids \X (Stored \cup {None}) BY <1>1, WorkloadsAssumption
<1> QED BY <1>2

LEMMA SameLog == ASSUME TypeInv, log' = log PROVE Grows /\ log' \in Seq(Tables) /\ log' # <<>>
BY LatestIs DEF TypeInv, Grows, Latest

LEMMA CommitKeeps == ASSUME ReadsInv, NEW i \in Ids, NEW row \in Stored \cup {None}, Commit(i, row) PROVE ReadsInv'
<1>1. TypeInv BY DEF ReadsInv
<1>2. /\ log' = Append(log, [log[Latest] EXCEPT ![i] = row])
      /\ UNCHANGED <<work, open, behind, turn, cache, now, op, cleared>>
  BY DEF Commit, Around
<1>3. log[Latest] \in Tables BY <1>1, LatestIs
<1>4. [log[Latest] EXCEPT ![i] = row] \in Tables BY <1>3, RowWritten
<1>5. Grows /\ log' \in Seq(Tables) /\ log' # <<>> BY <1>1, <1>2, <1>4, Appended
<1>6. open' \in Tables \cup {None} /\ now' \in Nat BY <1>1, <1>2 DEF TypeInv
<1>7. \A c \in Readers : op[c].req.inTx /\ op[c].phase # "done" => open' # None BY <1>2, OpenStays
<1> QED BY <1>2, <1>5, <1>6, <1>7, DatabaseStep

LEMMA WriteInTxKeeps == ASSUME ReadsInv, NEW i \in Ids, NEW row \in Stored \cup {None}, WriteInTx(i, row) PROVE ReadsInv'
<1>1. TypeInv BY DEF ReadsInv
<1>2. /\ open' = [(IF open = None THEN log[Latest] ELSE open) EXCEPT ![i] = row]
      /\ UNCHANGED <<work, log, behind, turn, cache, now, op, cleared>>
  BY DEF WriteInTx, Around
<1>3. (IF open = None THEN log[Latest] ELSE open) \in Tables BY <1>1, LatestIs DEF TypeInv
<1>4. open' \in Tables BY <1>2, <1>3, RowWritten
<1>5. open' # None BY <1>4, Constants
<1>6. Grows /\ log' \in Seq(Tables) /\ log' # <<>> BY <1>1, <1>2, SameLog
<1>7. now' \in Nat BY <1>1, <1>2 DEF TypeInv
<1> QED BY <1>2, <1>4, <1>5, <1>6, <1>7, DatabaseStep

LEMMA EndTxKeeps == ASSUME ReadsInv, EndTx PROVE ReadsInv'
<1>1. TypeInv BY DEF ReadsInv
<1>2. /\ open # None /\ \A c \in Readers : op[c].req.inTx => op[c].phase = "done"
      /\ log' \in {log, Append(log, open)} /\ open' = None
      /\ UNCHANGED <<work, behind, turn, cache, now, op, cleared>>
  BY DEF EndTx, Around
<1>3. open \in Tables BY <1>1, <1>2 DEF TypeInv
<1>4. Grows /\ log' \in Seq(Tables) /\ log' # <<>>
  <2>1. CASE log' = log BY <2>1, <1>1, SameLog
  <2>2. CASE log' = Append(log, open) BY <2>2, <1>1, <1>3, Appended
  <2> QED BY <2>1, <2>2, <1>2
<1>5. now' \in Nat BY <1>1, <1>2 DEF TypeInv
<1> QED BY <1>2, <1>4, <1>5, DatabaseStep

LEMMA TickKeeps == ASSUME ReadsInv, Tick PROVE ReadsInv'
<1>1. TypeInv BY DEF ReadsInv
<1>2. now' = now + 1 /\ UNCHANGED <<work, log, open, behind, turn, cache, op, cleared>> BY DEF Tick, Around
<1>3. Grows /\ log' \in Seq(Tables) /\ log' # <<>> BY <1>1, <1>2, SameLog
<1>4. open' \in Tables \cup {None} /\ now' \in Nat BY <1>1, <1>2 DEF TypeInv
<1>5. \A c \in Readers : op[c].req.inTx /\ op[c].phase # "done" => open' # None BY <1>2, OpenStays
<1> QED BY <1>2, <1>3, <1>4, <1>5, DatabaseStep

LEMMA ReplicateKeeps == ASSUME ReadsInv, NEW a \in 1 .. Replicas, Replicate(a) PROVE ReadsInv'
<1>1. TypeInv BY DEF ReadsInv
<1>2. /\ behind[a] < Latest /\ behind' = [behind EXCEPT ![a] = behind[a] + 1]
      /\ UNCHANGED <<work, log, open, turn, cache, now, op, cleared>>
  BY DEF Replicate, Around
<1>3. Latest \in Nat /\ behind \in [1 .. Replicas -> 1 .. Latest] BY <1>1, LatestIs DEF TypeInv
<1>4. behind' \in [1 .. Replicas -> 1 .. Latest]
  <2>1. behind[a] + 1 \in 1 .. Latest BY <1>2, <1>3
  <2> QED BY <2>1, <1>2, <1>3
<1>5. Grows /\ log' \in Seq(Tables) /\ log' # <<>> BY <1>1, <1>2, SameLog
<1>6. open' \in Tables \cup {None} /\ now' \in Nat BY <1>1, <1>2 DEF TypeInv
<1>7. \A c \in Readers : op[c].req.inTx /\ op[c].phase # "done" => open' # None BY <1>2, OpenStays
<1> QED BY <1>2, <1>4, <1>5, <1>6, <1>7, DatabaseStep

\* Of a flow, only what is about to be cached speaks of the last invalidation.
LEMMA MarkedLate ==
  ASSUME TypeInv, NEW c \in Readers, NEW o, FlowInv(c, o), NEW late \in BOOLEAN, o.late => late,
         UNCHANGED <<work, log, open>>,
         o.phase \in Landing /\ ~late => cleared'[o.req.key] = cleared[o.req.key],
         NEW y, y = [o EXCEPT !.late = late]
  PROVE  y \in Calls /\ FlowInv(c, y)'
<1>0. o \in Calls /\ Basics(c, o) BY DEF FlowInv, Basics
<1>1. /\ y \in Calls /\ y.req = o.req /\ y.phase = o.phase /\ y.offset = o.offset /\ y.number = o.number /\ y.cursor = o.cursor
      /\ y.total = o.total /\ y.rows = o.rows /\ y.out = o.out /\ y.since = o.since /\ y.at = o.at /\ y.read = o.read
      /\ y.old = o.old /\ y.hit = o.hit /\ y.late = late /\ y.spoilt = o.spoilt /\ y.ok = o.ok
  BY <1>0 DEF Calls
<1>2. Take(y) = Take(o) /\ Going(y) = Going(o) BY <1>1 DEF Take, Limited, Going
<1>3. Latest' = Latest /\ Calls' = Calls BY SameTypes DEF Latest
<1>4. Basics(c, y)' BY <1>0, <1>1, <1>3 DEF Basics
<1>5. PhaseInv(y)' BY <1>1, <1>2 DEF FlowInv, PhaseInv, Going
<1>6. \A rows, t : PageOf(rows, t, y) = PageOf(rows, t, o) BY <1>1, <1>2 DEF PageOf
<1>7. LandInv(y)'
  <2> SUFFICES ASSUME o.phase \in Landing, o.req.kind # "fetch" PROVE PageRead(y)' BY <1>1 DEF LandInv
  <2>1. PageRead(o) BY DEF FlowInv, LandInv
  <2>2. o.read # 0 => PageOf(o.rows, log[o.read], y) BY <2>1, <1>6 DEF PageRead
  <2>3. o.req.cached => late \/ o.old \/ o.read = 0 \/ o.read >= cleared'[o.req.key] BY <2>1 DEF PageRead
  <2> QED BY <2>1, <2>2, <2>3, <1>1, <1>2 DEF PageRead, PageOf
<1>8. ASSUME NEW rows
      PROVE  (ListGot(o, rows) => ListGot(y, rows)') /\ (KidsAreTrue(o, rows) => KidsAreTrue(y, rows)')
  <2>1. ListGot(o, rows) => ListGot(y, rows)' BY <1>1, <1>2, <1>3 DEF ListGot, PageOf, Unwraps
  <2>2. KidsAreTrue(o, rows) => KidsAreTrue(y, rows)' BY <1>1, <1>3 DEF KidsAreTrue
  <2> QED BY <2>1, <2>2
<1>9. ListInv(y)'
  <2>1. ASSUME o.req.kind = "list", NEW h \in o.hit PROVE FromTheCache(y, h)' /\ h.v.at \in 0 .. Latest'
    <3>1. FromTheCache(o, h) /\ h.v.at \in 0 .. Latest BY <2>1 DEF FlowInv, ListInv
    <3> QED BY <3>1, <1>1, <1>2, <1>3 DEF FromTheCache, IsPageOf
  <2>2. (ListGot(o, o.rows) => ListGot(y, o.rows)') /\ (KidsAreTrue(o, o.rows) => KidsAreTrue(y, o.rows)') BY <1>8
  <2>3. (ListGot(o, o.out) => ListGot(y, o.out)') /\ (KidsAreTrue(o, o.out) => KidsAreTrue(y, o.out)') BY <1>8
  <2> QED BY <2>1, <2>2, <2>3, <1>1 DEF FlowInv, ListInv
<1>10. FetchInv(y)' BY <1>1, <1>8 DEF FlowInv, FetchInv
<1>11. AllInv(y)' BY <1>1, <1>3 DEF FlowInv, AllInv
<1>12. Throughout(y)' = Throughout(o) /\ Decided(y)' = Decided(o) /\ FromItsStart(y) = FromItsStart(o) /\ \A s : Goes(y, s) = Goes(o, s)
  BY <1>1, <1>3 DEF Throughout, Decided, Ties, Unkept, OwnPages, FromItsStart, Goes, Json
<1>13. CursorInv(y)'
  <2>1. CursorHas(o) => CursorHas(y)' BY <1>1, <1>3, <1>12 DEF CursorHas
  <2> QED BY <2>1, <1>1, <1>12 DEF FlowInv, CursorInv
<1>14. OffsetInv(y)'
  <2>1. OffsetHas(o) => OffsetHas(y)' BY <1>1, <1>12 DEF OffsetHas
  <2>2. PagedHas(o) => PagedHas(y)' BY <1>1 DEF PagedHas
  <2>3. OffsetDone(o) => OffsetDone(y)' BY <1>1, <1>12 DEF OffsetDone
  <2> QED BY <2>1, <2>2, <2>3, <1>1, <1>12 DEF FlowInv, OffsetInv
<1> QED BY <1>1, <1>4, <1>5, <1>7, <1>9, <1>10, <1>11, <1>13, <1>14 DEF FlowInv

LEMMA InvalidateCacheKeeps == ASSUME ReadsInv, NEW k \in {None} \cup work.keys, InvalidateCache(k) PROVE ReadsInv'
<1> DEFINE late(o) == o.late \/ (o.phase \in {"include", "set"} /\ k \in {None, o.req.key})
<1>0. TypeInv /\ CacheInv BY DEF ReadsInv
<1>1. /\ cache' = IF k = None THEN <<>> ELSE Delete(cache, <<k>>)
      /\ cleared' = [j \in DOMAIN cleared |-> IF k \in {None, j} THEN Latest ELSE cleared[j]]
      /\ op' = [c \in Readers |-> [op[c] EXCEPT !.late = late(op[c])]]
      /\ UNCHANGED <<work, log, open, behind, turn, now>>
  BY DEF InvalidateCache, Around
<1>2. Latest \in Nat \ {0} /\ Latest' = Latest /\ op \in [Readers -> Calls] /\ cleared \in [{None} \cup work.keys -> 0 .. Latest]
  BY <1>0, <1>1, LatestIs DEF TypeInv, Latest
<1>3. \A j \in {None} \cup work.keys : cleared'[j] = IF k \in {None, j} THEN Latest ELSE cleared[j] BY <1>1, <1>2
<1>4. ASSUME NEW c \in Readers, NEW o \in {op'[c]} PROVE o \in Calls /\ FlowInv(c, o)'
  <2> DEFINE q == op[c]
             l == late(q)
  <2>1. q \in Calls /\ FlowInv(c, q) /\ Basics(c, q) BY FlowHas
  <2>2. o = [q EXCEPT !.late = l] BY <1>1
  <2>3. q.req.key \in {None} \cup work.keys BY <1>0, <2>1, ReqHas
  <2>4. l \in BOOLEAN /\ (q.late => l) BY <2>1 DEF Calls
  <2>5. q.phase \in Landing /\ ~l => cleared'[q.req.key] = cleared[q.req.key] BY <2>3, <1>3 DEF Landing
  <2> HIDE DEF q, l
  <2> QED BY <2>1, <2>2, <2>4, <2>5, <1>0, <1>1, MarkedLate
<1>5. cache' \in Seq(Entries) /\ KeysOnce(cache')
      /\ \A n \in DOMAIN cache' : k # None /\ cache'[n].key # <<k>> /\ \E m \in DOMAIN cache : cache'[n] = cache[m]
  <2>1. CASE k = None
    <3>1. cache' = <<>> BY <2>1, <1>1
    <3> QED BY <3>1 DEF KeysOnce
  <2>2. CASE k # None
    <3>1. cache' = Delete(cache, <<k>>) BY <2>2, <1>1
    <3>2. cache \in Seq(Entries) /\ KeysOnce(cache) BY <1>0 DEF TypeInv, CacheInv
    <3>3. LET new == Delete(cache, <<k>>) IN
          /\ new \in Seq(Entries) /\ KeysOnce(new)
          /\ \A n \in DOMAIN new : new[n].key # <<k>> /\ \E m \in DOMAIN cache : new[n] = cache[m]
      BY <3>2, Deleted
    <3> QED BY <3>1, <3>3, <2>2
  <2> QED BY <2>1, <2>2
<1>6. ASSUME NEW n \in DOMAIN cache', NEW e \in {cache'[n]} PROVE EntryInv(e)'
  <2>1. k # None /\ e.key # <<k>> /\ \E m \in DOMAIN cache : e = cache[m] BY <1>5
  <2>2. EntryInv(e) BY <2>1, <1>0 DEF CacheInv
  <2> DEFINE v == e.value
             key == e.key
             r == e.value.req
  <2>3. PICK d \in Readers : r \in work.requests[d] BY <2>2 DEF EntryInv
  <2>4. key = IF r.key # None THEN <<r.key>> ELSE <<r.total, key[2], key[3], key[4]>> BY <2>2 DEF EntryInv
  <2>5. r.key # k BY <2>1, <2>4
  <2>6. r.key \in {None} \cup work.keys
    <3>1. work \in Workloads BY <1>0 DEF TypeInv
    <3>2. r \in Request(work.keys) BY <3>1, <2>3, WorkloadsAssumption
    <3> QED BY <3>2 DEF Request
  <2>7. cleared'[r.key] = cleared[r.key] BY <2>1, <2>5, <2>6, <1>3
  <2>8. Lasts' = Lasts BY <1>1 DEF Lasts
  <2> QED BY <2>2, <2>7, <2>8, <1>1, <1>2 DEF EntryInv
<1>7. TypeInv'
  <2>1. op' \in [Readers -> Calls]
    <3>1. \A c \in Readers : op'[c] \in Calls BY <1>4
    <3> QED BY <3>1, <1>1
  <2>2. cleared' \in [{None} \cup work.keys -> 0 .. Latest]
    <3>1. \A j \in {None} \cup work.keys : cleared'[j] \in 0 .. Latest BY <1>2, <1>3
    <3> QED BY <3>1, <1>1, <1>2
  <2>3. Calls' = Calls /\ Entries' = Entries BY <1>1, SameTypes
  <2> QED BY <2>1, <2>2, <2>3, <1>0, <1>1, <1>2, <1>5 DEF TypeInv
<1>8. CacheInv' BY <1>5, <1>6 DEF CacheInv
<1> QED BY <1>4, <1>7, <1>8 DEF ReadsInv

\* What a caller does to an entry it shares: the entry says so.
LEMMA EditedEntry ==
  ASSUME TypeInv, ~work.redis, NEW e \in Entries, EntryInv(e), NEW n \in DOMAIN e.value.rows, NEW with \in work.edits
  PROVE  Edited(e, n, with) \in Entries /\ EntryInv(Edited(e, n, with)) /\ Edited(e, n, with).key = e.key
<1> DEFINE rows == [e.value.rows EXCEPT ![n] = [e.value.rows[n] EXCEPT !.rank = with.rank, !.kids = with.kids]]
           v == [e.value EXCEPT !.rows = rows, !.edited = TRUE]
           f == Edited(e, n, with)
<1>1. e.value \in Values /\ e.key \in CacheKeys /\ e.expires \in Nat BY DEF Entries
<1>2. e.value.rows \in Seq(Got) /\ e.value.rows[n] \in Got BY <1>1 DEF Values
<1>3. with.rank \in Ranks /\ with.kids \in BOOLEAN \cup {None} BY WorkloadsAssumption DEF TypeInv, Ranks
<1>4. [e.value.rows[n] EXCEPT !.rank = with.rank, !.kids = with.kids] \in Got BY <1>2, <1>3 DEF Got
<1>5. rows \in Seq(Got)
  <2> DEFINE old == e.value.rows
             row == [old[n] EXCEPT !.rank = with.rank, !.kids = with.kids]
  <2>1. old \in Seq(Got) /\ n \in DOMAIN old /\ row \in Got BY <1>2, <1>4
  <2>2. rows = [old EXCEPT ![n] = row] OBVIOUS
  <2> HIDE DEF old, row, rows
  <2>3. old \in [1 .. Len(old) -> Got] /\ Len(old) \in Nat BY <2>1
  <2>4. [old EXCEPT ![n] = row] \in [1 .. Len(old) -> Got] BY <2>1, <2>3
  <2> QED BY <2>2, <2>3, <2>4
<1>6. f = [e EXCEPT !.value = v] BY DEF Edited
<1> HIDE DEF rows
<1>7. /\ v \in Values /\ v.at = e.value.at /\ v.late = e.value.late /\ v.req = e.value.req /\ v.old = e.value.old
      /\ v.when = e.value.when /\ v.edited = TRUE
  BY <1>1, <1>5 DEF Values
<1> HIDE DEF v, f
<1>8. f \in Entries /\ f.key = e.key /\ f.expires = e.expires /\ f.value = v BY <1>1, <1>6, <1>7 DEF Entries
<1>9. EntryInv(f) BY <1>7, <1>8 DEF EntryInv
<1> QED BY <1>8, <1>9 DEF f

LEMMA EditKeeps ==
  ASSUME ReadsInv, NEW m \in DOMAIN cache, NEW n \in DOMAIN cache[m].value.rows, NEW with \in work.edits, Edit(m, n, with)
  PROVE  ReadsInv'
<1> DEFINE f == Edited(cache[m], n, with)
<1>1. TypeInv /\ CacheInv BY DEF ReadsInv
<1>2. /\ ~work.redis /\ cache' = [cache EXCEPT ![m] = f]
      /\ UNCHANGED <<work, log, open, behind, turn, now, op, cleared>>
  BY DEF Edit, Around
<1>3. cache \in Seq(Entries) /\ KeysOnce(cache) /\ \A k \in DOMAIN cache : cache[k] \in Entries /\ EntryInv(cache[k])
  BY <1>1 DEF TypeInv, CacheInv
<1>4. f \in Entries /\ EntryInv(f) /\ f.key = cache[m].key BY <1>1, <1>2, <1>3, EditedEntry
<1> HIDE DEF f
<1>5. cache' \in Seq(Entries) /\ DOMAIN cache' = DOMAIN cache /\ \A k \in DOMAIN cache : cache'[k] = IF k = m THEN f ELSE cache[k]
  BY <1>2, <1>3, <1>4
<1>6. KeysOnce(cache') BY <1>3, <1>4, <1>5 DEF KeysOnce
<1>7. Latest' = Latest /\ Grows BY <1>1, <1>2, LatestIs DEF Latest, Grows
<1>8. TypeInv'
  <2>1. Calls' = Calls /\ Entries' = Entries BY <1>2, SameTypes
  <2> QED BY <2>1, <1>1, <1>2, <1>5, <1>7 DEF TypeInv
<1>9. CacheInv'
  <2>1. ASSUME NEW k \in DOMAIN cache', NEW e \in {cache'[k]} PROVE EntryInv(e)'
    <3>1. EntryInv(e) BY <1>3, <1>4, <1>5
    <3> QED BY <3>1, <1>1, <1>2, <1>7, EntryKept
  <2> QED BY <2>1, <1>6 DEF CacheInv
<1>10. ASSUME NEW d \in Readers, NEW o \in {op'[d]} PROVE FlowInv(d, o)'
  <2>1. FlowInv(d, o) BY <1>2 DEF ReadsInv
  <2>2. o.req.inTx /\ o.phase # "done" => open' # None BY <2>1, <1>2 DEF FlowInv, PhaseInv
  <2> QED BY <2>1, <2>2, <1>1, <1>2, <1>7, Kept
<1> QED BY <1>8, <1>9, <1>10 DEF ReadsInv

LEMMA InitKeeps == ASSUME Init PROVE ReadsInv
<1>1. /\ work \in Workloads /\ log = <<work.table>> /\ open = None /\ behind = [a \in 1 .. Replicas |-> 1]
      /\ turn = 0 /\ cache = <<>> /\ now = 0 /\ op = [c \in Readers |-> NoRead]
      /\ cleared = [k \in {None} \cup work.keys |-> 0]
  BY DEF Init
<1>2. work.table \in Tables BY <1>1, WorkloadsAssumption DEF Tables
<1>3. log \in Seq(Tables) /\ log # <<>> /\ Latest = 1 BY <1>1, <1>2 DEF Latest
<1>4. Read("none") \in Asked BY DEF Asked
<1>5. <<>> \in Seq(Got) /\ {} \in SUBSET Nat /\ {} \in SUBSET Hits /\ None \in Cursors BY DEF Cursors
<1>6. /\ NoRead \in Calls /\ NoRead.req = Read("none") /\ NoRead.since = 1 /\ NoRead.phase = "done" /\ NoRead.offset = 0
      /\ NoRead.cursor = None /\ NoRead.at = {}
  BY <1>4, <1>5 DEF NoRead, Calls
<1>7. TypeInv
  <2>1. behind \in [1 .. Replicas -> 1 .. Latest] /\ cleared \in [{None} \cup work.keys -> 0 .. Latest] BY <1>1, <1>3
  <2>2. cache \in Seq(Entries) BY <1>1
  <2>3. op \in [Readers -> Calls] BY <1>1, <1>6
  <2> QED BY <2>1, <2>2, <2>3, <1>1, <1>3 DEF TypeInv
<1>8. CacheInv
  <2>1. DOMAIN cache = {} BY <1>1
  <2> QED BY <2>1 DEF CacheInv, KeysOnce
<1>9. ASSUME NEW c \in Readers PROVE FlowInv(c, NoRead)
  <2>1. Read("none").kind = "none" BY DEF Read
  <2>2. Basics(c, NoRead) BY <1>3, <1>6, <2>1 DEF Basics
  <2>3. PhaseInv(NoRead) /\ LandInv(NoRead) /\ ListInv(NoRead) /\ FetchInv(NoRead) /\ AllInv(NoRead)
        /\ CursorInv(NoRead) /\ OffsetInv(NoRead)
    BY <1>6, <2>1 DEF PhaseInv, LandInv, Landing, ListInv, FetchInv, AllInv, CursorInv, OffsetInv
  <2> QED BY <2>2, <2>3 DEF FlowInv
<1>10. \A c \in Readers : \A o \in {op[c]} : FlowInv(c, o) BY <1>1, <1>9
<1> QED BY <1>7, <1>8, <1>10 DEF ReadsInv

LEMMA StutterKeeps == ASSUME ReadsInv, UNCHANGED vars PROVE ReadsInv'
<1>1. TypeInv BY DEF ReadsInv
<1>2. UNCHANGED <<work, log, open, behind, turn, cache, now, op, cleared>> BY DEF vars
<1>3. Grows /\ log' \in Seq(Tables) /\ log' # <<>> BY <1>1, <1>2, SameLog
<1>4. open' \in Tables \cup {None} /\ now' \in Nat BY <1>1, <1>2 DEF TypeInv
<1>5. \A c \in Readers : op[c].req.inTx /\ op[c].phase # "done" => open' # None BY <1>2, OpenStays
<1> QED BY <1>2, <1>3, <1>4, <1>5, DatabaseStep

(* ------------------------------ the theorems ------------------------------ *)

\* What every flow has of the database and of the cache, and what the cache
\* keeps, in every state of every run: the inductive invariant.
THEOREM ReadsInvariant == Spec => []ReadsInv
<1>1. Init => ReadsInv BY InitKeeps
<1>2. ReadsInv /\ [Next]_vars => ReadsInv'
  <2> SUFFICES ASSUME ReadsInv, [Next]_vars PROVE ReadsInv' OBVIOUS
  <2>1. ASSUME NEW c \in Readers, Reading(c) PROVE ReadsInv'
    BY <2>1, StartKeeps, GetKeeps, QueryKeeps, LoadIncludesKeeps, SetKeeps, FetchRelationKeeps, CountKeeps, MatchKeeps
       DEF Reading
  <2>2. ASSUME NEW w \in work.writes, Commit(w[1], w[2]) \/ WriteInTx(w[1], w[2]) PROVE ReadsInv'
    <3>1. w[1] \in Ids /\ w[2] \in Stored \cup {None} BY WorkHas DEF ReadsInv
    <3> QED BY <2>2, <3>1, CommitKeeps, WriteInTxKeeps
  <2>3. CASE EndTx BY <2>3, EndTxKeeps
  <2>4. CASE Tick BY <2>4, TickKeeps
  <2>5. ASSUME NEW a \in 1 .. Replicas, Replicate(a) PROVE ReadsInv' BY <2>5, ReplicateKeeps
  <2>6. ASSUME NEW k \in {None} \cup work.keys, InvalidateCache(k) PROVE ReadsInv' BY <2>6, InvalidateCacheKeeps
  <2>7. ASSUME NEW m \in DOMAIN cache, NEW n \in DOMAIN cache[m].value.rows, NEW with \in work.edits, Edit(m, n, with) PROVE ReadsInv'
    BY <2>7, EditKeeps
  <2>8. CASE UNCHANGED vars BY <2>8, StutterKeeps
  <2> QED BY <2>1, <2>2, <2>3, <2>4, <2>5, <2>6, <2>7, <2>8 DEF Next
<1> QED BY <1>1, <1>2, PTL DEF Spec

LEMMA OnlyOne ==
  ASSUME TypeInv, NEW c \in Readers, NEW o, Basics(c, o), Cardinality(o.at) = 1
  PROVE  \E x \in 0 .. Latest : o.at = {x} /\ (CHOOSE n \in o.at : TRUE) = x
<1>1. IsFiniteSet(0 .. Latest) /\ o.at \subseteq 0 .. Latest BY LatestIs, FS_Interval DEF Basics
<1>2. IsFiniteSet(o.at) BY <1>1, FS_Subset
<1>3. PICK x : o.at = {x} BY <1>2, FS_Singleton
<1>4. (CHOOSE n \in {x} : TRUE) = x OBVIOUS
<1> QED BY <1>1, <1>3, <1>4

LEMMA ListsTrueOf == ASSUME ReadsInv PROVE ListsAreTrue
<1> SUFFICES ASSUME NEW c \in Readers, NEW o, o = op[c], o.phase = "done"
             PROVE  /\ o.req.kind \in {"list", "fetch"} =>
                         IF o.hit = {} THEN FromTheDatabase(o) ELSE \A h \in o.hit : FromTheCache(o, h)
                    /\ o.req.kind = "all" /\ ~o.req.inTx /\ Cardinality(o.at) = 1 =>
                         LET t == log[CHOOSE n \in o.at : TRUE] IN o.ok = \A i \in Present(t) : t[i].rank # None
  BY DEF ListsAreTrue, Ended
<1>0. TypeInv /\ FlowInv(c, o) /\ Basics(c, o) /\ PhaseInv(o) BY FlowHas
<1>1. Latest \in Nat \ {0} /\ o.since \in 1 .. Latest BY <1>0, LatestIs DEF Basics
<1>2. ASSUME o.req.kind \in {"list", "fetch"}, o.hit = {} PROVE FromTheDatabase(o)
  <2>1. o.req.kind = "list" => ListGot(o, o.out) BY <1>0, <1>2 DEF FlowInv, ListInv
  <2>2. KidsAreTrue(o, o.out) BY <1>0, <1>2 DEF FlowInv, ListInv, FetchInv
  <2>3. o.req.kind = "fetch" => ~o.req.inTx /\ o.req.include
    <3>1. o.req.kind = "fetch" => o.req = Fetch BY <1>0, ReqHas
    <3> QED BY <3>1 DEF Fetch, Include, Read
  <2>4. o.cursor = None BY <1>0, <1>2 DEF Basics
  <2>5. \A t : PageOf(o.out, t, o) => IsPageOf(o.out, t, o) BY <2>4 DEF PageOf, PageIs, IsPageOf, After
  <2>6. ~o.old /\ ~o.req.inTx /\ o.req.kind = "list" => \E t \in {log[n] : n \in o.since .. Latest} : IsPageOf(o.out, t, o)
    BY <2>1, <2>5 DEF ListGot
  <2>7. ~o.old /\ o.req.include =>
          \A n \in DOMAIN o.out : \E t \in {log[m] : m \in o.since .. Latest} : o.out[n].kids = HasKids(t, o.out[n].id)
    BY <2>2 DEF KidsAreTrue
  <2>8. (o.req.inTx => o.at = {0}) /\ (Unwraps(o.req.primary) /\ ~o.req.include => ~o.old) BY <2>1, <2>3, <1>2 DEF ListGot
  <2> QED BY <2>6, <2>7, <2>8 DEF FromTheDatabase
<1>3. ASSUME o.req.kind \in {"list", "fetch"}, o.hit # {} PROVE \A h \in o.hit : FromTheCache(o, h)
  BY <1>0, <1>3 DEF FlowInv, ListInv, FetchInv
<1>4. ASSUME o.req.kind = "all", ~o.req.inTx, Cardinality(o.at) = 1
      PROVE  LET t == log[CHOOSE n \in o.at : TRUE] IN o.ok = \A i \in Present(t) : t[i].rank # None
  <2>1. PICK x \in 0 .. Latest : o.at = {x} /\ (CHOOSE n \in o.at : TRUE) = x BY <1>0, <1>4, OnlyOne
  <2>2. o.ok = Known(log[x]) BY <2>1, <1>0, <1>4 DEF FlowInv, AllInv
  <2> QED BY <2>1, <2>2 DEF Known
<1> QED BY <1>2, <1>3, <1>4

\* A list from the database is the page of one state since it began, of the
\* transaction's own state inside it, of an older one only from a replica, which
\* usePrimary() excludes where no wrapper is in its way; one from the cache is no
\* older than its time to live nor than the last invalidation of its key, and the
\* page that was asked for unless a caller changed it there; all() answers for the
\* state it counted twice.
THEOREM ListsAlwaysTrue == Spec => []ListsAreTrue
BY ReadsInvariant, ListsTrueOf, PTL

LEMMA MetOnce ==
  ASSUME NEW out, NEW i
  PROVE  Once(out, i) => Times(out, i) = 1
<1> SUFFICES ASSUME Once(out, i) PROVE Times(out, i) = 1 OBVIOUS
<1>1. PICK n \in DOMAIN out : out[n].id = i /\ \A m \in DOMAIN out : out[m].id = i => m = n BY DEF Once
<1>2. {m \in DOMAIN out : out[m].id = i} = {n} BY <1>1
<1> QED BY <1>2, FS_Singleton DEF Times

LEMMA RowsOnceOf == ASSUME ReadsInv PROVE EachRowOnce
<1> SUFFICES ASSUME NEW c \in Readers, NEW o, o = op[c], o.phase = "done", o.req.kind \in Paging, Decided(o), FromItsStart(o),
                    o.req.kind # "cursor" => Cardinality(o.at) = 1
             PROVE  /\ \A i \in Throughout(o) : (o.req.kind = "chunk" => o.req.limit = None) => Times(o.out, i) = 1
                    /\ o.req.kind = "cursor" \/ \A i \in Ids : Times(o.out, i) <= 1
                    /\ o.req.kind = "chunk" /\ o.req.limit # None =>
                         Len(o.out) = Min2(o.req.limit, Cardinality(Present(log[CHOOSE n \in o.at : TRUE])))
  BY DEF EachRowOnce, Ended, Decided
<1>0. TypeInv /\ o \in Calls /\ FlowInv(c, o) /\ Basics(c, o) BY FlowHas
<1>1. Latest \in Nat \ {0} /\ o.since \in 1 .. Latest BY <1>0, LatestIs DEF Basics
<1>2. CASE o.req.kind = "cursor"
  <2>1. \A i \in Throughout(o) : Once(o.out, i) BY <1>0, <1>2 DEF FlowInv, CursorInv
  <2> QED BY <2>1, <1>2, MetOnce
<1>3. CASE o.req.kind # "cursor"
  <2>1. PICK x \in 0 .. Latest : o.at = {x} /\ (CHOOSE n \in o.at : TRUE) = x BY <1>0, <1>3, OnlyOne
  <2>2. x \in o.since .. Latest /\ x # 0
    <3>1. x \notin 0 .. o.since - 1 BY <2>1 DEF FromItsStart
    <3> QED BY <3>1, <1>1
  <2>3. o.req.kind \in Pagers BY <1>3 DEF Paging, Pagers
  <2>4. OffsetDone(o) BY <2>3, <1>0 DEF FlowInv, OffsetInv, Pagers
  <2>5. PICK s \in Orders(log[x], Present(log[x]), o.req.total) : Follows(o.out, s) /\ Len(o.out) = Goes(o, s)
    BY <2>1, <2>2, <2>4 DEF OffsetDone
  <2>6. /\ Len(s) \in Nat /\ Len(s) = Cardinality(Present(log[x])) /\ DOMAIN s = 1 .. Len(s)
        /\ \A m, n \in 1 .. Len(s) : s[m] = s[n] => m = n
        /\ \A i \in Present(log[x]) : \E n \in 1 .. Len(s) : s[n] = i
    BY PresentAre, OrdersGoThrough
  <2>7. Len(o.out) \in Nat /\ DOMAIN o.out = 1 .. Len(o.out) BY <1>0, OutHas
  <2>8. \A m, n \in DOMAIN o.out : o.out[m].id = o.out[n].id => m = n
    <3>1. ASSUME NEW m \in DOMAIN o.out, NEW n \in DOMAIN o.out, o.out[m].id = o.out[n].id PROVE m = n
      <4>1. m \in 1 .. Len(s) /\ n \in 1 .. Len(s) /\ s[m] = s[n] BY <3>1, <2>5, <2>6 DEF Follows
      <4> QED BY <4>1, <2>6
    <3> QED BY <3>1
  <2>9. ASSUME NEW i \in Throughout(o), o.req.kind = "chunk" => o.req.limit = None PROVE Times(o.out, i) = 1
    <3>1. i \in Present(log[x]) BY <2>2, <1>0, <1>1, StaysSo
    <3>2. PICK n \in 1 .. Len(s) : s[n] = i BY <3>1, <2>6
    <3>3. Len(o.out) = Len(s) BY <2>5, <2>9 DEF Goes
    <3>4. n \in DOMAIN o.out BY <3>2, <3>3, <2>7, <2>6
    <3>5. o.out[n].id = i BY <3>2, <3>4, <2>5 DEF Follows
    <3>6. Once(o.out, i) BY <3>4, <3>5, <2>8 DEF Once
    <3> QED BY <3>6, MetOnce
  <2>10. ASSUME NEW i \in Ids PROVE Times(o.out, i) <= 1
    <3>1. CASE \E n \in DOMAIN o.out : o.out[n].id = i
      <4>1. Once(o.out, i) BY <3>1, <2>8 DEF Once
      <4>2. Times(o.out, i) = 1 BY <4>1, MetOnce
      <4> QED BY <4>2
    <3>2. CASE ~ \E n \in DOMAIN o.out : o.out[n].id = i
      <4>1. {n \in DOMAIN o.out : o.out[n].id = i} = {} BY <3>2
      <4>2. Times(o.out, i) = 0 BY <4>1, FS_EmptySet DEF Times
      <4> QED BY <4>2
    <3> QED BY <3>1, <3>2
  <2>11. o.req.kind = "chunk" /\ o.req.limit # None => Len(o.out) = Min2(o.req.limit, Cardinality(Present(log[x])))
    BY <2>5, <2>6 DEF Goes
  <2> QED BY <2>1, <2>9, <2>10, <2>11
<1> QED BY <1>2, <1>3

\* A flow that pages through a table, by cursor or by offset, from the database
\* or through the cache, meets every row that stays there once, if the order has
\* no ties, a cursor meets no NULL and no rank that JSON changes, and no caller
\* changed a page in the cache.
THEOREM EveryRowOnce == Spec => []EachRowOnce
BY ReadsInvariant, RowsOnceOf, PTL
=============================================================================
