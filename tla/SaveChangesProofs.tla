------------------------- MODULE SaveChangesProofs -------------------------
(***************************************************************************)
(* Proofs about SaveChanges: for any contexts and objects, any number of   *)
(* objects of one row among them, optimistic locking loses no update and   *)
(* the tracker's states tell the truth unless a rollback, an edit during   *)
(* the save or a second object of the row spoils them.                     *)
(*                                                                         *)
(* The properties are about commits, so the inductive invariant says what  *)
(* a save carries until then: the entries it still has to flush, the rows  *)
(* it holds, and how the versions there and in the tracker relate to the   *)
(* committed ones.                                                         *)
(***************************************************************************)
EXTENDS SaveChanges, FiniteSetTheorems, TLAPS

AtWork == {"insert", "update", "delete"}
Tracked(o) == state[o] # "Untracked"
Unread(e) == \A o \in Objects : Row[o] = e => base[o] = Never

(* A save has each entry once to flush, its own and pending still; it has  *)
(* sent what the first of them is checked against.                         *)
QueueInv ==
  \A u \in Contexts :
    /\ IsInjective(todo[u])
    /\ \A o \in Range(todo[u]) : /\ Owner[o] = u
                                 /\ o \notin accepted[u]
                                 /\ state[o] \in Pending
                                 /\ Expected(o) < MaxVersion
    /\ \A o \in accepted[u] : Owner[o] = u /\ state[o] \notin {"Untracked", "Added"}
    /\ phase[u] = "idle" => todo[u] = <<>> /\ accepted[u] = {}
    /\ phase[u] \in AtWork =>
         /\ todo[u] # <<>>
         /\ sent[u] \in Content
         /\ sent[u].ver = Expected(Entry(u))
    /\ phase[u] = "insert" => Entry(u) \in New /\ base[Entry(u)] = Never
    /\ phase[u] = "delete" => state[Entry(u)] = "Deleted"

(* What the entries of tracked objects hold. *)
EntryInv ==
  \A o \in Objects :
    /\ Tracked(o) => mem[o] \in Content /\ orig[o] \in Content
    /\ Tracked(o) /\ o \notin New => orig[o].ver # 0 /\ base[o] # Never
    /\ state[o] = "Added" => o \in New /\ base[o] = Never
    /\ state[o] = "Unchanged" => mem[o] = orig[o]

(* A transaction has changed exactly the rows of the objects it accepted,  *)
(* and no two have changed the same row.                                   *)
LockInv ==
  \A u \in Contexts, e \in Rows :
    /\ tent[u][e] = None <=> Saved(u, e) = {}
    /\ \A t \in Contexts : tent[u][e] # None /\ tent[t][e] # None => t = u

(* The states tell the truth: of what is committed, or of what will be.    *)
StoredInv ==
  \A o \in Objects \ spoiled :
    IF o \in accepted[Owner[o]]
      THEN LET c == tent[Owner[o]][Row[o]]
           IN /\ state[o] = "Unchanged" => Shows(o, c)
              /\ state[o] = "Detached" => c = Gone
              /\ c # Gone => orig[o].ver = c.ver
      ELSE /\ Stored(o)
           /\ Tracked(o) /\ base[o] \in Versioned => orig[o].ver = base[o].ver

(* Versions only grow, and each stands for one content of its row.  A row  *)
(* that is to be created was read by nobody, and one deleted stays so.     *)
RowInv ==
  /\ \A u \in Contexts, e \in Rows : tent[u][e] \in Versioned =>
       /\ db[e] \in Versioned => tent[u][e].ver = db[e].ver + Cardinality(Saved(u, e))
       /\ db[e] = Gone => Unread(e)
  /\ \A p \in New : base[p] = Never =>
       /\ db[Row[p]] = Gone
       /\ Unread(Row[p])
       /\ \A u \in Contexts : tent[u][Row[p]] # None => p \in accepted[u]
  /\ \A o \in Objects :
       /\ base[o] = Gone => db[Row[o]] = Gone
       /\ base[o] \in Versioned /\ db[Row[o]] \in Versioned =>
            /\ base[o].ver <= db[Row[o]].ver
            /\ base[o].ver = db[Row[o]].ver => base[o] = db[Row[o]]

(* What a commit will write over is what its objects had read. *)
ReadInv ==
  \A u \in Contexts : \A o \in accepted[u] \ (spoiled \cup New) : db[Row[o]] = base[o]

IInv == TypeOK /\ QueueInv /\ EntryInv /\ LockInv /\ StoredInv /\ RowInv /\ ReadInv

-----------------------------------------------------------------------------
(* Sequences and finite sets *)

(* Flushing the first of several different entries leaves the others.      *)
LEMMA FlushFirst ==
  ASSUME NEW s \in Seq(Objects), s # <<>>, IsInjective(s)
  PROVE  /\ Head(s) \in Objects
         /\ Head(s) \in Range(s)
         /\ Tail(s) \in Seq(Objects)
         /\ IsInjective(Tail(s))
         /\ Range(Tail(s)) = Range(s) \ {Head(s)}
<1>1. Len(s) \in Nat \ {0} /\ DOMAIN s = 1..Len(s) /\ Head(s) = s[1]
  OBVIOUS
<1>2. /\ Tail(s) \in Seq(Objects)
      /\ DOMAIN Tail(s) = 1..(Len(s) - 1)
      /\ \A i \in 1..(Len(s) - 1) : Tail(s)[i] = s[i + 1]
  BY <1>1
<1>3. \A i, j \in 1..Len(s) : s[i] = s[j] => i = j
  BY <1>1 DEF IsInjective
<1>4. IsInjective(Tail(s))
  BY <1>1, <1>2, <1>3 DEF IsInjective
<1>5. \A x \in Range(Tail(s)) : x \in Range(s) /\ x # Head(s)
  BY <1>1, <1>2, <1>3 DEF Range
<1>6. ASSUME NEW x \in Range(s), x # Head(s)
      PROVE  x \in Range(Tail(s))
  <2>1. PICK i \in 1..Len(s) : s[i] = x
    BY <1>1 DEF Range
  <2>2. i - 1 \in 1..(Len(s) - 1) /\ Tail(s)[i - 1] = s[i]
    BY <2>1, <1>1, <1>2, <1>6
  <2> QED
    BY <2>1, <2>2, <1>2 DEF Range
<1>7. Head(s) \in Objects /\ Head(s) \in Range(s)
  BY <1>1 DEF Range
<1>8. Range(Tail(s)) = Range(s) \ {Head(s)}
  BY <1>5, <1>6
<1> QED
  BY <1>2, <1>4, <1>7, <1>8

(* The entries that a save starts with are listed in some order, once each. *)
LEMMA ListedOnce ==
  ASSUME NEW S \in SUBSET Objects, NEW s \in SetToSeqs(S)
  PROVE  s \in Seq(Objects) /\ IsInjective(s) /\ Range(s) \subseteq S
<1>1. Cardinality(S) \in Nat
  BY SaveAssumption, FS_Subset, FS_CardinalityType
<1>2. s \in [1..Cardinality(S) -> S] /\ \A i, j \in 1..Cardinality(S) : i # j => s[i] # s[j]
  BY DEF SetToSeqs
<1> QED
  BY <1>1, <1>2 DEF IsInjective, Range

(* An empty list has no entry. *)
LEMMA NothingListed == <<>> \in Seq(Objects) /\ IsInjective(<<>>) /\ Range(<<>>) = {}
BY DEF IsInjective, Range

-----------------------------------------------------------------------------
(* What a save accepts, row by row *)

(* A save accepts finitely many objects of a row.                          *)
LEMMA SavedFinite ==
  ASSUME TypeOK, NEW u \in Contexts, NEW e
  PROVE  IsFiniteSet(Saved(u, e)) /\ Cardinality(Saved(u, e)) \in Nat
<1>1. Saved(u, e) \in SUBSET Objects
  BY DEF Saved, TypeOK
<1> QED
  BY <1>1, FS_Subset, FS_CardinalityType, SaveAssumption

-----------------------------------------------------------------------------
(* The initial state *)

(* Before anything is read, nothing is to be said but that the rows which  *)
(* will be created are not there.                                          *)
LEMMA Starts == Init => IInv
<1> SUFFICES ASSUME Init PROVE IInv
  OBVIOUS
<1> USE DEF Init
<1>1. \A o \in Objects : Row[o] \in Rows
  BY DEF Rows
<1>2. TypeOK
  <2>1. db \in [Rows -> Versioned \cup {Gone}]
    <3>1. [val : Values, ver : {1}] \subseteq Versioned
      BY SaveAssumption DEF Versioned
    <3> QED
      BY <3>1
  <2> QED
    BY <2>1, NothingListed DEF TypeOK, States
<1>3. QueueInv
  BY NothingListed DEF QueueInv, AtWork
<1>4. EntryInv
  BY DEF EntryInv, Tracked
<1>5. LockInv
  BY DEF LockInv, Saved
<1>6. StoredInv
  BY SaveAssumption DEF StoredInv, Stored, Shows, Tracked
<1>7. RowInv
  <2>1. \A u \in Contexts, e \in Rows : tent[u][e] \notin Versioned
    BY MarkAssumption DEF Versioned, Content, None
  <2>2. \A p \in New : db[Row[p]] = Gone
    BY SaveAssumption
  <2>3. \A o \in Objects : base[o] \notin Versioned \cup {Gone}
    BY MarkAssumption DEF Versioned, Content
  <2>4. \A p \in New : Row[p] \in Rows
    BY <1>1, SaveAssumption
  <2> QED
    BY <2>1, <2>2, <2>3, <2>4 DEF RowInv, Unread
<1>8. ReadInv
  BY DEF ReadInv
<1> QED
  BY <1>2, <1>3, <1>4, <1>5, <1>6, <1>7, <1>8 DEF IInv

-----------------------------------------------------------------------------
(* Starting a save, sending a statement, and its failure *)

(* Such a step changes only the list of a save, its phase and what it has  *)
(* sent; what is tracked, held and committed stays as it is.               *)
LEMMA OnlyTheQueue ==
  ASSUME IInv, TypeOK', QueueInv', UNCHANGED <<db, tent, memory, accepted, base, spoiled, filled>>
  PROVE  IInv'
<1> USE DEF IInv, memory
<1>1. \A u, e : Saved(u, e)' = Saved(u, e)
  BY DEF Saved
<1>2. EntryInv'
  BY DEF EntryInv, Tracked
<1>3. LockInv'
  BY <1>1 DEF LockInv
<1>4. StoredInv'
  BY DEF StoredInv, Stored, Shows, Tracked
<1>5. RowInv'
  BY <1>1 DEF RowInv, Unread
<1>6. ReadInv'
  BY DEF ReadInv
<1> QED
  BY <1>2, <1>3, <1>4, <1>5, <1>6

(* Save lists the pending entries of its context.                          *)
LEMMA SaveStep ==
  ASSUME IInv, NEW u \in Contexts, Save(u)
  PROVE  IInv'
<1> USE DEF IInv
<1>1. /\ phase[u] = "idle"
      /\ phase' = [phase EXCEPT ![u] = "next"]
      /\ UNCHANGED <<db, tent, memory, sent, accepted, base, spoiled, filled>>
      /\ \A o \in Mine(u) : state[o] \in Pending => Expected(o) < MaxVersion
  BY DEF Save
<1>2. PICK s \in SetToSeqs({o \in Mine(u) : state[o] \in Pending}) : todo' = [todo EXCEPT ![u] = s]
  BY DEF Save
<1>3. /\ s \in Seq(Objects) /\ IsInjective(s)
      /\ \A o \in Range(s) : o \in Mine(u) /\ state[o] \in Pending
  <2>1. {o \in Mine(u) : state[o] \in Pending} \in SUBSET Objects
    BY DEF Mine
  <2> QED
    BY <2>1, ListedOnce
<1>4. TypeOK'
  BY <1>1, <1>2, <1>3 DEF TypeOK, memory
<1>5. QueueInv'
  <2> SUFFICES ASSUME NEW t \in Contexts
               PROVE  QueueInv!(t)'
    BY DEF QueueInv
  <2>1. CASE t = u
    <3>1. todo'[t] = s /\ phase'[t] = "next" /\ accepted'[t] = {}
      BY <2>1, <1>1, <1>2 DEF TypeOK, QueueInv
    <3>2. \A o \in Range(s) : Owner[o] = u /\ state'[o] \in Pending /\ Expected(o)' < MaxVersion
      BY <1>1, <1>3 DEF Mine, Expected, memory
    <3> QED
      BY <2>1, <1>3, <3>1, <3>2 DEF AtWork
  <2>2. CASE t # u
    <3>1. todo'[t] = todo[t] /\ phase'[t] = phase[t] /\ sent'[t] = sent[t] /\ accepted'[t] = accepted[t]
      BY <2>2, <1>1, <1>2 DEF TypeOK
    <3> QED
      BY <3>1, <1>1 DEF QueueInv, Expected, Entry, memory
  <2> QED
    BY <2>1, <2>2
<1> QED
  BY <1>1, <1>4, <1>5, OnlyTheQueue

(* Send looks at the first entry, which is pending still, and sends it.    *)
LEMMA SendStep ==
  ASSUME IInv, NEW u \in Contexts, Send(u)
  PROVE  IInv'
<1> USE DEF IInv
<1> DEFINE o == Entry(u)
<1>1. /\ phase[u] = "next" /\ todo[u] # <<>>
      /\ UNCHANGED <<db, tent, memory, accepted, base, spoiled, filled>>
  BY DEF Send
<1>2. todo[u] \in Seq(Objects) /\ IsInjective(todo[u])
  BY DEF TypeOK, QueueInv
<1>3. o \in Objects /\ o \in Range(todo[u])
  BY <1>1, <1>2, FlushFirst DEF Entry
<1>4. state[o] \in Pending /\ Expected(o) < MaxVersion
  BY <1>3 DEF QueueInv
<1>5. mem[o] \in Content /\ orig[o] \in Content
  BY <1>3, <1>4 DEF EntryInv, Tracked, Pending
<1>6. [val |-> mem[o].val, ver |-> Expected(o)] \in Content
  BY <1>5 DEF Content, Expected
<1>7. /\ phase' = [phase EXCEPT ![u] =
             CASE state[o] = "Added" -> "insert"
               [] state[o] = "Modified" -> "update"
               [] state[o] = "Deleted" -> "delete"]
      /\ sent' = [sent EXCEPT ![u] = [val |-> mem[o].val, ver |-> Expected(o)]]
      /\ UNCHANGED todo
  BY <1>4 DEF Send
<1>8. /\ phase'[u] \in AtWork
      /\ phase'[u] = "insert" => state[o] = "Added"
      /\ phase'[u] = "delete" => state[o] = "Deleted"
      /\ phase' = [phase EXCEPT ![u] = phase'[u]]
  BY <1>4, <1>7 DEF Pending, AtWork, TypeOK
<1>9. TypeOK'
  BY <1>1, <1>6, <1>7, <1>8 DEF TypeOK, memory, AtWork
<1>10. QueueInv'
  <2> SUFFICES ASSUME NEW t \in Contexts
               PROVE  QueueInv!(t)'
    BY DEF QueueInv
  <2>1. CASE t = u
    <3>1. sent'[t] = [val |-> mem[o].val, ver |-> Expected(o)]
      BY <2>1, <1>7 DEF TypeOK
    <3>2. Entry(t)' = o /\ Expected(o)' = Expected(o) /\ todo'[t] # <<>>
      BY <2>1, <1>1, <1>7 DEF Entry, Expected, memory
    <3>3. phase'[t] = "insert" => o \in New /\ base[o] = Never
      BY <2>1, <1>3, <1>8 DEF EntryInv
    <3>4. /\ IsInjective(todo'[t])
          /\ \A x \in Range(todo'[t]) : /\ Owner[x] = t
                                        /\ x \notin accepted'[t]
                                        /\ state'[x] \in Pending
                                        /\ Expected(x)' < MaxVersion
          /\ \A x \in accepted'[t] : Owner[x] = t /\ state'[x] \notin {"Untracked", "Added"}
      BY <1>1, <1>7 DEF QueueInv, Expected, memory
    <3>5. phase'[t] # "idle"
      BY <2>1, <1>8 DEF AtWork
    <3> QED
      BY <2>1, <1>1, <1>6, <1>8, <3>1, <3>2, <3>3, <3>4, <3>5 DEF memory
  <2>2. CASE t # u
    <3>1. todo'[t] = todo[t] /\ phase'[t] = phase[t] /\ sent'[t] = sent[t] /\ accepted'[t] = accepted[t]
      BY <2>2, <1>1, <1>7, <1>8 DEF TypeOK
    <3> QED
      BY <3>1, <1>1 DEF QueueInv, Expected, Entry, memory
  <2> QED
    BY <2>1, <2>2
<1> QED
  BY <1>1, <1>9, <1>10, OnlyTheQueue

(* A statement that fails changes nothing but the phase.                   *)
LEMMA FailStep ==
  ASSUME IInv, NEW u \in Contexts, Fail(u)
  PROVE  IInv'
<1> USE DEF IInv
<1>1. /\ phase' = [phase EXCEPT ![u] = "rollback"]
      /\ UNCHANGED <<db, tent, memory, todo, sent, accepted, base, spoiled, filled>>
  BY DEF Fail
<1>2. TypeOK'
  BY <1>1 DEF TypeOK, memory
<1>3. QueueInv'
  <2>1. \A t \in Contexts : phase'[t] # "rollback" => phase'[t] = phase[t]
    BY <1>1 DEF TypeOK
  <2> QED
    BY <1>1, <2>1 DEF QueueInv, AtWork, Expected, Entry, memory
<1> QED
  BY <1>1, <1>2, <1>3, OnlyTheQueue
-----------------------------------------------------------------------------
(* What the user does with the objects, also during a save *)

(* The entries that a save under way has listed stay pending, and what     *)
(* they are checked against stays the same, when the user leaves the       *)
(* versions alone and un-marks nothing.                                    *)
LEMMA UserTouchesNoSave ==
  ASSUME IInv, SavingUnchanged,
         \A o \in New : base'[o] = base[o],
         \A o \in Objects : Tracked(o) /\ phase[Owner[o]] # "idle" =>
           /\ orig'[o] = orig[o] /\ mem'[o].ver = mem[o].ver
           /\ state'[o] # "Untracked"
           /\ state'[o] = "Added" => state[o] = "Added"
           /\ state[o] \in Pending => state'[o] \in Pending
           /\ state[o] = "Deleted" => state'[o] = "Deleted"
  PROVE  QueueInv'
<1> USE DEF IInv
<1>1. UNCHANGED <<db, tent, phase, todo, sent, accepted>>
  BY DEF SavingUnchanged
<1> SUFFICES ASSUME NEW u \in Contexts
             PROVE  QueueInv!(u)'
  BY DEF QueueInv
<1>2. CASE phase[u] = "idle"
  BY <1>1, <1>2, NothingListed DEF QueueInv, AtWork
<1>3. CASE phase[u] # "idle"
  <2>1. Range(todo[u]) \subseteq Objects /\ accepted[u] \subseteq Objects
    BY DEF TypeOK, Range
  <2>2. \A o \in Range(todo[u]) : Tracked(o) /\ phase[Owner[o]] # "idle"
    BY <1>3 DEF QueueInv, Tracked, Pending
  <2>3. phase[u] \in AtWork => Entry(u) \in Range(todo[u]) /\ Entry(u)' = Entry(u)
    BY <1>1, FlushFirst DEF QueueInv, TypeOK, Entry
  <2>4. \A o \in Range(todo[u]) :
          /\ Owner[o] = u /\ o \notin accepted'[u]
          /\ state'[o] \in Pending
          /\ Expected(o)' = Expected(o) /\ Expected(o)' < MaxVersion
    BY <1>1, <2>1, <2>2 DEF QueueInv, Expected
  <2>5. \A o \in accepted[u] : Owner[o] = u /\ state'[o] \notin {"Untracked", "Added"}
    BY <1>3, <2>1 DEF QueueInv, Tracked
  <2>6. phase[u] \in AtWork =>
          todo[u] # <<>> /\ sent[u] \in Content /\ sent[u].ver = Expected(Entry(u))'
    BY <2>3, <2>4 DEF QueueInv
  <2>7. phase[u] = "insert" => Entry(u) \in New /\ base'[Entry(u)] = Never
    BY <2>3 DEF QueueInv, AtWork
  <2>8. phase[u] = "delete" => state'[Entry(u)] = "Deleted"
    BY <2>1, <2>2, <2>3 DEF QueueInv, AtWork
  <2> QED
    BY <1>1, <1>3, <2>3, <2>4, <2>5, <2>6, <2>7, <2>8 DEF QueueInv, AtWork
<1> QED
  BY <1>2, <1>3

(* Marking or editing an object alters neither snapshots nor versions.     *)
LEMMA UserTouchesNoRow ==
  ASSUME IInv, SavingUnchanged, UNCHANGED base
  PROVE  LockInv' /\ RowInv'
<1>1. \A u, e : Saved(u, e)' = Saved(u, e)
  BY DEF SavingUnchanged, Saved
<1> QED
  BY <1>1 DEF IInv, SavingUnchanged, LockInv, RowInv, Unread

(* track() of a row that was read. *)
LEMMA TrackStep ==
  ASSUME IInv, NEW o \in Objects, Track(o)
  PROVE  IInv'
<1> USE DEF IInv
<1>1. /\ state[o] = "Untracked" /\ o \notin New
      /\ db[Row[o]] # Gone
      /\ mem' = [mem EXCEPT ![o] = db[Row[o]]]
      /\ orig' = [orig EXCEPT ![o] = db[Row[o]]]
      /\ state' = [state EXCEPT ![o] = "Unchanged"]
      /\ base' = [base EXCEPT ![o] = db[Row[o]]]
      /\ UNCHANGED <<spoiled, filled>>
      /\ SavingUnchanged
      /\ UNCHANGED <<db, tent, phase, todo, sent, accepted>>
  BY DEF Track, SavingUnchanged
<1>2. db[Row[o]] \in Versioned
  BY <1>1 DEF TypeOK, Rows
<1>3. db[Row[o]] \in Content /\ db[Row[o]].ver # 0
  BY <1>2, SaveAssumption DEF Versioned, Content
<1>4. TypeOK'
  BY <1>1, <1>2, <1>3 DEF TypeOK, States
<1>5. QueueInv'
  <2>1. \A p \in New : base'[p] = base[p]
    BY <1>1 DEF TypeOK
  <2>2. \A p \in Objects : Tracked(p) => /\ orig'[p] = orig[p] /\ mem'[p] = mem[p]
                                         /\ state'[p] = state[p]
    BY <1>1 DEF TypeOK, Tracked
  <2> QED
    BY <1>1, <2>1, <2>2, UserTouchesNoSave DEF Tracked
<1>6. EntryInv'
  <2>1. Never \notin Content
    BY MarkAssumption
  <2> QED
    BY <1>1, <1>3, <2>1 DEF EntryInv, Tracked, TypeOK
<1>7. \A u, e : Saved(u, e)' = Saved(u, e)
  BY <1>1 DEF Saved
<1>8. LockInv'
  BY <1>1, <1>7 DEF LockInv
<1>9. o \notin accepted[Owner[o]]
  BY <1>1, SaveAssumption DEF QueueInv
<1>10. StoredInv'
  <2>1. Stored(o)' /\ orig'[o].ver = base'[o].ver
    BY <1>1, <1>2 DEF Stored, Shows, TypeOK
  <2>2. \A p \in Objects \ {o} : /\ mem'[p] = mem[p] /\ orig'[p] = orig[p]
                                 /\ state'[p] = state[p] /\ base'[p] = base[p]
    BY <1>1 DEF TypeOK
  <2> QED
    BY <1>1, <1>9, <2>1, <2>2 DEF StoredInv, Stored, Shows, Tracked
<1>11. RowInv'
  <2>1. \A p \in Objects \ {o} : base'[p] = base[p]
    BY <1>1 DEF TypeOK
  <2>2. base'[o] = db[Row[o]]
    BY <1>1 DEF TypeOK
  <2>3. \A e : e # Row[o] /\ Unread(e) => Unread(e)'
    BY <2>1 DEF Unread
  <2>4. \A p \in New : base'[p] = Never => Row[p] # Row[o] /\ base[p] = Never
    BY <1>1, <2>1, SaveAssumption DEF RowInv
  <2>5. RowInv!1'
    BY <1>1, <1>7, <2>3 DEF RowInv
  <2>6. RowInv!2'
    BY <1>1, <2>3, <2>4 DEF RowInv
  <2>7. RowInv!3'
    <3>1. db[Row[o]].ver \in Nat
      BY <1>3, SaveAssumption DEF Content
    <3> QED
      BY <1>1, <2>1, <2>2, <3>1 DEF RowInv
  <2> QED
    BY <2>5, <2>6, <2>7 DEF RowInv
<1>12. ReadInv'
  BY <1>1 DEF ReadInv, TypeOK
<1> QED
  BY <1>4, <1>5, <1>6, <1>8, <1>10, <1>11, <1>12

(* add() of an object that was never stored. *)
LEMMA AddStep ==
  ASSUME IInv, NEW o \in Objects, Add(o)
  PROVE  IInv'
<1> USE DEF IInv
<1>1. /\ state[o] = "Untracked" /\ o \in New /\ base[o] = Never
      /\ state' = [state EXCEPT ![o] = "Added"]
      /\ UNCHANGED <<base, spoiled, filled>>
      /\ SavingUnchanged
      /\ UNCHANGED <<db, tent, phase, todo, sent, accepted>>
  BY DEF Add, SavingUnchanged
<1>2. PICK v \in Values : /\ mem' = [mem EXCEPT ![o] = [val |-> v, ver |-> 0]]
                          /\ orig' = [orig EXCEPT ![o] = [val |-> v, ver |-> 0]]
  BY DEF Add
<1>3. [val |-> v, ver |-> 0] \in Content
  BY SaveAssumption DEF Content
<1>4. TypeOK'
  BY <1>1, <1>2, <1>3 DEF TypeOK, States
<1>5. QueueInv'
  <2>1. \A p \in Objects : Tracked(p) => /\ orig'[p] = orig[p] /\ mem'[p] = mem[p]
                                         /\ state'[p] = state[p]
    BY <1>1, <1>2 DEF TypeOK, Tracked
  <2> QED
    BY <1>1, <2>1, UserTouchesNoSave DEF Tracked
<1>6. EntryInv'
  BY <1>1, <1>2, <1>3 DEF EntryInv, Tracked, TypeOK
<1>7. LockInv' /\ RowInv'
  BY <1>1, UserTouchesNoRow
<1>8. StoredInv'
  <2>1. o \notin accepted[Owner[o]]
    BY <1>1, SaveAssumption DEF QueueInv
  <2>2. \A p \in Objects \ {o} : /\ mem'[p] = mem[p] /\ orig'[p] = orig[p] /\ state'[p] = state[p]
    BY <1>1, <1>2 DEF TypeOK
  <2>3. state'[o] = "Added" /\ base[o] \notin Versioned
    BY <1>1, MarkAssumption DEF TypeOK, Versioned, Content
  <2> QED
    BY <1>1, <2>1, <2>2, <2>3 DEF StoredInv, Stored, Shows, Tracked
<1>9. ReadInv'
  BY <1>1 DEF ReadInv
<1> QED
  BY <1>4, <1>5, <1>6, <1>7, <1>8, <1>9

(* An edit, during a save as well, marks the entry unless nothing changes. *)
LEMMA EditStep ==
  ASSUME IInv, NEW o \in Objects, Edit(o)
  PROVE  IInv'
<1> USE DEF IInv
<1>1. /\ state[o] # "Untracked"
      /\ UNCHANGED <<orig, base, spoiled, filled>>
      /\ SavingUnchanged
      /\ UNCHANGED <<db, tent, phase, todo, sent, accepted>>
  BY DEF Edit, SavingUnchanged
<1>2. PICK v \in Values :
        /\ mem' = [mem EXCEPT ![o].val = v]
        /\ state' = [state EXCEPT ![o] =
             IF @ \notin {"Added", "Deleted"} /\ v # orig[o].val THEN "Modified" ELSE @]
  BY DEF Edit
<1>3. mem[o] \in Content /\ orig[o] \in Content
  BY <1>1 DEF EntryInv, Tracked
<1>4. mem'[o] = [val |-> v, ver |-> mem[o].ver] /\ mem'[o] \in Content
  BY <1>2, <1>3 DEF TypeOK, Content
<1>5. /\ state'[o] \in {state[o], "Modified"}
      /\ state'[o] # state[o] => state[o] \notin {"Added", "Deleted"}
      /\ state'[o] = "Unchanged" => state[o] = "Unchanged" /\ v = orig[o].val
  BY <1>2 DEF TypeOK
<1>6. \A p \in Objects \ {o} : mem'[p] = mem[p] /\ state'[p] = state[p]
  BY <1>2 DEF TypeOK
<1>7. state'[o] = "Unchanged" => mem'[o] = mem[o]
  BY <1>3, <1>4, <1>5 DEF EntryInv, Content
<1>8. TypeOK'
  BY <1>1, <1>2, <1>4, <1>5 DEF TypeOK, States
<1>9. QueueInv'
  <2>1. \A p \in Objects : Tracked(p) =>
          /\ mem'[p].ver = mem[p].ver
          /\ state'[p] # "Untracked"
          /\ state'[p] = "Added" => state[p] = "Added"
          /\ state[p] \in Pending => state'[p] \in Pending
          /\ state[p] = "Deleted" => state'[p] = "Deleted"
    BY <1>4, <1>5, <1>6 DEF Tracked, Pending
  <2> QED
    BY <1>1, <2>1, UserTouchesNoSave
<1>10. EntryInv'
  BY <1>1, <1>4, <1>5, <1>6, <1>7 DEF EntryInv, Tracked
<1>11. LockInv' /\ RowInv'
  BY <1>1, UserTouchesNoRow
<1>12. StoredInv'
  BY <1>1, <1>5, <1>6, <1>7 DEF StoredInv, Stored, Shows, Tracked
<1>13. ReadInv'
  BY <1>1 DEF ReadInv
<1> QED
  BY <1>8, <1>9, <1>10, <1>11, <1>12, <1>13

(* remove() marks the entry. *)
LEMMA MarkDeletedStep ==
  ASSUME IInv, NEW o \in Objects, MarkDeleted(o)
  PROVE  IInv'
<1> USE DEF IInv
<1>1. /\ state[o] # "Untracked"
      /\ state' = [state EXCEPT ![o] = "Deleted"]
      /\ UNCHANGED <<mem, orig, base, spoiled, filled>>
      /\ SavingUnchanged
      /\ UNCHANGED <<db, tent, phase, todo, sent, accepted>>
  BY DEF MarkDeleted, SavingUnchanged
<1>2. state'[o] = "Deleted" /\ \A p \in Objects \ {o} : state'[p] = state[p]
  BY <1>1 DEF TypeOK
<1>3. TypeOK'
  BY <1>1 DEF TypeOK, States
<1>4. QueueInv'
  BY <1>1, <1>2, UserTouchesNoSave DEF Pending, Tracked
<1>5. EntryInv'
  BY <1>1, <1>2 DEF EntryInv, Tracked
<1>6. LockInv' /\ RowInv'
  BY <1>1, UserTouchesNoRow
<1>7. StoredInv'
  BY <1>1, <1>2 DEF StoredInv, Stored, Shows, Tracked
<1>8. ReadInv'
  BY <1>1 DEF ReadInv
<1> QED
  BY <1>3, <1>4, <1>5, <1>6, <1>7, <1>8

(* clear() forgets the objects of a context that saves nothing.            *)
LEMMA ClearStep ==
  ASSUME IInv, NEW u \in Contexts, Clear(u)
  PROVE  IInv'
<1> USE DEF IInv
<1>1. /\ phase[u] = "idle"
      /\ state' = [o \in Objects |-> IF o \in Mine(u) THEN "Untracked" ELSE state[o]]
      /\ mem' = [o \in Objects |-> IF o \in Mine(u) THEN Never ELSE mem[o]]
      /\ orig' = [o \in Objects |-> IF o \in Mine(u) THEN Never ELSE orig[o]]
      /\ base' = [o \in Objects |-> IF o \in Mine(u) \ New THEN Never ELSE base[o]]
      /\ spoiled' = spoiled \ Mine(u)
      /\ filled' = filled \ Mine(u)
      /\ SavingUnchanged
      /\ UNCHANGED <<db, tent, phase, todo, sent, accepted>>
  BY DEF Clear, SavingUnchanged
<1>2. \A o \in Objects : o \in Mine(u) <=> Owner[o] = u
  BY DEF Mine
<1>3. \A o \in Objects : Owner[o] # u =>
        /\ state'[o] = state[o] /\ mem'[o] = mem[o] /\ orig'[o] = orig[o]
        /\ base'[o] = base[o] /\ (o \in spoiled' <=> o \in spoiled)
        /\ (o \in filled' <=> o \in filled)
  BY <1>1, <1>2
<1>4. \A o \in Objects : Owner[o] = u =>
        /\ state'[o] = "Untracked" /\ o \notin accepted[u]
        /\ o \notin New => base'[o] = Never
  BY <1>1, <1>2 DEF QueueInv
<1>5. \A o \in Objects : base'[o] \in {base[o], Never} /\ (o \in New => base'[o] = base[o])
  BY <1>1
<1>6. TypeOK'
  BY <1>1 DEF TypeOK, States
<1>7. QueueInv'
  BY <1>1, <1>3, <1>5, SaveAssumption, UserTouchesNoSave DEF Tracked
<1>8. EntryInv'
  BY <1>3, <1>4 DEF EntryInv, Tracked
<1>9. \A t, e : Saved(t, e)' = Saved(t, e)
  BY <1>1 DEF Saved
<1>10. LockInv'
  BY <1>1, <1>9 DEF LockInv
<1>11. StoredInv'
  BY <1>1, <1>3, <1>4 DEF StoredInv, Stored, Shows, Tracked
<1>12. RowInv'
  <2>1. \A e : Unread(e) => Unread(e)'
    BY <1>5 DEF Unread
  <2>2. Never \notin Versioned \cup {Gone}
    BY MarkAssumption DEF Versioned, Content
  <2> QED
    BY <1>1, <1>5, <1>9, <2>1, <2>2, SaveAssumption DEF RowInv
<1>13. ReadInv'
  <2>1. \A t \in Contexts : \A o \in accepted[t] : o \in Objects /\ Owner[o] = t /\ Owner[o] # u
    BY <1>4 DEF QueueInv, TypeOK
  <2> QED
    BY <1>1, <1>3, <2>1 DEF ReadInv
<1> QED
  BY <1>6, <1>7, <1>8, <1>10, <1>11, <1>12, <1>13
-----------------------------------------------------------------------------
(* A statement that succeeds, and the acceptChanges() after it *)

(* What INSERT, UPDATE and DELETE have in common.  c is what the row holds *)
(* then and obj what the object does.  The truth of the entry's new state  *)
(* rests on the assumptions about obj and changed, the optimistic locking  *)
(* on those about db.                                                      *)
LEMMA StatementStep ==
  ASSUME IInv, NEW u \in Contexts, phase[u] \in AtWork,
         NEW o, o = Entry(u), NEW e, e = Row[o],
         NEW c \in Versioned \cup {Gone}, NEW obj \in Content, NEW changed \in BOOLEAN,
         Unlocked(u, e), Put(u, e, c), Accept(u, o, obj), Spoil(u, o, changed),
         UNCHANGED <<db, base>>,
         filled' \in SUBSET Objects,
         \A p \in Objects \ {o} : p \in filled' <=> p \in filled,
         c = Gone => state[o] = "Deleted",
         c # Gone => /\ obj.ver = c.ver
                     /\ changed \/ (state[o] # "Deleted" /\ (obj = c \/ o \in filled')),
         c # Gone /\ db[e] # Gone => c.ver = db[e].ver + Cardinality(Saved(u, e)) + 1,
         c # Gone /\ db[e] = Gone => Unread(e),
         \A p \in New : Row[p] = e /\ base[p] = Never => p = o \/ p \in accepted[u],
         o \notin spoiled \cup New => db[e] = base[o]
  PROVE  IInv'
<1> USE DEF IInv
<1>1. /\ o \in Objects /\ o \in Range(todo[u]) /\ e \in Rows
      /\ Tail(todo[u]) \in Seq(Objects) /\ IsInjective(Tail(todo[u]))
      /\ Range(Tail(todo[u])) = Range(todo[u]) \ {o}
  BY FlushFirst DEF QueueInv, TypeOK, Entry, Rows
<1>2. /\ Owner[o] = u /\ o \notin accepted[u]
      /\ state[o] \in Pending /\ mem[o] \in Content /\ orig[o] \in Content
      /\ o \notin New => orig[o].ver # 0 /\ base[o] # Never
  BY <1>1 DEF QueueInv, EntryInv, Tracked, Pending
<1>3. /\ mem' = [mem EXCEPT ![o] = obj]
      /\ accepted' = [accepted EXCEPT ![u] = @ \cup {o}]
      /\ todo' = [todo EXCEPT ![u] = Tail(@)]
      /\ phase' = [phase EXCEPT ![u] = "next"]
      /\ sent' = [sent EXCEPT ![u] = None]
      /\ tent' = [tent EXCEPT ![u][e] = c]
      /\ spoiled' = spoiled \cup Saved(u, e) \cup IF changed THEN {o} ELSE {}
  BY DEF Accept, Put, Spoil
<1>4. \/ /\ state[o] = "Deleted"
         /\ state' = [state EXCEPT ![o] = "Detached"]
         /\ orig' = orig
      \/ /\ state[o] # "Deleted"
         /\ state' = [state EXCEPT ![o] = "Unchanged"]
         /\ orig' = [orig EXCEPT ![o] = obj]
  BY DEF Accept
<1>5. mem'[o] = obj /\ \A p \in Objects \ {o} : /\ mem'[p] = mem[p]
                                                /\ orig'[p] = orig[p]
                                                /\ state'[p] = state[p]
  BY <1>1, <1>3, <1>4 DEF TypeOK
<1>6. \/ state[o] = "Deleted" /\ state'[o] = "Detached" /\ orig'[o] = orig[o]
      \/ state[o] # "Deleted" /\ state'[o] = "Unchanged" /\ orig'[o] = obj
  BY <1>1, <1>4 DEF TypeOK
<1>7. /\ tent'[u][e] = c
      /\ \A t \in Contexts, f \in Rows : t # u \/ f # e => tent'[t][f] = tent[t][f]
  BY <1>1, <1>3 DEF TypeOK
<1>8. /\ accepted'[u] = accepted[u] \cup {o} /\ todo'[u] = Tail(todo[u]) /\ phase'[u] = "next"
      /\ \A t \in Contexts \ {u} : /\ accepted'[t] = accepted[t] /\ todo'[t] = todo[t]
                                   /\ phase'[t] = phase[t] /\ sent'[t] = sent[t]
  BY <1>3 DEF TypeOK
<1>9. /\ \A t \in Contexts : \A f : t # u \/ f # e => Saved(t, f)' = Saved(t, f)
      /\ Saved(u, e)' = Saved(u, e) \cup {o}
      /\ Cardinality(Saved(u, e)') = Cardinality(Saved(u, e)) + 1
  <2>1. /\ \A t \in Contexts : \A f : t # u \/ f # e => Saved(t, f)' = Saved(t, f)
        /\ Saved(u, e)' = Saved(u, e) \cup {o}
        /\ o \notin Saved(u, e)
    BY <1>2, <1>3 DEF Saved, TypeOK
  <2>2. Cardinality(Saved(u, e) \cup {o}) = Cardinality(Saved(u, e)) + 1
    BY <2>1, SavedFinite, FS_AddElement
  <2> QED
    BY <2>1, <2>2
<1>10. None \notin Versioned \cup {Gone} /\ Gone \notin Versioned
  BY MarkAssumption DEF Versioned, None, Content
<1>11. TypeOK'
  <2>1. tent' \in [Contexts -> [Rows -> Versioned \cup {Gone, None}]]
    <3>1. tent[u] \in [Rows -> Versioned \cup {Gone, None}]
      BY DEF TypeOK
    <3>2. [tent[u] EXCEPT ![e] = c] \in [Rows -> Versioned \cup {Gone, None}]
      BY <3>1, <1>1
    <3>3. tent' = [tent EXCEPT ![u] = [tent[u] EXCEPT ![e] = c]]
      BY <1>3
    <3> QED
      BY <3>2, <3>3 DEF TypeOK
  <2>2. state' \in [Objects -> States] /\ orig' \in [Objects -> Content \cup {Never}]
    <3>1. {"Detached", "Unchanged"} \subseteq States
      BY DEF States
    <3>2. state \in [Objects -> States] /\ orig \in [Objects -> Content \cup {Never}]
      BY DEF TypeOK
    <3>3. \A x \in States : [state EXCEPT ![o] = x] \in [Objects -> States]
      BY <3>2
    <3>4. [orig EXCEPT ![o] = obj] \in [Objects -> Content \cup {Never}]
      BY <3>2
    <3> QED
      BY <1>4, <3>1, <3>2, <3>3, <3>4
  <2>3. spoiled' \in SUBSET Objects
    BY <1>1, <1>3 DEF TypeOK, Saved
  <2>4. todo' \in [Contexts -> Seq(Objects)] /\ accepted' \in [Contexts -> SUBSET Objects]
    BY <1>1, <1>3 DEF TypeOK
  <2> QED
    BY <1>1, <1>3, <2>1, <2>2, <2>3, <2>4 DEF TypeOK
<1>12. QueueInv'
  <2> SUFFICES ASSUME NEW t \in Contexts
               PROVE  QueueInv!(t)'
    BY DEF QueueInv
  <2>1. CASE t = u
    <3>1. \A p \in Range(todo[u]) \ {o} :
            /\ p \in Objects /\ Owner[p] = u /\ p \notin accepted'[u]
            /\ state'[p] \in Pending /\ Expected(p)' < MaxVersion
      BY <1>5, <1>8 DEF QueueInv, TypeOK, Range, Expected
    <3>2. \A p \in accepted'[u] : Owner[p] = u /\ state'[p] \notin {"Untracked", "Added"}
      BY <1>2, <1>5, <1>6, <1>8 DEF QueueInv, TypeOK
    <3> QED
      BY <2>1, <1>1, <1>8, <3>1, <3>2 DEF AtWork
  <2>2. CASE t # u
    <3>1. \A p \in Range(todo[t]) \cup accepted[t] : p \in Objects \ {o}
      BY <2>2, <1>2 DEF QueueInv, TypeOK, Range
    <3>2. phase[t] \in AtWork => Entry(t) \in Range(todo[t]) /\ Entry(t)' = Entry(t)
      BY <2>2, <1>8, FlushFirst DEF QueueInv, TypeOK, Entry
    <3>3. \A p \in Range(todo[t]) \cup accepted[t] : /\ state'[p] = state[p]
                                                     /\ Expected(p)' = Expected(p)
      BY <1>5, <3>1 DEF Expected
    <3> QED
      BY <2>2, <1>8, <3>2, <3>3 DEF QueueInv, AtWork
  <2> QED
    BY <2>1, <2>2
<1>13. EntryInv'
  <2>1. o \notin New => orig'[o].ver # 0
    BY <1>2, <1>6, SaveAssumption DEF Versioned
  <2> QED
    BY <1>2, <1>5, <1>6, <2>1 DEF EntryInv, Tracked
<1>14. LockInv'
  <2>1. \A t \in Contexts \ {u} : tent[t][e] = None
    BY DEF Unlocked
  <2> QED
    BY <1>1, <1>7, <1>9, <1>10, <2>1 DEF LockInv
<1>15. \A p \in Objects \ {o} : p \in accepted'[Owner[p]] <=> p \in accepted[Owner[p]]
  BY <1>8, SaveAssumption
<1>16. StoredInv'
  <2> SUFFICES ASSUME NEW p \in Objects \ spoiled'
               PROVE  StoredInv!(p)'
    BY DEF StoredInv
  <2>1. CASE p = o
    <3>1. ~changed /\ p \in accepted'[Owner[p]] /\ tent'[Owner[p]][Row[p]] = c
      BY <2>1, <1>2, <1>3, <1>7, <1>8
    <3> QED
      BY <2>1, <1>5, <1>6, <3>1 DEF Shows
  <2>2. CASE p # o /\ p \in accepted[Owner[p]]
    <3>1. Owner[p] # u \/ Row[p] # e
      BY <2>2, <1>3 DEF Saved
    <3>2. tent'[Owner[p]][Row[p]] = tent[Owner[p]][Row[p]]
      BY <1>7, <3>1, SaveAssumption DEF Rows
    <3> QED
      BY <2>2, <1>3, <1>5, <1>15, <3>2 DEF StoredInv, Shows
  <2>3. CASE p # o /\ p \notin accepted[Owner[p]]
    BY <2>3, <1>3, <1>5, <1>15 DEF StoredInv, Stored, Shows, Tracked
  <2> QED
    BY <2>1, <2>2, <2>3
<1>17. RowInv'
  <2>1. RowInv!1'
    <3> SUFFICES ASSUME NEW t \in Contexts, NEW f \in Rows, tent'[t][f] \in Versioned
                 PROVE  /\ db[f] \in Versioned =>
                             tent'[t][f].ver = db[f].ver + Cardinality(Saved(t, f)')
                        /\ db[f] = Gone => Unread(f)
      BY DEF RowInv, Unread
    <3>1. CASE t = u /\ f = e
      <4>1. c # Gone /\ db[f] \in Versioned => db[f].ver \in Nat /\ db[f] # Gone
        BY <1>10, SaveAssumption DEF Versioned
      <4>2. Cardinality(Saved(u, e)) \in Nat
        BY SavedFinite
      <4>3. tent'[t][f] = c /\ c # Gone
        BY <1>7, <1>10, <3>1
      <4>4. db[f] \in Versioned => c.ver = db[f].ver + Cardinality(Saved(u, e)')
        BY <1>9, <3>1, <4>1, <4>2, <4>3
      <4> QED
        BY <3>1, <4>3, <4>4
    <3>2. CASE t # u \/ f # e
      BY <1>7, <1>9, <3>2 DEF RowInv
    <3> QED
      BY <3>1, <3>2
  <2>2. RowInv!2'
    <3> SUFFICES ASSUME NEW p \in New, base[p] = Never, NEW t \in Contexts, tent'[t][Row[p]] # None
                 PROVE  p \in accepted'[t]
      BY DEF RowInv, Unread
    <3>1. Row[p] \in Rows
      BY SaveAssumption DEF Rows
    <3> QED
      BY <1>7, <1>8, <3>1 DEF RowInv
  <2>3. RowInv!3'
    BY DEF RowInv
  <2> QED
    BY <2>1, <2>2, <2>3 DEF RowInv
<1>18. ReadInv'
  BY <1>3, <1>8 DEF ReadInv
<1> QED
  BY <1>11, <1>12, <1>13, <1>14, <1>16, <1>17, <1>18

(* The entry whose statement is under way. *)
LEMMA EntryAtWork ==
  ASSUME IInv, NEW u \in Contexts, phase[u] \in AtWork, NEW o, o = Entry(u)
  PROVE  /\ o \in Objects /\ Row[o] \in Rows
         /\ Owner[o] = u /\ o \notin accepted[u]
         /\ state[o] \in Pending /\ mem[o] \in Content /\ orig[o] \in Content
         /\ o \notin New => orig[o].ver # 0 /\ base[o] # Never
         /\ sent[u] \in Content
         /\ sent[u].ver = Expected(o) /\ Expected(o) < MaxVersion
<1>1. o \in Objects /\ o \in Range(todo[u])
  BY FlushFirst DEF IInv, QueueInv, TypeOK, Entry
<1>2. /\ Owner[o] = u /\ o \notin accepted[u] /\ state[o] \in Pending
      /\ sent[u] \in Content /\ sent[u].ver = Expected(o) /\ Expected(o) < MaxVersion
  BY <1>1 DEF IInv, QueueInv
<1> QED
  BY <1>1, <1>2 DEF IInv, EntryInv, Tracked, Pending, Rows

(* Optimistic locking: if the row still has the version that the entry is  *)
(* checked against, then it has gone through the save's own objects only,  *)
(* and nobody committed anything over what a loaded object had read.       *)
LEMMA MatchMeansUnchanged ==
  ASSUME IInv, NEW u \in Contexts, phase[u] \in AtWork,
         NEW o, o = Entry(u), NEW e, e = Row[o], Matches(u, e)
  PROVE  /\ db[e] # Gone => sent[u].ver = db[e].ver + Cardinality(Saved(u, e))
         /\ db[e] = Gone => Unread(e)
         /\ \A p \in New : Row[p] = e /\ base[p] = Never => p \in accepted[u]
         /\ o \notin spoiled \cup New => db[e] = base[o]
<1> USE DEF IInv
<1>1. /\ o \in Objects /\ e \in Rows /\ Owner[o] = u /\ o \notin accepted[u]
      /\ orig[o] \in Content /\ state[o] \in Pending
      /\ o \notin New => orig[o].ver # 0 /\ base[o] # Never
      /\ sent[u].ver = Expected(o)
  BY EntryAtWork
<1>2. Visible(u, e) # Gone /\ Visible(u, e).ver = sent[u].ver
  BY DEF Matches
<1>3. /\ db[e] \in Versioned \cup {Gone} /\ tent[u][e] \in Versioned \cup {Gone, None}
      /\ base[o] \in Versioned \cup {Gone, Never}
  BY <1>1 DEF TypeOK
<1>4. \/ tent[u][e] = None /\ db[e] \in Versioned /\ db[e].ver = sent[u].ver
      \/ tent[u][e] \in Versioned /\ tent[u][e].ver = sent[u].ver
  BY <1>2, <1>3 DEF Visible
<1>5. Gone \notin Versioned
  BY MarkAssumption DEF Versioned, Content
<1>6. \A v \in Versioned : v.ver \in Nat
  BY SaveAssumption DEF Versioned
<1>7. Cardinality(Saved(u, e)) \in Nat
  BY SavedFinite
<1>8. tent[u][e] = None => Cardinality(Saved(u, e)) = 0
  BY <1>1, FS_EmptySet DEF LockInv
<1>9. tent[u][e] \in Versioned => Cardinality(Saved(u, e)) > 0
  <2>1. tent[u][e] \in Versioned => tent[u][e] # None
    BY MarkAssumption DEF Versioned, None
  <2> QED
    BY <1>1, <1>7, <2>1, SavedFinite, FS_EmptySet DEF LockInv
<1>10. db[e] # Gone => sent[u].ver = db[e].ver + Cardinality(Saved(u, e))
  BY <1>1, <1>3, <1>4, <1>6, <1>8 DEF RowInv
<1>11. db[e] = Gone => Unread(e)
  BY <1>1, <1>4, <1>5 DEF RowInv
<1>12. \A p \in New : Row[p] = e /\ base[p] = Never => p \in accepted[u]
  <2>1. tent[u][e] \in Versioned => tent[u][e] # None
    BY MarkAssumption DEF Versioned, None
  <2> QED
    BY <1>4, <1>5, <2>1 DEF RowInv
<1>13. ASSUME o \notin spoiled \cup New
       PROVE  db[e] = base[o]
  <2>1. base[o] # Never
    BY <1>1, <1>13
  <2>2. db[e] \in Versioned
    BY <1>1, <1>3, <1>11, <2>1 DEF Unread
  <2>3. base[o] \in Versioned
    BY <1>1, <1>3, <1>5, <2>1, <2>2 DEF RowInv
  <2>4. sent[u].ver = orig[o].ver
    BY <1>1, <1>13 DEF Expected
  <2>5. orig[o].ver = base[o].ver
    BY <1>1, <1>13, <2>3 DEF StoredInv, Tracked, Pending
  <2>6. base[o].ver <= db[e].ver /\ (base[o].ver = db[e].ver => base[o] = db[e])
    BY <1>1, <2>2, <2>3 DEF RowInv
  <2>7. base[o].ver = db[e].ver
    BY <1>5, <1>6, <1>7, <1>10, <2>2, <2>3, <2>4, <2>5, <2>6
  <2> QED
    BY <2>6, <2>7
<1> QED
  BY <1>10, <1>11, <1>12, <1>13

(* set.add() creates a row that was never there. *)
LEMMA InsertStep ==
  ASSUME IInv, NEW u \in Contexts, Insert(u)
  PROVE  IInv'
<1>1. PICK o : o = Entry(u)
  OBVIOUS
<1>2. phase[u] = "insert" /\ phase[u] \in AtWork
  BY DEF Insert, AtWork
<1>3. PICK v \in Values :
        LET c == [val |-> v, ver |-> 1]
        IN /\ Unlocked(u, Row[o]) /\ Put(u, Row[o], c)
           /\ Accept(u, o, c) /\ Spoil(u, o, state[o] = "Deleted")
           /\ filled' = filled \ {o}
           /\ UNCHANGED <<db, base>>
  BY <1>1 DEF Insert, Completed
<1> DEFINE c == [val |-> v, ver |-> 1]
           changed == state[o] = "Deleted"
<1>4. o \in Objects /\ o \in New /\ base[o] = Never
  BY <1>1, <1>2, EntryAtWork DEF IInv, QueueInv
<1>5. c \in Versioned /\ c \in Content
  BY SaveAssumption DEF Versioned, Content
<1>6. c # Gone
  BY <1>5, MarkAssumption
<1>7. db[Row[o]] = Gone /\ Unread(Row[o])
  BY <1>4 DEF IInv, RowInv
<1>8. \A p \in New : Row[p] = Row[o] => p = o
  BY <1>4, SaveAssumption
<1>9. changed \in BOOLEAN /\ (changed \/ state[o] # "Deleted")
  OBVIOUS
<1>10. filled' \in SUBSET Objects /\ \A p \in Objects \ {o} : p \in filled' <=> p \in filled
  BY <1>3 DEF IInv, TypeOK
<1>11. /\ Unlocked(u, Row[o]) /\ Put(u, Row[o], c)
       /\ Accept(u, o, c) /\ Spoil(u, o, changed)
       /\ UNCHANGED <<db, base>>
  BY <1>3
<1> HIDE DEF c, changed
<1> QED
  BY <1>1, <1>2, <1>4, <1>5, <1>6, <1>7, <1>8, <1>9, <1>10, <1>11, StatementStep

(* set.update() writes the version after the one it is checked against.    *)
LEMMA UpdateStep ==
  ASSUME IInv, NEW u \in Contexts, Update(u)
  PROVE  IInv'
<1>1. PICK o : o = Entry(u)
  OBVIOUS
<1>2. phase[u] \in AtWork
  BY DEF Update, AtWork
<1>3. PICK v \in Values :
        LET c == [val |-> v, ver |-> sent[u].ver + 1]
        IN /\ Unlocked(u, Row[o]) /\ Matches(u, Row[o]) /\ Put(u, Row[o], c)
           /\ Accept(u, o, [mem[o] EXCEPT !.ver = c.ver])
           /\ Spoil(u, o, state[o] = "Deleted" \/ mem[o].val # sent[u].val)
           /\ Fill(u, o, v)
           /\ UNCHANGED <<db, base>>
  BY <1>1 DEF Update, Completed
<1> DEFINE c == [val |-> v, ver |-> sent[u].ver + 1]
           obj == [mem[o] EXCEPT !.ver = c.ver]
           changed == state[o] = "Deleted" \/ mem[o].val # sent[u].val
<1>4. /\ o \in Objects /\ Row[o] \in Rows /\ mem[o] \in Content /\ orig[o] \in Content
      /\ sent[u] \in Content /\ sent[u].ver < MaxVersion
  BY <1>1, <1>2, EntryAtWork
<1>5. c \in Versioned /\ obj \in Content /\ obj.ver = c.ver
  BY <1>4, SaveAssumption DEF Versioned, Content
<1>6. c # Gone
  BY <1>5, MarkAssumption DEF Versioned, Content
<1>7. /\ filled' \in SUBSET Objects
      /\ \A p \in Objects \ {o} : p \in filled' <=> p \in filled
      /\ o \notin filled' => v = sent[u].val
  BY <1>3, <1>4 DEF Fill, IInv, TypeOK
<1>8. ASSUME ~changed, o \notin filled'
      PROVE  obj = c
  <2>1. mem[o].val = v
    BY <1>7, <1>8
  <2> QED
    BY <1>4, <2>1 DEF Content
<1>9. changed \in BOOLEAN /\ (changed \/ (state[o] # "Deleted" /\ (obj = c \/ o \in filled')))
  BY <1>8
<1>10. /\ db[Row[o]] # Gone => sent[u].ver = db[Row[o]].ver + Cardinality(Saved(u, Row[o]))
       /\ db[Row[o]] = Gone => Unread(Row[o])
       /\ \A p \in New : Row[p] = Row[o] /\ base[p] = Never => p \in accepted[u]
       /\ o \notin spoiled \cup New => db[Row[o]] = base[o]
  BY <1>1, <1>2, <1>3, MatchMeansUnchanged
<1>11. db[Row[o]] # Gone => c.ver = db[Row[o]].ver + Cardinality(Saved(u, Row[o])) + 1
  BY <1>10
<1>12. /\ Unlocked(u, Row[o]) /\ Put(u, Row[o], c)
       /\ Accept(u, o, obj) /\ Spoil(u, o, changed)
       /\ UNCHANGED <<db, base>>
  BY <1>3
<1> HIDE DEF c, obj, changed
<1> QED
  BY <1>1, <1>2, <1>5, <1>6, <1>7, <1>9, <1>10, <1>11, <1>12, StatementStep

(* set.remove() takes the row away, unchecked only for a created object.   *)
LEMMA DeleteStep ==
  ASSUME IInv, NEW u \in Contexts, Delete(u)
  PROVE  IInv'
<1>1. PICK o : o = Entry(u)
  OBVIOUS
<1> DEFINE obj == mem[o]
           changed == FALSE
<1>2. phase[u] = "delete" /\ phase[u] \in AtWork
  BY DEF Delete, AtWork
<1>3. /\ Unlocked(u, Row[o]) /\ Put(u, Row[o], Gone)
      /\ Accept(u, o, obj) /\ Spoil(u, o, changed)
      /\ UNCHANGED <<db, base, filled>> /\ filled' \in SUBSET Objects
      /\ Matches(u, Row[o]) \/ sent[u].ver = 0
  BY <1>1 DEF Delete, IInv, TypeOK
<1>4. /\ o \in Objects /\ obj \in Content /\ changed \in BOOLEAN /\ orig[o] \in Content
      /\ o \notin New => orig[o].ver # 0
      /\ sent[u].ver = Expected(o) /\ state[o] = "Deleted"
  BY <1>1, <1>2, EntryAtWork DEF IInv, QueueInv
<1> HIDE DEF obj, changed
<1>5. CASE Matches(u, Row[o])
  <2>1. /\ \A p \in New : Row[p] = Row[o] /\ base[p] = Never => p \in accepted[u]
        /\ o \notin spoiled \cup New => db[Row[o]] = base[o]
    BY <1>1, <1>2, <1>5, MatchMeansUnchanged
  <2> QED
    BY <1>1, <1>2, <1>3, <1>4, <2>1, StatementStep
<1>6. CASE sent[u].ver = 0
  <2>1. o \in New
    BY <1>4, <1>6 DEF Expected
  <2>2. \A p \in New : Row[p] = Row[o] => p = o
    BY <2>1, SaveAssumption
  <2> QED
    BY <1>1, <1>2, <1>3, <1>4, <2>1, <2>2, StatementStep
<1> QED
  BY <1>3, <1>5, <1>6

-----------------------------------------------------------------------------
(* The end of the transaction *)

(* What both ends of it clear away. *)
LEMMA EndClears ==
  ASSUME IInv, NEW u \in Contexts, EndSave(u),
         \A o \in New : o \notin accepted[u] => base'[o] = base[o]
  PROVE  /\ QueueInv'
         /\ \A t \in Contexts \ {u} : tent'[t] = tent[t] /\ accepted'[t] = accepted[t]
         /\ accepted'[u] = {} /\ \A e \in Rows : tent'[u][e] = None
         /\ LockInv'
         /\ UNCHANGED memory
<1> USE DEF IInv
<1>1. /\ tent' = [tent EXCEPT ![u] = [e \in Rows |-> None]]
      /\ todo' = [todo EXCEPT ![u] = <<>>]
      /\ sent' = [sent EXCEPT ![u] = None]
      /\ accepted' = [accepted EXCEPT ![u] = {}]
      /\ phase' = [phase EXCEPT ![u] = "idle"]
      /\ UNCHANGED <<mem, orig, state>>
  BY DEF EndSave, memory
<1>2. \A t \in Contexts \ {u} : /\ tent'[t] = tent[t] /\ todo'[t] = todo[t] /\ sent'[t] = sent[t]
                                /\ accepted'[t] = accepted[t] /\ phase'[t] = phase[t]
  BY <1>1 DEF TypeOK
<1>3. /\ todo'[u] = <<>> /\ accepted'[u] = {} /\ phase'[u] = "idle"
      /\ \A e \in Rows : tent'[u][e] = None
  BY <1>1 DEF TypeOK
<1>4. QueueInv'
  <2> SUFFICES ASSUME NEW t \in Contexts
               PROVE  QueueInv!(t)'
    BY DEF QueueInv
  <2>1. CASE t = u
    BY <2>1, <1>3, NothingListed DEF AtWork
  <2>2. CASE t # u
    <3>1. \A o : Expected(o)' = Expected(o)
      BY <1>1 DEF Expected
    <3>2. /\ todo'[t] = todo[t] /\ sent'[t] = sent[t]
          /\ accepted'[t] = accepted[t] /\ phase'[t] = phase[t]
      BY <2>2, <1>2
    <3>3. Entry(t)' = Entry(t)
      BY <3>2 DEF Entry
    <3>4. phase[t] = "insert" => base'[Entry(t)] = Never
      <4>1. phase[t] = "insert" => Entry(t) \in New /\ base[Entry(t)] = Never /\ Owner[Entry(t)] = t
        BY EntryAtWork DEF QueueInv, AtWork
      <4>2. \A o \in accepted[u] : Owner[o] = u
        BY DEF QueueInv
      <4> QED
        BY <2>2, <4>1, <4>2
    <3> QED
      BY <1>1, <3>1, <3>2, <3>3, <3>4 DEF QueueInv
  <2> QED
    BY <2>1, <2>2
<1>5. LockInv'
  <2>1. \A t \in Contexts \ {u} : \A e : Saved(t, e)' = Saved(t, e)
    BY <1>2 DEF Saved
  <2>2. \A e : Saved(u, e)' = {}
    BY <1>3 DEF Saved
  <2> QED
    BY <1>2, <1>3, <2>1, <2>2 DEF LockInv
<1> QED
  BY <1>1, <1>2, <1>3, <1>4, <1>5 DEF memory

(* COMMIT publishes the rows of the accepted objects, and no others.       *)
LEMMA CommitPublishes ==
  ASSUME IInv, NEW u \in Contexts, Commit(u)
  PROVE  /\ \A e \in Rows : tent[u][e] = None =>
              /\ db'[e] = db[e]
              /\ \A o \in Objects : Row[o] = e => base'[o] = base[o] /\ o \notin accepted[u]
         /\ \A e \in Rows : tent[u][e] # None => db'[e] = tent[u][e]
         /\ \A o \in accepted[u] : /\ o \in Objects /\ Owner[o] = u /\ Row[o] \in Rows
                                   /\ tent[u][Row[o]] # None
                                   /\ base'[o] = tent[u][Row[o]]
         /\ \A o \in Objects \ accepted[u] : base'[o] = base[o]
<1> USE DEF IInv
<1>1. /\ db' = [e \in Rows |-> Visible(u, e)]
      /\ base' = [o \in Objects |-> IF o \in accepted[u] THEN Visible(u, Row[o]) ELSE base[o]]
  BY DEF Commit
<1>2. \A o \in accepted[u] : o \in Objects /\ Owner[o] = u /\ Row[o] \in Rows
  BY DEF QueueInv, TypeOK, Rows
<1>3. \A o \in accepted[u] : tent[u][Row[o]] # None
  BY <1>2 DEF LockInv, Saved
<1> QED
  BY <1>1, <1>2, <1>3 DEF Visible

LEMMA CommitStep ==
  ASSUME IInv, NEW u \in Contexts, Commit(u)
  PROVE  IInv'
<1> USE DEF IInv
<1>1. EndSave(u) /\ UNCHANGED <<spoiled, filled>>
  BY DEF Commit
<1>2. \A e \in Rows : tent[u][e] = None =>
        /\ db'[e] = db[e]
        /\ \A o \in Objects : Row[o] = e => base'[o] = base[o] /\ o \notin accepted[u]
  BY CommitPublishes
<1>3. /\ \A e \in Rows : tent[u][e] # None => db'[e] = tent[u][e]
      /\ \A o \in accepted[u] : /\ o \in Objects /\ Owner[o] = u /\ Row[o] \in Rows
                                /\ tent[u][Row[o]] # None
                                /\ base'[o] = tent[u][Row[o]]
      /\ \A o \in Objects \ accepted[u] : base'[o] = base[o]
  BY CommitPublishes
<1>4. /\ QueueInv' /\ LockInv' /\ UNCHANGED memory
      /\ \A t \in Contexts \ {u} : tent'[t] = tent[t] /\ accepted'[t] = accepted[t]
      /\ accepted'[u] = {} /\ \A e \in Rows : tent'[u][e] = None
  BY <1>1, <1>3, EndClears, SaveAssumption
<1>5. /\ {Gone, None, Never} \cap Versioned = {}
      /\ Gone # None /\ Never # None /\ Never # Gone
  BY MarkAssumption DEF Versioned, Content, None
<1>6. \A o \in accepted[u] : base'[o] \in Versioned \cup {Gone}
  <2>1. \A e \in Rows : tent[u][e] \in Versioned \cup {Gone, None}
    BY DEF TypeOK
  <2> QED
    BY <1>3, <2>1
<1>7. TypeOK'
  <2>1. \A e \in Rows : Visible(u, e) \in Versioned \cup {Gone}
    BY DEF Visible, TypeOK
  <2>2. db' \in [Rows -> Versioned \cup {Gone}]
    BY <2>1 DEF Commit
  <2>3. base' \in [Objects -> Versioned \cup {Gone, Never}]
    BY <2>1, <1>3 DEF Commit, TypeOK
  <2>4. /\ tent' \in [Contexts -> [Rows -> Versioned \cup {Gone, None}]]
        /\ phase' \in [Contexts -> {"idle", "next", "insert", "update", "delete", "rollback"}]
        /\ todo' \in [Contexts -> Seq(Objects)]
        /\ sent' \in [Contexts -> Content \cup {None}]
        /\ accepted' \in [Contexts -> SUBSET Objects]
    BY <1>1, NothingListed DEF EndSave, TypeOK
  <2> QED
    BY <1>1, <1>4, <2>2, <2>3, <2>4 DEF TypeOK, memory
<1>8. EntryInv'
  <2>1. \A o \in Objects : base[o] # Never => base'[o] # Never
    BY <1>3, <1>5, <1>6
  <2>2. \A o \in Objects : state[o] = "Added" => base'[o] = base[o]
    BY <1>3 DEF QueueInv
  <2> QED
    BY <1>4, <2>1, <2>2 DEF EntryInv, Tracked, memory
<1>9. StoredInv'
  <2> SUFFICES ASSUME NEW o \in Objects \ spoiled
               PROVE  StoredInv!(o)'
    BY <1>1 DEF StoredInv
  <2>1. Owner[o] \in Contexts /\ Row[o] \in Rows
    BY SaveAssumption DEF Rows
  <2>2. CASE o \in accepted[u]
    BY <1>1, <1>3, <1>4, <1>5, <1>6, <2>2 DEF StoredInv, Stored, Shows, Tracked, memory
  <2>3. CASE o \notin accepted[u] /\ Owner[o] = u
    BY <1>1, <1>3, <1>4, <2>3 DEF StoredInv, Stored, Shows, Tracked, memory
  <2>4. CASE Owner[o] # u
    BY <1>1, <1>3, <1>4, <2>1, <2>4 DEF StoredInv, Stored, Shows, Tracked, memory
  <2> QED
    BY <2>2, <2>3, <2>4
<1>10. \A t \in Contexts \ {u}, e \in Rows : tent[t][e] # None => tent[u][e] = None
  BY DEF LockInv
<1>11. \A e \in Rows : tent[u][e] = None /\ Unread(e) => Unread(e)'
  BY <1>2 DEF Unread
<1>12. RowInv'
  <2>1. RowInv!1'
    <3> SUFFICES ASSUME NEW t \in Contexts, NEW e \in Rows, tent'[t][e] \in Versioned
                 PROVE  /\ db'[e] \in Versioned =>
                             tent'[t][e].ver = db'[e].ver + Cardinality(Saved(t, e)')
                        /\ db'[e] = Gone => Unread(e)'
      BY DEF RowInv
    <3>1. t # u /\ tent'[t][e] = tent[t][e] /\ tent[u][e] = None
      BY <1>4, <1>5, <1>10
    <3>2. Saved(t, e)' = Saved(t, e)
      BY <3>1, <1>4 DEF Saved
    <3> QED
      BY <3>1, <3>2, <1>2, <1>11 DEF RowInv
  <2>2. RowInv!2'
    <3> SUFFICES ASSUME NEW p \in New, base'[p] = Never
                 PROVE  /\ db'[Row[p]] = Gone
                        /\ Unread(Row[p])'
                        /\ \A t \in Contexts : tent'[t][Row[p]] # None => p \in accepted'[t]
      BY DEF RowInv
    <3>1. p \in Objects /\ Row[p] \in Rows /\ p \notin accepted[u]
      BY SaveAssumption, <1>3, <1>5, <1>6 DEF Rows
    <3>2. base[p] = Never
      BY <3>1, <1>3
    <3>3. tent[u][Row[p]] = None
      BY <3>1, <3>2 DEF RowInv
    <3> QED
      BY <3>1, <3>2, <3>3, <1>2, <1>4, <1>11 DEF RowInv
  <2>3. RowInv!3'
    <3> SUFFICES ASSUME NEW o \in Objects
                 PROVE  /\ base'[o] = Gone => db'[Row[o]] = Gone
                        /\ base'[o] \in Versioned /\ db'[Row[o]] \in Versioned =>
                             /\ base'[o].ver <= db'[Row[o]].ver
                             /\ base'[o].ver = db'[Row[o]].ver => base'[o] = db'[Row[o]]
      BY DEF RowInv
    <3> DEFINE e == Row[o]
    <3>1. e \in Rows
      BY DEF Rows
    <3>2. \A v \in Versioned : v.ver \in Nat
      BY SaveAssumption DEF Versioned
    <3>3. CASE o \in accepted[u]
      <4>1. base'[o] = db'[e]
        BY <1>3, <3>3
      <4> QED
        BY <4>1, <3>2
    <3>4. CASE tent[u][e] = None
      BY <3>1, <3>4, <1>2 DEF RowInv
    <3>5. CASE o \notin accepted[u] /\ tent[u][e] # None
      <4>1. base'[o] = base[o] /\ db'[e] = tent[u][e] /\ tent[u][e] \in Versioned \cup {Gone}
        BY <3>1, <3>5, <1>3 DEF TypeOK
      <4>2. tent[u][e] \in Versioned /\ db[e] = Gone => base[o] = Never
        BY <3>1 DEF RowInv, Unread
      <4>3. db[e] \in Versioned \cup {Gone}
        BY <3>1 DEF TypeOK
      <4>4. base[o] = Gone => tent[u][e] = Gone
        BY <4>1, <4>2, <1>5 DEF RowInv
      <4>5. ASSUME base[o] \in Versioned, tent[u][e] \in Versioned
            PROVE  base[o].ver < tent[u][e].ver
        <5>1. db[e] \in Versioned
          BY <4>2, <4>3, <4>5, <1>5
        <5>2. base[o].ver <= db[e].ver
          BY <4>5, <5>1 DEF RowInv
        <5>3. tent[u][e].ver = db[e].ver + Cardinality(Saved(u, e))
          BY <3>1, <4>5, <5>1 DEF RowInv
        <5>4. Cardinality(Saved(u, e)) \in Nat /\ Cardinality(Saved(u, e)) # 0
          BY <3>1, <3>5, SavedFinite, FS_EmptySet DEF LockInv
        <5> QED
          BY <4>5, <5>1, <5>2, <5>3, <5>4, <3>2
      <4> QED
        BY <4>1, <4>4, <4>5, <3>2
    <3> QED
      BY <3>3, <3>4, <3>5
  <2> QED
    BY <2>1, <2>2, <2>3 DEF RowInv
<1>13. ReadInv'
  <2> SUFFICES ASSUME NEW t \in Contexts, NEW o \in accepted'[t] \ (spoiled \cup New)
               PROVE  db'[Row[o]] = base'[o]
    BY <1>1 DEF ReadInv
  <2>1. t # u /\ o \in accepted[t] /\ o \in Objects /\ Row[o] \in Rows
    BY <1>4 DEF TypeOK, Rows
  <2>2. tent[t][Row[o]] # None
    BY <2>1 DEF LockInv, Saved
  <2>3. tent[u][Row[o]] = None
    BY <2>1, <2>2, <1>10
  <2> QED
    BY <2>1, <2>3, <1>2 DEF ReadInv
<1> QED
  BY <1>4, <1>7, <1>8, <1>9, <1>12, <1>13

(* A rollback undoes the rows, and spoils what was accepted for them.      *)
LEMMA RollbackStep ==
  ASSUME IInv, NEW u \in Contexts, Rollback(u)
  PROVE  IInv'
<1> USE DEF IInv
<1>1. EndSave(u) /\ UNCHANGED <<db, base, filled>> /\ spoiled' = spoiled \cup accepted[u]
  BY DEF Rollback
<1>2. /\ QueueInv' /\ LockInv' /\ UNCHANGED memory
      /\ \A t \in Contexts \ {u} : tent'[t] = tent[t] /\ accepted'[t] = accepted[t]
      /\ accepted'[u] = {} /\ \A e \in Rows : tent'[u][e] = None
  BY <1>1, EndClears
<1>3. TypeOK'
  <2>1. /\ tent' \in [Contexts -> [Rows -> Versioned \cup {Gone, None}]]
        /\ phase' \in [Contexts -> {"idle", "next", "insert", "update", "delete", "rollback"}]
        /\ todo' \in [Contexts -> Seq(Objects)]
        /\ sent' \in [Contexts -> Content \cup {None}]
        /\ accepted' \in [Contexts -> SUBSET Objects]
    BY <1>1, NothingListed DEF EndSave, TypeOK
  <2> QED
    BY <1>1, <1>2, <2>1 DEF TypeOK, memory
<1>4. EntryInv'
  BY <1>1, <1>2 DEF EntryInv, Tracked, memory
<1>5. StoredInv'
  <2> SUFFICES ASSUME NEW o \in Objects \ spoiled'
               PROVE  StoredInv!(o)'
    BY DEF StoredInv
  <2>1. Owner[o] \in Contexts /\ o \notin accepted[u] /\ o \notin spoiled
    BY <1>1, SaveAssumption
  <2>2. CASE Owner[o] = u
    BY <1>1, <1>2, <2>1, <2>2 DEF StoredInv, Stored, Shows, Tracked, memory
  <2>3. CASE Owner[o] # u
    BY <1>1, <1>2, <2>1, <2>3 DEF StoredInv, Stored, Shows, Tracked, memory
  <2> QED
    BY <2>2, <2>3
<1>6. RowInv'
  <2>1. \A t \in Contexts \ {u} : \A e : Saved(t, e)' = Saved(t, e)
    BY <1>2 DEF Saved
  <2>2. \A e \in Rows : tent'[u][e] \notin Versioned
    BY <1>2, MarkAssumption DEF Versioned, None
  <2>3. \A p \in New : Row[p] \in Rows
    BY SaveAssumption DEF Rows
  <2>4. RowInv!1'
    BY <1>1, <1>2, <2>1, <2>2 DEF RowInv, Unread
  <2>5. RowInv!2'
    BY <1>1, <1>2, <2>3 DEF RowInv, Unread
  <2>6. RowInv!3'
    BY <1>1 DEF RowInv
  <2> QED
    BY <2>4, <2>5, <2>6 DEF RowInv
<1>7. ReadInv'
  BY <1>1, <1>2 DEF ReadInv
<1> QED
  BY <1>2, <1>3, <1>4, <1>5, <1>6, <1>7

-----------------------------------------------------------------------------
(* The theorems *)

(* Every step keeps the invariant. *)
LEMMA StepInv == IInv /\ [Next]_vars => IInv'
<1> SUFFICES ASSUME IInv, [Next]_vars PROVE IInv'
  OBVIOUS
<1>1. ASSUME NEW o \in Objects, Track(o) \/ Add(o) \/ Edit(o) \/ MarkDeleted(o)
      PROVE  IInv'
  BY <1>1, TrackStep, AddStep, EditStep, MarkDeletedStep
<1>2. ASSUME NEW u \in Contexts, Clear(u) \/ Save(u) \/ Send(u)
      PROVE  IInv'
  BY <1>2, ClearStep, SaveStep, SendStep
<1>3. ASSUME NEW u \in Contexts, Insert(u) \/ Update(u) \/ Delete(u) \/ Fail(u)
      PROVE  IInv'
  BY <1>3, InsertStep, UpdateStep, DeleteStep, FailStep
<1>4. ASSUME NEW u \in Contexts, Commit(u) \/ Rollback(u)
      PROVE  IInv'
  BY <1>4, CommitStep, RollbackStep
<1>5. CASE UNCHANGED vars
  <2>1. UNCHANGED <<db, tent, memory, mem, orig, state, phase, todo, sent, accepted, base, spoiled, filled>>
    BY <1>5 DEF vars, memory
  <2>2. TypeOK'
    BY <2>1 DEF IInv, TypeOK
  <2>3. QueueInv'
    BY <2>1 DEF IInv, QueueInv, Expected, Entry
  <2> QED
    BY <2>1, <2>2, <2>3, OnlyTheQueue
<1> QED
  BY <1>1, <1>2, <1>3, <1>4, <1>5 DEF Next

(* Saves under way, the rows they hold, the entries' states and all the    *)
(* versions agree in every reachable state.                                *)
THEOREM SavesInvariant == Spec => []IInv
<1>1. Init => IInv
  BY Starts
<1>2. IInv /\ [Next]_vars => IInv'
  BY StepInv
<1> QED
  BY <1>1, <1>2, PTL DEF Spec

(* Variables keep their types: what a row holds has a version of at least  *)
(* 1, also when set.add() has just created it.                             *)
THEOREM SavesTypeOK == Spec => []TypeOK
<1>1. IInv => TypeOK
  BY DEF IInv
<1> QED
  BY <1>1, SavesInvariant, PTL

(* The states of the ChangeTracker tell the truth about what is stored,    *)
(* but for the objects that a rollback, an edit during the save or another *)
(* object of the same row has spoiled, and for what a hook or the          *)
(* updatedAt stamp added to the last UPDATE: of such a row the object has  *)
(* the version.                                                            *)
THEOREM StatesTellTheTruth == Spec => []StoredUnlessSpoiled
<1>1. IInv => StoredUnlessSpoiled
  <2> SUFFICES ASSUME IInv, NEW o \in Objects, Settled(o), o \notin spoiled
               PROVE  Stored(o)
    BY DEF StoredUnlessSpoiled
  <2>1. o \notin accepted[Owner[o]]
    BY SaveAssumption DEF IInv, QueueInv, Settled
  <2> QED
    BY <2>1 DEF IInv, StoredInv
<1> QED
  BY <1>1, SavesInvariant, PTL

(* Only a commit changes what is committed. *)
LEMMA OnlyCommitsPublish ==
  ASSUME IInv, [Next]_vars, db' # db
  PROVE  \E u \in Contexts : Commit(u)
<1>1. ~UNCHANGED vars
  BY DEF vars
<1>2. \A o \in Objects : ~(Track(o) \/ Add(o) \/ Edit(o) \/ MarkDeleted(o))
  BY DEF Track, Add, Edit, MarkDeleted, SavingUnchanged
<1>3. \A u \in Contexts : ~(Clear(u) \/ Save(u) \/ Send(u) \/ Fail(u) \/ Rollback(u))
  BY DEF Clear, Save, Send, Fail, Rollback, SavingUnchanged
<1>4. \A u \in Contexts : ~(Insert(u) \/ Update(u) \/ Delete(u))
  BY DEF Insert, Update, Delete
<1> QED
  BY <1>1, <1>2, <1>3, <1>4 DEF Next

(* Optimistic locking: no commit writes over content that the object it    *)
(* comes from had not read.                                                *)
THEOREM NoSaveIsLost == Spec => CommitsOverWhatItRead
<1>1. IInv /\ [Next]_vars =>
        [\A u \in Contexts : \A o \in accepted[u] \ (spoiled' \cup New) :
           db' # db => db[Row[o]] = base[o]]_vars
  <2> SUFFICES ASSUME IInv, [Next]_vars,
                      NEW u \in Contexts, NEW o \in accepted[u] \ (spoiled' \cup New), db' # db
               PROVE  db[Row[o]] = base[o]
    OBVIOUS
  <2>1. UNCHANGED spoiled
    BY OnlyCommitsPublish DEF Commit
  <2> QED
    BY <2>1 DEF IInv, ReadInv
<1> QED
  BY <1>1, SavesInvariant, PTL DEF Spec, CommitsOverWhatItRead

(* Versions identify contents: no row changes without its version, which   *)
(* rises by one for each object of it that the commit saves.               *)
THEOREM VersionsCountSaves == Spec => OneVersionAtATime
<1>1. IInv /\ [Next]_vars =>
        [\A e \in Rows : db'[e] # db[e] =>
           \/ Gone \in {db[e], db'[e]}
           \/ \E u \in Contexts : /\ phase[u] = "next" /\ phase'[u] = "idle"
                                  /\ db'[e].ver = db[e].ver + Cardinality(Saved(u, e))]_vars
  <2> SUFFICES ASSUME IInv, [Next]_vars, NEW e \in Rows, db'[e] # db[e],
                      Gone \notin {db[e], db'[e]}
               PROVE  \E u \in Contexts :
                        /\ phase[u] = "next" /\ phase'[u] = "idle"
                        /\ db'[e].ver = db[e].ver + Cardinality(Saved(u, e))
    OBVIOUS
  <2>1. PICK u \in Contexts : Commit(u)
    BY OnlyCommitsPublish
  <2>2. phase[u] = "next" /\ phase'[u] = "idle"
    BY <2>1 DEF Commit, EndSave, IInv, TypeOK
  <2>3. tent[u][e] # None /\ db'[e] = tent[u][e]
    BY <2>1, CommitPublishes
  <2>4. tent[u][e] \in Versioned /\ db[e] \in Versioned
    BY <2>3 DEF IInv, TypeOK
  <2> QED
    BY <2>2, <2>3, <2>4 DEF IInv, RowInv
<1> QED
  BY <1>1, SavesInvariant, PTL DEF Spec, OneVersionAtATime
=============================================================================
