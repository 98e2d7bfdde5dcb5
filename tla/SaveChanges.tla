---------------------------- MODULE SaveChanges ----------------------------
(***************************************************************************)
(* DbContext.saveChanges() over the ChangeTracker: objects loaded, edited, *)
(* added and removed in memory and flushed one by one in a transaction,    *)
(* with the optimistic check of a version column.  Several contexts work   *)
(* on the same rows, each with objects of its own; nothing makes two       *)
(* objects of one context that stand for one row the same.                 *)
(*                                                                         *)
(* A row, and an object standing for it, is a value and its version.       *)
(***************************************************************************)
EXTENDS Integers, Sequences, SequencesExt, FiniteSets

CONSTANTS
  Contexts,
  Objects,
  New,          \* the objects that are created rather than loaded
  Owner,        \* the context of each object
  Row,          \* the row each object stands for
  Values,
  MaxVersion,   \* bound: an object read at this version is not saved any more
  Gone,         \* no such row
  Never         \* not stored or read so far

Rows == {Row[o] : o \in Objects}
Mine(u) == {o \in Objects : Owner[o] = u}

ASSUME SaveAssumption ==
  /\ IsFiniteSet(Objects)
  /\ Owner \in [Objects -> Contexts]
  /\ New \in SUBSET Objects
  /\ MaxVersion \in Nat \ {0}
  /\ \A o, p \in New : Row[o] = Row[p] => o = p

VARIABLES
  db,        \* the committed rows
  tent,      \* the rows each context's transaction changed, as it changed them
  mem,       \* each object as it is in memory
  orig,      \* the snapshot of its entry
  state,     \* the state of its entry
  phase,     \* what each context's saveChanges() does
  todo,      \* the entries left to flush
  sent,      \* what the first of them sent to the database
  accepted,  \* objects accepted by the running saveChanges()
  base,      \* each object as its context last read or committed it (history)
  spoiled,   \* objects accepted for what was not, or not to be, stored (history)
  filled     \* objects whose last UPDATE stored more than they hold (history)

memory == <<mem, orig, state>>
vars == <<db, tent, memory, phase, todo, sent, accepted, base, spoiled, filled>>

Content == [val : Values, ver : 0..MaxVersion]
Versioned == [val : Values, ver : 1..MaxVersion]     \* what a row holds
States == {"Untracked", "Unchanged", "Added", "Modified", "Deleted", "Detached"}
Pending == {"Added", "Modified", "Deleted"}
None == <<>>

(* A row that is gone, and one never read, hold nothing. *)
ASSUME MarkAssumption ==
  /\ {Gone, Never} \cap (Content \cup {None}) = {}
  /\ Gone # Never

TypeOK ==
  /\ db \in [Rows -> Versioned \cup {Gone}]
  /\ tent \in [Contexts -> [Rows -> Versioned \cup {Gone, None}]]
  /\ mem \in [Objects -> Content \cup {Never}]
  /\ orig \in [Objects -> Content \cup {Never}]
  /\ state \in [Objects -> States]
  /\ phase \in [Contexts -> {"idle", "next", "insert", "update", "delete", "rollback"}]
  /\ todo \in [Contexts -> Seq(Objects)]
  /\ sent \in [Contexts -> Content \cup {None}]
  /\ accepted \in [Contexts -> SUBSET Objects]
  /\ base \in [Objects -> Versioned \cup {Gone, Never}]
  /\ spoiled \in SUBSET Objects
  /\ filled \in SUBSET Objects

Init ==
  /\ db \in [Rows -> [val : Values, ver : {1}] \cup {Gone}]
  /\ \A o \in Objects : db[Row[o]] = Gone <=> \E p \in New : Row[p] = Row[o]
  /\ tent = [u \in Contexts |-> [e \in Rows |-> None]]
  /\ mem = [o \in Objects |-> Never]
  /\ orig = [o \in Objects |-> Never]
  /\ state = [o \in Objects |-> "Untracked"]
  /\ phase = [u \in Contexts |-> "idle"]
  /\ todo = [u \in Contexts |-> <<>>]
  /\ sent = [u \in Contexts |-> None]
  /\ accepted = [u \in Contexts |-> {}]
  /\ base = [o \in Objects |-> Never]
  /\ spoiled = {}
  /\ filled = {}

-----------------------------------------------------------------------------
(* What the user of a context does with its objects, also while a save is  *)
(* under way.                                                              *)

SavingUnchanged == UNCHANGED <<db, tent, phase, todo, sent, accepted>>

(* DbSet.track(): the object read becomes a tracked one. *)
Track(o) ==
  /\ state[o] = "Untracked"
  /\ o \notin New
  /\ db[Row[o]] # Gone
  /\ mem' = [mem EXCEPT ![o] = db[Row[o]]]
  /\ orig' = [orig EXCEPT ![o] = db[Row[o]]]
  /\ state' = [state EXCEPT ![o] = "Unchanged"]
  /\ base' = [base EXCEPT ![o] = db[Row[o]]]
  /\ UNCHANGED <<spoiled, filled>>
  /\ SavingUnchanged

(* ChangeTracker.add() of an object whose version is not set yet. *)
Add(o) ==
  /\ state[o] = "Untracked"
  /\ o \in New
  /\ base[o] = Never
  /\ \E v \in Values :
       /\ mem' = [mem EXCEPT ![o] = [val |-> v, ver |-> 0]]
       /\ orig' = [orig EXCEPT ![o] = [val |-> v, ver |-> 0]]
  /\ state' = [state EXCEPT ![o] = "Added"]
  /\ UNCHANGED <<base, spoiled, filled>>
  /\ SavingUnchanged

(* The set trap of the proxy. *)
Edit(o) ==
  /\ state[o] # "Untracked"
  /\ \E v \in Values :
       /\ mem' = [mem EXCEPT ![o].val = v]
       /\ state' = [state EXCEPT ![o] =
            IF @ \notin {"Added", "Deleted"} /\ v # orig[o].val THEN "Modified" ELSE @]
  /\ UNCHANGED <<orig, base, spoiled, filled>>
  /\ SavingUnchanged

MarkDeleted(o) ==
  /\ state[o] # "Untracked"
  /\ state' = [state EXCEPT ![o] = "Deleted"]
  /\ UNCHANGED <<mem, orig, base, spoiled, filled>>
  /\ SavingUnchanged

(* The entries go, and the objects are forgotten with them. *)
Clear(u) ==
  /\ phase[u] = "idle"
  /\ state' = [o \in Objects |-> IF o \in Mine(u) THEN "Untracked" ELSE state[o]]
  /\ mem' = [o \in Objects |-> IF o \in Mine(u) THEN Never ELSE mem[o]]
  /\ orig' = [o \in Objects |-> IF o \in Mine(u) THEN Never ELSE orig[o]]
  /\ spoiled' = spoiled \ Mine(u)
  /\ filled' = filled \ Mine(u)
  /\ base' = [o \in Objects |-> IF o \in Mine(u) \ New THEN Never ELSE base[o]]
  /\ SavingUnchanged

-----------------------------------------------------------------------------
(* saveChanges() *)

(* The version a statement is checked against: the snapshot's, or else the *)
(* object's; 0 stands for none.                                            *)
Expected(o) == IF orig[o].ver # 0 THEN orig[o].ver ELSE mem[o].ver

Save(u) ==
  /\ phase[u] = "idle"
  /\ \E s \in SetToSeqs({o \in Mine(u) : state[o] \in Pending}) :
       /\ s # <<>>
       /\ todo' = [todo EXCEPT ![u] = s]
  /\ \A o \in Mine(u) : state[o] \in Pending => Expected(o) < MaxVersion
  /\ phase' = [phase EXCEPT ![u] = "next"]
  /\ UNCHANGED <<db, tent, memory, sent, accepted, base, spoiled, filled>>

Entry(u) == Head(todo[u])

(* The next entry's state decides, as it is by now; what is sent is what   *)
(* the object holds, with the version it is checked against.               *)
Send(u) ==
  /\ phase[u] = "next"
  /\ todo[u] # <<>>
  /\ LET o == Entry(u)
     IN IF state[o] \in Pending
        THEN /\ phase' = [phase EXCEPT ![u] =
                  CASE state[o] = "Added" -> "insert"
                    [] state[o] = "Modified" -> "update"
                    [] state[o] = "Deleted" -> "delete"]
             /\ sent' = [sent EXCEPT ![u] = [val |-> mem[o].val, ver |-> Expected(o)]]
             /\ UNCHANGED todo
        ELSE /\ todo' = [todo EXCEPT ![u] = Tail(@)]
             /\ UNCHANGED <<phase, sent>>
  /\ UNCHANGED <<db, tent, memory, accepted, base, spoiled, filled>>

(* A statement waits for the transaction that holds the row, and then sees *)
(* its own transaction's writes and what is committed.                     *)
Unlocked(u, e) == \A t \in Contexts \ {u} : tent[t][e] = None
Visible(u, e) == IF tent[u][e] # None THEN tent[u][e] ELSE db[e]
Matches(u, e) == Visible(u, e) # Gone /\ Visible(u, e).ver = sent[u].ver

(* The objects of a row that the running saveChanges() has accepted. *)
Saved(u, e) == {o \in accepted[u] : Row[o] = e}

Put(u, e, c) == tent' = [tent EXCEPT ![u][e] = c]

(* acceptChanges(): a Deleted entry is Detached, any other one Unchanged   *)
(* with a new snapshot of what the object holds by now.                    *)
Accept(u, o, obj) ==
  /\ mem' = [mem EXCEPT ![o] = obj]
  /\ IF state[o] = "Deleted"
       THEN /\ state' = [state EXCEPT ![o] = "Detached"]
            /\ UNCHANGED orig
       ELSE /\ state' = [state EXCEPT ![o] = "Unchanged"]
            /\ orig' = [orig EXCEPT ![o] = obj]
  /\ accepted' = [accepted EXCEPT ![u] = @ \cup {o}]
  /\ todo' = [todo EXCEPT ![u] = Tail(@)]
  /\ phase' = [phase EXCEPT ![u] = "next"]
  /\ sent' = [sent EXCEPT ![u] = None]

(* What was accepted for this row earlier in the save is written over; the *)
(* object itself is spoiled if it is no longer as it was sent.             *)
Spoil(u, o, changed) ==
  spoiled' = spoiled \cup Saved(u, Row[o]) \cup IF changed THEN {o} ELSE {}

(* What add() and update() store is what was sent, or what a hook and the  *)
(* createdAt and updatedAt stamps made of it.                              *)
Completed(v) == Values

(* set.add(): the inserted row is assigned over the object. *)
InsertUnversioned(u) ==      \* fault: add() does not set the version
  /\ phase[u] = "insert"
  /\ \E v \in Completed(sent[u].val) :
       LET o == Entry(u)
           c == [val |-> v, ver |-> 0]
       IN /\ Unlocked(u, Row[o])
          /\ Visible(u, Row[o]) = Gone
          /\ Put(u, Row[o], c)
          /\ Accept(u, o, c)
          /\ Spoil(u, o, state[o] = "Deleted")
          /\ filled' = filled \ {o}
  /\ UNCHANGED <<db, base>>

Insert(u) ==
  /\ phase[u] = "insert"
  /\ \E v \in Completed(sent[u].val) :
       LET o == Entry(u)
           c == [val |-> v, ver |-> 1]
       IN /\ Unlocked(u, Row[o])
          /\ Visible(u, Row[o]) = Gone
          /\ Put(u, Row[o], c)
          /\ Accept(u, o, c)
          /\ Spoil(u, o, state[o] = "Deleted")
          /\ filled' = filled \ {o}
  /\ UNCHANGED <<db, base>>

(* The object is filled when it was not told of what was stored. *)
Fill(u, o, v) == filled' = IF v = sent[u].val THEN filled \ {o} ELSE filled \cup {o}

UpdateUnchecked(u) ==        \* fault: the version is not in the WHERE clause
  /\ phase[u] = "update"
  /\ \E v \in Completed(sent[u].val) :
       LET o == Entry(u)
           c == [val |-> v, ver |-> sent[u].ver + 1]
       IN /\ Unlocked(u, Row[o])
          /\ Visible(u, Row[o]) # Gone
          /\ Put(u, Row[o], c)
          /\ Accept(u, o, [mem[o] EXCEPT !.ver = c.ver])
          /\ Spoil(u, o, state[o] = "Deleted" \/ mem[o].val # sent[u].val)
          /\ Fill(u, o, v)
  /\ UNCHANGED <<db, base>>

UpdateKeepsVersion(u) ==     \* fault: the new version is not copied to the object
  /\ phase[u] = "update"
  /\ \E v \in Completed(sent[u].val) :
       LET o == Entry(u)
           c == [val |-> v, ver |-> sent[u].ver + 1]
       IN /\ Unlocked(u, Row[o])
          /\ Matches(u, Row[o])
          /\ Put(u, Row[o], c)
          /\ Accept(u, o, mem[o])
          /\ Spoil(u, o, state[o] = "Deleted" \/ mem[o].val # sent[u].val)
          /\ Fill(u, o, v)
  /\ UNCHANGED <<db, base>>

(* set.update(): one row, or a concurrency exception; of what was stored   *)
(* the object gets the new version only, and whatever else it holds by now *)
(* becomes its snapshot.                                                   *)
Update(u) ==
  /\ phase[u] = "update"
  /\ \E v \in Completed(sent[u].val) :
       LET o == Entry(u)
           c == [val |-> v, ver |-> sent[u].ver + 1]
       IN /\ Unlocked(u, Row[o])
          /\ Matches(u, Row[o])
          /\ Put(u, Row[o], c)
          /\ Accept(u, o, [mem[o] EXCEPT !.ver = c.ver])
          /\ Spoil(u, o, state[o] = "Deleted" \/ mem[o].val # sent[u].val)
          /\ Fill(u, o, v)
  /\ UNCHANGED <<db, base>>

(* set.remove(): an object that never had a version is deleted unchecked.  *)
Delete(u) ==
  LET o == Entry(u)
  IN /\ phase[u] = "delete"
     /\ Unlocked(u, Row[o])
     /\ Matches(u, Row[o]) \/ sent[u].ver = 0
     /\ Put(u, Row[o], Gone)
     /\ Accept(u, o, mem[o])
     /\ Spoil(u, o, FALSE)
     /\ UNCHANGED <<db, base, filled>>

(* The statement fails: no row matched, the key exists, a deadlock, ...    *)
Fail(u) ==
  /\ phase[u] \in {"insert", "update", "delete"}
  /\ phase' = [phase EXCEPT ![u] = "rollback"]
  /\ UNCHANGED <<db, tent, memory, todo, sent, accepted, base, spoiled, filled>>

EndSave(u) ==
  /\ tent' = [tent EXCEPT ![u] = [e \in Rows |-> None]]
  /\ todo' = [todo EXCEPT ![u] = <<>>]
  /\ sent' = [sent EXCEPT ![u] = None]
  /\ accepted' = [accepted EXCEPT ![u] = {}]
  /\ phase' = [phase EXCEPT ![u] = "idle"]
  /\ UNCHANGED memory

Commit(u) ==
  /\ phase[u] = "next"
  /\ todo[u] = <<>>
  /\ db' = [e \in Rows |-> Visible(u, e)]
  /\ base' = [o \in Objects |-> IF o \in accepted[u] THEN Visible(u, Row[o]) ELSE base[o]]
  /\ EndSave(u)
  /\ UNCHANGED <<spoiled, filled>>

(* Undone rows, with the entries that were accepted for them.  COMMIT may  *)
(* fail as well as a statement.                                            *)
Rollback(u) ==
  /\ phase[u] = "rollback" \/ (phase[u] = "next" /\ todo[u] = <<>>)
  /\ spoiled' = spoiled \cup accepted[u]
  /\ EndSave(u)
  /\ UNCHANGED <<db, base, filled>>

-----------------------------------------------------------------------------
Next ==
  \/ \E o \in Objects : Track(o) \/ Add(o) \/ Edit(o) \/ MarkDeleted(o)
  \/ \E u \in Contexts :
       \/ Clear(u) \/ Save(u) \/ Send(u)
       \/ Insert(u) \/ Update(u) \/ Delete(u) \/ Fail(u)
       \/ Commit(u) \/ Rollback(u)

Spec == Init /\ [][Next]_vars

-----------------------------------------------------------------------------
Settled(o) == phase[Owner[o]] = "idle"

(* The object stands for the row c: it has its version, and its value      *)
(* unless the last UPDATE stored more than the object holds.               *)
Shows(o, c) ==
  IF o \in filled THEN c \in Versioned /\ mem[o].ver = c.ver ELSE mem[o] = c

Stored(o) ==
  /\ state[o] = "Unchanged" => Shows(o, base[o])
  /\ state[o] = "Detached" => base[o] = Gone

(* An object that shows no pending change holds what its context last read *)
(* or committed, unless a rollback, an edit during the save or another     *)
(* object of the same row in the same save spoiled it.  What a hook or the *)
(* updatedAt stamp added to its last UPDATE it does not hold: of such a    *)
(* row it has the version only.                                            *)
StoredUnlessSpoiled == \A o \in Objects : Settled(o) /\ o \notin spoiled => Stored(o)

(* Optimistic locking: no commit writes over content that the object it    *)
(* comes from had not read, however saves of several contexts interleave.  *)
CommitsOverWhatItRead ==
  [][\A u \in Contexts : \A o \in accepted[u] \ (spoiled' \cup New) :
       db' # db => db[Row[o]] = base[o]]_vars

(* Versions identify contents: a row changes its value only with its       *)
(* version, by one for each object of it that the commit saves.            *)
OneVersionAtATime ==
  [][\A e \in Rows : db'[e] # db[e] =>
       \/ Gone \in {db[e], db'[e]}
       \/ \E u \in Contexts : /\ phase[u] = "next" /\ phase'[u] = "idle"
                              /\ db'[e].ver = db[e].ver + Cardinality(Saved(u, e))]_vars

(* hasChanges() is "`true` if uncommitted modifications exist"             *)
(* (ChangeTracker.ts:41): an entry that is Unchanged has none.             *)
NoChangeIsForgotten == \A o \in Objects : Settled(o) => Stored(o)
=============================================================================
