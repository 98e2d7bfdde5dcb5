---------------------- MODULE IdempotencyManagerProofs ----------------------
(***************************************************************************)
(* Proofs about IdempotencyManager, for every finite set of requests and   *)
(* every lock timeout.                                                     *)
(***************************************************************************)
EXTENDS IdempotencyManager, FiniteSetTheorems, TLAPS

(* The requests whose handler runs, has resolved, or failed and still has  *)
(* its row to clear.                                                       *)
AtWork == {r \in Requests : phase[r] \in {"running", "clearing"}} \cup executed

(* An absent row lets one more request in. *)
Opening == IF row.status = "absent" THEN 1 ELSE 0

(* Requests at work are counted against takeovers: the first one got in by *)
(* its insert, any other by a takeover, or because one of them deleted the *)
(* row and left.                                                           *)
WorkIsOwed == Cardinality(AtWork) + Opening <= 1 + Cardinality(tookOver)

(* What the histories say of a request at each point of its code. *)
HistoryFits == \A r \in Requests :
  /\ phase[r] \in {"idle", "selecting", "inserting", "takingOver", "running", "clearing"}
       => r \notin executed
  /\ phase[r] \in {"idle", "selecting", "inserting", "takingOver"} => r \notin tookOver
  /\ phase[r] = "storing" => r \in executed

(* Every response, stored or returned, is one of a handler that resolved.  *)
ResponsesAreReal ==
  /\ row.status = "COMPLETED" => row.response \in executed
  /\ \A r \in Requests : phase[r] = "returned" => answer[r] \in executed

IInv == TypeOK /\ HistoryFits /\ ResponsesAreReal /\ WorkIsOwed

-----------------------------------------------------------------------------
(* Both sets that are counted are finite.                                  *)
LEMMA Countable ==
  ASSUME TypeOK
  PROVE  /\ AtWork \subseteq Requests /\ IsFiniteSet(AtWork)
         /\ Cardinality(AtWork) \in Nat
         /\ IsFiniteSet(tookOver) /\ Cardinality(tookOver) \in Nat
<1>1. AtWork \subseteq Requests /\ tookOver \subseteq Requests
  BY DEF TypeOK, AtWork
<1>2. IsFiniteSet(AtWork) /\ IsFiniteSet(tookOver)
  BY <1>1, IdempotencyAssumption, FS_Subset
<1> QED
  BY <1>1, <1>2, FS_CardinalityType

(* Two members of a set with at most one element are the same.             *)
LEMMA AtMostOne ==
  ASSUME NEW S, IsFiniteSet(S), Cardinality(S) <= 1, NEW x \in S, NEW y \in S
  PROVE  x = y
<1>1. Cardinality(S) \in Nat /\ Cardinality(S) # 0
  BY FS_CardinalityType, FS_EmptySet
<1>2. Cardinality(S) = 1
  BY <1>1
<1> QED
  BY <1>2, FS_Singleton

(* A lock lies within the clock's range and the timeout. *)
LEMMA LockType ==
  ASSUME TypeOK, NEW r \in Requests
  PROVE  /\ Lock(r) \in Rows
         /\ [Lock(r) EXCEPT !.response = row.response] \in Rows
<1>1. started[r] + LockTimeout \in 0..MaxTime + LockTimeout
  BY IdempotencyAssumption DEF TypeOK
<1>2. row.response \in Requests \cup {None}
  BY DEF TypeOK, Rows
<1> QED
  BY <1>1, <1>2 DEF Lock, Rows

-----------------------------------------------------------------------------
(* Each step of a request leaves its variables within their types. *)
LEMMA TypeInit == Init => TypeOK
BY IdempotencyAssumption DEF Init, TypeOK, Absent, Rows, Final

LEMMA TypeStep == TypeOK /\ [Next]_vars => TypeOK'
<1> SUFFICES ASSUME TypeOK, [Next]_vars PROVE TypeOK'
  OBVIOUS
<1> DEFINE Phases == Final \cup
      {"idle", "selecting", "inserting", "takingOver", "running", "storing", "clearing"}
<1> USE DEF TypeOK
<1>1. ASSUME NEW r \in Requests, NEW from, NEW to \in Phases, Go(r, from, to)
      PROVE  phase' \in [Requests -> Phases]
  BY <1>1 DEF Go
<1> HIDE DEF Phases
<1>2. ASSUME NEW r \in Requests, Start(r) \/ HandlerResolves(r) \/ HandlerThrows(r) \/ Break(r)
      PROVE  TypeOK'
  BY <1>2, <1>1 DEF Start, HandlerResolves, HandlerThrows, Break, Go, Phases, Final
<1>3. ASSUME NEW r \in Requests, Select(r) PROVE TypeOK'
  BY <1>3, <1>1 DEF Select, SelectNone, SelectCompleted, SelectLocked, SelectOpen, Go,
     Phases, Final, Rows
<1>4. ASSUME NEW r \in Requests, TakeOver(r) \/ Insert(r) PROVE TypeOK'
  <2>1. row' \in Rows
    BY <1>4, LockType DEF TakeOver, Insert
  <2> QED
    BY <1>4, <2>1 DEF TakeOver, Insert, Go, Final
<1>5. ASSUME NEW r \in Requests, Clear(r) \/ Store(r) PROVE TypeOK'
  <2>1. row \in Rows /\ Absent \in Rows
    BY IdempotencyAssumption DEF Absent, Rows
  <2>2. [row EXCEPT !.status = "FAILED"] \in Rows
    BY <2>1 DEF Rows
  <2>3. [row EXCEPT !.status = "COMPLETED", !.response = r] \in Rows
    BY <2>1 DEF Rows
  <2>4. row' \in Rows
    BY <1>5, <2>1, <2>2, <2>3 DEF Clear, Store
  <2> QED
    BY <1>5, <2>4 DEF Clear, Store, Go, Final
<1>6. CASE Tick
  BY <1>6, IdempotencyAssumption DEF Tick
<1>7. CASE UNCHANGED vars
  BY <1>7 DEF vars
<1> QED
  BY <1>2, <1>3, <1>4, <1>5, <1>6, <1>7 DEF Next

-----------------------------------------------------------------------------
(* The histories keep in step with the phases. *)
LEMMA HistoryStep == TypeOK /\ HistoryFits /\ [Next]_vars => HistoryFits'
<1> SUFFICES ASSUME TypeOK, HistoryFits, [Next]_vars PROVE HistoryFits'
  OBVIOUS
<1>0. phase \in [Requests -> Final \cup
        {"idle", "selecting", "inserting", "takingOver", "running", "storing", "clearing"}]
  BY DEF TypeOK
<1> USE <1>0 DEF HistoryFits
<1>1. ASSUME NEW r \in Requests, Start(r) \/ HandlerResolves(r) \/ HandlerThrows(r) \/ Break(r)
      PROVE  HistoryFits'
  BY <1>1 DEF Start, HandlerResolves, HandlerThrows, Break, Go, Final
<1>2. ASSUME NEW r \in Requests, Select(r) PROVE HistoryFits'
  BY <1>2 DEF Select, SelectNone, SelectCompleted, SelectLocked, SelectOpen, Go, Final
<1>3. ASSUME NEW r \in Requests, TakeOver(r) \/ Insert(r) PROVE HistoryFits'
  BY <1>3 DEF TakeOver, Insert, Go, Final
<1>4. ASSUME NEW r \in Requests, Clear(r) \/ Store(r) PROVE HistoryFits'
  BY <1>4 DEF Clear, Store, Go, Final
<1>5. CASE Tick \/ UNCHANGED vars
  BY <1>5 DEF Tick, vars
<1> QED
  BY <1>1, <1>2, <1>3, <1>4, <1>5 DEF Next

(* Only Store() completes the row, with a response that was executed; a    *)
(* takeover keeps the old response but not the status.                     *)
LEMMA ResponseStep ==
  TypeOK /\ HistoryFits /\ ResponsesAreReal /\ [Next]_vars => ResponsesAreReal'
<1> SUFFICES ASSUME TypeOK, HistoryFits, ResponsesAreReal, [Next]_vars
             PROVE  ResponsesAreReal'
  OBVIOUS
<1>0. /\ row \in Rows /\ answer \in [Requests -> Requests \cup {None}]
      /\ phase \in [Requests -> Final \cup
           {"idle", "selecting", "inserting", "takingOver", "running", "storing", "clearing"}]
  BY DEF TypeOK
<1> USE <1>0 DEF ResponsesAreReal
<1>1. ASSUME NEW r \in Requests, Start(r) \/ HandlerResolves(r) \/ HandlerThrows(r) \/ Break(r)
      PROVE  ResponsesAreReal'
  BY <1>1 DEF Start, HandlerResolves, HandlerThrows, Break, Go, Final
<1>2. ASSUME NEW r \in Requests, Select(r) PROVE ResponsesAreReal'
  BY <1>2 DEF Select, SelectNone, SelectCompleted, SelectLocked, SelectOpen, Go, Final
<1>3. ASSUME NEW r \in Requests, TakeOver(r) \/ Insert(r) PROVE ResponsesAreReal'
  <2>1. row'.status = "COMPLETED" => row' = row
    BY <1>3 DEF TakeOver, Insert, Lock, Rows
  <2> QED
    BY <1>3, <2>1 DEF TakeOver, Insert, Go, Final
<1>4. ASSUME NEW r \in Requests, Clear(r) PROVE ResponsesAreReal'
  <2>1. row'.status = "COMPLETED" => row' = row
    BY <1>4 DEF Clear, Absent, Rows
  <2> QED
    BY <1>4, <2>1 DEF Clear, Go, Final
<1>5. ASSUME NEW r \in Requests, Store(r) PROVE ResponsesAreReal'
  <2>1. r \in executed
    BY <1>5 DEF Store, Go, HistoryFits
  <2>2. row'.status = "COMPLETED" => row'.response = r
    BY <1>5 DEF Store, Rows
  <2> QED
    BY <1>5, <2>1, <2>2 DEF Store, Go, Final
<1>6. CASE Tick \/ UNCHANGED vars
  BY <1>6 DEF Tick, vars
<1> QED
  BY <1>1, <1>2, <1>3, <1>4, <1>5, <1>6 DEF Next

-----------------------------------------------------------------------------
(* How the steps move requests into and out of the counted set.            *)
LEMMA WorkStep == TypeOK /\ HistoryFits /\ WorkIsOwed /\ [Next]_vars => WorkIsOwed'
<1> SUFFICES ASSUME TypeOK, HistoryFits, WorkIsOwed, [Next]_vars PROVE WorkIsOwed'
  OBVIOUS
<1>0. /\ row \in Rows /\ executed \subseteq Requests
      /\ phase \in [Requests -> Final \cup
           {"idle", "selecting", "inserting", "takingOver", "running", "storing", "clearing"}]
  BY DEF TypeOK
<1> DEFINE A == AtWork
<1>c. /\ IsFiniteSet(A) /\ Cardinality(A) \in Nat
      /\ IsFiniteSet(tookOver) /\ Cardinality(tookOver) \in Nat
  BY Countable
<1>1. ASSUME NEW r \in Requests,
             Start(r) \/ HandlerResolves(r) \/ HandlerThrows(r) \/ Select(r) \/ Store(r)
      PROVE  WorkIsOwed'
  <2>1. AtWork' = AtWork
    BY <1>0, <1>1 DEF AtWork, HistoryFits, Start, HandlerResolves, HandlerThrows, Store, Go,
       Select, SelectNone, SelectCompleted, SelectLocked, SelectOpen, Final
  <2>2. Opening' = Opening /\ tookOver' = tookOver
    BY <1>0, <1>1 DEF Opening, Rows, Start, HandlerResolves, HandlerThrows, Store,
       Select, SelectNone, SelectCompleted, SelectLocked, SelectOpen
  <2> QED
    BY <2>1, <2>2 DEF WorkIsOwed
<1>2. ASSUME NEW r \in Requests, Break(r) PROVE WorkIsOwed'
  <2>1. AtWork' \subseteq AtWork /\ Opening' = Opening /\ tookOver' = tookOver
    BY <1>0, <1>2 DEF AtWork, Opening, Break, Final
  <2> DEFINE B == AtWork'
  <2>2. B \in SUBSET A
    BY <2>1
  <2> HIDE DEF A, B
  <2>3. Cardinality(B) <= Cardinality(A) /\ IsFiniteSet(B)
    BY <1>c, <2>2, FS_Subset
  <2>4. Cardinality(B) \in Nat
    BY <2>3, FS_CardinalityType
  <2> QED
    BY <1>c, <2>1, <2>3, <2>4 DEF WorkIsOwed, Opening, A, B
<1>3. ASSUME NEW r \in Requests, TakeOver(r) PROVE WorkIsOwed'
  <2>1. AtWork' = AtWork \cup {r} /\ r \notin AtWork
    BY <1>0, <1>3 DEF AtWork, TakeOver, Go, HistoryFits, Final
  <2>2. tookOver' = tookOver \cup {r} /\ r \notin tookOver
    BY <1>0, <1>3 DEF TakeOver, Go, HistoryFits
  <2>3. Opening' = Opening
    BY <1>0, <1>3 DEF TakeOver, Opening, Lock, Rows
  <2> HIDE DEF A
  <2>4. Cardinality(A \cup {r}) = Cardinality(A) + 1
    BY <1>c, <2>1, FS_AddElement DEF A
  <2>5. Cardinality(tookOver \cup {r}) = Cardinality(tookOver) + 1
    BY <1>c, <2>2, FS_AddElement
  <2> QED
    BY <1>c, <2>1, <2>2, <2>3, <2>4, <2>5 DEF WorkIsOwed, Opening, A
<1>4. ASSUME NEW r \in Requests, Insert(r) PROVE WorkIsOwed'
  <2>1. tookOver' = tookOver
    BY <1>4 DEF Insert
  <2>2. CASE row.status = "absent"
    <3>1. AtWork' = AtWork \cup {r} /\ r \notin AtWork
      BY <1>0, <1>4, <2>2 DEF AtWork, Insert, Go, HistoryFits, Final
    <3>2. Opening = 1 /\ Opening' = 0
      BY <1>4, <2>2 DEF Insert, Opening, Lock
    <3> HIDE DEF A
    <3>3. Cardinality(A \cup {r}) = Cardinality(A) + 1
      BY <1>c, <3>1, FS_AddElement DEF A
    <3> QED
      BY <1>c, <2>1, <3>1, <3>2, <3>3 DEF WorkIsOwed, A
  <2>3. CASE row.status # "absent"
    <3>1. AtWork' = AtWork /\ Opening' = Opening
      BY <1>0, <1>4, <2>3 DEF AtWork, Opening, Insert, Go, Final
    <3> QED
      BY <2>1, <3>1 DEF WorkIsOwed
  <2> QED
    BY <2>2, <2>3
<1>5. ASSUME NEW r \in Requests, Clear(r) PROVE WorkIsOwed'
  <2>1. AtWork' = AtWork \ {r} /\ r \in AtWork
    BY <1>0, <1>5 DEF AtWork, Clear, Go, HistoryFits, Final
  <2>2. tookOver' = tookOver /\ Opening' \in {0, 1} /\ Opening \in {0, 1}
    BY <1>5 DEF Clear, Opening
  <2> HIDE DEF A
  <2>3. Cardinality(A \ {r}) = Cardinality(A) - 1
    BY <1>c, <2>1, FS_RemoveElement DEF A
  <2> QED
    BY <1>c, <2>1, <2>2, <2>3 DEF WorkIsOwed, A
<1>6. CASE Tick \/ UNCHANGED vars
  <2>1. AtWork' = AtWork /\ Opening' = Opening /\ tookOver' = tookOver
    BY <1>6 DEF Tick, vars, AtWork, Opening
  <2> QED
    BY <2>1 DEF WorkIsOwed
<1> QED
  BY <1>1, <1>2, <1>3, <1>4, <1>5, <1>6 DEF Next

-----------------------------------------------------------------------------
LEMMA InitInv == Init => IInv
<1> SUFFICES ASSUME Init PROVE IInv
  OBVIOUS
<1>1. HistoryFits /\ ResponsesAreReal
  BY DEF Init, HistoryFits, ResponsesAreReal, Absent
<1>2. AtWork = {} /\ tookOver = {} /\ Opening = 1
  BY DEF Init, AtWork, Opening, Absent
<1>3. WorkIsOwed
  BY <1>2, FS_EmptySet DEF WorkIsOwed
<1> QED
  BY <1>1, <1>3, TypeInit DEF IInv

(* Requests, row and histories agree in every reachable state.             *)
THEOREM IdempotencyInvariant == Spec => []IInv
<1>1. IInv /\ [Next]_vars => IInv'
  BY TypeStep, HistoryStep, ResponseStep, WorkStep DEF IInv
<1> QED
  BY <1>1, InitInv, PTL DEF Spec

(* Variables keep their types; a lock never lies beyond the clock's range  *)
(* and one timeout.                                                        *)
THEOREM IdempotencyTypeOK == Spec => []TypeOK
<1>1. IInv => TypeOK
  BY DEF IInv
<1> QED
  BY <1>1, IdempotencyInvariant, PTL

(* Requests that executed are at work in the sense of the count.           *)
LEMMA ExecutedBound ==
  ASSUME IInv
  PROVE  /\ ExecutionsPerTakeover
         /\ IsFiniteSet(executed) /\ IsFiniteSet(AtWork)
         /\ tookOver = {} => Cardinality(AtWork) + Opening <= 1
         /\ tookOver = {} => Cardinality(executed) <= 1
<1>1. TypeOK /\ WorkIsOwed
  BY DEF IInv
<1> DEFINE A == AtWork
<1>2. executed \in SUBSET A
  BY DEF AtWork
<1>3. /\ IsFiniteSet(A) /\ Cardinality(A) \in Nat
      /\ IsFiniteSet(tookOver) /\ Cardinality(tookOver) \in Nat
      /\ Cardinality(A) + Opening <= 1 + Cardinality(tookOver)
  BY <1>1, Countable DEF WorkIsOwed
<1> HIDE DEF A
<1>4. IsFiniteSet(executed) /\ Cardinality(executed) <= Cardinality(A)
  BY <1>2, <1>3, FS_Subset
<1>5. Cardinality(executed) \in Nat /\ Opening \in {0, 1}
  BY <1>4, FS_CardinalityType DEF Opening
<1>6. tookOver = {} => Cardinality(tookOver) = 0
  BY FS_EmptySet
<1> QED
  BY <1>3, <1>4, <1>5, <1>6 DEF ExecutionsPerTakeover, A

(* The handler resolves at most once more often than locks are taken over. *)
THEOREM ExecutionsAreOwed == Spec => []ExecutionsPerTakeover
<1>1. IInv => ExecutionsPerTakeover
  BY ExecutedBound
<1> QED
  BY <1>1, IdempotencyInvariant, PTL

(* All requests that return do so with the response of a real execution,   *)
(* the same one unless a lock was taken over.                              *)
THEOREM OneAnswer == Spec => []AnswersAgree
<1>1. ASSUME IInv PROVE AnswersAgree
  <2>1. \A r \in Requests : phase[r] = "returned" => answer[r] \in executed
    BY <1>1 DEF IInv, ResponsesAreReal
  <2>2. ASSUME tookOver = {}, NEW q \in executed, NEW r \in executed PROVE q = r
    BY <1>1, <2>2, ExecutedBound, AtMostOne
  <2> QED
    BY <2>1, <2>2 DEF AnswersAgree
<1> QED
  BY <1>1, IdempotencyInvariant, PTL

(* Without a takeover the one request that executed is the only one at     *)
(* work, so nothing still to come touches its completed row.               *)
THEOREM CompletionIsFinal == Spec => CompletedIsFinal
<1>1. ASSUME IInv, Next, row.status = "COMPLETED", tookOver' = {} PROVE row' = row
  <2>0. /\ TypeOK /\ HistoryFits /\ ResponsesAreReal
        /\ row \in Rows
        /\ row.response \in executed
    BY <1>1 DEF IInv, TypeOK, ResponsesAreReal
  <2>1. tookOver = {}
    BY <1>1 DEF Next, Start, Select, SelectNone, SelectCompleted, SelectLocked, SelectOpen,
       TakeOver, Insert, HandlerResolves, HandlerThrows, Clear, Store, Break, Tick
  <2>2. \A r \in Requests : ~TakeOver(r)
    BY <1>1 DEF TakeOver
  <2>3. \A r \in AtWork : r = row.response
    <3>1. IsFiniteSet(AtWork) /\ Cardinality(AtWork) + Opening <= 1
      BY <1>1, <2>1, ExecutedBound
    <3>2. Opening = 0 /\ row.response \in AtWork
      BY <1>1, <2>0 DEF Opening, AtWork
    <3>3. Cardinality(AtWork) \in Nat
      BY <2>0, Countable
    <3>4. Cardinality(AtWork) <= 1
      BY <3>1, <3>2, <3>3
    <3> QED
      BY <3>1, <3>2, <3>4, AtMostOne
  <2>4. ASSUME NEW r \in Requests, Clear(r) PROVE FALSE
    <3>1. r \in AtWork /\ r \notin executed
      BY <2>0, <2>4 DEF Clear, Go, AtWork, HistoryFits
    <3> QED
      BY <2>0, <2>3, <3>1
  <2>5. ASSUME NEW r \in Requests, Store(r) PROVE row' = row
    <3>1. r \in executed
      BY <2>0, <2>5 DEF Store, Go, HistoryFits
    <3>2. r = row.response
      BY <2>3, <3>1 DEF AtWork
    <3>3. row' = [row EXCEPT !.status = "COMPLETED", !.response = r]
      BY <1>1, <2>5 DEF Store
    <3> QED
      BY <1>1, <2>0, <3>2, <3>3 DEF Rows
  <2>6. ASSUME NEW r \in Requests, Insert(r) PROVE row' = row
    BY <1>1, <2>6 DEF Insert
  <2> QED
    BY <1>1, <2>2, <2>4, <2>5, <2>6 DEF Next, Start, Select, SelectNone, SelectCompleted,
       SelectLocked, SelectOpen, HandlerResolves, HandlerThrows, Break, Tick
<1>2. IInv /\ [Next]_vars => [row.status = "COMPLETED" /\ tookOver' = {} => row' = row]_vars
  BY <1>1
<1> QED
  BY <1>2, IdempotencyInvariant, PTL DEF Spec, CompletedIsFinal
=============================================================================
