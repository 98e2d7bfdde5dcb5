---- MODULE UnitOfWorkProofs ----
(* What holds of the writes of SetWrites and of the unit of work over them, for *)
(* any number of clients, keys, tenants, listeners, calls and failures.         *)
(*                                                                              *)
(* A step of a client is either a step of its call (it Advances, or Throws, or  *)
(* its transaction begins, commits or rolls back) or is not one (Rests).  NextIs *)
(* shows that there is no other step, from one lemma for each statement.        *)
(* Every part of the invariant is then kept by every kind of step, and nothing  *)
(* below the kinds looks at a statement again.                                  *)
EXTENDS UnitOfWorkSteps, FiniteSetTheorems, SequenceTheorems, TLAPS

(* -------------------------------- sequences ------------------------------- *)

\* One sequence after another, position by position.
LEMMA Joined ==
  ASSUME NEW S, NEW s \in Seq(S), NEW t \in Seq(S), NEW u, u = s \o t
  PROVE  /\ u \in Seq(S) /\ Len(s) \in Nat /\ Len(t) \in Nat /\ Len(u) = Len(s) + Len(t)
         /\ DOMAIN s = 1 .. Len(s) /\ DOMAIN t = 1 .. Len(t) /\ DOMAIN u = 1 .. Len(u)
         /\ \A n \in DOMAIN s : n \in DOMAIN u /\ u[n] = s[n]
         /\ \A n \in DOMAIN t : Len(s) + n \in DOMAIN u /\ u[Len(s) + n] = t[n]
         /\ \A n \in DOMAIN u : n \in DOMAIN s \/ (n > Len(s) /\ n - Len(s) \in DOMAIN t /\ u[n] = t[n - Len(s)])
<1>1. u \in Seq(S) /\ Len(s) \in Nat /\ Len(t) \in Nat /\ Len(u) = Len(s) + Len(t) OBVIOUS
<1>2. DOMAIN s = 1 .. Len(s) /\ DOMAIN t = 1 .. Len(t) /\ DOMAIN u = 1 .. Len(u) BY <1>1
<1>3. \A n \in 1 .. Len(s) + Len(t) : u[n] = IF n <= Len(s) THEN s[n] ELSE t[n - Len(s)] OBVIOUS
<1> QED BY <1>1, <1>2, <1>3

\* What is left of a sequence after its head, behind another one.
LEMMA Spliced ==
  ASSUME NEW S, NEW s \in Seq(S), NEW t \in Seq(S), s # <<>>, NEW u, u = t \o Tail(s)
  PROVE  /\ u \in Seq(S) /\ Len(s) \in Nat /\ Len(t) \in Nat /\ Len(u) = Len(t) + Len(s) - 1
         /\ Len(s) > 0 /\ Head(s) = s[1]
         /\ DOMAIN s = 1 .. Len(s) /\ DOMAIN t = 1 .. Len(t) /\ DOMAIN u = 1 .. Len(u)
         /\ \A n \in DOMAIN t : n \in DOMAIN u /\ u[n] = t[n]
         /\ \A n \in DOMAIN s : n > 1 => Len(t) + n - 1 \in DOMAIN u /\ u[Len(t) + n - 1] = s[n]
         /\ \A n \in DOMAIN u : \/ n \in DOMAIN t
                                \/ n > Len(t) /\ n - Len(t) + 1 \in DOMAIN s /\ u[n] = s[n - Len(t) + 1]
<1>1. Tail(s) \in Seq(S) /\ Len(s) \in Nat /\ Len(s) > 0 /\ Len(Tail(s)) = Len(s) - 1 /\ Head(s) = s[1] OBVIOUS
<1>2. \A n \in 1 .. Len(s) - 1 : Tail(s)[n] = s[n + 1] BY <1>1
<1>3. DOMAIN s = 1 .. Len(s) BY <1>1
<1> DEFINE r == Tail(s)
<1>4. r \in Seq(S) /\ u = t \o r /\ Len(r) = Len(s) - 1 BY <1>1
<1>5. \A n \in 1 .. Len(s) - 1 : r[n] = s[n + 1] BY <1>2
<1> HIDE DEF r
<1>6. /\ u \in Seq(S) /\ Len(t) \in Nat /\ Len(u) = Len(t) + Len(r)
      /\ DOMAIN t = 1 .. Len(t) /\ DOMAIN r = 1 .. Len(r) /\ DOMAIN u = 1 .. Len(u)
      /\ \A n \in DOMAIN t : n \in DOMAIN u /\ u[n] = t[n]
      /\ \A n \in DOMAIN r : Len(t) + n \in DOMAIN u /\ u[Len(t) + n] = r[n]
      /\ \A n \in DOMAIN u : n \in DOMAIN t \/ (n > Len(t) /\ n - Len(t) \in DOMAIN r /\ u[n] = r[n - Len(t)])
  BY <1>4, Joined
<1>7. ASSUME NEW n \in DOMAIN s, n > 1 PROVE Len(t) + n - 1 \in DOMAIN u /\ u[Len(t) + n - 1] = s[n]
  <2>1. n - 1 \in DOMAIN r /\ r[n - 1] = s[n] BY <1>1, <1>3, <1>4, <1>5, <1>6, <1>7
  <2>2. Len(t) + (n - 1) \in DOMAIN u /\ u[Len(t) + (n - 1)] = r[n - 1] BY <2>1, <1>6
  <2>3. Len(t) + (n - 1) = Len(t) + n - 1 BY <1>6, <1>3, <1>1
  <2> QED BY <2>1, <2>2, <2>3
<1>8. ASSUME NEW n \in DOMAIN u, n \notin DOMAIN t
      PROVE  n > Len(t) /\ n - Len(t) + 1 \in DOMAIN s /\ u[n] = s[n - Len(t) + 1]
  <2>1. n > Len(t) /\ n - Len(t) \in DOMAIN r /\ u[n] = r[n - Len(t)] BY <1>6, <1>8
  <2> QED BY <2>1, <1>1, <1>3, <1>4, <1>5, <1>6
<1> QED BY <1>1, <1>3, <1>4, <1>6, <1>7, <1>8

(* ---------------------- loops and recursive functions --------------------- *)

\* A set of numbers has a least element.
LEMMA Least == ASSUME NEW T \in SUBSET Nat, T # {} PROVE \E x \in T : \A y \in T : x <= y
<1>1. PICK x \in T : \A y \in T : ~(<<y, x>> \in OpToRel(<, Nat)) BY NatLessThanWellFounded, WFMin
<1>2. ASSUME NEW y \in T PROVE x <= y
  <2>1. ~(y < x)
    <3> SUFFICES ASSUME y < x PROVE FALSE OBVIOUS
    <3>1. <<y, x>> \in Nat \X Nat /\ <<y, x>>[1] < <<y, x>>[2] OBVIOUS
    <3>2. <<y, x>> \in OpToRel(<, Nat) BY <3>1 DEF OpToRel
    <3> QED BY <3>2, <1>1
  <2> QED BY <2>1
<1> QED BY <1>2

LEMMA Loops ==
  ASSUME NEW S, NEW N \in Nat, NEW base \in S, NEW step \in [(1 .. N) \X S -> S]
  PROVE  \E g : IsLoop(g, S, N, base, step)
<1> DEFINE Done(k) == \E g \in [0 .. k -> S] : g[0] = base /\ \A n \in 1 .. k : g[n] = step[<<n, g[n - 1]>>]
           T == {k \in 0 .. N : ~Done(k)}
<1>1. ASSUME T # {} PROVE FALSE
  <2>1. PICK k \in T : \A j \in T : k <= j
    <3>1. T \in SUBSET Nat OBVIOUS
    <3> HIDE DEF T
    <3> QED BY <1>1, <3>1, Least
  <2>2. k # 0
    <3>1. Done(0)
      <4> DEFINE h == [n \in 0 .. 0 |-> base]
      <4>1. h \in [0 .. 0 -> S] /\ h[0] = base OBVIOUS
      <4>2. 1 .. 0 = {} OBVIOUS
      <4> HIDE DEF h
      <4> QED BY <4>1, <4>2
    <3> QED BY <3>1, <2>1
  <2>3. k - 1 \in 0 .. N /\ k \in 1 .. N BY <2>1, <2>2
  <2>4. Done(k - 1)
    <3>1. k - 1 \notin T
      <4> HIDE DEF T
      <4> QED BY <2>1, <2>3
    <3> HIDE DEF Done
    <3> QED BY <3>1, <2>3
  <2>5. PICK g \in [0 .. k - 1 -> S] : g[0] = base /\ \A n \in 1 .. k - 1 : g[n] = step[<<n, g[n - 1]>>] BY <2>4
  <2> DEFINE h == [n \in 0 .. k |-> IF n = k THEN step[<<k, g[k - 1]>>] ELSE g[n]]
  <2>6. g[k - 1] \in S BY <2>3, <2>5
  <2>7. step[<<k, g[k - 1]>>] \in S BY <2>6, <2>3
  <2>8. h \in [0 .. k -> S]
    <3>1. ASSUME NEW n \in 0 .. k PROVE (IF n = k THEN step[<<k, g[k - 1]>>] ELSE g[n]) \in S
      <4>1. CASE n = k BY <4>1, <2>7
      <4>2. CASE n # k
        <5>1. n \in 0 .. k - 1 BY <4>2, <2>3
        <5> QED BY <5>1, <4>2, <2>5
      <4> QED BY <4>1, <4>2
    <3> QED BY <3>1
  <2>9. h[0] = base BY <2>3, <2>5
  <2>10. ASSUME NEW n \in 1 .. k PROVE h[n] = step[<<n, h[n - 1]>>]
    <3>1. n - 1 \in 0 .. k /\ n - 1 # k /\ n \in 0 .. k BY <2>3
    <3>2. h[n - 1] = g[n - 1] BY <3>1
    <3>3. CASE n = k BY <3>1, <3>2, <3>3
    <3>4. CASE n # k
      <4>1. n \in 1 .. k - 1 BY <3>4, <2>3
      <4>2. h[n] = g[n] BY <3>4, <3>1
      <4> QED BY <4>1, <4>2, <3>2, <2>5
    <3> QED BY <3>3, <3>4
  <2>11. Done(k)
    <3> HIDE DEF h
    <3> QED BY <2>8, <2>9, <2>10
  <2> QED BY <2>1, <2>11
<1>2. N \in 0 .. N OBVIOUS
<1>3. Done(N) BY <1>1, <1>2
<1> QED BY <1>3 DEF IsLoop

LEMMA Flattened ==
  ASSUME NEW S, NEW G \in SUBSET Seq(S), \A s, t \in G : s \o t \in G, NEW seqs \in Seq(G), seqs # <<>>
  PROVE  /\ FlattenSeq(seqs) \in G
         /\ \A n \in DOMAIN seqs : \A m \in DOMAIN seqs[n] :
              \E k \in DOMAIN FlattenSeq(seqs) : FlattenSeq(seqs)[k] = seqs[n][m]
<1> DEFINE N == Len(seqs)
<1>0. N \in Nat /\ N > 0 /\ DOMAIN seqs = 1 .. N /\ \A n \in 1 .. N : seqs[n] \in G OBVIOUS
<1> DEFINE step == [p \in (1 .. N) \X G |-> IF p[1] = 1 THEN seqs[1] ELSE p[2] \o seqs[p[1]]]
<1>1. step \in [(1 .. N) \X G -> G]
  <2>1. ASSUME NEW p \in (1 .. N) \X G PROVE (IF p[1] = 1 THEN seqs[1] ELSE p[2] \o seqs[p[1]]) \in G
    <3>1. p[1] \in 1 .. N /\ p[2] \in G /\ seqs[p[1]] \in G /\ seqs[1] \in G BY <1>0
    <3> QED BY <3>1
  <2> QED BY <2>1
<1>2. \A n \in 1 .. N : \A s \in G : step[<<n, s>>] = IF n = 1 THEN seqs[1] ELSE s \o seqs[n] OBVIOUS
<1>3. PICK g : IsLoop(g, G, N, seqs[1], step)
  <2>1. seqs[1] \in G BY <1>0
  <2>2. N \in Nat BY <1>0
  <2> HIDE DEF step, N
  <2> QED BY <1>1, <2>1, <2>2, Loops
<1>i. g \in [0 .. N -> G] /\ g[0] = seqs[1] /\ \A n \in 1 .. N : g[n] = step[<<n, g[n - 1]>>] BY <1>3 DEF IsLoop
<1> HIDE DEF step
<1> DEFINE f == [n \in 1 .. N |-> g[n]]
<1>4. ASSUME NEW n \in 1 .. N PROVE f[n] = (IF n = 1 THEN seqs[1] ELSE f[n - 1] \o seqs[n]) /\ f[n] \in G
  <2>1. n - 1 \in 0 .. N /\ n \in 0 .. N BY <1>0
  <2>2. g[n] = IF n = 1 THEN seqs[1] ELSE g[n - 1] \o seqs[n] BY <2>1, <1>2, <1>i
  <2>3. n # 1 => n - 1 \in 1 .. N BY <1>0
  <2>4. n # 1 => f[n - 1] = g[n - 1] BY <2>3
  <2> QED BY <2>1, <2>2, <2>4, <1>i
<1>5. f = [i \in 1 .. Len(seqs) |-> IF i = 1 THEN seqs[i] ELSE f[i - 1] \o seqs[i]]
  <2>1. DOMAIN f = 1 .. N OBVIOUS
  <2>2. f = [i \in 1 .. N |-> f[i]] OBVIOUS
  <2> HIDE DEF f
  <2> QED BY <2>1, <2>2, <1>4
<1> DEFINE h == CHOOSE q : q = [i \in 1 .. Len(seqs) |-> IF i = 1 THEN seqs[i] ELSE q[i - 1] \o seqs[i]]
<1>6. h = [i \in 1 .. Len(seqs) |-> IF i = 1 THEN seqs[i] ELSE h[i - 1] \o seqs[i]]
  <2> HIDE DEF f
  <2> QED BY <1>5, Zenon
<1>7. FlattenSeq(seqs) = h[N]
  <2>1. Len(seqs) # 0 BY <1>0
  <2> QED BY <2>1, Zenon DEF FlattenSeq
<1>8. \A n \in 1 .. N : h[n] = IF n = 1 THEN seqs[1] ELSE h[n - 1] \o seqs[n]
  <2> HIDE DEF h
  <2> QED BY <1>6
<1> HIDE DEF h
<1> DEFINE Keeps(n) == /\ h[n] \in G
                       /\ \A k \in 1 .. n : \A m \in DOMAIN seqs[k] : \E j \in DOMAIN h[n] : h[n][j] = seqs[k][m]
           T == {n \in 1 .. N : ~Keeps(n)}
<1>9. ASSUME T # {} PROVE FALSE
  <2>1. PICK n \in T : \A j \in T : n <= j
    <3>1. T \in SUBSET Nat OBVIOUS
    <3> HIDE DEF T
    <3> QED BY <1>9, <3>1, Least
  <2>2. n \in 1 .. N /\ ~Keeps(n) BY <2>1
  <2>3. n # 1
    <3>1. h[1] = seqs[1] /\ seqs[1] \in G BY <1>0, <1>8
    <3>2. Keeps(1) BY <3>1
    <3> QED BY <3>2, <2>2
  <2>4. Keeps(n - 1) /\ n - 1 \in 1 .. N
    <3>1. n - 1 \in 1 .. N BY <2>2, <2>3
    <3>2. n - 1 \notin T
      <4> HIDE DEF T
      <4> QED BY <2>1, <2>2
    <3> HIDE DEF Keeps
    <3> QED BY <3>1, <3>2
  <2>5. h[n] = h[n - 1] \o seqs[n] BY <1>8, <2>2, <2>3
  <2> DEFINE s == h[n - 1]
             t == seqs[n]
             u == h[n]
  <2>6. s \in Seq(S) /\ t \in Seq(S) /\ u = s \o t BY <2>4, <2>5, <2>2, <1>0
  <2>7. u \in G BY <2>4, <2>5, <2>2, <1>0
  <2>8. \A k \in 1 .. n - 1 : \A m \in DOMAIN seqs[k] : \E j \in DOMAIN s : s[j] = seqs[k][m] BY <2>4
  <2> HIDE DEF s, t, u
  <2>9. (\A j \in DOMAIN s : j \in DOMAIN u /\ u[j] = s[j]) /\ \A j \in DOMAIN t : Len(s) + j \in DOMAIN u /\ u[Len(s) + j] = t[j]
    BY <2>6, Joined
  <2>10. ASSUME NEW k \in 1 .. n, NEW m \in DOMAIN seqs[k] PROVE \E j \in DOMAIN u : u[j] = seqs[k][m]
    <3>1. CASE k = n
      <4>1. m \in DOMAIN t /\ t[m] = seqs[k][m] BY <3>1 DEF t
      <4> QED BY <4>1, <2>9
    <3>2. CASE k # n
      <4>1. k \in 1 .. n - 1 BY <3>2, <2>2
      <4>2. PICK j \in DOMAIN s : s[j] = seqs[k][m] BY <4>1, <2>8
      <4> QED BY <4>2, <2>9
    <3> QED BY <3>1, <3>2
  <2>11. Keeps(n) BY <2>7, <2>10 DEF u
  <2> QED BY <2>11, <2>2
<1>10. Keeps(N)
  <2>1. N \in 1 .. N /\ N \notin T BY <1>0, <1>9
  <2> QED BY <2>1
<1>11. \A k \in 1 .. N : \A m \in DOMAIN seqs[k] : \E j \in DOMAIN h[N] : h[N][j] = seqs[k][m] BY <1>10
<1> QED BY <1>0, <1>7, <1>10, <1>11

LEMMA FilterLoop == ASSUME NEW S, NEW s \in Seq(S), NEW Good PROVE \E h : Filters(h, s, Good)
<1> DEFINE N == Len(s)
           step == [p \in (1 .. N) \X Seq(S) |-> IF s[p[1]] \in Good THEN Append(p[2], s[p[1]]) ELSE p[2]]
<1>0. N \in Nat /\ \A n \in 1 .. N : s[n] \in S OBVIOUS
<1>1. step \in [(1 .. N) \X Seq(S) -> Seq(S)]
  <2>1. ASSUME NEW p \in (1 .. N) \X Seq(S)
        PROVE (IF s[p[1]] \in Good THEN Append(p[2], s[p[1]]) ELSE p[2]) \in Seq(S)
    <3>1. p[1] \in 1 .. N /\ p[2] \in Seq(S) OBVIOUS
    <3>2. s[p[1]] \in S BY <3>1, <1>0
    <3> QED BY <3>1, <3>2
  <2> QED BY <2>1
<1>2. \A n \in 1 .. N : \A r \in Seq(S) : step[<<n, r>>] = IF s[n] \in Good THEN Append(r, s[n]) ELSE r OBVIOUS
<1>3. PICK g : IsLoop(g, Seq(S), N, <<>>, step)
  <2>1. <<>> \in Seq(S) OBVIOUS
  <2> HIDE DEF step, N
  <2> QED BY <1>0, <1>1, <2>1, Loops
<1>4. g \in [0 .. N -> Seq(S)] /\ g[0] = <<>> /\ \A n \in 1 .. N : g[n] = step[<<n, g[n - 1]>>] BY <1>3 DEF IsLoop
<1> HIDE DEF step
<1>5. ASSUME NEW n \in 0 .. N
      PROVE  g[n] = IF n = 0 THEN <<>> ELSE IF s[n] \in Good THEN Append(g[n - 1], s[n]) ELSE g[n - 1]
  <2>1. CASE n = 0 BY <2>1, <1>4
  <2>2. CASE n # 0
    <3>1. n \in 1 .. N /\ n - 1 \in 0 .. N BY <2>2, <1>0
    <3>2. g[n - 1] \in Seq(S) BY <3>1, <1>4
    <3> QED BY <3>1, <3>2, <2>2, <1>2, <1>4
  <2> QED BY <2>1, <2>2
<1>6. g = [n \in 0 .. N |-> g[n]] BY <1>4
<1> QED BY <1>5, <1>6 DEF Filters

LEMMA FilterPicks ==
  ASSUME NEW S, NEW s \in Seq(S), NEW Good, NEW h, Filters(h, s, Good)
  PROVE  Picked(h[Len(s)], s, S, Good)
<1> DEFINE N == Len(s)
           P(i, pos) == /\ h[i] \in Seq(S) /\ pos \in [DOMAIN h[i] -> 1 .. i]
                        /\ \A m \in DOMAIN h[i] : h[i][m] = s[pos[m]] /\ h[i][m] \in Good
                        /\ \A m, n \in DOMAIN h[i] : pos[m] = pos[n] => m = n
                        /\ \A k \in 1 .. i : s[k] \in Good => \E m \in DOMAIN h[i] : pos[m] = k
           Done(i) == \E pos : P(i, pos)
           T == {i \in 0 .. N : ~Done(i)}
<1>0. N \in Nat /\ DOMAIN s = 1 .. N /\ \A n \in 1 .. N : s[n] \in S OBVIOUS
<1>1. /\ h[0] = <<>>
      /\ \A i \in 1 .. N : h[i] = IF s[i] \in Good THEN Append(h[i - 1], s[i]) ELSE h[i - 1]
  <2>1. \A i \in 0 .. N : h[i] = IF i = 0 THEN <<>> ELSE IF s[i] \in Good THEN Append(h[i - 1], s[i]) ELSE h[i - 1]
    BY DEF Filters
  <2>2. 0 \in 0 .. N /\ \A i \in 1 .. N : i \in 0 .. N /\ i # 0 BY <1>0
  <2> QED BY <2>1, <2>2
<1>2. ASSUME T # {} PROVE FALSE
  <2>1. PICK i \in T : \A j \in T : i <= j
    <3>1. T \in SUBSET Nat OBVIOUS
    <3> HIDE DEF T
    <3> QED BY <1>2, <3>1, Least
  <2>2. i \in 0 .. N /\ ~Done(i)
    <3> HIDE DEF Done
    <3> QED BY <2>1
  <2>3. i # 0
    <3>1. DOMAIN <<>> = {} /\ <<>> \in Seq(S) /\ <<>> \in [{} -> 1 .. 0] OBVIOUS
    <3>2. P(0, <<>>) BY <1>1, <3>1
    <3>3. Done(0)
      <4> HIDE DEF P
      <4> QED BY <3>2
    <3> HIDE DEF Done
    <3> QED BY <3>3, <2>2
  <2>4. i \in 1 .. N /\ i - 1 \in 0 .. N BY <2>2, <2>3, <1>0
  <2>5. Done(i - 1)
    <3>1. i - 1 \notin T
      <4> HIDE DEF T
      <4> QED BY <2>1, <2>4
    <3> HIDE DEF Done
    <3> QED BY <3>1, <2>4
  <2>6. PICK q : P(i - 1, q)
    <3> HIDE DEF P
    <3> QED BY <2>5
  <2> DEFINE r == h[i - 1]
             o == h[i]
  <2>7. /\ r \in Seq(S) /\ q \in [DOMAIN r -> 1 .. i - 1] /\ Len(r) \in Nat /\ DOMAIN r = 1 .. Len(r)
        /\ \A m \in DOMAIN r : r[m] = s[q[m]] /\ r[m] \in Good
        /\ \A m, n \in DOMAIN r : q[m] = q[n] => m = n
        /\ \A k \in 1 .. i - 1 : s[k] \in Good => \E m \in DOMAIN r : q[m] = k
    BY <2>6
  <2>8. o = IF s[i] \in Good THEN Append(r, s[i]) ELSE r BY <1>1, <2>4
  <2>9. s[i] \in S BY <1>0, <2>4
  <2>10. \E p : /\ o \in Seq(S) /\ p \in [DOMAIN o -> 1 .. i]
                /\ \A m \in DOMAIN o : o[m] = s[p[m]] /\ o[m] \in Good
                /\ \A m, n \in DOMAIN o : p[m] = p[n] => m = n
                /\ \A k \in 1 .. i : s[k] \in Good => \E m \in DOMAIN o : p[m] = k
    <3> HIDE DEF r, o, N
    <3>1. CASE s[i] \notin Good
      <4>1. o = r BY <3>1, <2>8
      <4>2. q \in [DOMAIN o -> 1 .. i]
        <5>1. \A m \in DOMAIN r : q[m] \in 1 .. i BY <2>7, <2>4
        <5> QED BY <4>1, <5>1, <2>7
      <4>3. ASSUME NEW k \in 1 .. i, s[k] \in Good PROVE \E m \in DOMAIN o : q[m] = k
        <5>1. k \in 1 .. i - 1
          <6>1. k # i BY <3>1, <4>3
          <6> QED BY <6>1, <2>4
        <5>2. \E m \in DOMAIN r : q[m] = k BY <5>1, <4>3, <2>7
        <5> QED BY <5>2, <4>1
      <4>4. /\ o \in Seq(S)
            /\ \A m \in DOMAIN o : o[m] = s[q[m]] /\ o[m] \in Good
            /\ \A m, n \in DOMAIN o : q[m] = q[n] => m = n
        BY <4>1, <2>7
      <4> QED BY <4>2, <4>3, <4>4
    <3>2. CASE s[i] \in Good
      <4>1. o = Append(r, s[i]) BY <3>2, <2>8
      <4>2. o \in Seq(S) /\ Len(o) = Len(r) + 1 /\ DOMAIN o = 1 .. Len(r) + 1 /\ o[Len(r) + 1] = s[i]
            /\ \A m \in DOMAIN r : m \in DOMAIN o /\ o[m] = r[m]
        BY <4>1, <2>7, <2>9
      <4> DEFINE p == [m \in 1 .. Len(r) + 1 |-> IF m = Len(r) + 1 THEN i ELSE q[m]]
      <4>3. p[Len(r) + 1] = i /\ Len(r) + 1 \in DOMAIN o /\ \A m \in DOMAIN r : p[m] = q[m] /\ m # Len(r) + 1
        BY <2>7, <4>2
      <4>4. \A m \in DOMAIN o : m \in DOMAIN r \/ m = Len(r) + 1 BY <2>7, <4>2
      <4>5. \A m \in DOMAIN r : q[m] \in 1 .. i /\ q[m] # i BY <2>7, <2>4
      <4>6. p \in [DOMAIN o -> 1 .. i]
        <5>1. \A m \in 1 .. Len(r) + 1 : p[m] \in 1 .. i
          <6>1. i \in 1 .. i BY <2>4
          <6> HIDE DEF p
          <6> QED BY <6>1, <4>2, <4>3, <4>4, <4>5
        <5> QED BY <5>1, <4>2
      <4> HIDE DEF p
      <4>7. \A m \in DOMAIN o : o[m] = s[p[m]] /\ o[m] \in Good BY <4>2, <4>3, <4>4, <2>7, <3>2
      <4>8. \A m, n \in DOMAIN o : p[m] = p[n] => m = n BY <4>3, <4>4, <4>5, <2>7
      <4>9. ASSUME NEW k \in 1 .. i, s[k] \in Good PROVE \E m \in DOMAIN o : p[m] = k
        <5>1. CASE k = i BY <5>1, <4>3
        <5>2. CASE k # i
          <6>1. k \in 1 .. i - 1 BY <5>2, <2>4
          <6>2. PICK m \in DOMAIN r : q[m] = k BY <6>1, <4>9, <2>7
          <6> QED BY <6>2, <4>2, <4>3
        <5> QED BY <5>1, <5>2
      <4> QED BY <4>2, <4>6, <4>7, <4>8, <4>9
    <3> QED BY <3>1, <3>2
  <2>11. Done(i)
    <3> HIDE DEF N
    <3> QED BY <2>10
  <2> HIDE DEF Done
  <2> QED BY <2>11, <2>2
<1>3. Done(N)
  <2>1. N \in 0 .. N BY <1>0
  <2>2. N \notin T BY <1>2
  <2> HIDE DEF Done
  <2> QED BY <2>1, <2>2
<1> QED BY <1>0, <1>3 DEF Picked, Picks

LEMMA AmongPicks ==
  ASSUME NEW S, NEW s \in Seq(S), NEW Good
  PROVE  Picked(Among(s, Good), s, S, Good)
<1> DEFINE h == CHOOSE q : q = [i \in 0 .. Len(s) |-> IF i = 0 THEN <<>> ELSE
                                  IF s[i] \in Good THEN Append(q[i - 1], s[i]) ELSE q[i - 1]]
<1>1. PICK g : Filters(g, s, Good) BY FilterLoop
<1>2. h = [i \in 0 .. Len(s) |-> IF i = 0 THEN <<>> ELSE
                                  IF s[i] \in Good THEN Append(h[i - 1], s[i]) ELSE h[i - 1]]
  BY <1>1, Zenon DEF Filters
<1>3. Among(s, Good) = h[Len(s)] BY Zenon DEF Among
<1> HIDE DEF h
<1>4. Picked(h[Len(s)], s, S, Good) BY <1>2, FilterPicks DEF Filters
<1> QED BY <1>3, <1>4

(* ----------------------- the order of a unit of work ---------------------- *)

LEMMA ThroughLoops ==
  ASSUME NEW T, NEW ops \in Seq(T), NEW among, NEW visit \in [DOMAIN ops -> [Sorting(ops) -> Sorting(ops)]],
         NEW s \in Sorting(ops)
  PROVE  \E g : Rounds(g, ops, among, visit, s)
<1> DEFINE N == Len(ops)
           St == Sorting(ops)
           step == [p \in (1 .. N) \X St |-> IF p[1] \in among THEN visit[p[1]][p[2]] ELSE p[2]]
<1>0. N \in Nat /\ DOMAIN ops = 1 .. N OBVIOUS
<1> HIDE DEF St
<1>1. step \in [(1 .. N) \X St -> St]
  <2>1. ASSUME NEW p \in (1 .. N) \X St PROVE (IF p[1] \in among THEN visit[p[1]][p[2]] ELSE p[2]) \in St
    <3>1. p[1] \in DOMAIN ops /\ p[2] \in St BY <1>0
    <3>2. visit[p[1]][p[2]] \in St BY <3>1 DEF St
    <3> QED BY <3>1, <3>2
  <2> QED BY <2>1
<1>2. \A n \in 1 .. N : \A x \in St : step[<<n, x>>] = IF n \in among THEN visit[n][x] ELSE x OBVIOUS
<1>3. PICK g : IsLoop(g, St, N, s, step)
  <2>1. s \in St BY DEF St
  <2> HIDE DEF step, N
  <2> QED BY <1>0, <1>1, <2>1, Loops
<1>4. g \in [0 .. N -> St] /\ g[0] = s /\ \A n \in 1 .. N : g[n] = step[<<n, g[n - 1]>>] BY <1>3 DEF IsLoop
<1> HIDE DEF step
<1>5. ASSUME NEW n \in 0 .. N
      PROVE  g[n] = IF n = 0 THEN s ELSE IF n \in among THEN visit[n][g[n - 1]] ELSE g[n - 1]
  <2>1. CASE n = 0 BY <2>1, <1>4
  <2>2. CASE n # 0
    <3>1. n \in 1 .. N /\ n - 1 \in 0 .. N BY <2>2, <1>0
    <3>2. g[n - 1] \in St BY <3>1, <1>4
    <3> QED BY <3>1, <3>2, <2>2, <1>2, <1>4
  <2> QED BY <2>1, <2>2
<1>6. g = [m \in 0 .. N |-> IF m = 0 THEN s ELSE IF m \in among THEN visit[m][g[m - 1]] ELSE g[m - 1]]
  <2>1. g = [n \in 0 .. N |-> g[n]] BY <1>4
  <2> QED BY <2>1, <1>5
<1> DEFINE h == CHOOSE q : q = [m \in 0 .. Len(ops) |-> IF m = 0 THEN s ELSE IF m \in among THEN visit[m][q[m - 1]] ELSE q[m - 1]]
<1>7. h = [m \in 0 .. N |-> IF m = 0 THEN s ELSE IF m \in among THEN visit[m][h[m - 1]] ELSE h[m - 1]]
  BY <1>6, Zenon
<1>8. Through(ops, among, visit, s) = h[N] BY Zenon DEF Through
<1> HIDE DEF h
<1> DEFINE S == {n \in 0 .. N : h[n] # g[n]}
<1>9. ASSUME S # {} PROVE FALSE
  <2>1. PICK n \in S : \A j \in S : n <= j
    <3>1. S \in SUBSET Nat OBVIOUS
    <3> HIDE DEF S
    <3> QED BY <1>9, <3>1, Least
  <2>2. n \in 0 .. N /\ h[n] # g[n] BY <2>1
  <2>3. h[n] = IF n = 0 THEN s ELSE IF n \in among THEN visit[n][h[n - 1]] ELSE h[n - 1] BY <1>7, <2>2
  <2>4. n # 0 BY <2>2, <2>3, <1>5
  <2>5. n - 1 \in 0 .. N /\ n - 1 \notin S
    <3>1. n - 1 \in 0 .. N BY <2>2, <2>4
    <3> HIDE DEF S
    <3> QED BY <3>1, <2>1, <2>2
  <2>6. h[n - 1] = g[n - 1] BY <2>5
  <2> QED BY <2>2, <2>3, <2>4, <2>6, <1>5
<1>10. h[N] = g[N] BY <1>9, <1>0
<1>11. \A m \in 1 .. N : g[m] = IF m \in among THEN visit[m][g[m - 1]] ELSE g[m - 1]
  <2>1. \A m \in 1 .. N : m \in 0 .. N /\ m # 0 BY <1>0
  <2> QED BY <2>1, <1>5
<1> QED BY <1>4, <1>8, <1>10, <1>11 DEF St, Rounds

\* What each visit of the loop keeps, the loop keeps; what each visits is visited.
LEMMA ThroughStays ==
  ASSUME NEW T, NEW ops \in Seq(T), NEW among, NEW visit \in [DOMAIN ops -> [Sorting(ops) -> Sorting(ops)]],
         NEW Q \in SUBSET Sorting(ops), NEW s \in Q,
         \A m \in DOMAIN ops : \A x \in Q : m \in among => visit[m][x] \in Q
  PROVE  /\ Through(ops, among, visit, s) \in Q
         /\ (\A m \in DOMAIN ops : \A x \in Q : m \in among => m \in visit[m][x].visited /\ x.visited \subseteq visit[m][x].visited)
            => among \cap DOMAIN ops \subseteq Through(ops, among, visit, s).visited
<1> DEFINE N == Len(ops)
           Each0 == \A m \in DOMAIN ops : \A x \in Q : m \in among => m \in visit[m][x].visited /\ x.visited \subseteq visit[m][x].visited
<1>0. N \in Nat /\ DOMAIN ops = 1 .. N /\ s \in Sorting(ops) OBVIOUS
<1>g. PICK g : Rounds(g, ops, among, visit, s)
  <2> HIDE DEF Each0
  <2> QED BY <1>0, ThroughLoops
<1>1. /\ g \in [0 .. Len(ops) -> Sorting(ops)] /\ g[0] = s
      /\ \A m \in 1 .. Len(ops) : g[m] = IF m \in among THEN visit[m][g[m - 1]] ELSE g[m - 1]
      /\ Through(ops, among, visit, s) = g[Len(ops)]
  BY <1>g DEF Rounds
<1> DEFINE Good(k) == g[k] \in Q /\ (Each0 => \A m \in 1 .. k : m \in among => m \in g[k].visited)
           S == {k \in 0 .. N : ~Good(k)}
<1>2. ASSUME S # {} PROVE FALSE
  <2>1. PICK k \in S : \A j \in S : k <= j
    <3>1. S \in SUBSET Nat OBVIOUS
    <3> HIDE DEF S
    <3> QED BY <1>2, <3>1, Least
  <2>2. k \in 0 .. N /\ ~Good(k)
    <3> HIDE DEF Good
    <3> QED BY <2>1
  <2>3. k # 0
    <3>1. 1 .. 0 = {} OBVIOUS
    <3> QED BY <3>1, <2>2, <1>1
  <2>4. k \in 1 .. N /\ k - 1 \in 0 .. N BY <2>2, <2>3, <1>0
  <2>5. Good(k - 1)
    <3>1. k - 1 \notin S
      <4> HIDE DEF S
      <4> QED BY <2>1, <2>4
    <3> HIDE DEF Good
    <3> QED BY <3>1, <2>4
  <2>6. g[k] = IF k \in among THEN visit[k][g[k - 1]] ELSE g[k - 1] BY <1>1, <2>4
  <2>7. g[k] \in Q BY <2>5, <2>6, <2>4, <1>0
  <2>8. ASSUME Each0, NEW m \in 1 .. k, m \in among PROVE m \in g[k].visited
    <3>1. g[k - 1] \in Q /\ \A j \in 1 .. k - 1 : j \in among => j \in g[k - 1].visited BY <2>5, <2>8
    <3>2. m = k \/ m \in 1 .. k - 1 BY <2>4
    <3>3. k \in among => k \in g[k].visited /\ g[k - 1].visited \subseteq g[k].visited
      BY <2>6, <3>1, <2>8, <2>4, <1>0
    <3> QED BY <3>1, <3>2, <3>3, <2>6, <2>8
  <2>9. Good(k) BY <2>7, <2>8
  <2> QED BY <2>9, <2>2
<1>3. Good(N) BY <1>2, <1>0
<1> QED BY <1>0, <1>1, <1>3

LEMMA VisitType ==
  ASSUME NEW T, NEW ops \in Seq(T), NEW visit \in Visitors(ops)
  PROVE  Visiting(ops, visit) \in Visitors(ops)
<1> SUFFICES ASSUME NEW n \in DOMAIN ops, NEW s \in Sorting(ops) PROVE Visit(ops, visit, n, s) \in Sorting(ops)
  BY DEF Visiting, Visitors
<1>0. ops[n] \in Range(ops) BY DEF Range
<1>1. s.out \in Seq(Range(ops)) /\ s.visited \subseteq DOMAIN ops /\ s.visiting \subseteq DOMAIN ops BY DEF Sorting
<1>2. CASE n \in s.visited BY <1>2 DEF Visit
<1>3. CASE n \notin s.visited /\ n \in s.visiting
  <2>1. Visit(ops, visit, n, s) = [s EXCEPT !.out = Append(@, ops[n]), !.visited = @ \cup {n}] BY <1>3 DEF Visit
  <2>2. Append(s.out, ops[n]) \in Seq(Range(ops)) BY <1>0, <1>1
  <2> QED BY <2>1, <2>2, <1>1 DEF Sorting
<1>4. CASE n \notin s.visited /\ n \notin s.visiting
  <2> DEFINE x == [s EXCEPT !.visiting = @ \cup {n}]
             b == Through(ops, Parents(ops, n), visit, x)
  <2>1. x \in Sorting(ops) BY <1>1 DEF Sorting
  <2>2. b \in Sorting(ops)
    <3> HIDE DEF x
    <3>1. PICK g : Rounds(g, ops, Parents(ops, n), visit, x) BY <2>1, ThroughLoops DEF Visitors
    <3>2. Len(ops) \in 0 .. Len(ops) OBVIOUS
    <3> QED BY <3>1, <3>2 DEF Rounds
  <2>3. Visit(ops, visit, n, s) = [out |-> Append(b.out, ops[n]), visited |-> b.visited \cup {n}, visiting |-> b.visiting \ {n}]
    BY <1>4 DEF Visit
  <2> HIDE DEF b, x
  <2>4. b.out \in Seq(Range(ops)) /\ b.visited \subseteq DOMAIN ops /\ b.visiting \subseteq DOMAIN ops
    BY <2>2 DEF Sorting
  <2>5. Append(b.out, ops[n]) \in Seq(Range(ops)) BY <1>0, <2>4
  <2> QED BY <2>3, <2>4, <2>5 DEF Sorting
<1> QED BY <1>2, <1>3, <1>4

LEMMA VisitsDescend == ASSUME NEW T, NEW ops \in Seq(T) PROVE \E v : Descends(v, ops)
<1> DEFINE N == Len(ops) + 1
           V == Visitors(ops)
           base == [n \in DOMAIN ops |-> [s \in Sorting(ops) |-> s]]
           step == [p \in (1 .. N) \X V |-> Visiting(ops, p[2])]
<1>0. N \in Nat OBVIOUS
<1>1. base \in V BY DEF Visitors
<1>2. step \in [(1 .. N) \X V -> V] BY VisitType
<1>3. \A n \in 1 .. N : \A x \in V : step[<<n, x>>] = Visiting(ops, x) OBVIOUS
<1>4. PICK g : IsLoop(g, V, N, base, step)
  <2> HIDE DEF step, N, V, base
  <2> QED BY <1>0, <1>1, <1>2, Loops
<1>5. g \in [0 .. N -> V] /\ g[0] = base /\ \A n \in 1 .. N : g[n] = step[<<n, g[n - 1]>>] BY <1>4 DEF IsLoop
<1>6. \A n \in DOMAIN ops : \A s \in Sorting(ops) : g[0][n][s] = s
  <2>1. g[0] = base BY <1>5
  <2>2. \A n \in DOMAIN ops : \A s \in Sorting(ops) : base[n][s] = s OBVIOUS
  <2> HIDE DEF base
  <2> QED BY <2>1, <2>2
<1> HIDE DEF step
<1>7. ASSUME NEW n \in 1 .. N PROVE g[n] = Visiting(ops, g[n - 1]) /\ g[n - 1] \in V /\ g[n] \in V
  <2>1. n - 1 \in 0 .. N /\ n \in 0 .. N BY <1>0
  <2> HIDE DEF V, N
  <2>2. g[n - 1] \in V /\ g[n] \in V BY <2>1, <1>5
  <2> QED BY <2>2, <1>3, <1>5
<1> DEFINE P(q) == q = [d \in 0 .. N |-> [n \in DOMAIN ops |-> [s \in Sorting(ops) |->
                          IF d = 0 THEN s ELSE Visit(ops, q[d - 1], n, s)]]]
<1>8. P(g)
  <2>1. g = [d \in 0 .. N |-> g[d]] BY <1>5
  <2>2. ASSUME NEW d \in 0 .. N
        PROVE g[d] = [n \in DOMAIN ops |-> [s \in Sorting(ops) |-> IF d = 0 THEN s ELSE Visit(ops, g[d - 1], n, s)]]
    <3>1. CASE d = 0 BY <3>1, <1>5
    <3>2. CASE d # 0
      <4>1. d \in 1 .. N BY <3>2, <1>0
      <4>2. g[d] = Visiting(ops, g[d - 1]) BY <4>1, <1>7
      <4> QED BY <4>2, <3>2 DEF Visiting
    <3> QED BY <3>1, <3>2
  <2> QED BY <2>1, <2>2
<1> DEFINE h == CHOOSE q : P(q)
<1>9. P(h)
  <2> HIDE DEF P
  <2> QED BY <1>8, Zenon
<1>10. Visits(ops) = h[N] BY Zenon DEF Visits
<1> HIDE DEF h
<1> DEFINE S == {d \in 0 .. N : h[d] # g[d]}
<1>11. ASSUME S # {} PROVE FALSE
  <2>1. PICK d \in S : \A j \in S : d <= j
    <3>1. S \in SUBSET Nat OBVIOUS
    <3> HIDE DEF S
    <3> QED BY <1>11, <3>1, Least
  <2>2. d \in 0 .. N /\ h[d] # g[d] BY <2>1
  <2>3. h[d] = [n \in DOMAIN ops |-> [s \in Sorting(ops) |-> IF d = 0 THEN s ELSE Visit(ops, h[d - 1], n, s)]]
    BY <1>9, <2>2
  <2>4. d # 0 BY <2>2, <2>3, <1>5
  <2>5. d - 1 \in 0 .. N /\ d \in 1 .. N /\ d - 1 \notin S
    <3>1. d - 1 \in 0 .. N /\ d \in 1 .. N BY <2>2, <2>4, <1>0
    <3> HIDE DEF S
    <3> QED BY <3>1, <2>1, <2>2
  <2>6. h[d - 1] = g[d - 1] BY <2>5
  <2>7. g[d] = Visiting(ops, g[d - 1]) BY <2>5, <1>7
  <2> QED BY <2>2, <2>3, <2>4, <2>6, <2>7 DEF Visiting
<1>12. h[N] = g[N] BY <1>11, <1>0
<1>13. g \in [0 .. N -> V] BY <1>5
<1> HIDE DEF P
<1> QED BY <1>6, <1>7, <1>10, <1>12, <1>13 DEF Descends

LEMMA AppendListed ==
  ASSUME NEW T, NEW ops \in Seq(T), NEW n \in DOMAIN ops, NEW s \in Sorting(ops), Listed(ops, s),
         NEW r, r.out = Append(s.out, ops[n]), r.visited = s.visited \cup {n}
  PROVE  Listed(ops, r)
<1>1. s.out \in Seq(Range(ops)) /\ ops[n] \in Range(ops) BY DEF Sorting, Range
<1> DEFINE o == s.out
           q == r.out
<1>2. q = Append(o, ops[n]) /\ o \in Seq(Range(ops)) BY <1>1
<1> HIDE DEF o, q
<1>3. Len(o) + 1 \in DOMAIN q /\ q[Len(o) + 1] = ops[n] /\ \A j \in DOMAIN o : j \in DOMAIN q /\ q[j] = o[j]
  BY <1>1, <1>2
<1>4. \A k \in s.visited : \E j \in DOMAIN o : o[j] = ops[k] BY DEF Listed, o
<1>5. ASSUME NEW k \in r.visited PROVE \E j \in DOMAIN q : q[j] = ops[k]
  <2>1. k \in s.visited \/ k = n OBVIOUS
  <2> QED BY <2>1, <1>3, <1>4
<1> QED BY <1>5 DEF Listed, q

\* Visiting adds operations, and lists what it adds, whatever the classes declare.
LEMMA VisitGrows ==
  ASSUME NEW T, NEW ops \in Seq(T), NEW v, Descends(v, ops), NEW d \in 0 .. Len(ops) + 1
  PROVE  GrowsAt(v, ops, d)
<1> DEFINE N == Len(ops) + 1
           S == {k \in 0 .. N : ~GrowsAt(v, ops, k)}
<1>0. N \in Nat OBVIOUS
<1>1. ASSUME S # {} PROVE FALSE
  <2>1. PICK k \in S : \A j \in S : k <= j
    <3>1. S \in SUBSET Nat OBVIOUS
    <3> HIDE DEF S
    <3> QED BY <1>1, <3>1, Least
  <2>2. k \in 0 .. N /\ ~GrowsAt(v, ops, k) BY <2>1
  <2>3. k # 0
    <3>1. GrowsAt(v, ops, 0) BY DEF GrowsAt, Grows, Descends
    <3> QED BY <3>1, <2>2
  <2>4. k \in 1 .. N /\ k - 1 \in 0 .. N BY <2>2, <2>3, <1>0
  <2>5. GrowsAt(v, ops, k - 1)
    <3>1. k - 1 \notin S
      <4> HIDE DEF S
      <4> QED BY <2>1, <2>4
    <3> QED BY <3>1, <2>4
  <2> DEFINE w == v[k - 1]
  <2>6. w \in Visitors(ops) /\ v[k] = Visiting(ops, w) /\ v[k] \in Visitors(ops) BY <2>4 DEF Descends
  <2>7. \A n \in DOMAIN ops : \A s \in Sorting(ops) : Grows(ops, s, w[n][s]) BY <2>5 DEF GrowsAt
  <2> HIDE DEF w
  <2>8. ASSUME NEW n \in DOMAIN ops, NEW s \in Sorting(ops)
        PROVE  Grows(ops, s, v[k][n][s]) /\ n \in v[k][n][s].visited
    <3> DEFINE r == v[k][n][s]
    <3>1. r = Visit(ops, w, n, s) /\ r \in Sorting(ops)
      <4>1. v[k][n][s] = Visit(ops, w, n, s) BY <2>6 DEF Visiting
      <4>2. v[k][n][s] \in Sorting(ops) BY <2>6 DEF Visitors
      <4> QED BY <4>1, <4>2
    <3> HIDE DEF r
    <3>0. s.out \in Seq(Range(ops)) /\ s.visited \subseteq DOMAIN ops /\ s.visiting \subseteq DOMAIN ops /\ DOMAIN s = {"out", "visited", "visiting"}
      BY DEF Sorting
    <3>2. CASE n \in s.visited
      <4>1. r = s BY <3>1, <3>2 DEF Visit
      <4> QED BY <4>1, <3>1, <3>2 DEF Grows, r
    <3>3. CASE n \notin s.visited /\ n \in s.visiting
      <4>1. r = [s EXCEPT !.out = Append(@, ops[n]), !.visited = @ \cup {n}] BY <3>1, <3>3 DEF Visit
      <4>2. r.out = Append(s.out, ops[n]) /\ r.visited = s.visited \cup {n} BY <4>1 DEF Sorting
      <4>3. Listed(ops, s) => Listed(ops, r) BY <4>2, AppendListed
      <4> QED BY <4>2, <4>3, <3>1 DEF Grows, r
    <3>4. CASE n \notin s.visited /\ n \notin s.visiting
      <4> DEFINE x == [s EXCEPT !.visiting = @ \cup {n}]
                 b == Through(ops, Parents(ops, n), w, x)
                 Q == {y \in Sorting(ops) : Grows(ops, s, y)}
      <4>1. r = [out |-> Append(b.out, ops[n]), visited |-> b.visited \cup {n}, visiting |-> b.visiting \ {n}]
        BY <3>1, <3>4 DEF Visit
      <4>2. x \in Sorting(ops) /\ x.out = s.out /\ x.visited = s.visited BY <3>0 DEF Sorting
      <4> HIDE DEF x
      <4>3. x \in Q BY <4>2 DEF Grows, Listed
      <4>4. \A m \in DOMAIN ops : \A y \in Q : w[m][y] \in Q
        <5> SUFFICES ASSUME NEW m \in DOMAIN ops, NEW y \in Q PROVE w[m][y] \in Q OBVIOUS
        <5>1. Grows(ops, y, w[m][y]) /\ Grows(ops, s, y) BY <2>7
        <5> QED BY <5>1 DEF Grows
      <4>5. b \in Q
        <5>1. Q \in SUBSET Sorting(ops) /\ w \in [DOMAIN ops -> [Sorting(ops) -> Sorting(ops)]] BY <2>6 DEF Visitors
        <5> HIDE DEF Q
        <5> QED BY <4>3, <4>4, <5>1, ThroughStays
      <4> HIDE DEF b
      <4>6. b \in Sorting(ops) /\ Grows(ops, s, b) BY <4>5
      <4>7. r.out = Append(b.out, ops[n]) /\ r.visited = b.visited \cup {n} BY <4>1
      <4>8. Listed(ops, s) => Listed(ops, r) BY <4>6, <4>7, AppendListed DEF Grows
      <4> QED BY <4>6, <4>7, <4>8, <3>1 DEF Grows, r
    <3> QED BY <3>2, <3>3, <3>4
  <2>9. GrowsAt(v, ops, k) BY <2>8 DEF GrowsAt
  <2> QED BY <2>9, <2>2
<1> QED BY <1>1

\* No operation is left out, whatever the classes declare.
\* Every operation is in the sorted list, cycles or not.
LEMMA SortHasAll ==
  ASSUME NEW T, NEW ops \in Seq(T)
  PROVE  /\ SortInserts(ops) \in Seq(Range(ops))
         /\ \A k \in DOMAIN ops : \E j \in DOMAIN SortInserts(ops) : SortInserts(ops)[j] = ops[k]
<1>1. PICK v : Descends(v, ops) BY VisitsDescend
<1>2. Len(ops) + 1 \in 0 .. Len(ops) + 1 /\ Len(ops) + 1 > 0 OBVIOUS
<1> DEFINE w == v[Len(ops) + 1]
           Q == {y \in Sorting(ops) : Listed(ops, y)}
           r == Through(ops, DOMAIN ops, w, Unsorted)
<1>3. w \in Visitors(ops) /\ Visits(ops) = w BY <1>1, <1>2 DEF Descends
<1>4. GrowsAt(v, ops, Len(ops) + 1) BY <1>1, <1>2, VisitGrows
<1>5. \A n \in DOMAIN ops : \A s \in Sorting(ops) : Grows(ops, s, w[n][s]) /\ n \in w[n][s].visited
  BY <1>4, <1>2 DEF GrowsAt
<1> HIDE DEF w
<1>6. Unsorted \in Q
  <2>1. <<>> \in Seq(Range(ops)) OBVIOUS
  <2> QED BY <2>1 DEF Unsorted, Sorting, Listed
<1>7. \A m \in DOMAIN ops : \A y \in Q : w[m][y] \in Q /\ m \in w[m][y].visited /\ y.visited \subseteq w[m][y].visited
  BY <1>5 DEF Grows
<1>8. r \in Q /\ DOMAIN ops \subseteq r.visited
  <2>1. Q \in SUBSET Sorting(ops) /\ w \in [DOMAIN ops -> [Sorting(ops) -> Sorting(ops)]] BY <1>3 DEF Visitors
  <2> HIDE DEF Q
  <2>2. (DOMAIN ops) \cap DOMAIN ops = DOMAIN ops OBVIOUS
  <2> QED BY <1>6, <1>7, <2>1, <2>2, ThroughStays
<1>9. SortInserts(ops) = r.out BY <1>3 DEF SortInserts, Unsorted
<1> HIDE DEF r
<1>10. r \in Sorting(ops) /\ Listed(ops, r) BY <1>8
<1>11. r.out \in Seq(Range(ops)) BY <1>10 DEF Sorting
<1> QED BY <1>8, <1>9, <1>10, <1>11 DEF Listed

LEMMA AppendSound ==
  ASSUME NEW T, NEW ops \in Seq(T), Distinct(ops), NEW n \in DOMAIN ops, NEW s \in Sorting(ops), Sound(ops, s),
         n \notin s.visited, Parents(ops, n) \subseteq s.visited,
         NEW r \in Sorting(ops), r.out = Append(s.out, ops[n]), r.visited = s.visited \cup {n}, r.visiting = s.visiting \ {n}
  PROVE  Sound(ops, r)
<1> DEFINE o == s.out
           q == r.out
<1>1. s.out \in Seq(Range(ops)) /\ ops[n] \in Range(ops) /\ s.visited \subseteq DOMAIN ops BY DEF Sorting, Range
<1>2. q = Append(o, ops[n]) /\ o \in Seq(Range(ops)) BY <1>1
<1>s. /\ \A j \in DOMAIN o : \E k \in s.visited : o[j] = ops[k]
      /\ \A j, k \in DOMAIN o : o[j] = o[k] => j = k
      /\ \A k \in s.visited : Parents(ops, k) \subseteq s.visited
      /\ \A j, k \in DOMAIN o : \A x, y \in DOMAIN ops : o[j] = ops[x] /\ o[k] = ops[y] /\ y \in Parents(ops, x) => k < j
      /\ s.visited \cap s.visiting = {} /\ Listed(ops, s)
  BY DEF Sound
<1> HIDE DEF o, q
<1>3. /\ Len(o) \in Nat /\ DOMAIN o = 1 .. Len(o) /\ DOMAIN q = 1 .. Len(o) + 1
      /\ q[Len(o) + 1] = ops[n] /\ \A j \in DOMAIN o : q[j] = o[j]
  BY <1>1, <1>2
<1>4. \A j \in DOMAIN q : j \in DOMAIN o \/ j = Len(o) + 1 BY <1>3
<1>5. Listed(ops, r) BY <1>s, AppendListed
<1>6. \A j \in DOMAIN q : \E k \in r.visited : q[j] = ops[k] BY <1>3, <1>4, <1>s
<1>7. ASSUME NEW j \in DOMAIN o PROVE o[j] # ops[n]
  <2>1. PICK k \in s.visited : o[j] = ops[k] BY <1>s
  <2> QED BY <2>1, <1>1 DEF Distinct
<1>8. \A j, k \in DOMAIN q : q[j] = q[k] => j = k BY <1>3, <1>4, <1>7, <1>s
<1>9. \A k \in r.visited : Parents(ops, k) \subseteq r.visited BY <1>s
<1>10. ASSUME NEW j \in DOMAIN q, NEW k \in DOMAIN q, NEW x \in DOMAIN ops, NEW y \in DOMAIN ops,
              q[j] = ops[x], q[k] = ops[y], y \in Parents(ops, x)
       PROVE  k < j
  <2>1. CASE j \in DOMAIN o /\ k \in DOMAIN o BY <2>1, <1>3, <1>10, <1>s
  <2>2. CASE j \in DOMAIN o /\ k = Len(o) + 1
    <3>1. y = n BY <2>2, <1>3, <1>10 DEF Distinct
    <3>2. PICK z \in s.visited : o[j] = ops[z] BY <2>2, <1>s
    <3>3. x = z BY <2>2, <3>2, <1>3, <1>10, <1>1 DEF Distinct
    <3> QED BY <3>1, <3>2, <3>3, <1>10, <1>s
  <2>3. CASE j = Len(o) + 1 /\ k \in DOMAIN o BY <2>3, <1>3
  <2>4. CASE j = Len(o) + 1 /\ k = Len(o) + 1
    <3>1. y = n /\ x = n BY <2>4, <1>3, <1>10 DEF Distinct
    <3> QED BY <3>1, <1>10 DEF Parents
  <2> QED BY <2>1, <2>2, <2>3, <2>4, <1>4
<1>11. r.visited \cap r.visiting = {} BY <1>s
<1> QED BY <1>5, <1>6, <1>8, <1>9, <1>10, <1>11 DEF Sound, q

LEMMA VisitSettles ==
  ASSUME NEW T, NEW ops \in Seq(T), Distinct(ops), ~Cyclic(ops), NEW v, Descends(v, ops), NEW d \in 0 .. Len(ops) + 1
  PROVE  SettlesAt(v, ops, d)
<1> DEFINE N == Len(ops) + 1
           S == {k \in 0 .. N : ~SettlesAt(v, ops, k)}
<1>0. N \in Nat /\ IsFiniteSet(DOMAIN ops) /\ Len(ops) \in Nat /\ DOMAIN ops = 1 .. Len(ops)
  <2>1. Len(ops) \in Nat /\ DOMAIN ops = 1 .. Len(ops) OBVIOUS
  <2>2. IsFiniteSet(1 .. Len(ops)) BY <2>1, FS_Interval
  <2> QED BY <2>1, <2>2
<1>1. ASSUME S # {} PROVE FALSE
  <2>1. PICK k \in S : \A j \in S : k <= j
    <3>1. S \in SUBSET Nat OBVIOUS
    <3> HIDE DEF S
    <3> QED BY <1>1, <3>1, Least
  <2>2. k \in 0 .. N /\ ~SettlesAt(v, ops, k) BY <2>1
  <2>c. ASSUME NEW x \in Sorting(ops)
        PROVE IsFiniteSet((DOMAIN ops) \ x.visiting) /\ Cardinality((DOMAIN ops) \ x.visiting) \in Nat
    <3>1. IsFiniteSet((DOMAIN ops) \ x.visiting) BY <1>0, FS_Difference
    <3> QED BY <3>1, FS_CardinalityType
  <2>3. k # 0
    <3>1. SettlesAt(v, ops, 0)
      <4> SUFFICES ASSUME NEW s \in Sorting(ops), Cardinality((DOMAIN ops) \ s.visiting) < 0 PROVE FALSE
        BY DEF SettlesAt
      <4> QED BY <2>c
    <3> QED BY <3>1, <2>2
  <2>4. k \in 1 .. N /\ k - 1 \in 0 .. N BY <2>2, <2>3, <1>0
  <2>5. SettlesAt(v, ops, k - 1)
    <3>1. k - 1 \notin S
      <4> HIDE DEF S
      <4> QED BY <2>1, <2>4
    <3> QED BY <3>1, <2>4
  <2> DEFINE w == v[k - 1]
  <2>6. w \in Visitors(ops) /\ v[k] = Visiting(ops, w) /\ v[k] \in Visitors(ops) BY <2>4 DEF Descends
  <2>7. \A n \in DOMAIN ops : \A s \in Sorting(ops) :
          Sound(ops, s) /\ Leads(ops, s.visiting, n) /\ Cardinality((DOMAIN ops) \ s.visiting) < k - 1
            => Settles(ops, n, s, w[n][s])
    BY <2>5 DEF SettlesAt
  <2> HIDE DEF w
  <2>8. ASSUME NEW n \in DOMAIN ops, NEW s \in Sorting(ops), Sound(ops, s), Leads(ops, s.visiting, n),
               Cardinality((DOMAIN ops) \ s.visiting) < k
        PROVE  Settles(ops, n, s, v[k][n][s])
    <3> DEFINE r == v[k][n][s]
    <3>1. r = Visit(ops, w, n, s) /\ r \in Sorting(ops)
      <4>1. v[k][n][s] = Visit(ops, w, n, s) BY <2>6 DEF Visiting
      <4>2. v[k][n][s] \in Sorting(ops) BY <2>6 DEF Visitors
      <4> QED BY <4>1, <4>2
    <3> HIDE DEF r
    <3>0. s.out \in Seq(Range(ops)) /\ s.visited \subseteq DOMAIN ops /\ s.visiting \subseteq DOMAIN ops /\ DOMAIN s = {"out", "visited", "visiting"}
      BY DEF Sorting
    <3>2. CASE n \in s.visited
      <4>1. r = s BY <3>1, <3>2 DEF Visit
      <4> QED BY <4>1, <3>2, <2>8 DEF Settles, r
    <3>3. CASE n \in s.visiting
      <4>1. s.visiting \cup {n} = s.visiting BY <3>3
      <4>2. \A a \in s.visiting : \E b \in s.visiting : b \in Parents(ops, a) BY <4>1, <2>8 DEF Leads
      <4> QED BY <4>2, <3>3, <3>0 DEF Cyclic
    <3>4. CASE n \notin s.visited /\ n \notin s.visiting
      <4> DEFINE x == [s EXCEPT !.visiting = @ \cup {n}]
                 b == Through(ops, Parents(ops, n), w, x)
                 Q == {y \in Sorting(ops) : Sound(ops, y) /\ y.visiting = s.visiting \cup {n} /\ s.visited \subseteq y.visited}
      <4>1. r = [out |-> Append(b.out, ops[n]), visited |-> b.visited \cup {n}, visiting |-> b.visiting \ {n}]
        BY <3>1, <3>4 DEF Visit
      <4>2. x \in Sorting(ops) /\ x.out = s.out /\ x.visited = s.visited /\ x.visiting = s.visiting \cup {n}
        BY <3>0 DEF Sorting
      <4> HIDE DEF x
      <4>3. Sound(ops, x) BY <2>8, <3>4, <4>2 DEF Sound, Listed
      <4>4. x \in Q BY <4>2, <4>3
      <4>5. Cardinality((DOMAIN ops) \ (s.visiting \cup {n})) < k - 1
        <5>1. ((DOMAIN ops) \ s.visiting) \ {n} = (DOMAIN ops) \ (s.visiting \cup {n}) OBVIOUS
        <5>2. n \in (DOMAIN ops) \ s.visiting BY <3>4
        <5>3. Cardinality(((DOMAIN ops) \ s.visiting) \ {n}) = Cardinality((DOMAIN ops) \ s.visiting) - 1
          BY <2>c, <5>2, FS_RemoveElement
        <5> DEFINE C == Cardinality((DOMAIN ops) \ s.visiting)
                   E == Cardinality((DOMAIN ops) \ (s.visiting \cup {n}))
        <5>4. C \in Nat /\ C < k /\ E = C - 1 BY <2>c, <2>8, <5>1, <5>3
        <5>5. k \in Nat BY <2>4
        <5> HIDE DEF C, E
        <5>6. E < k - 1 BY <5>4, <5>5
        <5> QED BY <5>6 DEF E
      <4>6. ASSUME NEW m \in DOMAIN ops, m \in Parents(ops, n) PROVE Leads(ops, s.visiting \cup {n}, m)
        <5> SUFFICES ASSUME NEW a \in s.visiting \cup {n}
                     PROVE \E e \in (s.visiting \cup {n}) \cup {m} : e \in Parents(ops, a)
          BY DEF Leads
        <5>1. CASE a = n BY <5>1, <4>6
        <5>2. CASE a # n
          <6>1. PICK e \in s.visiting \cup {n} : e \in Parents(ops, a) BY <5>2, <2>8 DEF Leads
          <6> QED BY <6>1
        <5> QED BY <5>1, <5>2
      <4>7. \A m \in DOMAIN ops : \A y \in Q : m \in Parents(ops, n) =>
              w[m][y] \in Q /\ m \in w[m][y].visited /\ y.visited \subseteq w[m][y].visited
        <5> SUFFICES ASSUME NEW m \in DOMAIN ops, NEW y \in Q, m \in Parents(ops, n)
                     PROVE  w[m][y] \in Q /\ m \in w[m][y].visited /\ y.visited \subseteq w[m][y].visited
          OBVIOUS
        <5>1. y \in Sorting(ops) /\ Sound(ops, y) /\ y.visiting = s.visiting \cup {n} /\ s.visited \subseteq y.visited
          OBVIOUS
        <5>2. Settles(ops, m, y, w[m][y]) BY <2>7, <4>5, <4>6, <5>1
        <5>3. w[m][y] \in Sorting(ops) BY <5>1, <2>6 DEF Visitors
        <5> QED BY <5>1, <5>2, <5>3 DEF Settles
      <4>8. b \in Q /\ Parents(ops, n) \subseteq b.visited
        <5>1. Q \in SUBSET Sorting(ops) /\ w \in [DOMAIN ops -> [Sorting(ops) -> Sorting(ops)]] BY <2>6 DEF Visitors
        <5>2. Parents(ops, n) \cap DOMAIN ops = Parents(ops, n) BY DEF Parents
        <5> HIDE DEF Q
        <5> QED BY <4>4, <4>7, <5>1, <5>2, ThroughStays
      <4> HIDE DEF b
      <4>9. b \in Sorting(ops) /\ Sound(ops, b) /\ b.visiting = s.visiting \cup {n} /\ s.visited \subseteq b.visited
        BY <4>8
      <4>10. r.out = Append(b.out, ops[n]) /\ r.visited = b.visited \cup {n} /\ r.visiting = b.visiting \ {n}
        BY <4>1
      <4>11. n \notin b.visited BY <4>9 DEF Sound
      <4>12. Sound(ops, r) BY <4>8, <4>9, <4>10, <4>11, <3>1, AppendSound
      <4>13. r.visiting = s.visiting BY <4>9, <4>10, <3>4
      <4> QED BY <4>9, <4>10, <4>12, <4>13 DEF Settles, r
    <3> QED BY <3>2, <3>3, <3>4
  <2>9. SettlesAt(v, ops, k) BY <2>8 DEF SettlesAt
  <2> QED BY <2>9, <2>2
<1> QED BY <1>1

\* Without a cycle every operation is written once and behind its parents.
\* The depth-first sort puts parents first, and nothing twice, where there is no cycle.
LEMMA SortIsParentsFirst ==
  ASSUME NEW T, NEW ops \in Seq(T), Distinct(ops), ~Cyclic(ops)
  PROVE  ParentsFirst(ops, SortInserts(ops))
<1>1. PICK v : Descends(v, ops) BY VisitsDescend
<1>2. Len(ops) \in Nat /\ Len(ops) + 1 \in 0 .. Len(ops) + 1 /\ DOMAIN ops = 1 .. Len(ops) OBVIOUS
<1> DEFINE w == v[Len(ops) + 1]
           Q == {y \in Sorting(ops) : Sound(ops, y) /\ y.visiting = {}}
           r == Through(ops, DOMAIN ops, w, Unsorted)
           out == SortInserts(ops)
<1>3. w \in Visitors(ops) /\ Visits(ops) = w BY <1>1, <1>2 DEF Descends
<1>4. SettlesAt(v, ops, Len(ops) + 1) BY <1>1, <1>2, VisitSettles
<1>5. Cardinality((DOMAIN ops) \ {}) < Len(ops) + 1
  <2>1. (DOMAIN ops) \ {} = 1 .. Len(ops) BY <1>2
  <2>2. Cardinality(1 .. Len(ops)) = Len(ops) BY <1>2, FS_Interval
  <2> QED BY <2>1, <2>2, <1>2
<1>6. \A n \in DOMAIN ops : \A s \in Q : Settles(ops, n, s, w[n][s]) BY <1>4, <1>5 DEF SettlesAt, Leads
<1> HIDE DEF w
<1>7. Unsorted \in Q
  <2>1. <<>> \in Seq(Range(ops)) /\ DOMAIN <<>> = {} OBVIOUS
  <2> QED BY <2>1 DEF Unsorted, Sorting, Listed, Sound
<1>8. \A m \in DOMAIN ops : \A y \in Q : w[m][y] \in Q /\ m \in w[m][y].visited /\ y.visited \subseteq w[m][y].visited
  BY <1>6, <1>3 DEF Settles, Visitors
<1>9. r \in Q /\ DOMAIN ops \subseteq r.visited
  <2>1. Q \in SUBSET Sorting(ops) /\ w \in [DOMAIN ops -> [Sorting(ops) -> Sorting(ops)]] BY <1>3 DEF Visitors
  <2>2. (DOMAIN ops) \cap DOMAIN ops = DOMAIN ops OBVIOUS
  <2> HIDE DEF Q
  <2> QED BY <1>7, <1>8, <2>1, <2>2, ThroughStays
<1>10. out = r.out BY <1>3 DEF SortInserts, Unsorted
<1> HIDE DEF r, out
<1>11. r \in Sorting(ops) /\ Sound(ops, r) BY <1>9
<1>12. out \in Seq(Range(ops)) /\ r.visited = DOMAIN ops BY <1>9, <1>10, <1>11 DEF Sorting
<1>13. /\ \A k \in DOMAIN ops : \E j \in DOMAIN out : out[j] = ops[k]
       /\ \A j \in DOMAIN out : \E k \in DOMAIN ops : out[j] = ops[k]
       /\ \A j, k \in DOMAIN out : out[j] = out[k] => j = k
       /\ \A j, k \in DOMAIN out : \A x, y \in DOMAIN ops :
            out[j] = ops[x] /\ out[k] = ops[y] /\ y \in Parents(ops, x) => k < j
  BY <1>10, <1>11, <1>12 DEF Sound, Listed
<1>14. Range(out) = Range(ops) BY <1>13 DEF Range
<1>15. Len(out) \in Nat /\ DOMAIN out = 1 .. Len(out) BY <1>12
<1>16. Len(out) = Len(ops)
  <2>1. out \in Bijection(1 .. Len(out), Range(out))
    BY <1>12, <1>13, <1>14, <1>15 DEF Bijection, Injection, Surjection, IsInjective, Range
  <2>2. ops \in Bijection(1 .. Len(ops), Range(ops))
    BY <1>2 DEF Distinct, Bijection, Injection, Surjection, IsInjective, Range
  <2>3. Cardinality(Range(out)) = Len(out) BY <2>1, <1>15, FS_CountingElements DEF ExistsBijection
  <2>4. Cardinality(Range(ops)) = Len(ops) BY <2>2, <1>2, FS_CountingElements DEF ExistsBijection
  <2> QED BY <2>3, <2>4, <1>14
<1>17. ASSUME NEW a \in DOMAIN out, NEW b \in DOMAIN out, a # b, IsChildOf(out[a], out[b]) PROVE b < a
  <2>1. PICK x \in DOMAIN ops : out[a] = ops[x] BY <1>13
  <2>2. PICK y \in DOMAIN ops : out[b] = ops[y] BY <1>13
  <2>3. x # y BY <2>1, <2>2, <1>13, <1>17
  <2>4. y \in Parents(ops, x) BY <2>1, <2>2, <2>3, <1>17 DEF Parents
  <2> QED BY <2>1, <2>2, <2>4, <1>13
<1> QED BY <1>14, <1>16, <1>17 DEF ParentsFirst, out

(* ---------------------- lists of steps, put together ---------------------- *)

LEMMA FitJoins ==
  ASSUME NEW Z, NEW A, NEW op, NEW W, NEW s \in Fit(Z, A, op), NEW t \in Fit(W, A, op),
         W \subseteq Z \cup Written(s)
  PROVE  s \o t \in Fit(Z, A, op)
<1> DEFINE u == s \o t
<1>0. s \in Seq(Steps) /\ t \in Seq(Steps) BY DEF Fit
<1>u. u = s \o t OBVIOUS
<1> HIDE DEF u
<1>1. /\ u \in Seq(Steps) /\ Len(s) \in Nat /\ Len(t) \in Nat /\ Len(u) = Len(s) + Len(t)
      /\ DOMAIN s = 1 .. Len(s) /\ DOMAIN t = 1 .. Len(t) /\ DOMAIN u = 1 .. Len(u)
      /\ \A n \in DOMAIN s : n \in DOMAIN u /\ u[n] = s[n]
      /\ \A n \in DOMAIN t : Len(s) + n \in DOMAIN u /\ u[Len(s) + n] = t[n]
      /\ \A n \in DOMAIN u : n \in DOMAIN s \/ (n > Len(s) /\ n - Len(s) \in DOMAIN t /\ u[n] = t[n - Len(s)])
  BY <1>0, <1>u, Joined
<1>2. Unframed(u) BY <1>1 DEF Fit, Unframed
<1>3. Carried(u, A) BY <1>1 DEF Fit, Carried
<1>4. Belong(u, op) /\ Untold(u) BY <1>1 DEF Fit, Belong, Untold
<1>5. Reads(u, 1)
  <2> SUFFICES ASSUME NEW n \in DOMAIN u, NeedsRead(u[n])
               PROVE  n > 1 /\ u[n - 1].do = "find" /\ u[n - 1].id = u[n].id
    BY DEF Reads
  <2>1. CASE n \in DOMAIN s
    <3>1. n >= 1 /\ NeedsRead(s[n]) BY <2>1, <1>1
    <3>2. n > 1 /\ s[n - 1].do = "find" /\ s[n - 1].id = s[n].id BY <3>1, <2>1 DEF Fit, Reads
    <3>3. n - 1 \in DOMAIN s BY <3>2, <2>1, <1>1
    <3> QED BY <3>2, <3>3, <2>1, <1>1
  <2>2. CASE n \notin DOMAIN s
    <3> DEFINE m == n - Len(s)
    <3>1. m \in DOMAIN t /\ u[n] = t[m] /\ n = Len(s) + m BY <2>2, <1>1
    <3>2. m >= 1 /\ NeedsRead(t[m]) BY <3>1, <1>1
    <3>3. m > 1 /\ t[m - 1].do = "find" /\ t[m - 1].id = t[m].id BY <3>1, <3>2 DEF Fit, Reads
    <3>4. m - 1 \in DOMAIN t BY <3>3, <3>1, <1>1
    <3>5. u[Len(s) + (m - 1)] = t[m - 1] BY <3>4, <1>1
    <3>6. Len(s) + (m - 1) = n - 1 BY <3>1, <1>1
    <3> QED BY <3>1, <3>3, <3>5, <3>6, <1>1
  <2> QED BY <2>1, <2>2
<1>6. Reports(u)
  <2> SUFFICES ASSUME NEW n \in DOMAIN u, IsWrite(u[n])
               PROVE  /\ n < Len(u) /\ u[n + 1].do = "reload" /\ u[n + 1].id = u[n].id
                      /\ \E m \in DOMAIN u : m > n /\ u[m].do = "emit" /\ u[m].id = u[n].id
                      /\ Audited(u[n].id) => \E m \in DOMAIN u : m > n /\ u[m].do = "audit" /\ u[m].id = u[n].id
    BY DEF Reports
  <2>1. CASE n \in DOMAIN s
    <3>1. /\ n < Len(s) /\ s[n + 1].do = "reload" /\ s[n + 1].id = s[n].id
          /\ \E m \in DOMAIN s : m > n /\ s[m].do = "emit" /\ s[m].id = s[n].id
          /\ Audited(s[n].id) => \E m \in DOMAIN s : m > n /\ s[m].do = "audit" /\ s[m].id = s[n].id
      BY <2>1, <1>1 DEF Fit, Reports
    <3>2. n + 1 \in DOMAIN s BY <3>1, <2>1, <1>1
    <3> QED BY <3>1, <3>2, <2>1, <1>1
  <2>2. CASE n \notin DOMAIN s
    <3> DEFINE k == n - Len(s)
    <3>1. k \in DOMAIN t /\ u[n] = t[k] /\ n = Len(s) + k BY <2>2, <1>1
    <3>2. /\ k < Len(t) /\ t[k + 1].do = "reload" /\ t[k + 1].id = t[k].id
          /\ \E m \in DOMAIN t : m > k /\ t[m].do = "emit" /\ t[m].id = t[k].id
          /\ Audited(t[k].id) => \E m \in DOMAIN t : m > k /\ t[m].do = "audit" /\ t[m].id = t[k].id
      BY <3>1 DEF Fit, Reports
    <3>3. k + 1 \in DOMAIN t /\ Len(s) + (k + 1) = n + 1 BY <3>1, <3>2, <1>1
    <3>4. n < Len(u) /\ u[n + 1].do = "reload" /\ u[n + 1].id = u[n].id BY <3>1, <3>2, <3>3, <1>1
    <3>5. \E m \in DOMAIN u : m > n /\ u[m].do = "emit" /\ u[m].id = u[n].id
      <4>1. PICK m \in DOMAIN t : m > k /\ t[m].do = "emit" /\ t[m].id = t[k].id BY <3>2
      <4>2. Len(s) + m \in DOMAIN u /\ Len(s) + m > n /\ u[Len(s) + m] = t[m] BY <4>1, <3>1, <1>1
      <4> QED BY <4>1, <4>2, <3>1
    <3>6. ASSUME Audited(u[n].id) PROVE \E m \in DOMAIN u : m > n /\ u[m].do = "audit" /\ u[m].id = u[n].id
      <4>1. PICK m \in DOMAIN t : m > k /\ t[m].do = "audit" /\ t[m].id = t[k].id BY <3>1, <3>2, <3>6
      <4>2. Len(s) + m \in DOMAIN u /\ Len(s) + m > n /\ u[Len(s) + m] = t[m] BY <4>1, <3>1, <1>1
      <4> QED BY <4>1, <4>2, <3>1
    <3> QED BY <3>4, <3>5, <3>6
  <2> QED BY <2>1, <2>2
<1>7. Backed(u, Z)
  <2> SUFFICES ASSUME NEW n \in DOMAIN u, Says(u[n]), u[n].id \notin Z
               PROVE  \E m \in DOMAIN u : m < n /\ IsWrite(u[m]) /\ u[m].id = u[n].id
    BY DEF Backed
  <2>1. CASE n \in DOMAIN s
    <3>1. \E m \in DOMAIN s : m < n /\ IsWrite(s[m]) /\ s[m].id = s[n].id BY <2>1, <1>1 DEF Fit, Backed
    <3> QED BY <3>1, <2>1, <1>1
  <2>2. CASE n \notin DOMAIN s
    <3> DEFINE k == n - Len(s)
    <3>1. k \in DOMAIN t /\ u[n] = t[k] /\ n = Len(s) + k BY <2>2, <1>1
    <3>2. t[k].id \in W \/ \E m \in DOMAIN t : m < k /\ IsWrite(t[m]) /\ t[m].id = t[k].id
      BY <3>1 DEF Fit, Backed
    <3>3. CASE t[k].id \in W
      <4>1. t[k].id \in Written(s) BY <3>3, <3>1
      <4>2. PICK m \in DOMAIN s : IsWrite(s[m]) /\ s[m].id = t[k].id BY <4>1 DEF Written
      <4>3. m \in DOMAIN u /\ u[m] = s[m] /\ m < n BY <4>2, <3>1, <1>1
      <4> QED BY <4>2, <4>3, <3>1
    <3>4. CASE \E m \in DOMAIN t : m < k /\ IsWrite(t[m]) /\ t[m].id = t[k].id
      <4>1. PICK m \in DOMAIN t : m < k /\ IsWrite(t[m]) /\ t[m].id = t[k].id BY <3>4
      <4>2. Len(s) + m \in DOMAIN u /\ Len(s) + m < n /\ u[Len(s) + m] = t[m] BY <4>1, <3>1, <1>1
      <4> QED BY <4>1, <4>2, <3>1
    <3> QED BY <3>2, <3>3, <3>4
  <2> QED BY <2>1, <2>2
<1> QED BY <1>1, <1>2, <1>3, <1>4, <1>5, <1>6, <1>7, <1>u DEF Fit

LEMMA FiniteClasses == IsFiniteSet(Ids) /\ IsFiniteSet(Kinds) /\ \A S \in SUBSET Ids : IsFiniteSet(S)
<1>1. IsFiniteSet(Ids) BY IdsAssumption
<1>2. [i \in Ids |-> KindOf[i]] \in Surjection(Ids, Kinds) BY DEF Surjection, Kinds
<1>3. IsFiniteSet(Kinds) BY <1>1, <1>2, FS_Surjection
<1>4. \A S \in SUBSET Ids : IsFiniteSet(S) BY <1>1, FS_Subset
<1> QED BY <1>1, <1>3, <1>4

LEMMA Lists ==
  ASSUME NEW S, IsFiniteSet(S)
  PROVE  /\ Cardinality(S) \in Nat /\ SetToSeq(S) \in [1 .. Cardinality(S) -> S]
         /\ \A x \in S : \E n \in 1 .. Cardinality(S) : SetToSeq(S)[n] = x
<1> DEFINE N == Cardinality(S)
           f == SetToSeq(S)
<1>1. N \in Nat /\ ExistsBijection(1 .. N, S) BY FS_CardinalityType
<1>2. \E g : g \in [1 .. N -> S] /\ IsInjective(g) BY <1>1 DEF ExistsBijection, Bijection, Injection
<1>3. f \in [1 .. N -> S] /\ IsInjective(f) BY <1>2 DEF SetToSeq
<1> HIDE DEF f
<1>4. f \in Injection(1 .. N, S) BY <1>3 DEF Injection
<1>5. IsFiniteSet(1 .. N) /\ Cardinality(1 .. N) = N BY <1>1, FS_Interval
<1>6. f \in Surjection(1 .. N, S) BY <1>4, <1>5, FS_Injection
<1> QED BY <1>1, <1>3, <1>6 DEF Surjection, f

(* --------------------------- the pieces of a call ------------------------- *)

LEMMA QuietFits ==
  ASSUME NEW s, NEW N \in Nat, s \in [1 .. N -> Steps], \A n \in 1 .. N : Quiet(s[n]), NEW Z, NEW A, NEW op
  PROVE  s \in Fit(Z, A, op)
<1>1. s \in Seq(Steps) /\ DOMAIN s = 1 .. N OBVIOUS
<1>2. Unframed(s) /\ Belong(s, op) /\ Untold(s) BY <1>1 DEF Quiet, Unframed, Belong, Untold
<1>3. Reads(s, 1) /\ Reports(s) /\ Backed(s, Z) /\ Carried(s, A)
  BY <1>1 DEF Quiet, Reads, Reports, Backed, Carried, NeedsRead, IsWrite
<1> QED BY <1>1, <1>2, <1>3 DEF Fit

LEMMA NothingFits == ASSUME NEW Z, NEW A, NEW op PROVE <<>> \in Fit(Z, A, op)
<1>1. <<>> \in [1 .. 0 -> Steps] OBVIOUS
<1>2. \A n \in 1 .. 0 : Quiet(<<>>[n]) OBVIOUS
<1> QED BY <1>1, <1>2, QuietFits

\* One step that is no write fits by itself.
LEMMA OneFits ==
  ASSUME NEW x \in Steps, x.do \notin Frame \cup {"tell"}, ~IsWrite(x), NEW Z, NEW A, NEW op,
         Says(x) => x.id \in Z, Carries(x) /\ x.arg # None => <<x.id, x.arg>> \in A,
         x.do = "native" => op = "nativeUpsert", x.do = "hardRemove" => op = "hardRemove"
  PROVE  <<x>> \in Fit(Z, A, op)
<1> DEFINE s == <<x>>
<1>1. s \in Seq(Steps) /\ DOMAIN s = {1} /\ s[1] = x OBVIOUS
<1> HIDE DEF s
<1>2. Unframed(s) /\ Belong(s, op) /\ Untold(s) BY <1>1 DEF Unframed, Belong, Untold
<1>3. Reads(s, 1) /\ Reports(s) BY <1>1 DEF Reads, Reports, NeedsRead
<1>4. Backed(s, Z) /\ Carried(s, A) BY <1>1 DEF Backed, Carried
<1> QED BY <1>1, <1>2, <1>3, <1>4 DEF Fit, s

LEMMA StepIs ==
  ASSUME NEW do \in Doings, NEW i \in Ids \cup {None}, NEW arg \in Args, NEW x,
         x \in {With(do, i, arg)} \/ (arg = None /\ x \in {Step(do, i), Again(do, i)}),
         FitArg([do |-> do, id |-> i, arg |-> arg])
  PROVE  x \in Steps /\ x.do = do /\ x.id = i /\ x.arg = arg
<1>1. x.do = do /\ x.id = i /\ x.arg = arg /\ x \in [do : Doings, id : Ids \cup {None}, arg : Args, opt : BOOLEAN]
  <2>1. CASE x = With(do, i, arg)
    <3>1. x = [do |-> do, id |-> i, arg |-> arg, opt |-> FALSE] BY <2>1 DEF With, Step
    <3> QED BY <3>1
  <2>2. CASE arg = None /\ x = Step(do, i) BY <2>2 DEF Step
  <2>3. CASE arg = None /\ x = Again(do, i)
    <3>1. x = [do |-> do, id |-> i, arg |-> None, opt |-> TRUE] BY <2>3 DEF Again, Step
    <3> QED BY <3>1, <2>3
  <2> QED BY <2>1, <2>2, <2>3
<1>2. FitArg(x) BY <1>1 DEF FitArg, Carries, OfKind
<1> QED BY <1>1, <1>2 DEF Steps

LEMMA ArgsAre == /\ None \in Args /\ Stored \subseteq Args /\ SUBSET Ids \subseteq Args /\ Kinds \subseteq Args
                 /\ Acts \subseteq Args /\ (Voices \X Acts) \subseteq Args
                 /\ "created" \in Acts /\ "updated" \in Acts /\ "deleted" \in Acts
<1>1. None \in Args /\ Stored \subseteq Args /\ SUBSET Ids \subseteq Args /\ Kinds \subseteq Args BY DEF Args
<1>2. Acts \subseteq Args BY DEF Args
<1>3. (Voices \X Acts) \subseteq Args BY Zenon DEF Args
<1> QED BY <1>1, <1>2, <1>3 DEF Acts

LEMMA EndingFits ==
  ASSUME NEW i \in Ids, NEW act \in Acts, NEW Z, i \in Z, NEW A, NEW op
  PROVE  Ending(i, act) \in Fit(Z, A, op) /\ Auditing(i, act) \in Fit(Z, A, op) /\ Emitting(i, act) \in Fit(Z, A, op)
<1>1. Emitting(i, act) \in Fit(Z, A, op)
  <2> DEFINE x == With("emit", i, act)
  <2>1. x \in Steps /\ x.do = "emit" /\ x.id = i /\ x.arg = act
    BY ArgsAre, StepIs DEF Doings, FitArg, Carries, OfKind, Frame
  <2> HIDE DEF x
  <2>2. <<x>> \in Fit(Z, A, op) BY <2>1, OneFits DEF Frame, IsWrite, Carries
  <2> QED BY <2>2 DEF Emitting, x
<1>2. Auditing(i, act) \in Fit(Z, A, op)
  <2> DEFINE x == With("audit", i, act)
  <2>1. x \in Steps /\ x.do = "audit" /\ x.id = i /\ x.arg = act
    BY ArgsAre, StepIs DEF Doings, FitArg, Carries, OfKind, Frame
  <2> HIDE DEF x
  <2>2. <<x>> \in Fit(Z, A, op) BY <2>1, OneFits DEF Frame, IsWrite, Carries
  <2> QED BY <2>2, NothingFits DEF Auditing, x
<1>3. Auditing(i, act) \o Emitting(i, act) \in Fit(Z, A, op) BY <1>1, <1>2, FitJoins
<1> QED BY <1>1, <1>2, <1>3 DEF Ending

\* What a call announces in the end: an entry if the row is audited, and the event.
LEMMA EndingHas ==
  ASSUME NEW i \in Ids, NEW act \in Acts
  PROVE  /\ \E n \in DOMAIN Ending(i, act) : Ending(i, act)[n].do = "emit" /\ Ending(i, act)[n].id = i
         /\ Audited(i) => \E n \in DOMAIN Ending(i, act) : Ending(i, act)[n].do = "audit" /\ Ending(i, act)[n].id = i
         /\ \A n \in DOMAIN Ending(i, act) : Ending(i, act)[n].do \in {"audit", "emit"} /\ Ending(i, act)[n].id = i
<1> DEFINE x == With("audit", i, act)
           y == With("emit", i, act)
           u == Ending(i, act)
           s == Auditing(i, act)
           t == Emitting(i, act)
           S == {x, y}
<1>1. x.do = "audit" /\ x.id = i /\ y.do = "emit" /\ y.id = i BY DEF With, Step
<1>2. u = s \o t /\ s = (IF Audited(i) THEN <<x>> ELSE <<>>) /\ t = <<y>> BY DEF Ending, Auditing, Emitting
<1> HIDE DEF x, y, u, s, t
<1>3. s \in Seq(S) /\ t \in Seq(S) /\ DOMAIN t = {1} /\ t[1] = y BY <1>2
<1>4. Audited(i) => 1 \in DOMAIN s /\ s[1] = x BY <1>2
<1> HIDE DEF S
<1>5. /\ \A n \in DOMAIN s : n \in DOMAIN u /\ u[n] = s[n]
      /\ \A n \in DOMAIN t : Len(s) + n \in DOMAIN u /\ u[Len(s) + n] = t[n]
      /\ u \in Seq(S)
  BY <1>2, <1>3, Joined
<1>6. Len(s) + 1 \in DOMAIN u /\ u[Len(s) + 1] = y BY <1>3, <1>5
<1>7. Audited(i) => 1 \in DOMAIN u /\ u[1] = x BY <1>4, <1>5
<1>8. \A n \in DOMAIN u : u[n] \in S BY <1>5
<1>9. \A n \in DOMAIN u : u[n].do \in {"audit", "emit"} /\ u[n].id = i BY <1>1, <1>8 DEF S
<1> QED BY <1>1, <1>6, <1>7, <1>9 DEF u

LEMMA AddingFits ==
  ASSUME NEW i \in Ids, NEW tree \in SUBSET Ids, NEW Z, NEW A, NEW op
  PROVE  Adding(i, tree) \in Fit(Z, A, op) /\ Adding(i, tree)[1].do = "add" /\ Adding(i, tree)[1].id = i /\ DOMAIN Adding(i, tree) = {1}
<1> DEFINE x == With("add", i, tree)
<1>1. x \in Steps /\ x.do = "add" /\ x.id = i /\ x.arg = tree
  BY ArgsAre, StepIs DEF Doings, FitArg, Carries, OfKind, Frame
<1> HIDE DEF x
<1>2. <<x>> \in Fit(Z, A, op) BY <1>1, OneFits DEF Frame, IsWrite, Carries, Says
<1>3. <<x>>[1] = x /\ DOMAIN <<x>> = {1} OBVIOUS
<1> QED BY <1>1, <1>2, <1>3 DEF Adding, x

LEMMA FindFits ==
  ASSUME NEW i \in Ids, NEW Z, NEW A, NEW op
  PROVE  <<Step("find", i)>> \in Fit(Z, A, op) /\ Step("find", i) \in Steps /\ Step("find", i).do = "find" /\ Step("find", i).id = i
<1> DEFINE x == Step("find", i)
<1>1. x \in Steps /\ x.do = "find" /\ x.id = i /\ x.arg = None
  BY ArgsAre, StepIs DEF Doings, FitArg, Carries, OfKind, Frame
<1> HIDE DEF x
<1>2. <<x>> \in Fit(Z, A, op) BY <1>1, OneFits DEF Frame, IsWrite, Carries, Says
<1> QED BY <1>1, <1>2 DEF x

\* The statements of update(), and of the UPDATE that stamps a row as deleted.
LEMMA UpdatingFits ==
  ASSUME NEW i \in Ids, NEW do \in {"write", "stamp"}, NEW e \in Stored \cup {None}, NEW Z, NEW A, NEW op,
         e # None => <<i, e>> \in A
  PROVE  /\ Updating(i, do, e) \in Fit(Z, A, op)
         /\ i \in Written(Updating(i, do, e))
         /\ \E n \in DOMAIN Updating(i, do, e) : Updating(i, do, e)[n].do = do /\ Updating(i, do, e)[n].id = i
<1> DEFINE d == Step("find", i)
           w == With(do, i, e)
           r == Step("reload", i)
           E == Ending(i, "updated")
           s1 == IF Audited(i) THEN <<d>> ELSE <<>>
           s2 == IF Versioned(i) /\ e = None THEN <<d>> ELSE <<>>
           f == s1 \o s2
           mid == <<w, r>>
           q == f \o mid
           u == q \o E
<1>1. d \in Steps /\ d.do = "find" /\ d.id = i BY FindFits
<1>2. w \in Steps /\ w.do = do /\ w.id = i /\ w.arg = e
  BY ArgsAre, StepIs DEF Doings, FitArg, Carries, OfKind, Frame
<1>3. r \in Steps /\ r.do = "reload" /\ r.id = i
  BY ArgsAre, StepIs DEF Doings, FitArg, Carries, OfKind, Frame
<1>4. u = Updating(i, do, e)
  <2>1. f \o mid = s1 \o s2 \o mid OBVIOUS
  <2> QED BY DEF Updating
<1>5. E \in Seq(Steps) BY EndingFits, ArgsAre DEF Fit
<1>6. /\ \E n \in DOMAIN E : E[n].do = "emit" /\ E[n].id = i
      /\ Audited(i) => \E n \in DOMAIN E : E[n].do = "audit" /\ E[n].id = i
      /\ \A n \in DOMAIN E : E[n].do \in {"audit", "emit"} /\ E[n].id = i
  BY EndingHas, ArgsAre
<1> HIDE DEF E
<1>7. f \in Seq(Steps) /\ (\A n \in DOMAIN f : f[n] = d) /\ (Versioned(i) /\ e = None => Len(f) > 0)
  <2>1. s1 \in Seq({d}) /\ s2 \in Seq({d}) /\ (Versioned(i) /\ e = None => Len(s2) = 1) OBVIOUS
  <2> HIDE DEF d, s1, s2
  <2>2. f = s1 \o s2 OBVIOUS
  <2> HIDE DEF f
  <2>3. f \in Seq({d}) /\ Len(f) = Len(s1) + Len(s2) /\ Len(s1) \in Nat /\ Len(s2) \in Nat BY <2>1, <2>2, Joined
  <2>4. \A n \in DOMAIN f : f[n] = d BY <2>3
  <2>5. f \in Seq(Steps) BY <2>3, <1>1
  <2> QED BY <2>1, <2>3, <2>4, <2>5
<1> HIDE DEF f
<1>8. mid \in Seq(Steps) /\ DOMAIN mid = {1, 2} /\ mid[1] = w /\ mid[2] = r /\ Len(mid) = 2
  <2> HIDE DEF w, r
  <2> QED BY <1>2, <1>3
<1> HIDE DEF d, w, r, mid
<1>9. /\ q \in Seq(Steps) /\ Len(f) \in Nat /\ Len(q) = Len(f) + 2
      /\ DOMAIN f = 1 .. Len(f) /\ DOMAIN q = 1 .. Len(q)
      /\ \A n \in DOMAIN f : q[n] = d
      /\ q[Len(f) + 1] = w /\ q[Len(f) + 2] = r
  <2>1. q = f \o mid OBVIOUS
  <2> HIDE DEF q
  <2>a. f \in Seq(Steps) /\ mid \in Seq(Steps) BY <1>7, <1>8
  <2>2. /\ q \in Seq(Steps) /\ Len(f) \in Nat /\ Len(q) = Len(f) + Len(mid)
        /\ DOMAIN f = 1 .. Len(f) /\ DOMAIN q = 1 .. Len(q)
        /\ \A n \in DOMAIN f : n \in DOMAIN q /\ q[n] = f[n]
        /\ \A n \in DOMAIN mid : Len(f) + n \in DOMAIN q /\ q[Len(f) + n] = mid[n]
    BY <2>1, <2>a, Joined
  <2> QED BY <2>2, <1>7, <1>8
<1>10. u = q \o E /\ q \in Seq(Steps) BY <1>9
<1> HIDE DEF q, u
<1>11. /\ u \in Seq(Steps) /\ Len(E) \in Nat /\ Len(u) = Len(q) + Len(E)
       /\ DOMAIN E = 1 .. Len(E) /\ DOMAIN u = 1 .. Len(u)
       /\ \A n \in DOMAIN q : n \in DOMAIN u /\ u[n] = q[n]
       /\ \A n \in DOMAIN E : Len(q) + n \in DOMAIN u /\ u[Len(q) + n] = E[n]
       /\ \A n \in DOMAIN u : n \in DOMAIN q \/ (n > Len(q) /\ n - Len(q) \in DOMAIN E /\ u[n] = E[n - Len(q)])
  BY <1>10, <1>5, Joined
<1> DEFINE k == Len(f) + 1
<1>12. /\ k \in DOMAIN u /\ u[k] = w /\ k + 1 \in DOMAIN u /\ u[k + 1] = r /\ k + 1 <= Len(u) /\ k >= 1
       /\ \A n \in DOMAIN u : n < k => u[n] = d
       /\ \A n \in DOMAIN u : n > k + 1 => u[n].do \in {"audit", "emit"} /\ u[n].id = i
  <2>1. k \in DOMAIN q /\ k + 1 \in DOMAIN q /\ k >= 1 /\ k + 1 = Len(q) /\ k + 1 = Len(f) + 2 BY <1>9
  <2>2. \A n \in DOMAIN u : n < k => n \in DOMAIN f /\ n \in DOMAIN q BY <1>9, <1>11
  <2>3. \A n \in DOMAIN u : n > k + 1 => u[n].do \in {"audit", "emit"} /\ u[n].id = i
    BY <2>1, <1>9, <1>11, <1>6
  <2> QED BY <2>1, <2>2, <2>3, <1>9, <1>11
<1>13. /\ \E m \in DOMAIN u : m > k + 1 /\ u[m].do = "emit" /\ u[m].id = i
       /\ Audited(i) => \E m \in DOMAIN u : m > k + 1 /\ u[m].do = "audit" /\ u[m].id = i
  <2>1. Len(q) = k + 1 BY <1>9
  <2>2. \A n \in DOMAIN E : Len(q) + n \in DOMAIN u /\ Len(q) + n > k + 1 /\ u[Len(q) + n] = E[n]
    BY <2>1, <1>9, <1>11
  <2> QED BY <2>2, <1>6
<1>14. k \in Nat /\ (Versioned(i) /\ e = None => k > 1) BY <1>7, <1>9
<1> HIDE DEF k
<1>15. \A n \in DOMAIN u : n < k \/ n = k \/ n = k + 1 \/ n > k + 1 BY <1>11, <1>12, <1>14
<1>16. \A n \in DOMAIN u : u[n].do \in {"find", "reload", "audit", "emit"} \/ n = k
  BY <1>15, <1>12, <1>1, <1>3
<1>17. Unframed(u) /\ Belong(u, op) /\ Untold(u) BY <1>16, <1>12, <1>2 DEF Unframed, Frame, Belong, Untold
<1>18. Reads(u, 1)
  <2> SUFFICES ASSUME NEW n \in DOMAIN u, NeedsRead(u[n])
               PROVE n > 1 /\ u[n - 1].do = "find" /\ u[n - 1].id = u[n].id
    BY DEF Reads
  <2>1. n = k BY <1>16 DEF NeedsRead, IsWrite
  <2>2. k > 1 BY <2>1, <1>12, <1>2, <1>14 DEF NeedsRead
  <2>3. k - 1 \in DOMAIN u /\ k - 1 < k BY <2>2, <1>12, <1>11, <1>14
  <2> QED BY <2>1, <2>2, <2>3, <1>12, <1>1, <1>2
<1>19. Reports(u)
  <2> SUFFICES ASSUME NEW n \in DOMAIN u, IsWrite(u[n])
               PROVE  /\ n < Len(u) /\ u[n + 1].do = "reload" /\ u[n + 1].id = u[n].id
                      /\ \E m \in DOMAIN u : m > n /\ u[m].do = "emit" /\ u[m].id = u[n].id
                      /\ Audited(u[n].id) => \E m \in DOMAIN u : m > n /\ u[m].do = "audit" /\ u[m].id = u[n].id
    BY DEF Reports
  <2>1. n = k BY <1>16 DEF IsWrite
  <2>2. k < Len(u) /\ u[k].id = i /\ u[k + 1].do = "reload" /\ u[k + 1].id = i BY <1>12, <1>14, <1>11, <1>2, <1>3
  <2>3. \A m \in DOMAIN u : m > k + 1 => m > k BY <1>11, <1>14
  <2> QED BY <2>1, <2>2, <2>3, <1>13
<1>20. Backed(u, Z)
  <2> SUFFICES ASSUME NEW n \in DOMAIN u, Says(u[n])
               PROVE \E m \in DOMAIN u : m < n /\ IsWrite(u[m]) /\ u[m].id = u[n].id
    BY DEF Backed
  <2>1. n > k + 1 BY <1>15, <1>12, <1>1, <1>2, <1>3 DEF Says
  <2>2. k < n BY <2>1, <1>14, <1>11
  <2> QED BY <2>1, <2>2, <1>12, <1>2 DEF IsWrite
<1>21. Carried(u, A)
  <2> SUFFICES ASSUME NEW n \in DOMAIN u, Carries(u[n]), u[n].arg # None PROVE <<u[n].id, u[n].arg>> \in A
    BY DEF Carried
  <2>1. n = k BY <1>16 DEF Carries
  <2> QED BY <2>1, <1>12, <1>2
<1>22. i \in Written(u) BY <1>12, <1>2 DEF Written, IsWrite
<1>23. u \in Fit(Z, A, op) BY <1>11, <1>17, <1>18, <1>19, <1>20, <1>21 DEF Fit
<1> QED BY <1>4, <1>12, <1>2, <1>22, <1>23

LEMMA PairFits ==
  ASSUME NEW Z, NEW A, NEW op, NEW x, NEW y, <<x>> \in Fit(Z, A, op), <<y>> \in Fit(Z, A, op)
  PROVE  <<x, y>> \in Fit(Z, A, op)
<1>1. <<x>> \o <<y>> \in Fit(Z, A, op) BY FitJoins
<1>2. <<x>> \o <<y>> = <<x, y>>
  <2> DEFINE S == {x, y}
             u == <<x>> \o <<y>>
             v == <<x, y>>
  <2>1. <<x>> \in Seq(S) /\ <<y>> \in Seq(S) OBVIOUS
  <2>2. v \in Seq(S) /\ Len(v) = 2 /\ v[1] = x /\ v[2] = y OBVIOUS
  <2>3. Len(<<x>>) = 1 /\ Len(<<y>>) = 1 /\ <<x>>[1] = x /\ <<y>>[1] = y OBVIOUS
  <2>4. /\ u \in Seq(S) /\ Len(u) = Len(<<x>>) + Len(<<y>>)
        /\ \A n \in DOMAIN <<x>> : n \in DOMAIN u /\ u[n] = <<x>>[n]
        /\ \A n \in DOMAIN <<y>> : Len(<<x>>) + n \in DOMAIN u /\ u[Len(<<x>>) + n] = <<y>>[n]
    <3> HIDE DEF S
    <3> QED BY <2>1, Joined
  <2>5. Len(u) = 2 /\ u[1] = x /\ u[2] = y BY <2>3, <2>4
  <2> HIDE DEF u, v
  <2>6. \A i \in 1 .. 2 : u[i] = v[i] BY <2>2, <2>5
  <2>7. u = v BY <2>2, <2>4, <2>5, <2>6, SeqEqual
  <2> QED BY <2>7 DEF u, v
<1> QED BY <1>1, <1>2

LEMMA RemovingFits ==
  ASSUME NEW i \in Ids, NEW e \in Stored \cup {None}, NEW Z, NEW A, NEW op, e # None => <<i, e>> \in A
  PROVE  Removing(i, e) \in Fit(Z, A, op)
<1> DEFINE x == With("remove", i, e)
           d == Step("find", i)
<1>1. x \in Steps /\ x.do = "remove" /\ x.id = i /\ x.arg = e
  BY ArgsAre, StepIs DEF Doings, FitArg, Carries, OfKind, Frame
<1>2. <<d>> \in Fit(Z, A, op) BY FindFits
<1> HIDE DEF x, d
<1>3. <<x>> \in Fit(Z, A, op) BY <1>1, OneFits DEF Frame, IsWrite, Carries, Says
<1>4. <<d, x>> \in Fit(Z, A, op) BY <1>2, <1>3, PairFits
<1> QED BY <1>4 DEF Removing, x, d

LEMMA UpsertFits ==
  ASSUME NEW i \in Ids, NEW e \in Stored \cup {None}, NEW Z, NEW A, NEW op, e # None => <<i, e>> \in A
  PROVE  <<Step("find", i), With("upsert", i, e)>> \in Fit(Z, A, op)
<1> DEFINE x == With("upsert", i, e)
           d == Step("find", i)
<1>1. x \in Steps /\ x.do = "upsert" /\ x.id = i /\ x.arg = e
  BY ArgsAre, StepIs DEF Doings, FitArg, Carries, OfKind, Frame
<1>2. <<d>> \in Fit(Z, A, op) BY FindFits
<1> HIDE DEF x, d
<1>3. <<x>> \in Fit(Z, A, op) BY <1>1, OneFits DEF Frame, IsWrite, Carries, Says
<1>4. <<d, x>> \in Fit(Z, A, op) BY <1>2, <1>3, PairFits
<1> QED BY <1>4 DEF x, d

LEMMA EachFits ==
  ASSUME NEW S \in SUBSET Ids, NEW do \in {"bulkInsert", "bulkUpdate", "bulkUpsert"}, NEW Z, NEW A, NEW op
  PROVE  Each(do, S) \in Fit(Z, A, op)
<1>1. IsFiniteSet(S) BY FiniteClasses
<1> DEFINE N == Cardinality(S)
           f == SetToSeq(S)
           s == Each(do, S)
<1>2. N \in Nat /\ f \in [1 .. N -> S] BY <1>1, Lists
<1>3. s = [n \in 1 .. N |-> Step(do, f[n])] BY DEF Each
<1> HIDE DEF N, f, s
<1>4. ASSUME NEW n \in 1 .. N PROVE Quiet(Step(do, f[n]))
  <2>1. f[n] \in Ids /\ f[n] \in Ids \cup {None} BY <1>2
  <2> DEFINE x == Step(do, f[n])
  <2>2. x \in Steps /\ x.do = do BY <2>1, ArgsAre, StepIs DEF Doings, FitArg, Carries, OfKind, Frame
  <2> HIDE DEF x
  <2>3. Quiet(x) BY <2>2 DEF Quiet, Frame, IsWrite, Says, Carries
  <2> QED BY <2>3 DEF x
<1>5. s \in [1 .. N -> Steps] BY <1>3, <1>4 DEF Quiet
<1>6. \A n \in 1 .. N : Quiet(s[n]) BY <1>3, <1>4
<1>7. s \in Fit(Z, A, op) BY <1>2, <1>5, <1>6, QuietFits
<1> QED BY <1>7 DEF s

LEMMA EachKindFits ==
  ASSUME NEW ks \in SUBSET Kinds, NEW do \in {"removeWhere", "restoreWhere"}, NEW i \in Ids, NEW Z, NEW A, NEW op
  PROVE  EachKind(do, ks, i) \in Fit(Z, A, op)
<1>1. IsFiniteSet(ks) BY FiniteClasses, FS_Subset
<1> DEFINE N == Cardinality(ks)
           f == SetToSeq(ks)
           s == EachKind(do, ks, i)
<1>2. N \in Nat /\ f \in [1 .. N -> ks] BY <1>1, Lists
<1>3. s = [n \in 1 .. N |-> With(do, i, f[n])] BY DEF EachKind
<1> HIDE DEF N, f, s
<1>4. ASSUME NEW n \in 1 .. N PROVE Quiet(With(do, i, f[n]))
  <2>1. f[n] \in Kinds /\ f[n] \in Args BY <1>2, ArgsAre
  <2> DEFINE x == With(do, i, f[n])
  <2>2. x \in Steps /\ x.do = do BY <2>1, ArgsAre, StepIs DEF Doings, FitArg, Carries, OfKind, Frame
  <2> HIDE DEF x
  <2>3. Quiet(x) BY <2>2 DEF Quiet, Frame, IsWrite, Says, Carries
  <2> QED BY <2>3 DEF x
<1>5. s \in [1 .. N -> Steps] BY <1>3, <1>4 DEF Quiet
<1>6. \A n \in 1 .. N : Quiet(s[n]) BY <1>3, <1>4
<1>7. s \in Fit(Z, A, op) BY <1>2, <1>5, <1>6, QuietFits
<1> QED BY <1>7 DEF s

LEMMA ManyFit ==
  ASSUME NEW Z, NEW A, NEW op, NEW seqs \in Seq(Fit(Z, A, op))
  PROVE  /\ FlattenSeq(seqs) \in Fit(Z, A, op)
         /\ \A n \in DOMAIN seqs : \A m \in DOMAIN seqs[n] :
              \E k \in DOMAIN FlattenSeq(seqs) : FlattenSeq(seqs)[k] = seqs[n][m]
<1> DEFINE G == Fit(Z, A, op)
<1>1. CASE seqs = <<>>
  <2>1. DOMAIN seqs = {} BY <1>1
  <2>2. FlattenSeq(seqs) = <<>> BY <1>1 DEF FlattenSeq
  <2> QED BY <2>1, <2>2, NothingFits
<1>2. CASE seqs # <<>>
  <2>1. G \in SUBSET Seq(Steps) BY DEF Fit
  <2>2. \A s, t \in G : s \o t \in G BY FitJoins
  <2>3. seqs \in Seq(G) OBVIOUS
  <2> HIDE DEF G
  <2>4. /\ FlattenSeq(seqs) \in G
        /\ \A n \in DOMAIN seqs : \A m \in DOMAIN seqs[n] :
              \E k \in DOMAIN FlattenSeq(seqs) : FlattenSeq(seqs)[k] = seqs[n][m]
    BY <1>2, <2>1, <2>2, <2>3, Flattened
  <2> QED BY <2>4 DEF G
<1> QED BY <1>1, <1>2
LEMMA ClassesAre == ASSUME NEW i \in Ids
                    PROVE KindOf[i] \in Kinds /\ HasMany[KindOf[i]] \in SUBSET Kinds /\ SoftChildren(KindOf[i]) \in SUBSET Kinds
<1>1. KindOf[i] \in Kinds BY DEF Kinds
<1>2. HasMany[KindOf[i]] \in SUBSET Kinds BY <1>1, IdsAssumption
<1> QED BY <1>1, <1>2 DEF SoftChildren

LEMMA CascadesFit ==
  ASSUME NEW i \in Ids, NEW Z, NEW A, NEW op
  PROVE  CascadingRemove(i) \in Fit(Z, A, op) /\ CascadingRestore(i) \in Fit(Z, A, op)
<1>1. EachKind("removeWhere", SoftChildren(KindOf[i]), i) \in Fit(Z, A, op) BY ClassesAre, EachKindFits
<1>2. EachKind("restoreWhere", HasMany[KindOf[i]], i) \in Fit(Z, A, op) BY ClassesAre, EachKindFits
<1> QED BY <1>1, <1>2, NothingFits DEF CascadingRemove, CascadingRestore

LEMMA NestedFits ==
  ASSUME NEW S \in SUBSET Ids, NEW tree \in SUBSET Ids, NEW Z, NEW A, NEW op
  PROVE  [n \in 1 .. Cardinality(S) |-> With("add", SetToSeq(S)[n], tree)] \in Fit(Z, A, op)
<1>1. IsFiniteSet(S) BY FiniteClasses
<1> DEFINE N == Cardinality(S)
           f == SetToSeq(S)
           s == [n \in 1 .. N |-> With("add", f[n], tree)]
<1>2. N \in Nat /\ f \in [1 .. N -> S] BY <1>1, Lists
<1> HIDE DEF N, f
<1>4. ASSUME NEW n \in 1 .. N PROVE Quiet(With("add", f[n], tree))
  <2>1. f[n] \in Ids /\ tree \in Args BY <1>2, ArgsAre
  <2> DEFINE x == With("add", f[n], tree)
  <2>2. x \in Steps /\ x.do = "add" BY <2>1, ArgsAre, StepIs DEF Doings, FitArg, Carries, OfKind, Frame
  <2> HIDE DEF x
  <2>3. Quiet(x) BY <2>2 DEF Quiet, Frame, IsWrite, Says, Carries
  <2> QED BY <2>3 DEF x
<1>5. s \in [1 .. N -> Steps] BY <1>4 DEF Quiet
<1>6. \A n \in 1 .. N : Quiet(s[n]) BY <1>4
<1> HIDE DEF s
<1>7. s \in Fit(Z, A, op) BY <1>2, <1>5, <1>6, QuietFits
<1> QED BY <1>7 DEF s, N, f

LEMMA BelowFits ==
  ASSUME NEW S \in SUBSET Ids, NEW ks \in SUBSET Kinds, NEW do \in {"removeWhere", "restoreWhere"},
         NEW Z, NEW A, NEW op
  PROVE  FlattenSeq([n \in 1 .. Cardinality(S) |-> EachKind(do, ks, SetToSeq(S)[n])]) \in Fit(Z, A, op)
<1>1. IsFiniteSet(S) BY FiniteClasses
<1> DEFINE N == Cardinality(S)
           f == SetToSeq(S)
           s == [n \in 1 .. N |-> EachKind(do, ks, f[n])]
<1>2. N \in Nat /\ f \in [1 .. N -> S] BY <1>1, Lists
<1> HIDE DEF N, f
<1>3. \A n \in 1 .. N : EachKind(do, ks, f[n]) \in Fit(Z, A, op) BY <1>2, EachKindFits
<1>4. s \in Seq(Fit(Z, A, op)) BY <1>2, <1>3
<1> HIDE DEF s
<1>5. FlattenSeq(s) \in Fit(Z, A, op) BY <1>4, ManyFit
<1> QED BY <1>5 DEF s, N, f

LEMMA RangesFit ==
  ASSUME NEW S \in SUBSET Ids, NEW Z, NEW A, NEW op
  PROVE  AddingRange(S) \in Fit(Z, A, op) /\ UpsertingRange(S) \in Fit(Z, A, op)
<1>1. IsFiniteSet(S) BY FiniteClasses
<1> DEFINE N == Cardinality(S)
           f == SetToSeq(S)
           s == [n \in 1 .. N |-> Adding(f[n], {})]
           t == [n \in 1 .. N |-> <<Step("find", f[n]), Step("upsert", f[n])>>]
<1>2. N \in Nat /\ f \in [1 .. N -> S] BY <1>1, Lists
<1> HIDE DEF N, f
<1>3. \A n \in 1 .. N : Adding(f[n], {}) \in Fit(Z, A, op) BY <1>2, AddingFits
<1>4. ASSUME NEW n \in 1 .. N PROVE <<Step("find", f[n]), Step("upsert", f[n])>> \in Fit(Z, A, op)
  <2>1. f[n] \in Ids BY <1>2
  <2>2. <<Step("find", f[n]), With("upsert", f[n], None)>> \in Fit(Z, A, op) BY <2>1, UpsertFits
  <2>3. With("upsert", f[n], None) = Step("upsert", f[n])
    <3> DEFINE x == Step("upsert", f[n])
               y == With("upsert", f[n], None)
    <3>1. y = [x EXCEPT !.arg = None] BY DEF With
    <3>2. x = [do |-> "upsert", id |-> f[n], arg |-> None, opt |-> FALSE] BY DEF Step
    <3> HIDE DEF x, y
    <3>3. y = [do |-> "upsert", id |-> f[n], arg |-> None, opt |-> FALSE] BY <3>1, <3>2
    <3> QED BY <3>2, <3>3 DEF x, y
  <2> QED BY <2>2, <2>3
<1>5. s \in Seq(Fit(Z, A, op)) /\ t \in Seq(Fit(Z, A, op)) BY <1>2, <1>3, <1>4
<1> HIDE DEF s, t
<1>6. FlattenSeq(s) \in Fit(Z, A, op) /\ FlattenSeq(t) \in Fit(Z, A, op) BY <1>5, ManyFit
<1> QED BY <1>6 DEF AddingRange, UpsertingRange, s, t, N, f

(* ------------------------- the lists a call starts with ------------------- *)

LEMMA FitOpens == ASSUME NEW A, NEW op, NEW s \in Fit({}, A, op) PROVE s \in Opening(A, op)
<1>1. Framed(s) BY DEF Fit, Unframed, Framed, Frame
<1> QED BY <1>1 DEF Fit, Opening, Unframed, Frame

LEMMA FramedOpens ==
  ASSUME NEW A, NEW op, NEW s \in Fit({}, A, op), NEW u, Frames(s, op, u)
  PROVE  /\ u \in Opening(A, op)
         /\ \A n \in DOMAIN s : \E k \in DOMAIN u : u[k] = s[n]
<1> PICK e : /\ e = <<Step("commit", None)>> \/ (e = <<Step("commit", None), Step("clear", None)>> /\ op = "unit")
             /\ u = <<Step("begin", None)>> \o s \o e
  BY DEF Frames
<1> DEFINE b == <<Step("begin", None)>>
           v == b \o s
<1>1. b \in Seq(Steps) /\ DOMAIN b = {1} /\ Len(b) = 1 /\ b[1].do = "begin"
  <2> DEFINE x == Step("begin", None)
  <2>1. x \in Steps /\ x.do = "begin" BY ArgsAre, StepIs DEF Doings, FitArg, Carries, OfKind, Frame
  <2> HIDE DEF x
  <2>2. <<x>> \in Seq(Steps) /\ DOMAIN <<x>> = {1} /\ Len(<<x>>) = 1 /\ <<x>>[1].do = "begin" BY <2>1
  <2> QED BY <2>2 DEF x
<1>2. /\ e \in Seq(Steps) /\ 1 \in DOMAIN e /\ e[1].do = "commit"
      /\ \A n \in DOMAIN e : n = 1 \/ (n = 2 /\ Len(e) = 2 /\ e[n].do = "clear" /\ op = "unit")
  <2> DEFINE x == Step("commit", None)
             y == Step("clear", None)
  <2>1. x \in Steps /\ x.do = "commit" BY ArgsAre, StepIs DEF Doings, FitArg, Carries, OfKind, Frame
  <2>2. y \in Steps /\ y.do = "clear" BY ArgsAre, StepIs DEF Doings, FitArg, Carries, OfKind, Frame
  <2>3. e = <<x>> \/ (e = <<x, y>> /\ op = "unit") OBVIOUS
  <2> HIDE DEF x, y
  <2>4. CASE e = <<x>> BY <2>4, <2>1
  <2>5. CASE e = <<x, y>> /\ op = "unit" BY <2>5, <2>1, <2>2
  <2> QED BY <2>3, <2>4, <2>5
<1>3. s \in Seq(Steps) BY DEF Fit
<1>4. v = b \o s /\ u = v \o e OBVIOUS
<1> HIDE DEF b, v
<1>5. /\ v \in Seq(Steps) /\ Len(s) \in Nat /\ Len(v) = Len(b) + Len(s)
      /\ DOMAIN s = 1 .. Len(s) /\ DOMAIN v = 1 .. Len(v)
      /\ \A n \in DOMAIN b : n \in DOMAIN v /\ v[n] = b[n]
      /\ \A n \in DOMAIN s : Len(b) + n \in DOMAIN v /\ v[Len(b) + n] = s[n]
  BY <1>1, <1>3, <1>4, Joined
<1>6. /\ u \in Seq(Steps) /\ Len(e) \in Nat /\ Len(u) = Len(v) + Len(e)
      /\ DOMAIN e = 1 .. Len(e) /\ DOMAIN u = 1 .. Len(u)
      /\ \A n \in DOMAIN v : n \in DOMAIN u /\ u[n] = v[n]
      /\ \A n \in DOMAIN e : Len(v) + n \in DOMAIN u /\ u[Len(v) + n] = e[n]
  BY <1>2, <1>4, <1>5, Joined
<1> DEFINE L == Len(s)
<1>7. L \in Nat /\ DOMAIN s = 1 .. L /\ DOMAIN u = 1 .. Len(u) /\ Len(u) = L + 1 + Len(e) /\ Len(e) \in {1, 2}
  BY <1>1, <1>2, <1>5, <1>6
<1>8. 1 \in DOMAIN u /\ u[1].do = "begin" /\ L + 2 \in DOMAIN u /\ u[L + 2].do = "commit"
  <2>1. 1 \in DOMAIN v /\ v[1] = b[1] BY <1>1, <1>5
  <2>2. Len(v) + 1 \in DOMAIN u /\ u[Len(v) + 1] = e[1] /\ Len(v) + 1 = L + 2 BY <1>1, <1>2, <1>5, <1>6
  <2> QED BY <2>1, <2>2, <1>1, <1>2, <1>6
<1>9. \A n \in DOMAIN s : n + 1 \in DOMAIN u /\ u[n + 1] = s[n]
  <2>1. ASSUME NEW n \in DOMAIN s PROVE n + 1 \in DOMAIN u /\ u[n + 1] = s[n]
    <3>1. Len(b) + n \in DOMAIN v /\ v[Len(b) + n] = s[n] BY <1>5
    <3>2. Len(b) + n = n + 1 BY <1>1, <1>7
    <3> QED BY <3>1, <3>2, <1>6
  <2> QED BY <2>1
<1>10. Len(u) > L + 2 => Len(u) = L + 3 /\ u[L + 3].do = "clear" /\ op = "unit"
  <2>1. SUFFICES ASSUME Len(u) > L + 2 PROVE Len(u) = L + 3 /\ u[L + 3].do = "clear" /\ op = "unit" OBVIOUS
  <2>2. Len(e) = 2 /\ 2 \in DOMAIN e BY <2>1, <1>7, <1>6
  <2>3. e[2].do = "clear" /\ op = "unit" BY <2>2, <1>2
  <2>4. u[Len(v) + 2] = e[2] /\ Len(v) + 2 = L + 3 BY <2>2, <1>1, <1>5, <1>6
  <2> QED BY <2>2, <2>3, <2>4, <1>7
<1>11. \A n \in DOMAIN u : n = 1 \/ (n > 1 /\ n - 1 \in DOMAIN s) \/ n = L + 2 \/ (n = L + 3 /\ n = Len(u))
  BY <1>7, <1>10
<1>L. L \in Nat BY <1>7
<1> HIDE DEF L
<1>12. \A n \in DOMAIN u : u[n].do \in Frame \/ (n > 1 /\ n - 1 \in DOMAIN s /\ u[n] = s[n - 1])
  <2>1. ASSUME NEW n \in DOMAIN u, n > 1, n - 1 \in DOMAIN s PROVE u[n] = s[n - 1]
    <3>1. u[(n - 1) + 1] = s[n - 1] BY <2>1, <1>9
    <3>2. (n - 1) + 1 = n BY <2>1, <1>7
    <3> QED BY <3>1, <3>2
  <2> QED BY <2>1, <1>11, <1>8, <1>10, <1>7 DEF Frame
<1>13. \A n \in DOMAIN s : s[n].do \notin Frame BY DEF Fit, Unframed
<1>14. \A n \in DOMAIN u : /\ u[n].do = "begin" => n = 1
                           /\ u[n].do = "commit" => n = L + 2
                           /\ u[n].do = "clear" => n = L + 3 /\ n = Len(u) /\ op = "unit"
  <2>1. ASSUME NEW n \in DOMAIN u, u[n].do \in Frame PROVE n = 1 \/ n = L + 2 \/ (n = L + 3 /\ n = Len(u))
    <3>1. ~(n > 1 /\ n - 1 \in DOMAIN s)
      <4>1. ASSUME n > 1, n - 1 \in DOMAIN s PROVE FALSE
        <5>1. u[(n - 1) + 1] = s[n - 1] BY <4>1, <1>9
        <5>2. (n - 1) + 1 = n BY <4>1, <1>7
        <5> QED BY <5>1, <5>2, <4>1, <2>1, <1>13
      <4> QED BY <4>1
    <3> QED BY <3>1, <1>11
  <2>2. \A n \in DOMAIN u : n = L + 3 /\ n = Len(u) => u[n].do = "clear" /\ op = "unit" BY <1>7, <1>10
  <2> QED BY <2>1, <2>2, <1>8 DEF Frame
<1>15. Framed(u)
  <2>1. \A m \in DOMAIN u : m > L + 2 => u[m].do = "clear" BY <1>7, <1>10
  <2>2. ASSUME NEW n \in DOMAIN u, u[n].do = "clear" PROVE n = Len(u) /\ (n > 1 => u[n - 1].do = "commit")
    <3>1. n = L + 3 /\ n = Len(u) BY <2>2, <1>14
    <3>2. n - 1 = L + 2 BY <3>1, <1>L
    <3> QED BY <3>1, <3>2, <1>8
  <2> QED BY <2>1, <2>2, <1>8, <1>14 DEF Framed
<1>16. Reads(u, 1)
  <2> SUFFICES ASSUME NEW n \in DOMAIN u, NeedsRead(u[n])
               PROVE n > 1 /\ u[n - 1].do = "find" /\ u[n - 1].id = u[n].id
    BY DEF Reads
  <2>1. n > 1 /\ n - 1 \in DOMAIN s /\ u[n] = s[n - 1] BY <1>12 DEF NeedsRead, IsWrite, Frame
  <2>2. n - 1 >= 1 /\ n - 1 > 1 /\ s[n - 1 - 1].do = "find" /\ s[n - 1 - 1].id = s[n - 1].id
    BY <2>1, <1>7 DEF Fit, Reads
  <2>3. n - 1 - 1 \in DOMAIN s /\ (n - 1 - 1) + 1 = n - 1 BY <2>1, <2>2, <1>7
  <2>4. u[(n - 1 - 1) + 1] = s[n - 1 - 1] BY <2>3, <1>9
  <2> QED BY <2>1, <2>2, <2>3, <2>4
<1>17. Reports(u)
  <2> SUFFICES ASSUME NEW n \in DOMAIN u, IsWrite(u[n])
               PROVE  /\ n < Len(u) /\ u[n + 1].do = "reload" /\ u[n + 1].id = u[n].id
                      /\ \E m \in DOMAIN u : m > n /\ u[m].do = "emit" /\ u[m].id = u[n].id
                      /\ Audited(u[n].id) => \E m \in DOMAIN u : m > n /\ u[m].do = "audit" /\ u[m].id = u[n].id
    BY DEF Reports
  <2> DEFINE k == n - 1
  <2>0. n > 1 /\ n - 1 \in DOMAIN s /\ u[n] = s[n - 1] BY <1>12 DEF IsWrite, Frame
  <2>1. n > 1 /\ k \in DOMAIN s /\ u[n] = s[k] /\ n = k + 1 BY <2>0, <1>7
  <2>2. /\ k < Len(s) /\ s[k + 1].do = "reload" /\ s[k + 1].id = s[k].id
        /\ \E m \in DOMAIN s : m > k /\ s[m].do = "emit" /\ s[m].id = s[k].id
        /\ Audited(s[k].id) => \E m \in DOMAIN s : m > k /\ s[m].do = "audit" /\ s[m].id = s[k].id
    BY <2>1 DEF Fit, Reports
  <2>3. k + 1 \in DOMAIN s /\ u[(k + 1) + 1] = s[k + 1] /\ n < Len(u)
    <3>1. k + 1 \in DOMAIN s BY <2>1, <2>2, <1>5
    <3>2. n < Len(u) BY <2>1, <2>2, <1>5, <1>7, <1>6, <1>1
    <3> QED BY <3>1, <3>2, <1>9
  <2> HIDE DEF k
  <2>4. \A m \in DOMAIN s : m > k => m + 1 \in DOMAIN u /\ m + 1 > n /\ u[m + 1] = s[m] BY <2>1, <1>9, <1>7
  <2> QED BY <2>1, <2>2, <2>3, <2>4
<1>18. Backed(u, {})
  <2> SUFFICES ASSUME NEW n \in DOMAIN u, Says(u[n])
               PROVE \E m \in DOMAIN u : m < n /\ IsWrite(u[m]) /\ u[m].id = u[n].id
    BY DEF Backed
  <2> DEFINE k == n - 1
  <2>0. n > 1 /\ n - 1 \in DOMAIN s /\ u[n] = s[n - 1] BY <1>12 DEF Says, Frame
  <2>1. n > 1 /\ k \in DOMAIN s /\ u[n] = s[k] /\ n = k + 1 BY <2>0, <1>7
  <2>2. PICK m \in DOMAIN s : m < k /\ IsWrite(s[m]) /\ s[m].id = s[k].id BY <2>1 DEF Fit, Backed
  <2>3. m + 1 \in DOMAIN u /\ m + 1 < n /\ u[m + 1] = s[m] BY <2>1, <2>2, <1>9, <1>7
  <2> QED BY <2>1, <2>2, <2>3
<1>19. Carried(u, A)
  <2> SUFFICES ASSUME NEW n \in DOMAIN u, Carries(u[n]), u[n].arg # None PROVE <<u[n].id, u[n].arg>> \in A
    BY DEF Carried
  <2>1. n > 1 /\ n - 1 \in DOMAIN s /\ u[n] = s[n - 1] BY <1>12 DEF Carries, Frame
  <2> QED BY <2>1 DEF Fit, Carried
<1>20. Belong(u, op) /\ Untold(u)
  <2>1. ASSUME NEW n \in DOMAIN u, u[n].do \notin Frame
        PROVE  u[n].do # "tell" /\ (u[n].do = "native" => op = "nativeUpsert") /\ (u[n].do = "hardRemove" => op = "hardRemove")
    <3>1. n > 1 /\ n - 1 \in DOMAIN s /\ u[n] = s[n - 1] BY <1>12, <2>1
    <3> QED BY <3>1 DEF Fit, Belong, Untold
  <2> QED BY <2>1 DEF Belong, Untold, Frame
<1>21. u \in Opening(A, op) BY <1>6, <1>8, <1>14, <1>15, <1>16, <1>17, <1>18, <1>19, <1>20 DEF Opening
<1> QED BY <1>9, <1>21

(* ---------------------------- what commit() writes ------------------------ *)

LEMMA DoingPicks ==
  ASSUME NEW ops \in Seq(Ops), NEW do
  PROVE  /\ Doing(ops, do) \in Seq(Ops)
         /\ \A n \in DOMAIN Doing(ops, do) : \E k \in DOMAIN ops : Doing(ops, do)[n] = ops[k] /\ ops[k].do = do
         /\ \A k \in DOMAIN ops : ops[k].do = do => \E n \in DOMAIN Doing(ops, do) : Doing(ops, do)[n] = ops[k]
         /\ Distinct(ops) => Distinct(Doing(ops, do))
<1> DEFINE Good == {op \in Range(ops) : op.do = do}
           out == Among(ops, Good)
<1>1. Picked(out, ops, Ops, Good) BY AmongPicks
<1>2. \A k \in DOMAIN ops : ops[k] \in Good <=> ops[k].do = do BY DEF Range
<1> HIDE DEF Good, out
<1>3. PICK pos : Picks(out, ops, Ops, Good, pos) BY <1>1 DEF Picked
<1>4. out = Doing(ops, do) BY DEF Doing, out, Good
<1> QED BY <1>2, <1>3, <1>4 DEF Picks, Distinct

\* commit() writes every operation registered as added or modified.
LEMMA OpIs ==
  ASSUME NEW ops \in Seq(Ops), NEW k \in DOMAIN ops
  PROVE  /\ ops[k] \in Ops /\ ops[k].n \in Nat /\ ops[k].do \in {"Added", "Modified", "Deleted"}
         /\ ops[k].id \in Ids /\ ops[k].entity \in Stored \cup {None}
<1>1. ops[k] \in Ops OBVIOUS
<1> QED BY <1>1 DEF Ops

LEMMA FlushingFits ==
  ASSUME NEW ops \in Seq(Ops)
  PROVE  /\ Flushing(ops) \in Fit({}, Commissions(ops), "unit")
         /\ \A k \in DOMAIN ops : ops[k].do # "Deleted" =>
              \E n \in DOMAIN Flushing(ops) : Flushing(ops)[n].do \in {"add", "write"} /\ Flushing(ops)[n].id = ops[k].id
<1> DEFINE A == Commissions(ops)
           G == Fit({}, A, "unit")
           Inserted == SortInserts(Doing(ops, "Added"))
           Modified == Doing(ops, "Modified")
           Removed == SortInserts(Doing(ops, "Deleted"))
           Deleted == SortDeletes(Doing(ops, "Deleted"))
           a == [n \in DOMAIN Inserted |-> Adding(Inserted[n].id, {})]
           m == [n \in DOMAIN Modified |-> Updating(Modified[n].id, "write", Modified[n].entity)]
           r == [n \in DOMAIN Deleted |-> Removing(Deleted[n].id, None)]
           am == a \o m
           all == am \o r
<1>1. Flushing(ops) = FlattenSeq(all)
  <2>1. all = a \o m \o r OBVIOUS
  <2> QED BY <2>1, Zenon DEF Flushing
<1>2. /\ Inserted \in Seq(Ops)
      /\ \A k \in DOMAIN ops : ops[k].do = "Added" => \E j \in DOMAIN Inserted : Inserted[j] = ops[k]
  <2> DEFINE d == Doing(ops, "Added")
  <2>1. d \in Seq(Ops) /\ \A k \in DOMAIN ops : ops[k].do = "Added" => \E n \in DOMAIN d : d[n] = ops[k]
    BY DoingPicks
  <2> HIDE DEF d
  <2>2. Inserted \in Seq(Range(d)) /\ \A k \in DOMAIN d : \E j \in DOMAIN Inserted : Inserted[j] = d[k]
    BY <2>1, SortHasAll DEF d
  <2>3. Range(d) \subseteq Ops BY <2>1 DEF Range
  <2> HIDE DEF Inserted
  <2> QED BY <2>1, <2>2, <2>3
<1>3. /\ Modified \in Seq(Ops)
      /\ \A n \in DOMAIN Modified : \E k \in DOMAIN ops : Modified[n] = ops[k]
      /\ \A k \in DOMAIN ops : ops[k].do = "Modified" => \E j \in DOMAIN Modified : Modified[j] = ops[k]
  BY DoingPicks
<1>4. Deleted \in Seq(Ops)
  <2> DEFINE d == Doing(ops, "Deleted")
  <2>1. d \in Seq(Ops) BY DoingPicks
  <2> HIDE DEF d
  <2>2. Removed \in Seq(Range(d)) BY <2>1, SortHasAll DEF d
  <2>3. Range(d) \subseteq Ops BY <2>1 DEF Range
  <2>4. Deleted = Reverse(Removed) BY DEF SortDeletes
  <2> HIDE DEF Removed, Deleted
  <2>5. Removed \in Seq(Ops) BY <2>2, <2>3
  <2>6. Len(Removed) \in Nat /\ \A i \in 1 .. Len(Removed) : Removed[(Len(Removed) - i) + 1] \in Ops BY <2>5
  <2>7. Deleted = [i \in 1 .. Len(Removed) |-> Removed[(Len(Removed) - i) + 1]] BY <2>4 DEF Reverse
  <2> QED BY <2>6, <2>7
<1> HIDE DEF Inserted, Modified, Removed, Deleted, A
<1>adds. ASSUME NEW i \in Ids
         PROVE  Adding(i, {}) \in G /\ \E j \in DOMAIN Adding(i, {}) : Adding(i, {})[j].do = "add" /\ Adding(i, {})[j].id = i
  <2>1. {} \in SUBSET Ids OBVIOUS
  <2>2. /\ Adding(i, {}) \in Fit({}, A, "unit") /\ Adding(i, {})[1].do = "add" /\ Adding(i, {})[1].id = i
        /\ DOMAIN Adding(i, {}) = {1}
    BY <2>1, AddingFits
  <2> QED BY <2>2
<1>writes. ASSUME NEW i \in Ids, NEW e \in Stored \cup {None}, <<i, e>> \in A
           PROVE  /\ Updating(i, "write", e) \in G
                  /\ \E j \in DOMAIN Updating(i, "write", e) : Updating(i, "write", e)[j].do = "write" /\ Updating(i, "write", e)[j].id = i
  <2>1. "write" \in {"write", "stamp"} OBVIOUS
  <2>2. e # None => <<i, e>> \in A BY <1>writes
  <2> QED BY <2>1, <2>2, UpdatingFits
<1>removes. ASSUME NEW i \in Ids PROVE Removing(i, None) \in G
  <2>1. None \in Stored \cup {None} OBVIOUS
  <2> QED BY <2>1, RemovingFits
<1> HIDE DEF G
<1>5. a \in Seq(G) /\ DOMAIN a = DOMAIN Inserted
  <2>1. ASSUME NEW n \in DOMAIN Inserted PROVE Adding(Inserted[n].id, {}) \in G
    <3>1. Inserted[n].id \in Ids BY <1>2, OpIs
    <3> QED BY <3>1, <1>adds
  <2>2. DOMAIN Inserted = 1 .. Len(Inserted) /\ Len(Inserted) \in Nat BY <1>2
  <2> QED BY <2>1, <2>2
<1>6. m \in Seq(G) /\ DOMAIN m = DOMAIN Modified
  <2>1. ASSUME NEW n \in DOMAIN Modified PROVE Updating(Modified[n].id, "write", Modified[n].entity) \in G
    <3>1. Modified[n].id \in Ids /\ Modified[n].entity \in Stored \cup {None} BY <1>3, OpIs
    <3>2. <<Modified[n].id, Modified[n].entity>> \in A BY <1>3 DEF Commissions, A
    <3> QED BY <3>1, <3>2, <1>writes
  <2>2. DOMAIN Modified = 1 .. Len(Modified) /\ Len(Modified) \in Nat BY <1>3
  <2> QED BY <2>1, <2>2
<1>7. r \in Seq(G)
  <2>1. ASSUME NEW n \in DOMAIN Deleted PROVE Removing(Deleted[n].id, None) \in G
    <3>1. Deleted[n].id \in Ids BY <1>4, OpIs
    <3> QED BY <3>1, <1>removes
  <2>2. DOMAIN Deleted = 1 .. Len(Deleted) /\ Len(Deleted) \in Nat BY <1>4
  <2> QED BY <2>1, <2>2
<1>8. \A n \in DOMAIN Inserted : \E j \in DOMAIN a[n] : a[n][j].do = "add" /\ a[n][j].id = Inserted[n].id
  <2> SUFFICES ASSUME NEW n \in DOMAIN Inserted
               PROVE \E j \in DOMAIN a[n] : a[n][j].do = "add" /\ a[n][j].id = Inserted[n].id
    OBVIOUS
  <2>1. Inserted[n].id \in Ids BY <1>2, OpIs
  <2>2. a[n] = Adding(Inserted[n].id, {}) OBVIOUS
  <2> QED BY <2>1, <2>2, <1>adds
<1>9. \A n \in DOMAIN Modified : \E j \in DOMAIN m[n] : m[n][j].do = "write" /\ m[n][j].id = Modified[n].id
  <2> SUFFICES ASSUME NEW n \in DOMAIN Modified
               PROVE \E j \in DOMAIN m[n] : m[n][j].do = "write" /\ m[n][j].id = Modified[n].id
    OBVIOUS
  <2>1. Modified[n].id \in Ids /\ Modified[n].entity \in Stored \cup {None} BY <1>3, OpIs
  <2>2. <<Modified[n].id, Modified[n].entity>> \in A BY <1>3 DEF Commissions, A
  <2>3. m[n] = Updating(Modified[n].id, "write", Modified[n].entity) OBVIOUS
  <2> QED BY <2>1, <2>2, <2>3, <1>writes
<1> HIDE DEF a, m, r
<1>am. am = a \o m OBVIOUS
<1>al. all = am \o r OBVIOUS
<1> HIDE DEF am, all
<1>10. am \in Seq(G) /\ (\A n \in DOMAIN a : n \in DOMAIN am /\ am[n] = a[n])
       /\ (\A n \in DOMAIN m : Len(a) + n \in DOMAIN am /\ am[Len(a) + n] = m[n])
  BY <1>5, <1>6, <1>am, Joined
<1>11. all \in Seq(G) /\ \A n \in DOMAIN am : n \in DOMAIN all /\ all[n] = am[n]
  BY <1>10, <1>7, <1>al, Joined
<1>12. /\ FlattenSeq(all) \in G
       /\ \A n \in DOMAIN all : \A j \in DOMAIN all[n] : \E k \in DOMAIN FlattenSeq(all) : FlattenSeq(all)[k] = all[n][j]
  BY <1>11, ManyFit DEF G
<1>13. ASSUME NEW k \in DOMAIN ops, ops[k].do # "Deleted"
       PROVE  \E n \in DOMAIN Flushing(ops) : Flushing(ops)[n].do \in {"add", "write"} /\ Flushing(ops)[n].id = ops[k].id
  <2>1. CASE ops[k].do = "Added"
    <3>1. PICK n \in DOMAIN Inserted : Inserted[n] = ops[k] BY <2>1, <1>2
    <3>2. PICK j \in DOMAIN a[n] : a[n][j].do = "add" /\ a[n][j].id = Inserted[n].id BY <1>8
    <3>3. n \in DOMAIN all /\ all[n] = a[n] BY <1>5, <1>10, <1>11
    <3> QED BY <3>1, <3>2, <3>3, <1>12, <1>1
  <2>2. CASE ops[k].do = "Modified"
    <3>1. PICK n \in DOMAIN Modified : Modified[n] = ops[k] BY <2>2, <1>3
    <3>2. PICK j \in DOMAIN m[n] : m[n][j].do = "write" /\ m[n][j].id = Modified[n].id BY <1>9
    <3>3. Len(a) + n \in DOMAIN all /\ all[Len(a) + n] = m[n] BY <1>6, <1>10, <1>11
    <3> QED BY <3>1, <3>2, <3>3, <1>12, <1>1
  <2>3. ops[k].do \in {"Added", "Modified", "Deleted"} BY OpIs
  <2> QED BY <2>1, <2>2, <2>3, <1>13
<1>14. Flushing(ops) \in Fit({}, Commissions(ops), "unit") BY <1>1, <1>12 DEF G, A
<1> QED BY <1>13, <1>14

LEMMA CallsAre ==
  ASSUME NEW c, NEW x \in Calls(c)
  PROVE  \E i \in Ids :
           \/ x = <<"addRange", i, AddingRange(Children(i) \cup {i})>>
           \/ x = <<"upsertRange", i, UpsertingRange(Children(i) \cup {i})>>
           \/ \E t \in {{}, Children(i)} : x = <<"add", i, Adding(i, t)>>
           \/ \E e \in Entities(c, i) :
                \/ x = <<"update", i, Updating(i, "write", e)>>
                \/ x = <<"upsert", i, <<Step("find", i), With("upsert", i, e)>> >>
                \/ x = <<"remove", i, Removing(i, e)>>
                \/ x = <<"hardRemove", i, <<With("hardRemove", i, e)>> >>
           \/ x = <<"nativeUpsert", i, <<Step("native", i)>> >>
           \/ x = <<"restore", i, <<Step("restore", i)>> >>
           \/ \E do \in {"removeWhere", "restoreWhere", "hardRemoveWhere", "bulkDelete"}, k \in HasMany[KindOf[i]] :
                x = <<"where", i, <<With(do, i, k)>> >>
           \/ \E do \in {"bulkInsert", "bulkUpdate", "bulkUpsert"} :
                x = <<do, i, InTransaction(Each(do, Children(i)))>>
BY DEF Calls, Entities, Children

LEMMA CallIs ==
  ASSUME NEW A, NEW i \in Ids, NEW op \in CallNames, op # "unit", NEW s \in Opening(A, op), NEW x, x = <<op, i, s>>
  PROVE  x[3] \in Opening(A, x[1]) /\ x[1] \in CallNames /\ x[1] # "unit" /\ x[2] \in Ids
<1>1. x[1] = op /\ x[2] = i /\ x[3] = s OBVIOUS
<1> QED BY <1>1

\* Every list of steps that a call can start with is well formed.
LEMMA CallsOpen ==
  ASSUME NEW c \in Clients, held[c] \in Loaded \cup {None}, NEW x \in Calls(c)
  PROVE  x[3] \in Opening(HeldBy(c), x[1]) /\ x[1] \in CallNames /\ x[1] # "unit" /\ x[2] \in Ids
<1> DEFINE A == HeldBy(c)
<1>1. PICK i \in Ids :
           \/ x = <<"addRange", i, AddingRange(Children(i) \cup {i})>>
           \/ x = <<"upsertRange", i, UpsertingRange(Children(i) \cup {i})>>
           \/ \E t \in {{}, Children(i)} : x = <<"add", i, Adding(i, t)>>
           \/ \E e \in Entities(c, i) :
                \/ x = <<"update", i, Updating(i, "write", e)>>
                \/ x = <<"upsert", i, <<Step("find", i), With("upsert", i, e)>> >>
                \/ x = <<"remove", i, Removing(i, e)>>
                \/ x = <<"hardRemove", i, <<With("hardRemove", i, e)>> >>
           \/ x = <<"nativeUpsert", i, <<Step("native", i)>> >>
           \/ x = <<"restore", i, <<Step("restore", i)>> >>
           \/ \E do \in {"removeWhere", "restoreWhere", "hardRemoveWhere", "bulkDelete"}, k \in HasMany[KindOf[i]] :
                x = <<"where", i, <<With(do, i, k)>> >>
           \/ \E do \in {"bulkInsert", "bulkUpdate", "bulkUpsert"} :
                x = <<do, i, InTransaction(Each(do, Children(i)))>>
  BY CallsAre
<1>2. Children(i) \in SUBSET Ids /\ Children(i) \cup {i} \in SUBSET Ids BY DEF Children
<1>3. \A e \in Entities(c, i) : e \in Stored \cup {None} /\ (e # None => <<i, e>> \in A)
  BY DEF Entities, HeldBy, Loaded
<1> HIDE DEF A
<1>4. CASE x = <<"addRange", i, AddingRange(Children(i) \cup {i})>> \/ x = <<"upsertRange", i, UpsertingRange(Children(i) \cup {i})>>
  <2>1. AddingRange(Children(i) \cup {i}) \in Opening(A, "addRange") BY <1>2, RangesFit, FitOpens
  <2>2. UpsertingRange(Children(i) \cup {i}) \in Opening(A, "upsertRange") BY <1>2, RangesFit, FitOpens
  <2> QED BY <1>4, <2>1, <2>2, CallIs DEF CallNames, A
<1>5. ASSUME NEW t \in {{}, Children(i)}, x = <<"add", i, Adding(i, t)>>
      PROVE  x[3] \in Opening(A, x[1]) /\ x[1] \in CallNames /\ x[1] # "unit" /\ x[2] \in Ids
  <2>1. t \in SUBSET Ids BY <1>2
  <2>2. Adding(i, t) \in Opening(A, "add") BY <2>1, AddingFits, FitOpens
  <2> QED BY <1>5, <2>2, CallIs DEF CallNames
<1>6. ASSUME NEW e \in Entities(c, i),
             \/ x = <<"update", i, Updating(i, "write", e)>>
             \/ x = <<"upsert", i, <<Step("find", i), With("upsert", i, e)>> >>
             \/ x = <<"remove", i, Removing(i, e)>>
             \/ x = <<"hardRemove", i, <<With("hardRemove", i, e)>> >>
      PROVE  x[3] \in Opening(A, x[1]) /\ x[1] \in CallNames /\ x[1] # "unit" /\ x[2] \in Ids
  <2>0. e \in Stored \cup {None} /\ (e # None => <<i, e>> \in A) BY <1>3
  <2>1. Updating(i, "write", e) \in Opening(A, "update")
    <3>1. Updating(i, "write", e) \in Fit({}, A, "update") BY <2>0, UpdatingFits
    <3> QED BY <3>1, FitOpens
  <2>2. <<Step("find", i), With("upsert", i, e)>> \in Opening(A, "upsert")
    <3>1. <<Step("find", i), With("upsert", i, e)>> \in Fit({}, A, "upsert") BY <2>0, UpsertFits
    <3> QED BY <3>1, FitOpens
  <2>3. Removing(i, e) \in Opening(A, "remove")
    <3>1. Removing(i, e) \in Fit({}, A, "remove") BY <2>0, RemovingFits
    <3> QED BY <3>1, FitOpens
  <2>4. <<With("hardRemove", i, e)>> \in Opening(A, "hardRemove")
    <3> DEFINE y == With("hardRemove", i, e)
    <3>1. y \in Steps /\ y.do = "hardRemove" /\ y.id = i /\ y.arg = e
      BY <2>0, ArgsAre, StepIs DEF Doings, FitArg, Carries, OfKind, Frame
    <3> HIDE DEF y
    <3>2. <<y>> \in Fit({}, A, "hardRemove") BY <2>0, <3>1, OneFits DEF Frame, IsWrite, Says
    <3>3. <<y>> \in Opening(A, "hardRemove") BY <3>2, FitOpens
    <3> QED BY <3>3 DEF y
  <2>5. CASE x = <<"update", i, Updating(i, "write", e)>> BY <2>5, <2>1, CallIs DEF CallNames
  <2>6. CASE x = <<"upsert", i, <<Step("find", i), With("upsert", i, e)>> >>
    <3> DEFINE s == <<Step("find", i), With("upsert", i, e)>>
    <3>1. s \in Opening(A, "upsert") /\ x = <<"upsert", i, s>> BY <2>2, <2>6
    <3> HIDE DEF s
    <3> QED BY <3>1, CallIs DEF CallNames
  <2>7. CASE x = <<"remove", i, Removing(i, e)>> BY <2>7, <2>3, CallIs DEF CallNames
  <2>8. CASE x = <<"hardRemove", i, <<With("hardRemove", i, e)>> >>
    <3> DEFINE s == <<With("hardRemove", i, e)>>
    <3>1. s \in Opening(A, "hardRemove") /\ x = <<"hardRemove", i, s>> BY <2>4, <2>8
    <3> HIDE DEF s
    <3> QED BY <3>1, CallIs DEF CallNames
  <2> QED BY <1>6, <2>5, <2>6, <2>7, <2>8
<1>7. CASE x = <<"nativeUpsert", i, <<Step("native", i)>> >>
  <2> DEFINE y == Step("native", i)
  <2>1. y \in Steps /\ y.do = "native" /\ y.id = i /\ y.arg = None
    BY ArgsAre, StepIs DEF Doings, FitArg, Carries, OfKind, Frame
  <2>2. x = <<"nativeUpsert", i, <<y>> >> BY <1>7
  <2> HIDE DEF y
  <2>3. <<y>> \in Fit({}, A, "nativeUpsert") BY <2>1, OneFits DEF Frame, IsWrite, Says
  <2>4. <<y>> \in Opening(A, "nativeUpsert") BY <2>3, FitOpens
  <2> QED BY <2>2, <2>4, CallIs DEF CallNames, A
<1>8. CASE x = <<"restore", i, <<Step("restore", i)>> >>
  <2> DEFINE y == Step("restore", i)
  <2>1. y \in Steps /\ y.do = "restore" /\ y.id = i /\ y.arg = None
    BY ArgsAre, StepIs DEF Doings, FitArg, Carries, OfKind, Frame
  <2>2. x = <<"restore", i, <<y>> >> BY <1>8
  <2> HIDE DEF y
  <2>3. <<y>> \in Fit({}, A, "restore") BY <2>1, OneFits DEF Frame, IsWrite, Says
  <2>4. <<y>> \in Opening(A, "restore") BY <2>3, FitOpens
  <2> QED BY <2>2, <2>4, CallIs DEF CallNames, A
<1>9. ASSUME NEW do \in {"removeWhere", "restoreWhere", "hardRemoveWhere", "bulkDelete"}, NEW k \in HasMany[KindOf[i]],
             x = <<"where", i, <<With(do, i, k)>> >>
      PROVE  x[3] \in Opening(A, x[1]) /\ x[1] \in CallNames /\ x[1] # "unit" /\ x[2] \in Ids
  <2> DEFINE y == With(do, i, k)
  <2>0. k \in Kinds /\ k \in Args BY ClassesAre, ArgsAre
  <2>1. y \in Steps /\ y.do = do /\ y.id = i /\ y.arg = k
    BY <2>0, ArgsAre, StepIs DEF Doings, FitArg, Carries, OfKind, Frame
  <2>2. x = <<"where", i, <<y>> >> BY <1>9
  <2> HIDE DEF y
  <2>3. <<y>> \in Fit({}, A, "where") BY <2>1, OneFits DEF Frame, IsWrite, Says, Carries
  <2>4. <<y>> \in Opening(A, "where") BY <2>3, FitOpens
  <2> QED BY <2>2, <2>4, CallIs DEF CallNames
<1>10. ASSUME NEW do \in {"bulkInsert", "bulkUpdate", "bulkUpsert"}, x = <<do, i, InTransaction(Each(do, Children(i)))>>
       PROVE  x[3] \in Opening(A, x[1]) /\ x[1] \in CallNames /\ x[1] # "unit" /\ x[2] \in Ids
  <2> DEFINE s == Each(do, Children(i))
             e == <<Step("commit", None)>>
             u == <<Step("begin", None)>> \o s \o e
  <2>1. s \in Fit({}, A, do) BY <1>2, EachFits
  <2>2. u \in Opening(A, do)
    <3>1. Frames(s, do, u) BY DEF Frames
    <3> HIDE DEF s, u
    <3> QED BY <2>1, <3>1, FramedOpens
  <2>3. x = <<do, i, u>> BY <1>10 DEF InTransaction
  <2> HIDE DEF u
  <2> QED BY <2>2, <2>3, CallIs DEF CallNames
<1> QED
  <2>1. CASE \E t \in {{}, Children(i)} : x = <<"add", i, Adding(i, t)>> BY <2>1, <1>5 DEF A
  <2>2. CASE \E e \in Entities(c, i) :
                \/ x = <<"update", i, Updating(i, "write", e)>>
                \/ x = <<"upsert", i, <<Step("find", i), With("upsert", i, e)>> >>
                \/ x = <<"remove", i, Removing(i, e)>>
                \/ x = <<"hardRemove", i, <<With("hardRemove", i, e)>> >>
    <3> PICK e \in Entities(c, i) :
                \/ x = <<"update", i, Updating(i, "write", e)>>
                \/ x = <<"upsert", i, <<Step("find", i), With("upsert", i, e)>> >>
                \/ x = <<"remove", i, Removing(i, e)>>
                \/ x = <<"hardRemove", i, <<With("hardRemove", i, e)>> >>
      BY <2>2
    <3> QED BY <1>6 DEF A
  <2>3. CASE \E do \in {"removeWhere", "restoreWhere", "hardRemoveWhere", "bulkDelete"}, k \in HasMany[KindOf[i]] :
                x = <<"where", i, <<With(do, i, k)>> >>
    <3> PICK do \in {"removeWhere", "restoreWhere", "hardRemoveWhere", "bulkDelete"}, k \in HasMany[KindOf[i]] :
                x = <<"where", i, <<With(do, i, k)>> >>
      BY <2>3
    <3> QED BY <1>9 DEF A
  <2>4. CASE \E do \in {"bulkInsert", "bulkUpdate", "bulkUpsert"} :
                x = <<do, i, InTransaction(Each(do, Children(i)))>>
    <3> PICK do \in {"bulkInsert", "bulkUpdate", "bulkUpsert"} : x = <<do, i, InTransaction(Each(do, Children(i)))>>
      BY <2>4
    <3> QED BY <1>10 DEF A
  <2> QED BY <1>1, <1>4, <1>7, <1>8, <2>1, <2>2, <2>3, <2>4

(* ------------------------------ kinds of steps ---------------------------- *)

LEMMA NowIs ==
  ASSUME TypeInv, NEW c \in Clients, todo[c] # <<>>
  PROVE  /\ Now(c) = todo[c][1] /\ 1 \in DOMAIN todo[c] /\ Now(c) \in Steps
         /\ Now(c).do \in Doings /\ Now(c).id \in Ids \cup {None} /\ FitArg(Now(c)) /\ Now(c).opt \in BOOLEAN
         /\ Tail(todo[c]) \in Seq(Steps)
<1>1. todo[c] \in Seq(Steps) BY DEF TypeInv
<1>2. Now(c) = todo[c][1] /\ 1 \in DOMAIN todo[c] /\ Tail(todo[c]) \in Seq(Steps) BY <1>1 DEF Now
<1>3. Now(c) \in Steps BY <1>1, <1>2
<1> QED BY <1>2, <1>3 DEF Steps

LEMMA ThenGoes ==
  ASSUME TypeInv, NEW c \in Clients, todo[c] # <<>>, NEW steps \in Seq(Steps), Then(c, steps)
  PROVE  Goes(c, steps, {})
<1> DEFINE rest == steps \o Tail(todo[c])
<1>1. rest \in Seq(Steps) BY NowIs
<1>2. todo \in [Clients -> Seq(Steps)] /\ call \in [Clients -> Ended] BY DEF TypeInv
<1>3. /\ todo' = [todo EXCEPT ![c] = rest]
      /\ call' = IF rest = <<>> THEN [call EXCEPT ![c].end = "resolved"] ELSE call
  BY DEF Then
<1> HIDE DEF rest
<1>4. todo' \in [Clients -> Seq(Steps)] /\ todo'[c] = rest /\ \A d \in Clients : d # c => todo'[d] = todo[d]
  BY <1>1, <1>2, <1>3
<1>5. /\ call' \in [Clients -> Ended] /\ \A d \in Clients : d # c => call'[d] = call[d]
      /\ call'[c].n = call[c].n /\ call'[c].op = call[c].op /\ call'[c].id = call[c].id
      /\ call'[c].missed = call[c].missed /\ call'[c].undone = call[c].undone
      /\ call'[c].end = IF rest = <<>> THEN "resolved" ELSE call[c].end
  BY <1>2, <1>3 DEF Ended
<1> QED BY <1>4, <1>5 DEF Goes, rest

LEMMA MissingGoes ==
  ASSUME TypeInv, NEW c \in Clients, todo[c] # <<>>, NEW i \in Ids, NEW steps \in Seq(Steps), Missing(c, i, steps)
  PROVE  Goes(c, steps, {i}) /\ UNCHANGED <<db, saved, tx, poisoned, seen, loose, meanwhile>>
<1> DEFINE rest == steps \o Tail(todo[c])
<1>1. rest \in Seq(Steps) BY NowIs
<1>2. todo \in [Clients -> Seq(Steps)] /\ call \in [Clients -> Ended] BY DEF TypeInv
<1>3. /\ todo' = [todo EXCEPT ![c] = rest]
      /\ call' = [call EXCEPT ![c].missed = @ \cup {i}, ![c].end = IF rest = <<>> THEN "resolved" ELSE @]
      /\ UNCHANGED <<db, saved, tx, poisoned, seen, loose, meanwhile>>
  BY DEF Missing
<1> HIDE DEF rest
<1>4. todo' \in [Clients -> Seq(Steps)] /\ todo'[c] = rest /\ \A d \in Clients : d # c => todo'[d] = todo[d]
  BY <1>1, <1>2, <1>3
<1>5. /\ call' \in [Clients -> Ended] /\ \A d \in Clients : d # c => call'[d] = call[d]
      /\ call'[c].n = call[c].n /\ call'[c].op = call[c].op /\ call'[c].id = call[c].id
      /\ call'[c].missed = call[c].missed \cup {i} /\ call'[c].undone = call[c].undone
      /\ call'[c].end = IF rest = <<>> THEN "resolved" ELSE call[c].end
  BY <1>2, <1>3 DEF Ended
<1> QED BY <1>3, <1>4, <1>5 DEF Goes, rest

LEMMA ThrowThrows ==
  ASSUME TypeInv, NEW c \in Clients, todo[c] # <<>>, Now(c).do \notin {"emit", "clear"}, tx \in {None, c},
         Throw(c), Unmoved, faults' \in Nat, faults <= faults'
  PROVE  Throws(c)
<1>2. todo \in [Clients -> Seq(Steps)] /\ call \in [Clients -> Ended] BY DEF TypeInv
<1>3. todo' = [todo EXCEPT ![c] = <<>>] /\ call' = [call EXCEPT ![c].end = "rejected"] BY DEF Throw
<1>4. todo' \in [Clients -> Seq(Steps)] /\ todo'[c] = <<>> /\ \A d \in Clients : d # c => todo'[d] = todo[d]
  BY <1>2, <1>3
<1>5. /\ call' \in [Clients -> Ended] /\ \A d \in Clients : d # c => call'[d] = call[d]
      /\ call'[c].n = call[c].n /\ call'[c].op = call[c].op /\ call'[c].id = call[c].id
      /\ call'[c].missed = call[c].missed /\ call'[c].undone = call[c].undone /\ call'[c].end = "rejected"
  BY <1>2, <1>3 DEF Ended
<1> QED BY <1>4, <1>5 DEF Throw, Throws

LEMMA StoreIs ==
  ASSUME TypeInv, NEW c \in Clients, NEW rows \in Rows, NEW mine \in SUBSET Ids, Store(c, rows, mine)
  PROVE  /\ UNCHANGED <<saved, tx, poisoned>> /\ db' \in Databases /\ db'.rows = rows /\ db'.trail = db.trail
         /\ db'.changed = db.changed \cup {<<call[c].n, i>> : i \in mine}
         /\ \A p \in db'.swept : p \in db.swept \/ p[1] = call[c].n
         /\ meanwhile' \in [Clients -> SUBSET Ids] /\ meanwhile'[c] = meanwhile[c]
         /\ \A d \in Clients : d # c => meanwhile'[d] = meanwhile[d] \cup {i \in Ids : db'.rows[i] # db.rows[i]}
<1>1. db \in Databases /\ meanwhile \in [Clients -> SUBSET Ids] /\ call[c].n \in Nat BY DEF TypeInv, Ended
<1> DEFINE J == {j \in Ids \ mine : rows[j] # db.rows[j]}
           Q == {<<call[c].n, i>> : i \in J}
<1>2. db' = [db EXCEPT !.rows = rows, !.changed = @ \cup {<<call[c].n, i>> : i \in mine}, !.swept = @ \cup Q] BY DEF Store
<1>3. /\ db'.rows = rows /\ db'.trail = db.trail /\ db'.changed = db.changed \cup {<<call[c].n, i>> : i \in mine}
      /\ db' \in Databases /\ \A p \in db'.swept : p \in db.swept \/ p[1] = call[c].n
  <2> DEFINE P == {<<call[c].n, i>> : i \in mine}
  <2>1. P \subseteq Nat \X Ids BY <1>1
  <2>2. J \subseteq Ids OBVIOUS
  <2>3. Q \subseteq Nat \X Ids /\ \A p \in Q : p[1] = call[c].n
    <3> HIDE DEF J
    <3> QED BY <1>1, <2>2
  <2>4. db' = [db EXCEPT !.rows = rows, !.changed = @ \cup P, !.swept = @ \cup Q] BY <1>2
  <2> HIDE DEF P, Q
  <2>5. db'.rows = rows /\ db'.trail = db.trail /\ db'.changed = db.changed \cup P /\ db'.swept = db.swept \cup Q /\ db' \in Databases
    BY <1>1, <2>1, <2>3, <2>4 DEF Databases
  <2> QED BY <2>3, <2>5 DEF P
<1>4. meanwhile' = [d \in Clients |-> IF d = c THEN meanwhile[d] ELSE
                        meanwhile[d] \cup {i \in Ids : rows[i] # db.rows[i]}] BY DEF Store
<1> QED BY <1>1, <1>3, <1>4 DEF Store

LEMMA NothingStored ==
  ASSUME TypeInv, NEW c \in Clients, tx \in {None, c}, UNCHANGED <<db, saved, tx, poisoned, loose, meanwhile>>,
         faults' \in Nat, faults <= faults'
  PROVE  Stores(c, {})
<1>1. db \in Databases /\ meanwhile \in [Clients -> SUBSET Ids] /\ loose \in SUBSET Ids /\ poisoned \in BOOLEAN
  BY DEF TypeInv
<1>2. Growing(db.rows, db'.rows) BY DEF Growing
<1>3. {<<call[c].n, i>> : i \in {}} = {} OBVIOUS
<1>4. \A d \in Clients : meanwhile'[d] = meanwhile[d] \cup {i \in Ids : db'.rows[i] # db.rows[i]} OBVIOUS
<1> QED BY <1>1, <1>2, <1>3, <1>4 DEF Stores

LEMMA RowsStored ==
  ASSUME TypeInv, NEW c \in Clients, tx \in {None, c}, NEW rows \in Rows, NEW mine \in SUBSET Ids, Store(c, rows, mine),
         Growing(db.rows, rows), loose \subseteq loose', loose' \in SUBSET Ids, faults' = faults
  PROVE  Stores(c, mine) /\ db'.rows = rows /\ db'.changed = db.changed \cup {<<call[c].n, i>> : i \in mine}
<1>1. /\ UNCHANGED <<saved, tx, poisoned>> /\ db' \in Databases /\ db'.rows = rows /\ db'.trail = db.trail
      /\ db'.changed = db.changed \cup {<<call[c].n, i>> : i \in mine}
      /\ \A p \in db'.swept : p \in db.swept \/ p[1] = call[c].n
      /\ meanwhile' \in [Clients -> SUBSET Ids] /\ meanwhile'[c] = meanwhile[c]
      /\ \A d \in Clients : d # c => meanwhile'[d] = meanwhile[d] \cup {i \in Ids : db'.rows[i] # db.rows[i]}
  BY StoreIs
<1>2. faults \in Nat /\ poisoned \in BOOLEAN BY DEF TypeInv
<1> QED BY <1>1, <1>2 DEF Stores

\* What is said of a row is backed once its call changed it or missed it.
LEMMA TouchedIs ==
  ASSUME NEW c, NEW mine \in SUBSET Ids, NEW miss, call'[c].n = call[c].n, call'[c].missed = call[c].missed \cup miss,
         db'.changed = db.changed \cup {<<call[c].n, i>> : i \in mine}
  PROVE  mine \cup miss \subseteq Touched(c)' /\ Touched(c) \subseteq Touched(c)'
BY DEF Touched, Changed

\* A step that reads.
LEMMA ReadAdvances ==
  ASSUME TypeInv, NEW c \in Clients, todo[c] # <<>>, tx \in {None, c}, NEW steps, Read(c, steps), faults' \in Nat, faults <= faults', Unmoved,
         steps \in Fit(Touched(c)', Passed(c), call[c].op),
         Now(c).do \notin Frame \cup {"emit", "tell", "find", "add"}, ~IsWrite(Now(c)),
         Now(c).do = "audit" => poisoned, Now(c).do = "reload" => Visible(c, Now(c).id)
  PROVE  Went(c)
<1>1. steps \in Seq(Steps) BY DEF Fit
<1>2. UNCHANGED <<db, saved, tx, poisoned, seen, loose, meanwhile>> /\ Goes(c, steps, {}) BY <1>1, ThenGoes DEF Read
<1>3. Stores(c, {}) BY <1>2, NothingStored
<1>4. Sees(c) BY <1>2 DEF Sees, TypeInv
<1>5. Fits(c, steps) BY DEF Fits
<1>6. Owes(c, steps, {}) BY DEF Owes, IsWrite
<1>7. Advances(c, steps, {}, {}) BY <1>2, <1>3, <1>4, <1>5, <1>6 DEF Advances
<1> QED BY <1>7 DEF Went

LEMMA RowIs ==
  ASSUME TypeInv, NEW i \in Ids
  PROVE  /\ db.rows \in Rows /\ db.rows[i] \in Stored \cup {None}
         /\ db.rows[i] # None => /\ db.rows[i] \in Stored /\ db.rows[i].version \in Nat /\ db.rows[i].by \in Nat
                                 /\ db.rows[i].deleted \in BOOLEAN
BY DEF TypeInv, Databases, Rows, Stored

LEMMA FindGoes == ASSUME TypeInv, NEW c \in Clients, Find(c), UNCHANGED faults, Unmoved PROVE Went(c)
<1>1. todo[c] # <<>> /\ Now(c).do = "find" /\ tx \in {None, c} /\ Then(c, <<>>) /\ UNCHANGED <<db, saved, tx, poisoned, loose, meanwhile>>
  BY DEF Find, At
<1>2. Now(c).id \in Ids BY <1>1, NowIs DEF FitArg, Frame
<1>3. Goes(c, <<>>, {})
  <2>1. <<>> \in Seq(Steps) OBVIOUS
  <2> QED BY <1>1, <2>1, ThenGoes
<1>4. Stores(c, {}) BY <1>1, NothingStored DEF TypeInv
<1>5. Sees(c)
  <2>1. seen \in [Clients -> Stored \cup {None}] BY DEF TypeInv
  <2>2. (IF Visible(c, Now(c).id) THEN db.rows[Now(c).id] ELSE None) \in Stored \cup {None} BY <1>2, RowIs
  <2>3. seen' = [seen EXCEPT ![c] = IF Visible(c, Now(c).id) THEN db.rows[Now(c).id] ELSE None] BY DEF Find
  <2> QED BY <1>1, <2>1, <2>2, <2>3 DEF Sees
<1>6. Fits(c, <<>>) BY <1>1, NothingFits DEF Fits, Frame, IsWrite
<1>7. Owes(c, <<>>, {}) BY <1>1 DEF Owes
<1>8. Advances(c, <<>>, {}, {}) BY <1>3, <1>4, <1>5, <1>6, <1>7 DEF Advances
<1> QED BY <1>8 DEF Went

LEMMA ReloadGoes == ASSUME TypeInv, NEW c \in Clients, Reload(c), UNCHANGED faults, Unmoved PROVE Went(c)
<1>1. todo[c] # <<>> /\ Now(c).do = "reload" /\ tx \in {None, c} BY DEF Reload, At
<1>2. faults \in Nat BY DEF TypeInv
<1>3. CASE Visible(c, Now(c).id)
  <2>1. Read(c, <<>>) BY <1>3 DEF Reload
  <2>2. <<>> \in Fit(Touched(c)', Passed(c), call[c].op) BY NothingFits
  <2>3. Now(c).do \notin Frame \cup {"emit", "tell", "find", "add"} /\ ~IsWrite(Now(c)) BY <1>1 DEF Frame, IsWrite
  <2>4. faults' \in Nat /\ faults <= faults' BY <1>2
  <2>5. (Now(c).do = "audit" => poisoned) /\ (Now(c).do = "reload" => Visible(c, Now(c).id)) BY <1>1, <1>3
  <2> QED BY <1>1, <2>1, <2>2, <2>3, <2>4, <2>5, ReadAdvances, Zenon
<1>4. CASE ~Visible(c, Now(c).id)
  <2>1. Throw(c) BY <1>4 DEF Reload
  <2> QED BY <1>1, <1>2, <2>1, ThrowThrows DEF Went
<1> QED BY <1>3, <1>4
LEMMA ReadGoes ==
  ASSUME TypeInv, NEW c \in Clients, todo[c] # <<>>, tx \in {None, c}, NEW steps, Read(c, steps), UNCHANGED faults, Unmoved,
         steps \in Fit(Touched(c)', Passed(c), call[c].op),
         Now(c).do \notin Frame \cup {"emit", "tell", "find", "add", "audit", "reload", "write", "stamp"}
  PROVE  Went(c)
<1>1. faults' \in Nat /\ faults <= faults' BY DEF TypeInv
<1>2. Now(c).do \notin Frame \cup {"emit", "tell", "find", "add"} /\ ~IsWrite(Now(c)) BY DEF IsWrite
<1>3. (Now(c).do = "audit" => poisoned) /\ (Now(c).do = "reload" => Visible(c, Now(c).id)) OBVIOUS
<1> QED BY <1>1, <1>2, <1>3, ReadAdvances, Zenon

LEMMA StoreAdvances ==
  ASSUME TypeInv, NEW c \in Clients, todo[c] # <<>>, tx \in {None, c},
         NEW rows \in Rows, NEW mine \in SUBSET Ids, Store(c, rows, mine),
         Growing(db.rows, rows), loose \subseteq loose', loose' \in SUBSET Ids,
         UNCHANGED <<seen, faults>>, Unmoved, NEW steps, Then(c, steps),
         steps \in Fit(Touched(c)', Passed(c), call[c].op),
         Now(c).do \notin Frame \cup {"emit", "tell", "find", "audit", "reload"},
         Now(c).do \in {"add", "write", "stamp"} => Now(c).id \in mine,
         \A i \in mine : \/ Promises(todo'[c], i)
                         \/ call[c].op = "hardRemove"
                         \/ call[c].op \in Unaudited /\ \E n \in DOMAIN todo'[c] : todo'[c][n].do = "emit" /\ todo'[c][n].id = i
  PROVE  Went(c)
<1>1. steps \in Seq(Steps) BY DEF Fit
<1>2. Goes(c, steps, {}) BY <1>1, ThenGoes
<1>3. Stores(c, mine) /\ db'.changed = db.changed \cup {<<call[c].n, i>> : i \in mine} BY RowsStored
<1>4. Sees(c) BY DEF Sees, TypeInv
<1>5. mine \subseteq Touched(c)'
  <2>1. call'[c].n = call[c].n /\ call'[c].missed = call[c].missed \cup {} BY <1>2 DEF Goes
  <2>2. mine \cup {} \subseteq Touched(c)' BY <1>3, <2>1, TouchedIs
  <2> QED BY <2>2
<1>6. Fits(c, steps) BY <1>5 DEF Fits, IsWrite
<1>7. Owes(c, steps, mine) BY DEF Owes, Promises, Unaudited
<1>8. Advances(c, steps, {}, mine) BY <1>2, <1>3, <1>4, <1>6, <1>7 DEF Advances
<1> QED BY <1>8 DEF Went

LEMMA MissAdvances ==
  ASSUME TypeInv, NEW c \in Clients, todo[c] # <<>>, tx \in {None, c}, NEW i \in Ids, i = Now(c).id,
         NEW steps, Missing(c, i, steps), UNCHANGED faults, Unmoved,
         steps \in Fit(Touched(c)', Passed(c), call[c].op),
         Now(c).do \notin Frame \cup {"emit", "tell", "find", "audit", "reload", "add"},
         Now(c).do = "write" => steps = <<>> /\ ~Matches(c, i)
  PROVE  Went(c)
<1>1. steps \in Seq(Steps) BY DEF Fit
<1>2. Goes(c, steps, {i}) /\ UNCHANGED <<db, saved, tx, poisoned, seen, loose, meanwhile>> BY <1>1, MissingGoes
<1>3. faults' \in Nat /\ faults <= faults' BY DEF TypeInv
<1>4. Stores(c, {}) BY <1>2, <1>3, NothingStored
<1>5. Sees(c) BY <1>2 DEF Sees, TypeInv
<1>6. i \in Touched(c)' BY <1>2 DEF Goes, Touched
<1>7. Fits(c, steps) BY <1>6 DEF Fits
<1>8. Now(c).do = "write" => ~Visible(c, i)'
  <2>1. db' = db /\ model' = model BY <1>2 DEF Unmoved
  <2>2. Now(c).do = "write" => ~Visible(c, i) BY DEF Visible
  <2>3. Visible(c, i)' <=> Visible(c, i) BY <2>1 DEF Visible, Matches
  <2> QED BY <2>2, <2>3
<1>9. Owes(c, steps, {}) BY <1>8 DEF Owes
<1>10. Advances(c, steps, {i}, {}) BY <1>2, <1>4, <1>5, <1>7, <1>9 DEF Advances
<1> QED BY <1>10 DEF Went

LEMMA RestHas ==
  ASSUME NEW s, NEW t, NEW u, IsRest(s, t, u)
  PROVE  /\ \A m \in DOMAIN s : m > 1 => \E n \in DOMAIN u : u[n] = s[m]
         /\ \A m \in DOMAIN t : \E n \in DOMAIN u : u[n] = t[m]
         /\ \A n \in DOMAIN u : (\E m \in DOMAIN t : u[n] = t[m]) \/ \E m \in DOMAIN s : m > 1 /\ u[n] = s[m]
<1>1. /\ DOMAIN t = 1 .. Len(t) /\ DOMAIN s = 1 .. Len(s) /\ DOMAIN u = 1 .. Len(u) /\ Len(t) \in Nat
      /\ \A n \in DOMAIN t : n \in DOMAIN u /\ u[n] = t[n]
      /\ \A n \in DOMAIN s : n > 1 => Len(t) + n - 1 \in DOMAIN u /\ u[Len(t) + n - 1] = s[n]
      /\ \A n \in DOMAIN u : \/ n \in DOMAIN t
                             \/ n > Len(t) /\ n - Len(t) + 1 \in DOMAIN s /\ u[n] = s[n - Len(t) + 1]
  BY Spliced DEF IsRest
<1>2. ASSUME NEW n \in DOMAIN u, n \notin DOMAIN t PROVE \E m \in DOMAIN s : m > 1 /\ u[n] = s[m]
  <2>1. n - Len(t) + 1 \in DOMAIN s /\ n - Len(t) + 1 > 1 /\ u[n] = s[n - Len(t) + 1] BY <1>1, <1>2
  <2> QED BY <2>1
<1> QED BY <1>1, <1>2

LEMMA Announces ==
  ASSUME NEW i \in Ids, NEW act \in Acts, NEW s \in Seq(Steps), NEW t \in Seq(Steps), NEW v, v = (s \o Ending(i, act)) \o t
  PROVE  Promises(v, i)
<1> DEFINE e == Ending(i, act)
           u == s \o e
<1>1. e \in Seq(Steps)
  <2>1. e \in Fit({i}, {}, "none") BY EndingFits
  <2> QED BY <2>1 DEF Fit
<1>2. /\ \E n \in DOMAIN e : e[n].do = "emit" /\ e[n].id = i
      /\ Audited(i) => \E n \in DOMAIN e : e[n].do = "audit" /\ e[n].id = i
  BY EndingHas
<1>3. u = s \o e /\ v = u \o t OBVIOUS
<1> HIDE DEF e, u
<1>4. u \in Seq(Steps) /\ \A n \in DOMAIN e : Len(s) + n \in DOMAIN u /\ u[Len(s) + n] = e[n] BY <1>1, <1>3, Joined
<1>5. \A n \in DOMAIN u : n \in DOMAIN v /\ v[n] = u[n] BY <1>3, <1>4, Joined
<1>6. \A n \in DOMAIN e : \E m \in DOMAIN v : v[m] = e[n] BY <1>4, <1>5
<1> QED BY <1>2, <1>6 DEF Promises

LEMMA NewRowIs ==
  ASSUME TypeInv, NEW c \in Clients, NEW i \in Ids, NEW t \in Tenants \cup {None}, NEW v \in Nat
  PROVE  NewRow(c, i, t, v) \in Stored
<1>1. call[c].n \in Nat BY DEF TypeInv, Ended
<1> QED BY <1>1 DEF NewRow, Stored

LEMMA AddGoes == ASSUME TypeInv, NEW c \in Clients, Add(c), UNCHANGED faults, Unmoved PROVE Went(c)
<1> DEFINE i == Now(c).id
           nested == {d \in Now(c).arg : OwnerOf[d] = i /\ KindOf[d] \in HasMany[KindOf[i]]}
           s == [n \in 1 .. Cardinality(nested) |-> With("add", SetToSeq(nested)[n], Now(c).arg)]
           steps == s \o Ending(i, "created")
           rows == [db.rows EXCEPT ![i] = NewRow(c, i, Tenant[c], 1)]
           Z == Touched(c)'
           A == Passed(c)
<1>1. todo[c] # <<>> /\ Now(c).do = "add" /\ tx \in {None, c} BY DEF Add, At
<1>2. i \in Ids /\ Now(c).arg \in SUBSET Ids BY <1>1, NowIs DEF FitArg, Frame
<1>3. CASE ~Insertable(i)
  <2>1. Throw(c) BY <1>3 DEF Add
  <2>2. faults' \in Nat /\ faults <= faults' BY DEF TypeInv
  <2> QED BY <1>1, <2>1, <2>2, ThrowThrows DEF Went
<1>4. CASE Insertable(i)
  <2>1. Store(c, rows, {i}) /\ Then(c, steps) /\ UNCHANGED <<seen, loose>> BY <1>4 DEF Add
  <2>2. db.rows[i] = None /\ db.rows \in Rows BY <1>2, <1>4, RowIs DEF Insertable
  <2>3. NewRow(c, i, Tenant[c], 1) \in Stored
    <3>1. Tenant[c] \in Tenants \cup {None} BY ClientsAssumption
    <3> QED BY <1>2, <3>1, NewRowIs
  <2>4. rows \in Rows BY <2>2, <2>3, <1>2 DEF Rows
  <2>5. Growing(db.rows, rows) BY <2>2, <1>2 DEF Growing, Rows
  <2>6. nested \in SUBSET Ids BY <1>2
  <2>7. s \in Fit(Z, A, call[c].op) BY <2>6, <1>2, NestedFits
  <2> HIDE DEF s, nested
  <2>8. s \in Seq(Steps) BY <2>7 DEF Fit
  <2>9. Ending(i, "created") \in Seq(Steps)
    <3>1. Ending(i, "created") \in Fit({i}, A, call[c].op) BY <1>2, ArgsAre, EndingFits
    <3> QED BY <3>1 DEF Fit
  <2>10. steps \in Seq(Steps) BY <2>8, <2>9
  <2>11. Goes(c, steps, {}) BY <1>1, <2>1, <2>10, ThenGoes
  <2>12. i \in Z
    <3>1. db'.changed = db.changed \cup {<<call[c].n, j>> : j \in {i}} BY <2>1, <2>4, <1>2, StoreIs
    <3>2. call'[c].n = call[c].n /\ call'[c].missed = call[c].missed \cup {} BY <2>11 DEF Goes
    <3>3. {i} \in SUBSET Ids BY <1>2
    <3>4. {i} \cup {} \subseteq Z BY <3>1, <3>2, <3>3, TouchedIs
    <3> QED BY <3>4
  <2>13. steps \in Fit(Z, A, call[c].op)
    <3>1. Ending(i, "created") \in Fit(Z, A, call[c].op) BY <1>2, <2>12, ArgsAre, EndingFits
    <3> QED BY <2>7, <3>1, FitJoins
  <2>14. Promises(todo'[c], i)
    <3>1. todo'[c] = (s \o Ending(i, "created")) \o Tail(todo[c]) BY <2>11 DEF Goes
    <3>2. Tail(todo[c]) \in Seq(Steps) BY <1>1, NowIs
    <3> QED BY <1>2, <2>8, <3>1, <3>2, ArgsAre, Announces
  <2>15. Now(c).do \notin Frame \cup {"emit", "tell", "find", "audit", "reload"} /\ loose \subseteq loose' /\ loose' \in SUBSET Ids
    BY <1>1, <2>1 DEF Frame, TypeInv
  <2>16. {i} \in SUBSET Ids BY <1>2
  <2> HIDE DEF rows, steps
  <2> QED BY <1>1, <2>1, <2>4, <2>5, <2>13, <2>14, <2>15, <2>16, StoreAdvances
<1> QED BY <1>3, <1>4

LEMMA WriteGoes == ASSUME TypeInv, NEW c \in Clients, CallInv(c), Write(c), UNCHANGED faults, Unmoved PROVE Went(c)
<1> DEFINE i == Now(c).id
           rows == [db.rows EXCEPT ![i].version = NextVersion(c), ![i].by = call[c].n,
                                   ![i].deleted = @ \/ Now(c).do = "stamp"]
           Z == Touched(c)'
           A == Passed(c)
<1>1. todo[c] # <<>> /\ Now(c).do \in {"write", "stamp"} /\ tx \in {None, c} BY DEF Write, At
<1>2. i \in Ids /\ Now(c).arg \in Stored \cup {None} BY <1>1, NowIs DEF FitArg, Frame, Carries
<1>3. Against(c) \in Stored \cup {None}
  <2>1. seen[c] \in Stored \cup {None} BY DEF TypeInv
  <2> QED BY <1>2, <2>1 DEF Against
<1>4. faults' \in Nat /\ faults <= faults' BY DEF TypeInv
<1>5. <<>> \in Fit(Z, A, call[c].op) BY NothingFits
<1>6. Now(c).do \notin Frame \cup {"emit", "tell", "find", "audit", "reload", "add"} BY <1>1 DEF Frame
<1>7. CASE Lands(c)
  <2>1. Store(c, rows, {i}) /\ loose' = (IF Against(c) = None THEN loose \cup {i} ELSE loose) /\ Then(c, <<>>) /\ UNCHANGED seen
    BY <1>7 DEF Write
  <2>2. db.rows \in Rows /\ db.rows[i] \in Stored BY <1>2, <1>7, RowIs DEF Lands, Matches
  <2>3. NextVersion(c) \in Nat BY <1>3 DEF NextVersion, Stored
  <2>4. call[c].n \in Nat BY DEF TypeInv, Ended
  <2> DEFINE r == [db.rows[i] EXCEPT !.version = NextVersion(c), !.by = call[c].n, !.deleted = @ \/ Now(c).do = "stamp"]
  <2>5. r \in Stored /\ r.version = NextVersion(c) BY <2>2, <2>3, <2>4 DEF Stored
  <2>6. rows = [db.rows EXCEPT ![i] = r] BY <2>2, <1>2 DEF Rows
  <2> HIDE DEF r, rows
  <2>7. rows \in Rows /\ rows[i] = r /\ \A j \in Ids : j # i => rows[j] = db.rows[j]
    BY <2>2, <2>5, <2>6, <1>2 DEF Rows
  <2>8. Growing(db.rows, rows)
    <3> SUFFICES ASSUME NEW j \in Ids, Versioned(j), j \notin loose', db.rows[j] # None
                 PROVE  rows[j] # None /\ (rows[j].version > db.rows[j].version \/
                                             (rows[j].version = db.rows[j].version /\ rows[j].by = db.rows[j].by))
      BY DEF Growing
    <3>1. CASE j # i BY <3>1, <2>7
    <3>2. CASE j = i
      <4>1. Against(c) # None BY <2>1, <3>2
      <4>2. NextVersion(c) = Against(c).version + 1 /\ db.rows[i].version = Against(c).version /\ Against(c).version \in Nat
        BY <4>1, <3>2, <1>3, <1>7 DEF NextVersion, Lands, Agrees, Stored
      <4>3. r # None BY <2>5, NoneAssumption
      <4> QED BY <4>2, <4>3, <3>2, <2>5, <2>7
    <3> QED BY <3>1, <3>2
  <2>9. loose \subseteq loose' /\ loose' \in SUBSET Ids BY <2>1, <1>2 DEF TypeInv
  <2>10. Goes(c, <<>>, {})
    <3>1. <<>> \in Seq(Steps) OBVIOUS
    <3> QED BY <1>1, <2>1, <3>1, ThenGoes
  <2>11. todo[c] \in Seq(Steps) /\ Now(c) = todo[c][1] /\ 1 \in DOMAIN todo[c] BY <1>1, NowIs DEF TypeInv
  <2>12. /\ \E m \in DOMAIN todo[c] : m > 1 /\ todo[c][m].do = "emit" /\ todo[c][m].id = i
         /\ Audited(i) => \E m \in DOMAIN todo[c] : m > 1 /\ todo[c][m].do = "audit" /\ todo[c][m].id = i
    BY <2>11, <1>1 DEF CallInv, Reports, IsWrite
  <2>13. todo'[c] = <<>> \o Tail(todo[c]) BY <2>10 DEF Goes
  <2>14. \A m \in DOMAIN todo[c] : m > 1 => \E n \in DOMAIN todo'[c] : todo'[c][n] = todo[c][m]
    <3>2. IsRest(todo[c], <<>>, todo'[c]) BY <1>1, <2>11, <2>13 DEF IsRest
    <3> QED BY <3>2, RestHas
  <2>15. Promises(todo'[c], i) BY <2>12, <2>14 DEF Promises
  <2>16. {i} \in SUBSET Ids BY <1>2
  <2> QED BY <1>1, <1>5, <1>6, <2>1, <2>7, <2>8, <2>9, <2>15, <2>16, StoreAdvances
<1>8. CASE ~Lands(c) /\ Against(c) # None
  <2>1. Throw(c) BY <1>8 DEF Write
  <2> QED BY <1>1, <1>4, <2>1, ThrowThrows DEF Went
<1>9. CASE ~Lands(c) /\ Against(c) = None
  <2>1. Missing(c, i, <<>>) BY <1>9 DEF Write
  <2>2. ~Matches(c, i) BY <1>9 DEF Lands, Agrees
  <2> QED BY <1>1, <1>2, <1>5, <1>6, <2>1, <2>2, MissAdvances
<1> QED BY <1>7, <1>8, <1>9
LEMMA UpsertGoes == ASSUME TypeInv, NEW c \in Clients, Upsert(c), UNCHANGED faults, Unmoved PROVE Went(c)
<1> DEFINE i == Now(c).id
           e == Now(c).arg
           steps == IF seen[c] # None THEN Updating(i, "write", e) ELSE Adding(i, {})
           Z == Touched(c)'
           A == Passed(c)
<1>1. todo[c] # <<>> /\ Now(c).do = "upsert" /\ tx \in {None, c} BY DEF Upsert, At
<1>2. i \in Ids /\ e \in Stored \cup {None} BY <1>1, NowIs DEF FitArg, Frame, Carries
<1>3. Read(c, steps) BY DEF Upsert
<1>4. Updating(i, "write", e) \in Fit(Z, A, call[c].op)
  <2>1. <<i, e>> \in A BY <1>1 DEF Passed, Carries
  <2> QED BY <1>2, <2>1, UpdatingFits
<1>5. Adding(i, {}) \in Fit(Z, A, call[c].op)
  <2>1. {} \in SUBSET Ids OBVIOUS
  <2> QED BY <1>2, <2>1, AddingFits
<1>6. steps \in Fit(Z, A, call[c].op) BY <1>4, <1>5
<1>7. Now(c).do \notin Frame \cup {"emit", "tell", "find", "add", "audit", "reload", "write", "stamp"}
  BY <1>1 DEF Frame
<1> HIDE DEF steps
<1> QED BY <1>1, <1>3, <1>6, <1>7, ReadGoes

LEMMA ThrowGoes ==
  ASSUME TypeInv, NEW c \in Clients, todo[c] # <<>>, Now(c).do \notin {"emit", "clear"}, tx \in {None, c},
         Throw(c), Unmoved, UNCHANGED faults
  PROVE  Went(c)
<1>1. faults' \in Nat /\ faults <= faults' BY DEF TypeInv
<1> QED BY <1>1, ThrowThrows DEF Went

\* A list of one step that says nothing, carries nothing and is no write.
LEMMA QuietStepFits ==
  ASSUME NEW do \in Doings \ ({"tell", "native", "hardRemove", "audit", "emit", "write", "stamp"} \cup Frame),
         NEW i \in Ids, NEW arg \in Args, NEW x,
         x = With(do, i, arg) \/ (arg = None /\ x = Step(do, i)), FitArg([do |-> do, id |-> i, arg |-> arg]),
         arg # None => do \notin {"upsert", "remove"}, NEW Z, NEW A, NEW op
  PROVE  <<x>> \in Fit(Z, A, op)
<1>1. x \in Steps /\ x.do = do /\ x.id = i /\ x.arg = arg BY StepIs
<1>2. x.do \notin Frame \cup {"tell"} /\ ~IsWrite(x) /\ ~Says(x) /\ (Carries(x) => x.arg = None)
      /\ x.do # "native" /\ x.do # "hardRemove"
  BY <1>1 DEF IsWrite, Says, Carries
<1> QED BY <1>1, <1>2, OneFits

\* A row that another one replaces, and a row that goes.
LEMMA RowReplaced ==
  ASSUME TypeInv, NEW i \in Ids, NEW r \in Stored \cup {None}
  PROVE  [db.rows EXCEPT ![i] = r] \in Rows /\ (i \in loose' => Growing(db.rows, [db.rows EXCEPT ![i] = r]))
<1>1. db.rows \in Rows BY RowIs
<1> DEFINE rows == [db.rows EXCEPT ![i] = r]
<1>2. rows \in Rows /\ \A j \in Ids : j # i => rows[j] = db.rows[j] BY <1>1 DEF Rows
<1> HIDE DEF rows
<1>3. i \in loose' => Growing(db.rows, rows) BY <1>2 DEF Growing
<1> QED BY <1>2, <1>3 DEF rows

LEMMA NativeGoes == ASSUME TypeInv, NEW c \in Clients, CallInv(c), Native(c), UNCHANGED faults, Unmoved
                    PROVE Went(c)
<1> DEFINE i == Now(c).id
           r == IF db.rows[i] = None THEN NewRow(c, i, None, 0) ELSE [db.rows[i] EXCEPT !.by = call[c].n]
           rows == [db.rows EXCEPT ![i] = r]
           steps == Emitting(i, "updated")
           Z == Touched(c)'
           A == Passed(c)
<1>1. todo[c] # <<>> /\ Now(c).do = "native" /\ tx \in {None, c} BY DEF Native, At
<1>2. i \in Ids BY <1>1, NowIs DEF FitArg, Frame
<1>3. call[c].op = "nativeUpsert" BY <1>1, NowIs DEF CallInv, Belong
<1>4. CASE db.rows[i] = None /\ ~Insertable(i)
  <2>1. CASE Now(c).opt
    <3>1. Throw(c) BY <1>4, <2>1 DEF Native
    <3> QED BY <1>1, <3>1, ThrowGoes
  <2>2. CASE ~Now(c).opt
    <3> DEFINE x == Again("native", i)
    <3>1. Read(c, <<x>>) BY <1>4, <2>2 DEF Native
    <3>2. x \in Steps /\ x.do = "native" /\ x.id = i /\ x.arg = None
      BY <1>2, ArgsAre, StepIs DEF Doings, FitArg, Carries, OfKind, Frame
    <3> HIDE DEF x
    <3>3. <<x>> \in Fit(Z, A, call[c].op) BY <1>3, <3>2, OneFits DEF Frame, IsWrite, Says, Carries
    <3>4. Now(c).do \notin Frame \cup {"emit", "tell", "find", "add", "audit", "reload", "write", "stamp"}
      BY <1>1 DEF Frame
    <3> QED BY <1>1, <3>1, <3>3, <3>4, ReadGoes
  <2> QED BY <2>1, <2>2
<1>5. CASE ~(db.rows[i] = None /\ ~Insertable(i))
  <2>0. db.rows \in Rows /\ db.rows[i] \in Stored \cup {None} BY <1>2, RowIs
  <2>1. Store(c, rows, {i}) /\ loose' = loose \cup {i} /\ Then(c, steps) /\ UNCHANGED seen
    <3>1. rows = [db.rows EXCEPT ![i] = IF @ = None THEN NewRow(c, i, None, 0) ELSE [@ EXCEPT !.by = call[c].n]]
      BY <1>2, <2>0 DEF Rows
    <3>2. /\ Store(c, [db.rows EXCEPT ![i] = IF @ = None THEN NewRow(c, i, None, 0) ELSE [@ EXCEPT !.by = call[c].n]], {i})
          /\ loose' = loose \cup {i} /\ Then(c, steps) /\ UNCHANGED seen
      BY <1>5 DEF Native
    <3> HIDE DEF rows
    <3> QED BY <3>1, <3>2
  <2>2. r \in Stored
    <3>1. CASE db.rows[i] = None BY <3>1, <1>2, NewRowIs
    <3>2. CASE db.rows[i] # None
      <4>1. call[c].n \in Nat BY DEF TypeInv, Ended
      <4> QED BY <3>2, <2>0, <4>1 DEF Stored
    <3> QED BY <3>1, <3>2
  <2> HIDE DEF r
  <2>3. rows \in Rows /\ Growing(db.rows, rows) BY <1>2, <2>1, <2>2, RowReplaced
  <2> HIDE DEF rows
  <2>4. steps \in Seq(Steps)
    <3>1. steps \in Fit({i}, A, call[c].op) BY <1>2, ArgsAre, EndingFits
    <3> QED BY <3>1 DEF Fit
  <2>5. Goes(c, steps, {}) BY <1>1, <2>1, <2>4, ThenGoes
  <2>6. i \in Z
    <3>1. db'.changed = db.changed \cup {<<call[c].n, j>> : j \in {i}} BY <2>1, <2>3, <1>2, StoreIs
    <3>2. call'[c].n = call[c].n /\ call'[c].missed = call[c].missed \cup {} BY <2>5 DEF Goes
    <3>3. {i} \in SUBSET Ids BY <1>2
    <3>4. {i} \cup {} \subseteq Z BY <3>1, <3>2, <3>3, TouchedIs
    <3> QED BY <3>4
  <2>7. steps \in Fit(Z, A, call[c].op) BY <1>2, <2>6, ArgsAre, EndingFits
  <2>8. \E n \in DOMAIN todo'[c] : todo'[c][n].do = "emit" /\ todo'[c][n].id = i
    <3>1. IsRest(todo[c], steps, todo'[c]) BY <1>1, <2>4, <2>5 DEF IsRest, Goes, TypeInv
    <3>2. 1 \in DOMAIN steps /\ steps[1].do = "emit" /\ steps[1].id = i
      <4> DEFINE x == With("emit", i, "updated")
      <4>1. x.do = "emit" /\ x.id = i BY DEF With, Step
      <4>2. steps = <<x>> BY DEF Emitting
      <4> HIDE DEF x, steps
      <4> QED BY <4>1, <4>2
    <3> HIDE DEF steps
    <3> QED BY <3>1, <3>2, RestHas
  <2>9. Now(c).do \notin Frame \cup {"emit", "tell", "find", "audit", "reload"} /\ loose \subseteq loose' /\ loose' \in SUBSET Ids
        /\ Now(c).do \notin {"add", "write", "stamp"}
    BY <1>1, <1>2, <2>1 DEF Frame, TypeInv
  <2>10. {i} \in SUBSET Ids /\ call[c].op \in Unaudited BY <1>2, <1>3 DEF Unaudited
  <2> HIDE DEF steps
  <2> QED BY <1>1, <2>1, <2>3, <2>7, <2>8, <2>9, <2>10, StoreAdvances
<1> QED BY <1>4, <1>5
\* After a statement about row i its call may speak of i.
LEMMA StoreTouches ==
  ASSUME TypeInv, NEW c \in Clients, todo[c] # <<>>, NEW i \in Ids, NEW steps \in Seq(Steps),
         \/ Missing(c, i, steps)
         \/ Then(c, steps) /\ \E rows \in Rows : Store(c, rows, {i})
  PROVE  i \in Touched(c)'
<1>1. CASE Missing(c, i, steps)
  <2>1. Goes(c, steps, {i}) BY <1>1, MissingGoes
  <2> QED BY <2>1 DEF Goes, Touched
<1>2. CASE Then(c, steps) /\ \E rows \in Rows : Store(c, rows, {i})
  <2>1. PICK rows \in Rows : Store(c, rows, {i}) BY <1>2
  <2>2. {i} \in SUBSET Ids OBVIOUS
  <2>3. db'.changed = db.changed \cup {<<call[c].n, j>> : j \in {i}} BY <2>1, <2>2, StoreIs
  <2>4. Goes(c, steps, {}) BY <1>2, ThenGoes
  <2>5. call'[c].n = call[c].n /\ call'[c].missed = call[c].missed \cup {} BY <2>4 DEF Goes
  <2>6. {i} \cup {} \subseteq Touched(c)' BY <2>2, <2>3, <2>5, TouchedIs
  <2> QED BY <2>6
<1> QED BY <1>1, <1>2

LEMMA EndingIs ==
  ASSUME NEW i \in Ids, NEW act \in Acts
  PROVE  Ending(i, act) \in Seq(Steps) /\ (<<>> \o Ending(i, act) = Ending(i, act))
<1>1. Ending(i, act) \in Fit({i}, {}, "none") BY EndingFits
<1> QED BY <1>1 DEF Fit

LEMMA DeleteGoes ==
  ASSUME TypeInv, NEW c \in Clients, todo[c] # <<>>, tx \in {None, c}, Now(c).do \in {"hardRemove", "remove"},
         NEW steps, Delete(c, steps), UNCHANGED faults, Unmoved,
         (steps = <<>> /\ call[c].op = "hardRemove") \/ steps = Ending(Now(c).id, "deleted")
  PROVE  Went(c)
<1> DEFINE i == Now(c).id
           rows == [db.rows EXCEPT ![i] = None]
           Z == Touched(c)'
           A == Passed(c)
<1>1. i \in Ids /\ {i} \in SUBSET Ids BY NowIs DEF FitArg, Frame
<1>2. steps \in Seq(Steps)
  <2>1. CASE steps = <<>> BY <2>1
  <2>2. CASE steps = Ending(i, "deleted") BY <2>2, <1>1, EndingIs, ArgsAre
  <2> QED BY <2>1, <2>2
<1>3. i \in Z => steps \in Fit(Z, A, call[c].op)
  <2> SUFFICES ASSUME i \in Z PROVE steps \in Fit(Z, A, call[c].op) OBVIOUS
  <2>1. CASE steps = <<>> BY <2>1, NothingFits
  <2>2. Ending(i, "deleted") \in Fit(Z, A, call[c].op) BY <1>1, EndingFits, ArgsAre
  <2> QED BY <2>1, <2>2
<1>4. Now(c).do \notin Frame \cup {"emit", "tell", "find", "audit", "reload"} /\ Now(c).do \notin {"add", "write", "stamp", "clear"}
  BY DEF Frame
<1>5. CASE Store(c, rows, {i}) /\ loose' = loose \cup {i} /\ Then(c, steps) /\ UNCHANGED seen
  <2>1. rows \in Rows /\ Growing(db.rows, rows) BY <1>1, <1>5, RowReplaced
  <2> HIDE DEF rows
  <2>2. i \in Z BY <1>1, <1>2, <1>5, <2>1, StoreTouches
  <2>3. Goes(c, steps, {}) BY <1>2, <1>5, ThenGoes
  <2>4. Promises(todo'[c], i) \/ call[c].op = "hardRemove"
    <3>1. SUFFICES ASSUME steps = Ending(i, "deleted") PROVE Promises(todo'[c], i) OBVIOUS
    <3>2. todo'[c] = (<<>> \o Ending(i, "deleted")) \o Tail(todo[c]) BY <1>1, <2>3, <3>1, EndingIs, ArgsAre DEF Goes
    <3>3. Tail(todo[c]) \in Seq(Steps) /\ <<>> \in Seq(Steps) BY NowIs
    <3> QED BY <1>1, <3>2, <3>3, ArgsAre, Announces
  <2>5. loose \subseteq loose' /\ loose' \in SUBSET Ids BY <1>1, <1>5 DEF TypeInv
  <2> QED BY <1>1, <1>3, <1>4, <1>5, <2>1, <2>2, <2>4, <2>5, StoreAdvances
<1>6. CASE Throw(c) BY <1>4, <1>6, ThrowGoes
<1>7. CASE Missing(c, i, steps)
  <2>1. i \in Z BY <1>1, <1>2, <1>7, StoreTouches
  <2>2. Now(c).do \notin Frame \cup {"emit", "tell", "find", "audit", "reload", "add"} /\ Now(c).do # "write"
    BY <1>4
  <2> QED BY <1>1, <1>3, <1>7, <2>1, <2>2, MissAdvances
<1> QED BY <1>5, <1>6, <1>7 DEF Delete

LEMMA HardRemoveGoes == ASSUME TypeInv, NEW c \in Clients, CallInv(c), HardRemove(c), UNCHANGED faults, Unmoved
                        PROVE Went(c)
<1>1. todo[c] # <<>> /\ Now(c).do = "hardRemove" /\ tx \in {None, c} /\ Delete(c, <<>>) BY DEF HardRemove, At
<1>2. call[c].op = "hardRemove" BY <1>1, NowIs DEF CallInv, Belong
<1> QED BY <1>1, <1>2, DeleteGoes

LEMMA RemoveRowGoes == ASSUME TypeInv, NEW c \in Clients, RemoveRow(c), UNCHANGED faults, Unmoved PROVE Went(c)
<1> DEFINE i == Now(c).id
           e == Now(c).arg
           cascade == CascadingRemove(i)
           ending == Ending(i, "deleted")
           rest == cascade \o ending
           rows == [db.rows EXCEPT ![i].deleted = TRUE]
           Z == Touched(c)'
           A == Passed(c)
<1>1. todo[c] # <<>> /\ Now(c).do = "remove" /\ tx \in {None, c} BY DEF RemoveRow, At
<1>2. i \in Ids /\ {i} \in SUBSET Ids /\ e \in Stored \cup {None} BY <1>1, NowIs DEF FitArg, Frame, Carries
<1>3. cascade \in Fit(Z, A, call[c].op) /\ cascade \in Fit({i}, A, call[c].op) BY <1>2, CascadesFit
<1>4. cascade \in Seq(Steps) /\ ending \in Seq(Steps) /\ rest \in Seq(Steps)
  <2>1. cascade \in Seq(Steps) BY <1>3 DEF Fit
  <2>2. ending \in Seq(Steps) BY <1>2, ArgsAre, EndingIs
  <2> HIDE DEF cascade, ending
  <2> QED BY <2>1, <2>2
<1>5. i \in Z => rest \in Fit(Z, A, call[c].op)
  <2>1. ASSUME i \in Z PROVE ending \in Fit(Z, A, call[c].op) BY <1>2, <2>1, ArgsAre, EndingFits
  <2> HIDE DEF cascade, ending
  <2> QED BY <1>3, <2>1, FitJoins
<1>6. rest \in Fit({i}, A, call[c].op)
  <2>1. ending \in Fit({i}, A, call[c].op) BY <1>2, ArgsAre, EndingFits
  <2> HIDE DEF cascade, ending
  <2> QED BY <1>3, <2>1, FitJoins
<1>7. Now(c).do \notin Frame \cup {"emit", "tell", "find", "audit", "reload"} /\ Now(c).do \notin {"add", "write", "stamp", "clear"}
  BY <1>1 DEF Frame
<1>8. CASE Soft(KindOf[i]) = "property" /\ Read(c, Updating(i, "stamp", e) \o rest)
  <2> DEFINE update == Updating(i, "stamp", e)
  <2>1. <<i, e>> \in A BY <1>1 DEF Passed, Carries
  <2>2. update \in Fit(Z, A, call[c].op) /\ i \in Written(update) BY <1>2, <2>1, UpdatingFits
  <2> HIDE DEF update, rest
  <2>3. {i} \subseteq Z \cup Written(update) BY <2>2
  <2>4. update \o rest \in Fit(Z, A, call[c].op) BY <1>6, <2>2, <2>3, FitJoins
  <2>5. Now(c).do \notin Frame \cup {"emit", "tell", "find", "add", "audit", "reload", "write", "stamp"} BY <1>7
  <2>6. Read(c, update \o rest) BY <1>8 DEF update
  <2> QED BY <1>1, <2>4, <2>5, <2>6, ReadGoes
<1>9. CASE Soft(KindOf[i]) = "none" /\ Delete(c, ending) BY <1>1, <1>9, DeleteGoes
<1>10. CASE /\ Soft(KindOf[i]) = "class" /\ Removable(c, i)
            /\ Store(c, rows, {i}) /\ Then(c, rest) /\ UNCHANGED <<seen, loose>>
  <2>0. db.rows \in Rows /\ db.rows[i] \in Stored BY <1>2, <1>10, RowIs DEF Removable, Matches
  <2> DEFINE r == [db.rows[i] EXCEPT !.deleted = TRUE]
  <2>1. r \in Stored /\ r.version = db.rows[i].version /\ r.by = db.rows[i].by BY <2>0 DEF Stored
  <2>2. rows = [db.rows EXCEPT ![i] = r] BY <2>0, <1>2 DEF Rows
  <2> HIDE DEF r, rows, rest
  <2>3. rows \in Rows /\ rows[i] = r /\ \A j \in Ids : j # i => rows[j] = db.rows[j]
    BY <2>0, <2>1, <2>2, <1>2 DEF Rows
  <2>4. Growing(db.rows, rows)
    <3>1. r # None BY <2>1, NoneAssumption
    <3> QED BY <2>1, <2>3, <3>1 DEF Growing
  <2>5. i \in Z BY <1>1, <1>2, <1>4, <1>10, <2>3, StoreTouches
  <2>6. Goes(c, rest, {}) BY <1>1, <1>4, <1>10, ThenGoes
  <2>7. Promises(todo'[c], i)
    <3>1. todo'[c] = (cascade \o Ending(i, "deleted")) \o Tail(todo[c]) BY <2>6 DEF Goes, rest
    <3>2. Tail(todo[c]) \in Seq(Steps) BY <1>1, NowIs
    <3> HIDE DEF cascade
    <3> QED BY <1>2, <1>4, <3>1, <3>2, ArgsAre, Announces
  <2>8. loose \subseteq loose' /\ loose' \in SUBSET Ids BY <1>10 DEF TypeInv
  <2>9. rest \in Fit(Z, A, call[c].op) BY <1>5, <2>5
  <2> QED BY <1>1, <1>2, <1>7, <1>10, <2>3, <2>4, <2>7, <2>8, <2>9, StoreAdvances
<1>11. CASE Throw(c) BY <1>1, <1>7, <1>11, ThrowGoes
<1>12. CASE Missing(c, i, rest)
  <2> HIDE DEF rest
  <2>1. i \in Z BY <1>1, <1>2, <1>4, <1>12, StoreTouches
  <2>2. Now(c).do \notin Frame \cup {"emit", "tell", "find", "audit", "reload", "add"} /\ Now(c).do # "write"
    BY <1>7
  <2>3. rest \in Fit(Z, A, call[c].op) BY <1>5, <2>1
  <2> QED BY <1>1, <1>2, <1>12, <2>2, <2>3, MissAdvances
<1> QED BY <1>8, <1>9, <1>10, <1>11, <1>12 DEF RemoveRow
\* Marking rows as deleted or not leaves their versions alone.
LEMMA MarkGoes ==
  ASSUME TypeInv, NEW c \in Clients, todo[c] # <<>>, tx \in {None, c}, NEW S \in SUBSET Ids,
         \A i \in S : db.rows[i] # None, NEW gone \in BOOLEAN, NEW steps, Mark(c, S, gone, steps), UNCHANGED faults, Unmoved,
         steps \in Fit(Touched(c)', Passed(c), call[c].op),
         Now(c).do \notin Frame \cup {"emit", "tell", "find", "audit", "reload", "add", "write", "stamp"}
  PROVE  Went(c)
<1> DEFINE rows == [i \in Ids |-> IF i \in S THEN [db.rows[i] EXCEPT !.deleted = gone] ELSE db.rows[i]]
<1>1. ASSUME NEW i \in Ids
      PROVE  /\ rows[i] \in Stored \cup {None}
             /\ db.rows[i] # None => rows[i] # None /\ rows[i].version = db.rows[i].version /\ rows[i].by = db.rows[i].by
  <2>1. db.rows[i] \in Stored \cup {None} BY RowIs
  <2>2. CASE i \in S
    <3>1. db.rows[i] \in Stored BY <2>1, <2>2
    <3> DEFINE r == [db.rows[i] EXCEPT !.deleted = gone]
    <3>2. r \in Stored /\ r.version = db.rows[i].version /\ r.by = db.rows[i].by BY <3>1 DEF Stored
    <3>3. rows[i] = r BY <2>2
    <3> HIDE DEF r
    <3> QED BY <3>2, <3>3, NoneAssumption
  <2>3. CASE i \notin S BY <2>1, <2>3
  <2> QED BY <2>2, <2>3
<1>2. rows \in Rows BY <1>1 DEF Rows
<1>3. Store(c, rows, {}) /\ Then(c, steps) /\ UNCHANGED <<seen, loose>> BY DEF Mark
<1> HIDE DEF rows
<1>4. Growing(db.rows, rows) BY <1>1 DEF Growing
<1>5. loose \subseteq loose' /\ loose' \in SUBSET Ids BY <1>3 DEF TypeInv
<1>6. {} \in SUBSET Ids /\ UNCHANGED <<seen, faults>> BY <1>3
<1> QED BY <1>2, <1>3, <1>4, <1>5, <1>6, StoreAdvances

LEMMA DeleteAllGoes ==
  ASSUME TypeInv, NEW c \in Clients, todo[c] # <<>>, tx \in {None, c}, NEW S \in SUBSET Ids,
         DeleteAll(c, S), UNCHANGED faults, Unmoved,
         Now(c).do \notin Frame \cup {"emit", "tell", "find", "audit", "reload", "add", "write", "stamp"}
  PROVE  Went(c)
<1> DEFINE rows == [i \in Ids |-> IF i \in S THEN None ELSE db.rows[i]]
           steps == <<>>
<1>1. CASE Throw(c) BY <1>1, ThrowGoes DEF Frame
<1>2. CASE Store(c, rows, {}) /\ loose' = loose \cup S /\ Then(c, steps) /\ UNCHANGED seen
  <2>1. rows \in Rows BY RowIs DEF Rows
  <2>2. Growing(db.rows, rows) BY <1>2 DEF Growing
  <2> HIDE DEF rows
  <2>3. loose \subseteq loose' /\ loose' \in SUBSET Ids BY <1>2 DEF TypeInv
  <2>4. steps \in Fit(Touched(c)', Passed(c), call[c].op) BY NothingFits
  <2> HIDE DEF steps
  <2>5. {} \in SUBSET Ids /\ UNCHANGED <<seen, faults>> BY <1>2
  <2> QED BY <1>2, <2>1, <2>2, <2>3, <2>4, <2>5, StoreAdvances
<1> QED BY <1>1, <1>2 DEF DeleteAll

LEMMA OwnedIs == ASSUME NEW k, NEW o PROVE Owned(k, o) \in SUBSET Ids /\ \A i \in Owned(k, o) : db.rows[i] # None
BY DEF Owned

LEMMA RemoveWhereGoes == ASSUME TypeInv, NEW c \in Clients, RemoveWhere(c), UNCHANGED faults, Unmoved PROVE Went(c)
<1> DEFINE k == Now(c).arg
           o == Now(c).id
           list == <<With("listRemoved", o, k)>>
           steps == IF Cascades(k) THEN list ELSE <<>>
           Z == Touched(c)'
           A == Passed(c)
<1>1. todo[c] # <<>> /\ Now(c).do \in {"removeWhere", "hardRemoveWhere"} /\ tx \in {None, c} BY DEF RemoveWhere, At
<1>2. o \in Ids /\ k \in Kinds /\ k \in Args BY <1>1, NowIs, ArgsAre DEF FitArg, Frame, OfKind
<1>3. Now(c).do \notin Frame \cup {"emit", "tell", "find", "audit", "reload", "add", "write", "stamp"}
  BY <1>1 DEF Frame
<1>4. list \in Fit(Z, A, call[c].op)
  <2>1. FitArg([do |-> "listRemoved", id |-> o, arg |-> k]) BY <1>2 DEF FitArg, Carries, OfKind, Frame
  <2>2. "listRemoved" \in Doings \ ({"tell", "native", "hardRemove", "audit", "emit", "write", "stamp"} \cup Frame)
    BY DEF Doings, Frame
  <2> QED BY <1>2, <2>1, <2>2, QuietStepFits
<1>5. steps \in Fit(Z, A, call[c].op) BY <1>4, NothingFits
<1>6. CASE DeleteAll(c, Owned(k, o)) BY <1>1, <1>3, <1>6, OwnedIs, DeleteAllGoes
<1>7. CASE Mark(c, Owned(k, o), TRUE, steps)
  <2> HIDE DEF steps
  <2> QED BY <1>1, <1>3, <1>5, <1>7, OwnedIs, MarkGoes
<1> QED BY <1>6, <1>7 DEF RemoveWhere

LEMMA KindSoft == ASSUME NEW k \in Kinds PROVE SoftChildren(k) \in SUBSET Kinds
<1>1. HasMany[k] \in SUBSET Kinds BY IdsAssumption
<1> QED BY <1>1 DEF SoftChildren

LEMMA ListRemovedGoes == ASSUME TypeInv, NEW c \in Clients, ListRemoved(c), UNCHANGED faults, Unmoved PROVE Went(c)
<1> DEFINE k == Now(c).arg
           o == Now(c).id
           below == {i \in Owned(k, o) : Matches(c, i)}
           steps == FlattenSeq([n \in 1 .. Cardinality(below) |-> EachKind("removeWhere", SoftChildren(k), SetToSeq(below)[n])])
<1>1. todo[c] # <<>> /\ Now(c).do = "listRemoved" /\ tx \in {None, c} /\ Read(c, steps) BY DEF ListRemoved, At
<1>2. o \in Ids /\ SoftChildren(k) \in SUBSET Kinds BY <1>1, NowIs, KindSoft DEF FitArg, Frame, OfKind
<1>3. Now(c).do \notin Frame \cup {"emit", "tell", "find", "add", "audit", "reload", "write", "stamp"}
  BY <1>1 DEF Frame
<1>4. below \in SUBSET Ids BY OwnedIs
<1> HIDE DEF below
<1>5. steps \in Fit(Touched(c)', Passed(c), call[c].op) BY <1>2, <1>4, BelowFits
<1> HIDE DEF steps
<1> QED BY <1>1, <1>3, <1>5, ReadGoes

LEMMA ListRestoredGoes == ASSUME TypeInv, NEW c \in Clients, ListRestored(c), UNCHANGED faults, Unmoved
                          PROVE Went(c)
<1> DEFINE k == Now(c).arg
           o == Now(c).id
           below == {i \in Owned(k, o) : Visible(c, i)}
           steps == FlattenSeq([n \in 1 .. Cardinality(below) |-> EachKind("restoreWhere", SoftChildren(k), SetToSeq(below)[n])])
<1>1. todo[c] # <<>> /\ Now(c).do = "listRestored" /\ tx \in {None, c} /\ Read(c, steps) BY DEF ListRestored, At
<1>2. o \in Ids /\ SoftChildren(k) \in SUBSET Kinds BY <1>1, NowIs, KindSoft DEF FitArg, Frame, OfKind
<1>3. Now(c).do \notin Frame \cup {"emit", "tell", "find", "add", "audit", "reload", "write", "stamp"}
  BY <1>1 DEF Frame
<1>4. below \in SUBSET Ids BY OwnedIs
<1> HIDE DEF below
<1>5. steps \in Fit(Touched(c)', Passed(c), call[c].op) BY <1>2, <1>4, BelowFits
<1> HIDE DEF steps
<1> QED BY <1>1, <1>3, <1>5, ReadGoes

LEMMA RestoreGoes == ASSUME TypeInv, NEW c \in Clients, Restore(c), UNCHANGED faults, Unmoved PROVE Went(c)
<1> DEFINE i == Now(c).id
           S == {i} \cap {d \in Ids : db.rows[d] # None}
           steps == CascadingRestore(i)
<1>1. todo[c] # <<>> /\ Now(c).do = "restore" /\ tx \in {None, c} BY DEF Restore, At
<1>2. i \in Ids BY <1>1, NowIs DEF FitArg, Frame
<1>3. Now(c).do \notin Frame \cup {"emit", "tell", "find", "audit", "reload", "add", "write", "stamp"} /\ Now(c).do \notin {"emit", "clear"}
  BY <1>1 DEF Frame
<1>4. CASE Throw(c) BY <1>1, <1>3, <1>4, ThrowGoes
<1>5. CASE Mark(c, S, FALSE, steps)
  <2>1. S \in SUBSET Ids /\ \A d \in S : db.rows[d] # None OBVIOUS
  <2>2. steps \in Fit(Touched(c)', Passed(c), call[c].op) BY <1>2, CascadesFit
  <2> HIDE DEF S, steps
  <2> QED BY <1>1, <1>3, <1>5, <2>1, <2>2, MarkGoes
<1> QED BY <1>4, <1>5 DEF Restore

LEMMA RestoreWhereGoes == ASSUME TypeInv, NEW c \in Clients, RestoreWhere(c), UNCHANGED faults, Unmoved
                          PROVE Went(c)
<1> DEFINE k == Now(c).arg
           o == Now(c).id
           list == <<With("listRestored", o, k)>>
           steps == IF Cascades(k) THEN list ELSE <<>>
           Z == Touched(c)'
           A == Passed(c)
<1>1. todo[c] # <<>> /\ Now(c).do = "restoreWhere" /\ tx \in {None, c} BY DEF RestoreWhere, At
<1>2. o \in Ids /\ k \in Kinds /\ k \in Args BY <1>1, NowIs, ArgsAre DEF FitArg, Frame, OfKind
<1>3. Now(c).do \notin Frame \cup {"emit", "tell", "find", "audit", "reload", "add", "write", "stamp"} /\ Now(c).do \notin {"emit", "clear"}
  BY <1>1 DEF Frame
<1>4. list \in Fit(Z, A, call[c].op)
  <2>1. FitArg([do |-> "listRestored", id |-> o, arg |-> k]) BY <1>2 DEF FitArg, Carries, OfKind, Frame
  <2>2. "listRestored" \in Doings \ ({"tell", "native", "hardRemove", "audit", "emit", "write", "stamp"} \cup Frame)
    BY DEF Doings, Frame
  <2> QED BY <1>2, <2>1, <2>2, QuietStepFits
<1>5. steps \in Fit(Z, A, call[c].op) BY <1>4, NothingFits
<1>6. CASE Throw(c) BY <1>1, <1>3, <1>6, ThrowGoes
<1>7. CASE Mark(c, Owned(k, o), FALSE, steps)
  <2> HIDE DEF steps
  <2> QED BY <1>1, <1>3, <1>5, <1>7, OwnedIs, MarkGoes
<1> QED BY <1>6, <1>7 DEF RestoreWhere
LEMMA BulkDeleteGoes == ASSUME TypeInv, NEW c \in Clients, BulkDelete(c), UNCHANGED faults, Unmoved PROVE Went(c)
<1> DEFINE S == Owned(Now(c).arg, Now(c).id)
<1>1. todo[c] # <<>> /\ Now(c).do = "bulkDelete" /\ tx \in {None, c} BY DEF BulkDelete, At
<1>2. Now(c).do \notin Frame \cup {"emit", "tell", "find", "audit", "reload", "add", "write", "stamp"}
  BY <1>1 DEF Frame
<1>3. S \in SUBSET Ids /\ \A i \in S : db.rows[i] # None BY OwnedIs
<1>4. Mark(c, S, TRUE, <<>>) \/ DeleteAll(c, S) BY DEF BulkDelete
<1> HIDE DEF S
<1>5. <<>> \in Fit(Touched(c)', Passed(c), call[c].op) BY NothingFits
<1>6. CASE Mark(c, S, TRUE, <<>>) BY <1>1, <1>2, <1>3, <1>5, <1>6, MarkGoes
<1>7. CASE DeleteAll(c, S) BY <1>1, <1>2, <1>3, <1>7, DeleteAllGoes
<1> QED BY <1>4, <1>6, <1>7

\* A row that a bulk statement writes past its version.
LEMMA LooseGoes ==
  ASSUME TypeInv, NEW c \in Clients, todo[c] # <<>>, tx \in {None, c}, NEW i \in Ids, NEW r \in Stored,
         Store(c, [db.rows EXCEPT ![i] = r], {}), loose' = loose \cup {i}, Then(c, <<>>), UNCHANGED <<seen, faults>>, Unmoved,
         Now(c).do \notin Frame \cup {"emit", "tell", "find", "audit", "reload", "add", "write", "stamp"}
  PROVE  Went(c)
<1> DEFINE rows == [db.rows EXCEPT ![i] = r]
<1>1. rows \in Rows /\ Growing(db.rows, rows) BY RowReplaced
<1>2. Store(c, rows, {}) OBVIOUS
<1> HIDE DEF rows
<1>3. loose \subseteq loose' /\ loose' \in SUBSET Ids BY DEF TypeInv
<1>4. <<>> \in Fit(Touched(c)', Passed(c), call[c].op) BY NothingFits
<1>5. {} \in SUBSET Ids OBVIOUS
<1> QED BY <1>1, <1>2, <1>3, <1>4, <1>5, StoreAdvances

LEMMA BulkInsertGoes == ASSUME TypeInv, NEW c \in Clients, BulkInsert(c), UNCHANGED faults, Unmoved PROVE Went(c)
<1> DEFINE i == Now(c).id
<1>1. todo[c] # <<>> /\ Now(c).do = "bulkInsert" /\ tx \in {None, c} BY DEF BulkInsert, At
<1>2. i \in Ids BY <1>1, NowIs DEF FitArg, Frame
<1>3. Now(c).do \notin Frame \cup {"emit", "tell", "find", "audit", "reload", "add", "write", "stamp"} /\ Now(c).do \notin {"emit", "clear"}
  BY <1>1 DEF Frame
<1>4. CASE Throw(c) BY <1>1, <1>3, <1>4, ThrowGoes
<1>5. CASE /\ Store(c, [db.rows EXCEPT ![i] = NewRow(c, i, None, 1)], {})
           /\ loose' = loose \cup {i} /\ Then(c, <<>>) /\ UNCHANGED seen
  <2>1. NewRow(c, i, None, 1) \in Stored BY <1>2, NewRowIs
  <2> QED BY <1>1, <1>2, <1>3, <1>5, <2>1, LooseGoes
<1> QED BY <1>4, <1>5 DEF BulkInsert

LEMMA BulkUpdateGoes == ASSUME TypeInv, NEW c \in Clients, BulkUpdate(c), UNCHANGED faults, Unmoved PROVE Went(c)
<1> DEFINE i == Now(c).id
           r == [db.rows[i] EXCEPT !.by = call[c].n]
<1>1. todo[c] # <<>> /\ Now(c).do = "bulkUpdate" /\ tx \in {None, c} BY DEF BulkUpdate, At
<1>2. i \in Ids /\ db.rows \in Rows BY <1>1, NowIs, RowIs DEF FitArg, Frame
<1>3. Now(c).do \notin Frame \cup {"emit", "tell", "find", "audit", "reload", "add", "write", "stamp"}
  BY <1>1 DEF Frame
<1>4. CASE db.rows[i] = None
  <2>1. Read(c, <<>>) BY <1>4 DEF BulkUpdate
  <2>2. <<>> \in Fit(Touched(c)', Passed(c), call[c].op) BY NothingFits
  <2> QED BY <1>1, <1>3, <2>1, <2>2, ReadGoes
<1>5. CASE db.rows[i] # None
  <2>1. /\ Store(c, [db.rows EXCEPT ![i].by = call[c].n], {})
        /\ loose' = loose \cup {i} /\ Then(c, <<>>) /\ UNCHANGED seen
    BY <1>5 DEF BulkUpdate
  <2>2. [db.rows EXCEPT ![i].by = call[c].n] = [db.rows EXCEPT ![i] = r] BY <1>2 DEF Rows
  <2>3. Store(c, [db.rows EXCEPT ![i] = r], {}) BY <2>1, <2>2
  <2>4. r \in Stored
    <3>1. db.rows[i] \in Stored /\ call[c].n \in Nat BY <1>2, <1>5, RowIs DEF TypeInv, Ended
    <3> QED BY <3>1 DEF Stored
  <2> HIDE DEF r
  <2> QED BY <1>1, <1>2, <1>3, <2>1, <2>3, <2>4, LooseGoes
<1> QED BY <1>4, <1>5

LEMMA BulkUpsertGoes == ASSUME TypeInv, NEW c \in Clients, BulkUpsert(c), UNCHANGED faults, Unmoved PROVE Went(c)
<1> DEFINE i == Now(c).id
           do == IF db.rows[i] = None THEN "bulkInsert" ELSE "bulkUpdate"
           x == Step(do, i)
<1>1. todo[c] # <<>> /\ Now(c).do = "bulkUpsert" /\ tx \in {None, c} /\ Read(c, <<x>>) BY DEF BulkUpsert, At
<1>2. i \in Ids /\ None \in Args BY <1>1, NowIs, ArgsAre DEF FitArg, Frame
<1>3. Now(c).do \notin Frame \cup {"emit", "tell", "find", "add", "audit", "reload", "write", "stamp"}
  BY <1>1 DEF Frame
<1>4. do \in {"bulkInsert", "bulkUpdate"} OBVIOUS
<1> HIDE DEF do
<1>5. do \in Doings \ ({"tell", "native", "hardRemove", "audit", "emit", "write", "stamp"} \cup Frame)
  BY <1>4 DEF Doings, Frame
<1>6. FitArg([do |-> do, id |-> i, arg |-> None]) BY <1>2, <1>4 DEF FitArg, Carries, OfKind, Frame
<1>7. <<x>> \in Fit(Touched(c)', Passed(c), call[c].op) BY <1>2, <1>5, <1>6, QuietStepFits
<1> HIDE DEF x
<1> QED BY <1>1, <1>3, <1>7, ReadGoes

LEMMA AuditGoes == ASSUME TypeInv, NEW c \in Clients, CallInv(c), Audit(c), UNCHANGED faults, Unmoved PROVE Went(c)
<1> DEFINE i == Now(c).id
           e == [call |-> call[c].n, id |-> i, op |-> Now(c).arg, missed |-> i \in call[c].missed]
<1>1. todo[c] # <<>> /\ Now(c).do = "audit" /\ tx \in {None, c} /\ Then(c, <<>>) /\ UNCHANGED <<saved, tx, poisoned, seen, loose, meanwhile>>
  BY DEF Audit, At
<1>2. i \in Ids /\ Now(c).arg \in Acts BY <1>1, NowIs DEF FitArg, Frame
<1>3. db' = [db EXCEPT !.trail = @ \cup {e}] BY DEF Audit
<1>4. e \in Entries /\ e.call = call[c].n /\ e.id = i /\ (e.missed <=> i \in call[c].missed)
  <2> DEFINE b == i \in call[c].missed
  <2>1. call[c].n \in Nat BY DEF TypeInv, Ended
  <2>2. b \in BOOLEAN OBVIOUS
  <2>3. e = [call |-> call[c].n, id |-> i, op |-> Now(c).arg, missed |-> b] OBVIOUS
  <2> HIDE DEF b, e
  <2>4. e \in Entries /\ e.call = call[c].n /\ e.id = i /\ e.missed = b BY <1>2, <2>1, <2>2, <2>3 DEF Entries
  <2> QED BY <2>4 DEF b
<1>5. i \in Touched(c)
  <2>1. Backed(todo[c], Touched(c)) /\ todo[c] \in Seq(Steps) /\ Now(c) = todo[c][1] /\ 1 \in DOMAIN todo[c]
    BY <1>1, NowIs DEF CallInv, TypeInv
  <2>2. Says(todo[c][1]) BY <1>1, <2>1 DEF Says
  <2> QED BY <2>1, <2>2 DEF Backed
<1>6. <<e.call, e.id>> \in db.changed \/ e.missed BY <1>4, <1>5 DEF Touched, Changed
<1> HIDE DEF e
<1>7. /\ db' \in Databases /\ db'.rows = db.rows /\ db'.changed = db.changed /\ db'.swept = db.swept
      /\ db'.trail = db.trail \cup {e}
  BY <1>3, <1>4 DEF TypeInv, Databases
<1>8. Stores(c, {})
  <2>1. Growing(db.rows, db'.rows) BY <1>7 DEF Growing
  <2>2. {<<call[c].n, j>> : j \in {}} = {} OBVIOUS
  <2>3. \A d \in Clients : meanwhile'[d] = meanwhile[d] \cup {j \in Ids : db'.rows[j] # db.rows[j]} BY <1>1, <1>7
  <2>4. \A x \in db'.trail \ db.trail : x.call = call[c].n /\ (<<x.call, x.id>> \in db.changed \/ x.missed)
    BY <1>4, <1>6, <1>7
  <2>5. db'.changed = db.changed \cup {<<call[c].n, j>> : j \in {}} BY <1>7, <2>2
  <2>6. meanwhile' \in [Clients -> SUBSET Ids] /\ loose' \in SUBSET Ids /\ faults' \in Nat /\ faults <= faults' /\ poisoned' \in BOOLEAN
    BY <1>1 DEF TypeInv
  <2> QED BY <1>1, <1>7, <2>1, <2>3, <2>4, <2>5, <2>6 DEF Stores
<1>9. Goes(c, <<>>, {})
  <2>1. <<>> \in Seq(Steps) OBVIOUS
  <2> QED BY <1>1, <2>1, ThenGoes
<1>10. Sees(c) BY <1>1 DEF Sees, TypeInv
<1>11. Fits(c, <<>>) BY <1>1, NothingFits DEF Fits, Frame, IsWrite
<1>12. Owes(c, <<>>, {}) BY <1>1, <1>4, <1>7 DEF Owes
<1>13. Advances(c, <<>>, {}, {}) BY <1>8, <1>9, <1>10, <1>11, <1>12 DEF Advances
<1> QED BY <1>13 DEF Went

(* --------------------------- faults, transactions ------------------------- *)

LEMMA ServesIs == ASSUME TypeInv, NEW c \in Clients, todo[c] # <<>>, Then(c, <<>>) PROVE Goes(c, <<>>, {})
<1>1. <<>> \in Seq(Steps) OBVIOUS
<1> QED BY <1>1, ThenGoes

LEMMA FaultGoes == ASSUME TypeInv, NEW c \in Clients, CallInv(c), Fault(c), Unmoved PROVE Went(c)
<1>1. todo[c] # <<>> /\ tx \in {None, c} /\ ~poisoned /\ faults' = faults + 1 BY DEF Fault
<1>2. faults \in Nat /\ faults' \in Nat /\ faults <= faults' /\ faults' > 0 BY <1>1 DEF TypeInv
<1>3. CASE /\ Now(c).do = "audit" /\ poisoned' = (Aborts /\ tx = c)
           /\ Then(c, <<>>) /\ UNCHANGED <<db, saved, tx, seen, loose, meanwhile>>
  <2>1. Goes(c, <<>>, {}) BY <1>1, <1>3, ServesIs
  <2>2. Stores(c, {})
    <3>1. db \in Databases /\ meanwhile \in [Clients -> SUBSET Ids] /\ loose \in SUBSET Ids BY DEF TypeInv
    <3>2. Growing(db.rows, db'.rows) BY <1>3 DEF Growing
    <3>3. {<<call[c].n, i>> : i \in {}} = {} OBVIOUS
    <3>4. \A d \in Clients : meanwhile'[d] = meanwhile[d] \cup {i \in Ids : db'.rows[i] # db.rows[i]} BY <1>3
    <3>5. poisoned' \in BOOLEAN /\ (poisoned' => faults' > 0 /\ Aborts /\ tx # None)
      <4>1. c # None BY NoneAssumption
      <4> QED BY <4>1, <1>2, <1>3
    <3> QED BY <1>1, <1>2, <1>3, <3>1, <3>2, <3>3, <3>4, <3>5 DEF Stores
  <2>3. Sees(c) BY <1>3 DEF Sees, TypeInv
  <2>4. Fits(c, <<>>) BY <1>3, NothingFits DEF Fits, Frame, IsWrite
  <2>5. Owes(c, <<>>, {}) BY <1>2, <1>3 DEF Owes
  <2>6. Advances(c, <<>>, {}, {}) BY <2>1, <2>2, <2>3, <2>4, <2>5 DEF Advances
  <2> QED BY <2>6 DEF Went
<1>4. CASE Now(c).do = "native" /\ ~Now(c).opt /\ Read(c, <<Again("native", Now(c).id)>>)
  <2> DEFINE i == Now(c).id
             x == Again("native", i)
  <2>1. i \in Ids /\ None \in Args BY <1>1, <1>4, NowIs, ArgsAre DEF FitArg, Frame
  <2>2. call[c].op = "nativeUpsert" BY <1>1, <1>4, NowIs DEF CallInv, Belong
  <2>3. FitArg([do |-> "native", id |-> i, arg |-> None]) BY <2>1 DEF FitArg, Carries, OfKind, Frame
  <2>4. "native" \in Doings BY DEF Doings
  <2>5. x \in Steps /\ x.do = "native" /\ x.id = i /\ x.arg = None BY <2>1, <2>3, <2>4, StepIs
  <2>6. x.do \notin Frame \cup {"tell"} /\ ~IsWrite(x) /\ ~Says(x) /\ ~Carries(x) /\ x.do # "hardRemove"
    BY <2>5 DEF Frame, IsWrite, Says, Carries
  <2>h. Read(c, <<x>>) BY <1>4
  <2> HIDE DEF x
  <2>7. <<x>> \in Fit(Touched(c)', Passed(c), call[c].op) BY <2>2, <2>5, <2>6, OneFits
  <2>8. Now(c).do \notin Frame \cup {"emit", "tell", "find", "add"} /\ ~IsWrite(Now(c)) BY <1>4 DEF Frame, IsWrite
  <2>9. (Now(c).do = "audit" => poisoned) /\ (Now(c).do = "reload" => Visible(c, Now(c).id)) BY <1>4
  <2>10. faults' \in Nat /\ faults <= faults' BY <1>2
  <2> QED BY <1>1, <2>h, <2>7, <2>8, <2>9, <2>10, ReadAdvances, Zenon
<1>5. CASE (Now(c).do = "native" => Now(c).opt) /\ Now(c).do \notin {"audit", "emit", "clear"} /\ Throw(c)
  <2> QED BY <1>1, <1>2, <1>5, ThrowThrows DEF Went
<1> QED BY <1>3, <1>4, <1>5 DEF Fault

\* The list of a unit of work is cleared last, outside its transaction.
LEMMA ClearIsLast ==
  ASSUME TypeInv, NEW c \in Clients, CallInv(c), todo[c] # <<>>, Now(c).do = "clear"
  PROVE  tx # c /\ Len(todo[c]) = 1
<1>1. todo[c] \in Seq(Steps) /\ Now(c) = todo[c][1] /\ 1 \in DOMAIN todo[c] BY NowIs DEF TypeInv
<1>2. Len(todo[c]) = 1 BY <1>1 DEF CallInv, Framed
<1>3. \A n \in DOMAIN todo[c] : todo[c][n].do # "commit" BY <1>1, <1>2
<1> QED BY <1>2, <1>3 DEF CallInv

LEMMA AbortedGoes == ASSUME TypeInv, NEW c \in Clients, CallInv(c), Aborted(c), UNCHANGED faults, Unmoved
                     PROVE Went(c) \/ RollsBack(c)
<1>1. poisoned /\ tx = c /\ todo[c] # <<>> /\ Now(c).do \notin {"emit", "tell"} BY DEF Aborted
<1>2. faults' \in Nat /\ faults <= faults' BY DEF TypeInv
<1>3. CASE Now(c).do = "audit" /\ Read(c, <<>>)
  <2>1. <<>> \in Fit(Touched(c)', Passed(c), call[c].op) BY NothingFits
  <2>2. Now(c).do \notin Frame \cup {"emit", "tell", "find", "add"} /\ ~IsWrite(Now(c)) BY <1>3 DEF Frame, IsWrite
  <2>3. (Now(c).do = "audit" => poisoned) /\ (Now(c).do = "reload" => Visible(c, Now(c).id)) BY <1>1, <1>3
  <2>4. tx \in {None, c} /\ Read(c, <<>>) BY <1>1, <1>3
  <2> QED BY <1>1, <1>2, <2>1, <2>2, <2>3, <2>4, ReadAdvances, Zenon
<1>4. CASE Now(c).do \notin {"audit", "commit"} /\ Throw(c)
  <2>1. Now(c).do # "clear" BY <1>1, ClearIsLast
  <2> QED BY <1>1, <1>2, <1>4, <2>1, ThrowThrows DEF Went
<1>5. CASE /\ Now(c).do = "commit" /\ db' = saved /\ tx' = None /\ poisoned' = FALSE
           /\ todo' = [todo EXCEPT ![c] = Tail(@)]
           /\ call' = [call EXCEPT ![c].undone = TRUE, ![c].end = IF Tail(todo[c]) = <<>> THEN "resolved" ELSE @]
           /\ UNCHANGED <<saved, seen, loose, meanwhile>>
  <2> DEFINE rest == Tail(todo[c])
  <2>1. todo \in [Clients -> Seq(Steps)] /\ call \in [Clients -> Ended] BY DEF TypeInv
  <2>2. rest \in Seq(Steps) /\ rest = <<>> \o rest BY <1>1, NowIs
  <2>3. todo' = [todo EXCEPT ![c] = rest] BY <1>5
  <2>4. call' = [call EXCEPT ![c].undone = TRUE, ![c].end = IF rest = <<>> THEN "resolved" ELSE @] BY <1>5
  <2>5. rest = Tail(todo[c]) OBVIOUS
  <2> HIDE DEF rest
  <2>6. todo' \in [Clients -> Seq(Steps)] /\ todo'[c] = rest /\ \A d \in Clients : d # c => todo'[d] = todo[d]
    BY <2>1, <2>2, <2>3
  <2>7. /\ call' \in [Clients -> Ended] /\ \A d \in Clients : d # c => call'[d] = call[d]
        /\ call'[c].n = call[c].n /\ call'[c].op = call[c].op /\ call'[c].id = call[c].id
        /\ call'[c].missed = call[c].missed /\ call'[c].undone = TRUE
        /\ call'[c].end = IF rest = <<>> THEN "resolved" ELSE call[c].end
    BY <2>1, <2>4 DEF Ended
  <2>8. Goes(c, <<>>, {}) BY <1>1, <2>2, <2>5, <2>6, <2>7 DEF Goes
  <2> QED BY <1>1, <1>5, <2>7, <2>8 DEF RollsBack, Serves
<1> QED BY <1>3, <1>4, <1>5 DEF Aborted

LEMMA BeginGoes == ASSUME TypeInv, NEW c \in Clients, Begin(c), UNCHANGED faults, Unmoved PROVE Begins(c)
<1>1. todo[c] # <<>> /\ Now(c).do = "begin" /\ tx = None /\ ~poisoned /\ Then(c, <<>>) BY DEF Begin, At
<1>2. Goes(c, <<>>, {}) BY <1>1, ServesIs
<1> QED BY <1>1, <1>2 DEF Begin, Begins, Serves

LEMMA CommitGoes == ASSUME TypeInv, NEW c \in Clients, Commit(c), UNCHANGED faults, Unmoved PROVE Commits(c)
<1>1. todo[c] # <<>> /\ Now(c).do = "commit" /\ tx \in {None, c} /\ ~poisoned /\ Then(c, <<>>) BY DEF Commit, At
<1>2. Goes(c, <<>>, {}) BY <1>1, ServesIs
<1> QED BY <1>1, <1>2 DEF Commit, Commits, Serves

(* ---------------------------------- events -------------------------------- *)

LEMMA EmitGoes ==
  ASSUME TypeInv, NEW c \in Clients, Emit(c), UNCHANGED <<unit, serial, taken, fate>>
  PROVE  \E steps : Emits(c, steps)
<1> DEFINE name == Now(c).arg
           i == Now(c).id
           match == Matching(listeners, name)
           own == OwnListener(c, i, name)
           heard == match \o own
           steps == [n \in DOMAIN heard |-> With("tell", i, <<heard[n].who, name>>)]
           Hear == {l \in Range(listeners) : Hears(l, name)}
           Stay == {l \in Range(listeners) : ~Hears(l, name) \/ ~l.once}
           left == Remaining(listeners, name)
<1>1. todo[c] # <<>> /\ Now(c).do = "emit" /\ listeners' = left /\ Then(c, steps) BY Zenon DEF Emit
<1>2. Asleep /\ UNCHANGED <<told, taken, fate>> BY DEF Emit, Asleep, Database
<1>3. i \in Ids /\ name \in Acts BY <1>1, NowIs DEF FitArg, Frame
<1>4. listeners \in Seq(Listener) BY DEF TypeInv
<1>5. Picked(match, listeners, Listener, Hear) BY <1>4, AmongPicks DEF Matching
<1>6. Picked(left, listeners, Listener, Stay) BY <1>4, AmongPicks DEF Remaining
<1>7. \A k \in DOMAIN listeners : /\ listeners[k] \in Hear <=> name \in listeners[k].names
                                  /\ listeners[k] \in Stay <=> name \notin listeners[k].names \/ ~listeners[k].once
  BY <1>4 DEF Range, Hears
<1>o. /\ own \in Seq(Listener) /\ \A n \in DOMAIN own : n = 1 /\ own[n].who = "own"
      /\ Itself(c, i) => 1 \in DOMAIN own
  <2> DEFINE r == Registration("own", {name}, FALSE)
  <2>1. r \in Listener /\ r.who = "own" BY <1>3 DEF Registration, Listener, Voices
  <2>2. own = IF Itself(c, i) THEN <<r>> ELSE <<>> BY DEF OwnListener
  <2> HIDE DEF r, own
  <2>3. CASE Itself(c, i) BY <2>1, <2>2, <2>3
  <2>4. CASE ~Itself(c, i) BY <2>2, <2>4
  <2> QED BY <2>3, <2>4
<1>d. heard = match \o own OBVIOUS
<1> HIDE DEF Hear, Stay, match, own, heard, left
<1>8. PICK p : Picks(match, listeners, Listener, Hear, p) BY <1>5 DEF Picked
<1>9. PICK q : Picks(left, listeners, Listener, Stay, q) BY <1>6 DEF Picked
<1>m. match \in Seq(Listener) BY <1>8 DEF Picks
<1> DEFINE L == Len(match)
<1>j. /\ heard \in Seq(Listener) /\ L \in Nat /\ DOMAIN match = 1 .. L /\ DOMAIN own \subseteq {1}
      /\ \A n \in DOMAIN match : n \in DOMAIN heard /\ heard[n] = match[n]
      /\ \A n \in DOMAIN own : L + n \in DOMAIN heard /\ heard[L + n] = own[n]
      /\ \A n \in DOMAIN heard : n \in DOMAIN match \/ (n > L /\ n - L \in DOMAIN own /\ heard[n] = own[n - L])
      /\ DOMAIN heard \subseteq Int
  BY <1>d, <1>m, <1>o, Joined
<1> HIDE DEF L
<1>k. \A n \in DOMAIN heard : n \in DOMAIN match \/ (n = L + 1 /\ heard[n].who = "own")
  <2> SUFFICES ASSUME NEW n \in DOMAIN heard, n \notin DOMAIN match PROVE n = L + 1 /\ heard[n].who = "own"
    OBVIOUS
  <2>1. n - L \in DOMAIN own /\ heard[n] = own[n - L] BY <1>j
  <2>2. n - L = 1 /\ heard[n].who = "own" BY <2>1, <1>o
  <2> QED BY <2>2, <1>j
<1>10. ASSUME NEW n \in DOMAIN heard
       PROVE  With("tell", i, <<heard[n].who, name>>) \in Steps /\ With("tell", i, <<heard[n].who, name>>).do = "tell"
              /\ With("tell", i, <<heard[n].who, name>>).id = i /\ With("tell", i, <<heard[n].who, name>>).arg = <<heard[n].who, name>>
  <2> DEFINE a == <<heard[n].who, name>>
             x == With("tell", i, a)
  <2>1. heard[n] \in Listener BY <1>j
  <2>2. a \in Voices \X Acts BY <1>3, <2>1 DEF Listener
  <2> HIDE DEF a
  <2>3. a \in Args /\ "tell" \in Doings BY <2>2, ArgsAre DEF Doings
  <2>4. FitArg([do |-> "tell", id |-> i, arg |-> a]) BY <1>3, <2>2 DEF FitArg, Carries, OfKind, Frame
  <2>5. x \in Steps /\ x.do = "tell" /\ x.id = i /\ x.arg = a BY <1>3, <2>3, <2>4, StepIs
  <2> QED BY <2>5 DEF a
<1>11. steps \in Seq(Steps)
  <2>1. DOMAIN heard = 1 .. Len(heard) /\ Len(heard) \in Nat BY <1>j
  <2> QED BY <1>10, <2>1
<1>12. DOMAIN steps = DOMAIN heard OBVIOUS
<1>13. \A n \in DOMAIN steps : steps[n].do = "tell" /\ steps[n].id = i /\ steps[n].arg[1] = heard[n].who
  <2> SUFFICES ASSUME NEW n \in DOMAIN heard
               PROVE steps[n].do = "tell" /\ steps[n].id = i /\ steps[n].arg[1] = heard[n].who
    BY <1>12
  <2>1. steps[n] = With("tell", i, <<heard[n].who, name>>) OBVIOUS
  <2> HIDE DEF steps
  <2>2. steps[n].do = "tell" /\ steps[n].id = i /\ steps[n].arg = <<heard[n].who, name>> BY <2>1, <1>10
  <2> QED BY <2>2
<1> HIDE DEF steps
<1>14. Goes(c, steps, {}) BY <1>1, <1>11, ThenGoes
<1>15. Heard(c, steps)
  <2> DEFINE w == [n \in DOMAIN steps |-> IF n \in DOMAIN match THEN p[n] ELSE 0]
  <2>1. /\ p \in [DOMAIN match -> DOMAIN listeners]
        /\ \A n \in DOMAIN match : match[n] = listeners[p[n]] /\ listeners[p[n]] \in Hear
        /\ \A m, n \in DOMAIN match : p[m] = p[n] => m = n
        /\ \A k \in DOMAIN listeners : listeners[k] \in Hear => \E n \in DOMAIN match : p[n] = k
    BY <1>8 DEF Picks
  <2>2. \A k \in DOMAIN listeners : k # 0 BY <1>4
  <2>3. w \in [DOMAIN steps -> DOMAIN listeners \cup {0}] BY <2>1
  <2>4. \A n \in DOMAIN steps : n \in DOMAIN match => w[n] = p[n] /\ w[n] # 0 BY <2>1, <2>2
  <2>5. \A n \in DOMAIN steps : n \notin DOMAIN match => w[n] = 0 /\ n = L + 1 /\ heard[n].who = "own" BY <1>12, <1>k
  <2> HIDE DEF w
  <2>6. ASSUME NEW n \in DOMAIN steps
        PROVE  /\ w[n] = 0 => steps[n].arg[1] = "own"
               /\ w[n] # 0 => steps[n].arg[1] = listeners[w[n]].who /\ name \in listeners[w[n]].names
    <3>1. CASE n \in DOMAIN match
      <4>1. w[n] = p[n] /\ w[n] # 0 /\ heard[n] = match[n] BY <3>1, <2>4, <1>j
      <4>2. match[n] = listeners[p[n]] /\ listeners[p[n]] \in Hear /\ p[n] \in DOMAIN listeners BY <3>1, <2>1
      <4> QED BY <4>1, <4>2, <1>7, <1>13
    <3>2. CASE n \notin DOMAIN match BY <3>2, <2>5, <1>13
    <3> QED BY <3>1, <3>2
  <2>7. \A m, n \in DOMAIN steps : w[m] = w[n] => m = n
    <3> SUFFICES ASSUME NEW m \in DOMAIN steps, NEW n \in DOMAIN steps, w[m] = w[n] PROVE m = n OBVIOUS
    <3>1. CASE m \in DOMAIN match
      <4>1. n \in DOMAIN match BY <3>1, <2>4, <2>5
      <4> QED BY <3>1, <4>1, <2>1, <2>4
    <3>2. CASE m \notin DOMAIN match
      <4>1. n \notin DOMAIN match BY <3>2, <2>4, <2>5
      <4> QED BY <3>2, <4>1, <2>5
    <3> QED BY <3>1, <3>2
  <2>8. ASSUME NEW k \in DOMAIN listeners, name \in listeners[k].names PROVE \E n \in DOMAIN steps : w[n] = k
    <3>1. PICK n \in DOMAIN match : p[n] = k BY <2>1, <2>8, <1>7
    <3> QED BY <3>1, <2>4, <1>j, <1>12
  <2>9. ASSUME Itself(c, i) PROVE \E n \in DOMAIN steps : w[n] = 0
    <3>1. L + 1 \in DOMAIN steps BY <2>9, <1>o, <1>j, <1>12
    <3>2. L + 1 \notin DOMAIN match BY <1>j
    <3> QED BY <3>1, <3>2, <2>5
  <2> QED BY <2>3, <2>6, <2>7, <2>8, <2>9, <1>13 DEF Heard
<1>16. listeners' \in Seq(Listener) /\ Stayed(c) BY <1>1, <1>7, <1>9 DEF Stayed, Picks
<1>17. Emits(c, steps) BY <1>1, <1>2, <1>11, <1>14, <1>15, <1>16 DEF Emits
<1> QED BY <1>17

LEMMA TellGoes ==
  ASSUME TypeInv, NEW c \in Clients, Tell(c), UNCHANGED <<unit, serial, taken, fate>>
  PROVE  Tells(c)
<1>1. todo[c] # <<>> /\ Now(c).do = "tell" /\ Then(c, <<>>) BY DEF Tell
<1>2. Goes(c, <<>>, {}) BY <1>1, ServesIs
<1>3. Asleep /\ UNCHANGED <<listeners, taken, fate>> BY DEF Tell, Asleep, Database
<1> DEFINE a == (tx = c)
           b == (Now(c).id \in call[c].missed)
           t == [who |-> Now(c).arg[1], call |-> call[c].n, id |-> Now(c).id, act |-> Now(c).arg[2], inTx |-> a, missed |-> b]
<1>4. told' = told \cup {t} BY DEF Tell
<1>5. Now(c).id \in Ids /\ Now(c).arg \in Voices \X Acts /\ call[c].n \in Nat
  BY <1>1, NowIs DEF FitArg, Frame, TypeInv, Ended
<1>6. Now(c).arg[1] \in Voices /\ Now(c).arg[2] \in Acts BY <1>5
<1>7. a \in BOOLEAN /\ b \in BOOLEAN OBVIOUS
<1>8. t = [who |-> Now(c).arg[1], call |-> call[c].n, id |-> Now(c).id, act |-> Now(c).arg[2], inTx |-> a, missed |-> b]
  OBVIOUS
<1> HIDE DEF a, b, t
<1>9. t \in Tellings /\ t.who = Now(c).arg[1] /\ t.call = call[c].n /\ t.id = Now(c).id /\ t.inTx = a /\ t.missed = b
  BY <1>5, <1>6, <1>7, <1>8 DEF Tellings
<1>10. (t.inTx <=> tx = c) /\ (t.missed <=> Now(c).id \in call[c].missed) BY <1>9, <1>7 DEF a, b
<1> QED BY <1>1, <1>2, <1>3, <1>4, <1>9, <1>10 DEF Tells

(* ------------------------------ every next step --------------------------- *)

LEMMA StartStarts ==
  ASSUME TypeInv, NEW c \in Clients, NEW op \in CallNames, NEW i \in Ids \cup {None}, NEW A, NEW steps \in Opening(A, op),
         Start(c, op, i, steps), UNCHANGED <<unit, serial, fate>>,
         \/ op # "unit" /\ A = HeldBy(c) /\ UNCHANGED taken
         \/ /\ op = "unit" /\ A = Commissions(unit) /\ taken' = [taken EXCEPT ![c] = unit]
            /\ \A k \in DOMAIN unit : unit[k].do # "Deleted" =>
                 \E n \in DOMAIN steps : steps[n].do \in {"add", "write"} /\ steps[n].id = unit[k].id,
         op = "unit" => Clearing(steps)
  PROVE  Starts(c, op, A, steps)
<1>1. /\ todo \in [Clients -> Seq(Steps)] /\ call \in [Clients -> Ended] /\ calls \in Nat
      /\ seen \in [Clients -> Stored \cup {None}] /\ meanwhile \in [Clients -> SUBSET Ids]
  BY DEF TypeInv
<1>2. /\ todo[c] = <<>> /\ calls' = calls + 1 /\ todo' = [todo EXCEPT ![c] = steps]
      /\ call' = [call EXCEPT ![c] = [n |-> calls + 1, op |-> op, id |-> i, end |-> "running", missed |-> {}, undone |-> FALSE]]
      /\ meanwhile' = [meanwhile EXCEPT ![c] = {}] /\ seen' = [seen EXCEPT ![c] = None]
      /\ UNCHANGED <<model, db, saved, tx, poisoned, held, listeners, told, faults, loose>>
  BY DEF Start, Idle
<1>3. steps \in Seq(Steps) BY DEF Opening
<1>4. todo' \in [Clients -> Seq(Steps)] /\ todo'[c] = steps /\ \A d \in Clients : d # c => todo'[d] = todo[d]
  BY <1>1, <1>2, <1>3
<1>5. seen' \in [Clients -> Stored \cup {None}] /\ meanwhile' \in [Clients -> SUBSET Ids]
      /\ \A d \in Clients : d # c => seen'[d] = seen[d] /\ meanwhile'[d] = meanwhile[d]
  BY <1>1, <1>2
<1> DEFINE x == [n |-> calls + 1, op |-> op, id |-> i, end |-> "running", missed |-> {}, undone |-> FALSE]
<1>6. x \in Ended /\ x.n = calls + 1 /\ x.op = op /\ x.end = "running" /\ x.missed = {} /\ x.undone = FALSE BY <1>1 DEF Ended
<1>7. call' = [call EXCEPT ![c] = x] BY <1>2
<1> HIDE DEF x
<1>8. call' \in [Clients -> Ended] /\ call'[c] = x /\ \A d \in Clients : d # c => call'[d] = call[d]
  BY <1>1, <1>6, <1>7
<1> QED BY <1>2, <1>4, <1>5, <1>6, <1>8 DEF Starts

LEMMA CallSetGoes ==
  ASSUME TypeInv, NEW c \in Clients, CallSet(c), UNCHANGED <<unit, serial, taken, fate>>
  PROVE  \E op, A, steps : Starts(c, op, A, steps)
<1>1. PICK x \in Calls(c) : Start(c, x[1], x[2], x[3]) BY DEF CallSet
<1>2. held[c] \in Loaded \cup {None} BY DEF TypeInv
<1>3. x[3] \in Opening(HeldBy(c), x[1]) /\ x[1] \in CallNames /\ x[1] # "unit" /\ x[2] \in Ids BY <1>2, CallsOpen
<1>4. Starts(c, x[1], HeldBy(c), x[3]) BY <1>1, <1>3, StartStarts
<1> QED BY <1>4

\* The last step of a commit() empties the list.
LEMMA ClearEnds ==
  ASSUME NEW s \in Seq(Steps)
  PROVE  Clearing(<<Step("begin", None)>> \o s \o <<Step("commit", None), Step("clear", None)>>)
<1> DEFINE x == Step("begin", None)
           y == Step("commit", None)
           z == Step("clear", None)
           b == <<x>>
           e == <<y, z>>
           v == b \o s
           u == v \o e
<1>1. x \in Steps /\ y \in Steps /\ z \in Steps /\ z.do = "clear"
  BY ArgsAre, StepIs DEF Doings, FitArg, Carries, OfKind, Frame
<1> HIDE DEF x, y, z
<1>2. b \in Seq(Steps) /\ e \in Seq(Steps) /\ 2 \in DOMAIN e /\ e[2] = z BY <1>1
<1> HIDE DEF b, e
<1>3. v \in Seq(Steps) BY <1>2
<1> HIDE DEF v
<1>4. Len(v) + 2 \in DOMAIN u /\ u[Len(v) + 2] = e[2] BY <1>2, <1>3, Joined
<1> HIDE DEF u
<1>5. Clearing(u) BY <1>1, <1>2, <1>4 DEF Clearing
<1> QED BY <1>5 DEF u, v, b, e, x, y, z

LEMMA CommitUnitGoes ==
  ASSUME TypeInv, NEW c \in Clients, CommitUnit(c)
  PROVE  \E op, A, steps : Starts(c, op, A, steps)
<1> DEFINE s == Flushing(unit)
           A == Commissions(unit)
           b == <<Step("begin", None)>>
           e == <<Step("commit", None), Step("clear", None)>>
           u == b \o s \o e
<1>1. unit \in Seq(Ops) BY DEF TypeInv
<1>2. /\ s \in Fit({}, A, "unit")
      /\ \A k \in DOMAIN unit : unit[k].do # "Deleted" =>
           \E n \in DOMAIN s : s[n].do \in {"add", "write"} /\ s[n].id = unit[k].id
  BY <1>1, FlushingFits
<1>3. Start(c, "unit", None, u) /\ taken' = [taken EXCEPT ![c] = unit] /\ UNCHANGED <<unit, serial, fate>>
  BY DEF CommitUnit
<1>u. Frames(s, "unit", u) BY DEF Frames
<1> HIDE DEF s, A, u
<1>4. u \in Opening(A, "unit") /\ \A n \in DOMAIN s : \E k \in DOMAIN u : u[k] = s[n] BY <1>2, <1>u, FramedOpens
<1>5. \A k \in DOMAIN unit : unit[k].do # "Deleted" =>
        \E n \in DOMAIN u : u[n].do \in {"add", "write"} /\ u[n].id = unit[k].id
  BY <1>2, <1>4
<1>6. "unit" \in CallNames BY DEF CallNames
<1>c. Clearing(u)
  <2>1. s \in Seq(Steps) BY <1>2 DEF Fit
  <2> QED BY <2>1, ClearEnds DEF u
<1>7. Starts(c, "unit", A, u) BY <1>3, <1>4, <1>5, <1>6, <1>c, StartStarts DEF A
<1> QED BY <1>7

LEMMA RunGoes ==
  ASSUME TypeInv, NEW c \in Clients, CallInv(c), Run(c), UNCHANGED <<unit, serial, taken, fate>>
  PROVE  Went(c) \/ RollsBack(c) \/ Begins(c) \/ Commits(c)
<1>1. Unmoved BY DEF Run, Kept, Unmoved
<1>2. CASE Fault(c) BY <1>1, <1>2, FaultGoes
<1>3. CASE Statement(c)
  <2>1. UNCHANGED faults BY <1>3 DEF Statement
  <2>2. CASE Find(c) BY <1>1, <2>1, <2>2, FindGoes
  <2>3. CASE Reload(c) BY <1>1, <2>1, <2>3, ReloadGoes
  <2>4. CASE Add(c) BY <1>1, <2>1, <2>4, AddGoes
  <2>5. CASE Write(c) BY <1>1, <2>1, <2>5, WriteGoes
  <2>6. CASE Upsert(c) BY <1>1, <2>1, <2>6, UpsertGoes
  <2>7. CASE Native(c) BY <1>1, <2>1, <2>7, NativeGoes
  <2>8. CASE HardRemove(c) BY <1>1, <2>1, <2>8, HardRemoveGoes
  <2>9. CASE RemoveRow(c) BY <1>1, <2>1, <2>9, RemoveRowGoes
  <2>10. CASE RemoveWhere(c) BY <1>1, <2>1, <2>10, RemoveWhereGoes
  <2>11. CASE ListRemoved(c) BY <1>1, <2>1, <2>11, ListRemovedGoes
  <2>12. CASE Restore(c) BY <1>1, <2>1, <2>12, RestoreGoes
  <2>13. CASE RestoreWhere(c) BY <1>1, <2>1, <2>13, RestoreWhereGoes
  <2>14. CASE ListRestored(c) BY <1>1, <2>1, <2>14, ListRestoredGoes
  <2>15. CASE BulkDelete(c) BY <1>1, <2>1, <2>15, BulkDeleteGoes
  <2>16. CASE BulkInsert(c) BY <1>1, <2>1, <2>16, BulkInsertGoes
  <2>17. CASE BulkUpdate(c) BY <1>1, <2>1, <2>17, BulkUpdateGoes
  <2>18. CASE BulkUpsert(c) BY <1>1, <2>1, <2>18, BulkUpsertGoes
  <2>19. CASE Audit(c) BY <1>1, <2>1, <2>19, AuditGoes
  <2>20. CASE Begin(c) BY <1>1, <2>1, <2>20, BeginGoes
  <2>21. CASE Commit(c) BY <1>1, <2>1, <2>21, CommitGoes
  <2>22. CASE Aborted(c) BY <1>1, <2>1, <2>22, AbortedGoes
  <2> QED BY <1>3, <2>2, <2>3, <2>4, <2>5, <2>6, <2>7, <2>8, <2>9, <2>10, <2>11, <2>12, <2>13, <2>14, <2>15,
             <2>16, <2>17, <2>18, <2>19, <2>20, <2>21, <2>22 DEF Statement
<1> QED BY <1>2, <1>3 DEF Run

LEMMA ActingMoves == ASSUME TypeInv, NEW c \in Clients, CallInv(c), Acting(c) PROVE Moves(c)
<1>1. CASE (CallSet(c) \/ Run(c) \/ Emit(c) \/ Tell(c)) /\ UNCHANGED <<unit, serial, taken, fate>>
  <2>1. CASE CallSet(c) BY <1>1, <2>1, CallSetGoes DEF Moves
  <2>2. CASE Run(c) BY <1>1, <2>2, RunGoes DEF Moves
  <2>3. CASE Emit(c) BY <1>1, <2>3, EmitGoes DEF Moves
  <2>4. CASE Tell(c) BY <1>1, <2>4, TellGoes DEF Moves
  <2> QED BY <1>1, <2>1, <2>2, <2>3, <2>4
<1>2. CASE CommitUnit(c) BY <1>2, CommitUnitGoes DEF Moves
<1>3. CASE Clear(c)
  <2>1. todo[c] # <<>> /\ Then(c, <<>>) BY <1>3 DEF Clear
  <2> QED BY <1>3, <2>1, ServesIs DEF Moves, Clears
<1> QED BY <1>1, <1>2, <1>3 DEF Acting

LEMMA NextActs ==
  ASSUME TypeInv, [Next]_uvars
  PROVE  (\E c \in Clients : Acting(c)) \/ Rests
<1>1. CASE UNCHANGED uvars BY <1>1 DEF Rests
<1>2. CASE SetNext /\ UNCHANGED <<unit, serial, taken, fate>>
  <2>1. ASSUME NEW c \in Clients, CallSet(c) \/ Run(c) \/ Emit(c) \/ Tell(c) PROVE Acting(c)
    BY <1>2, <2>1 DEF Acting
  <2>2. ASSUME NEW c \in Clients, NEW i \in Ids, Load(c, i) PROVE Rests
    <3>1. Still /\ UNCHANGED <<listeners, told, unit, serial, fate>> BY <1>2, <2>2 DEF Load, Still, Database
    <3>2. db.rows[i] \in Stored BY <2>2, RowIs DEF Load, Visible, Matches
    <3>3. held' = [held EXCEPT ![c] = [id |-> i, row |-> db.rows[i]]] /\ todo[c] = <<>> /\ tx = None
      BY <2>2 DEF Load, Idle
    <3>4. held \in [Clients -> Loaded \cup {None}] BY DEF TypeInv
    <3>5. [id |-> i, row |-> db.rows[i]] \in Loaded BY <3>2 DEF Loaded
    <3>6. Loads(c, i) BY <3>1, <3>2, <3>3, <3>4, <3>5 DEF Loads
    <3> QED BY <3>1, <3>6 DEF Rests
  <2>3. ASSUME NEW l \in Who, Subscribe(l, {"created", "updated"}) \/ Unsubscribe(l) PROVE Rests
    <3>1. Still BY <1>2, <2>3 DEF Subscribe, Unsubscribe, Still, Database
    <3>2. Listens BY <1>2, <2>3 DEF Listens
    <3> QED BY <3>1, <3>2 DEF Rests
  <2> QED BY <1>2, <2>1, <2>2, <2>3 DEF SetNext
<1>3. ASSUME NEW c \in Clients, CommitUnit(c) \/ Clear(c) PROVE Acting(c) BY <1>3 DEF Acting
<1>4. ASSUME NEW c \in Clients, NEW i \in model.ids[c], NEW do \in {"Added", "Modified", "Deleted"},
             \/ Register(c, do, i, None)
             \/ do = "Modified" /\ held[c] # None /\ held[c].id = i /\ Register(c, do, i, held[c].row)
      PROVE  Rests
  <2>1. i \in Ids BY ModelsAssumption DEF TypeInv
  <2>2. PICK e : Register(c, do, i, e) /\ (e = None \/ (held[c] # None /\ held[c].id = i /\ e = held[c].row))
    BY <1>4
  <2>3. Still BY <2>2 DEF Register, Still, vars
  <2>4. Registers(c, do, i, e) BY <2>1, <2>2 DEF Register, Registers, vars
  <2> QED BY <2>1, <2>3, <2>4 DEF Rests
<1>5. CASE Rollback
  <2>1. Still BY <1>5 DEF Rollback, Still, vars
  <2> QED BY <1>5, <2>1 DEF Rests
<1> QED BY <1>1, <1>2, <1>3, <1>4, <1>5 DEF Next

\* Every step of the specification is of one of the kinds.
LEMMA NextIs ==
  ASSUME TypeInv, \A c \in Clients : CallInv(c), [Next]_uvars
  PROVE  (\E c \in Clients : Moves(c)) \/ Rests
BY NextActs, ActingMoves

(* ---------------------------- the rest of a call -------------------------- *)

\* A call whose next step is done goes on as well framed, and with no other BEGIN.
LEMMA RestFramed ==
  ASSUME NEW s, NEW t, NEW u, IsRest(s, t, u), Framed(s), Unframed(t), s[1].do \in Frame => t = <<>>
  PROVE  /\ Framed(u) /\ \A n \in DOMAIN u : u[n].do # "begin"
         /\ (\E n \in DOMAIN u : u[n].do = "commit") <=> s[1].do # "commit" /\ \E n \in DOMAIN s : s[n].do = "commit"
         /\ s[1].do = "commit" => \A n \in DOMAIN u : u[n].do = "clear"
         /\ s[1].do = "clear" => u = <<>>
<1>1. /\ Len(s) \in Nat /\ Len(t) \in Nat /\ Len(u) = Len(t) + Len(s) - 1 /\ Len(s) > 0
      /\ DOMAIN t = 1 .. Len(t) /\ DOMAIN s = 1 .. Len(s) /\ DOMAIN u = 1 .. Len(u)
      /\ \A n \in DOMAIN t : n \in DOMAIN u /\ u[n] = t[n]
      /\ \A n \in DOMAIN s : n > 1 => Len(t) + n - 1 \in DOMAIN u /\ u[Len(t) + n - 1] = s[n]
      /\ \A n \in DOMAIN u : \/ n \in DOMAIN t
                             \/ n > Len(t) /\ n - Len(t) + 1 \in DOMAIN s /\ u[n] = s[n - Len(t) + 1]
  BY Spliced DEF IsRest
<1>2. \A n \in DOMAIN t : t[n].do \notin Frame BY DEF Unframed
<1>3. 1 \in DOMAIN s BY <1>1
<1>4. u \in Seq(Steps) BY Spliced DEF IsRest
<1>5. s[1].do \in Frame => Len(t) = 0 BY <1>1
<1>6. ASSUME NEW n \in DOMAIN u, u[n].do \in Frame
      PROVE  n > Len(t) /\ n - Len(t) + 1 \in DOMAIN s /\ n - Len(t) + 1 > 1 /\ u[n] = s[n - Len(t) + 1]
  BY <1>1, <1>2, <1>6
<1>7. \A n \in DOMAIN u : u[n].do # "begin"
  <2> SUFFICES ASSUME NEW n \in DOMAIN u, u[n].do = "begin" PROVE FALSE OBVIOUS
  <2>1. n - Len(t) + 1 \in DOMAIN s /\ n - Len(t) + 1 > 1 /\ s[n - Len(t) + 1].do = "begin" BY <1>6 DEF Frame
  <2> QED BY <2>1 DEF Framed
<1>8. ASSUME NEW n \in DOMAIN u, u[n].do = "commit", NEW m \in DOMAIN u, m > n PROVE u[m].do = "clear"
  <2>1. n > Len(t) /\ n - Len(t) + 1 \in DOMAIN s /\ s[n - Len(t) + 1].do = "commit" BY <1>6, <1>8 DEF Frame
  <2>2. m > Len(t) /\ m \notin DOMAIN t BY <2>1, <1>1, <1>8
  <2>3. m - Len(t) + 1 \in DOMAIN s /\ u[m] = s[m - Len(t) + 1] /\ m - Len(t) + 1 > n - Len(t) + 1
    BY <2>2, <1>1, <1>8
  <2> QED BY <2>1, <2>3 DEF Framed
<1>9. ASSUME NEW n \in DOMAIN u, u[n].do = "clear" PROVE n = Len(u) /\ (n > 1 => u[n - 1].do = "commit")
  <2> DEFINE k == n - Len(t) + 1
  <2>1. n > Len(t) /\ k \in DOMAIN s /\ k > 1 /\ s[k].do = "clear" BY <1>6, <1>9 DEF Frame
  <2>2. k = Len(s) /\ s[k - 1].do = "commit" BY <2>1 DEF Framed
  <2>3. n = Len(u) BY <2>2, <1>1
  <2>4. ASSUME n > 1 PROVE u[n - 1].do = "commit"
    <3>1. k - 1 \in DOMAIN s BY <2>1, <1>1
    <3>2. CASE k - 1 > 1
      <4>1. Len(t) + (k - 1) - 1 \in DOMAIN u /\ u[Len(t) + (k - 1) - 1] = s[k - 1] BY <3>1, <3>2, <1>1
      <4>2. Len(t) + (k - 1) - 1 = n - 1 BY <1>1
      <4> QED BY <4>1, <4>2, <2>2
    <3>3. CASE ~(k - 1 > 1)
      <4>1. k - 1 = 1 BY <3>1, <3>3, <1>1
      <4>2. s[1].do = "commit" BY <4>1, <2>2
      <4>3. Len(t) = 0 BY <4>2, <1>5 DEF Frame
      <4> QED BY <4>1, <4>3, <2>4, <1>1
    <3> QED BY <3>2, <3>3
  <2> QED BY <2>3, <2>4
<1>10. Framed(u) BY <1>7, <1>8, <1>9 DEF Framed
<1>11. ASSUME s[1].do = "commit" PROVE \A n \in DOMAIN u : u[n].do = "clear"
  <2> SUFFICES ASSUME NEW n \in DOMAIN u PROVE u[n].do = "clear" OBVIOUS
  <2>1. n \notin DOMAIN t BY <1>5, <1>11, <1>1 DEF Frame
  <2>2. n - Len(t) + 1 \in DOMAIN s /\ n - Len(t) + 1 > 1 /\ u[n] = s[n - Len(t) + 1] BY <2>1, <1>1
  <2> QED BY <2>2, <1>3, <1>11 DEF Framed
<1>12. ASSUME NEW n \in DOMAIN u, u[n].do = "commit"
       PROVE s[1].do # "commit" /\ \E m \in DOMAIN s : s[m].do = "commit"
  <2>1. \E m \in DOMAIN s : s[m].do = "commit" BY <1>6, <1>12 DEF Frame
  <2>2. s[1].do # "commit" BY <1>11, <1>12
  <2> QED BY <2>1, <2>2
<1>13. ASSUME s[1].do # "commit", NEW n \in DOMAIN s, s[n].do = "commit"
       PROVE \E m \in DOMAIN u : u[m].do = "commit"
  <2>1. n > 1 BY <1>13, <1>1
  <2> QED BY <2>1, <1>1, <1>13
<1>14. ASSUME s[1].do = "clear" PROVE u = <<>>
  <2>1. Len(s) = 1 /\ Len(t) = 0 BY <1>3, <1>5, <1>14 DEF Framed, Frame
  <2>2. Len(u) = 0 BY <2>1, <1>1
  <2> QED BY <2>2, <1>4
<1> QED BY <1>7, <1>10, <1>11, <1>12, <1>13, <1>14

\* ... reads before each versioned write, and reports what it writes.
LEMMA RestReports ==
  ASSUME NEW s, NEW t, NEW u, IsRest(s, t, u), Reads(s, 2), Reads(t, 1), Reports(s), Reports(t),
         s[1].do = "find" => t = <<>>
  PROVE  Reads(u, 2) /\ Reports(u)
<1>1. /\ Len(s) \in Nat /\ Len(t) \in Nat /\ Len(u) = Len(t) + Len(s) - 1 /\ Len(s) > 0
      /\ DOMAIN t = 1 .. Len(t) /\ DOMAIN s = 1 .. Len(s) /\ DOMAIN u = 1 .. Len(u)
      /\ \A n \in DOMAIN t : n \in DOMAIN u /\ u[n] = t[n]
      /\ \A n \in DOMAIN s : n > 1 => Len(t) + n - 1 \in DOMAIN u /\ u[Len(t) + n - 1] = s[n]
      /\ \A n \in DOMAIN u : \/ n \in DOMAIN t
                             \/ n > Len(t) /\ n - Len(t) + 1 \in DOMAIN s /\ u[n] = s[n - Len(t) + 1]
  BY Spliced DEF IsRest
<1>2. Reads(u, 2)
  <2> SUFFICES ASSUME NEW n \in DOMAIN u, n >= 2, NeedsRead(u[n])
               PROVE  u[n - 1].do = "find" /\ u[n - 1].id = u[n].id
    BY <1>1 DEF Reads
  <2>1. CASE n \in DOMAIN t
    <3>1. n >= 1 /\ NeedsRead(t[n]) BY <2>1, <1>1
    <3>2. n > 1 /\ t[n - 1].do = "find" /\ t[n - 1].id = t[n].id BY <3>1, <2>1 DEF Reads
    <3>3. n - 1 \in DOMAIN t BY <3>2, <2>1, <1>1
    <3> QED BY <3>2, <3>3, <2>1, <1>1
  <2>2. CASE n \notin DOMAIN t
    <3> DEFINE k == n - Len(t) + 1
    <3>1. k \in DOMAIN s /\ u[n] = s[k] /\ k >= 2 BY <2>2, <1>1
    <3>2. s[k - 1].do = "find" /\ s[k - 1].id = s[k].id BY <3>1 DEF Reads
    <3>3. CASE k - 1 > 1
      <4>1. k - 1 \in DOMAIN s BY <3>1, <1>1
      <4>2. u[Len(t) + (k - 1) - 1] = s[k - 1] BY <4>1, <3>3, <1>1
      <4>3. Len(t) + (k - 1) - 1 = n - 1 BY <1>1
      <4> QED BY <4>2, <4>3, <3>1, <3>2
    <3>4. CASE ~(k - 1 > 1)
      <4>1. k - 1 = 1 BY <3>1, <3>4, <1>1
      <4>2. s[1].do = "find" BY <4>1, <3>2
      <4>3. Len(t) = 0 BY <4>2
      <4>4. n = 1 BY <4>1, <4>3, <1>1
      <4> QED BY <4>4
    <3> QED BY <3>3, <3>4
  <2> QED BY <2>1, <2>2
<1>3. Reports(u)
  <2> SUFFICES ASSUME NEW n \in DOMAIN u, IsWrite(u[n])
               PROVE  /\ n < Len(u) /\ u[n + 1].do = "reload" /\ u[n + 1].id = u[n].id
                      /\ \E m \in DOMAIN u : m > n /\ u[m].do = "emit" /\ u[m].id = u[n].id
                      /\ Audited(u[n].id) => \E m \in DOMAIN u : m > n /\ u[m].do = "audit" /\ u[m].id = u[n].id
    BY DEF Reports
  <2>1. CASE n \in DOMAIN t
    <3>1. /\ n < Len(t) /\ t[n + 1].do = "reload" /\ t[n + 1].id = t[n].id
          /\ \E m \in DOMAIN t : m > n /\ t[m].do = "emit" /\ t[m].id = t[n].id
          /\ Audited(t[n].id) => \E m \in DOMAIN t : m > n /\ t[m].do = "audit" /\ t[m].id = t[n].id
      BY <2>1, <1>1 DEF Reports
    <3>2. n + 1 \in DOMAIN t BY <3>1, <2>1, <1>1
    <3> QED BY <3>1, <3>2, <2>1, <1>1
  <2>2. CASE n \notin DOMAIN t
    <3> DEFINE k == n - Len(t) + 1
    <3>1. k \in DOMAIN s /\ u[n] = s[k] /\ k >= 2 BY <2>2, <1>1
    <3>2. /\ k < Len(s) /\ s[k + 1].do = "reload" /\ s[k + 1].id = s[k].id
          /\ \E m \in DOMAIN s : m > k /\ s[m].do = "emit" /\ s[m].id = s[k].id
          /\ Audited(s[k].id) => \E m \in DOMAIN s : m > k /\ s[m].do = "audit" /\ s[m].id = s[k].id
      BY <3>1 DEF Reports
    <3>3. k + 1 \in DOMAIN s /\ k + 1 > 1 /\ Len(t) + (k + 1) - 1 = n + 1 BY <3>1, <3>2, <1>1
    <3>4. u[n + 1] = s[k + 1] /\ n < Len(u) BY <3>2, <3>3, <1>1
    <3>5. ASSUME NEW m \in DOMAIN s, m > k
          PROVE Len(t) + m - 1 \in DOMAIN u /\ u[Len(t) + m - 1] = s[m] /\ Len(t) + m - 1 > n
      BY <3>1, <3>5, <1>1
    <3> HIDE DEF k
    <3> QED BY <3>1, <3>2, <3>4, <3>5
  <2> QED BY <2>1, <2>2
<1> QED BY <1>2, <1>3

\* ... and says nothing of rows it neither touched nor is going to write.
LEMMA RestBacked ==
  ASSUME NEW s, NEW t, NEW u, IsRest(s, t, u), NEW Z, NEW Y, Backed(s, Z), Backed(t, Y), Z \subseteq Y,
         IsWrite(s[1]) => s[1].id \in Y
  PROVE  Backed(u, Y)
<1>1. /\ Len(s) \in Nat /\ Len(t) \in Nat /\ Len(u) = Len(t) + Len(s) - 1 /\ Len(s) > 0
      /\ DOMAIN t = 1 .. Len(t) /\ DOMAIN s = 1 .. Len(s) /\ DOMAIN u = 1 .. Len(u)
      /\ \A n \in DOMAIN t : n \in DOMAIN u /\ u[n] = t[n]
      /\ \A n \in DOMAIN s : n > 1 => Len(t) + n - 1 \in DOMAIN u /\ u[Len(t) + n - 1] = s[n]
      /\ \A n \in DOMAIN u : \/ n \in DOMAIN t
                             \/ n > Len(t) /\ n - Len(t) + 1 \in DOMAIN s /\ u[n] = s[n - Len(t) + 1]
  BY Spliced DEF IsRest
<1> SUFFICES ASSUME NEW n \in DOMAIN u, Says(u[n]), u[n].id \notin Y
             PROVE  \E m \in DOMAIN u : m < n /\ IsWrite(u[m]) /\ u[m].id = u[n].id
  BY DEF Backed
<1>2. CASE n \in DOMAIN t
  <2>1. \E m \in DOMAIN t : m < n /\ IsWrite(t[m]) /\ t[m].id = t[n].id BY <1>2, <1>1 DEF Backed
  <2> QED BY <2>1, <1>2, <1>1
<1>3. CASE n \notin DOMAIN t
  <2> DEFINE k == n - Len(t) + 1
  <2>1. k \in DOMAIN s /\ u[n] = s[k] /\ k >= 2 BY <1>3, <1>1
  <2>2. PICK m \in DOMAIN s : m < k /\ IsWrite(s[m]) /\ s[m].id = s[k].id BY <2>1 DEF Backed
  <2>3. m > 1
    <3>1. m # 1 BY <2>1, <2>2
    <3> QED BY <3>1, <1>1
  <2>4. Len(t) + m - 1 \in DOMAIN u /\ u[Len(t) + m - 1] = s[m] /\ Len(t) + m - 1 < n BY <2>2, <2>3, <1>1
  <2> QED BY <2>1, <2>2, <2>4
<1> QED BY <1>2, <1>3

LEMMA RestBelongs ==
  ASSUME NEW s, NEW t, NEW u, IsRest(s, t, u), NEW op, Belong(s, op), Belong(t, op)
  PROVE  Belong(u, op)
<1>1. \A n \in DOMAIN u : (\E m \in DOMAIN t : u[n] = t[m]) \/ \E m \in DOMAIN s : u[n] = s[m] BY RestHas
<1> QED BY <1>1 DEF Belong

(* --------------------- what a step leaves to the others ------------------- *)

\* The changes that an open transaction may take back are those of one call.
LEMMA RollsBackOwn ==
  ASSUME Base, NEW c \in Clients, NEW d \in Clients, c # d, tx = c, todo[c] # <<>>
  PROVE  /\ Changed(saved, call[d].n) = Changed(db, call[d].n)
         /\ \A e \in db.trail : e.call = call[d].n => e \in saved.trail
<1>1. c # None BY NoneAssumption
<1>2. /\ saved.changed \subseteq db.changed /\ \A p \in db.changed \ saved.changed : p[1] = call[c].n
      /\ \A e \in db.trail \ saved.trail : e.call = call[c].n
  BY <1>1 DEF Base, TxInv
<1>3. call[c].n # call[d].n
  <2>1. call[c].n > 0 /\ (call[d].n = call[c].n => call[c].n = 0) BY DEF Base, CallsInv, CallInv
  <2> QED BY <2>1
<1>4. \A i \in Ids : <<call[d].n, i>> \in db.changed => <<call[d].n, i>> \in saved.changed
  <2> SUFFICES ASSUME NEW i \in Ids, <<call[d].n, i>> \in db.changed, <<call[d].n, i>> \notin saved.changed
               PROVE FALSE
    OBVIOUS
  <2>1. <<call[d].n, i>>[1] = call[c].n BY <1>2
  <2> QED BY <2>1, <1>3
<1> QED BY <1>2, <1>3, <1>4 DEF Changed

LEMMA NotTheSame ==
  ASSUME Base, NEW c \in Clients, NEW d \in Clients, c # d, todo[c] # <<>>
  PROVE  call[c].n # call[d].n /\ call[c].n > 0 /\ call[c].n \in Nat /\ call[d].n \in Nat /\ call[c].n \in 1 .. calls
<1>1. call[c].n > 0 /\ (call[d].n = call[c].n => call[c].n = 0) /\ call[c].n <= calls BY DEF Base, CallsInv, CallInv
<1>2. call[c].n \in Nat /\ call[d].n \in Nat /\ calls \in Nat BY DEF Base, TypeInv, Ended
<1> QED BY <1>1, <1>2

LEMMA StoresSpare ==
  ASSUME Base, NEW c \in Clients, NEW d \in Clients, c # d, todo[c] # <<>>, NEW mine, Stores(c, mine),
         todo'[d] = todo[d], call'[d] = call[d], seen'[d] = seen[d]
  PROVE  Spares(c, d)
<1>1. call[c].n # call[d].n BY NotTheSame
<1>2. db'.changed = db.changed \cup {<<call[c].n, i>> : i \in mine} /\ db.trail \subseteq db'.trail
      /\ tx' = tx /\ tx \in {None, c} /\ mine \in SUBSET Ids
  BY DEF Stores
<1>3. Changed(db', call[d].n) = Changed(db, call[d].n)
  <2>1. \A i \in Ids : <<call[d].n, i>> \in db'.changed => <<call[d].n, i>> \in db.changed
    <3> SUFFICES ASSUME NEW i \in Ids, <<call[d].n, i>> \in {<<call[c].n, j>> : j \in mine} PROVE FALSE BY <1>2
    <3> QED BY <1>1
  <2> QED BY <2>1, <1>2 DEF Changed
<1>4. tx # d BY <1>2, NoneAssumption
<1> QED BY <1>2, <1>3, <1>4 DEF Spares

LEMMA ThrowsSpare ==
  ASSUME Base, NEW c \in Clients, NEW d \in Clients, c # d, Throws(c)
  PROVE  Spares(c, d)
<1>1. todo[c] # <<>> /\ todo'[d] = todo[d] /\ call'[d] = call[d] /\ seen' = seen BY DEF Throws
<1>2. tx \in {None, c} /\ tx # d /\ None # d BY NoneAssumption DEF Throws
<1>3. CASE tx = c
  <2>1. db' = saved /\ tx' = None BY <1>3 DEF Throws
  <2>2. Changed(saved, call[d].n) = Changed(db, call[d].n) /\ \A e \in db.trail : e.call = call[d].n => e \in saved.trail
    BY <1>1, <1>3, RollsBackOwn
  <2> QED BY <1>1, <1>2, <2>1, <2>2 DEF Spares
<1>4. CASE tx # c
  <2>1. db' = db /\ tx' = tx BY <1>4 DEF Throws, Database
  <2> QED BY <1>1, <1>2, <2>1 DEF Spares
<1> QED BY <1>3, <1>4

LEMMA OthersSpared ==
  ASSUME Base, NEW c \in Clients, NEW d \in Clients, c # d, Moves(c)
  PROVE  Spares(c, d)
<1>0. d # None BY NoneAssumption
<1>1. CASE Throws(c) BY <1>1, ThrowsSpare
<1>2. ASSUME NEW steps, NEW miss, NEW mine, Advances(c, steps, miss, mine) PROVE Spares(c, d)
  <2>1. todo[c] # <<>> /\ todo'[d] = todo[d] /\ call'[d] = call[d] /\ Stores(c, mine) BY <1>2 DEF Advances, Goes
  <2>2. seen'[d] = seen[d] BY <1>2 DEF Advances, Sees
  <2> QED BY <2>1, <2>2, StoresSpare
<1>3. CASE RollsBack(c)
  <2>1. todo[c] # <<>> /\ todo'[d] = todo[d] /\ call'[d] = call[d] /\ seen' = seen /\ tx = c /\ db' = saved /\ tx' = None
    BY <1>3 DEF RollsBack, Serves, Goes
  <2>2. Changed(saved, call[d].n) = Changed(db, call[d].n) /\ \A e \in db.trail : e.call = call[d].n => e \in saved.trail
    BY <2>1, RollsBackOwn
  <2> QED BY <1>0, <2>1, <2>2 DEF Spares
<1>4. CASE Begins(c)
  <2>1. todo'[d] = todo[d] /\ call'[d] = call[d] /\ seen' = seen /\ tx = None /\ db' = db /\ tx' = c
    BY <1>4 DEF Begins, Serves, Goes
  <2> QED BY <1>0, <2>1 DEF Spares
<1>5. CASE Commits(c)
  <2>1. todo'[d] = todo[d] /\ call'[d] = call[d] /\ seen' = seen /\ tx \in {None, c} /\ db' = db /\ tx' = None
    BY <1>5 DEF Commits, Serves, Goes
  <2> QED BY <1>0, <2>1 DEF Spares
<1>6. CASE Tells(c) BY <1>6 DEF Tells, Goes, Asleep, Spares
<1>7. CASE Clears(c) BY <1>7 DEF Clears, Clear, Goes, Spares
<1>8. ASSUME NEW steps, Emits(c, steps) PROVE Spares(c, d) BY <1>8 DEF Emits, Goes, Asleep, Spares
<1>9. ASSUME NEW op, NEW A, NEW steps, Starts(c, op, A, steps) PROVE Spares(c, d) BY <1>9 DEF Starts, Spares
<1> QED BY <1>1, <1>2, <1>3, <1>4, <1>5, <1>6, <1>7, <1>8, <1>9 DEF Moves, Went

\* What every step of a call leaves.
LEMMA MovesLeave == ASSUME TypeInv, NEW c \in Clients, Moves(c) PROVE Leaves(c)
<1>0. calls \in Nat /\ faults \in Nat /\ taken \in [Clients -> Seq(Ops)] BY DEF TypeInv
<1>n. \A d \in Clients : d # None BY NoneAssumption
<1>1. CASE Throws(c) BY <1>0, <1>1 DEF Throws, Unmoved, Database, Leaves
<1>2. ASSUME NEW steps, NEW miss, NEW mine, Advances(c, steps, miss, mine) PROVE Leaves(c)
  BY <1>0, <1>2 DEF Advances, Unmoved, Stores, Leaves
<1>3. CASE RollsBack(c) BY <1>0, <1>3 DEF RollsBack, Serves, Unmoved, Leaves
<1>4. CASE Begins(c) BY <1>0, <1>n, <1>4 DEF Begins, Serves, Unmoved, Leaves
<1>5. CASE Commits(c) BY <1>0, <1>5 DEF Commits, Serves, Unmoved, Leaves
<1>6. CASE Tells(c) BY <1>0, <1>6 DEF Tells, Asleep, Leaves
<1>7. CASE Clears(c)
  <2>1. UNCHANGED <<model, held, calls, faults, told, listeners, saved>> /\ taken' = [taken EXCEPT ![c] = <<>>]
    BY <1>7 DEF Clears, Clear
  <2>2. \A d \in Clients : d # c => taken'[d] = taken[d] BY <1>0, <2>1
  <2> QED BY <1>0, <1>7, <2>1, <2>2 DEF Leaves
<1>8. ASSUME NEW steps, Emits(c, steps) PROVE Leaves(c) BY <1>0, <1>8 DEF Emits, Asleep, Leaves
<1>9. ASSUME NEW op, NEW A, NEW steps, Starts(c, op, A, steps) PROVE Leaves(c)
  <2>1. /\ UNCHANGED <<model, saved, held, listeners, told, faults, unit, serial, fate>> /\ calls' = calls + 1
        /\ taken' = taken \/ taken' = [taken EXCEPT ![c] = unit]
    BY <1>9 DEF Starts
  <2>2. \A d \in Clients : d # c => taken'[d] = taken[d] BY <1>0, <2>1
  <2> QED BY <1>0, <1>9, <2>1, <2>2 DEF Leaves
<1> QED BY <1>1, <1>2, <1>3, <1>4, <1>5, <1>6, <1>7, <1>8, <1>9 DEF Moves, Went

(* ----------------------------- types are kept ----------------------------- *)

LEMMA ClearTypes ==
  ASSUME TypeInv, NEW c \in Clients, Clear(c)
  PROVE  /\ unit' = <<>> /\ taken' \in [Clients -> Seq(Ops)] /\ taken'[c] = <<>>
         /\ \A d \in Clients : d # c => taken'[d] = taken[d]
         /\ fate' \in SUBSET Fates
         /\ \A f \in fate' : \/ f \in fate
                             \/ f.how = "late"
                             \/ /\ f.how = (IF call[c].undone THEN "undone" ELSE "flushed") /\ f.call = call[c].n
                                /\ \E n \in DOMAIN taken[c] : f.op = taken[c][n]
<1>1. unit \in Seq(Ops) /\ taken[c] \in Seq(Ops) /\ call[c].n \in Nat /\ fate \in SUBSET Fates
      /\ taken \in [Clients -> Seq(Ops)]
  BY DEF TypeInv, Ended
<1> DEFINE h == IF call[c].undone THEN "undone" ELSE "flushed"
           F == {[op |-> taken[c][n], how |-> h, call |-> call[c].n] : n \in DOMAIN taken[c]}
           L == {f \in Left("late", call[c].n) : f.op \notin Range(taken[c])}
<1>2. fate' = fate \cup F \cup L /\ unit' = <<>> /\ taken' = [taken EXCEPT ![c] = <<>>] BY DEF Clear
<1>3. ASSUME NEW f \in F
      PROVE  f \in Fates /\ f.how = h /\ f.call = call[c].n /\ \E n \in DOMAIN taken[c] : f.op = taken[c][n]
  <2>1. PICK n \in DOMAIN taken[c] : f = [op |-> taken[c][n], how |-> h, call |-> call[c].n] BY <1>3
  <2>2. taken[c][n] \in Ops /\ h \in {"flushed", "undone"} BY <1>1
  <2> HIDE DEF h
  <2> QED BY <2>1, <2>2, <1>1 DEF Fates
<1>4. ASSUME NEW f \in L PROVE f \in Fates /\ f.how = "late"
  <2>1. f \in Left("late", call[c].n) BY <1>4
  <2>2. PICK n \in DOMAIN unit : f = [op |-> unit[n], how |-> "late", call |-> call[c].n] BY <2>1 DEF Left
  <2>3. unit[n] \in Ops BY <1>1
  <2> QED BY <2>2, <2>3, <1>1 DEF Fates
<1> HIDE DEF F, L
<1>5. <<>> \in Seq(Ops) OBVIOUS
<1>6. taken' \in [Clients -> Seq(Ops)] /\ taken'[c] = <<>> /\ \A d \in Clients : d # c => taken'[d] = taken[d]
  BY <1>1, <1>2, <1>5
<1> QED BY <1>1, <1>2, <1>3, <1>4, <1>6

LEMMA MovesTyped == ASSUME TypeInv, NEW c \in Clients, Moves(c) PROVE TypeInv'
<1> USE DEF TypeInv
<1>1. CASE Throws(c)
  <2>1. CASE tx = c
    <3>1. db' = saved /\ tx' = None /\ poisoned' = FALSE /\ saved' = saved BY <1>1, <2>1 DEF Throws
    <3> QED BY <1>1, <3>1 DEF Throws, Unmoved
  <2>2. CASE tx # c
    <3>1. UNCHANGED <<db, saved, tx, poisoned>> BY <1>1, <2>2 DEF Throws, Database
    <3> QED BY <1>1, <3>1 DEF Throws, Unmoved
  <2> QED BY <2>1, <2>2
<1>2. ASSUME NEW steps, NEW miss, NEW mine, Advances(c, steps, miss, mine) PROVE TypeInv'
  BY <1>2 DEF Advances, Goes, Stores, Sees, Unmoved
<1>3. CASE RollsBack(c) BY <1>3 DEF RollsBack, Serves, Goes, Unmoved
<1>4. CASE Begins(c) BY <1>4 DEF Begins, Serves, Goes, Unmoved
<1>5. CASE Commits(c) BY <1>5 DEF Commits, Serves, Goes, Unmoved
<1>6. CASE Tells(c) BY <1>6 DEF Tells, Goes, Asleep
<1>7. CASE Clears(c)
  <2>1. /\ unit' = <<>> /\ taken' \in [Clients -> Seq(Ops)] /\ fate' \in SUBSET Fates BY <1>7, ClearTypes DEF Clears
  <2>2. UNCHANGED <<model, db, saved, tx, poisoned, seen, held, listeners, told, calls, faults, loose, meanwhile, serial>>
        /\ todo' \in [Clients -> Seq(Steps)] /\ call' \in [Clients -> Ended]
    BY <1>7 DEF Clears, Clear, Goes
  <2>3. <<>> \in Seq(Ops) OBVIOUS
  <2> QED BY <2>1, <2>2, <2>3
<1>8. ASSUME NEW steps, Emits(c, steps) PROVE TypeInv' BY <1>8 DEF Emits, Goes, Asleep
<1>9. ASSUME NEW op, NEW A, NEW steps, Starts(c, op, A, steps) PROVE TypeInv'
  <2>1. UNCHANGED <<model, db, saved, tx, poisoned, held, listeners, told, faults, loose, unit, serial, fate>>
        /\ todo' \in [Clients -> Seq(Steps)] /\ call' \in [Clients -> Ended] /\ calls' \in Nat
        /\ seen' \in [Clients -> Stored \cup {None}] /\ meanwhile' \in [Clients -> SUBSET Ids]
    BY <1>9 DEF Starts
  <2>2. taken' \in [Clients -> Seq(Ops)] BY <1>9 DEF Starts
  <2> QED BY <2>1, <2>2
<1> QED BY <1>1, <1>2, <1>3, <1>4, <1>5, <1>6, <1>7, <1>8, <1>9 DEF Moves, Went

LEMMA ListensIs ==
  ASSUME TypeInv, NEW l \in Who, Subscribe(l, {"created", "updated"}) \/ Unsubscribe(l)
  PROVE  /\ listeners' \in Seq(Listener)
         /\ \/ listeners' = Append(listeners, [who |-> l, names |-> {"created", "updated"}, once |-> TRUE])
            \/ Picked(listeners', listeners, Listener, {x \in Range(listeners) : x.who # l})
         /\ UNCHANGED <<held, told>>
<1>1. listeners \in Seq(Listener) BY DEF TypeInv
<1>2. CASE Subscribe(l, {"created", "updated"})
  <2> DEFINE x == [who |-> l, names |-> {"created", "updated"}, once |-> TRUE]
  <2>1. listeners' = Append(listeners, x) BY <1>2 DEF Subscribe, Once, Registration
  <2>2. x \in Listener
    <3>1. {"created", "updated"} \subseteq Acts /\ l \in Voices BY DEF Acts, Voices
    <3> QED BY <3>1 DEF Listener
  <2> HIDE DEF x
  <2>3. listeners' \in Seq(Listener) BY <1>1, <2>1, <2>2
  <2> QED BY <1>2, <2>1, <2>3 DEF Subscribe, x
<1>3. CASE Unsubscribe(l)
  <2> DEFINE Good == {x \in Range(listeners) : x.who # l}
  <2>1. listeners' = Among(listeners, Good) BY <1>3 DEF Unsubscribe, Off
  <2>2. Picked(Among(listeners, Good), listeners, Listener, Good) BY <1>1, AmongPicks
  <2> HIDE DEF Good
  <2>3. Picked(listeners', listeners, Listener, Good) BY <2>1, <2>2
  <2>4. listeners' \in Seq(Listener) BY <2>3 DEF Picked, Picks
  <2> QED BY <1>3, <2>3, <2>4 DEF Unsubscribe, Good
<1> QED BY <1>2, <1>3

LEMMA RegistersIs ==
  ASSUME TypeInv, NEW c \in Clients, NEW i \in Ids, NEW do, NEW e, Registers(c, do, i, e)
  PROVE  /\ Op(serial + 1, do, i, e) \in Ops
         /\ Op(serial + 1, do, i, e).n = serial + 1 /\ Op(serial + 1, do, i, e).id = i /\ Op(serial + 1, do, i, e).entity = e
         /\ unit' \in Seq(Ops) /\ unit' = Append(unit, Op(serial + 1, do, i, e)) /\ serial' = serial + 1 /\ serial \in Nat
<1>1. unit \in Seq(Ops) /\ serial \in Nat /\ held[c] \in Loaded \cup {None} BY DEF TypeInv
<1>2. e \in Stored \cup {None} BY <1>1 DEF Registers, Loaded
<1>3. do \in {"Added", "Modified", "Deleted"} /\ serial' = serial + 1 /\ unit' = Append(unit, Op(serial + 1, do, i, e))
  BY DEF Registers
<1> DEFINE x == Op(serial + 1, do, i, e)
<1>4. x \in Ops /\ x.n = serial + 1 /\ x.id = i /\ x.entity = e BY <1>1, <1>2, <1>3 DEF Op, Ops
<1> HIDE DEF x
<1>5. Append(unit, x) \in Seq(Ops) BY <1>1, <1>4
<1> QED BY <1>1, <1>3, <1>4, <1>5 DEF x

LEMMA RestsTyped == ASSUME TypeInv, Rests PROVE TypeInv'
<1>1. CASE UNCHANGED uvars BY <1>1 DEF TypeInv, uvars, vars
<1>2. ASSUME Still, NEW c \in Clients, NEW i \in Ids, Loads(c, i) PROVE TypeInv'
  BY <1>2 DEF TypeInv, Still, Loads
<1>3. ASSUME Still, Listens PROVE TypeInv'
  <2>1. listeners' \in Seq(Listener) /\ UNCHANGED <<held, told>> BY <1>3, ListensIs DEF Listens
  <2> QED BY <1>3, <2>1 DEF TypeInv, Still, Listens
<1>4. ASSUME Still, NEW c \in Clients, NEW i \in Ids, NEW do, NEW e, Registers(c, do, i, e) PROVE TypeInv'
  <2>1. unit' \in Seq(Ops) /\ serial' = serial + 1 BY <1>4, RegistersIs
  <2> QED BY <1>4, <2>1 DEF TypeInv, Still, Registers
<1>5. ASSUME Still, Rollback PROVE TypeInv'
  <2>1. unit \in Seq(Ops) /\ fate \in SUBSET Fates BY DEF TypeInv
  <2>2. ASSUME NEW f \in Left("dropped", 0) PROVE f \in Fates
    <3>1. PICK n \in DOMAIN unit : f = [op |-> unit[n], how |-> "dropped", call |-> 0] BY <2>2 DEF Left
    <3>2. unit[n] \in Ops BY <2>1
    <3> QED BY <3>1, <3>2 DEF Fates
  <2>3. fate' \in SUBSET Fates BY <1>5, <2>1, <2>2 DEF Rollback
  <2>4. unit' = <<>> /\ <<>> \in Seq(Ops) BY <1>5 DEF Rollback
  <2> QED BY <1>5, <2>3, <2>4 DEF TypeInv, Still, Rollback, vars
<1> QED BY <1>1, <1>2, <1>3, <1>4, <1>5 DEF Rests

(* ------------------------------ calls are kept ---------------------------- *)

\* The rest of a call keeps its shape; Y is what it has touched now.
LEMMA CallGoes ==
  ASSUME TypeInv, CallsInv, NEW c \in Clients, NEW steps, NEW miss, Goes(c, steps, miss), NEW Y,
         steps \in Seq(Steps), Unframed(steps), Reads(steps, 1), Reports(steps), Backed(steps, Y), Belong(steps, call[c].op),
         Now(c).do \in Frame \cup {"find"} => steps = <<>>,
         Touched(c) \subseteq Y \/ Now(c).do = "commit", IsWrite(Now(c)) => Now(c).id \in Y
  PROVE  /\ Framed(todo'[c]) /\ Reads(todo'[c], 2) /\ Reports(todo'[c]) /\ Backed(todo'[c], Y)
         /\ Belong(todo'[c], call'[c].op)
         /\ IsRest(todo[c], steps, todo'[c])
         /\ todo'[c] # <<>> => call'[c].n > 0 /\ call'[c].end = "running"
         /\ \A n \in DOMAIN todo'[c] : todo'[c][n].do # "begin"
         /\ (\E n \in DOMAIN todo'[c] : todo'[c][n].do = "commit") <=>
              Now(c).do # "commit" /\ \E n \in DOMAIN todo[c] : todo[c][n].do = "commit"
<1> DEFINE s == todo[c]
           u == todo'[c]
<1>1. s \in Seq(Steps) /\ s # <<>> /\ u = steps \o Tail(s) /\ Now(c) = s[1] BY NowIs DEF TypeInv, Goes
<1>2. IsRest(s, steps, u) BY <1>1 DEF IsRest
<1>3. Framed(s) /\ Reads(s, 2) /\ Reports(s) /\ Backed(s, Touched(c)) /\ Belong(s, call[c].op)
  BY DEF CallsInv, CallInv
<1>4. s[1].do \in Frame => steps = <<>> BY <1>1
<1>5. s[1].do = "find" => steps = <<>> BY <1>1
<1>a. Now(c).do = s[1].do /\ (IsWrite(s[1]) => s[1].id \in Y) BY <1>1
<1>6. call'[c].op = call[c].op /\ (u # <<>> => call'[c].n > 0 /\ call'[c].end = "running")
  <2>1. call[c].n > 0 /\ call[c].end = "running" BY <1>1 DEF CallsInv, CallInv
  <2> QED BY <2>1 DEF Goes
<1> HIDE DEF s, u
<1>7. /\ Framed(u) /\ \A n \in DOMAIN u : u[n].do # "begin"
      /\ (\E n \in DOMAIN u : u[n].do = "commit") <=> s[1].do # "commit" /\ \E n \in DOMAIN s : s[n].do = "commit"
      /\ s[1].do = "commit" => \A n \in DOMAIN u : u[n].do = "clear"
  BY <1>2, <1>3, <1>4, RestFramed
<1>8. Reads(u, 2) /\ Reports(u) BY <1>2, <1>3, <1>5, RestReports
<1>9. Backed(u, Y)
  <2>1. CASE Touched(c) \subseteq Y BY <1>2, <1>3, <1>a, <2>1, RestBacked
  <2>2. CASE s[1].do = "commit" BY <2>2, <1>7 DEF Backed, Says
  <2> QED BY <2>1, <2>2, <1>a
<1>10. Belong(u, call'[c].op)
  <2>1. Belong(u, call[c].op) BY <1>2, <1>3, RestBelongs
  <2> QED BY <2>1, <1>6
<1> QED BY <1>2, <1>6, <1>7, <1>8, <1>9, <1>10, <1>a DEF s, u

LEMMA CallPrimed ==
  ASSUME model' = model, NEW d,
         call'[d].n <= calls', todo'[d] # <<>> => call'[d].n > 0 /\ call'[d].end = "running",
         \A e \in Clients : e # d /\ call'[e].n = call'[d].n => call'[d].n = 0,
         Framed(todo'[d]), Reads(todo'[d], 2), Reports(todo'[d]), Backed(todo'[d], Touched(d)'),
         Belong(todo'[d], call'[d].op),
         tx' = d <=> todo'[d] # <<>> /\ Head(todo'[d]).do # "begin" /\ \E n \in DOMAIN todo'[d] : todo'[d][n].do = "commit"
  PROVE  CallInv(d)'
<1>1. Reads(todo, 2)' <=> Reads(todo, 2)' OBVIOUS
<1>2. Reads(todo[d], 2)' BY DEF Reads, NeedsRead, Versioned, IsWrite
<1>3. Reports(todo[d])' BY DEF Reports, Audited, IsWrite
<1>4. Framed(todo[d])' /\ Belong(todo[d], call[d].op)' BY DEF Framed, Belong
<1>5. Backed(todo[d], Touched(d))' BY DEF Backed
<1>6. (tx = d <=> todo[d] # <<>> /\ Now(d).do # "begin" /\ \E n \in DOMAIN todo[d] : todo[d][n].do = "commit")'
  BY DEF Now
<1> QED BY <1>2, <1>3, <1>4, <1>5, <1>6 DEF CallInv

\* Numbers of calls stay apart.
LEMMA Apart ==
  ASSUME TypeInv, CallsInv, NEW c \in Clients, Moves(c), NEW d \in Clients
  PROVE  /\ call'[d].n <= calls' /\ \A e \in Clients : e # d /\ call'[e].n = call'[d].n => call'[d].n = 0
         /\ d # c => call'[d] = call[d]
<1>0. calls \in Nat /\ calls' \in Nat /\ calls <= calls' BY MovesLeave DEF Leaves, TypeInv
<1>1. \A e \in Clients : call[e].n \in Nat BY DEF TypeInv, Ended
<1>2. \A e \in Clients : e # c => call'[e] = call[e]
  BY DEF Moves, Went, Throws, Advances, RollsBack, Begins, Commits, Serves, Tells, Clears, Emits, Starts, Goes
<1>3. \A e \in Clients : call[e].n <= calls BY DEF CallsInv, CallInv
<1>4. \A e, f \in Clients : e # f /\ call[e].n = call[f].n => call[f].n = 0 BY DEF CallsInv, CallInv
<1>5. CASE call'[c].n = call[c].n
  <2>1. \A e \in Clients : call'[e].n = call[e].n BY <1>2, <1>5
  <2> QED BY <2>1, <1>0, <1>1, <1>2, <1>3, <1>4
<1>6. CASE call'[c].n = calls + 1 /\ calls' = calls + 1
  <2>1. \A e \in Clients : e # c => call'[e].n <= calls /\ call'[e].n \in Nat BY <1>1, <1>2, <1>3
  <2> QED BY <2>1, <1>0, <1>1, <1>2, <1>4, <1>6
<1>7. call'[c].n = call[c].n \/ (call'[c].n = calls + 1 /\ calls' = calls + 1)
  BY DEF Moves, Went, Throws, Advances, RollsBack, Begins, Commits, Serves, Tells, Clears, Emits, Starts, Goes
<1> QED BY <1>5, <1>6, <1>7

LEMMA OthersCalls ==
  ASSUME Base, NEW c \in Clients, Moves(c), NEW d \in Clients, d # c
  PROVE  CallInv(d)'
<1>1. Spares(c, d) BY OthersSpared
<1>2. model' = model BY MovesLeave DEF Leaves, Base
<1>3. call'[d].n <= calls' /\ \A e \in Clients : e # d /\ call'[e].n = call'[d].n => call'[d].n = 0
  BY Apart DEF Base
<1>4. CallInv(d) BY DEF Base, CallsInv
<1>5. Touched(d)' = Touched(d) BY <1>1 DEF Spares, Touched, Changed
<1>6. todo'[d] = todo[d] /\ call'[d] = call[d] /\ (tx' = d <=> tx = d) BY <1>1 DEF Spares
<1>7. /\ todo[d] # <<>> => call[d].n > 0 /\ call[d].end = "running"
      /\ Framed(todo[d]) /\ Reads(todo[d], 2) /\ Reports(todo[d]) /\ Backed(todo[d], Touched(d)) /\ Belong(todo[d], call[d].op)
      /\ tx = d <=> todo[d] # <<>> /\ Head(todo[d]).do # "begin" /\ \E n \in DOMAIN todo[d] : todo[d][n].do = "commit"
  BY <1>4 DEF CallInv, Now
<1>8. Backed(todo'[d], Touched(d)') BY <1>5, <1>6, <1>7
<1>9. /\ Framed(todo'[d]) /\ Reads(todo'[d], 2) /\ Reports(todo'[d]) /\ Belong(todo'[d], call'[d].op)
      /\ todo'[d] # <<>> => call'[d].n > 0 /\ call'[d].end = "running"
      /\ tx' = d <=> todo'[d] # <<>> /\ Head(todo'[d]).do # "begin" /\ \E n \in DOMAIN todo'[d] : todo'[d][n].do = "commit"
  BY <1>6, <1>7
<1> QED BY <1>2, <1>3, <1>8, <1>9, CallPrimed

\* A call that goes on is as the invariant says, if its transaction is.
LEMMA GoesCalled ==
  ASSUME Base, NEW c \in Clients, Moves(c), NEW steps, NEW miss, Goes(c, steps, miss),
         steps \in Seq(Steps), Unframed(steps), Reads(steps, 1), Reports(steps), Backed(steps, Touched(c)'),
         Belong(steps, call[c].op),
         Now(c).do \in Frame \cup {"find"} => steps = <<>>,
         Touched(c) \subseteq Touched(c)' \/ Now(c).do = "commit", IsWrite(Now(c)) => Now(c).id \in Touched(c)',
         Now(c).do = "begin" => tx' = c, Now(c).do = "commit" => tx' # c,
         Now(c).do \notin {"begin", "commit"} => (tx' = c <=> tx = c)
  PROVE  CallInv(c)'
<1>1. /\ Framed(todo'[c]) /\ Reads(todo'[c], 2) /\ Reports(todo'[c]) /\ Backed(todo'[c], Touched(c)')
      /\ Belong(todo'[c], call'[c].op)
      /\ todo'[c] # <<>> => call'[c].n > 0 /\ call'[c].end = "running"
      /\ \A n \in DOMAIN todo'[c] : todo'[c][n].do # "begin"
      /\ (\E n \in DOMAIN todo'[c] : todo'[c][n].do = "commit") <=>
           Now(c).do # "commit" /\ \E n \in DOMAIN todo[c] : todo[c][n].do = "commit"
  <2>1. TypeInv /\ CallsInv BY DEF Base
  <2> QED BY <2>1, CallGoes
<1>2. model' = model BY MovesLeave DEF Leaves, Base
<1>3. call'[c].n <= calls' /\ \A e \in Clients : e # c /\ call'[e].n = call'[c].n => call'[c].n = 0
  BY Apart DEF Base
<1>4. tx' = c <=> todo'[c] # <<>> /\ Head(todo'[c]).do # "begin" /\ \E n \in DOMAIN todo'[c] : todo'[c][n].do = "commit"
  <2>1. todo'[c] \in Seq(Steps) /\ todo[c] # <<>> BY DEF Goes
  <2>2. \A n \in DOMAIN todo'[c] : todo'[c] # <<>> BY <2>1
  <2>3. todo'[c] # <<>> => Head(todo'[c]).do # "begin" BY <1>1, <2>1
  <2>4. todo[c] # <<>> /\ 1 \in DOMAIN todo[c] /\ Now(c) = todo[c][1] BY <2>1, NowIs DEF Base
  <2>5. CallInv(c) BY DEF Base, CallsInv
  <2>6. tx = c <=> Now(c).do # "begin" /\ \E n \in DOMAIN todo[c] : todo[c][n].do = "commit"
    BY <2>4, <2>5 DEF CallInv
  <2>7. Now(c).do = "begin" => \E n \in DOMAIN todo[c] : todo[c][n].do = "commit" BY <2>4, <2>5 DEF CallInv, Framed
  <2>8. tx' = c <=> Now(c).do # "commit" /\ \E n \in DOMAIN todo[c] : todo[c][n].do = "commit"
    <3>1. CASE Now(c).do = "begin" BY <3>1, <2>7
    <3>2. CASE Now(c).do = "commit" BY <3>2
    <3>3. CASE Now(c).do \notin {"begin", "commit"} BY <3>3, <2>6
    <3> QED BY <3>1, <3>2, <3>3
  <2> QED BY <2>2, <2>3, <2>8, <1>1
<1> QED BY <1>1, <1>2, <1>3, <1>4, CallPrimed

LEMMA NothingGoes ==
  ASSUME NEW Z, NEW op
  PROVE  <<>> \in Seq(Steps) /\ Unframed(<<>>) /\ Reads(<<>>, 1) /\ Reports(<<>>) /\ Backed(<<>>, Z) /\ Belong(<<>>, op)
BY NothingFits DEF Fit

LEMMA MoversCalls ==
  ASSUME Base, NEW c \in Clients, Moves(c)
  PROVE  CallInv(c)'
<1>0. model' = model /\ c # None BY MovesLeave, NoneAssumption DEF Leaves, Base
<1>a. call'[c].n <= calls' /\ \A e \in Clients : e # c /\ call'[e].n = call'[c].n => call'[c].n = 0
  BY Apart DEF Base
<1>b. TypeInv /\ CallInv(c) BY DEF Base, CallsInv
<1>1. CASE Throws(c)
  <2>1. todo'[c] = <<>> /\ tx' # c
    <3>1. CASE tx = c BY <3>1, <1>0, <1>1 DEF Throws
    <3>2. CASE tx # c BY <3>2, <1>1 DEF Throws, Database
    <3> QED BY <3>1, <3>2
  <2>2. Framed(<<>>) /\ Reads(<<>>, 2) /\ Reports(<<>>) /\ Backed(<<>>, Touched(c)') /\ Belong(<<>>, call'[c].op)
    BY DEF Framed, Reads, Reports, Backed, Belong
  <2>3. Framed(todo'[c]) /\ Reads(todo'[c], 2) /\ Reports(todo'[c]) /\ Backed(todo'[c], Touched(c)') /\ Belong(todo'[c], call'[c].op)
    BY <2>1, <2>2
  <2> QED BY <1>0, <1>a, <2>1, <2>3, CallPrimed
<1>2. ASSUME NEW steps, NEW miss, NEW mine, Advances(c, steps, miss, mine) PROVE CallInv(c)'
  <2>1. Goes(c, steps, miss) /\ Stores(c, mine) /\ Fits(c, steps) BY <1>2 DEF Advances
  <2>2. /\ steps \in Seq(Steps) /\ Unframed(steps) /\ Reads(steps, 1) /\ Reports(steps) /\ Backed(steps, Touched(c)')
        /\ Belong(steps, call[c].op)
    BY <2>1 DEF Fits, Fit
  <2>3. Now(c).do \in Frame \cup {"find"} => steps = <<>> BY <2>1 DEF Fits
  <2>4. Touched(c) \subseteq Touched(c)'
    <3>1. db'.changed = db.changed \cup {<<call[c].n, i>> : i \in mine} /\ mine \in SUBSET Ids BY <2>1 DEF Stores
    <3>2. call'[c].n = call[c].n /\ call'[c].missed = call[c].missed \cup miss BY <2>1 DEF Goes
    <3> QED BY <3>1, <3>2, TouchedIs
  <2>5. IsWrite(Now(c)) => Now(c).id \in Touched(c)' BY <2>1 DEF Fits
  <2>6. Now(c).do \notin {"begin", "commit"} /\ tx' = tx BY <2>1 DEF Fits, Frame, Stores
  <2> QED BY <2>1, <2>2, <2>3, <2>4, <2>5, <2>6, GoesCalled
<1>3. ASSUME Goes(c, <<>>, {}), Changed(db', call[c].n) = Changed(db, call[c].n) \/ Now(c).do = "commit", ~IsWrite(Now(c)),
             Now(c).do = "begin" => tx' = c, Now(c).do = "commit" => tx' # c,
             Now(c).do \notin {"begin", "commit"} => (tx' = c <=> tx = c)
      PROVE  CallInv(c)'
  <2>1. Touched(c) \subseteq Touched(c)' \/ Now(c).do = "commit" BY <1>3 DEF Goes, Touched, Changed
  <2>2. <<>> \in Seq(Steps) /\ Unframed(<<>>) /\ Reads(<<>>, 1) /\ Reports(<<>>) /\ Backed(<<>>, Touched(c)') /\ Belong(<<>>, call[c].op)
    BY NothingGoes
  <2>3. Now(c).do \in Frame \cup {"find"} => <<>> = <<>> OBVIOUS
  <2>4. IsWrite(Now(c)) => Now(c).id \in Touched(c)' BY <1>3
  <2> QED BY <1>3, <2>1, <2>2, <2>3, <2>4, GoesCalled
<1>4. CASE RollsBack(c)
  <2>1. Goes(c, <<>>, {}) /\ Now(c).do = "commit" /\ tx' = None BY <1>4 DEF RollsBack, Serves
  <2> QED BY <1>0, <1>3, <2>1 DEF IsWrite
<1>5. CASE Begins(c)
  <2>1. Goes(c, <<>>, {}) /\ Now(c).do = "begin" /\ tx' = c /\ db' = db BY <1>5 DEF Begins, Serves
  <2> QED BY <1>3, <2>1 DEF IsWrite
<1>6. CASE Commits(c)
  <2>1. Goes(c, <<>>, {}) /\ Now(c).do = "commit" /\ tx' = None BY <1>6 DEF Commits, Serves
  <2> QED BY <1>0, <1>3, <2>1 DEF IsWrite
<1>7. CASE Tells(c)
  <2>1. Goes(c, <<>>, {}) /\ Now(c).do = "tell" /\ tx' = tx /\ db' = db BY <1>7 DEF Tells, Asleep
  <2> QED BY <1>3, <2>1 DEF IsWrite
<1>8. CASE Clears(c)
  <2>1. Goes(c, <<>>, {}) /\ Now(c).do = "clear" /\ tx' = tx /\ db' = db BY <1>8 DEF Clears, Clear
  <2> QED BY <1>3, <2>1 DEF IsWrite
<1>9. ASSUME NEW steps, Emits(c, steps) PROVE CallInv(c)'
  <2>1. Goes(c, steps, {}) /\ Now(c).do = "emit" /\ tx' = tx /\ db' = db /\ Heard(c, steps)
    BY <1>9 DEF Emits, Asleep
  <2>2. \A n \in DOMAIN steps : steps[n].do = "tell" /\ steps[n].id = Now(c).id BY <2>1 DEF Heard
  <2>3. steps \in Seq(Steps) BY <1>9 DEF Emits
  <2>4. Touched(c) \subseteq Touched(c)' BY <2>1 DEF Goes, Touched, Changed
  <2>5. Now(c).id \in Touched(c)
    <3>1. Backed(todo[c], Touched(c)) /\ todo[c] # <<>> BY <2>1, <1>b DEF CallInv, Goes
    <3>2. Now(c) = todo[c][1] /\ 1 \in DOMAIN todo[c] /\ todo[c] \in Seq(Steps) BY <3>1, <1>b, NowIs DEF TypeInv
    <3>3. Says(todo[c][1]) BY <3>2, <2>1 DEF Says
    <3> QED BY <3>1, <3>2, <3>3 DEF Backed
  <2>6. Unframed(steps) /\ Reads(steps, 1) /\ Reports(steps) /\ Belong(steps, call[c].op)
    BY <2>2 DEF Unframed, Reads, Reports, Belong, NeedsRead, IsWrite, Frame
  <2>7. Backed(steps, Touched(c)') BY <2>2, <2>4, <2>5 DEF Backed
  <2>8. Now(c).do \notin Frame \cup {"find"} /\ ~IsWrite(Now(c)) BY <2>1 DEF IsWrite, Frame
  <2> QED BY <2>1, <2>3, <2>4, <2>6, <2>7, <2>8, GoesCalled
<1>10. ASSUME NEW op, NEW A, NEW steps, Starts(c, op, A, steps) PROVE CallInv(c)'
  <2>1. /\ todo[c] = <<>> /\ todo'[c] = steps /\ tx' = tx /\ steps \in Opening(A, op) /\ call'[c].n = calls + 1
        /\ call'[c].op = op /\ call'[c].end = "running"
    BY <1>10 DEF Starts
  <2>2. tx # c BY <2>1, <1>b DEF CallInv
  <2>3. calls + 1 > 0 BY <1>b DEF TypeInv
  <2>4. /\ Framed(steps) /\ Reads(steps, 2) /\ Reports(steps) /\ Belong(steps, op) /\ steps \in Seq(Steps)
        /\ \A n \in DOMAIN steps : steps[n].do = "commit" => steps[1].do = "begin"
    BY <2>1 DEF Opening, Reads
  <2>5. Backed(steps, Touched(c)') BY <2>1 DEF Opening, Backed
  <2>6. steps # <<>> => Head(steps) = steps[1] BY <2>4
  <2>7. ~(steps # <<>> /\ Head(steps).do # "begin" /\ \E n \in DOMAIN steps : steps[n].do = "commit") BY <2>4, <2>6
  <2>8. tx' = c <=> todo'[c] # <<>> /\ Head(todo'[c]).do # "begin" /\ \E n \in DOMAIN todo'[c] : todo'[c][n].do = "commit"
    BY <2>1, <2>2, <2>7
  <2>9. Framed(todo'[c]) /\ Reads(todo'[c], 2) /\ Reports(todo'[c]) /\ Backed(todo'[c], Touched(c)') /\ Belong(todo'[c], call'[c].op)
    BY <2>1, <2>4, <2>5
  <2>10. todo'[c] # <<>> => call'[c].n > 0 /\ call'[c].end = "running" BY <2>1, <2>3
  <2> QED BY <1>0, <1>a, <2>8, <2>9, <2>10, CallPrimed
<1> QED BY <1>1, <1>2, <1>4, <1>5, <1>6, <1>7, <1>8, <1>9, <1>10 DEF Moves, Went

LEMMA RestsCalls == ASSUME Base, Rests PROVE CallsInv' /\ TxInv'
<1>1. UNCHANGED <<model, db, saved, tx, poisoned, todo, call, calls, faults>>
  BY DEF Rests, uvars, vars, Still
<1>2. ASSUME NEW d \in Clients PROVE CallInv(d)'
  <2>1. CallInv(d) BY DEF Base, CallsInv
  <2>2. Touched(d)' = Touched(d) BY <1>1 DEF Touched, Changed
  <2>3. /\ todo[d] # <<>> => call[d].n > 0 /\ call[d].end = "running"
        /\ Framed(todo[d]) /\ Reads(todo[d], 2) /\ Reports(todo[d]) /\ Backed(todo[d], Touched(d)) /\ Belong(todo[d], call[d].op)
        /\ tx = d <=> todo[d] # <<>> /\ Head(todo[d]).do # "begin" /\ \E n \in DOMAIN todo[d] : todo[d][n].do = "commit"
        /\ call[d].n <= calls /\ \A e \in Clients : e # d /\ call[e].n = call[d].n => call[d].n = 0
    BY <2>1 DEF CallInv, Now
  <2>4. Backed(todo'[d], Touched(d)') BY <1>1, <2>2, <2>3
  <2>5. /\ Framed(todo'[d]) /\ Reads(todo'[d], 2) /\ Reports(todo'[d]) /\ Belong(todo'[d], call'[d].op)
        /\ todo'[d] # <<>> => call'[d].n > 0 /\ call'[d].end = "running"
        /\ tx' = d <=> todo'[d] # <<>> /\ Head(todo'[d]).do # "begin" /\ \E n \in DOMAIN todo'[d] : todo'[d][n].do = "commit"
        /\ call'[d].n <= calls' /\ \A e \in Clients : e # d /\ call'[e].n = call'[d].n => call'[d].n = 0
    BY <1>1, <2>3
  <2> QED BY <1>1, <2>4, <2>5, CallPrimed
<1>3. TxInv' BY <1>1 DEF Base, TxInv
<1> QED BY <1>2, <1>3 DEF CallsInv

\* A transaction takes back what its own call has done, and that alone.
LEMMA MovesTx == ASSUME Base, NEW c \in Clients, Moves(c) PROVE TxInv'
<1>0. /\ \A p \in db.changed \cup saved.changed : p[1] \in 1 .. calls
      /\ poisoned => tx # None /\ faults > 0 /\ Aborts
      /\ tx # None => /\ saved.changed \subseteq db.changed /\ \A p \in db.changed \ saved.changed : p[1] = call[tx].n
                      /\ saved.trail \subseteq db.trail /\ \A e \in db.trail \ saved.trail : e.call = call[tx].n
  BY DEF Base, TxInv
<1>1. c # None /\ calls \in Nat /\ calls' \in Nat /\ calls <= calls' /\ faults \in Nat /\ faults' \in Nat /\ faults <= faults'
      /\ tx \in Clients \cup {None} /\ poisoned \in BOOLEAN
  BY MovesLeave, NoneAssumption DEF Leaves, Base, TypeInv
<1>2. \A n \in 1 .. calls : n \in 1 .. calls' BY <1>1
<1>3. CASE Throws(c)
  <2>1. CASE tx = c
    <3>1. db' = saved /\ tx' = None /\ poisoned' = FALSE /\ saved' = saved BY <1>3, <2>1 DEF Throws
    <3> QED BY <3>1, <1>0, <1>2 DEF TxInv
  <2>2. CASE tx # c
    <3>1. UNCHANGED <<db, saved, tx, poisoned>> /\ tx = None BY <1>3, <2>2 DEF Throws, Database
    <3> QED BY <3>1, <1>0, <1>2 DEF TxInv
  <2> QED BY <2>1, <2>2
<1>4. ASSUME NEW steps, NEW miss, NEW mine, Advances(c, steps, miss, mine) PROVE TxInv'
  <2>1. Goes(c, steps, miss) /\ Stores(c, mine) /\ calls' = calls BY <1>4 DEF Advances, Unmoved
  <2>2. /\ saved' = saved /\ tx' = tx /\ tx \in {None, c} /\ mine \in SUBSET Ids
        /\ db'.changed = db.changed \cup {<<call[c].n, i>> : i \in mine}
        /\ db.trail \subseteq db'.trail
        /\ \A e \in db'.trail \ db.trail : e.call = call[c].n
        /\ poisoned' => poisoned \/ (faults' > 0 /\ Aborts /\ tx # None)
    BY <2>1 DEF Stores
  <2>3. call'[c].n = call[c].n /\ todo[c] # <<>> BY <2>1 DEF Goes
  <2>4. call[c].n \in 1 .. calls
    <3>1. call[c].n > 0 /\ call[c].n <= calls /\ call[c].n \in Nat
      BY <2>3 DEF Base, CallsInv, CallInv, TypeInv, Ended
    <3> QED BY <3>1, <1>1
  <2>5. \A p \in {<<call[c].n, i>> : i \in mine} : p[1] = call[c].n OBVIOUS
  <2>6. \A p \in db'.changed \cup saved'.changed : p[1] \in 1 .. calls' BY <2>1, <2>2, <2>4, <2>5, <1>0
  <2>7. poisoned' => tx' # None /\ faults' > 0 /\ Aborts BY <2>2, <1>0, <1>1
  <2>8. ASSUME tx' # None
        PROVE  /\ saved'.changed \subseteq db'.changed /\ \A p \in db'.changed \ saved'.changed : p[1] = call'[tx'].n
               /\ saved'.trail \subseteq db'.trail /\ \A e \in db'.trail \ saved'.trail : e.call = call'[tx'].n
    <3>1. tx = c BY <2>2, <2>8
    <3> QED BY <3>1, <2>2, <2>3, <2>5, <1>0, <1>1
  <2> QED BY <2>6, <2>7, <2>8 DEF TxInv
<1>5. CASE RollsBack(c)
  <2>1. db' = saved /\ tx' = None /\ poisoned' = FALSE /\ saved' = saved BY <1>5 DEF RollsBack
  <2> QED BY <2>1, <1>0, <1>2 DEF TxInv
<1>6. CASE Begins(c)
  <2>1. db' = db /\ tx' = c /\ ~poisoned /\ poisoned' = poisoned /\ saved' = db BY <1>6 DEF Begins
  <2> QED BY <2>1, <1>0, <1>2 DEF TxInv
<1>7. CASE Commits(c)
  <2>1. db' = db /\ tx' = None /\ ~poisoned /\ poisoned' = poisoned /\ saved' = saved BY <1>7 DEF Commits
  <2> QED BY <2>1, <1>0, <1>2 DEF TxInv
<1>8. ASSUME UNCHANGED <<db, saved, tx, poisoned>>, tx \in Clients => call'[tx].n = call[tx].n PROVE TxInv'
  <2>1. tx # None => call'[tx'].n = call[tx].n BY <1>1, <1>8
  <2>2. poisoned' => tx' # None /\ faults' > 0 /\ Aborts BY <1>0, <1>1, <1>8
  <2>3. \A p \in db'.changed \cup saved'.changed : p[1] \in 1 .. calls' BY <1>0, <1>2, <1>8
  <2>4. ASSUME tx' # None
        PROVE  /\ saved'.changed \subseteq db'.changed /\ \A p \in db'.changed \ saved'.changed : p[1] = call'[tx'].n
               /\ saved'.trail \subseteq db'.trail /\ \A e \in db'.trail \ saved'.trail : e.call = call'[tx'].n
    BY <2>1, <2>4, <1>0, <1>8
  <2> QED BY <2>2, <2>3, <2>4 DEF TxInv
<1>9. CASE Tells(c)
  BY <1>8, <1>9 DEF Tells, Goes, Asleep
<1>10. CASE Clears(c)
  <2>1. UNCHANGED <<db, saved, tx, poisoned>> /\ \A d \in Clients : call'[d].n = call[d].n
    BY <1>10 DEF Clears, Clear, Goes
  <2> QED BY <2>1, <1>8
<1>11. ASSUME NEW steps, Emits(c, steps) PROVE TxInv'
  <2>1. UNCHANGED <<db, saved, tx, poisoned>> /\ \A d \in Clients : call'[d].n = call[d].n
    BY <1>11 DEF Emits, Goes, Asleep
  <2> QED BY <2>1, <1>8
<1>12. ASSUME NEW op, NEW A, NEW steps, Starts(c, op, A, steps) PROVE TxInv'
  <2>1. UNCHANGED <<db, saved, tx, poisoned>> /\ todo[c] = <<>> /\ \A d \in Clients : d # c => call'[d] = call[d]
    BY <1>12 DEF Starts
  <2>2. tx # c BY <2>1 DEF Base, CallsInv, CallInv
  <2> QED BY <2>1, <2>2, <1>8
<1> QED BY <1>3, <1>4, <1>5, <1>6, <1>7, <1>9, <1>10, <1>11, <1>12 DEF Moves, Went

\* Types, calls and transactions.
LEMMA BaseKept == ASSUME Base, (\E c \in Clients : Moves(c)) \/ Rests PROVE Base'
<1>1. ASSUME NEW c \in Clients, Moves(c) PROVE Base'
  <2>1. TypeInv' BY <1>1, MovesTyped DEF Base
  <2>2. ASSUME NEW d \in Clients PROVE CallInv(d)'
    <3>1. CASE d = c BY <3>1, <1>1, MoversCalls
    <3>2. CASE d # c BY <3>2, <1>1, OthersCalls
    <3> QED BY <3>1, <3>2
  <2>3. TxInv' BY <1>1, MovesTx
  <2> QED BY <2>1, <2>2, <2>3 DEF Base, CallsInv
<1>2. ASSUME Rests PROVE Base'
  <2>1. TypeInv' BY <1>2, RestsTyped DEF Base
  <2> QED BY <1>2, <2>1, RestsCalls DEF Base
<1> QED BY <1>1, <1>2

LEMMA MovesData ==
  ASSUME Base, NEW c \in Clients, Moves(c)
  PROVE  \/ Returns
         \/ \E steps, miss, mine : Advances(c, steps, miss, mine)
<1>1. CASE Throws(c)
  <2>1. CASE tx = c
    <3>1. db' = saved /\ tx' = None /\ saved' = saved /\ tx # None /\ loose' = loose
      BY <1>1, <2>1, NoneAssumption DEF Throws
    <3> QED BY <3>1 DEF Returns, Current
  <2>2. CASE tx # c
    <3>1. UNCHANGED <<db, saved, tx, loose>> BY <1>1, <2>2 DEF Throws, Database
    <3> QED BY <3>1 DEF Returns, Current
  <2> QED BY <2>1, <2>2
<1>2. CASE RollsBack(c)
  <2>1. db' = saved /\ tx' = None /\ saved' = saved /\ tx # None /\ loose' = loose
    BY <1>2, NoneAssumption DEF RollsBack, Serves
  <2> QED BY <2>1 DEF Returns, Current
<1>3. CASE Begins(c)
  <2>1. db' = db /\ tx = None /\ saved' = db /\ loose' = loose BY <1>3 DEF Begins, Serves
  <2> QED BY <2>1 DEF Returns, Current
<1>4. CASE Commits(c)
  <2>1. db' = db /\ tx' = None /\ saved' = saved /\ loose' = loose BY <1>4 DEF Commits, Serves
  <2> QED BY <2>1 DEF Returns, Current
<1>5. ASSUME UNCHANGED <<db, saved, tx, loose>> PROVE Returns BY <1>5 DEF Returns, Current
<1>6. CASE Tells(c) BY <1>5, <1>6 DEF Tells, Asleep
<1>7. CASE Clears(c) BY <1>5, <1>7 DEF Clears, Clear
<1>8. ASSUME NEW steps, Emits(c, steps) PROVE Returns BY <1>5, <1>8 DEF Emits, Asleep
<1>9. ASSUME NEW op, NEW A, NEW steps, Starts(c, op, A, steps) PROVE Returns BY <1>5, <1>9 DEF Starts
<1> QED BY <1>1, <1>2, <1>3, <1>4, <1>6, <1>7, <1>8, <1>9 DEF Moves, Went

LEMMA RestsData == ASSUME Rests PROVE Returns
BY DEF Rests, uvars, vars, Still, Returns, Current

\* The audit log speaks of what was changed or missed.
LEMMA TrailKept ==
  ASSUME Base, TrailInv, (\E c \in Clients : Moves(c)) \/ Rests
  PROVE  TrailInv'
<1>1. CASE Returns BY <1>1 DEF Returns, TrailInv
<1>2. ASSUME NEW c \in Clients, NEW steps, NEW miss, NEW mine, Advances(c, steps, miss, mine) PROVE TrailInv'
  <2>1. /\ db.changed \subseteq db'.changed /\ saved' = saved
        /\ \A e \in db'.trail \ db.trail : <<e.call, e.id>> \in db.changed \/ e.missed
    BY <1>2 DEF Advances, Stores
  <2>2. \A e \in db'.trail : <<e.call, e.id>> \in db'.changed \/ e.missed BY <2>1 DEF TrailInv
  <2> QED BY <2>1, <2>2 DEF TrailInv
<1> QED BY <1>1, <1>2, MovesData, RestsData

\* What an open transaction has changed is what its call has changed.
LEMMA OthersStay ==
  ASSUME Base, NEW c \in Clients, tx # c, NEW D \in Current, NEW i \in Changed(db, call[c].n)
  PROVE  <<call[c].n, i>> \in D.changed
<1>1. CASE tx = None BY <1>1 DEF Current, Changed
<1>2. CASE tx # None
  <2>1. tx \in Clients BY <1>2 DEF Base, TypeInv
  <2>2. todo[tx] # <<>> BY <2>1 DEF Base, CallsInv, CallInv
  <2>3. PICK d : d = tx OBVIOUS
  <2>4. d \in Clients /\ tx = d /\ todo[d] # <<>> /\ d # c BY <2>1, <2>2, <2>3
  <2>5. Changed(saved, call[c].n) = Changed(db, call[c].n) BY <2>4, RollsBackOwn
  <2> QED BY <2>5, <1>2 DEF Current, Changed
<1> QED BY <1>1, <1>2

\* Listeners were told of what was changed or missed, or of what a transaction may lose.
LEMMA ToldKept ==
  ASSUME Base, ToldInv, (\E c \in Clients : Moves(c)) \/ Rests
  PROVE  ToldInv'
<1>1. ASSUME Returns, told' = told PROVE ToldInv' BY <1>1 DEF Returns, ToldInv
<1>2. ASSUME NEW c \in Clients, NEW steps, NEW miss, NEW mine, Advances(c, steps, miss, mine) PROVE ToldInv'
  <2>1. db.changed \subseteq db'.changed /\ saved' = saved /\ tx' = tx /\ told' = told
    BY <1>2 DEF Advances, Stores, Unmoved
  <2>2. ASSUME NEW D \in Current' PROVE \E E \in Current : E.changed \subseteq D.changed BY <2>1, <2>2 DEF Current
  <2> QED BY <2>1, <2>2 DEF ToldInv
<1>3. ASSUME NEW c \in Clients, Tells(c) PROVE ToldInv'
  <2>1. Goes(c, <<>>, {}) /\ Now(c).do = "tell" /\ UNCHANGED <<db, saved, tx>> BY <1>3 DEF Tells, Asleep
  <2>2. PICK t \in Tellings : /\ told' = told \cup {t} /\ t.call = call[c].n /\ t.id = Now(c).id
                              /\ (t.inTx <=> tx = c) /\ (t.missed <=> Now(c).id \in call[c].missed)
    BY <1>3 DEF Tells
  <2>3. Now(c).id \in Touched(c)
    <3>1. Backed(todo[c], Touched(c)) /\ todo[c] # <<>> BY <2>1 DEF Base, CallsInv, CallInv, Goes
    <3>2. Now(c) = todo[c][1] /\ 1 \in DOMAIN todo[c] /\ todo[c] \in Seq(Steps) BY <3>1, NowIs DEF Base, TypeInv
    <3>3. Says(todo[c][1]) BY <3>2, <2>1 DEF Says
    <3> QED BY <3>1, <3>2, <3>3 DEF Backed
  <2>4. ASSUME NEW D \in Current PROVE <<t.call, t.id>> \in D.changed \/ t.missed \/ t.inTx
    <3>1. CASE tx = c BY <3>1, <2>2
    <3>2. CASE Now(c).id \in call[c].missed BY <3>2, <2>2
    <3>3. CASE tx # c /\ Now(c).id \in Changed(db, call[c].n)
      <4>1. <<call[c].n, Now(c).id>> \in D.changed BY <3>3, OthersStay
      <4> QED BY <4>1, <2>2
    <3> QED BY <3>1, <3>2, <3>3, <2>3 DEF Touched
  <2>5. Current' = Current BY <2>1 DEF Current
  <2> QED BY <2>2, <2>4, <2>5 DEF ToldInv
<1>4. ASSUME NEW c \in Clients, Moves(c), ~Tells(c) PROVE ToldInv'
  <2>1. CASE \E steps, miss, mine : Advances(c, steps, miss, mine) BY <2>1, <1>2
  <2>2. CASE Returns
    <3>1. told' = told BY <1>4, MovesLeave DEF Leaves, Base
    <3> QED BY <3>1, <2>2, <1>1
  <2> QED BY <2>1, <2>2, <1>4, MovesData
<1>5. ASSUME Rests PROVE ToldInv'
  <2>1. told' = told
    <3>1. ASSUME Listens PROVE told' = told BY <3>1, ListensIs DEF Listens, Base
    <3> QED BY <1>5, <3>1 DEF Rests, uvars, vars, Still, Loads, Registers, Rollback
  <2> QED BY <2>1, <1>1, <1>5, RestsData
<1> QED BY <1>3, <1>4, <1>5

\* The listener of all events stays.
LEMMA AllKept ==
  ASSUME Base, AllInv, (\E c \in Clients : Moves(c)) \/ Rests
  PROVE  AllInv'
<1> DEFINE r == Registration("all", Acts, FALSE)
<1>0. PICK n \in DOMAIN listeners : listeners[n] = r BY DEF AllInv
<1>a. r.who = "all" /\ r.names = Acts /\ r.once = FALSE BY DEF Registration
<1>b. listeners \in Seq(Listener) BY DEF Base, TypeInv
<1>1. ASSUME listeners' = listeners PROVE AllInv' BY <1>1 DEF AllInv, Registration
<1> HIDE DEF r
<1>c. ASSUME NEW m \in DOMAIN listeners', listeners'[m] = r PROVE AllInv' BY <1>c DEF AllInv, Registration, r
<1>2. ASSUME NEW c \in Clients, NEW steps, Emits(c, steps) PROVE AllInv'
  <2>1. ~listeners[n].once BY <1>0, <1>a
  <2>2. \E m \in DOMAIN listeners' : listeners'[m] = listeners[n] BY <1>2, <2>1 DEF Emits, Stayed
  <2> QED BY <2>2, <1>0, <1>c
<1>3. ASSUME NEW c \in Clients, Moves(c) PROVE AllInv'
  <2>1. listeners' = listeners \/ \E steps : Emits(c, steps) BY <1>3, MovesLeave DEF Leaves, Base
  <2> QED BY <1>1, <1>2, <2>1
<1>4. ASSUME Listens PROVE AllInv'
  <2>1. PICK l \in Who : Subscribe(l, {"created", "updated"}) \/ Unsubscribe(l) BY <1>4 DEF Listens
  <2>2. \/ listeners' = Append(listeners, [who |-> l, names |-> {"created", "updated"}, once |-> TRUE])
        \/ Picked(listeners', listeners, Listener, {x \in Range(listeners) : x.who # l})
    BY <2>1, ListensIs DEF Base
  <2>3. CASE listeners' = Append(listeners, [who |-> l, names |-> {"created", "updated"}, once |-> TRUE])
    <3>1. n \in DOMAIN listeners' /\ listeners'[n] = listeners[n] BY <2>3, <1>0, <1>b
    <3> QED BY <3>1, <1>0, <1>c
  <2>4. CASE Picked(listeners', listeners, Listener, {x \in Range(listeners) : x.who # l})
    <3>1. l # "all" BY ClientsAssumption
    <3>2. r \in {x \in Range(listeners) : x.who # l} BY <1>0, <1>a, <3>1 DEF Range
    <3>3. \E m \in DOMAIN listeners' : listeners'[m] = listeners[n] BY <2>4, <3>2, <1>0 DEF Picked, Picks
    <3> QED BY <3>3, <1>0, <1>c
  <2> QED BY <2>2, <2>3, <2>4
<1>5. ASSUME Rests PROVE AllInv'
  BY <1>1, <1>4, <1>5 DEF Rests, uvars, vars, Loads, Registers, Rollback
<1> QED BY <1>3, <1>5

(* ---------------------------- versions of rows ---------------------------- *)

LEMMA FollowsOn ==
  ASSUME NEW rows \in Rows, NEW new \in Rows, NEW i \in Ids, NEW r \in Stored, NEW S, NEW T, T \subseteq S,
         Follows(S, rows, i, r),
         i \in T /\ rows[i] # None =>
           new[i] # None /\ (new[i].version > rows[i].version \/ (new[i].version = rows[i].version /\ new[i].by = rows[i].by))
  PROVE  Follows(T, new, i, r)
<1>1. rows[i] \in Stored \cup {None} /\ new[i] \in Stored \cup {None} BY DEF Rows
<1>2. r.version \in Nat /\ \A x \in Stored : x.version \in Nat BY DEF Stored
<1> SUFFICES ASSUME i \in T PROVE Follows(T, new, i, r) BY DEF Follows
<1>3. rows[i] # None /\ r.version <= rows[i].version /\ (r.version = rows[i].version => r.by = rows[i].by)
  BY DEF Follows
<1>4. new[i] # None /\ (new[i].version > rows[i].version \/ (new[i].version = rows[i].version /\ new[i].by = rows[i].by))
  BY <1>3
<1>5. rows[i].version \in Nat /\ new[i].version \in Nat BY <1>1, <1>2, <1>3, <1>4
<1>6. r.version <= new[i].version /\ (r.version = new[i].version => r.by = new[i].by) BY <1>2, <1>3, <1>4, <1>5
<1> QED BY <1>4, <1>6 DEF Follows

LEMMA FollowsSelf ==
  ASSUME NEW rows \in Rows, NEW i \in Ids, rows[i] # None, NEW S
  PROVE  Follows(S, rows, i, rows[i])
<1>1. rows[i] \in Stored BY DEF Rows
<1>2. rows[i].version \in Nat BY <1>1 DEF Stored
<1> QED BY <1>2 DEF Follows

LEMMA SnapIs ==
  SnapInv <=> \A D \in Current : \A p : Borrows(p) => Follows(Strict, D.rows, p[1], p[2])
<1>1. ASSUME SnapInv, NEW D \in Current, NEW p, Borrows(p) PROVE Follows(Strict, D.rows, p[1], p[2])
  BY <1>1 DEF SnapInv, Borrows
<1>2. ASSUME \A D \in Current : \A p : Borrows(p) => Follows(Strict, D.rows, p[1], p[2]), NEW D \in Current
      PROVE  /\ \A c \in Clients : held[c] # None => Follows(Strict, D.rows, held[c].id, held[c].row)
             /\ \A c \in Clients : \A n \in DOMAIN todo[c] :
                  Carries(todo[c][n]) /\ todo[c][n].arg # None => Follows(Strict, D.rows, todo[c][n].id, todo[c][n].arg)
             /\ \A n \in DOMAIN unit : unit[n].entity # None => Follows(Strict, D.rows, unit[n].id, unit[n].entity)
  <2>1. ASSUME NEW i, NEW r, Borrows(<<i, r>>) PROVE Follows(Strict, D.rows, i, r)
    <3>1. Follows(Strict, D.rows, <<i, r>>[1], <<i, r>>[2]) BY <1>2, <2>1
    <3> QED BY <3>1
  <2>2. \A c \in Clients : held[c] # None => Borrows(<<held[c].id, held[c].row>>) BY DEF Borrows
  <2>3. \A c \in Clients : \A n \in DOMAIN todo[c] :
          Carries(todo[c][n]) /\ todo[c][n].arg # None => Borrows(<<todo[c][n].id, todo[c][n].arg>>)
    BY DEF Borrows
  <2>4. \A n \in DOMAIN unit : unit[n].entity # None => Borrows(<<unit[n].id, unit[n].entity>>) BY DEF Borrows
  <2> QED BY <2>1, <2>2, <2>3, <2>4
<1> QED BY <1>1, <1>2 DEF SnapInv

LEMMA BorrowedTyped == ASSUME TypeInv, NEW p, Borrows(p) PROVE p[1] \in Ids /\ p[2] \in Stored
<1>1. ASSUME NEW c \in Clients, held[c] # None, p = <<held[c].id, held[c].row>>
      PROVE p[1] \in Ids /\ p[2] \in Stored
  <2>1. held[c] \in Loaded BY <1>1 DEF TypeInv
  <2> QED BY <2>1, <1>1 DEF Loaded
<1>2. ASSUME NEW c \in Clients, NEW n \in DOMAIN todo[c], Carries(todo[c][n]), todo[c][n].arg # None, p = <<todo[c][n].id, todo[c][n].arg>>
      PROVE  p[1] \in Ids /\ p[2] \in Stored
  <2>1. todo[c] \in Seq(Steps) BY DEF TypeInv
  <2>2. todo[c][n] \in Steps BY <2>1
  <2>3. FitArg(todo[c][n]) BY <2>2 DEF Steps
  <2>4. todo[c][n].id \in Ids /\ todo[c][n].arg \in Stored BY <2>3, <1>2 DEF FitArg, Carries, Frame
  <2> QED BY <2>4, <1>2
<1>3. ASSUME NEW n \in DOMAIN unit, unit[n].entity # None, p = <<unit[n].id, unit[n].entity>>
      PROVE p[1] \in Ids /\ p[2] \in Stored
  <2>1. unit \in Seq(Ops) BY DEF TypeInv
  <2>2. unit[n] \in Ops BY <2>1
  <2>3. unit[n].id \in Ids /\ unit[n].entity \in Stored BY <2>2, <1>3 DEF Ops
  <2> QED BY <2>3, <1>3
<1> QED BY <1>1, <1>2, <1>3 DEF Borrows

\* A call that goes on passes no row that it was not given.
LEMMA GoesBorrow ==
  ASSUME TypeInv, NEW c \in Clients, NEW steps \in Seq(Steps), NEW miss, Goes(c, steps, miss), Carried(steps, Passed(c)),
         held' = held, unit' = unit \/ unit' = <<>>
  PROVE  \A p : Borrows(p)' => Borrows(p)
<1> SUFFICES ASSUME NEW p, Borrows(p)' PROVE Borrows(p) OBVIOUS
<1>1. CASE \E d \in Clients : held'[d] # None /\ p = <<held'[d].id, held'[d].row>> BY <1>1 DEF Borrows
<1>2. ASSUME NEW d \in Clients, NEW n \in DOMAIN todo'[d], Carries(todo'[d][n]), todo'[d][n].arg # None, p = <<todo'[d][n].id, todo'[d][n].arg>>
      PROVE  Borrows(p)
  <2>1. CASE d # c
    <3>1. todo'[d] = todo[d] BY <2>1 DEF Goes
    <3> QED BY <3>1, <1>2 DEF Borrows
  <2>2. CASE d = c
    <3>1. IsRest(todo[c], steps, todo'[c]) BY DEF IsRest, Goes, TypeInv
    <3>2. (\E m \in DOMAIN steps : todo'[c][n] = steps[m]) \/ \E m \in DOMAIN todo[c] : todo'[c][n] = todo[c][m]
      BY <3>1, <2>2, RestHas
    <3>3. ASSUME NEW m \in DOMAIN todo[c], todo'[c][n] = todo[c][m] PROVE Borrows(p) BY <3>3, <2>2, <1>2 DEF Borrows
    <3>4. ASSUME NEW m \in DOMAIN steps, todo'[c][n] = steps[m] PROVE Borrows(p)
      <4>1. <<steps[m].id, steps[m].arg>> \in Passed(c) BY <3>4, <2>2, <1>2 DEF Carried
      <4>2. Carries(Now(c)) /\ p = <<Now(c).id, Now(c).arg>> BY <4>1, <3>4, <2>2, <1>2 DEF Passed
      <4>3. Now(c) = todo[c][1] /\ 1 \in DOMAIN todo[c] BY NowIs DEF Goes
      <4>4. p[2] # None BY <1>2
      <4>5. Now(c).arg # None BY <4>2, <4>4
      <4> QED BY <4>2, <4>3, <4>5 DEF Borrows
    <3> QED BY <3>2, <3>3, <3>4
  <2> QED BY <2>1, <2>2
<1>3. ASSUME NEW n \in DOMAIN unit', unit'[n].entity # None, p = <<unit'[n].id, unit'[n].entity>> PROVE Borrows(p)
  <2>1. unit' = unit BY <1>3
  <2> QED BY <2>1, <1>3 DEF Borrows
<1> QED BY <1>1, <1>2, <1>3 DEF Borrows, Carries

\* Only a load lends a row that was not lent before.
LEMMA MovesBorrow == ASSUME Base, NEW c \in Clients, Moves(c) PROVE \A p : Borrows(p)' => Borrows(p)
<1>0. TypeInv /\ held' = held BY MovesLeave DEF Leaves, Base
<1>e. <<>> \in Seq(Steps) /\ Carried(<<>>, Passed(c)) BY DEF Carried
<1>1. CASE Throws(c)
  <2> SUFFICES ASSUME NEW p, Borrows(p)' PROVE Borrows(p) OBVIOUS
  <2>1. unit' = unit /\ todo'[c] = <<>> /\ \A d \in Clients : d # c => todo'[d] = todo[d]
    BY <1>1 DEF Throws, Unmoved
  <2>2. \A d \in Clients : \A n \in DOMAIN todo'[d] : todo'[d] = todo[d] BY <2>1
  <2> QED BY <1>0, <2>1, <2>2 DEF Borrows, Carries
<1>2. ASSUME NEW steps, NEW miss, NEW mine, Advances(c, steps, miss, mine) PROVE \A p : Borrows(p)' => Borrows(p)
  <2>1. Goes(c, steps, miss) /\ steps \in Fit(Touched(c)', Passed(c), call[c].op) /\ unit' = unit
    BY <1>2 DEF Advances, Fits, Unmoved
  <2>2. steps \in Seq(Steps) /\ Carried(steps, Passed(c)) BY <2>1 DEF Fit
  <2> QED BY <1>0, <2>1, <2>2, GoesBorrow
<1>3. ASSUME Goes(c, <<>>, {}), unit' = unit \/ unit' = <<>> PROVE \A p : Borrows(p)' => Borrows(p)
  BY <1>0, <1>e, <1>3, GoesBorrow
<1>4. CASE RollsBack(c) BY <1>3, <1>4 DEF RollsBack, Serves, Unmoved
<1>5. CASE Begins(c) BY <1>3, <1>5 DEF Begins, Serves, Unmoved
<1>6. CASE Commits(c) BY <1>3, <1>6 DEF Commits, Serves, Unmoved
<1>7. CASE Tells(c) BY <1>3, <1>7 DEF Tells, Asleep
<1>8. CASE Clears(c) BY <1>3, <1>8 DEF Clears, Clear
<1>9. ASSUME NEW steps, Emits(c, steps) PROVE \A p : Borrows(p)' => Borrows(p)
  <2>1. Goes(c, steps, {}) /\ steps \in Seq(Steps) /\ unit' = unit /\ Heard(c, steps) BY <1>9 DEF Emits, Asleep
  <2>2. Carried(steps, Passed(c)) BY <2>1 DEF Heard, Carried, Carries
  <2> QED BY <1>0, <2>1, <2>2, GoesBorrow
<1>10. ASSUME NEW op, NEW A, NEW steps, Starts(c, op, A, steps) PROVE \A p : Borrows(p)' => Borrows(p)
  <2> SUFFICES ASSUME NEW p, Borrows(p)' PROVE Borrows(p) OBVIOUS
  <2>1. unit' = unit /\ todo'[c] = steps /\ steps \in Opening(A, op) /\ (A = HeldBy(c) \/ A = Commissions(unit))
        /\ \A d \in Clients : d # c => todo'[d] = todo[d]
    BY <1>10 DEF Starts
  <2>2. ASSUME NEW d \in Clients, NEW n \in DOMAIN todo'[d], Carries(todo'[d][n]), todo'[d][n].arg # None, p = <<todo'[d][n].id, todo'[d][n].arg>>
        PROVE  Borrows(p)
    <3>1. CASE d # c BY <3>1, <2>1, <2>2 DEF Borrows
    <3>2. CASE d = c
      <4>1. p \in A BY <3>2, <2>1, <2>2 DEF Opening, Carried
      <4>2. CASE A = HeldBy(c)
        <5>1. held[c] # None /\ p = <<held[c].id, held[c].row>> BY <4>1, <4>2 DEF HeldBy
        <5> QED BY <5>1 DEF Borrows
      <4>3. CASE A = Commissions(unit)
        <5>1. PICK m \in DOMAIN unit : p = <<unit[m].id, unit[m].entity>> BY <4>1, <4>3 DEF Commissions
        <5>2. p[2] # None BY <2>2
        <5>3. unit[m].entity # None BY <5>1, <5>2
        <5> QED BY <5>1, <5>3 DEF Borrows
      <4> QED BY <4>2, <4>3, <2>1
    <3> QED BY <3>1, <3>2
  <2> QED BY <1>0, <2>1, <2>2 DEF Borrows, Carries
<1> QED BY <1>1, <1>2, <1>4, <1>5, <1>6, <1>7, <1>8, <1>9, <1>10 DEF Moves, Went

LEMMA SnapPrimed ==
  ASSUME \A D \in Current' : \A p : Borrows(p)' => Follows(Strict', D.rows, p[1], p[2])
  PROVE  SnapInv'
<1>1. ASSUME NEW D \in Current'
      PROVE  /\ \A c \in Clients : held'[c] # None => Follows(Strict', D.rows, held'[c].id, held'[c].row)
             /\ \A c \in Clients : \A n \in DOMAIN todo'[c] :
                  Carries(todo'[c][n]) /\ todo'[c][n].arg # None => Follows(Strict', D.rows, todo'[c][n].id, todo'[c][n].arg)
             /\ \A n \in DOMAIN unit' : unit'[n].entity # None => Follows(Strict', D.rows, unit'[n].id, unit'[n].entity)
  <2>1. ASSUME NEW i, NEW r, Borrows(<<i, r>>)' PROVE Follows(Strict', D.rows, i, r)
    <3>1. Follows(Strict', D.rows, <<i, r>>[1], <<i, r>>[2]) BY <1>1, <2>1
    <3> QED BY <3>1
  <2>2. ASSUME NEW c \in Clients, held'[c] # None PROVE Follows(Strict', D.rows, held'[c].id, held'[c].row)
    <3> PICK i, r : i = held'[c].id /\ r = held'[c].row OBVIOUS
    <3>1. Borrows(<<i, r>>)' BY <2>2 DEF Borrows
    <3> QED BY <3>1, <2>1
  <2>3. ASSUME NEW c \in Clients, NEW n \in DOMAIN todo'[c], Carries(todo'[c][n]), todo'[c][n].arg # None
        PROVE  Follows(Strict', D.rows, todo'[c][n].id, todo'[c][n].arg)
    <3> PICK i, r : i = todo'[c][n].id /\ r = todo'[c][n].arg OBVIOUS
    <3>1. Borrows(<<i, r>>)' BY <2>3 DEF Borrows, Carries
    <3> QED BY <3>1, <2>1
  <2>4. ASSUME NEW n \in DOMAIN unit', unit'[n].entity # None
        PROVE Follows(Strict', D.rows, unit'[n].id, unit'[n].entity)
    <3> PICK i, r : i = unit'[n].id /\ r = unit'[n].entity OBVIOUS
    <3>1. Borrows(<<i, r>>)' BY <2>4 DEF Borrows
    <3> QED BY <3>1, <2>1
  <2> QED BY <2>2, <2>3, <2>4
<1> QED BY <1>1 DEF SnapInv, Follows, Carries

\* A row that follows the stored one goes on following it while calls store.
LEMMA StoresFollow ==
  ASSUME TypeInv, NEW c, NEW mine, Stores(c, mine), model' = model, NEW i \in Ids, NEW r \in Stored,
         Follows(Strict, db.rows, i, r)
  PROVE  Follows(Strict', db'.rows, i, r)
<1>1. db.rows \in Rows /\ db'.rows \in Rows /\ loose \subseteq loose' /\ Growing(db.rows, db'.rows)
  BY DEF TypeInv, Databases, Stores
<1>2. Strict' \subseteq Strict BY <1>1 DEF Strict, Versioned
<1>3. i \in Strict' /\ db.rows[i] # None =>
        db'.rows[i] # None /\ (db'.rows[i].version > db.rows[i].version
                               \/ (db'.rows[i].version = db.rows[i].version /\ db'.rows[i].by = db.rows[i].by))
  <2>1. i \in Strict' => Versioned(i) /\ i \notin loose' BY DEF Strict, Versioned
  <2> QED BY <2>1, <1>1 DEF Growing
<1> HIDE DEF Strict
<1> QED BY <1>1, <1>2, <1>3, FollowsOn

LEMMA LooserFollows == ASSUME NEW rows, NEW i, NEW r, NEW S, NEW T, T \subseteq S, Follows(S, rows, i, r)
                       PROVE Follows(T, rows, i, r)
BY DEF Follows

\* The rows after a step, for whatever followed the rows before it.
LEMMA AllFollow ==
  ASSUME Base, NEW i \in Ids, NEW r \in Stored, \A D \in Current : Follows(Strict, D.rows, i, r),
         (\E c \in Clients : Moves(c)) \/ Rests
  PROVE  \A D \in Current' : Follows(Strict', D.rows, i, r)
<1>1. CASE Returns
  <2>1. model' = model BY MovesLeave DEF Leaves, Rests, uvars, vars, Still, Base
  <2>2. Strict' = Strict BY <1>1, <2>1 DEF Returns, Strict, Versioned
  <2> QED BY <1>1, <2>2 DEF Returns
<1>2. ASSUME NEW c \in Clients, NEW steps, NEW miss, NEW mine, Advances(c, steps, miss, mine)
      PROVE  \A D \in Current' : Follows(Strict', D.rows, i, r)
  <2>1. Stores(c, mine) /\ model' = model BY <1>2 DEF Advances, Unmoved
  <2>2. db \in Current BY DEF Current
  <2>3. Follows(Strict', db'.rows, i, r) BY <2>1, <2>2, StoresFollow DEF Base
  <2>4. Strict' \subseteq Strict BY <2>1 DEF Stores, Strict, Versioned
  <2>5. saved' = saved /\ tx' = tx BY <2>1 DEF Stores
  <2>6. tx # None => Follows(Strict', saved.rows, i, r)
    <3>1. tx # None => Follows(Strict, saved.rows, i, r) BY DEF Current
    <3> QED BY <3>1, <2>4, LooserFollows
  <2> QED BY <2>3, <2>5, <2>6 DEF Current
<1> QED BY <1>1, <1>2, MovesData, RestsData

\* Whoever writes, rows that are passed never become newer than the stored ones.
LEMMA SnapKept ==
  ASSUME Base, SnapInv, (\E c \in Clients : Moves(c)) \/ Rests
  PROVE  SnapInv'
<1>1. ASSUME NEW p, Borrows(p) PROVE \A D \in Current' : Follows(Strict', D.rows, p[1], p[2])
  <2>1. p[1] \in Ids /\ p[2] \in Stored BY <1>1, BorrowedTyped DEF Base
  <2>2. \A D \in Current : Follows(Strict, D.rows, p[1], p[2]) BY <1>1, SnapIs
  <2> QED BY <2>1, <2>2, AllFollow
<1>2. ASSUME NEW c \in Clients, Moves(c) PROVE SnapInv'
  <2>1. \A p : Borrows(p)' => Borrows(p) BY <1>2, MovesBorrow
  <2> QED BY <2>1, <1>1, SnapPrimed
<1>3. ASSUME UNCHANGED <<held, todo, unit>> PROVE SnapInv'
  <2>1. \A p : Borrows(p)' => Borrows(p) BY <1>3 DEF Borrows, Carries
  <2> QED BY <2>1, <1>1, SnapPrimed
<1>4. ASSUME Still, NEW c \in Clients, NEW i \in Ids, Loads(c, i) PROVE SnapInv'
  <2>1. /\ tx = None /\ db.rows[i] \in Stored /\ held'[c] = [id |-> i, row |-> db.rows[i]]
        /\ \A d \in Clients : d # c => held'[d] = held[d]
        /\ UNCHANGED <<model, db, saved, tx, todo, unit, loose>>
    BY <1>4 DEF Loads, Still
  <2>2. \A p : Borrows(p)' => Borrows(p) \/ p = <<i, db.rows[i]>> BY <2>1 DEF Borrows, Carries
  <2>3. db.rows \in Rows /\ db.rows[i] # None BY <2>1, NoneAssumption DEF Base, TypeInv, Databases
  <2>4. Follows(Strict', db.rows, i, db.rows[i]) BY <2>3, FollowsSelf
  <2>5. \A D \in Current' : D.rows = db.rows BY <2>1 DEF Current
  <2>6. ASSUME NEW p, p = <<i, db.rows[i]>>, NEW D \in Current' PROVE Follows(Strict', D.rows, p[1], p[2])
    <3>1. p[1] = i /\ p[2] = db.rows[i] BY <2>6
    <3> QED BY <3>1, <2>4, <2>5
  <2> QED BY <2>2, <2>6, <1>1, SnapPrimed
<1>5. ASSUME Still, NEW c \in Clients, NEW i \in Ids, NEW do, NEW e, Registers(c, do, i, e) PROVE SnapInv'
  <2> DEFINE x == Op(serial + 1, do, i, e)
  <2>1. unit' = Append(unit, x) /\ x.id = i /\ x.entity = e BY <1>5, RegistersIs DEF Base
  <2>2. unit \in Seq(Ops) BY DEF Base, TypeInv
  <2>3. e = None \/ (held[c] # None /\ held[c].id = i /\ e = held[c].row) BY <1>5 DEF Registers
  <2>4. UNCHANGED <<held, todo>> BY <1>5 DEF Registers, Still
  <2> HIDE DEF x
  <2>5. \A n \in DOMAIN unit' : (n \in DOMAIN unit /\ unit'[n] = unit[n]) \/ unit'[n] = x BY <2>1, <2>2
  <2>6. ASSUME NEW p, Borrows(p)' PROVE Borrows(p)
    <3>1. CASE \E n \in DOMAIN unit' : unit'[n].entity # None /\ p = <<unit'[n].id, unit'[n].entity>>
      <4>1. PICK n \in DOMAIN unit' : unit'[n].entity # None /\ p = <<unit'[n].id, unit'[n].entity>> BY <3>1
      <4>2. CASE n \in DOMAIN unit /\ unit'[n] = unit[n] BY <4>1, <4>2 DEF Borrows
      <4>3. CASE unit'[n] = x
        <5>1. p = <<i, e>> /\ e # None BY <4>1, <4>3, <2>1
        <5>2. held[c] # None /\ p = <<held[c].id, held[c].row>> BY <5>1, <2>3
        <5> QED BY <5>2 DEF Borrows
      <4> QED BY <4>2, <4>3, <2>5
    <3> QED BY <3>1, <2>4, <2>6 DEF Borrows, Carries
  <2> QED BY <2>6, <1>1, SnapPrimed
<1>6. ASSUME Still, Rollback PROVE SnapInv'
  <2>1. UNCHANGED <<held, todo>> /\ unit' = <<>> BY <1>6 DEF Rollback, vars
  <2>2. \A p : Borrows(p)' => Borrows(p) BY <2>1 DEF Borrows, Carries
  <2> QED BY <2>2, <1>1, SnapPrimed
<1>7. ASSUME Still, Listens PROVE SnapInv'
  <2>1. held' = held BY <1>7, ListensIs DEF Listens, Base
  <2> QED BY <2>1, <1>3, <1>7 DEF Still, Listens
<1>8. ASSUME UNCHANGED uvars PROVE SnapInv' BY <1>3, <1>8 DEF uvars, vars
<1> QED BY <1>2, <1>4, <1>5, <1>6, <1>7, <1>8 DEF Rests

LEMMA ReadPrimed ==
  ASSUME NEW d, model' = model,
         todo'[d] # <<>> /\ NeedsRead(Head(todo'[d])) /\ seen'[d] # None =>
           \A D \in Mine(d)' : Follows(Strict', D.rows, Head(todo'[d]).id, seen'[d])
  PROVE  ReadInv(d)'
<1>1. NeedsRead(Head(todo[d]))' <=> NeedsRead(Head(todo'[d])) BY DEF NeedsRead, IsWrite, Versioned
<1> QED BY <1>1 DEF ReadInv, Now, Follows

\* What an update has read is no newer than the row it is going to write.
LEMMA OthersRead ==
  ASSUME Base, NEW c \in Clients, Moves(c), NEW d \in Clients, d # c, ReadInv(d)
  PROVE  ReadInv(d)'
<1>1. model' = model BY MovesLeave DEF Leaves, Base
<1>2. todo'[d] = todo[d] /\ seen'[d] = seen[d] /\ (tx' = d <=> tx = d) /\ (tx = d => db' = db)
  BY OthersSpared DEF Spares
<1> SUFFICES ASSUME todo[d] # <<>>, NeedsRead(Now(d)), seen[d] # None
             PROVE  \A D \in Mine(d)' : Follows(Strict', D.rows, Now(d).id, seen[d])
  BY <1>1, <1>2, ReadPrimed DEF Now
<1> DEFINE i == Now(d).id
           r == seen[d]
<1>3. i \in Ids /\ r \in Stored
  <2>1. FitArg(Now(d)) BY NowIs DEF Base
  <2>2. seen[d] \in Stored BY DEF Base, TypeInv
  <2> QED BY <2>1, <2>2 DEF FitArg, Frame, NeedsRead, IsWrite
<1>4. \A D \in Mine(d) : Follows(Strict, D.rows, i, r) BY DEF ReadInv
<1> HIDE DEF i, r
<1>5. CASE tx = d
  <2>1. Mine(d)' = {db'} /\ db' = db /\ Mine(d) = {db} BY <1>2, <1>5 DEF Mine
  <2>2. Strict' \subseteq Strict
    <3>1. loose \subseteq loose'
      <4>1. CASE Returns BY <4>1 DEF Returns
      <4>2. CASE \E steps, miss, mine : Advances(c, steps, miss, mine) BY <4>2 DEF Advances, Stores
      <4> QED BY <4>1, <4>2, MovesData
    <3> QED BY <3>1, <1>1 DEF Strict, Versioned
  <2>3. Follows(Strict, db.rows, i, r) BY <2>1, <1>4
  <2>4. Follows(Strict', db.rows, i, r) BY <2>2, <2>3, LooserFollows
  <2> QED BY <2>1, <2>4 DEF i, r
<1>6. CASE tx # d
  <2>1. Mine(d)' = Current' /\ Mine(d) = Current BY <1>2, <1>6 DEF Mine
  <2>2. \A D \in Current' : Follows(Strict', D.rows, i, r) BY <2>1, <1>3, <1>4, AllFollow
  <2> QED BY <2>1, <2>2 DEF i, r
<1> QED BY <1>5, <1>6

LEMMA MoverReads ==
  ASSUME Base, NEW c \in Clients, Moves(c)
  PROVE  ReadInv(c)'
<1>1. model' = model BY MovesLeave DEF Leaves, Base
<1>2. CASE Throws(c)
  <2>1. todo'[c] = <<>> BY <1>2 DEF Throws
  <2> QED BY <1>1, <2>1, ReadPrimed
<1>3. ASSUME NEW steps \in Seq(Steps), NEW miss, Goes(c, steps, miss), Reads(steps, 1), todo'[c] # <<>>, NeedsRead(Head(todo'[c]))
      PROVE  /\ Now(c).do = "find" /\ Now(c).id = Head(todo'[c]).id /\ Head(todo'[c]).id \in Ids
  <2> DEFINE u == todo'[c]
             s == todo[c]
  <2>1. s \in Seq(Steps) /\ u = steps \o Tail(s) /\ s # <<>> /\ u \in Seq(Steps) BY <1>3 DEF Goes, Base, TypeInv
  <2>a. Now(c) = s[1] BY <2>1, NowIs DEF Base
  <2>2. Reads(s, 2) BY DEF Base, CallsInv, CallInv
  <2>3. Head(u) = u[1] /\ 1 \in DOMAIN u BY <2>1, <1>3
  <2>h. NeedsRead(u[1]) BY <2>3, <1>3
  <2> HIDE DEF u, s
  <2>4. /\ Len(s) \in Nat /\ Len(steps) \in Nat /\ DOMAIN s = 1 .. Len(s) /\ DOMAIN steps = 1 .. Len(steps) /\ DOMAIN u = 1 .. Len(u)
        /\ \A n \in DOMAIN steps : n \in DOMAIN u /\ u[n] = steps[n]
        /\ \A n \in DOMAIN u : \/ n \in DOMAIN steps
                               \/ n > Len(steps) /\ n - Len(steps) + 1 \in DOMAIN s /\ u[n] = s[n - Len(steps) + 1]
    BY <2>1, Spliced
  <2>5. 1 \notin DOMAIN steps
    <3> SUFFICES ASSUME 1 \in DOMAIN steps PROVE FALSE OBVIOUS
    <3>1. NeedsRead(steps[1]) BY <2>4, <2>h
    <3>2. 1 >= 1 OBVIOUS
    <3> QED BY <3>1, <3>2, <1>3 DEF Reads
  <2>6. Len(steps) = 0 BY <2>4, <2>5
  <2>7. 2 \in DOMAIN s /\ u[1] = s[2] BY <2>3, <2>4, <2>5, <2>6
  <2>8. s[1].do = "find" /\ s[1].id = s[2].id BY <2>2, <2>7, <2>h DEF Reads
  <2>9. s[2] \in Steps BY <2>1, <2>7
  <2>10. s[2].id \in Ids BY <2>9, <2>7, <2>h DEF Steps, FitArg, Frame, NeedsRead, IsWrite
  <2> QED BY <2>a, <2>3, <2>7, <2>8, <2>10 DEF u
<1>4. ASSUME NEW steps \in Seq(Steps), NEW miss, Goes(c, steps, miss), Reads(steps, 1), Now(c).do # "find"
      PROVE ReadInv(c)'
  <2>1. ~(todo'[c] # <<>> /\ NeedsRead(Head(todo'[c]))) BY <1>3, <1>4
  <2> QED BY <1>1, <2>1, ReadPrimed
<1>5. ASSUME NEW steps, NEW miss, NEW mine, Advances(c, steps, miss, mine) PROVE ReadInv(c)'
  <2>1. Goes(c, steps, miss) /\ Stores(c, mine) /\ Sees(c) /\ steps \in Fit(Touched(c)', Passed(c), call[c].op)
    BY <1>5 DEF Advances, Fits
  <2>2. steps \in Seq(Steps) /\ Reads(steps, 1) BY <2>1 DEF Fit
  <2>3. ASSUME todo'[c] # <<>>, NeedsRead(Head(todo'[c])), seen'[c] # None
        PROVE  \A D \in Mine(c)' : Follows(Strict', D.rows, Head(todo'[c]).id, seen'[c])
    <3> DEFINE i == Head(todo'[c]).id
    <3>1. Now(c).do = "find" /\ Now(c).id = i /\ i \in Ids BY <2>1, <2>2, <2>3, <1>3
    <3> HIDE DEF i
    <3>2. seen'[c] = db.rows[i] /\ db.rows[i] # None BY <3>1, <2>1, <2>3 DEF Sees
    <3>3. db.rows \in Rows /\ db.rows[i] \in Stored BY <3>1, <3>2, RowIs DEF Base
    <3>4. Follows(Strict, db.rows, i, db.rows[i]) BY <3>1, <3>2, <3>3, FollowsSelf
    <3>5. Follows(Strict', db'.rows, i, db.rows[i]) BY <3>1, <3>3, <3>4, <2>1, <1>1, StoresFollow DEF Base
    <3>6. tx' = tx /\ tx \in {None, c} BY <2>1 DEF Stores
    <3>7. Mine(c)' = {db'} BY <3>6 DEF Mine, Current
    <3> QED BY <3>2, <3>5, <3>7 DEF i
  <2> QED BY <1>1, <2>3, ReadPrimed
<1>6. ASSUME Goes(c, <<>>, {}), Now(c).do # "find" PROVE ReadInv(c)'
  <2>1. <<>> \in Seq(Steps) /\ Reads(<<>>, 1) BY NothingGoes
  <2> QED BY <2>1, <1>4, <1>6
<1>7. CASE RollsBack(c) BY <1>6, <1>7 DEF RollsBack, Serves
<1>8. CASE Begins(c) BY <1>6, <1>8 DEF Begins, Serves
<1>9. CASE Commits(c) BY <1>6, <1>9 DEF Commits, Serves
<1>10. CASE Tells(c) BY <1>6, <1>10 DEF Tells
<1>11. CASE Clears(c)
  <2>1. Goes(c, <<>>, {}) /\ Now(c).do = "clear" BY <1>11 DEF Clears, Clear
  <2> QED BY <2>1, <1>6
<1>12. ASSUME NEW steps, Emits(c, steps) PROVE ReadInv(c)'
  <2>1. Goes(c, steps, {}) /\ steps \in Seq(Steps) /\ Now(c).do = "emit" /\ Heard(c, steps) BY <1>12 DEF Emits
  <2>2. Reads(steps, 1) BY <2>1 DEF Heard, Reads, NeedsRead, IsWrite
  <2> QED BY <2>1, <2>2, <1>4
<1>13. ASSUME NEW op, NEW A, NEW steps, Starts(c, op, A, steps) PROVE ReadInv(c)'
  <2>1. todo'[c] = steps /\ steps \in Seq(Steps) /\ Reads(steps, 1) BY <1>13 DEF Starts, Opening
  <2>2. ASSUME steps # <<>>, NeedsRead(Head(steps)) PROVE FALSE
    <3>1. 1 \in DOMAIN steps /\ Head(steps) = steps[1] /\ 1 >= 1 BY <2>1, <2>2
    <3>2. 1 > 1 BY <3>1, <2>1, <2>2 DEF Reads
    <3> QED BY <3>2
  <2> QED BY <1>1, <2>1, <2>2, ReadPrimed
<1> QED BY <1>2, <1>5, <1>7, <1>8, <1>9, <1>10, <1>11, <1>12, <1>13 DEF Moves, Went

\* ... nor rows that are read for an update.
LEMMA ReadsKept ==
  ASSUME Base, ReadsInv, (\E c \in Clients : Moves(c)) \/ Rests
  PROVE  ReadsInv'
<1>1. ASSUME NEW c \in Clients, Moves(c), NEW d \in Clients PROVE ReadInv(d)'
  <2>1. CASE d = c BY <2>1, <1>1, MoverReads
  <2>2. CASE d # c BY <2>2, <1>1, OthersRead DEF ReadsInv
  <2> QED BY <2>1, <2>2
<1>2. ASSUME Rests, NEW d \in Clients PROVE ReadInv(d)'
  <2>1. UNCHANGED <<model, db, saved, tx, todo, seen, loose>> BY <1>2 DEF Rests, uvars, vars, Still
  <2>2. ReadInv(d) BY DEF ReadsInv
  <2>3. Mine(d)' = Mine(d) /\ Strict' = Strict BY <2>1 DEF Mine, Current, Strict, Versioned
  <2> QED BY <2>1, <2>2, <2>3, ReadPrimed DEF ReadInv, Now
<1> QED BY <1>1, <1>2 DEF ReadsInv

(* ----------------------- what a call is going to report ------------------- *)

LEMMA OwedPrimed ==
  ASSUME NEW d, model' = model,
         call'[d].end \in {"running", "resolved"} /\ call'[d].op \notin Unaudited /\ faults' = 0 =>
           \A i \in Changed(db', call'[d].n) : Audited(i) =>
             \/ \E e \in db'.trail : e.call = call'[d].n /\ e.id = i
             \/ \E n \in DOMAIN todo'[d] : todo'[d][n].do = "audit" /\ todo'[d][n].id = i
  PROVE  OwedInv(d)'
BY DEF OwedInv, Live, Audited, Changed, Unaudited

LEMMA HeardPrimed ==
  ASSUME NEW d,
         call'[d].end \in {"running", "resolved"} /\ call'[d].op # "hardRemove" =>
           \A i \in Changed(db', call'[d].n) : \A v \in Ears(d, i)' :
             \/ \E t \in told' : t.who = v /\ t.call = call'[d].n /\ t.id = i
             \/ \E n \in DOMAIN todo'[d] : ForVoice(todo'[d][n], v) /\ todo'[d][n].id = i
  PROVE  HeardInv(d)'
BY DEF HeardInv, Live, Changed, ForVoice, Told

\* Who is sure to hear of a row does not change while the call goes on.
LEMMA EarsSame ==
  ASSUME NEW c, call'[c].op = call[c].op, call'[c].id = call[c].id PROVE \A i : Ears(c, i)' = Ears(c, i)
BY DEF Ears, Itself

LEMMA NewCall == ASSUME Base PROVE Changed(db, calls + 1) = {}
<1>1. calls \in Nat /\ \A p \in db.changed : p[1] \in 1 .. calls BY DEF Base, TypeInv, TxInv
<1> SUFFICES ASSUME NEW i \in Ids, <<calls + 1, i>> \in db.changed PROVE FALSE BY DEF Changed
<1>2. <<calls + 1, i>>[1] = calls + 1 OBVIOUS
<1>3. calls + 1 \in 1 .. calls BY <1>1, <1>2
<1> QED BY <1>1, <1>3

LEMMA GoesOn ==
  ASSUME TypeInv, NEW c \in Clients, NEW steps \in Seq(Steps), NEW miss, Goes(c, steps, miss)
  PROVE  /\ \A n \in DOMAIN steps : \E m \in DOMAIN todo'[c] : todo'[c][m] = steps[n]
         /\ \A n \in DOMAIN todo[c] : todo[c][n] = Now(c) \/ \E m \in DOMAIN todo'[c] : todo'[c][m] = todo[c][n]
         /\ \A n \in DOMAIN todo'[c] : (\E m \in DOMAIN steps : todo'[c][n] = steps[m])
                                       \/ \E m \in DOMAIN todo[c] : m > 1 /\ todo'[c][n] = todo[c][m]
         /\ call'[c].n = call[c].n /\ call'[c].op = call[c].op /\ todo[c] # <<>>
<1>1. IsRest(todo[c], steps, todo'[c]) /\ todo[c] # <<>> BY DEF IsRest, Goes, TypeInv
<1>2. Now(c) = todo[c][1] /\ DOMAIN todo[c] = 1 .. Len(todo[c]) /\ Len(todo[c]) \in Nat BY <1>1, NowIs DEF IsRest
<1>3. /\ \A m \in DOMAIN todo[c] : m > 1 => \E n \in DOMAIN todo'[c] : todo'[c][n] = todo[c][m]
      /\ \A m \in DOMAIN steps : \E n \in DOMAIN todo'[c] : todo'[c][n] = steps[m]
      /\ \A n \in DOMAIN todo'[c] : (\E m \in DOMAIN steps : todo'[c][n] = steps[m])
                                    \/ \E m \in DOMAIN todo[c] : m > 1 /\ todo'[c][n] = todo[c][m]
  BY <1>1, RestHas
<1>4. \A n \in DOMAIN todo[c] : n = 1 \/ n > 1 BY <1>2
<1> QED BY <1>1, <1>2, <1>3, <1>4 DEF Goes

\* A call that goes on and reports none of its audited rows still owes what it owed.
LEMMA GoesOwes ==
  ASSUME Base, NEW c \in Clients, NEW steps \in Seq(Steps), NEW miss, Goes(c, steps, miss), OwedInv(c), model' = model,
         Now(c).do # "audit", db' = db, faults' = faults
  PROVE  OwedInv(c)'
<1>1. /\ \A n \in DOMAIN todo[c] : todo[c][n] = Now(c) \/ \E m \in DOMAIN todo'[c] : todo'[c][m] = todo[c][n]
      /\ call'[c].n = call[c].n /\ call'[c].op = call[c].op /\ todo[c] # <<>>
  BY GoesOn DEF Base
<1>2. call[c].end = "running" BY <1>1 DEF Base, CallsInv, CallInv
<1>3. call[c].op \notin Unaudited /\ faults = 0 =>
        \A i \in Changed(db, call[c].n) : Audited(i) =>
          \/ \E e \in db.trail : e.call = call[c].n /\ e.id = i
          \/ \E n \in DOMAIN todo[c] : todo[c][n].do = "audit" /\ todo[c][n].id = i
  BY <1>2 DEF OwedInv, Live
<1>4. ASSUME NEW i, NEW n \in DOMAIN todo[c], todo[c][n].do = "audit", todo[c][n].id = i
      PROVE  \E m \in DOMAIN todo'[c] : todo'[c][m].do = "audit" /\ todo'[c][m].id = i
  BY <1>1, <1>4
<1> QED BY <1>1, <1>3, <1>4, OwedPrimed

LEMMA MoverOwes == ASSUME Base, NEW c \in Clients, Moves(c), OwedInv(c) PROVE OwedInv(c)'
<1>0. model' = model /\ faults \in Nat /\ faults' \in Nat /\ faults <= faults' BY MovesLeave DEF Leaves, Base, TypeInv
<1>e. <<>> \in Seq(Steps) OBVIOUS
<1>1. CASE Throws(c)
  <2>1. call'[c].end = "rejected" BY <1>1 DEF Throws
  <2> QED BY <1>0, <2>1, OwedPrimed
<1>2. ASSUME NEW steps, NEW miss, NEW mine, Advances(c, steps, miss, mine) PROVE OwedInv(c)'
  <2>1. Goes(c, steps, miss) /\ Stores(c, mine) /\ Owes(c, steps, mine) /\ steps \in Seq(Steps)
    BY <1>2 DEF Advances, Fits, Fit
  <2>2. /\ \A n \in DOMAIN todo[c] : todo[c][n] = Now(c) \/ \E m \in DOMAIN todo'[c] : todo'[c][m] = todo[c][n]
        /\ call'[c].n = call[c].n /\ call'[c].op = call[c].op /\ todo[c] # <<>>
    BY <2>1, GoesOn DEF Base
  <2>3. call[c].end = "running" BY <2>2 DEF Base, CallsInv, CallInv
  <2> SUFFICES ASSUME call[c].op \notin Unaudited, faults' = 0, NEW i \in Changed(db', call[c].n), Audited(i)
               PROVE  \/ \E e \in db'.trail : e.call = call[c].n /\ e.id = i
                      \/ \E n \in DOMAIN todo'[c] : todo'[c][n].do = "audit" /\ todo'[c][n].id = i
    BY <1>0, <2>2, OwedPrimed
  <2>4. faults = 0 /\ ~poisoned BY <1>0 DEF Base, TxInv
  <2>5. db'.changed = db.changed \cup {<<call[c].n, j>> : j \in mine} /\ db.trail \subseteq db'.trail
    BY <2>1 DEF Stores
  <2>6. i \in mine \/ i \in Changed(db, call[c].n) BY <2>5 DEF Changed
  <2>7. CASE i \in mine BY <2>1, <2>7 DEF Owes
  <2>8. CASE i \in Changed(db, call[c].n)
    <3>1. \/ \E e \in db.trail : e.call = call[c].n /\ e.id = i
          \/ \E n \in DOMAIN todo[c] : todo[c][n].do = "audit" /\ todo[c][n].id = i
      BY <2>3, <2>4, <2>8 DEF OwedInv, Live
    <3>2. CASE \E e \in db.trail : e.call = call[c].n /\ e.id = i BY <3>2, <2>5
    <3>3. ASSUME NEW n \in DOMAIN todo[c], todo[c][n].do = "audit", todo[c][n].id = i
          PROVE  \/ \E e \in db'.trail : e.call = call[c].n /\ e.id = i
                 \/ \E m \in DOMAIN todo'[c] : todo'[c][m].do = "audit" /\ todo'[c][m].id = i
      <4>1. CASE todo[c][n] = Now(c)
        <5>1. Now(c).do = "audit" /\ Now(c).id = i BY <4>1, <3>3
        <5> QED BY <5>1, <2>1, <2>4 DEF Owes
      <4>2. CASE \E m \in DOMAIN todo'[c] : todo'[c][m] = todo[c][n] BY <4>2, <3>3
      <4> QED BY <4>1, <4>2, <2>2
    <3> QED BY <3>1, <3>2, <3>3
  <2> QED BY <2>6, <2>7, <2>8
<1>3. CASE RollsBack(c)
  <2>1. faults' = faults /\ poisoned BY <1>3 DEF RollsBack
  <2>2. faults' # 0 BY <2>1, <1>0 DEF Base, TxInv
  <2> QED BY <1>0, <2>2, OwedPrimed
<1>4. ASSUME Goes(c, <<>>, {}), Now(c).do # "audit", db' = db, faults' = faults PROVE OwedInv(c)'
  BY <1>0, <1>e, <1>4, GoesOwes
<1>5. CASE Begins(c) BY <1>4, <1>5 DEF Begins, Serves
<1>6. CASE Commits(c) BY <1>4, <1>6 DEF Commits, Serves
<1>7. CASE Tells(c) BY <1>4, <1>7 DEF Tells, Asleep
<1>8. CASE Clears(c) BY <1>4, <1>8 DEF Clears, Clear
<1>9. ASSUME NEW steps, Emits(c, steps) PROVE OwedInv(c)'
  <2>1. Goes(c, steps, {}) /\ steps \in Seq(Steps) /\ Now(c).do # "audit" /\ db' = db /\ faults' = faults
    BY <1>9 DEF Emits, Asleep
  <2> QED BY <1>0, <2>1, GoesOwes
<1>10. ASSUME NEW op, NEW A, NEW steps, Starts(c, op, A, steps) PROVE OwedInv(c)'
  <2>1. db' = db /\ call'[c].n = calls + 1 BY <1>10 DEF Starts
  <2>2. Changed(db', call'[c].n) = {} BY <2>1, NewCall
  <2> QED BY <1>0, <2>2, OwedPrimed
<1> QED BY <1>1, <1>2, <1>3, <1>5, <1>6, <1>7, <1>8, <1>9, <1>10 DEF Moves, Went

LEMMA OthersOwe == ASSUME Base, NEW c \in Clients, Moves(c), NEW d \in Clients, d # c, OwedInv(d) PROVE OwedInv(d)'
<1>0. model' = model /\ faults \in Nat /\ faults' \in Nat /\ faults <= faults' BY MovesLeave DEF Leaves, Base, TypeInv
<1>1. /\ todo'[d] = todo[d] /\ call'[d] = call[d] /\ Changed(db', call[d].n) = Changed(db, call[d].n)
      /\ \A e \in db.trail : e.call = call[d].n => e \in db'.trail
  BY OthersSpared DEF Spares
<1> SUFFICES ASSUME call[d].end \in {"running", "resolved"}, call[d].op \notin Unaudited, faults' = 0,
                    NEW i \in Changed(db, call[d].n), Audited(i)
             PROVE  \/ \E e \in db'.trail : e.call = call[d].n /\ e.id = i
                    \/ \E n \in DOMAIN todo[d] : todo[d][n].do = "audit" /\ todo[d][n].id = i
  BY <1>0, <1>1, OwedPrimed
<1>2. faults = 0 BY <1>0
<1>3. \/ \E e \in db.trail : e.call = call[d].n /\ e.id = i
      \/ \E n \in DOMAIN todo[d] : todo[d][n].do = "audit" /\ todo[d][n].id = i
  BY <1>2 DEF OwedInv, Live
<1> QED BY <1>1, <1>3

\* No entry that is owed is forgotten.
LEMMA OwedKept ==
  ASSUME Base, OwedsInv, (\E c \in Clients : Moves(c)) \/ Rests
  PROVE  OwedsInv'
<1>1. ASSUME NEW c \in Clients, Moves(c), NEW d \in Clients PROVE OwedInv(d)'
  <2>1. CASE d = c BY <2>1, <1>1, MoverOwes DEF OwedsInv
  <2>2. CASE d # c BY <2>2, <1>1, OthersOwe DEF OwedsInv
  <2> QED BY <2>1, <2>2
<1>2. ASSUME Rests, NEW d \in Clients PROVE OwedInv(d)'
  <2>1. UNCHANGED <<model, db, call, todo, faults>> BY <1>2 DEF Rests, uvars, vars, Still
  <2>2. OwedInv(d) BY DEF OwedsInv
  <2> QED BY <2>1, <2>2, OwedPrimed DEF OwedInv, Live
<1> QED BY <1>1, <1>2 DEF OwedsInv

(* ----------------------------- who hears of it ---------------------------- *)

LEMMA ToldStay == ASSUME Base, (\E c \in Clients : Moves(c)) \/ Rests PROVE told \subseteq told'
<1>1. ASSUME NEW c \in Clients, Moves(c) PROVE told \subseteq told'
  <2>1. told' = told \/ Tells(c) BY <1>1, MovesLeave DEF Leaves, Base
  <2> QED BY <2>1 DEF Tells
<1>2. ASSUME Listens PROVE told' = told BY <1>2, ListensIs DEF Listens, Base
<1>3. ASSUME Rests PROVE told \subseteq told' BY <1>2, <1>3 DEF Rests, uvars, vars, Loads, Registers, Rollback
<1> QED BY <1>1, <1>3

\* A call that goes on still has its step for such a listener, unless it was this one.
LEMMA GoesHeard ==
  ASSUME Base, NEW c \in Clients, NEW steps \in Seq(Steps), NEW miss, Goes(c, steps, miss), HeardInv(c), told \subseteq told',
         call[c].op # "hardRemove", NEW i \in Changed(db, call[c].n), NEW v \in Ears(c, i)
  PROVE  \/ \E t \in told' : t.who = v /\ t.call = call[c].n /\ t.id = i
         \/ \E n \in DOMAIN todo'[c] : ForVoice(todo'[c][n], v) /\ todo'[c][n].id = i
         \/ ForVoice(Now(c), v) /\ Now(c).id = i
<1>1. /\ \A n \in DOMAIN todo[c] : todo[c][n] = Now(c) \/ \E m \in DOMAIN todo'[c] : todo'[c][m] = todo[c][n]
      /\ todo[c] # <<>>
  BY GoesOn DEF Base
<1>2. call[c].end = "running" BY <1>1 DEF Base, CallsInv, CallInv
<1>3. \/ \E t \in told : t.who = v /\ t.call = call[c].n /\ t.id = i
      \/ \E n \in DOMAIN todo[c] : ForVoice(todo[c][n], v) /\ todo[c][n].id = i
  BY <1>2 DEF HeardInv, Live, Told
<1>4. ASSUME NEW n \in DOMAIN todo[c], ForVoice(todo[c][n], v), todo[c][n].id = i
      PROVE  \/ \E m \in DOMAIN todo'[c] : ForVoice(todo'[c][m], v) /\ todo'[c][m].id = i
             \/ ForVoice(Now(c), v) /\ Now(c).id = i
  <2>1. CASE todo[c][n] = Now(c) BY <2>1, <1>4
  <2>2. ASSUME NEW m \in DOMAIN todo'[c], todo'[c][m] = todo[c][n] PROVE ForVoice(todo'[c][m], v) /\ todo'[c][m].id = i
    <3> PICK x : x = todo[c][n] OBVIOUS
    <3>1. todo'[c][m] = x /\ ForVoice(x, v) /\ x.id = i BY <2>2, <1>4
    <3> QED BY <3>1
  <2> QED BY <2>1, <2>2, <1>1
<1> QED BY <1>3, <1>4

LEMMA MoverHeard == ASSUME Base, AllInv, NEW c \in Clients, Moves(c), HeardInv(c) PROVE HeardInv(c)'
<1>0. told \subseteq told' BY ToldStay
<1>e. <<>> \in Seq(Steps) OBVIOUS
<1>1. CASE Throws(c)
  <2>1. call'[c].end = "rejected" BY <1>1 DEF Throws
  <2> QED BY <2>1, HeardPrimed
<1>2. ASSUME NEW steps \in Seq(Steps), NEW miss, Goes(c, steps, miss), NEW mine,
             \A i \in Changed(db', call[c].n) : i \in mine \/ i \in Changed(db, call[c].n),
             call[c].op # "hardRemove" => \A i \in mine : \E n \in DOMAIN todo'[c] : todo'[c][n].do = "emit" /\ todo'[c][n].id = i,
             \A v \in Ears(c, Now(c).id) : ForVoice(Now(c), v) =>
               \/ \E t \in told' : t.who = v /\ t.call = call[c].n /\ t.id = Now(c).id
               \/ \E n \in DOMAIN todo'[c] : ForVoice(todo'[c][n], v) /\ todo'[c][n].id = Now(c).id
      PROVE  HeardInv(c)'
  <2>1. call'[c].n = call[c].n /\ call'[c].op = call[c].op BY <1>2 DEF Goes
  <2>e. \A i : Ears(c, i)' = Ears(c, i)
    <3>1. call'[c].op = call[c].op /\ call'[c].id = call[c].id BY <1>2 DEF Goes
    <3> QED BY <3>1, EarsSame
  <2> SUFFICES ASSUME call[c].op # "hardRemove", NEW i \in Changed(db', call[c].n), NEW v \in Ears(c, i)
               PROVE  \/ \E t \in told' : t.who = v /\ t.call = call[c].n /\ t.id = i
                      \/ \E n \in DOMAIN todo'[c] : ForVoice(todo'[c][n], v) /\ todo'[c][n].id = i
    BY <2>1, <2>e, HeardPrimed
  <2>2. CASE i \in mine
    <3>1. PICK n \in DOMAIN todo'[c] : todo'[c][n].do = "emit" /\ todo'[c][n].id = i BY <2>2, <1>2
    <3>2. ForVoice(todo'[c][n], v) BY <3>1 DEF ForVoice
    <3> QED BY <3>1, <3>2
  <2>3. CASE i \in Changed(db, call[c].n)
    <3>1. \/ \E t \in told' : t.who = v /\ t.call = call[c].n /\ t.id = i
          \/ \E n \in DOMAIN todo'[c] : ForVoice(todo'[c][n], v) /\ todo'[c][n].id = i
          \/ ForVoice(Now(c), v) /\ Now(c).id = i
      BY <1>0, <1>2, <2>3, GoesHeard
    <3> QED BY <3>1, <1>2
  <2> QED BY <2>2, <2>3, <1>2
<1>3. ASSUME NEW steps, NEW miss, NEW mine, Advances(c, steps, miss, mine) PROVE HeardInv(c)'
  <2>1. Goes(c, steps, miss) /\ Stores(c, mine) /\ Owes(c, steps, mine) /\ steps \in Seq(Steps) /\ Now(c).do \notin {"emit", "tell"}
    BY <1>3 DEF Advances, Fits, Fit
  <2>2. db'.changed = db.changed \cup {<<call[c].n, j>> : j \in mine} BY <2>1 DEF Stores
  <2>3. \A i \in Changed(db', call[c].n) : i \in mine \/ i \in Changed(db, call[c].n) BY <2>2 DEF Changed
  <2>4. \A v : ~ForVoice(Now(c), v) BY <2>1 DEF ForVoice
  <2>5. call[c].op # "hardRemove" => \A i \in mine : \E n \in DOMAIN todo'[c] : todo'[c][n].do = "emit" /\ todo'[c][n].id = i
    BY <2>1 DEF Owes
  <2> QED BY <2>1, <2>3, <2>4, <2>5, <1>2
<1>k. ASSUME NEW steps \in Seq(Steps), NEW miss, Goes(c, steps, miss), Changed(db', call[c].n) \subseteq Changed(db, call[c].n),
             \A v \in Ears(c, Now(c).id) : ForVoice(Now(c), v) =>
               \/ \E t \in told' : t.who = v /\ t.call = call[c].n /\ t.id = Now(c).id
               \/ \E n \in DOMAIN todo'[c] : ForVoice(todo'[c][n], v) /\ todo'[c][n].id = Now(c).id
      PROVE  HeardInv(c)'
  <2>1. call'[c].n = call[c].n /\ call'[c].op = call[c].op BY <1>k DEF Goes
  <2>e. \A i : Ears(c, i)' = Ears(c, i)
    <3>1. call'[c].op = call[c].op /\ call'[c].id = call[c].id BY <1>k DEF Goes
    <3> QED BY <3>1, EarsSame
  <2> SUFFICES ASSUME call[c].op # "hardRemove", NEW i \in Changed(db', call[c].n), NEW v \in Ears(c, i)
               PROVE  \/ \E t \in told' : t.who = v /\ t.call = call[c].n /\ t.id = i
                      \/ \E n \in DOMAIN todo'[c] : ForVoice(todo'[c][n], v) /\ todo'[c][n].id = i
    BY <2>1, <2>e, HeardPrimed
  <2>2. i \in Changed(db, call[c].n) BY <1>k
  <2>3. \/ \E t \in told' : t.who = v /\ t.call = call[c].n /\ t.id = i
        \/ \E n \in DOMAIN todo'[c] : ForVoice(todo'[c][n], v) /\ todo'[c][n].id = i
        \/ ForVoice(Now(c), v) /\ Now(c).id = i
    BY <1>0, <1>k, <2>2, GoesHeard
  <2> QED BY <2>3, <1>k
<1>4. ASSUME Goes(c, <<>>, {}), Changed(db', call[c].n) \subseteq Changed(db, call[c].n), Now(c).do \notin {"emit", "tell"}
      PROVE  HeardInv(c)'
  <2>1. \A v : ~ForVoice(Now(c), v) BY <1>4 DEF ForVoice
  <2> QED BY <1>e, <1>4, <1>k, <2>1
<1>5. CASE RollsBack(c)
  <2>1. Goes(c, <<>>, {}) /\ Now(c).do = "commit" /\ db' = saved /\ tx # None
    BY <1>5, NoneAssumption DEF RollsBack, Serves
  <2>2. saved.changed \subseteq db.changed BY <2>1 DEF Base, TxInv
  <2>3. Changed(db', call[c].n) \subseteq Changed(db, call[c].n) BY <2>1, <2>2 DEF Changed
  <2> QED BY <2>1, <2>3, <1>4
<1>6. CASE Begins(c) BY <1>4, <1>6 DEF Begins, Serves
<1>7. CASE Commits(c) BY <1>4, <1>7 DEF Commits, Serves
<1>8. CASE Clears(c)
  <2>1. Goes(c, <<>>, {}) /\ db' = db /\ Now(c).do = "clear" BY <1>8 DEF Clears, Clear
  <2> QED BY <2>1, <1>4
<1>9. CASE Tells(c)
  <2>1. Goes(c, <<>>, {}) /\ db' = db /\ Now(c).do = "tell" BY <1>9 DEF Tells, Asleep
  <2>2. \E t \in told' : t.who = Now(c).arg[1] /\ t.call = call[c].n /\ t.id = Now(c).id BY <1>9 DEF Tells
  <2>3. \A v : ForVoice(Now(c), v) => \E t \in told' : t.who = v /\ t.call = call[c].n /\ t.id = Now(c).id
    BY <2>1, <2>2 DEF ForVoice
  <2>4. Changed(db', call[c].n) \subseteq Changed(db, call[c].n) BY <2>1
  <2>5. \A v \in Ears(c, Now(c).id) : ForVoice(Now(c), v) =>
          \/ \E t \in told' : t.who = v /\ t.call = call[c].n /\ t.id = Now(c).id
          \/ \E n \in DOMAIN todo'[c] : ForVoice(todo'[c][n], v) /\ todo'[c][n].id = Now(c).id BY <2>3
  <2>6. Goes(c, <<>>, {}) BY <2>1
  <2> QED BY <1>e, <1>k, <2>4, <2>5, <2>6
<1>10. ASSUME NEW steps, Emits(c, steps) PROVE HeardInv(c)'
  <2>1. Goes(c, steps, {}) /\ steps \in Seq(Steps) /\ Now(c).do = "emit" /\ db' = db /\ Heard(c, steps)
    BY <1>10 DEF Emits, Asleep
  <2>2. PICK k \in DOMAIN listeners : listeners[k].who = "all" /\ listeners[k].names = Acts
    BY DEF AllInv, Registration
  <2>3. Now(c).arg \in Acts
    <3>1. todo[c] # <<>> BY <2>1 DEF Goes
    <3> QED BY <3>1, <2>1, NowIs DEF Base, FitArg
  <2>4. ASSUME NEW v \in Ears(c, Now(c).id)
        PROVE  \E n \in DOMAIN steps : steps[n].do = "tell" /\ steps[n].arg[1] = v /\ steps[n].id = Now(c).id
    <3>1. PICK p \in [DOMAIN steps -> DOMAIN listeners \cup {0}] :
            /\ \A n \in DOMAIN steps : /\ steps[n].do = "tell" /\ steps[n].id = Now(c).id
                                       /\ p[n] = 0 => steps[n].arg[1] = "own"
                                       /\ p[n] # 0 => steps[n].arg[1] = listeners[p[n]].who
            /\ Itself(c, Now(c).id) => \E n \in DOMAIN steps : p[n] = 0
            /\ \A j \in DOMAIN listeners : Now(c).arg \in listeners[j].names => \E n \in DOMAIN steps : p[n] = j
      BY <2>1 DEF Heard
    <3>2. CASE v = "all"
      <4>1. PICK n \in DOMAIN steps : p[n] = k BY <3>1, <2>2, <2>3
      <4>2. k # 0 BY DEF Base, TypeInv
      <4> QED BY <3>1, <4>1, <4>2, <3>2, <2>2
    <3>3. CASE v = "own" /\ Itself(c, Now(c).id)
      <4>1. PICK n \in DOMAIN steps : p[n] = 0 BY <3>1, <3>3
      <4> QED BY <3>1, <4>1, <3>3
    <3> QED BY <3>2, <3>3 DEF Ears
  <2>5. ASSUME NEW v \in Ears(c, Now(c).id)
        PROVE  \E n \in DOMAIN todo'[c] : ForVoice(todo'[c][n], v) /\ todo'[c][n].id = Now(c).id
    <3>1. PICK n \in DOMAIN steps : steps[n].do = "tell" /\ steps[n].arg[1] = v /\ steps[n].id = Now(c).id
      BY <2>4
    <3>2. PICK m \in DOMAIN todo'[c] : todo'[c][m] = steps[n] BY <2>1, GoesOn DEF Base
    <3> QED BY <3>1, <3>2 DEF ForVoice
  <2>6. Changed(db', call[c].n) \subseteq Changed(db, call[c].n) BY <2>1
  <2>7. \A v \in Ears(c, Now(c).id) : ForVoice(Now(c), v) =>
          \/ \E t \in told' : t.who = v /\ t.call = call[c].n /\ t.id = Now(c).id
          \/ \E n \in DOMAIN todo'[c] : ForVoice(todo'[c][n], v) /\ todo'[c][n].id = Now(c).id BY <2>5
  <2>8. Goes(c, steps, {}) /\ steps \in Seq(Steps) BY <2>1
  <2> QED BY <1>k, <2>6, <2>7, <2>8
<1>11. ASSUME NEW op, NEW A, NEW steps, Starts(c, op, A, steps) PROVE HeardInv(c)'
  <2>1. db' = db /\ call'[c].n = calls + 1 BY <1>11 DEF Starts
  <2>2. Changed(db', call'[c].n) = {} BY <2>1, NewCall
  <2> QED BY <2>2, HeardPrimed
<1> QED BY <1>1, <1>3, <1>5, <1>6, <1>7, <1>8, <1>9, <1>10, <1>11 DEF Moves, Went

\* No telling that is due is forgotten.
LEMMA HeardKept ==
  ASSUME Base, AllInv, HeardsInv, (\E c \in Clients : Moves(c)) \/ Rests
  PROVE  HeardsInv'
<1>0. told \subseteq told' BY ToldStay
<1>1. ASSUME NEW c \in Clients, Moves(c), NEW d \in Clients PROVE HeardInv(d)'
  <2>1. CASE d = c BY <2>1, <1>1, MoverHeard DEF HeardsInv
  <2>2. CASE d # c
    <3>1. todo'[d] = todo[d] /\ call'[d] = call[d] /\ Changed(db', call[d].n) = Changed(db, call[d].n)
      BY <2>2, <1>1, OthersSpared DEF Spares
    <3>2. HeardInv(d) BY DEF HeardsInv
    <3>3. \A i : Ears(d, i)' = Ears(d, i) BY <3>1, EarsSame
    <3> QED BY <1>0, <3>1, <3>2, <3>3, HeardPrimed DEF HeardInv, Live, Told
  <2> QED BY <2>1, <2>2
<1>2. ASSUME Rests, NEW d \in Clients PROVE HeardInv(d)'
  <2>1. UNCHANGED <<db, call, todo>> BY <1>2 DEF Rests, uvars, vars, Still
  <2>2. HeardInv(d) BY DEF HeardsInv
  <2>3. \A i : Ears(d, i)' = Ears(d, i) BY <2>1, EarsSame
  <2> QED BY <1>0, <2>1, <2>2, <2>3, HeardPrimed DEF HeardInv, Live, Told
<1> QED BY <1>1, <1>2 DEF HeardsInv

(* -------------------------- once(), of one event -------------------------- *)

LEMMA OncePrimed ==
  ASSUME NEW l,
    \A m, n \in DOMAIN listeners' : listeners'[m].who = l /\ listeners'[n].who = l => m = n /\ listeners'[m].once,
    \A c, d \in Clients : \A m \in DOMAIN todo'[c], n \in DOMAIN todo'[d] :
      TellsTo(todo'[c][m], l) /\ TellsTo(todo'[d][n], l) => c = d /\ m = n,
    \A t, u \in told' : t.who = l /\ u.who = l => t = u,
    \A n \in DOMAIN listeners' : listeners'[n].who = l =>
       /\ \A t \in told' : t.who # l
       /\ \A c \in Clients : \A m \in DOMAIN todo'[c] : ~TellsTo(todo'[c][m], l),
    \A t \in told' : t.who = l => \A c \in Clients : \A m \in DOMAIN todo'[c] : ~TellsTo(todo'[c][m], l)
  PROVE OnceInv(l)'
BY DEF OnceInv, TellsTo

LEMMA FewerIs ==
  ASSUME NEW s, NEW u, NEW l, Fewer(s, u, l), DOMAIN u \subseteq Int
  PROVE  /\ (\A n \in DOMAIN s : ~TellsTo(s[n], l)) => \A n \in DOMAIN u : ~TellsTo(u[n], l)
         /\ (\A m, n \in DOMAIN s : TellsTo(s[m], l) /\ TellsTo(s[n], l) => m = n) =>
              \A m, n \in DOMAIN u : TellsTo(u[m], l) /\ TellsTo(u[n], l) => m = n
         /\ (\E n \in DOMAIN u : TellsTo(u[n], l)) => \E n \in DOMAIN s : TellsTo(s[n], l)
<1>1. PICK k \in Int : \A n \in DOMAIN u : TellsTo(u[n], l) => n + k \in DOMAIN s /\ u[n] = s[n + k] BY DEF Fewer
<1>2. \A n \in DOMAIN u : TellsTo(u[n], l) => n + k \in DOMAIN s /\ TellsTo(s[n + k], l) BY <1>1
<1>3. ASSUME \A m, n \in DOMAIN s : TellsTo(s[m], l) /\ TellsTo(s[n], l) => m = n,
             NEW m \in DOMAIN u, NEW n \in DOMAIN u, TellsTo(u[m], l), TellsTo(u[n], l)
      PROVE  m = n
  <2>1. m + k \in DOMAIN s /\ TellsTo(s[m + k], l) /\ n + k \in DOMAIN s /\ TellsTo(s[n + k], l) BY <1>2, <1>3
  <2>2. \A a, b \in DOMAIN s : TellsTo(s[a], l) /\ TellsTo(s[b], l) => a = b BY <1>3
  <2> DEFINE a == m + k
             b == n + k
  <2>3. a \in DOMAIN s /\ b \in DOMAIN s /\ TellsTo(s[a], l) /\ TellsTo(s[b], l) BY <2>1
  <2> HIDE DEF a, b
  <2>4. a = b BY <2>2, <2>3
  <2>5. m \in Int /\ n \in Int OBVIOUS
  <2> QED BY <2>4, <2>5 DEF a, b
<1> QED BY <1>2, <1>3

LEMMA ThinnerSelf == ASSUME NEW l, listeners' = listeners PROVE Thinner(l)
<1> DEFINE q == [m \in DOMAIN listeners |-> m]
<1>1. \A m \in DOMAIN listeners : q[m] = m OBVIOUS
<1> HIDE DEF q
<1> QED BY <1>1 DEF Thinner

\* Fewer listeners, and fewer steps that tell them.
LEMMA OnceLess ==
  ASSUME NEW l, OnceInv(l), Thinner(l), \A t \in told' : t.who = l => t \in told,
         \A c \in Clients : Fewer(todo[c], todo'[c], l) /\ DOMAIN todo'[c] \subseteq Int
  PROVE  OnceInv(l)'
<1>1. PICK q : /\ \A m \in DOMAIN listeners' : listeners'[m].who = l => q[m] \in DOMAIN listeners /\ listeners'[m] = listeners[q[m]]
               /\ \A m, n \in DOMAIN listeners' : listeners'[m].who = l /\ listeners'[n].who = l /\ q[m] = q[n] => m = n
  BY DEF Thinner
<1>2. /\ \A m, n \in DOMAIN listeners : listeners[m].who = l /\ listeners[n].who = l => m = n /\ listeners[m].once
      /\ \A c, d \in Clients : \A m \in DOMAIN todo[c], n \in DOMAIN todo[d] :
           TellsTo(todo[c][m], l) /\ TellsTo(todo[d][n], l) => c = d /\ m = n
      /\ \A t, u \in told : t.who = l /\ u.who = l => t = u
      /\ \A n \in DOMAIN listeners : listeners[n].who = l =>
           /\ \A t \in told : t.who # l
           /\ \A c \in Clients : \A m \in DOMAIN todo[c] : ~TellsTo(todo[c][m], l)
      /\ \A t \in told : t.who = l => \A c \in Clients : \A m \in DOMAIN todo[c] : ~TellsTo(todo[c][m], l)
  BY DEF OnceInv
<1>3. \A c \in Clients :
        /\ (\A n \in DOMAIN todo[c] : ~TellsTo(todo[c][n], l)) => \A n \in DOMAIN todo'[c] : ~TellsTo(todo'[c][n], l)
        /\ (\A m, n \in DOMAIN todo[c] : TellsTo(todo[c][m], l) /\ TellsTo(todo[c][n], l) => m = n) =>
             \A m, n \in DOMAIN todo'[c] : TellsTo(todo'[c][m], l) /\ TellsTo(todo'[c][n], l) => m = n
        /\ (\E n \in DOMAIN todo'[c] : TellsTo(todo'[c][n], l)) => \E n \in DOMAIN todo[c] : TellsTo(todo[c][n], l)
  <2> SUFFICES ASSUME NEW c \in Clients
               PROVE  /\ (\A n \in DOMAIN todo[c] : ~TellsTo(todo[c][n], l)) => \A n \in DOMAIN todo'[c] : ~TellsTo(todo'[c][n], l)
                      /\ (\A m, n \in DOMAIN todo[c] : TellsTo(todo[c][m], l) /\ TellsTo(todo[c][n], l) => m = n) =>
                           \A m, n \in DOMAIN todo'[c] : TellsTo(todo'[c][m], l) /\ TellsTo(todo'[c][n], l) => m = n
                      /\ (\E n \in DOMAIN todo'[c] : TellsTo(todo'[c][n], l)) => \E n \in DOMAIN todo[c] : TellsTo(todo[c][n], l)
    OBVIOUS
  <2>1. Fewer(todo[c], todo'[c], l) /\ DOMAIN todo'[c] \subseteq Int OBVIOUS
  <2> QED BY <2>1, FewerIs
<1>4. \A m, n \in DOMAIN listeners' : listeners'[m].who = l /\ listeners'[n].who = l => m = n /\ listeners'[m].once
  <2> SUFFICES ASSUME NEW m \in DOMAIN listeners', NEW n \in DOMAIN listeners', listeners'[m].who = l, listeners'[n].who = l
               PROVE  m = n /\ listeners'[m].once
    OBVIOUS
  <2>1. q[m] \in DOMAIN listeners /\ listeners'[m] = listeners[q[m]] /\ q[n] \in DOMAIN listeners /\ listeners'[n] = listeners[q[n]]
    BY <1>1
  <2>2. q[m] = q[n] /\ listeners[q[m]].once BY <1>2, <2>1
  <2> QED BY <1>1, <2>1, <2>2
<1>5. ASSUME NEW c \in Clients, NEW d \in Clients, NEW m \in DOMAIN todo'[c], NEW n \in DOMAIN todo'[d],
             TellsTo(todo'[c][m], l), TellsTo(todo'[d][n], l)
      PROVE  c = d /\ m = n
  <2>1. PICK a \in DOMAIN todo[c] : TellsTo(todo[c][a], l) BY <1>3, <1>5
  <2>2. PICK b \in DOMAIN todo[d] : TellsTo(todo[d][b], l) BY <1>3, <1>5
  <2>3. c = d BY <1>2, <2>1, <2>2
  <2>4. \A e, f \in DOMAIN todo[c] : TellsTo(todo[c][e], l) /\ TellsTo(todo[c][f], l) => e = f BY <1>2
  <2> QED BY <1>3, <1>5, <2>3, <2>4
<1>6. \A n \in DOMAIN listeners' : listeners'[n].who = l =>
        /\ \A t \in told' : t.who # l
        /\ \A c \in Clients : \A m \in DOMAIN todo'[c] : ~TellsTo(todo'[c][m], l)
  <2> SUFFICES ASSUME NEW n \in DOMAIN listeners', listeners'[n].who = l
               PROVE  /\ \A t \in told' : t.who # l
                      /\ \A c \in Clients : \A m \in DOMAIN todo'[c] : ~TellsTo(todo'[c][m], l)
    OBVIOUS
  <2>1. q[n] \in DOMAIN listeners /\ listeners[q[n]].who = l BY <1>1
  <2> QED BY <1>2, <1>3, <2>1
<1>7. \A t \in told' : t.who = l => \A c \in Clients : \A m \in DOMAIN todo'[c] : ~TellsTo(todo'[c][m], l)
  BY <1>2, <1>3
<1>8. \A t, u \in told' : t.who = l /\ u.who = l => t = u BY <1>2
<1> QED BY <1>4, <1>5, <1>6, <1>7, <1>8, OncePrimed

\* A call that goes on with steps that tell l nothing.
LEMMA GoesFewer ==
  ASSUME TypeInv, NEW c \in Clients, NEW steps \in Seq(Steps), NEW miss, Goes(c, steps, miss), NEW l,
         \A n \in DOMAIN steps : ~TellsTo(steps[n], l)
  PROVE  \A d \in Clients : Fewer(todo[d], todo'[d], l) /\ DOMAIN todo'[d] \subseteq Int
<1>1. IsRest(todo[c], steps, todo'[c]) BY DEF IsRest, Goes, TypeInv
<1>2. /\ \A n \in DOMAIN steps : todo'[c][n] = steps[n]
      /\ \A n \in DOMAIN todo'[c] : \/ n \in DOMAIN steps
                                    \/ n - Len(steps) + 1 \in DOMAIN todo[c] /\ todo'[c][n] = todo[c][n - Len(steps) + 1]
      /\ Len(steps) \in Nat /\ DOMAIN todo'[c] = 1 .. Len(todo'[c])
  BY <1>1, Spliced DEF IsRest
<1>3. Fewer(todo[c], todo'[c], l)
  <2>1. 1 - Len(steps) \in Int BY <1>2
  <2>2. ASSUME NEW n \in DOMAIN todo'[c], TellsTo(todo'[c][n], l)
        PROVE  n + (1 - Len(steps)) \in DOMAIN todo[c] /\ todo'[c][n] = todo[c][n + (1 - Len(steps))]
    <3>1. n \notin DOMAIN steps BY <1>2, <2>2
    <3>2. n \in Int /\ n + (1 - Len(steps)) = n - Len(steps) + 1 BY <1>2
    <3> QED BY <3>1, <3>2, <1>2
  <2> QED BY <2>1, <2>2 DEF Fewer
<1>4. ASSUME NEW d \in Clients, d # c PROVE Fewer(todo[d], todo'[d], l) /\ DOMAIN todo'[d] \subseteq Int
  <2>1. todo'[d] = todo[d] /\ todo[d] \in Seq(Steps) BY <1>4 DEF Goes, TypeInv
  <2>2. \A n \in DOMAIN todo[d] : n \in Int /\ n + 0 = n BY <2>1
  <2> QED BY <2>1, <2>2 DEF Fewer
<1>5. DOMAIN todo'[c] \subseteq Int BY <1>2
<1> QED BY <1>3, <1>4, <1>5

LEMMA SameFewer ==
  ASSUME TypeInv, NEW c \in Clients, NEW l, \A n \in DOMAIN todo'[c] : ~TellsTo(todo'[c][n], l), todo'[c] \in Seq(Steps),
         \A d \in Clients : d # c => todo'[d] = todo[d]
  PROVE  \A d \in Clients : Fewer(todo[d], todo'[d], l) /\ DOMAIN todo'[d] \subseteq Int
<1>1. Fewer(todo[c], todo'[c], l)
  <2>1. 0 \in Int OBVIOUS
  <2> QED BY <2>1 DEF Fewer
<1>2. DOMAIN todo'[c] \subseteq Int OBVIOUS
<1>3. ASSUME NEW d \in Clients, d # c PROVE Fewer(todo[d], todo'[d], l) /\ DOMAIN todo'[d] \subseteq Int
  <2>1. todo'[d] = todo[d] /\ todo[d] \in Seq(Steps) BY <1>3 DEF TypeInv
  <2>2. \A n \in DOMAIN todo[d] : n \in Int /\ n + 0 = n BY <2>1
  <2> QED BY <2>1, <2>2 DEF Fewer
<1> QED BY <1>1, <1>2, <1>3

LEMMA TellsOnce == ASSUME Base, NEW c \in Clients, Tells(c), NEW l, OnceInv(l) PROVE OnceInv(l)'
<1>1. Goes(c, <<>>, {}) /\ Now(c).do = "tell" /\ listeners' = listeners /\ TypeInv BY DEF Tells, Base
<1>2. PICK t \in Tellings : told' = told \cup {t} /\ t.who = Now(c).arg[1] BY DEF Tells
<1>3. <<>> \in Seq(Steps) /\ \A n \in DOMAIN <<>> : ~TellsTo(<<>>[n], l) OBVIOUS
<1>4. \A d \in Clients : Fewer(todo[d], todo'[d], l) /\ DOMAIN todo'[d] \subseteq Int BY <1>1, <1>3, GoesFewer
<1>5. CASE t.who # l
  <2>1. \A u \in told' : u.who = l => u \in told BY <1>2, <1>5
  <2> QED BY <1>1, <1>4, <2>1, ThinnerSelf, OnceLess
<1>6. CASE t.who = l
  <2>1. todo[c] # <<>> /\ Now(c) = todo[c][1] /\ 1 \in DOMAIN todo[c] BY <1>1, NowIs DEF Goes
  <2>2. TellsTo(todo[c][1], l) BY <1>1, <1>2, <1>6, <2>1 DEF TellsTo
  <2>3. /\ \A d \in Clients : \A n \in DOMAIN todo[d] : TellsTo(todo[d][n], l) => d = c /\ n = 1
        /\ \A u \in told : u.who # l
        /\ \A n \in DOMAIN listeners : listeners[n].who # l
    BY <2>1, <2>2 DEF OnceInv
  <2>4. \A d \in Clients : \A n \in DOMAIN todo'[d] : ~TellsTo(todo'[d][n], l)
    <3>1. IsRest(todo[c], <<>>, todo'[c]) BY <1>1 DEF IsRest, Goes, TypeInv
    <3>2. \A n \in DOMAIN todo'[c] : \E m \in DOMAIN todo[c] : m > 1 /\ todo'[c][n] = todo[c][m] BY <3>1, RestHas
    <3>3. ASSUME NEW n \in DOMAIN todo'[c], TellsTo(todo'[c][n], l) PROVE FALSE
      <4>1. PICK m \in DOMAIN todo[c] : m > 1 /\ todo'[c][n] = todo[c][m] BY <3>2
      <4>2. TellsTo(todo[c][m], l) BY <4>1, <3>3
      <4>3. m = 1 BY <4>2, <2>3
      <4> QED BY <4>1, <4>3
    <3>4. \A d \in Clients : d # c => todo'[d] = todo[d] BY <1>1 DEF Goes
    <3> QED BY <3>3, <3>4, <2>3
  <2>5. \A u, v \in told' : u.who = l /\ v.who = l => u = v BY <1>2, <2>3
  <2>6. \A n \in DOMAIN listeners' : listeners'[n].who # l BY <1>1, <2>3
  <2> QED BY <2>4, <2>5, <2>6, OncePrimed
<1> QED BY <1>5, <1>6

LEMMA EmitsOnce == ASSUME Base, NEW c \in Clients, NEW steps, Emits(c, steps), NEW l \in Who, OnceInv(l)
                  PROVE  OnceInv(l)'
<1>1. Goes(c, steps, {}) /\ told' = told /\ steps \in Seq(Steps) /\ Heard(c, steps) /\ Stayed(c) /\ TypeInv
  BY DEF Emits, Base
<1>2. PICK p \in [DOMAIN steps -> DOMAIN listeners \cup {0}] :
        /\ \A n \in DOMAIN steps : TellsTo(steps[n], l) => /\ p[n] \in DOMAIN listeners /\ listeners[p[n]].who = l
                                                           /\ Now(c).arg \in listeners[p[n]].names
        /\ \A m, n \in DOMAIN steps : p[m] = p[n] => m = n
  <2>1. l # "own" BY ClientsAssumption
  <2> QED BY <1>1, <2>1 DEF Heard, TellsTo
<1>3. PICK q \in [DOMAIN listeners' -> DOMAIN listeners] :
        /\ \A m \in DOMAIN listeners' : /\ listeners'[m] = listeners[q[m]]
                                        /\ Now(c).arg \notin listeners[q[m]].names \/ ~listeners[q[m]].once
        /\ \A m, n \in DOMAIN listeners' : q[m] = q[n] => m = n
  BY <1>1 DEF Stayed
<1>4. Thinner(l) BY <1>3 DEF Thinner
<1>5. CASE \A n \in DOMAIN steps : ~TellsTo(steps[n], l)
  <2>1. \A d \in Clients : Fewer(todo[d], todo'[d], l) /\ DOMAIN todo'[d] \subseteq Int BY <1>1, <1>5, GoesFewer
  <2>2. \A t \in told' : t.who = l => t \in told BY <1>1
  <2> QED BY <1>4, <2>1, <2>2, OnceLess
<1>6. ASSUME NEW k \in DOMAIN steps, TellsTo(steps[k], l) PROVE OnceInv(l)'
  <2>1. listeners[p[k]].who = l /\ p[k] \in DOMAIN listeners /\ Now(c).arg \in listeners[p[k]].names
    BY <1>2, <1>6
  <2>2. /\ \A n \in DOMAIN listeners : listeners[n].who = l => n = p[k] /\ listeners[n].once
        /\ \A t \in told : t.who # l
        /\ \A d \in Clients : \A m \in DOMAIN todo[d] : ~TellsTo(todo[d][m], l)
    BY <2>1 DEF OnceInv
  <2>3. \A n \in DOMAIN steps : TellsTo(steps[n], l) => n = k
    <3> SUFFICES ASSUME NEW n \in DOMAIN steps, TellsTo(steps[n], l) PROVE n = k OBVIOUS
    <3>1. listeners[p[n]].who = l /\ p[n] \in DOMAIN listeners BY <1>2
    <3>2. p[n] = p[k] BY <3>1, <2>2
    <3> QED BY <3>2, <1>2
  <2>4. \A m \in DOMAIN listeners' : listeners'[m].who # l
    <3> SUFFICES ASSUME NEW m \in DOMAIN listeners', listeners'[m].who = l PROVE FALSE OBVIOUS
    <3>1. q[m] \in DOMAIN listeners /\ listeners[q[m]].who = l BY <1>3
    <3>2. q[m] = p[k] /\ listeners[q[m]].once BY <3>1, <2>2
    <3>3. Now(c).arg \in listeners[q[m]].names BY <3>2, <2>1
    <3> QED BY <3>2, <3>3, <1>3
  <2>5. \A n \in DOMAIN todo'[c] : TellsTo(todo'[c][n], l) => n = k
    <3>1. IsRest(todo[c], steps, todo'[c]) BY <1>1 DEF IsRest, Goes, TypeInv
    <3>2. /\ \A n \in DOMAIN steps : todo'[c][n] = steps[n]
          /\ \A n \in DOMAIN todo'[c] : \/ n \in DOMAIN steps
                                        \/ n - Len(steps) + 1 \in DOMAIN todo[c] /\ todo'[c][n] = todo[c][n - Len(steps) + 1]
      BY <3>1, <1>1, Spliced DEF IsRest, TypeInv
    <3> SUFFICES ASSUME NEW n \in DOMAIN todo'[c], TellsTo(todo'[c][n], l) PROVE n = k OBVIOUS
    <3>3. n \in DOMAIN steps BY <3>2, <2>2
    <3> QED BY <3>2, <3>3, <2>3
  <2>6. \A d \in Clients : d # c => \A n \in DOMAIN todo'[d] : ~TellsTo(todo'[d][n], l)
    <3>1. \A d \in Clients : d # c => todo'[d] = todo[d] BY <1>1 DEF Goes
    <3> QED BY <3>1, <2>2
  <2>7. \A d, e \in Clients : \A m \in DOMAIN todo'[d], n \in DOMAIN todo'[e] :
          TellsTo(todo'[d][m], l) /\ TellsTo(todo'[e][n], l) => d = e /\ m = n
    BY <2>5, <2>6
  <2>8. \A t \in told' : t.who # l BY <1>1, <2>2
  <2> QED BY <2>4, <2>7, <2>8, OncePrimed
<1> QED BY <1>5, <1>6

LEMMA MovesOnce == ASSUME Base, NEW c \in Clients, Moves(c), NEW l \in Who, OnceInv(l) PROVE OnceInv(l)'
<1>0. TypeInv BY DEF Base
<1>e. <<>> \in Seq(Steps) /\ \A n \in DOMAIN <<>> : ~TellsTo(<<>>[n], l) OBVIOUS
<1>1. ASSUME listeners' = listeners, told' = told, \A d \in Clients : Fewer(todo[d], todo'[d], l) /\ DOMAIN todo'[d] \subseteq Int
      PROVE  OnceInv(l)'
  <2>1. \A t \in told' : t.who = l => t \in told BY <1>1
  <2> QED BY <1>1, <2>1, ThinnerSelf, OnceLess
<1>2. CASE Throws(c)
  <2>1. todo'[c] = <<>> /\ listeners' = listeners /\ told' = told BY <1>2 DEF Throws, Unmoved
  <2>2. \A d \in Clients : d # c => todo'[d] = todo[d] BY <1>2 DEF Throws
  <2>3. todo'[c] \in Seq(Steps) /\ \A n \in DOMAIN todo'[c] : ~TellsTo(todo'[c][n], l) BY <2>1
  <2> QED BY <1>0, <1>1, <2>1, <2>2, <2>3, SameFewer
<1>3. ASSUME NEW steps, NEW miss, NEW mine, Advances(c, steps, miss, mine) PROVE OnceInv(l)'
  <2>1. Goes(c, steps, miss) /\ Fits(c, steps) /\ listeners' = listeners /\ told' = told
    BY <1>3 DEF Advances, Unmoved
  <2>2. steps \in Seq(Steps) /\ Untold(steps) BY <2>1 DEF Fits, Fit
  <2>3. \A n \in DOMAIN steps : ~TellsTo(steps[n], l) BY <2>2 DEF Untold, TellsTo
  <2> QED BY <1>0, <1>1, <2>1, <2>2, <2>3, GoesFewer
<1>4. ASSUME Goes(c, <<>>, {}), listeners' = listeners, told' = told PROVE OnceInv(l)'
  BY <1>0, <1>1, <1>e, <1>4, GoesFewer
<1>5. CASE RollsBack(c) BY <1>4, <1>5 DEF RollsBack, Serves, Unmoved
<1>6. CASE Begins(c) BY <1>4, <1>6 DEF Begins, Serves, Unmoved
<1>7. CASE Commits(c) BY <1>4, <1>7 DEF Commits, Serves, Unmoved
<1>8. CASE Clears(c) BY <1>4, <1>8 DEF Clears, Clear
<1>9. CASE Tells(c) BY <1>9, TellsOnce
<1>10. ASSUME NEW steps, Emits(c, steps) PROVE OnceInv(l)' BY <1>10, EmitsOnce
<1>11. ASSUME NEW op, NEW A, NEW steps, Starts(c, op, A, steps) PROVE OnceInv(l)'
  <2>1. todo'[c] = steps /\ listeners' = listeners /\ told' = told /\ steps \in Seq(Steps) /\ Untold(steps)
    BY <1>11 DEF Starts, Opening
  <2>2. \A d \in Clients : d # c => todo'[d] = todo[d] BY <1>11 DEF Starts
  <2>3. todo'[c] \in Seq(Steps) /\ \A n \in DOMAIN todo'[c] : ~TellsTo(todo'[c][n], l) BY <2>1 DEF Untold, TellsTo
  <2> QED BY <1>0, <1>1, <2>1, <2>2, <2>3, SameFewer
<1> QED BY <1>2, <1>3, <1>5, <1>6, <1>7, <1>8, <1>9, <1>10, <1>11 DEF Moves, Went

LEMMA RestsOnce == ASSUME Base, Rests, NEW l, OnceInv(l) PROVE OnceInv(l)'
<1>0. TypeInv /\ listeners \in Seq(Listener) BY DEF Base, TypeInv
<1>1. told' = told /\ todo' = todo
  BY ListensIs, <1>0 DEF Rests, uvars, vars, Still, Loads, Registers, Rollback, Listens
<1>2. ASSUME Thinner(l) PROVE OnceInv(l)'
  <2>1. \A d \in Clients : Fewer(todo[d], todo'[d], l) /\ DOMAIN todo'[d] \subseteq Int
    <3> SUFFICES ASSUME NEW d \in Clients PROVE Fewer(todo[d], todo'[d], l) /\ DOMAIN todo'[d] \subseteq Int OBVIOUS
    <3>1. todo'[d] = todo[d] /\ todo[d] \in Seq(Steps) BY <1>0, <1>1 DEF TypeInv
    <3>2. \A n \in DOMAIN todo[d] : n \in Int /\ n + 0 = n BY <3>1
    <3> QED BY <3>1, <3>2 DEF Fewer
  <2>2. \A t \in told' : t.who = l => t \in told BY <1>1
  <2> QED BY <1>2, <2>1, <2>2, OnceLess
<1>3. CASE listeners' = listeners BY <1>2, <1>3, ThinnerSelf
<1>4. ASSUME NEW k \in Who, Subscribe(k, {"created", "updated"}) PROVE OnceInv(l)'
  <2> DEFINE x == [who |-> k, names |-> {"created", "updated"}, once |-> TRUE]
  <2>1. listeners' = Append(listeners, x) BY <1>4 DEF Subscribe, Once, Registration
  <2>x. x.who = k /\ x.once OBVIOUS
  <2> HIDE DEF x
  <2>2. /\ DOMAIN listeners' = 1 .. Len(listeners) + 1 /\ Len(listeners) \in Nat /\ DOMAIN listeners = 1 .. Len(listeners)
        /\ \A m \in DOMAIN listeners : listeners'[m] = listeners[m]
        /\ listeners'[Len(listeners) + 1] = x
    BY <1>0, <2>1
  <2>3. \A m \in DOMAIN listeners' : m \in DOMAIN listeners \/ m = Len(listeners) + 1 BY <2>2
  <2>4. CASE k # l
    <3> DEFINE q == [m \in DOMAIN listeners' |-> m]
    <3>1. \A m \in DOMAIN listeners' : q[m] = m OBVIOUS
    <3> HIDE DEF q
    <3>2. Thinner(l) BY <2>x, <2>2, <2>3, <2>4, <3>1 DEF Thinner
    <3> QED BY <3>2, <1>2
  <2>5. CASE k = l
    <3>1. /\ \A m \in DOMAIN listeners : listeners[m].who # l
          /\ \A t \in told : t.who # l
          /\ \A d \in Clients : \A n \in DOMAIN todo[d] : ~TellsTo(todo[d][n], l)
      BY <1>4, <2>5 DEF Subscribe, TellsTo
    <3>2. \A m, n \in DOMAIN listeners' : listeners'[m].who = l /\ listeners'[n].who = l => m = n /\ listeners'[m].once
      BY <2>x, <2>2, <2>3, <3>1
    <3>3. \A t \in told' : t.who # l BY <1>1, <3>1
    <3>4. \A d \in Clients : \A n \in DOMAIN todo'[d] : ~TellsTo(todo'[d][n], l) BY <1>1, <3>1
    <3> QED BY <3>2, <3>3, <3>4, OncePrimed
  <2> QED BY <2>4, <2>5
<1>5. ASSUME NEW k \in Who, Unsubscribe(k) PROVE OnceInv(l)'
  <2> DEFINE Good == {x \in Range(listeners) : x.who # k}
  <2>1. listeners' = Among(listeners, Good) BY <1>5 DEF Unsubscribe, Off
  <2>2. Picked(listeners', listeners, Listener, Good) BY <1>0, <2>1, AmongPicks
  <2> HIDE DEF Good
  <2>3. PICK q : Picks(listeners', listeners, Listener, Good, q) BY <2>2 DEF Picked
  <2>4. Thinner(l) BY <2>3 DEF Picks, Thinner
  <2> QED BY <2>4, <1>2
<1>6. listeners' = listeners \/ Listens BY DEF Rests, uvars, vars, Loads, Registers, Rollback
<1> QED BY <1>3, <1>4, <1>5, <1>6 DEF Listens

\* A once() listener is told at most once.
LEMMA OnceKept ==
  ASSUME Base, OncesInv, (\E c \in Clients : Moves(c)) \/ Rests
  PROVE  OncesInv'
BY MovesOnce, RestsOnce DEF OncesInv

(* ------------------------- operations are numbered ------------------------ *)

LEMMA NumberedCounts == Numbered <=> Counts(unit, fate, taken, serial)
<1> DEFINE S == {op.n : op \in Registered}
<1>1. \A k : k \in S <=> (\E n \in DOMAIN unit : unit[n].n = k) \/ \E f \in fate : f.op.n = k
  <2>1. \A k : k \in S <=> \E op \in Registered : op.n = k OBVIOUS
  <2>2. \A op : op \in Registered <=> (\E n \in DOMAIN unit : unit[n] = op) \/ \E f \in fate : f.op = op
    BY DEF Registered
  <2> HIDE DEF S
  <2> QED BY <2>1, <2>2
<1>2. Numbered <=> /\ \A m, n \in DOMAIN unit : unit[m].n = unit[n].n => m = n
                   /\ S = 1 .. serial
                   /\ \A c \in Clients : \A n \in DOMAIN taken[c] : taken[c][n].n \in 1 .. serial
  BY DEF Numbered
<1> HIDE DEF S
<1>3. S = 1 .. serial <=> \A k : k \in S <=> k \in 1 .. serial OBVIOUS
<1> QED BY <1>1, <1>2, <1>3 DEF Counts

LEMMA CountsPrimed == ASSUME Counts(unit', fate', taken', serial') PROVE Numbered'
<1> DEFINE S == {op.n : op \in Registered'}
<1>1. \A k : k \in S <=> (\E n \in DOMAIN unit' : unit'[n].n = k) \/ \E f \in fate' : f.op.n = k
  <2>1. \A k : k \in S <=> \E op \in Registered' : op.n = k OBVIOUS
  <2>2. \A op : op \in Registered' <=> (\E n \in DOMAIN unit' : unit'[n] = op) \/ \E f \in fate' : f.op = op
    BY DEF Registered
  <2> HIDE DEF S
  <2> QED BY <2>1, <2>2
<1>2. Numbered' <=> /\ \A m, n \in DOMAIN unit' : unit'[m].n = unit'[n].n => m = n
                    /\ S = 1 .. serial'
                    /\ \A c \in Clients : \A n \in DOMAIN taken'[c] : taken'[c][n].n \in 1 .. serial'
  BY DEF Numbered
<1> HIDE DEF S
<1>3. S = 1 .. serial' <=> \A k : k \in S <=> k \in 1 .. serial' OBVIOUS
<1> QED BY <1>1, <1>2, <1>3 DEF Counts

\* What clear adds to the fates.
LEMMA ClearCounts ==
  ASSUME NEW c \in Clients, Clear(c), Counts(unit, fate, taken, serial)
  PROVE  Counts(unit', fate', taken', serial')
<1> DEFINE h == IF call[c].undone THEN "undone" ELSE "flushed"
           F == {[op |-> taken[c][n], how |-> h, call |-> call[c].n] : n \in DOMAIN taken[c]}
           L == {f \in Left("late", call[c].n) : f.op \notin Range(taken[c])}
<1>1. fate' = fate \cup F \cup L /\ unit' = <<>> /\ taken' = [taken EXCEPT ![c] = <<>>] /\ serial' = serial
  BY DEF Clear
<1>2. \A f : f \in F <=> \E n \in DOMAIN taken[c] : f = [op |-> taken[c][n], how |-> h, call |-> call[c].n]
  OBVIOUS
<1>3. \A f : f \in L <=> /\ \E n \in DOMAIN unit : f = [op |-> unit[n], how |-> "late", call |-> call[c].n]
                         /\ ~\E m \in DOMAIN taken[c] : taken[c][m] = f.op
  BY DEF Left, Range
<1> HIDE DEF h, F, L
<1>4. ASSUME NEW f \in fate' PROVE f.op.n \in 1 .. serial
  <2>1. CASE f \in fate BY <2>1 DEF Counts
  <2>2. CASE f \in F
    <3>1. PICK n \in DOMAIN taken[c] : f = [op |-> taken[c][n], how |-> h, call |-> call[c].n] BY <2>2, <1>2
    <3>2. f.op = taken[c][n] BY <3>1
    <3> QED BY <3>2 DEF Counts
  <2>3. CASE f \in L
    <3>1. PICK n \in DOMAIN unit : f = [op |-> unit[n], how |-> "late", call |-> call[c].n] BY <2>3, <1>3
    <3>2. f.op = unit[n] BY <3>1
    <3> QED BY <3>2 DEF Counts
  <2> QED BY <1>1, <2>1, <2>2, <2>3
<1>5. ASSUME NEW k \in 1 .. serial PROVE \E f \in fate' : f.op.n = k
  <2>1. CASE \E f \in fate : f.op.n = k BY <2>1, <1>1
  <2>2. ASSUME NEW n \in DOMAIN unit, unit[n].n = k PROVE \E f \in fate' : f.op.n = k
    <3>1. CASE \E m \in DOMAIN taken[c] : taken[c][m] = unit[n]
      <4>1. PICK m \in DOMAIN taken[c] : taken[c][m] = unit[n] BY <3>1
      <4> DEFINE f == [op |-> taken[c][m], how |-> h, call |-> call[c].n]
      <4>2. f \in F /\ f.op = unit[n] BY <4>1, <1>2
      <4> HIDE DEF f
      <4> QED BY <4>2, <2>2, <1>1
    <3>2. CASE ~\E m \in DOMAIN taken[c] : taken[c][m] = unit[n]
      <4> DEFINE f == [op |-> unit[n], how |-> "late", call |-> call[c].n]
      <4>1. f.op = unit[n] OBVIOUS
      <4>2. f \in L BY <4>1, <3>2, <1>3
      <4> HIDE DEF f
      <4> QED BY <4>1, <4>2, <2>2, <1>1
    <3> QED BY <3>1, <3>2
  <2> QED BY <2>1, <2>2 DEF Counts
<1>6. ASSUME NEW d \in Clients, NEW n \in DOMAIN taken'[d] PROVE taken'[d][n].n \in 1 .. serial
  <2>1. \/ taken'[d] = <<>>
        \/ taken'[d] = taken[d]
    BY <1>1
  <2> QED BY <2>1, <1>6 DEF Counts
<1> QED BY <1>1, <1>4, <1>5, <1>6 DEF Counts

\* No operation is lost, and none is in the unit twice.
LEMMA NumberedKept ==
  ASSUME Base, Numbered, (\E c \in Clients : Moves(c)) \/ Rests
  PROVE  Numbered'
<1>0. Counts(unit, fate, taken, serial) BY NumberedCounts
<1>1. ASSUME UNCHANGED <<unit, serial, taken, fate>> PROVE Numbered' BY <1>0, <1>1, CountsPrimed
<1>2. ASSUME NEW c \in Clients, Moves(c) PROVE Numbered'
  <2>1. CASE Clears(c) BY <1>0, <2>1, ClearCounts, CountsPrimed DEF Clears
  <2>2. CASE UNCHANGED <<unit, serial, fate>>
    <3>1. CASE taken' = taken BY <3>1, <1>1, <2>2
    <3>2. CASE taken' = [taken EXCEPT ![c] = unit]
      <4>1. \A d \in Clients : taken'[d] = taken[d] \/ taken'[d] = unit BY <3>2 DEF Base, TypeInv
      <4>2. Counts(unit', fate', taken', serial') BY <1>0, <2>2, <4>1 DEF Counts
      <4> QED BY <4>2, CountsPrimed
    <3>3. taken' = taken \/ Clears(c) \/ \E op, A, steps : Starts(c, op, A, steps) BY <1>2, MovesLeave DEF Leaves, Base
    <3> QED BY <2>1, <3>1, <3>2, <3>3 DEF Starts
  <2> QED BY <1>2, <2>1, <2>2, MovesLeave DEF Leaves, Base
<1>3. CASE UNCHANGED uvars BY <1>1, <1>3 DEF uvars
<1>4. ASSUME Still, NEW c \in Clients, NEW i \in Ids, Loads(c, i) PROVE Numbered' BY <1>1, <1>4 DEF Still, Loads
<1>5. ASSUME Still, Listens PROVE Numbered' BY <1>1, <1>5 DEF Still, Listens
<1>6. ASSUME Still, NEW c \in Clients, NEW i \in Ids, NEW do, NEW e, Registers(c, do, i, e) PROVE Numbered'
  <2> DEFINE x == Op(serial + 1, do, i, e)
  <2>1. unit' = Append(unit, x) /\ x.n = serial + 1 /\ serial' = serial + 1 /\ serial \in Nat
    BY <1>6, RegistersIs DEF Base
  <2>2. unit \in Seq(Ops) /\ fate' = fate /\ taken' = taken BY <1>6 DEF Base, TypeInv, Registers, Still
  <2> HIDE DEF x
  <2>3. /\ DOMAIN unit' = 1 .. Len(unit) + 1 /\ Len(unit) \in Nat /\ DOMAIN unit = 1 .. Len(unit)
        /\ \A m \in DOMAIN unit : unit'[m] = unit[m] /\ m \in DOMAIN unit'
        /\ unit'[Len(unit) + 1] = x /\ Len(unit) + 1 \in DOMAIN unit'
    BY <2>1, <2>2
  <2>4. \A m \in DOMAIN unit' : m \in DOMAIN unit \/ m = Len(unit) + 1 BY <2>3
  <2>5. \A k : k \in 1 .. serial' <=> k \in 1 .. serial \/ k = serial + 1 BY <2>1
  <2>6. serial + 1 \notin 1 .. serial BY <2>1
  <2>7. \A m \in DOMAIN unit' : unit'[m].n \in 1 .. serial' BY <1>0, <2>1, <2>3, <2>4, <2>5 DEF Counts
  <2>8. \A m, n \in DOMAIN unit' : unit'[m].n = unit'[n].n => m = n
    BY <1>0, <2>1, <2>3, <2>4, <2>6 DEF Counts
  <2>9. \A k \in 1 .. serial' : (\E n \in DOMAIN unit' : unit'[n].n = k) \/ \E f \in fate' : f.op.n = k
    <3> SUFFICES ASSUME NEW k \in 1 .. serial'
                 PROVE (\E n \in DOMAIN unit' : unit'[n].n = k) \/ \E f \in fate' : f.op.n = k
      OBVIOUS
    <3>1. CASE k = serial + 1 BY <3>1, <2>1, <2>3
    <3>2. CASE k \in 1 .. serial BY <3>2, <1>0, <2>2, <2>3 DEF Counts
    <3> QED BY <3>1, <3>2, <2>5
  <2>10. Counts(unit', fate', taken', serial') BY <1>0, <2>2, <2>5, <2>7, <2>8, <2>9 DEF Counts
  <2> QED BY <2>10, CountsPrimed
<1>7. ASSUME Still, Rollback PROVE Numbered'
  <2>1. unit' = <<>> /\ fate' = fate \cup Left("dropped", 0) /\ serial' = serial /\ taken' = taken
    BY <1>7 DEF Rollback, Still
  <2> DEFINE L == Left("dropped", 0)
  <2>2. \A f : f \in L <=> \E n \in DOMAIN unit : f = [op |-> unit[n], how |-> "dropped", call |-> 0] BY DEF Left
  <2>3. fate' = fate \cup L BY <2>1
  <2> HIDE DEF L
  <2>4. ASSUME NEW n \in DOMAIN unit PROVE \E f \in fate' : f.op.n = unit[n].n
    <3> DEFINE f == [op |-> unit[n], how |-> "dropped", call |-> 0]
    <3>1. f \in L /\ f.op = unit[n] BY <2>2
    <3> HIDE DEF f
    <3> QED BY <3>1, <2>3
  <2>5. ASSUME NEW f \in fate' PROVE f.op.n \in 1 .. serial
    <3>1. CASE f \in fate BY <3>1, <1>0 DEF Counts
    <3>2. CASE f \in L
      <4>1. PICK n \in DOMAIN unit : f = [op |-> unit[n], how |-> "dropped", call |-> 0] BY <3>2, <2>2
      <4>2. f.op = unit[n] BY <4>1
      <4> QED BY <4>2, <1>0 DEF Counts
    <3> QED BY <3>1, <3>2, <2>3
  <2>6. Counts(unit', fate', taken', serial')
    <3>1. \A k \in 1 .. serial : \E f \in fate' : f.op.n = k BY <1>0, <2>3, <2>4 DEF Counts
    <3> QED BY <1>0, <2>1, <2>5, <3>1 DEF Counts
  <2> QED BY <2>6, CountsPrimed
<1> QED BY <1>2, <1>3, <1>4, <1>5, <1>6, <1>7 DEF Rests

(* --------------------------- units of work are whole ---------------------- *)

LEMMA UnitPrimed ==
  ASSUME NEW c,
    Clearing(todo'[c]) => call'[c].op = "unit",
    call'[c].op = "unit" /\ todo'[c] # <<>> => Clearing(todo'[c]), call'[c].undone => Aborts,
    Clearing(todo'[c]) => \A k \in DOMAIN taken'[c] : taken'[c][k].do # "Deleted" =>
      \/ taken'[c][k].id \in Changed(db', call'[c].n)
      \/ call'[c].undone
      \/ Pending(todo'[c], taken'[c][k].id)
      \/ /\ Head(todo'[c]).do = "reload" /\ Head(todo'[c]).id = taken'[c][k].id
         /\ ~Shows(db'.rows, c, taken'[c][k].id) /\ tx' = c
  PROVE UnitInv(c)'
BY DEF UnitInv, Flushes, Clearing, Pending, Changed, Now, Visible, Matches, Shows, SameTenant

LEMMA UnitIs ==
  ASSUME NEW c, UnitInv(c)
  PROVE  /\ Clearing(todo[c]) => call[c].op = "unit"
         /\ call[c].op = "unit" /\ todo[c] # <<>> => Clearing(todo[c])
         /\ call[c].undone => Aborts
         /\ Clearing(todo[c]) => \A k \in DOMAIN taken[c] : taken[c][k].do # "Deleted" =>
              \/ taken[c][k].id \in Changed(db, call[c].n)
              \/ call[c].undone
              \/ Pending(todo[c], taken[c][k].id)
              \/ Now(c).do = "reload" /\ Now(c).id = taken[c][k].id /\ ~Shows(db.rows, c, taken[c][k].id) /\ tx = c
BY DEF UnitInv, Flushes, Clearing, Pending, Visible, Matches, Shows, SameTenant

\* Only a transaction is cleared after.
LEMMA ClearsIn ==
  ASSUME Base, NEW c \in Clients, Clearing(todo[c]), Now(c).do \notin Frame
  PROVE  tx = c
<1>1. todo[c] \in Seq(Steps) /\ Framed(todo[c]) BY DEF Base, TypeInv, CallsInv, CallInv
<1>2. PICK n \in DOMAIN todo[c] : todo[c][n].do = "clear" BY DEF Clearing
<1>3. todo[c] # <<>> /\ DOMAIN todo[c] = 1 .. Len(todo[c]) /\ Len(todo[c]) \in Nat BY <1>1, <1>2
<1>4. Now(c) = todo[c][1] BY <1>3, NowIs DEF Base
<1>5. n > 1
  <2>1. n # 1 BY <1>2, <1>4 DEF Frame
  <2> QED BY <2>1, <1>3
<1>6. todo[c][n - 1].do = "commit" /\ n - 1 \in DOMAIN todo[c] BY <1>1, <1>2, <1>3, <1>5 DEF Framed
<1>7. Now(c).do # "begin" BY DEF Frame
<1> QED BY <1>3, <1>6, <1>7 DEF Base, CallsInv, CallInv

\* What is left of a call that goes on with steps outside of a transaction's frame.
LEMMA GoesUnit ==
  ASSUME Base, NEW c \in Clients, NEW steps \in Seq(Steps), NEW miss, Goes(c, steps, miss),
         \A n \in DOMAIN steps : steps[n].do # "clear"
  PROVE  /\ Clearing(todo'[c]) => Clearing(todo[c])
         /\ Clearing(todo[c]) => Clearing(todo'[c]) \/ Now(c).do = "clear"
         /\ \A i : Pending(todo[c], i) => Pending(todo'[c], i) \/ (Now(c).do \in {"add", "write"} /\ Now(c).id = i)
<1>1. /\ \A n \in DOMAIN todo[c] : todo[c][n] = Now(c) \/ \E m \in DOMAIN todo'[c] : todo'[c][m] = todo[c][n]
      /\ \A n \in DOMAIN todo'[c] : (\E m \in DOMAIN steps : todo'[c][n] = steps[m])
                                    \/ \E m \in DOMAIN todo[c] : m > 1 /\ todo'[c][n] = todo[c][m]
  BY GoesOn DEF Base
<1>2. ASSUME NEW i, Pending(todo[c], i)
      PROVE Pending(todo'[c], i) \/ (Now(c).do \in {"add", "write"} /\ Now(c).id = i)
  <2>1. PICK n \in DOMAIN todo[c] : todo[c][n].do \in {"add", "write"} /\ todo[c][n].id = i BY <1>2 DEF Pending
  <2>2. CASE todo[c][n] = Now(c) BY <2>1, <2>2
  <2>3. CASE \E m \in DOMAIN todo'[c] : todo'[c][m] = todo[c][n] BY <2>1, <2>3 DEF Pending
  <2> QED BY <2>2, <2>3, <1>1
<1>3. ASSUME Clearing(todo'[c]) PROVE Clearing(todo[c])
  <2>1. PICK n \in DOMAIN todo'[c] : todo'[c][n].do = "clear" BY <1>3 DEF Clearing
  <2> QED BY <2>1, <1>1 DEF Clearing
<1>4. ASSUME Clearing(todo[c]) PROVE Clearing(todo'[c]) \/ Now(c).do = "clear"
  <2>1. PICK n \in DOMAIN todo[c] : todo[c][n].do = "clear" BY <1>4 DEF Clearing
  <2>2. CASE todo[c][n] = Now(c) BY <2>1, <2>2
  <2>3. CASE \E m \in DOMAIN todo'[c] : todo'[c][m] = todo[c][n] BY <2>1, <2>3 DEF Clearing
  <2> QED BY <2>2, <2>3, <1>1
<1> QED BY <1>2, <1>3, <1>4

\* A call is undone by a COMMIT of a transaction that was aborted.
LEMMA GoesUndone ==
  ASSUME Base, NEW c \in Clients, NEW steps, NEW miss, Goes(c, steps, miss), UnitInv(c)
  PROVE  (call'[c].undone => Aborts) /\ (call[c].undone => call'[c].undone)
BY UnitIs DEF Goes, Base, TxInv

LEMMA AdvancesUnit ==
  ASSUME Base, NEW c \in Clients, NEW steps, NEW miss, NEW mine, Advances(c, steps, miss, mine), UnitInv(c)
  PROVE  UnitInv(c)'
<1>1. Goes(c, steps, miss) /\ Stores(c, mine) /\ Fits(c, steps) /\ Owes(c, steps, mine) /\ taken' = taken
  BY DEF Advances, Unmoved
<1>2. steps \in Seq(Steps) /\ Unframed(steps) /\ Now(c).do \notin Frame /\ Now(c).do \notin {"emit", "tell"}
  BY <1>1 DEF Fits, Fit
<1>3. \A n \in DOMAIN steps : steps[n].do # "clear" BY <1>2 DEF Unframed, Frame
<1>4. /\ Clearing(todo'[c]) => Clearing(todo[c])
      /\ Clearing(todo[c]) => Clearing(todo'[c]) \/ Now(c).do = "clear"
      /\ \A i : Pending(todo[c], i) => Pending(todo'[c], i) \/ (Now(c).do \in {"add", "write"} /\ Now(c).id = i)
  BY <1>1, <1>2, <1>3, GoesUnit
<1>5. call'[c].n = call[c].n /\ call'[c].op = call[c].op /\ todo[c] # <<>> BY <1>1 DEF Goes
<1>6. Clearing(todo'[c]) => call'[c].op = "unit" BY <1>4, <1>5, UnitIs
<1>u. call'[c].op = "unit" /\ todo'[c] # <<>> => Clearing(todo'[c]) BY <1>2, <1>4, <1>5, UnitIs DEF Frame
<1>v. (call'[c].undone => Aborts) /\ (call[c].undone => call'[c].undone) BY <1>1, GoesUndone
<1>7. ASSUME Clearing(todo'[c]), NEW k \in DOMAIN taken[c], taken[c][k].do # "Deleted"
      PROVE  \/ taken[c][k].id \in Changed(db', call[c].n)
             \/ call'[c].undone
             \/ Pending(todo'[c], taken[c][k].id)
             \/ /\ Head(todo'[c]).do = "reload" /\ Head(todo'[c]).id = taken[c][k].id
                /\ ~Shows(db'.rows, c, taken[c][k].id) /\ tx' = c
  <2> DEFINE i == taken[c][k].id
  <2>1. taken[c] \in Seq(Ops) BY DEF Base, TypeInv
  <2>2. i \in Ids BY <2>1, <1>7, OpIs
  <2>3. db'.changed = db.changed \cup {<<call[c].n, j>> : j \in mine} /\ faults <= faults' /\ tx' = tx /\ mine \in SUBSET Ids
        /\ faults \in Nat /\ faults' \in Nat
    BY <1>1 DEF Stores, Base, TypeInv
  <2>4. \/ i \in Changed(db, call[c].n)
        \/ call[c].undone
        \/ Pending(todo[c], i)
        \/ Now(c).do = "reload" /\ Now(c).id = i /\ ~Shows(db.rows, c, i) /\ tx = c
    BY <1>4, <1>7, UnitIs
  <2> HIDE DEF i
  <2>m. ASSUME i \in mine PROVE i \in Changed(db', call[c].n) BY <2>3, <2>2, <2>m DEF Changed
  <2>5. CASE i \in Changed(db, call[c].n)
    <3>1. i \in Changed(db', call[c].n) BY <2>3, <2>5 DEF Changed
    <3> QED BY <3>1 DEF i
  <2>6. CASE call[c].undone BY <1>v, <2>6
  <2>7. CASE Now(c).do = "reload" /\ Now(c).id = i /\ ~Shows(db.rows, c, i)
    <3>1. Visible(c, Now(c).id) BY <2>7, <1>1 DEF Owes
    <3> QED BY <2>7, <3>1 DEF Visible, Matches, Shows
  <2>8. CASE Pending(todo'[c], i) BY <2>8 DEF i
  <2>9. CASE Now(c).do = "add" /\ Now(c).id = i
    <3>1. i \in mine BY <2>9, <1>1 DEF Owes
    <3> QED BY <3>1, <2>m DEF i
  <2>10. CASE Now(c).do = "write" /\ Now(c).id = i
    <3> DEFINE N == Now(c)
    <3>n. \A j \in Ids : N.do = "write" /\ N.id = j => j \in mine \/ (steps = <<>> /\ ~Shows(db'.rows, c, j))
      BY <1>1 DEF Owes, Visible, Matches, Shows, SameTenant
    <3>w. N.do = "write" /\ N.id = i BY <2>10
    <3> HIDE DEF N
    <3>1. i \in mine \/ (steps = <<>> /\ ~Shows(db'.rows, c, i)) BY <2>2, <3>n, <3>w
    <3>2. CASE i \in mine BY <3>2, <2>m DEF i
    <3>3. CASE steps = <<>> /\ ~Shows(db'.rows, c, i)
      <4>1. todo[c] \in Seq(Steps) /\ Now(c) = todo[c][1] /\ 1 \in DOMAIN todo[c] BY <1>5, NowIs DEF Base, TypeInv
      <4>2. Reports(todo[c]) BY DEF Base, CallsInv, CallInv
      <4>3. IsWrite(todo[c][1]) BY <4>1, <2>10 DEF IsWrite
      <4>4. 1 < Len(todo[c]) /\ todo[c][1 + 1].do = "reload" /\ todo[c][1 + 1].id = i
        BY <4>1, <4>2, <4>3, <2>10 DEF Reports
      <4>5. IsRest(todo[c], <<>>, todo'[c]) BY <1>1, <3>3, <4>1, <1>5 DEF IsRest, Goes
      <4>6. todo'[c] = <<>> \o Tail(todo[c]) BY <4>5 DEF IsRest
      <4>7. Tail(todo[c]) \in Seq(Steps) /\ Len(Tail(todo[c])) = Len(todo[c]) - 1 /\ Tail(todo[c])[1] = todo[c][2]
        BY <4>1, <4>4, <1>5
      <4>8. todo'[c] = Tail(todo[c]) BY <4>6, <4>7
      <4>9. Len(todo[c]) \in Nat BY <4>1
      <4>10. Len(todo'[c]) > 0 BY <4>4, <4>7, <4>8, <4>9
      <4>11. Head(todo'[c]) = todo[c][2] BY <4>7, <4>8, <4>10
      <4>12. tx' = c BY <1>2, <1>4, <1>7, <2>3, ClearsIn
      <4> QED BY <4>4, <4>11, <4>12, <3>3 DEF i
    <3> QED BY <3>1, <3>2, <3>3
  <2> QED BY <1>4, <2>4, <2>5, <2>6, <2>7, <2>8, <2>9, <2>10
<1> QED BY <1>1, <1>5, <1>6, <1>7, <1>u, <1>v, UnitPrimed

\* A call that goes on, its rows unchanged.
LEMMA StillUnit ==
  ASSUME Base, NEW c \in Clients, NEW steps \in Seq(Steps), Goes(c, steps, {}), UnitInv(c), taken' = taken,
         \A n \in DOMAIN steps : steps[n].do # "clear", Now(c).do \notin {"add", "write", "reload", "clear"},
         db' = db \/ call'[c].undone
  PROVE  UnitInv(c)'
<1>1. /\ Clearing(todo'[c]) => Clearing(todo[c])
      /\ Clearing(todo[c]) => Clearing(todo'[c]) \/ Now(c).do = "clear"
      /\ \A i : Pending(todo[c], i) => Pending(todo'[c], i) \/ (Now(c).do \in {"add", "write"} /\ Now(c).id = i)
  BY GoesUnit
<1>2. call'[c].n = call[c].n /\ call'[c].op = call[c].op /\ todo[c] # <<>> BY DEF Goes
<1>u. call'[c].op = "unit" /\ todo'[c] # <<>> => Clearing(todo'[c]) BY <1>1, <1>2, UnitIs
<1>v. (call'[c].undone => Aborts) /\ (call[c].undone => call'[c].undone) BY GoesUndone
<1>3. Clearing(todo'[c]) => call'[c].op = "unit" BY <1>1, <1>2, UnitIs
<1>4. ASSUME Clearing(todo'[c]), NEW k \in DOMAIN taken[c], taken[c][k].do # "Deleted"
      PROVE  \/ taken[c][k].id \in Changed(db', call[c].n)
             \/ call'[c].undone
             \/ Pending(todo'[c], taken[c][k].id)
  <2>1. \/ taken[c][k].id \in Changed(db, call[c].n)
        \/ call[c].undone
        \/ Pending(todo[c], taken[c][k].id)
        \/ Now(c).do = "reload"
    BY <1>1, <1>4, UnitIs
  <2> QED BY <2>1, <1>1, <1>v
<1> QED BY <1>2, <1>3, <1>4, <1>u, <1>v, UnitPrimed

LEMMA MoverUnit == ASSUME Base, NEW c \in Clients, Moves(c), UnitInv(c) PROVE UnitInv(c)'
<1>e. <<>> \in Seq(Steps) /\ \A n \in DOMAIN <<>> : <<>>[n].do # "clear" OBVIOUS
<1>0. ASSUME todo'[c] = <<>>, call'[c].undone => Aborts PROVE UnitInv(c)'
  <2>1. ~Clearing(todo'[c]) BY <1>0 DEF Clearing
  <2> QED BY <2>1, <1>0, UnitPrimed
<1>1. CASE Throws(c)
  <2>1. todo'[c] = <<>> /\ call'[c].undone = call[c].undone BY <1>1 DEF Throws
  <2> QED BY <1>0, <2>1, UnitIs
<1>2. ASSUME NEW steps, NEW miss, NEW mine, Advances(c, steps, miss, mine) PROVE UnitInv(c)' BY <1>2, AdvancesUnit
<1>3. ASSUME Goes(c, <<>>, {}), taken' = taken, Now(c).do \notin {"add", "write", "reload", "clear"},
             db' = db \/ call'[c].undone
      PROVE  UnitInv(c)'
  BY <1>e, <1>3, StillUnit
<1>4. CASE RollsBack(c) BY <1>3, <1>4 DEF RollsBack, Serves, Unmoved
<1>5. CASE Begins(c) BY <1>3, <1>5 DEF Begins, Serves, Unmoved
<1>6. CASE Commits(c) BY <1>3, <1>6 DEF Commits, Serves, Unmoved
<1>7. CASE Clears(c)
  <2>1. Goes(c, <<>>, {}) /\ Now(c).do = "clear" /\ todo[c] # <<>> BY <1>7 DEF Clears, Clear
  <2>2. Len(todo[c]) = 1
    <3>1. TypeInv /\ CallInv(c) BY DEF Base, CallsInv
    <3> QED BY <2>1, <3>1, ClearIsLast
  <2>3. todo[c] \in Seq(Steps) /\ todo'[c] = <<>> \o Tail(todo[c]) BY <2>1 DEF Goes, Base, TypeInv
  <2>r. PICK r : r = Tail(todo[c]) OBVIOUS
  <2>4. r \in Seq(Steps) /\ Len(r) = 0 BY <2>r, <2>1, <2>2, <2>3
  <2>5. r = <<>> BY <2>4
  <2>6. todo'[c] = <<>> \o r BY <2>r, <2>3
  <2>7. todo'[c] = <<>> BY <2>5, <2>6
  <2>8. call'[c].undone => Aborts BY <2>1, GoesUndone
  <2> QED BY <2>7, <2>8, <1>0
<1>8. CASE Tells(c) BY <1>3, <1>8 DEF Tells, Asleep
<1>9. ASSUME NEW steps, Emits(c, steps) PROVE UnitInv(c)'
  <2>1. /\ steps \in Seq(Steps) /\ Goes(c, steps, {}) /\ taken' = taken /\ Now(c).do \notin {"add", "write", "reload", "clear"}
        /\ db' = db
    BY <1>9 DEF Emits, Asleep
  <2>2. \A n \in DOMAIN steps : steps[n].do # "clear" BY <1>9 DEF Emits, Heard
  <2> QED BY <2>1, <2>2, StillUnit
<1>10. ASSUME NEW op, NEW A, NEW steps, Starts(c, op, A, steps) PROVE UnitInv(c)'
  <2>1. todo'[c] = steps /\ call'[c].op = op /\ steps \in Opening(A, op) BY <1>10 DEF Starts
  <2>2. Clearing(todo'[c]) => op = "unit" BY <2>1 DEF Opening, Clearing
  <2>3. op = "unit" => /\ taken'[c] = unit
                       /\ \A k \in DOMAIN unit : unit[k].do # "Deleted" => Pending(steps, unit[k].id)
    BY <1>10 DEF Starts, Pending, Base, TypeInv
  <2>4. ~call'[c].undone /\ (op = "unit" => Clearing(steps)) BY <1>10 DEF Starts
  <2> QED BY <2>1, <2>2, <2>3, <2>4, UnitPrimed
<1> QED BY <1>1, <1>2, <1>4, <1>5, <1>6, <1>7, <1>8, <1>9, <1>10 DEF Moves, Went

LEMMA OthersUnit == ASSUME Base, NEW c \in Clients, Moves(c), NEW d \in Clients, d # c, UnitInv(d) PROVE UnitInv(d)'
<1>1. /\ todo'[d] = todo[d] /\ call'[d] = call[d] /\ Changed(db', call[d].n) = Changed(db, call[d].n)
      /\ (tx' = d <=> tx = d) /\ (tx = d => db' = db)
  BY OthersSpared DEF Spares
<1>2. taken'[d] = taken[d] BY MovesLeave DEF Leaves, Base
<1>4. /\ Clearing(todo'[d]) => call'[d].op = "unit"
      /\ call'[d].op = "unit" /\ todo'[d] # <<>> => Clearing(todo'[d])
      /\ call'[d].undone => Aborts
  BY <1>1, UnitIs
<1>5. ASSUME Clearing(todo[d]), NEW k \in DOMAIN taken[d], taken[d][k].do # "Deleted"
      PROVE  \/ taken[d][k].id \in Changed(db, call[d].n)
             \/ call[d].undone
             \/ Pending(todo[d], taken[d][k].id)
             \/ Head(todo[d]).do = "reload" /\ Head(todo[d]).id = taken[d][k].id /\ ~Shows(db'.rows, d, taken[d][k].id) /\ tx' = d
  <2>1. \/ taken[d][k].id \in Changed(db, call[d].n)
        \/ call[d].undone
        \/ Pending(todo[d], taken[d][k].id)
        \/ Now(d).do = "reload" /\ Now(d).id = taken[d][k].id /\ ~Shows(db.rows, d, taken[d][k].id) /\ tx = d
    BY <1>5, UnitIs
  <2> QED BY <2>1, <1>1 DEF Now
<1> QED BY <1>1, <1>2, <1>4, <1>5, UnitPrimed

\* commit() still has to write what it took and has not written.
LEMMA UnitsKept ==
  ASSUME Base, UnitsInv, (\E c \in Clients : Moves(c)) \/ Rests
  PROVE  UnitsInv'
<1>1. ASSUME NEW c \in Clients, Moves(c), NEW d \in Clients PROVE UnitInv(d)'
  <2>1. CASE d = c BY <2>1, <1>1, MoverUnit DEF UnitsInv
  <2>2. CASE d # c BY <2>2, <1>1, OthersUnit DEF UnitsInv
  <2> QED BY <2>1, <2>2
<1>2. ASSUME Rests, NEW d \in Clients PROVE UnitInv(d)'
  <2>1. UNCHANGED <<model, db, tx, todo, call, taken>> BY <1>2 DEF Rests, uvars, vars, Still
  <2>2. UnitInv(d) BY DEF UnitsInv
  <2>3. /\ Clearing(todo[d]) => call[d].op = "unit"
        /\ call[d].op = "unit" /\ todo[d] # <<>> => Clearing(todo[d])
        /\ call[d].undone => Aborts
        /\ Clearing(todo[d]) => \A k \in DOMAIN taken[d] : taken[d][k].do # "Deleted" =>
             \/ taken[d][k].id \in Changed(db, call[d].n)
             \/ call[d].undone
             \/ Pending(todo[d], taken[d][k].id)
             \/ Head(todo[d]).do = "reload" /\ Head(todo[d]).id = taken[d][k].id /\ ~Shows(db.rows, d, taken[d][k].id) /\ tx = d
    BY <2>2, UnitIs DEF Now
  <2> QED BY <2>1, <2>3, UnitPrimed
<1> QED BY <1>1, <1>2 DEF UnitsInv

\* What was flushed was written.
LEMMA FatesKept ==
  ASSUME Base, UnitsInv, FateInv, (\E c \in Clients : Moves(c)) \/ Rests
  PROVE  FateInv'
<1>2. ASSUME Returns, \A f \in fate' : f \in fate \/ f.how \notin {"flushed", "undone"} PROVE FateInv'
  BY <1>2 DEF FateInv, Returns
<1>3. ASSUME NEW c \in Clients, NEW steps, NEW miss, NEW mine, Advances(c, steps, miss, mine) PROVE FateInv'
  <2>1. db.changed \subseteq db'.changed /\ saved' = saved /\ tx' = tx /\ fate' = fate
    BY <1>3 DEF Advances, Stores, Unmoved
  <2>2. ASSUME NEW D \in Current' PROVE \E E \in Current : E.changed \subseteq D.changed BY <2>1, <2>2 DEF Current
  <2> QED BY <2>1, <2>2 DEF FateInv
<1>4. ASSUME NEW c \in Clients, Clears(c) PROVE FateInv'
  <2>1. todo[c] # <<>> /\ Now(c).do = "clear" /\ UNCHANGED <<db, saved, tx>> BY <1>4 DEF Clears, Clear
  <2>2. tx # c /\ Len(todo[c]) = 1
    <3>1. TypeInv /\ CallInv(c) BY DEF Base, CallsInv
    <3> QED BY <2>1, <3>1, ClearIsLast
  <2>3. todo[c] \in Seq(Steps) /\ Now(c) = todo[c][1] /\ 1 \in DOMAIN todo[c] BY <2>1, NowIs DEF Base, TypeInv
  <2>4. Clearing(todo[c]) BY <2>1, <2>3 DEF Clearing
  <2>5. ASSUME NEW i PROVE ~Pending(todo[c], i)
    <3>1. \A n \in DOMAIN todo[c] : n = 1 BY <2>2, <2>3
    <3> QED BY <3>1, <2>1, <2>3 DEF Pending
  <2>6. ASSUME NEW k \in DOMAIN taken[c], taken[c][k].do # "Deleted"
        PROVE  call[c].undone \/ \A D \in Current : <<call[c].n, taken[c][k].id>> \in D.changed
    <3>1. taken[c][k].id \in Changed(db, call[c].n) \/ call[c].undone BY <2>1, <2>4, <2>5, <2>6, UnitIs DEF UnitsInv
    <3>2. taken[c] \in Seq(Ops) BY DEF Base, TypeInv
    <3>3. taken[c][k].id \in Ids BY <3>2, OpIs
    <3> QED BY <3>1, <3>3, <2>2, OthersStay
  <2>7. \A f \in fate' : \/ f \in fate
                         \/ f.how = "late"
                         \/ /\ f.how = (IF call[c].undone THEN "undone" ELSE "flushed") /\ f.call = call[c].n
                            /\ \E n \in DOMAIN taken[c] : f.op = taken[c][n]
    BY <1>4, ClearTypes DEF Clears, Base
  <2>8. Current' = Current BY <2>1 DEF Current
  <2>u. call[c].undone => Aborts BY UnitIs DEF UnitsInv
  <2>9. ASSUME NEW f \in fate', f.how = "flushed", f.op.do # "Deleted"
        PROVE  \A D \in Current : <<f.call, f.op.id>> \in D.changed
    <3>1. CASE f \in fate BY <2>9, <3>1 DEF FateInv
    <3>2. CASE /\ f.how = (IF call[c].undone THEN "undone" ELSE "flushed") /\ f.call = call[c].n
               /\ \E n \in DOMAIN taken[c] : f.op = taken[c][n]
      <4>1. ~call[c].undone BY <2>9, <3>2
      <4> QED BY <2>6, <2>9, <3>2, <4>1
    <3> QED BY <2>7, <2>9, <3>1, <3>2
  <2>10. ASSUME NEW f \in fate', f.how = "undone" PROVE Aborts
    <3>1. CASE f \in fate BY <2>10, <3>1 DEF FateInv
    <3>2. CASE f.how = (IF call[c].undone THEN "undone" ELSE "flushed") BY <2>10, <2>u, <3>2
    <3> QED BY <2>7, <2>10, <3>1, <3>2
  <2> QED BY <2>8, <2>9, <2>10 DEF FateInv
<1>5. ASSUME NEW c \in Clients, Moves(c), ~Clears(c) PROVE fate' = fate BY <1>5, MovesLeave DEF Leaves, Base
<1>6. CASE Rests
  <2>1. Returns BY <1>6, RestsData
  <2>2. \A f \in fate' : f \in fate \/ f.how \notin {"flushed", "undone"}
    <3>1. fate' = fate \/ Rollback BY <1>6 DEF Rests, uvars, Loads, Listens, Registers
    <3>2. ASSUME Rollback, NEW f \in fate', f \notin fate PROVE f.how \notin {"flushed", "undone"}
      <4>1. f \in Left("dropped", 0) BY <3>2 DEF Rollback
      <4> QED BY <4>1 DEF Left
    <3> QED BY <3>1, <3>2
  <2> QED BY <2>1, <2>2, <1>2
<1>7. ASSUME NEW c \in Clients, Moves(c) PROVE FateInv'
  <2>1. CASE Clears(c) BY <2>1, <1>4
  <2>2. CASE ~Clears(c)
    <3>1. fate' = fate BY <2>2, <1>5, <1>7
    <3> QED BY <3>1, <1>2, <1>3, <1>7, MovesData
  <2> QED BY <2>1, <2>2
<1> QED BY <1>6, <1>7

(* --------------------- calls leave what is their own ---------------------- *)

\* Whatever is in the database is of a call there was.
LEMMA DatedKept ==
  ASSUME Base, DatedInv, (\E c \in Clients : Moves(c)) \/ Rests
  PROVE  DatedInv'
<1>1. calls \in Nat /\ calls' \in Nat /\ calls <= calls'
  <2>1. CASE Rests BY <2>1 DEF Rests, uvars, vars, Still, Base, TypeInv
  <2> QED BY <2>1, MovesLeave DEF Leaves, Base, TypeInv
<1>2. \A x : x \in 1 .. calls => x \in 1 .. calls' BY <1>1
<1>3. CASE Returns BY <1>2, <1>3 DEF Returns, DatedInv
<1>4. ASSUME NEW c \in Clients, NEW steps, NEW miss, NEW mine, Advances(c, steps, miss, mine) PROVE DatedInv'
  <2>1. Goes(c, steps, miss) /\ Stores(c, mine) BY <1>4 DEF Advances
  <2>2. call[c].n \in 1 .. calls
    <3>1. todo[c] # <<>> BY <2>1 DEF Goes
    <3>2. call[c].n > 0 /\ call[c].n <= calls /\ call[c].n \in Nat BY <3>1 DEF Base, CallsInv, CallInv, TypeInv, Ended
    <3> QED BY <3>2, <1>1
  <2>3. \A p \in db'.changed \cup db'.swept : p \in db.changed \cup db.swept \/ p[1] = call[c].n BY <2>1 DEF Stores
  <2>4. \A e \in db'.trail : e \in db.trail \/ e.call = call[c].n BY <2>1 DEF Stores
  <2>5. saved' = saved BY <2>1 DEF Stores
  <2> QED BY <1>2, <2>2, <2>3, <2>4, <2>5 DEF DatedInv
<1> QED BY <1>3, <1>4, MovesData, RestsData

\* A call that goes on has begun, and is not rejected.
LEMMA GoesTouched ==
  ASSUME Base, NEW c \in Clients, NEW steps \in Seq(Steps), NEW miss, Goes(c, steps, miss), Unframed(steps),
         Now(c).do \in Frame => steps = <<>>
  PROVE  ~Untouched(c)' /\ call'[c].op = call[c].op /\ call'[c].n = call[c].n
<1>1. IsRest(todo[c], steps, todo'[c]) /\ Framed(todo[c]) /\ call[c].end = "running" /\ todo[c][1] = Now(c)
  BY NowIs DEF IsRest, Goes, Base, TypeInv, CallsInv, CallInv
<1>2. \A n \in DOMAIN todo'[c] : todo'[c][n].do # "begin" BY <1>1, RestFramed
<1>3. todo'[c] \in Seq(Steps) /\ call'[c].end # "rejected" BY <1>1 DEF Goes
<1>4. todo'[c] # <<>> => Head(todo'[c]).do # "begin"
  <2> DEFINE u == todo'[c]
  <2>1. u # <<>> => 1 \in DOMAIN u /\ Head(u) = u[1] BY <1>3
  <2> QED BY <1>2, <2>1
<1> QED BY <1>3, <1>4 DEF Untouched, Now, Goes

LEMMA AtomicPrimed ==
  ASSUME NEW c, call'[c].op = "unit" => /\ Untouched(c)' => \A D \in Current' : Clean(D, call'[c].n)
                                        /\ tx' = c => Clean(saved', call'[c].n)
  PROVE  AtomicInv(c)'
BY DEF AtomicInv, Clean

LEMMA MoverAtomic ==
  ASSUME Base, DatedInv, NEW c \in Clients, Moves(c), UnitInv(c), AtomicInv(c)
  PROVE  AtomicInv(c)'
<1>e. <<>> \in Seq(Steps) /\ Unframed(<<>>) BY DEF Unframed
<1>n. c # None BY NoneAssumption
<1>0. ASSUME NEW steps \in Seq(Steps), NEW miss, Goes(c, steps, miss), Unframed(steps), Now(c).do \in Frame => steps = <<>>,
             tx' = c => saved' = saved /\ tx = c
      PROVE  AtomicInv(c)'
  <2>1. ~Untouched(c)' /\ call'[c].op = call[c].op /\ call'[c].n = call[c].n BY <1>0, GoesTouched
  <2> QED BY <1>0, <2>1, AtomicPrimed DEF AtomicInv
<1>1. CASE Throws(c)
  <2>1. /\ todo[c] # <<>> /\ Now(c).do # "clear" /\ call'[c].n = call[c].n /\ call'[c].op = call[c].op
        /\ IF tx = c THEN db' = saved /\ tx' = None /\ saved' = saved ELSE UNCHANGED <<db, saved, tx>>
    BY <1>1 DEF Throws, Database
  <2> SUFFICES ASSUME call[c].op = "unit" PROVE tx' # c /\ \A D \in Current' : Clean(D, call[c].n)
    BY <2>1, AtomicPrimed
  <2>2. CASE tx = c
    <3>1. Current' = {saved} BY <2>1, <2>2 DEF Current
    <3> QED BY <1>n, <2>1, <2>2, <3>1 DEF AtomicInv
  <2>3. CASE tx # c
    <3>1. Clearing(todo[c]) BY <2>1, UnitIs
    <3>2. Now(c).do \in {"begin", "commit"} BY <2>1, <2>3, <3>1, ClearsIn DEF Frame
    <3>3. Now(c).do # "commit"
      <4>1. 1 \in DOMAIN todo[c] /\ todo[c][1] = Now(c) BY <2>1, NowIs DEF Base
      <4>2. tx = c <=> todo[c] # <<>> /\ Now(c).do # "begin" /\ \E n \in DOMAIN todo[c] : todo[c][n].do = "commit"
        BY DEF Base, CallsInv, CallInv
      <4> QED BY <2>1, <2>3, <4>1, <4>2
    <3>4. \A D \in Current : Clean(D, call[c].n) BY <2>1, <3>2, <3>3 DEF AtomicInv, Untouched
    <3> QED BY <2>1, <2>3, <3>4 DEF Current
  <2> QED BY <2>2, <2>3
<1>2. ASSUME NEW steps, NEW miss, NEW mine, Advances(c, steps, miss, mine) PROVE AtomicInv(c)'
  <2>1. Goes(c, steps, miss) /\ steps \in Seq(Steps) /\ Unframed(steps) /\ Now(c).do \notin Frame /\ saved' = saved /\ tx' = tx
    BY <1>2 DEF Advances, Fits, Fit, Stores
  <2> QED BY <1>0, <2>1
<1>3. CASE RollsBack(c) BY <1>0, <1>3, <1>e, <1>n DEF RollsBack, Serves
<1>4. CASE Begins(c)
  <2>1. Goes(c, <<>>, {}) /\ Now(c).do = "begin" /\ saved' = db /\ todo[c] # <<>> BY <1>4 DEF Begins, Serves, Goes
  <2>2. ~Untouched(c)' /\ call'[c].op = call[c].op /\ call'[c].n = call[c].n BY <1>e, <2>1, GoesTouched
  <2>3. call[c].op = "unit" => Clean(db, call[c].n) BY <2>1 DEF AtomicInv, Untouched, Current
  <2> QED BY <2>1, <2>2, <2>3, AtomicPrimed
<1>5. CASE Commits(c) BY <1>0, <1>5, <1>e, <1>n DEF Commits, Serves
<1>6. CASE Tells(c) BY <1>0, <1>6, <1>e DEF Tells, Asleep
<1>7. CASE Clears(c) BY <1>0, <1>7, <1>e DEF Clears, Clear
<1>8. ASSUME NEW steps, Emits(c, steps) PROVE AtomicInv(c)'
  <2>1. Goes(c, steps, {}) /\ steps \in Seq(Steps) /\ Now(c).do \notin Frame /\ saved' = saved /\ tx' = tx
    BY <1>8 DEF Emits, Asleep, Frame
  <2>2. Unframed(steps) BY <1>8 DEF Emits, Heard, Unframed, Frame
  <2> QED BY <1>0, <2>1, <2>2
<1>9. ASSUME NEW op, NEW A, NEW steps, Starts(c, op, A, steps) PROVE AtomicInv(c)'
  <2>1. call'[c].n = calls + 1 /\ UNCHANGED <<db, saved, tx>> /\ todo[c] = <<>> /\ calls \in Nat
    BY <1>9 DEF Starts, Base, TypeInv
  <2>2. tx # c BY <2>1 DEF Base, CallsInv, CallInv
  <2>3. calls + 1 \notin 1 .. calls BY <2>1
  <2>4. \A D \in {db, saved} : Clean(D, calls + 1) BY <2>3 DEF DatedInv, Clean
  <2>5. Current' \subseteq {db, saved} BY <2>1 DEF Current
  <2> QED BY <2>1, <2>2, <2>4, <2>5, AtomicPrimed
<1> QED BY <1>1, <1>2, <1>3, <1>4, <1>5, <1>6, <1>7, <1>8, <1>9 DEF Moves, Went

LEMMA OthersAtomic ==
  ASSUME Base, NEW c \in Clients, Moves(c), NEW d \in Clients, d # c, AtomicInv(d)
  PROVE  AtomicInv(d)'
<1>1. todo'[d] = todo[d] /\ call'[d] = call[d] /\ (tx' = d <=> tx = d) BY OthersSpared DEF Spares
<1> SUFFICES ASSUME call[d].op = "unit", Untouched(d), NEW D \in Current' PROVE Clean(D, call[d].n)
  <2>1. tx' = d => saved' = saved BY <1>1, MovesLeave DEF Leaves, Base
  <2>2. Untouched(d)' <=> Untouched(d) BY <1>1 DEF Untouched, Now
  <2> QED BY <1>1, <2>1, <2>2, AtomicPrimed DEF AtomicInv
<1>2. \A E \in Current : Clean(E, call[d].n) BY DEF AtomicInv
<1>3. CASE Returns BY <1>2, <1>3 DEF Returns
<1>4. ASSUME NEW steps, NEW miss, NEW mine, Advances(c, steps, miss, mine) PROVE Clean(D, call[d].n)
  <2>1. Goes(c, steps, miss) /\ Stores(c, mine) BY <1>4 DEF Advances
  <2>2. call[c].n # call[d].n
    <3>1. todo[c] # <<>> BY <2>1 DEF Goes
    <3> QED BY <3>1, NotTheSame
  <2>3. \A p \in db'.changed \cup db'.swept : p \in db.changed \cup db.swept \/ p[1] = call[c].n BY <2>1 DEF Stores
  <2>4. \A e \in db'.trail : e \in db.trail \/ e.call = call[c].n BY <2>1 DEF Stores
  <2>5. Clean(db, call[d].n) BY <1>2 DEF Current
  <2>6. Clean(db', call[d].n) BY <2>2, <2>3, <2>4, <2>5 DEF Clean
  <2>7. D = db' \/ (D = saved /\ saved \in Current) BY <2>1 DEF Stores, Current
  <2> QED BY <1>2, <2>6, <2>7
<1> QED BY <1>3, <1>4, MovesData

\* A commit() that is rejected has left nothing.
LEMMA AtomicsKept ==
  ASSUME Base, DatedInv, UnitsInv, AtomicsInv, (\E c \in Clients : Moves(c)) \/ Rests
  PROVE  AtomicsInv'
<1>1. ASSUME NEW c \in Clients, Moves(c), NEW d \in Clients PROVE AtomicInv(d)'
  <2>1. CASE d = c BY <2>1, <1>1, MoverAtomic DEF AtomicsInv, UnitsInv
  <2>2. CASE d # c BY <2>2, <1>1, OthersAtomic DEF AtomicsInv
  <2> QED BY <2>1, <2>2
<1>2. ASSUME Rests, NEW d \in Clients PROVE AtomicInv(d)'
  <2>1. UNCHANGED <<db, saved, tx, todo, call>> BY <1>2 DEF Rests, uvars, vars, Still
  <2> QED BY <2>1 DEF AtomicsInv, AtomicInv, Untouched, Now, Current, Clean
<1> QED BY <1>1, <1>2 DEF AtomicsInv

(* ------------------------------ the invariant ----------------------------- *)

LEMMA InitTyped == ASSUME UnitInit PROVE TypeInv
<1>1. model \in Models /\ db = [rows |-> model.rows, trail |-> {}, changed |-> {}, swept |-> {}] /\ saved = db
  BY DEF UnitInit, Init
<1>2. db \in Databases
  <2>1. model.rows \in Rows BY <1>1, ModelsAssumption DEF Rows
  <2> QED BY <1>1, <2>1 DEF Databases
<1>3. tx = None /\ poisoned = FALSE /\ told = {} /\ calls = 0 /\ faults = 0 /\ loose = {} BY DEF UnitInit, Init
<1>4. todo \in [Clients -> Seq(Steps)]
  <2>1. <<>> \in Seq(Steps) OBVIOUS
  <2> QED BY <2>1 DEF UnitInit, Init
<1>5. call \in [Clients -> Ended]
  <2> DEFINE x == [n |-> 0, op |-> "none", id |-> None, end |-> "resolved", missed |-> {}, undone |-> FALSE]
  <2>1. x \in Ended BY DEF Ended, CallNames
  <2>2. call = [c \in Clients |-> x] BY DEF UnitInit, Init
  <2> HIDE DEF x
  <2> QED BY <2>1, <2>2
<1>6. seen \in [Clients -> Stored \cup {None}] /\ held \in [Clients -> Loaded \cup {None}] /\ meanwhile \in [Clients -> SUBSET Ids]
  BY DEF UnitInit, Init
<1>7. listeners \in Seq(Listener)
  <2> DEFINE x == Registration("all", {"created", "updated", "deleted"}, FALSE)
  <2>1. x \in Listener BY DEF Listener, Registration, Voices, Acts
  <2>2. listeners = Append(<<>>, x) BY DEF UnitInit, Init, InitialListeners, On
  <2> HIDE DEF x
  <2> QED BY <2>1, <2>2
<1>8. unit \in Seq(Ops) /\ serial \in Nat /\ taken \in [Clients -> Seq(Ops)] /\ fate \in SUBSET Fates
  <2>1. <<>> \in Seq(Ops) OBVIOUS
  <2> QED BY <2>1 DEF UnitInit
<1> QED BY <1>1, <1>2, <1>3, <1>4, <1>5, <1>6, <1>7, <1>8 DEF TypeInv

LEMMA InitInv == ASSUME UnitInit PROVE IInv
<1>1. TypeInv BY InitTyped
<1>2. /\ db.trail = {} /\ db.changed = {} /\ db.swept = {} /\ saved = db /\ tx = None /\ poisoned = FALSE
      /\ told = {} /\ calls = 0 /\ faults = 0 /\ unit = <<>> /\ serial = 0 /\ fate = {}
  BY DEF UnitInit, Init
<1>3. \A c \in Clients : /\ todo[c] = <<>> /\ call[c].n = 0 /\ call[c].end = "resolved" /\ call[c].op = "none" /\ ~call[c].undone
                         /\ held[c] = None /\ taken[c] = <<>> /\ c # None
  BY NoneAssumption DEF UnitInit, Init
<1>4. CallsInv
  <2> SUFFICES ASSUME NEW c \in Clients PROVE CallInv(c) BY DEF CallsInv
  <2>1. todo[c] = <<>> /\ call[c].n = 0 /\ tx # c /\ calls = 0 BY <1>2, <1>3
  <2>2. Framed(todo[c]) /\ Reads(todo[c], 2) /\ Reports(todo[c]) /\ Backed(todo[c], Touched(c)) /\ Belong(todo[c], call[c].op)
    BY <2>1 DEF Framed, Reads, Reports, Backed, Belong
  <2> QED BY <2>1, <2>2 DEF CallInv
<1>5. TxInv BY <1>2 DEF TxInv
<1>6. TrailInv /\ ToldInv BY <1>2 DEF TrailInv, ToldInv
<1>7. AllInv
  <2> DEFINE x == Registration("all", {"created", "updated", "deleted"}, FALSE)
  <2>1. listeners = Append(<<>>, x) BY DEF UnitInit, Init, InitialListeners, On
  <2>2. x = Registration("all", Acts, FALSE) BY DEF Acts
  <2> HIDE DEF x
  <2>3. 1 \in DOMAIN listeners /\ listeners[1] = x BY <2>1
  <2> QED BY <2>2, <2>3 DEF AllInv
<1>8. SnapInv /\ ReadsInv BY <1>2, <1>3 DEF SnapInv, ReadsInv, ReadInv
<1>9. OwedsInv /\ HeardsInv BY <1>2 DEF OwedsInv, OwedInv, HeardsInv, HeardInv, Changed
<1>10. OncesInv
  <2> SUFFICES ASSUME NEW l \in Who PROVE OnceInv(l) BY DEF OncesInv
  <2>1. \A n \in DOMAIN listeners : listeners[n].who # l
    <3> DEFINE x == Registration("all", {"created", "updated", "deleted"}, FALSE)
    <3>1. listeners = Append(<<>>, x) BY DEF UnitInit, Init, InitialListeners, On
    <3>2. x.who # l BY ClientsAssumption DEF Registration
    <3> HIDE DEF x
    <3>3. \A n \in DOMAIN listeners : listeners[n] = x BY <3>1
    <3> QED BY <3>2, <3>3
  <2> QED BY <1>2, <1>3, <2>1 DEF OnceInv
<1>11. Numbered
  <2>1. Counts(unit, fate, taken, serial) BY <1>2, <1>3 DEF Counts
  <2> QED BY <2>1, NumberedCounts
<1>12. UnitsInv /\ FateInv BY <1>2, <1>3 DEF UnitsInv, UnitInv, Flushes, FateInv
<1>13. DatedInv /\ AtomicsInv BY <1>2, <1>3 DEF DatedInv, AtomicsInv, AtomicInv
<1> QED BY <1>1, <1>4, <1>5, <1>6, <1>7, <1>8, <1>9, <1>10, <1>11, <1>12, <1>13 DEF IInv, Base

LEMMA NextInv == ASSUME IInv, [Next]_uvars PROVE IInv'
<1>1. (\E c \in Clients : Moves(c)) \/ Rests BY NextIs DEF IInv, Base, CallsInv
<1> QED BY <1>1, BaseKept, TrailKept, ToldKept, AllKept, SnapKept, ReadsKept, OwedKept, HeardKept, OnceKept,
           NumberedKept, UnitsKept, FatesKept, DatedKept, AtomicsKept DEF IInv

\* Whatever clients do, in any interleaving and with any failures, the invariant holds.
THEOREM Invariance == Spec => []IInv
<1>1. UnitInit => IInv BY InitInv
<1>2. IInv /\ [Next]_uvars => IInv' BY NextInv
<1> QED BY <1>1, <1>2, PTL DEF Spec

\* Every variable has its type.
THEOREM Typed == Spec => []TypeInv
<1>1. IInv => TypeInv BY DEF IInv, Base
<1> QED BY <1>1, Invariance, PTL

\* An update that lands replaces the content it goes by.
LEMMA AgainstIs ==
  ASSUME IInv, NEW c \in Clients, At(c, "write") \/ At(c, "stamp"), Lands(c), Against(c) # None
  PROVE  db.rows[Now(c).id].by = Against(c).by \/ Now(c).id \in loose
<1>1. TypeInv /\ todo[c] # <<>> /\ IsWrite(Now(c)) BY DEF IInv, Base, At, IsWrite
<1>2. Now(c) = todo[c][1] /\ 1 \in DOMAIN todo[c] /\ Now(c).id \in Ids BY <1>1, NowIs DEF FitArg, Frame, IsWrite
<1>3. Versioned(Now(c).id) /\ db.rows[Now(c).id].version = Against(c).version BY DEF Lands, Agrees, Against
<1> SUFFICES ASSUME Now(c).id \notin loose PROVE db.rows[Now(c).id].by = Against(c).by OBVIOUS
<1>4. Now(c).id \in Strict BY <1>2, <1>3 DEF Strict
<1>5. Follows(Strict, db.rows, Now(c).id, Against(c))
  <2>1. CASE Now(c).arg # None
    <3>1. Against(c) = Now(c).arg BY <1>3, <2>1 DEF Against
    <3>2. Carries(todo[c][1]) /\ todo[c][1].arg # None BY <1>1, <1>2, <2>1 DEF Carries, IsWrite
    <3>3. db \in Current BY DEF Current
    <3>4. Follows(Strict, db.rows, todo[c][1].id, todo[c][1].arg) BY <1>2, <3>2, <3>3 DEF IInv, SnapInv
    <3> QED BY <3>1, <3>4, <1>2
  <2>2. CASE Now(c).arg = None
    <3>1. Against(c) = seen[c] BY <1>3, <2>2 DEF Against
    <3>2. NeedsRead(Now(c)) BY <1>1, <1>3, <2>2 DEF NeedsRead
    <3>3. db \in Mine(c) BY DEF Mine, Current
    <3> QED BY <1>1, <3>1, <3>2, <3>3 DEF IInv, ReadsInv, ReadInv
  <2> QED BY <2>1, <2>2
<1> QED BY <1>3, <1>4, <1>5 DEF Follows

\* A versioned update() that lands, from whatever client, replaces the content its
\* caller or its own read saw, unless the row was written past its version.
THEOREM NoUpdateIsLost == Spec => NoLostUpdate
<1> DEFINE A == \A c \in Clients : (At(c, "write") \/ At(c, "stamp")) /\ Lands(c) /\ Against(c) # None
                  /\ db' # db /\ todo'[c] # todo[c] =>
                    \/ db.rows[Now(c).id].by = Against(c).by
                    \/ Now(c).id \in loose
<1>1. IInv => A BY AgainstIs
<1>2. NoLostUpdate <=> [][A]_vars BY DEF NoLostUpdate
<1> HIDE DEF A
<1> QED BY <1>1, <1>2, Invariance, PTL

LEMMA ResolvedIsDone == ASSUME IInv, NEW c \in Clients, call[c].end = "resolved" PROVE todo[c] = <<>>
BY DEF IInv, Base, CallsInv, CallInv

\* The audit log has no entry for a change that was rolled back or never made, and no
\* add(), update(), upsert(), remove() or commit() that resolved without a failure lacks
\* an entry for an audited row that a statement of its own was about; of the rows that
\* restore(), a cascade, a where- or a bulk form sweeps over the log says nothing.
THEOREM TrailStaysTrue == Spec => []TrailIsTrue
<1>1. ASSUME IInv PROVE TrailIsTrue
  <2>1. \A e \in db.trail : <<e.call, e.id>> \in db.changed \/ e.missed BY <1>1 DEF IInv, TrailInv
  <2>2. ASSUME NEW c \in Clients, call[c].end = "resolved", call[c].op \notin Unaudited, faults = 0,
               NEW i \in Ids, Audited(i), <<call[c].n, i>> \in db.changed
        PROVE  Entered(c, i)
    <3>1. todo[c] = <<>> BY <1>1, <2>2, ResolvedIsDone
    <3>2. i \in Changed(db, call[c].n) /\ Live(c) BY <2>2 DEF Changed, Live
    <3>3. OwedInv(c) BY <1>1 DEF IInv, OwedsInv
    <3>4. \/ \E e \in db.trail : e.call = call[c].n /\ e.id = i
          \/ \E n \in DOMAIN todo[c] : todo[c][n].do = "audit" /\ todo[c][n].id = i
      BY <2>2, <3>2, <3>3 DEF OwedInv
    <3> QED BY <3>1, <3>4 DEF Entered
  <2> QED BY <2>1, <2>2 DEF TrailIsTrue
<1> QED BY <1>1, Invariance, PTL

\* Listeners are told of changes that happened, of each row that a statement of a resolved
\* call was about, but hardRemove()'s, on the context's bus and, unless a clone made the
\* call, on the set's; and a listener registered with once() is told once, whatever calls
\* emit at the same time.  They are not told of the rows that calls sweep over.
THEOREM AllListenersHear == Spec => []ListenersHear
<1>1. ASSUME IInv PROVE ListenersHear
  <2>1. \A t \in told : <<t.call, t.id>> \in db.changed \/ t.missed \/ t.inTx BY <1>1 DEF IInv, ToldInv, Current
  <2>2. ASSUME NEW c \in Clients, call[c].end = "resolved", call[c].op # "hardRemove", NEW i \in Ids, <<call[c].n, i>> \in db.changed,
               NEW v \in Ears(c, i)
        PROVE  Told(v, c, i)
    <3>1. todo[c] = <<>> BY <1>1, <2>2, ResolvedIsDone
    <3>2. i \in Changed(db, call[c].n) /\ Live(c) BY <2>2 DEF Changed, Live
    <3>3. HeardInv(c) BY <1>1 DEF IInv, HeardsInv
    <3>4. \/ Told(v, c, i)
          \/ \E n \in DOMAIN todo[c] : ForVoice(todo[c][n], v) /\ todo[c][n].id = i
      BY <2>2, <3>2, <3>3 DEF HeardInv
    <3> QED BY <3>1, <3>4
  <2>3. ASSUME NEW l \in Who PROVE Cardinality({t \in told : t.who = l}) <= 1
    <3> DEFINE S == {t \in told : t.who = l}
    <3>0. OnceInv(l) BY <1>1 DEF IInv, OncesInv
    <3>o. \A t, u \in told : t.who = l /\ u.who = l => t = u BY <3>0 DEF OnceInv
    <3>s. \A t \in S : t \in told /\ t.who = l OBVIOUS
    <3>1. ASSUME NEW t \in S, NEW u \in S PROVE t = u BY <3>o, <3>s
    <3> HIDE DEF S
    <3>2. ASSUME S = {} PROVE Cardinality(S) <= 1 BY <3>2, FS_EmptySet
    <3>3. ASSUME NEW t \in S PROVE Cardinality(S) <= 1
      <4>1. S = {t} BY <3>1, <3>3
      <4>2. Cardinality({t}) = 1 BY FS_Singleton
      <4>3. Cardinality(S) = 1 BY <4>1, <4>2, Zenon
      <4> QED BY <4>3, SMT
    <3>4. Cardinality(S) <= 1 BY <3>2, <3>3
    <3> QED BY <3>4 DEF S
  <2> QED BY <2>1, <2>2, <2>3 DEF ListenersHear
<1> QED BY <1>1, Invariance, PTL

\* commit() writes parents first and all of what it took, every operation that was
\* registered is still registered or accounted for, and a commit() that is rejected has
\* left nothing, whatever calls of others ran between its statements.
THEOREM UnitStaysWhole == Spec => []UnitIsWhole
<1>1. ASSUME IInv PROVE UnitIsWhole
  <2>1. unit \in Seq(Ops) BY <1>1 DEF IInv, Base, TypeInv
  <2> DEFINE ops == Doing(unit, "Added")
  <2>2. Distinct(unit) BY <1>1 DEF IInv, Numbered, Distinct
  <2>3. ops \in Seq(Ops) /\ Distinct(ops) BY <2>1, <2>2, DoingPicks
  <2>4. ~Cyclic(ops) => ParentsFirst(ops, SortInserts(ops)) BY <2>3, SortIsParentsFirst
  <2>5. {op.n : op \in Registered} = 1 .. serial BY <1>1 DEF IInv, Numbered
  <2>6. \A f \in fate : /\ f.how = "flushed" /\ f.op.do # "Deleted" => <<f.call, f.op.id>> \in db.changed
                        /\ f.how = "undone" => Aborts
    BY <1>1 DEF IInv, FateInv, Current
  <2>7. \A c \in Clients : call[c].op = "unit" /\ call[c].end = "rejected" => Clean(db, call[c].n)
    BY <1>1 DEF IInv, AtomicsInv, AtomicInv, Untouched, Current
  <2> QED BY <2>4, <2>5, <2>6, <2>7 DEF UnitIsWhole
<1> QED BY <1>1, Invariance, PTL

(* -------------------------------- cascades -------------------------------- *)

LEMMA SuitedJoins ==
  ASSUME NEW c, NEW s \in Suited(c), NEW t \in Suited(c)
  PROVE  s \o t \in Suited(c)
<1> DEFINE u == s \o t
<1>1. s \in Seq(Steps) /\ t \in Seq(Steps) BY DEF Suited
<1>2. /\ u \in Seq(Steps)
      /\ \A n \in DOMAIN u : (n \in DOMAIN s /\ u[n] = s[n]) \/ (n - Len(s) \in DOMAIN t /\ u[n] = t[n - Len(s)])
  <2>1. u = s \o t OBVIOUS
  <2> HIDE DEF u
  <2>2. /\ u \in Seq(Steps)
        /\ \A n \in DOMAIN s : n \in DOMAIN u /\ u[n] = s[n]
        /\ \A n \in DOMAIN u : n \in DOMAIN s \/ (n > Len(s) /\ n - Len(s) \in DOMAIN t /\ u[n] = t[n - Len(s)])
    BY <1>1, <2>1, Joined
  <2> QED BY <2>2
<1> HIDE DEF u
<1>3. \A n \in DOMAIN u : Suits(c, u[n]) BY <1>2 DEF Suited
<1>4. u \in Suited(c) BY <1>2, <1>3 DEF Suited
<1> QED BY <1>4 DEF u

LEMMA SuitedOne == ASSUME NEW c, NEW x \in Steps, Suits(c, x) PROVE <<x>> \in Suited(c)
<1>1. <<x>> \in Seq(Steps) /\ DOMAIN <<x>> = {1} /\ <<x>>[1] = x OBVIOUS
<1> QED BY <1>1 DEF Suited

LEMMA SuitedNone == ASSUME NEW c PROVE <<>> \in Suited(c)
BY DEF Suited

\* A statement for each class that a cascade goes on to.
LEMMA KindsSuit ==
  ASSUME NEW c, call[c].op \in {"remove", "restore"}, NEW ks \in SUBSET Kinds, NEW i \in Ids,
         Gone(c) => \A k \in ks : Soft(k) # "none"
  PROVE  /\ EachKind(Sweep(c), ks, i) \in Suited(c)
         /\ \A k \in ks : Has(EachKind(Sweep(c), ks, i), Sweep(c), i, k)
<1>1. IsFiniteSet(ks) BY FiniteClasses, FS_Subset
<1> DEFINE N == Cardinality(ks)
           f == SetToSeq(ks)
           do == Sweep(c)
           s == EachKind(do, ks, i)
<1>2. N \in Nat /\ f \in [1 .. N -> ks] /\ \A k \in ks : \E n \in 1 .. N : f[n] = k BY <1>1, Lists
<1>3. s = [n \in 1 .. N |-> With(do, i, f[n])] BY DEF EachKind
<1>4. do \in {"removeWhere", "restoreWhere"} /\ do \in Ways(c) /\ do # call[c].op /\ (do = "removeWhere" => Gone(c))
  BY DEF Sweep, Ways, Gone
<1> HIDE DEF N, f, s, do
<1>5. ASSUME NEW k \in ks
      PROVE  /\ With(do, i, k) \in Steps /\ Suits(c, With(do, i, k))
             /\ With(do, i, k).do = do /\ With(do, i, k).id = i /\ With(do, i, k).arg = k
  <2>1. k \in Kinds /\ k \in Args BY ArgsAre
  <2> DEFINE x == With(do, i, k)
  <2>2. x \in Steps /\ x.do = do /\ x.id = i /\ x.arg = k
    BY <1>4, <2>1, ArgsAre, StepIs DEF Doings, FitArg, Carries, OfKind, Frame
  <2> HIDE DEF x
  <2>3. Suits(c, x) BY <1>4, <2>2 DEF Suits
  <2> QED BY <2>2, <2>3 DEF x
<1>6. \A n \in 1 .. N : s[n] = With(do, i, f[n]) /\ f[n] \in ks BY <1>2, <1>3
<1>7. s \in [1 .. N -> Steps] BY <1>3, <1>5, <1>6
<1>8. s \in Seq(Steps) /\ DOMAIN s = 1 .. N BY <1>2, <1>7
<1>9. s \in Suited(c) BY <1>5, <1>6, <1>8 DEF Suited
<1>10. \A k \in ks : Has(s, do, i, k) BY <1>2, <1>5, <1>6, <1>8 DEF Has
<1> QED BY <1>9, <1>10 DEF s, do

LEMMA BelowSuit ==
  ASSUME NEW c, call[c].op \in {"remove", "restore"}, NEW ks \in SUBSET Kinds, NEW S \in SUBSET Ids,
         Gone(c) => \A k \in ks : Soft(k) # "none", NEW u, u = Descents(c, ks, S)
  PROVE  u \in Suited(c) /\ \A j \in S, k \in ks : Has(u, Sweep(c), j, k)
<1>1. IsFiniteSet(S) BY FiniteClasses
<1> DEFINE N == Cardinality(S)
           f == SetToSeq(S)
           s == [n \in 1 .. N |-> EachKind(Sweep(c), ks, f[n])]
           G == Suited(c)
<1>2. N \in Nat /\ f \in [1 .. N -> S] /\ \A j \in S : \E n \in 1 .. N : f[n] = j BY <1>1, Lists
<1>3. u = FlattenSeq(s) BY DEF s, Descents
<1> HIDE DEF N, f
<1>4. \A n \in 1 .. N : /\ EachKind(Sweep(c), ks, f[n]) \in G
                        /\ \A k \in ks : Has(EachKind(Sweep(c), ks, f[n]), Sweep(c), f[n], k)
  <2>1. ASSUME NEW j \in Ids
        PROVE  EachKind(Sweep(c), ks, j) \in G /\ \A k \in ks : Has(EachKind(Sweep(c), ks, j), Sweep(c), j, k)
    BY KindsSuit
  <2>2. \A n \in 1 .. N : f[n] \in Ids BY <1>2
  <2> QED BY <2>1, <2>2
<1>5. s \in Seq(G) /\ DOMAIN s = 1 .. N /\ \A n \in 1 .. N : s[n] = EachKind(Sweep(c), ks, f[n]) BY <1>2, <1>4
<1> HIDE DEF s
<1>6. CASE s = <<>>
  <2>1. 1 .. N = {} BY <1>5, <1>6
  <2>2. u = <<>> BY <1>3, <1>6 DEF FlattenSeq
  <2> QED BY <1>2, <2>1, <2>2, SuitedNone
<1>7. CASE s # <<>>
  <2>1. G \in SUBSET Seq(Steps) BY DEF Suited
  <2>2. \A t, v \in G : t \o v \in G BY SuitedJoins
  <2> HIDE DEF G
  <2>0. s \in Seq(G) BY <1>5
  <2>3. /\ FlattenSeq(s) \in G
        /\ \A n \in DOMAIN s : \A m \in DOMAIN s[n] : \E k \in DOMAIN FlattenSeq(s) : FlattenSeq(s)[k] = s[n][m]
    BY <1>7, <2>0, <2>1, <2>2, Flattened
  <2>4. ASSUME NEW j \in S, NEW k \in ks PROVE Has(u, Sweep(c), j, k)
    <3>1. PICK n \in 1 .. N : f[n] = j BY <1>2
    <3>2. Has(s[n], Sweep(c), j, k) BY <1>4, <1>5, <3>1
    <3>3. PICK m \in DOMAIN s[n] : s[n][m].do = Sweep(c) /\ s[n][m].id = j /\ s[n][m].arg = k BY <3>2 DEF Has
    <3>4. \E m2 \in DOMAIN u : u[m2] = s[n][m] BY <1>3, <1>5, <2>3
    <3> QED BY <3>3, <3>4 DEF Has
  <2> QED BY <1>3, <2>3, <2>4 DEF G
<1> QED BY <1>6, <1>7

(* ------------------------- one step of a cascade -------------------------- *)

LEMMA UnderIs ==
  ASSUME NEW i \in Ids, NEW d \in Under(i)
  PROVE  /\ d \in Ids
         /\ OwnerOf[d] = i => d \in Below({i})
         /\ OwnerOf[d] # i => OwnerOf[d] \in Below({i}) /\ d \in Below(Below({i}))
         /\ OwnerOf[d] \in Ids /\ Cascades(KindOf[OwnerOf[d]]) /\ KindOf[d] \in SoftChildren(KindOf[OwnerOf[d]])
BY DEF Under, Below

LEMMA RestKeeps ==
  ASSUME TypeInv, NEW c \in Clients, NEW steps \in Seq(Steps), NEW miss, Goes(c, steps, miss), NEW do, NEW i, NEW k
  PROVE  /\ Has(steps, do, i, k) => Has(todo'[c], do, i, k)
         /\ Has(todo[c], do, i, k) =>
              Has(todo'[c], do, i, k) \/ (Now(c).do = do /\ Now(c).id = i /\ Now(c).arg = k)
<1>1. todo[c] \in Seq(Steps) /\ todo[c] # <<>> /\ todo'[c] = steps \o Tail(todo[c]) BY DEF TypeInv, Goes
<1>2. Now(c) = todo[c][1] BY <1>1, NowIs
<1>r. IsRest(todo[c], steps, todo'[c]) BY <1>1 DEF IsRest
<1>3. /\ \A m \in DOMAIN todo[c] : m > 1 => \E n \in DOMAIN todo'[c] : todo'[c][n] = todo[c][m]
      /\ \A m \in DOMAIN steps : \E n \in DOMAIN todo'[c] : todo'[c][n] = steps[m]
  BY <1>r, RestHas
<1>4. \A m \in DOMAIN todo[c] : m = 1 \/ m > 1 BY <1>1
<1> QED BY <1>2, <1>3, <1>4 DEF Has

LEMMA RestSuits ==
  ASSUME TypeInv, NEW c \in Clients, \A n \in DOMAIN todo[c] : Suits(c, todo[c][n]),
         NEW steps \in Suited(c), NEW miss, Goes(c, steps, miss)
  PROVE  \A n \in DOMAIN todo'[c] : Suits(c, todo'[c][n])
<1>1. steps \in Seq(Steps) /\ todo[c] \in Seq(Steps) /\ todo[c] # <<>> /\ todo'[c] = steps \o Tail(todo[c])
  BY DEF TypeInv, Goes, Suited
<1>2. IsRest(todo[c], steps, todo'[c]) BY <1>1 DEF IsRest
<1>3. \A n \in DOMAIN todo'[c] :
        (\E m \in DOMAIN steps : todo'[c][n] = steps[m]) \/ \E m \in DOMAIN todo[c] : m > 1 /\ todo'[c][n] = todo[c][m]
  BY <1>2, RestHas
<1> QED BY <1>3 DEF Suited

\* What is reached stays so, or the steps that are added get there.
LEMMA MarchesReach ==
  ASSUME TypeInv, NEW c \in Clients, call[c].id \in Ids, NEW steps, Marches(c, steps),
         Reached(c, db.rows, todo[c])
  PROVE  Reached(c, db'.rows, todo'[c])
<1>1. steps \in Seq(Steps) /\ \E miss : Goes(c, steps, miss) BY DEF Marches, Suited
<1>2. \A do, j, k :
        /\ Has(steps, do, j, k) => Has(todo'[c], do, j, k)
        /\ Has(todo[c], do, j, k) =>
             Has(todo'[c], do, j, k) \/ (Now(c).do = do /\ Now(c).id = j /\ Now(c).arg = k)
  BY <1>1, RestKeeps
<1>3. ASSUME NEW j \in Ids
      PROVE  /\ db'.rows[j] = None <=> db.rows[j] = None
             /\ db.rows[j] # None => (SameTenant(c, db'.rows[j]) <=> SameTenant(c, db.rows[j]))
             /\ db.rows[j] # None /\ Swept(c, db.rows, j) => Swept(c, db'.rows, j)
  BY DEF Marches, SameTenant
<1>s. \A j \in Owned(Now(c).arg, Now(c).id) : Now(c).do = Sweep(c) => Swept(c, db'.rows, j) BY DEF Marches
<1>l. Now(c).do = Sweep(c) /\ Cascades(Now(c).arg) => Has(steps, Listing(c), Now(c).id, Now(c).arg) BY DEF Marches
<1>w. \A j \in Owned(Now(c).arg, Now(c).id), k \in SoftChildren(Now(c).arg) :
        Now(c).do = Listing(c) /\ Matches(c, j) /\ Swept(c, db.rows, j) => Has(steps, Sweep(c), j, k)
  BY DEF Marches
<1>4. ASSUME NEW i, i = call[c].id, NEW d \in Under(i), db'.rows[d] # None, d \notin meanwhile[c], NEW o, o = OwnerOf[d]
      PROVE  ReachedAt(c, db'.rows, todo'[c], d, o, i)
  <2>1. /\ d \in Ids /\ o \in Ids /\ (o # i => OwnerOf[o] = i) /\ Cascades(KindOf[o])
        /\ KindOf[d] \in SoftChildren(KindOf[o])
    <3>1. \A e \in Below({i}) : OwnerOf[e] = i BY DEF Below
    <3> QED BY <1>4, <3>1, UnderIs
  <2>2. db.rows[d] # None BY <1>3, <1>4, <2>1
  <2>3. ReachedAt(c, db.rows, todo[c], d, o, i) BY <1>4, <2>2 DEF Reached
  <2>4. CASE Swept(c, db.rows, d) BY <1>3, <2>1, <2>2, <2>4 DEF ReachedAt
  <2>5. CASE Now(c).do = Sweep(c) /\ Now(c).id = o /\ Now(c).arg = KindOf[d]
    <3>1. d \in Owned(KindOf[d], o) BY <1>4, <2>1, <2>2 DEF Owned
    <3> QED BY <1>s, <2>5, <3>1 DEF ReachedAt
  <2>6. CASE o = i /\ Has(todo[c], Sweep(c), i, KindOf[d]) BY <1>2, <2>5, <2>6 DEF ReachedAt
  <2>7. CASE o # i
    <3>1. CASE o \in meanwhile[c] \/ db.rows[o] = None \/ ~SameTenant(c, db.rows[o])
      BY <1>3, <2>1, <2>7, <3>1 DEF ReachedAt
    <3>2. CASE Has(todo[c], Sweep(c), o, KindOf[d]) BY <1>2, <2>5, <2>7, <3>2 DEF ReachedAt
    <3>3. CASE Has(todo[c], Sweep(c), i, KindOf[o]) /\ db.rows[o] # None
      <4>1. CASE Has(todo'[c], Sweep(c), i, KindOf[o]) BY <2>7, <4>1 DEF ReachedAt
      <4>2. CASE Now(c).do = Sweep(c) /\ Now(c).id = i /\ Now(c).arg = KindOf[o]
        <5>1. o \in Owned(KindOf[o], i) BY <2>1, <2>7, <3>3 DEF Owned
        <5>2. Swept(c, db'.rows, o) /\ Has(steps, Listing(c), i, KindOf[o]) BY <1>s, <1>l, <2>1, <4>2, <5>1
        <5> QED BY <1>2, <2>7, <5>2 DEF ReachedAt
      <4> QED BY <1>2, <3>3, <4>1, <4>2
    <3>4. CASE Has(todo[c], Listing(c), i, KindOf[o]) /\ Swept(c, db.rows, o) /\ db.rows[o] # None /\ SameTenant(c, db.rows[o])
      <4>1. CASE Has(todo'[c], Listing(c), i, KindOf[o])
        <5>1. Swept(c, db'.rows, o) BY <1>3, <2>1, <3>4
        <5> QED BY <2>7, <4>1, <5>1 DEF ReachedAt
      <4>2. CASE Now(c).do = Listing(c) /\ Now(c).id = i /\ Now(c).arg = KindOf[o]
        <5>1. o \in Owned(KindOf[o], i) BY <2>1, <2>7, <3>4 DEF Owned
        <5>2. Matches(c, o) BY <3>4 DEF Matches
        <5>3. Has(steps, Sweep(c), o, KindOf[d]) BY <1>w, <2>1, <3>4, <4>2, <5>1, <5>2
        <5> QED BY <1>2, <2>7, <5>3 DEF ReachedAt
      <4> QED BY <1>2, <3>4, <4>1, <4>2
    <3> QED BY <2>3, <2>4, <2>7, <3>1, <3>2, <3>3, <3>4 DEF ReachedAt
  <2> QED BY <2>3, <2>4, <2>6, <2>7 DEF ReachedAt
<1> QED BY <1>4 DEF Reached

LEMMA OpensReach ==
  ASSUME TypeInv, NEW c \in Clients, call[c].id \in Ids, NEW steps, Opens(c, steps), NEW rows
  PROVE  Reached(c, rows, todo'[c])
<1> DEFINE i == call[c].id
<1>1. steps \in Seq(Steps) /\ \E miss : Goes(c, steps, miss) BY DEF Opens, Suited
<1>2. \A d \in Below({i}) : Has(todo'[c], Sweep(c), i, KindOf[d]) BY <1>1, RestKeeps DEF Opens
<1>3. ASSUME NEW d \in Under(i)
      PROVE  \/ OwnerOf[d] = i /\ Has(todo'[c], Sweep(c), i, KindOf[d])
             \/ OwnerOf[d] # i /\ Has(todo'[c], Sweep(c), i, KindOf[OwnerOf[d]])
  BY <1>2, UnderIs
<1> QED BY <1>3 DEF Reached, ReachedAt

LEMMA CascadePrimed ==
  ASSUME NEW c, model' = model, call'[c].op = call[c].op, call'[c].id = call[c].id, meanwhile'[c] = meanwhile[c],
         call[c].id \in Ids, \A n \in DOMAIN todo'[c] : Suits(c, todo'[c][n]),
         \/ \E n \in DOMAIN todo'[c] : todo'[c][n].do = call[c].op
         \/ Reached(c, db'.rows, todo'[c]) /\ Aside(c)'
  PROVE  CascadeInv(c)'
<1>1. ASSUME NEW y, Suits(c, y) PROVE Suits(c, y)' BY <1>1 DEF Suits, Ways, Gone, Soft
<1>2. Under(call[c].id)' = Under(call[c].id) BY DEF Under, Below, SoftChildren, Soft, Cascades
<1>3. Sweep(c)' = Sweep(c) /\ Listing(c)' = Listing(c) /\ Gone(c)' = Gone(c) BY DEF Sweep, Listing, Gone
<1>4. Reached(c, db'.rows, todo'[c]) => Reached(c, db.rows, todo[c])'
  BY <1>2, <1>3 DEF Reached, ReachedAt, Swept, Has, SameTenant
<1>5. \A n \in DOMAIN todo'[c] : Suits(c, todo[c][n])' BY DEF Suits, Ways, Gone, Soft
<1> QED BY <1>4, <1>5 DEF CascadeInv

(* --------------------------- the call's own steps -------------------------- *)

\* A step that does nothing to the rows, and has no part in going down.
LEMMA QuietMarches ==
  ASSUME TypeInv, NEW c \in Clients, NEW steps \in Suited(c), NEW miss, Goes(c, steps, miss),
         Now(c).do \notin {"remove", "restore", "removeWhere", "restoreWhere", "listRemoved", "listRestored"},
         call[c].op \in {"remove", "restore"},
         UNCHANGED <<model, tx>>, meanwhile'[c] = meanwhile[c], tx \notin {None, c} => UNCHANGED <<db, saved>>,
         \A j \in Ids : /\ db'.rows[j] = None <=> db.rows[j] = None
                        /\ db.rows[j] # None => /\ db'.rows[j].tenant = db.rows[j].tenant
                                                /\ Swept(c, db.rows, j) => Swept(c, db'.rows, j)
  PROVE  Marches(c, steps)
<1>1. Now(c).do # call[c].op /\ Now(c).do # Sweep(c) /\ Now(c).do # Listing(c) BY DEF Sweep, Listing
<1> QED BY <1>1 DEF Marches

LEMMA ThrowStops ==
  ASSUME TypeInv, NEW c \in Clients, Throw(c)
  PROVE  Stops(c)
<1>1. todo \in [Clients -> Seq(Steps)] /\ call \in [Clients -> Ended] BY DEF TypeInv
<1>2. todo' = [todo EXCEPT ![c] = <<>>] /\ call' = [call EXCEPT ![c].end = "rejected"] BY DEF Throw
<1> QED BY <1>1, <1>2 DEF Stops, Ended

LEMMA ReadMarches ==
  ASSUME TypeInv, NEW c \in Clients, todo[c] # <<>>, call[c].op \in {"remove", "restore"}, tx # c,
         Now(c).do \in {"find", "reload", "audit", "emit", "tell"},
         NEW steps \in Suited(c), Then(c, steps), UNCHANGED <<model, tx, meanwhile, saved>>,
         db'.rows = db.rows, tx # None => UNCHANGED db
  PROVE  Marches(c, steps)
<1>1. steps \in Seq(Steps) BY DEF Suited
<1>2. Goes(c, steps, {}) BY <1>1, ThenGoes
<1>3. Now(c).do \notin {"remove", "restore", "removeWhere", "restoreWhere", "listRemoved", "listRestored"} OBVIOUS
<1> QED BY <1>2, <1>3, QuietMarches DEF Swept

LEMMA FindMarches ==
  ASSUME TypeInv, NEW c \in Clients, call[c].op \in {"remove", "restore"}, tx # c, Find(c), UNCHANGED model
  PROVE  Marches(c, <<>>)
<1>1. todo[c] # <<>> /\ Now(c).do = "find" BY DEF Find, At
<1>2. Then(c, <<>>) /\ UNCHANGED <<db, saved, tx, meanwhile>> BY DEF Find
<1> QED BY <1>1, <1>2, SuitedNone, ReadMarches

LEMMA ReloadMarches ==
  ASSUME TypeInv, NEW c \in Clients, call[c].op \in {"remove", "restore"}, tx # c, Reload(c), UNCHANGED model
  PROVE  Marches(c, <<>>) \/ Stops(c)
<1>1. todo[c] # <<>> /\ Now(c).do = "reload" BY DEF Reload, At
<1>2. CASE Throw(c) BY <1>2, ThrowStops
<1>3. CASE Read(c, <<>>)
  <2>1. Then(c, <<>>) /\ UNCHANGED <<db, saved, tx, meanwhile>> BY <1>3 DEF Read
  <2> QED BY <1>1, <2>1, SuitedNone, ReadMarches
<1> QED BY <1>2, <1>3 DEF Reload

LEMMA AuditMarches ==
  ASSUME TypeInv, NEW c \in Clients, call[c].op \in {"remove", "restore"}, tx # c, Audit(c), UNCHANGED model
  PROVE  Marches(c, <<>>)
<1>1. todo[c] # <<>> /\ Now(c).do = "audit" /\ tx = None BY DEF Audit, At
<1>2. Then(c, <<>>) /\ UNCHANGED <<saved, tx, meanwhile>> BY DEF Audit
<1>3. db'.rows = db.rows
  <2>1. db \in Databases BY DEF TypeInv
  <2> DEFINE T == db.trail \cup {[call |-> call[c].n, id |-> Now(c).id,
                                  op |-> Now(c).arg, missed |-> Now(c).id \in call[c].missed]}
  <2>2. db' = [db EXCEPT !.trail = T] BY DEF Audit
  <2> HIDE DEF T
  <2> QED BY <2>1, <2>2 DEF Databases
<1> QED BY <1>1, <1>2, <1>3, SuitedNone, ReadMarches

LEMMA FaultMarches ==
  ASSUME TypeInv, NEW c \in Clients, call[c].op \in {"remove", "restore"}, tx # c, Fault(c), UNCHANGED model,
         Now(c).do \in Ways(c)
  PROVE  Marches(c, <<>>) \/ Stops(c)
<1>1. todo[c] # <<>> /\ Now(c).do # "native" BY DEF Fault, Ways
<1>2. CASE Throw(c) BY <1>2, ThrowStops
<1>3. CASE Now(c).do = "audit" /\ Then(c, <<>>) /\ UNCHANGED <<db, saved, tx, seen, loose, meanwhile>>
  BY <1>1, <1>3, SuitedNone, ReadMarches
<1> QED BY <1>1, <1>2, <1>3 DEF Fault

\* The UPDATE that stamps a row as deleted.
LEMMA WriteMarches ==
  ASSUME TypeInv, NEW c \in Clients, call[c].op \in {"remove", "restore"}, tx # c, Write(c), UNCHANGED model,
         Now(c).do \in Ways(c)
  PROVE  Marches(c, <<>>) \/ Stops(c)
<1> DEFINE i == Now(c).id
           rows == [db.rows EXCEPT ![i].version = NextVersion(c), ![i].by = call[c].n,
                                   ![i].deleted = @ \/ Now(c).do = "stamp"]
<1>1. todo[c] # <<>> /\ Now(c).do = "stamp" /\ tx = None /\ Gone(c) BY DEF Write, At, Ways
<1>2. i \in Ids /\ Now(c).arg \in Stored \cup {None} BY <1>1, NowIs DEF FitArg, Frame, Carries
<1>3. Now(c).do \notin {"remove", "restore", "removeWhere", "restoreWhere", "listRemoved", "listRestored"} BY <1>1
<1>4. <<>> \in Seq(Steps) OBVIOUS
<1>7. CASE Lands(c)
  <2>1. Store(c, rows, {i}) /\ Then(c, <<>>) BY <1>7 DEF Write
  <2>2. db.rows \in Rows /\ db.rows[i] \in Stored BY <1>2, <1>7, RowIs DEF Lands, Matches
  <2>3. NextVersion(c) \in Nat
    <3>1. seen[c] \in Stored \cup {None} BY DEF TypeInv
    <3>2. Against(c) \in Stored \cup {None} BY <1>2, <3>1 DEF Against
    <3> QED BY <3>2 DEF NextVersion, Stored
  <2>4. call[c].n \in Nat BY DEF TypeInv, Ended
  <2> DEFINE r == [db.rows[i] EXCEPT !.version = NextVersion(c), !.by = call[c].n, !.deleted = @ \/ Now(c).do = "stamp"]
  <2>5. r \in Stored /\ r.tenant = db.rows[i].tenant /\ r.deleted = TRUE
    <3>1. Now(c).do = "stamp" <=> TRUE BY <1>1
    <3> QED BY <2>2, <2>3, <2>4, <3>1 DEF Stored
  <2>6. rows = [db.rows EXCEPT ![i] = r] BY <2>2, <1>2 DEF Rows
  <2> HIDE DEF r, rows
  <2>7. rows \in Rows /\ rows[i] = r /\ \A j \in Ids : j # i => rows[j] = db.rows[j]
    BY <2>2, <2>5, <2>6, <1>2 DEF Rows
  <2>8. {i} \in SUBSET Ids BY <1>2
  <2>9. UNCHANGED <<saved, tx>> /\ db'.rows = rows /\ meanwhile'[c] = meanwhile[c] BY <2>1, <2>7, <2>8, StoreIs
  <2>10. Goes(c, <<>>, {}) BY <1>1, <1>4, <2>1, ThenGoes
  <2>11. r # None /\ db.rows[i] # None BY <2>2, <2>5, NoneAssumption
  <2>12. ASSUME NEW j \in Ids
         PROVE  /\ db'.rows[j] = None <=> db.rows[j] = None
                /\ db.rows[j] # None => /\ db'.rows[j].tenant = db.rows[j].tenant
                                        /\ Swept(c, db.rows, j) => Swept(c, db'.rows, j)
    <3>1. CASE j = i BY <1>1, <2>5, <2>7, <2>9, <2>11, <3>1 DEF Swept
    <3>2. CASE j # i BY <2>7, <2>9, <3>2 DEF Swept
    <3> QED BY <3>1, <3>2
  <2>13. UNCHANGED <<model, tx>> /\ (tx \notin {None, c} => UNCHANGED <<db, saved>>) BY <1>1, <2>9
  <2> QED BY <1>3, <2>9, <2>10, <2>12, <2>13, SuitedNone, QuietMarches
<1>8. CASE Throw(c) BY <1>8, ThrowStops
<1>9. CASE Missing(c, i, <<>>)
  <2>1. Goes(c, <<>>, {i}) /\ UNCHANGED <<db, saved, tx, meanwhile>> BY <1>1, <1>2, <1>4, <1>9, MissingGoes
  <2> QED BY <1>3, <2>1, SuitedNone, QuietMarches
<1> QED BY <1>7, <1>8, <1>9 DEF Write

LEMMA MarkIs ==
  ASSUME TypeInv, NEW c \in Clients, NEW S \in SUBSET Ids, \A j \in S : db.rows[j] # None, NEW gone \in BOOLEAN,
         NEW steps, Mark(c, S, gone, steps)
  PROVE  /\ UNCHANGED <<saved, tx>> /\ meanwhile'[c] = meanwhile[c] /\ Then(c, steps)
         /\ \A j \in Ids :
              /\ db'.rows[j] = None <=> db.rows[j] = None
              /\ db.rows[j] # None => db'.rows[j].tenant = db.rows[j].tenant
              /\ j \in S => db'.rows[j].deleted = gone
              /\ j \notin S => db'.rows[j] = db.rows[j]
<1> DEFINE rows == [j \in Ids |-> IF j \in S THEN [db.rows[j] EXCEPT !.deleted = gone] ELSE db.rows[j]]
<1>1. ASSUME NEW j \in Ids
      PROVE  /\ rows[j] \in Stored \cup {None} /\ (rows[j] = None <=> db.rows[j] = None)
             /\ db.rows[j] # None => rows[j].tenant = db.rows[j].tenant
             /\ j \in S => rows[j].deleted = gone
             /\ j \notin S => rows[j] = db.rows[j]
  <2>1. db.rows[j] \in Stored \cup {None} BY RowIs
  <2>2. CASE j \in S
    <3>1. db.rows[j] \in Stored /\ db.rows[j] # None BY <2>1, <2>2
    <3> DEFINE r == [db.rows[j] EXCEPT !.deleted = gone]
    <3>2. r \in Stored /\ r.tenant = db.rows[j].tenant /\ r.deleted = gone BY <3>1 DEF Stored
    <3>3. rows[j] = r BY <2>2
    <3> HIDE DEF r
    <3> QED BY <2>2, <3>1, <3>2, <3>3, NoneAssumption
  <2>3. CASE j \notin S BY <2>1, <2>3
  <2> QED BY <2>2, <2>3
<1>2. rows \in Rows BY <1>1 DEF Rows
<1>3. Store(c, rows, {}) /\ Then(c, steps) BY DEF Mark
<1> HIDE DEF rows
<1>4. {} \in SUBSET Ids OBVIOUS
<1>5. UNCHANGED <<saved, tx>> /\ db'.rows = rows /\ meanwhile'[c] = meanwhile[c] BY <1>2, <1>3, <1>4, StoreIs
<1> QED BY <1>1, <1>3, <1>5

\* removeWhere() and restoreWhere(): the rows of a class below one row.
LEMMA SweepMarches ==
  ASSUME TypeInv, NEW c \in Clients, call[c].op \in {"remove", "restore"}, tx = None, UNCHANGED model,
         todo[c] # <<>>, Now(c).do = Sweep(c), NEW steps,
         steps = IF Cascades(Now(c).arg) THEN <<With(Listing(c), Now(c).id, Now(c).arg)>> ELSE <<>>,
         Mark(c, Owned(Now(c).arg, Now(c).id), Gone(c), steps)
  PROVE  Marches(c, steps)
<1> DEFINE k == Now(c).arg
           o == Now(c).id
           S == Owned(k, o)
           x == With(Listing(c), o, k)
<1>1. Sweep(c) \in {"removeWhere", "restoreWhere"} BY DEF Sweep
<1>2. o \in Ids /\ k \in Kinds /\ k \in Args BY <1>1, NowIs, ArgsAre DEF FitArg, Frame, OfKind
<1>3. x \in Steps /\ x.do = Listing(c) /\ x.id = o /\ x.arg = k
  <2>1. Listing(c) \in {"listRemoved", "listRestored"} BY DEF Listing
  <2> QED BY <1>2, <2>1, ArgsAre, StepIs DEF Doings, FitArg, Carries, OfKind, Frame
<1>4. steps = IF Cascades(k) THEN <<x>> ELSE <<>> OBVIOUS
<1>5. Suits(c, x) BY <1>3 DEF Suits, Listing, Ways, Gone
<1> HIDE DEF x
<1>6. steps \in Suited(c) BY <1>3, <1>4, <1>5, SuitedOne, SuitedNone
<1>7. Cascades(k) => Has(steps, Listing(c), o, k) BY <1>3, <1>4 DEF Has
<1>8. S \in SUBSET Ids /\ (\A j \in S : db.rows[j] # None) /\ Gone(c) \in BOOLEAN BY OwnedIs DEF Gone
<1>9. /\ UNCHANGED <<saved, tx>> /\ meanwhile'[c] = meanwhile[c] /\ Then(c, steps)
      /\ \A j \in Ids :
           /\ db'.rows[j] = None <=> db.rows[j] = None
           /\ db.rows[j] # None => db'.rows[j].tenant = db.rows[j].tenant
           /\ j \in S => db'.rows[j].deleted = Gone(c)
           /\ j \notin S => db'.rows[j] = db.rows[j]
  <2> HIDE DEF S
  <2>1. Mark(c, S, Gone(c), steps) BY DEF S
  <2> QED BY <1>8, <2>1, MarkIs
<1>10. Goes(c, steps, {}) BY <1>6, <1>9, ThenGoes DEF Suited
<1>11. Now(c).do # call[c].op /\ Now(c).do # Listing(c) BY DEF Sweep, Listing, Gone
<1>12. \A j \in S : Swept(c, db'.rows, j) BY <1>8, <1>9 DEF Swept
<1>13. \A j \in Ids : Swept(c, db.rows, j) => Swept(c, db'.rows, j) BY <1>9 DEF Swept
<1> QED BY <1>6, <1>7, <1>9, <1>10, <1>11, <1>12, <1>13 DEF Marches

LEMMA RemoveWhereMarches ==
  ASSUME TypeInv, NEW c \in Clients, call[c].op \in {"remove", "restore"}, tx # c, RemoveWhere(c), UNCHANGED model,
         Suits(c, Now(c))
  PROVE  \E steps : Marches(c, steps)
<1> DEFINE k == Now(c).arg
           o == Now(c).id
           steps == IF Cascades(k) THEN <<With("listRemoved", o, k)>> ELSE <<>>
<1>1. todo[c] # <<>> /\ Now(c).do = "removeWhere" /\ tx = None /\ Gone(c) /\ Soft(k) # "none"
  BY DEF RemoveWhere, At, Suits, Ways
<1>2. Mark(c, Owned(k, o), TRUE, steps) BY <1>1 DEF RemoveWhere
<1>3. Gone(c) = TRUE /\ Sweep(c) = "removeWhere" /\ Listing(c) = "listRemoved" BY <1>1 DEF Gone, Sweep, Listing
<1>4. steps = IF Cascades(Now(c).arg) THEN <<With(Listing(c), Now(c).id, Now(c).arg)>> ELSE <<>> BY <1>3
<1>5. Mark(c, Owned(Now(c).arg, Now(c).id), Gone(c), steps) BY <1>2, <1>3
<1> HIDE DEF steps
<1>6. Marches(c, steps) BY <1>1, <1>3, <1>4, <1>5, SweepMarches
<1> QED BY <1>6

LEMMA RestoreWhereMarches ==
  ASSUME TypeInv, NEW c \in Clients, call[c].op \in {"remove", "restore"}, tx # c, RestoreWhere(c), UNCHANGED model,
         Suits(c, Now(c))
  PROVE  Stops(c) \/ \E steps : Marches(c, steps)
<1> DEFINE k == Now(c).arg
           o == Now(c).id
           steps == IF Cascades(k) THEN <<With("listRestored", o, k)>> ELSE <<>>
<1>1. todo[c] # <<>> /\ Now(c).do = "restoreWhere" /\ tx = None /\ ~Gone(c)
  BY DEF RestoreWhere, At, Suits, Ways
<1>2. CASE Throw(c) BY <1>2, ThrowStops
<1>3. CASE Mark(c, Owned(k, o), FALSE, steps)
  <2>3. Gone(c) = FALSE /\ Sweep(c) = "restoreWhere" /\ Listing(c) = "listRestored" BY <1>1 DEF Gone, Sweep, Listing
  <2>4. steps = IF Cascades(Now(c).arg) THEN <<With(Listing(c), Now(c).id, Now(c).arg)>> ELSE <<>> BY <2>3
  <2>5. Mark(c, Owned(Now(c).arg, Now(c).id), Gone(c), steps) BY <1>3, <2>3
  <2> HIDE DEF steps
  <2>6. Marches(c, steps) BY <1>1, <2>3, <2>4, <2>5, SweepMarches
  <2> QED BY <2>6
<1> QED BY <1>2, <1>3 DEF RestoreWhere

\* The rows just marked are listed, and the classes below them.
LEMMA ListMarches ==
  ASSUME TypeInv, NEW c \in Clients, call[c].op \in {"remove", "restore"}, tx = None, UNCHANGED model,
         todo[c] # <<>>, Now(c).do = Listing(c), NEW S \in SUBSET Ids,
         \A j \in Owned(Now(c).arg, Now(c).id) : Matches(c, j) /\ Swept(c, db.rows, j) => j \in S,
         NEW steps, steps = Descents(c, SoftChildren(Now(c).arg), S), Read(c, steps)
  PROVE  Marches(c, steps)
<1> DEFINE k == Now(c).arg
           ks == SoftChildren(k)
<1>1. k \in Kinds
  <2>1. Listing(c) \in {"listRemoved", "listRestored"} BY DEF Listing
  <2> QED BY <2>1, NowIs DEF FitArg, OfKind
<1>2. ks \in SUBSET Kinds /\ \A j \in ks : Soft(j) # "none" BY <1>1, KindSoft DEF SoftChildren
<1>3. steps \in Suited(c) /\ \A j \in S, d \in ks : Has(steps, Sweep(c), j, d)
  <2> HIDE DEF ks
  <2>1. steps = Descents(c, ks, S) BY DEF ks
  <2> QED BY <1>2, <2>1, BelowSuit
<1>4. Goes(c, steps, {}) BY <1>3, ThenGoes DEF Read, Suited
<1>5. UNCHANGED <<db, saved, tx, meanwhile>> BY DEF Read
<1>6. Now(c).do # call[c].op /\ Now(c).do # Sweep(c) BY DEF Sweep, Listing, Gone
<1> QED BY <1>3, <1>4, <1>5, <1>6 DEF Marches

LEMMA ListRemovedMarches ==
  ASSUME TypeInv, NEW c \in Clients, call[c].op \in {"remove", "restore"}, tx # c, ListRemoved(c), UNCHANGED model,
         Suits(c, Now(c))
  PROVE  \E steps : Marches(c, steps)
<1> DEFINE k == Now(c).arg
           below == {i \in Owned(k, Now(c).id) : Matches(c, i)}
           steps == FlattenSeq([n \in 1 .. Cardinality(below) |-> EachKind("removeWhere", SoftChildren(k), SetToSeq(below)[n])])
<1>1. todo[c] # <<>> /\ Now(c).do = "listRemoved" /\ tx = None /\ Gone(c) /\ Read(c, steps)
  BY DEF ListRemoved, At, Suits, Ways
<1>2. Sweep(c) = "removeWhere" /\ Listing(c) = "listRemoved" BY <1>1 DEF Sweep, Listing
<1>3. below \in SUBSET Ids /\ \A j \in Owned(Now(c).arg, Now(c).id) : Matches(c, j) => j \in below BY OwnedIs
<1> HIDE DEF below
<1>4. steps = Descents(c, SoftChildren(Now(c).arg), below) BY <1>2 DEF Descents
<1> HIDE DEF steps
<1>5. Marches(c, steps) BY <1>1, <1>2, <1>3, <1>4, ListMarches
<1> QED BY <1>5

LEMMA ListRestoredMarches ==
  ASSUME TypeInv, NEW c \in Clients, call[c].op \in {"remove", "restore"}, tx # c, ListRestored(c), UNCHANGED model,
         Suits(c, Now(c))
  PROVE  \E steps : Marches(c, steps)
<1> DEFINE k == Now(c).arg
           below == {i \in Owned(k, Now(c).id) : Visible(c, i)}
           steps == FlattenSeq([n \in 1 .. Cardinality(below) |-> EachKind("restoreWhere", SoftChildren(k), SetToSeq(below)[n])])
<1>1. todo[c] # <<>> /\ Now(c).do = "listRestored" /\ tx = None /\ ~Gone(c) /\ Read(c, steps)
  BY DEF ListRestored, At, Suits, Ways
<1>2. Sweep(c) = "restoreWhere" /\ Listing(c) = "listRestored" BY <1>1 DEF Sweep, Listing
<1>3. below \in SUBSET Ids /\ \A j \in Owned(Now(c).arg, Now(c).id) : Matches(c, j) /\ Swept(c, db.rows, j) => j \in below
  BY <1>1, OwnedIs DEF Visible, Swept, Gone
<1> HIDE DEF below
<1>4. steps = Descents(c, SoftChildren(Now(c).arg), below) BY <1>2 DEF Descents
<1> HIDE DEF steps
<1>5. Marches(c, steps) BY <1>1, <1>2, <1>3, <1>4, ListMarches
<1> QED BY <1>5

\* Events run whoever's transaction is open.
LEMMA EventMarches ==
  ASSUME TypeInv, NEW c \in Clients, call[c].op \in {"remove", "restore"}, tx # c,
         Emit(c) \/ Tell(c), UNCHANGED <<unit, serial, taken, fate>>, Suits(c, Now(c))
  PROVE  \E steps : Marches(c, steps)
<1>1. CASE Tell(c)
  <2>1. Tells(c) BY <1>1, TellGoes
  <2>2. Marches(c, <<>>)
    <3>1. Goes(c, <<>>, {}) /\ UNCHANGED <<model, db, saved, tx, meanwhile>> /\ Now(c).do = "tell" BY <2>1 DEF Tells, Asleep
    <3> QED BY <3>1, SuitedNone, QuietMarches
  <2> QED BY <2>2
<1>2. CASE Emit(c)
  <2>1. PICK steps : Emits(c, steps) BY <1>2, EmitGoes
  <2>2. Goes(c, steps, {}) /\ UNCHANGED <<model, db, saved, tx, meanwhile>> /\ Now(c).do = "emit" /\ steps \in Seq(Steps)
        /\ \A n \in DOMAIN steps : steps[n].do = "tell"
    BY <2>1 DEF Emits, Asleep, Heard
  <2>3. Gone(c) BY <2>2 DEF Suits, Ways
  <2>4. \A n \in DOMAIN steps : Suits(c, steps[n]) BY <2>2, <2>3 DEF Suits, Ways
  <2>5. steps \in Suited(c) BY <2>2, <2>4 DEF Suited
  <2>6. Marches(c, steps) BY <2>2, <2>5, QuietMarches
  <2> QED BY <2>6
<1> QED BY <1>1, <1>2

(* ------------------------- the step that begins it ------------------------ *)

LEMMA JoinHas ==
  ASSUME NEW s \in Seq(Steps), NEW t \in Seq(Steps), NEW do, NEW i, NEW k, Has(s, do, i, k) \/ Has(t, do, i, k)
  PROVE  Has(s \o t, do, i, k)
<1> DEFINE u == s \o t
<1>1. u = s \o t OBVIOUS
<1> HIDE DEF u
<1>2. /\ \A n \in DOMAIN s : n \in DOMAIN u /\ u[n] = s[n]
      /\ \A n \in DOMAIN t : Len(s) + n \in DOMAIN u /\ u[Len(s) + n] = t[n]
  BY <1>1, Joined
<1>3. Has(u, do, i, k)
  <2>1. CASE Has(s, do, i, k) BY <1>2, <2>1 DEF Has
  <2>2. CASE Has(t, do, i, k)
    <3>1. PICK n \in DOMAIN t : t[n].do = do /\ t[n].id = i /\ t[n].arg = k BY <2>2 DEF Has
    <3>2. Len(s) + n \in DOMAIN u /\ u[Len(s) + n] = t[n] BY <1>2
    <3> QED BY <3>1, <3>2 DEF Has
  <2> QED BY <2>1, <2>2
<1> QED BY <1>3 DEF u

\* The classes below the row, or none when its class does not cascade.
LEMMA CascadeSuits ==
  ASSUME NEW c, call[c].op \in {"remove", "restore"}, NEW i \in Ids, NEW s,
         s = IF Gone(c) THEN CascadingRemove(i) ELSE CascadingRestore(i)
  PROVE  s \in Suited(c) /\ \A d \in Below({i}) : Has(s, Sweep(c), i, KindOf[d])
<1> DEFINE ks == IF Gone(c) THEN SoftChildren(KindOf[i]) ELSE HasMany[KindOf[i]]
<1>1. ks \in SUBSET Kinds /\ (Gone(c) => \A k \in ks : Soft(k) # "none") BY ClassesAre DEF SoftChildren
<1>2. s = IF Cascades(KindOf[i]) THEN EachKind(Sweep(c), ks, i) ELSE <<>>
  BY DEF CascadingRemove, CascadingRestore, Sweep
<1>3. \A d \in Below({i}) : Cascades(KindOf[i]) /\ KindOf[d] \in ks BY DEF Below, SoftChildren
<1> HIDE DEF ks
<1>4. EachKind(Sweep(c), ks, i) \in Suited(c) /\ \A k \in ks : Has(EachKind(Sweep(c), ks, i), Sweep(c), i, k)
  BY <1>1, KindsSuit
<1> QED BY <1>2, <1>3, <1>4, SuitedNone

LEMMA EndingSuits ==
  ASSUME NEW c, Gone(c), NEW i \in Ids, NEW act \in Acts
  PROVE  Ending(i, act) \in Suited(c)
<1>1. Ending(i, act) \in Seq(Steps) BY EndingIs
<1>2. \A n \in DOMAIN Ending(i, act) : Suits(c, Ending(i, act)[n]) BY EndingHas DEF Suits, Ways, Gone
<1> QED BY <1>1, <1>2 DEF Suited

LEMMA StampSuits ==
  ASSUME NEW c, Gone(c), NEW i \in Ids, NEW e \in Stored \cup {None}
  PROVE  Updating(i, "stamp", e) \in Suited(c)
<1> DEFINE d == Step("find", i)
           w == With("stamp", i, e)
           r == Step("reload", i)
           s1 == IF Audited(i) THEN <<d>> ELSE <<>>
           s2 == IF Versioned(i) /\ e = None THEN <<d>> ELSE <<>>
           E == Ending(i, "updated")
<1>1. d \in Steps /\ d.do = "find" BY FindFits
<1>2. w \in Steps /\ w.do = "stamp" BY ArgsAre, StepIs DEF Doings, FitArg, Carries, OfKind, Frame
<1>3. r \in Steps /\ r.do = "reload" BY ArgsAre, StepIs DEF Doings, FitArg, Carries, OfKind, Frame
<1>4. Updating(i, "stamp", e) = s1 \o s2 \o <<w, r>> \o E BY DEF Updating
<1>5. E \in Suited(c) BY ArgsAre, EndingSuits
<1> HIDE DEF d, w, r, E
<1>6. Suits(c, d) /\ Suits(c, w) /\ Suits(c, r) BY <1>1, <1>2, <1>3 DEF Suits, Ways, Gone
<1>7. s1 \in Suited(c) /\ s2 \in Suited(c) BY <1>1, <1>6, SuitedOne, SuitedNone
<1>8. <<w, r>> \in Suited(c)
  <2> DEFINE v == <<w, r>>
  <2>1. v \in Seq(Steps) /\ DOMAIN v = {1, 2} /\ v[1] = w /\ v[2] = r BY <1>2, <1>3
  <2> HIDE DEF v
  <2>2. v \in Suited(c) BY <1>6, <2>1 DEF Suited
  <2> QED BY <2>2 DEF v
<1> HIDE DEF s1, s2
<1>9. s1 \o s2 \in Suited(c) BY <1>7, SuitedJoins
<1>10. (s1 \o s2) \o <<w, r>> \in Suited(c) BY <1>8, <1>9, SuitedJoins
<1>11. ((s1 \o s2) \o <<w, r>>) \o E \in Suited(c) BY <1>5, <1>10, SuitedJoins
<1> QED BY <1>4, <1>11

LEMMA RemoveOpens ==
  ASSUME TypeInv, NEW c \in Clients, call[c].op \in {"remove", "restore"}, tx # c, RemoveRow(c), UNCHANGED model,
         Suits(c, Now(c))
  PROVE  Stops(c) \/ \E steps : Opens(c, steps)
<1> DEFINE i == Now(c).id
           e == Now(c).arg
           cascade == CascadingRemove(i)
           ending == Ending(i, "deleted")
           rest == cascade \o ending
<1>1. todo[c] # <<>> /\ Now(c).do = "remove" /\ tx = None /\ Gone(c) /\ i = call[c].id
  BY DEF RemoveRow, At, Suits, Ways, Gone
<1>2. i \in Ids /\ {i} \in SUBSET Ids /\ e \in Stored \cup {None} BY <1>1, NowIs DEF FitArg, Frame, Carries
<1>3. cascade \in Suited(c) /\ \A d \in Below({i}) : Has(cascade, Sweep(c), i, KindOf[d])
  <2>1. cascade = IF Gone(c) THEN CascadingRemove(i) ELSE CascadingRestore(i) BY <1>1
  <2> HIDE DEF cascade
  <2> QED BY <1>2, <2>1, CascadeSuits
<1>4. ending \in Suited(c) BY <1>1, <1>2, ArgsAre, EndingSuits
<1> HIDE DEF cascade
<1>5. rest \in Suited(c) /\ \A d \in Below({i}) : Has(rest, Sweep(c), i, KindOf[d])
  <2> HIDE DEF ending
  <2>1. cascade \in Seq(Steps) /\ ending \in Seq(Steps) BY <1>3, <1>4 DEF Suited
  <2> QED BY <1>3, <1>4, <2>1, SuitedJoins, JoinHas
<1>6. ASSUME NEW steps \in Suited(c), \A d \in Below({i}) : Has(steps, Sweep(c), i, KindOf[d]), NEW miss, Goes(c, steps, miss),
             UNCHANGED tx, meanwhile'[c] = meanwhile[c]
      PROVE  \E s : Opens(c, s)
  BY <1>1, <1>6 DEF Opens
<1>7. CASE Throw(c) BY <1>7, ThrowStops
<1>8. ASSUME NEW steps \in Suited(c), \A d \in Below({i}) : Has(steps, Sweep(c), i, KindOf[d]), Missing(c, i, steps)
      PROVE  \E s : Opens(c, s)
  <2>1. steps \in Seq(Steps) BY DEF Suited
  <2>2. Goes(c, steps, {i}) /\ UNCHANGED <<tx, meanwhile>> BY <1>1, <1>2, <1>8, <2>1, MissingGoes
  <2> QED BY <1>6, <1>8, <2>2
<1>9. ASSUME NEW steps \in Suited(c), \A d \in Below({i}) : Has(steps, Sweep(c), i, KindOf[d]), NEW rows \in Rows,
             Store(c, rows, {i}), Then(c, steps)
      PROVE  \E s : Opens(c, s)
  <2>1. steps \in Seq(Steps) BY DEF Suited
  <2>2. Goes(c, steps, {}) BY <1>1, <1>9, <2>1, ThenGoes
  <2>3. UNCHANGED tx /\ meanwhile'[c] = meanwhile[c] BY <1>2, <1>9, StoreIs
  <2> QED BY <1>6, <1>9, <2>2, <2>3
<1> HIDE DEF ending, rest
<1>10. CASE Soft(KindOf[i]) = "property" /\ Read(c, Updating(i, "stamp", e) \o rest)
  <2> DEFINE update == Updating(i, "stamp", e)
             steps == update \o rest
  <2>1. update \in Suited(c) BY <1>1, <1>2, StampSuits
  <2> HIDE DEF update
  <2>2. update \in Seq(Steps) /\ rest \in Seq(Steps) BY <1>5, <2>1 DEF Suited
  <2>3. steps \in Suited(c) /\ \A d \in Below({i}) : Has(steps, Sweep(c), i, KindOf[d])
    BY <1>5, <2>1, <2>2, SuitedJoins, JoinHas
  <2>4. Then(c, steps) /\ UNCHANGED <<tx, meanwhile>> BY <1>10 DEF Read, update
  <2> HIDE DEF steps
  <2>5. Goes(c, steps, {}) BY <1>1, <2>3, <2>4, ThenGoes DEF Suited
  <2> QED BY <1>6, <2>3, <2>4, <2>5
<1>11. CASE Soft(KindOf[i]) = "none" /\ Delete(c, ending)
  <2>1. Below({i}) = {}
    <3>1. KindOf[i] \in Kinds BY <1>2, ClassesAre
    <3>2. model \in Models BY DEF TypeInv
    <3>3. ~Cascades(KindOf[i]) BY <1>11, <3>1, <3>2, ModelsAssumption DEF Cascades, Soft
    <3> QED BY <3>3 DEF Below
  <2>2. CASE Store(c, [db.rows EXCEPT ![i] = None], {i}) /\ Then(c, ending)
    <3>1. [db.rows EXCEPT ![i] = None] \in Rows BY <1>2, RowReplaced
    <3> QED BY <1>4, <1>9, <2>1, <2>2, <3>1
  <2>3. CASE Missing(c, i, ending) BY <1>4, <1>8, <2>1, <2>3
  <2> QED BY <1>7, <1>11, <2>2, <2>3 DEF Delete
<1>12. CASE /\ Soft(KindOf[i]) = "class" /\ Removable(c, i)
            /\ Store(c, [db.rows EXCEPT ![i].deleted = TRUE], {i}) /\ Then(c, rest)
  <2>1. db.rows \in Rows /\ db.rows[i] \in Stored BY <1>2, <1>12, RowIs DEF Removable, Matches
  <2> DEFINE r == [db.rows[i] EXCEPT !.deleted = TRUE]
  <2>2. r \in Stored BY <2>1 DEF Stored
  <2>3. [db.rows EXCEPT ![i].deleted = TRUE] = [db.rows EXCEPT ![i] = r] BY <2>1, <1>2 DEF Rows
  <2> HIDE DEF r
  <2>4. [db.rows EXCEPT ![i] = r] \in Rows BY <1>2, <2>2, RowReplaced
  <2> QED BY <1>5, <1>9, <1>12, <2>3, <2>4
<1>13. CASE Missing(c, i, rest) BY <1>5, <1>8, <1>13
<1> QED BY <1>7, <1>10, <1>11, <1>12, <1>13 DEF RemoveRow, rest, ending, cascade

LEMMA RestoreSuits ==
  ASSUME NEW c, call[c].op \in {"remove", "restore"}, ~Gone(c), NEW i \in Ids, NEW s, s = CascadingRestore(i)
  PROVE  s \in Suited(c) /\ \A d \in Below({i}) : Has(s, Sweep(c), i, KindOf[d])
<1>1. s = IF Gone(c) THEN CascadingRemove(i) ELSE CascadingRestore(i) OBVIOUS
<1> QED BY <1>1, CascadeSuits

LEMMA RestoredOpens ==
  ASSUME TypeInv, NEW c \in Clients, call[c].op \in {"remove", "restore"}, tx = None, todo[c] # <<>>, UNCHANGED model,
         ~Gone(c), NEW i \in Ids, i = call[c].id, NEW S \in SUBSET Ids, \A d \in S : db.rows[d] # None,
         NEW steps, steps = CascadingRestore(i), Mark(c, S, FALSE, steps)
  PROVE  Opens(c, steps)
<1>1. steps \in Suited(c) /\ \A d \in Below({i}) : Has(steps, Sweep(c), i, KindOf[d]) BY RestoreSuits
<1>2. UNCHANGED tx /\ meanwhile'[c] = meanwhile[c] /\ Then(c, steps) BY MarkIs
<1>3. Goes(c, steps, {}) BY <1>1, <1>2, ThenGoes DEF Suited
<1> QED BY <1>1, <1>2, <1>3 DEF Opens

LEMMA RestoreOpens ==
  ASSUME TypeInv, NEW c \in Clients, call[c].op \in {"remove", "restore"}, tx # c, Restore(c), UNCHANGED model,
         Suits(c, Now(c))
  PROVE  Stops(c) \/ \E steps : Opens(c, steps)
<1>1. todo[c] # <<>> /\ Now(c).do = "restore" /\ tx = None /\ ~Gone(c) /\ Now(c).id = call[c].id
  BY DEF Restore, At, Suits, Ways, Gone
<1>2. Now(c).id \in Ids BY <1>1, NowIs DEF FitArg, Frame
<1>3. CASE Throw(c) BY <1>3, ThrowStops
<1>4. ASSUME NEW i, i = Now(c).id, Mark(c, {i} \cap {d \in Ids : db.rows[d] # None}, FALSE, CascadingRestore(i))
      PROVE  \E steps : Opens(c, steps)
  BY <1>1, <1>2, <1>4, RestoredOpens
<1>5. Throw(c) \/ Mark(c, {Now(c).id} \cap {d \in Ids : db.rows[d] # None}, FALSE, CascadingRestore(Now(c).id))
  BY DEF Restore
<1> QED BY <1>3, <1>4, <1>5

(* --------------------------- cascades go on and end ----------------------- *)

\* The call has no transaction of its own.
LEMMA CascadeAlone ==
  ASSUME Base, NEW c \in Clients, Cascading(c), \A n \in DOMAIN todo[c] : Suits(c, todo[c][n])
  PROVE  tx # c /\ Suits(c, Now(c))
<1>1. Now(c) = todo[c][1] /\ 1 \in DOMAIN todo[c] BY NowIs DEF Base, Cascading
<1>2. \A n \in DOMAIN todo[c] : todo[c][n].do # "commit" BY DEF Suits, Ways
<1>3. tx # c BY <1>2 DEF Base, CallsInv, CallInv
<1> QED BY <1>1, <1>3

LEMMA RunCascades ==
  ASSUME TypeInv, NEW c \in Clients, Cascading(c), tx # c, Run(c), Suits(c, Now(c))
  PROVE  Stops(c) \/ \E steps : Marches(c, steps) \/ Opens(c, steps)
<1>0. model' = model /\ call[c].op \in {"remove", "restore"} BY DEF Run, Kept, Cascading
<1>1. Now(c).do \in Ways(c) BY DEF Suits
<1>2. Now(c).do \in {"find", "remove", "stamp", "reload", "removeWhere", "listRemoved", "audit", "emit", "tell",
                     "restore", "restoreWhere", "listRestored"}
  BY <1>1 DEF Ways
<1>3. CASE Fault(c) BY <1>0, <1>1, <1>3, FaultMarches
<1>4. CASE Statement(c)
  <2>1. /\ ~Add(c) /\ ~Upsert(c) /\ ~Native(c) /\ ~HardRemove(c) /\ ~BulkDelete(c) /\ ~BulkInsert(c) /\ ~BulkUpdate(c)
        /\ ~BulkUpsert(c) /\ ~Begin(c) /\ ~Commit(c)
    BY <1>2 DEF Add, Upsert, Native, HardRemove, BulkDelete, BulkInsert, BulkUpdate, BulkUpsert, Begin, Commit, At
  <2>2. ~Aborted(c) BY DEF Aborted
  <2>3. CASE Find(c) BY <1>0, <2>3, FindMarches
  <2>4. CASE Reload(c) BY <1>0, <2>4, ReloadMarches
  <2>5. CASE Write(c) BY <1>0, <1>1, <2>5, WriteMarches
  <2>6. CASE RemoveRow(c) BY <1>0, <2>6, RemoveOpens
  <2>7. CASE RemoveWhere(c) BY <1>0, <2>7, RemoveWhereMarches
  <2>8. CASE ListRemoved(c) BY <1>0, <2>8, ListRemovedMarches
  <2>9. CASE Restore(c) BY <1>0, <2>9, RestoreOpens
  <2>10. CASE RestoreWhere(c) BY <1>0, <2>10, RestoreWhereMarches
  <2>11. CASE ListRestored(c) BY <1>0, <2>11, ListRestoredMarches
  <2>12. CASE Audit(c) BY <1>0, <2>12, AuditMarches
  <2> QED BY <1>4, <2>1, <2>2, <2>3, <2>4, <2>5, <2>6, <2>7, <2>8, <2>9, <2>10, <2>11, <2>12 DEF Statement
<1> QED BY <1>3, <1>4 DEF Run

\* What a remove() or restore() does next.
LEMMA ActingCascades ==
  ASSUME Base, NEW c \in Clients, Cascading(c), \A n \in DOMAIN todo[c] : Suits(c, todo[c][n]), Acting(c)
  PROVE  Stops(c) \/ \E steps : Marches(c, steps) \/ Opens(c, steps)
<1>1. TypeInv /\ tx # c /\ Suits(c, Now(c)) BY CascadeAlone DEF Base
<1>2. call[c].op \in {"remove", "restore"} /\ todo[c] # <<>> BY DEF Cascading
<1>3. ~CallSet(c) /\ ~CommitUnit(c) BY <1>2 DEF CallSet, CommitUnit, Start, Idle
<1>4. ~Clear(c)
  <2>1. Now(c).do # "clear" BY <1>1 DEF Suits, Ways
  <2> QED BY <2>1 DEF Clear
<1>5. CASE Run(c) BY <1>1, <1>5, RunCascades
<1>6. CASE (Emit(c) \/ Tell(c)) /\ UNCHANGED <<unit, serial, taken, fate>>
  <2>1. UNCHANGED <<unit, serial, taken, fate>> BY <1>6
  <2>2. \E steps : Marches(c, steps) BY <1>1, <1>2, <1>6, EventMarches
  <2> QED BY <2>2
<1> QED BY <1>3, <1>4, <1>5, <1>6 DEF Acting

\* The step that begins it is not passed over.
LEMMA Remains ==
  ASSUME TypeInv, NEW c \in Clients, NEW steps \in Suited(c), NEW miss, Goes(c, steps, miss), NEW do, Now(c).do # do,
         \E n \in DOMAIN todo[c] : todo[c][n].do = do
  PROVE  \E m \in DOMAIN todo'[c] : todo'[c][m].do = do
<1>1. PICK n \in DOMAIN todo[c] : todo[c][n].do = do OBVIOUS
<1>2. todo[c] \in Seq(Steps) /\ todo[c] # <<>> /\ todo'[c] = steps \o Tail(todo[c]) /\ steps \in Seq(Steps)
  BY DEF TypeInv, Goes, Suited
<1>3. IsRest(todo[c], steps, todo'[c]) BY <1>2 DEF IsRest
<1>4. n > 1
  <2>1. n # 1 BY <1>1, <1>2, NowIs
  <2> QED BY <1>1, <1>2, <2>1
<1>5. \E m \in DOMAIN todo'[c] : todo'[c][m] = todo[c][n] BY <1>1, <1>3, <1>4, RestHas
<1> QED BY <1>1, <1>5

\* ... keeps the invariant.
LEMMA MoverCascades ==
  ASSUME Base, NEW c \in Clients, Cascading(c), CascadeInv(c), Acting(c)
  PROVE  CascadeInv(c)'
<1>1. /\ call[c].id \in Ids
      /\ \A n \in DOMAIN todo[c] : Suits(c, todo[c][n])
      /\ \/ \E n \in DOMAIN todo[c] : todo[c][n].do = call[c].op
         \/ Reached(c, db.rows, todo[c]) /\ Aside(c)
  BY DEF CascadeInv, Cascading
<1>0. TypeInv BY DEF Base
<1>2. CASE Stops(c) BY <1>2 DEF Stops, CascadeInv
<1>3. ASSUME NEW steps, Marches(c, steps) PROVE CascadeInv(c)'
  <2>1. PICK miss : Goes(c, steps, miss) BY <1>3 DEF Marches
  <2>2. steps \in Suited(c) /\ model' = model /\ tx' = tx /\ meanwhile'[c] = meanwhile[c] /\ Now(c).do # call[c].op
        /\ (tx \notin {None, c} => UNCHANGED <<db, saved>>)
    BY <1>3 DEF Marches
  <2>3. \A n \in DOMAIN todo'[c] : Suits(c, todo'[c][n]) BY <1>0, <1>1, <2>1, <2>2, RestSuits
  <2>4. call'[c].op = call[c].op /\ call'[c].id = call[c].id BY <2>1 DEF Goes
  <2>5. CASE \E n \in DOMAIN todo[c] : todo[c][n].do = call[c].op
    <3>1. \E m \in DOMAIN todo'[c] : todo'[c][m].do = call[c].op BY <1>0, <2>1, <2>2, <2>5, Remains
    <3> QED BY <1>1, <2>2, <2>3, <2>4, <3>1, CascadePrimed
  <2>6. CASE Reached(c, db.rows, todo[c]) /\ Aside(c)
    <3>1. Reached(c, db'.rows, todo'[c]) BY <1>0, <1>1, <1>3, <2>6, MarchesReach
    <3>2. Aside(c)' BY <2>2, <2>6 DEF Aside
    <3> QED BY <1>1, <2>2, <2>3, <2>4, <3>1, <3>2, CascadePrimed
  <2> QED BY <1>1, <2>5, <2>6
<1>4. ASSUME NEW steps, Opens(c, steps) PROVE CascadeInv(c)'
  <2>1. PICK miss : Goes(c, steps, miss) BY <1>4 DEF Opens
  <2>2. steps \in Suited(c) /\ model' = model /\ tx' = tx /\ tx \in {None, c} /\ meanwhile'[c] = meanwhile[c]
    BY <1>4 DEF Opens
  <2>3. \A n \in DOMAIN todo'[c] : Suits(c, todo'[c][n]) BY <1>0, <1>1, <2>1, <2>2, RestSuits
  <2>4. call'[c].op = call[c].op /\ call'[c].id = call[c].id BY <2>1 DEF Goes
  <2>5. Reached(c, db'.rows, todo'[c]) BY <1>0, <1>1, <1>4, OpensReach
  <2>6. Aside(c)' BY <2>2 DEF Aside
  <2> QED BY <1>1, <2>2, <2>3, <2>4, <2>5, <2>6, CascadePrimed
<1> QED BY <1>1, <1>2, <1>3, <1>4, ActingCascades

\* A call starts with the steps of its operation ahead.
LEMMA StartCascades ==
  ASSUME Base, NEW c \in Clients, CallSet(c) \/ CommitUnit(c)
  PROVE  CascadeInv(c)'
<1>0. call \in [Clients -> Ended] /\ todo \in [Clients -> Seq(Steps)] /\ held[c] \in Loaded \cup {None} BY DEF Base, TypeInv
<1>1. ASSUME NEW op, NEW i, NEW steps, Start(c, op, i, steps)
      PROVE  call'[c].op = op /\ call'[c].id = i /\ todo'[c] = steps /\ model' = model
  BY <1>0, <1>1 DEF Start
<1>2. CASE CommitUnit(c)
  <2>1. call'[c].op = "unit" BY <1>1, <1>2 DEF CommitUnit
  <2> QED BY <2>1 DEF CascadeInv
<1>3. CASE CallSet(c)
  <2>1. PICK x \in Calls(c) : Start(c, x[1], x[2], x[3]) BY <1>3 DEF CallSet
  <2>2. call'[c].op = x[1] /\ call'[c].id = x[2] /\ todo'[c] = x[3] /\ model' = model BY <1>1, <2>1
  <2>3. x[2] \in Ids BY <1>0, CallsOpen
  <2> SUFFICES ASSUME x[1] \in {"remove", "restore"} PROVE CascadeInv(c)' BY <2>2 DEF CascadeInv
  <2>4. PICK i \in Ids : \/ \E e \in Entities(c, i) : x = <<"remove", i, Removing(i, e)>>
                         \/ x = <<"restore", i, <<Step("restore", i)>> >>
    <3>1. PICK i \in Ids :
            \/ x = <<"addRange", i, AddingRange(Children(i) \cup {i})>>
            \/ x = <<"upsertRange", i, UpsertingRange(Children(i) \cup {i})>>
            \/ \E t \in {{}, Children(i)} : x = <<"add", i, Adding(i, t)>>
            \/ \E e \in Entities(c, i) :
                 \/ x = <<"update", i, Updating(i, "write", e)>>
                 \/ x = <<"upsert", i, <<Step("find", i), With("upsert", i, e)>> >>
                 \/ x = <<"remove", i, Removing(i, e)>>
                 \/ x = <<"hardRemove", i, <<With("hardRemove", i, e)>> >>
            \/ x = <<"nativeUpsert", i, <<Step("native", i)>> >>
            \/ x = <<"restore", i, <<Step("restore", i)>> >>
            \/ \E do \in {"removeWhere", "restoreWhere", "hardRemoveWhere", "bulkDelete"}, k \in HasMany[KindOf[i]] :
                 x = <<"where", i, <<With(do, i, k)>> >>
            \/ \E do \in {"bulkInsert", "bulkUpdate", "bulkUpsert"} :
                 x = <<do, i, InTransaction(Each(do, Children(i)))>>
      BY CallsAre
    <3>2. \A s : /\ x # <<"addRange", i, s>> /\ x # <<"upsertRange", i, s>> /\ x # <<"add", i, s>>
                 /\ x # <<"update", i, s>> /\ x # <<"upsert", i, s>> /\ x # <<"hardRemove", i, s>>
                 /\ x # <<"nativeUpsert", i, s>> /\ x # <<"where", i, s>>
                 /\ \A do \in {"bulkInsert", "bulkUpdate", "bulkUpsert"} : x # <<do, i, s>>
      OBVIOUS
    <3> QED BY <3>1, <3>2, Zenon
  <2>5. CASE \E e \in Entities(c, i) : x = <<"remove", i, Removing(i, e)>>
    <3>1. PICK e \in Entities(c, i) : x = <<"remove", i, Removing(i, e)>> BY <2>5
    <3> DEFINE d == Step("find", i)
               y == With("remove", i, e)
               s == <<d, y>>
    <3>2. d.do = "find" /\ y.do = "remove" /\ y.id = i BY DEF Step, With
    <3>3. x[1] = "remove" /\ x[2] = i /\ x[3] = s BY <3>1 DEF Removing
    <3> HIDE DEF d, y
    <3>4. DOMAIN s = {1, 2} /\ s[1] = d /\ s[2] = y OBVIOUS
    <3> HIDE DEF s
    <3>5. call'[c].op = "remove" /\ call'[c].id = i /\ todo'[c] = s BY <2>2, <3>3
    <3>6. Suits(c, d)' /\ Suits(c, y)' BY <3>2, <3>5 DEF Suits, Ways, Gone
    <3>7. \A n \in DOMAIN todo'[c] : Suits(c, todo[c][n])' BY <3>4, <3>5, <3>6 DEF Suits, Ways, Gone, Soft
    <3>8. \E n \in DOMAIN todo'[c] : todo'[c][n].do = call'[c].op BY <3>2, <3>4, <3>5
    <3> QED BY <3>5, <3>7, <3>8 DEF CascadeInv
  <2>6. CASE x = <<"restore", i, <<Step("restore", i)>> >>
    <3> DEFINE d == Step("restore", i)
               s == <<d>>
    <3>2. d.do = "restore" /\ d.id = i BY DEF Step
    <3>3. x[1] = "restore" /\ x[2] = i /\ x[3] = s BY <2>6
    <3> HIDE DEF d
    <3>4. DOMAIN s = {1} /\ s[1] = d OBVIOUS
    <3> HIDE DEF s
    <3>5. call'[c].op = "restore" /\ call'[c].id = i /\ todo'[c] = s BY <2>2, <3>3
    <3>6. Suits(c, d)' BY <3>2, <3>5 DEF Suits, Ways, Gone
    <3>7. \A n \in DOMAIN todo'[c] : Suits(c, todo[c][n])' BY <3>4, <3>5, <3>6 DEF Suits, Ways, Gone, Soft
    <3>8. \E n \in DOMAIN todo'[c] : todo'[c][n].do = call'[c].op BY <3>2, <3>4, <3>5
    <3> QED BY <3>5, <3>7, <3>8 DEF CascadeInv
  <2> QED BY <2>4, <2>5, <2>6
<1> QED BY <1>2, <1>3

LEMMA ActingRuns ==
  ASSUME NEW c, Acting(c)
  PROVE  todo[c] # <<>> \/ CallSet(c) \/ CommitUnit(c)
<1>1. CASE Run(c)
  <2>1. CASE Fault(c) BY <2>1 DEF Fault
  <2>2. CASE Aborted(c) BY <2>2 DEF Aborted
  <2>3. CASE \E do : At(c, do) BY <2>3 DEF At
  <2>4. Statement(c) => Aborted(c) \/ \E do : At(c, do)
    BY DEF Statement, Find, Reload, Add, Write, Upsert, Native, HardRemove, RemoveRow, RemoveWhere, ListRemoved, Restore,
           RestoreWhere, ListRestored, BulkDelete, BulkInsert, BulkUpdate, BulkUpsert, Audit, Begin, Commit
  <2> QED BY <1>1, <2>1, <2>2, <2>3, <2>4 DEF Run
<1>2. CASE Emit(c) \/ Tell(c) \/ Clear(c) BY <1>2 DEF Emit, Tell, Clear
<1> QED BY <1>1, <1>2 DEF Acting

\* A call of another operation is no cascade.
LEMMA OtherCalls ==
  ASSUME Base, NEW c \in Clients, Acting(c), todo[c] # <<>>, ~Cascading(c)
  PROVE  CascadeInv(c)'
<1>1. Moves(c) BY ActingMoves DEF Base, CallsInv
<1>2. call'[c].op = call[c].op
  <2>1. ASSUME NEW steps, NEW miss, Goes(c, steps, miss) PROVE call'[c].op = call[c].op BY <2>1 DEF Goes
  <2>2. CASE Throws(c) BY <2>2 DEF Throws
  <2>3. ASSUME NEW steps, NEW miss, NEW mine, Advances(c, steps, miss, mine) PROVE call'[c].op = call[c].op
    BY <2>1, <2>3 DEF Advances
  <2>4. CASE RollsBack(c) \/ Begins(c) \/ Commits(c) BY <2>1, <2>4 DEF RollsBack, Begins, Commits, Serves
  <2>5. CASE Tells(c) BY <2>1, <2>5 DEF Tells
  <2>6. CASE Clears(c) BY <2>1, <2>6 DEF Clears
  <2>7. ASSUME NEW steps, Emits(c, steps) PROVE call'[c].op = call[c].op BY <2>1, <2>7 DEF Emits
  <2>8. ~ \E op, A, steps : Starts(c, op, A, steps) BY DEF Starts
  <2> QED BY <1>1, <2>2, <2>3, <2>4, <2>5, <2>6, <2>7, <2>8 DEF Moves, Went
<1>3. call[c].op \notin {"remove", "restore"} BY DEF Cascading
<1> QED BY <1>2, <1>3 DEF CascadeInv

\* A row's place in a cascade does not change where no one else wrote.
LEMMA ReachedSame ==
  ASSUME NEW c, call[c].id \in Ids, todo'[c] = todo[c], call'[c] = call[c], model' = model,
         meanwhile[c] \subseteq meanwhile'[c],
         \A j \in Ids : j \in meanwhile'[c] \/ db'.rows[j] = db.rows[j],
         Reached(c, db.rows, todo[c])
  PROVE  Reached(c, db.rows, todo[c])'
<1>1. Under(call[c].id)' = Under(call[c].id) BY DEF Under, Below, SoftChildren, Soft, Cascades
<1>2. Sweep(c)' = Sweep(c) /\ Listing(c)' = Listing(c) /\ Gone(c)' = Gone(c) BY DEF Sweep, Listing, Gone
<1>3. ASSUME NEW d \in Under(call[c].id), db'.rows[d] # None, d \notin meanwhile'[c], NEW o, o = OwnerOf[d]
      PROVE  ReachedAt(c, db.rows, todo[c], d, o, call[c].id)'
  <2>1. d \in Ids /\ o \in Ids BY <1>3, UnderIs
  <2>2. db'.rows[d] = db.rows[d] /\ d \notin meanwhile[c] BY <1>3, <2>1
  <2>3. ReachedAt(c, db.rows, todo[c], d, o, call[c].id) BY <1>3, <2>2 DEF Reached
  <2>4. o \in meanwhile'[c] \/ db'.rows[o] = db.rows[o] BY <2>1
  <2>5. \A do, i, k : Has(todo'[c], do, i, k) = Has(todo[c], do, i, k) OBVIOUS
  <2> QED BY <1>2, <2>2, <2>3, <2>4 DEF ReachedAt, Swept, SameTenant, Has
<1> QED BY <1>1, <1>3 DEF Reached

LEMMA CascadeSame ==
  ASSUME NEW c, todo'[c] = todo[c], call'[c] = call[c], model' = model, meanwhile[c] \subseteq meanwhile'[c],
         Aside(c) => Aside(c)' /\ \A j \in Ids : j \in meanwhile'[c] \/ db'.rows[j] = db.rows[j],
         CascadeInv(c)
  PROVE  CascadeInv(c)'
<1> SUFFICES ASSUME call[c].op \in {"remove", "restore"}, todo[c] # <<>> PROVE CascadeInv(c)' BY DEF CascadeInv
<1>1. /\ call[c].id \in Ids
      /\ \A n \in DOMAIN todo[c] : Suits(c, todo[c][n])
      /\ \/ \E n \in DOMAIN todo[c] : todo[c][n].do = call[c].op
         \/ Reached(c, db.rows, todo[c]) /\ Aside(c)
  BY DEF CascadeInv
<1>2. \A n \in DOMAIN todo'[c] : Suits(c, todo[c][n])' BY <1>1 DEF Suits, Ways, Gone, Soft
<1>3. ASSUME Reached(c, db.rows, todo[c]), Aside(c) PROVE Reached(c, db.rows, todo[c])' BY <1>1, <1>3, ReachedSame
<1> QED BY <1>1, <1>2, <1>3 DEF CascadeInv

\* Whoever else moves, what it changes counts as written meanwhile.
LEMMA OthersCascade ==
  ASSUME Base, NEW d \in Clients, NEW c \in Clients, c # d, Moves(d), CascadeInv(c)
  PROVE  CascadeInv(c)'
<1>1. todo'[c] = todo[c] /\ call'[c] = call[c] BY OthersSpared DEF Spares
<1>2. model' = model BY MovesLeave DEF Leaves, Base
<1>3. c # None /\ d # None BY NoneAssumption
<1>4. ASSUME meanwhile'[c] = meanwhile[c], UNCHANGED <<db, saved>>, tx' \in {tx, None} PROVE CascadeInv(c)'
  BY <1>1, <1>2, <1>4, CascadeSame DEF Aside
<1>5. ASSUME meanwhile'[c] = meanwhile[c], db' = saved, tx = d, tx' = None PROVE CascadeInv(c)'
  <2>1. Aside(c)' BY <1>5 DEF Aside
  <2>2. ASSUME Aside(c) PROVE \A j \in Ids : j \in meanwhile'[c] \/ db'.rows[j] = db.rows[j]
    <3>1. tx \notin {None, c} BY <1>3, <1>5
    <3>2. \A j \in Ids : j \in meanwhile[c] \/ saved.rows[j] = db.rows[j] BY <2>2, <3>1 DEF Aside
    <3> QED BY <1>5, <3>2
  <2> QED BY <1>1, <1>2, <1>5, <2>1, <2>2, CascadeSame
<1>6. ASSUME NEW mine, Stores(d, mine) PROVE CascadeInv(c)'
  <2>1. tx' = tx /\ saved' = saved /\ meanwhile'[c] = meanwhile[c] \cup {j \in Ids : db'.rows[j] # db.rows[j]}
    BY <1>6 DEF Stores
  <2>2. \A j \in Ids : j \in meanwhile'[c] \/ db'.rows[j] = db.rows[j] BY <2>1
  <2>3. ASSUME Aside(c) PROVE Aside(c)'
    <3>1. ASSUME tx' \notin {None, c}, NEW j \in Ids PROVE j \in meanwhile'[c] \/ saved'.rows[j] = db'.rows[j]
      <4>1. j \in meanwhile[c] \/ saved.rows[j] = db.rows[j] BY <2>1, <2>3, <3>1 DEF Aside
      <4> QED BY <2>1, <2>2, <4>1
    <3> QED BY <3>1 DEF Aside
  <2> QED BY <1>1, <1>2, <2>1, <2>2, <2>3, CascadeSame
<1>7. CASE Throws(d)
  <2>1. meanwhile'[c] = meanwhile[c] BY <1>7 DEF Throws
  <2>2. CASE tx = d
    <3>1. db' = saved /\ tx' = None BY <1>7, <2>2 DEF Throws
    <3> QED BY <1>5, <2>1, <2>2, <3>1
  <2>3. CASE tx # d
    <3>1. UNCHANGED <<db, saved, tx>> BY <1>7, <2>3 DEF Throws, Database
    <3> QED BY <1>4, <2>1, <3>1
  <2> QED BY <2>2, <2>3
<1>8. ASSUME NEW steps, NEW miss, NEW mine, Advances(d, steps, miss, mine) PROVE CascadeInv(c)'
  BY <1>6, <1>8 DEF Advances
<1>9. CASE RollsBack(d)
  <2>1. meanwhile'[c] = meanwhile[c] /\ db' = saved /\ tx = d /\ tx' = None BY <1>9 DEF RollsBack, Serves
  <2> QED BY <1>5, <2>1
<1>10. CASE Begins(d)
  <2>1. meanwhile'[c] = meanwhile[c] /\ db' = db /\ saved' = db BY <1>10 DEF Begins, Serves
  <2>2. Aside(c)' /\ \A j \in Ids : j \in meanwhile'[c] \/ db'.rows[j] = db.rows[j] BY <2>1 DEF Aside
  <2> QED BY <1>1, <1>2, <2>1, <2>2, CascadeSame
<1>11. CASE Commits(d)
  <2>1. meanwhile'[c] = meanwhile[c] /\ UNCHANGED <<db, saved>> /\ tx' = None BY <1>11 DEF Commits, Serves
  <2> QED BY <1>4, <2>1
<1>12. CASE Tells(d) BY <1>4, <1>12 DEF Tells, Asleep
<1>13. CASE Clears(d) BY <1>4, <1>13 DEF Clears, Clear
<1>14. ASSUME NEW steps, Emits(d, steps) PROVE CascadeInv(c)' BY <1>4, <1>14 DEF Emits, Asleep
<1>15. ASSUME NEW op, NEW A, NEW steps, Starts(d, op, A, steps) PROVE CascadeInv(c)' BY <1>4, <1>15 DEF Starts
<1> QED BY <1>7, <1>8, <1>9, <1>10, <1>11, <1>12, <1>13, <1>14, <1>15 DEF Moves, Went

LEMMA CascadesKept ==
  ASSUME IInv, CascadesInv, [Next]_uvars
  PROVE  CascadesInv'
<1>0. Base BY DEF IInv
<1>1. (\E d \in Clients : Acting(d)) \/ Rests BY <1>0, NextActs DEF Base
<1>2. ASSUME NEW d \in Clients, Acting(d), NEW c \in Clients PROVE CascadeInv(c)'
  <2>1. Moves(d) BY <1>0, <1>2, ActingMoves DEF Base, CallsInv
  <2>2. CASE c # d BY <1>0, <2>1, <2>2, OthersCascade DEF CascadesInv
  <2>3. CASE c = d
    <3>1. CASE CallSet(c) \/ CommitUnit(c) BY <1>0, <3>1, StartCascades
    <3>2. CASE Cascading(c) BY <1>0, <1>2, <2>3, <3>2, MoverCascades DEF CascadesInv
    <3>3. CASE todo[c] # <<>> /\ ~Cascading(c) BY <1>0, <1>2, <2>3, <3>3, OtherCalls
    <3>4. todo[c] # <<>> \/ CallSet(c) \/ CommitUnit(c)
      BY <1>2, <2>3, ActingRuns
    <3> QED BY <3>1, <3>2, <3>3, <3>4
  <2> QED BY <2>2, <2>3
<1>3. ASSUME Rests, NEW c \in Clients PROVE CascadeInv(c)'
  <2>1. UNCHANGED <<model, db, saved, tx, todo, call, meanwhile>> BY <1>3 DEF Rests, Still, uvars, vars
  <2>2. todo'[c] = todo[c] /\ call'[c] = call[c] /\ meanwhile'[c] = meanwhile[c] BY <2>1
  <2>3. Aside(c) => Aside(c)' /\ \A j \in Ids : j \in meanwhile'[c] \/ db'.rows[j] = db.rows[j] BY <2>1 DEF Aside
  <2> QED BY <2>1, <2>2, <2>3, CascadeSame DEF CascadesInv
<1> QED BY <1>1, <1>2, <1>3 DEF CascadesInv

\* When a cascade resolves nothing is left of it, and every row it reached is swept.
LEMMA LastMarches ==
  ASSUME TypeInv, NEW c \in Clients, call[c].id \in Ids, NEW steps, Marches(c, steps), todo'[c] = <<>>,
         Reached(c, db.rows, todo[c]),
         NEW d \in Under(call[c].id), NEW o, o = OwnerOf[d], db.rows[d] # None, {d, o} \cap meanwhile[c] = {},
         o # call[c].id => Matches(c, o)
  PROVE  db'.rows[d] # None /\ Swept(c, db'.rows, d)
<1>1. d \in Ids /\ o \in Ids BY UnderIs
<1>2. ASSUME NEW j \in Ids
      PROVE  /\ db'.rows[j] = None <=> db.rows[j] = None
             /\ db.rows[j] # None => db'.rows[j].tenant = db.rows[j].tenant
  BY DEF Marches
<1>3. Reached(c, db'.rows, <<>>) BY MarchesReach
<1>4. ~Has(<<>>, Sweep(c), o, KindOf[d]) /\ \A do, i, k : ~Has(<<>>, do, i, k) BY DEF Has
<1>5. ReachedAt(c, db'.rows, <<>>, d, o, call[c].id) BY <1>1, <1>2, <1>3 DEF Reached
<1>6. CASE o = call[c].id BY <1>1, <1>2, <1>4, <1>5, <1>6 DEF ReachedAt
<1>7. CASE o # call[c].id
  <2>1. db.rows[o] # None /\ SameTenant(c, db.rows[o]) BY <1>7 DEF Matches
  <2>2. db'.rows[o] # None /\ SameTenant(c, db'.rows[o]) BY <1>1, <1>2, <2>1 DEF SameTenant
  <2> QED BY <1>1, <1>2, <1>4, <1>5, <1>7, <2>2 DEF ReachedAt
<1> QED BY <1>6, <1>7

LEMMA ResolvesWhole ==
  ASSUME Base, NEW c \in Clients, Cascading(c), CascadeInv(c), Acting(c), Resolves(c),
         NEW d \in Under(call[c].id), NEW o, o = OwnerOf[d], db.rows[d] # None, {d, o} \cap meanwhile[c] = {},
         o # call[c].id => Matches(c, o)
  PROVE  db'.rows[d] # None /\ Swept(c, db'.rows, d)
<1>0. TypeInv BY DEF Base
<1>1. /\ call[c].id \in Ids
      /\ \A n \in DOMAIN todo[c] : Suits(c, todo[c][n])
      /\ \/ \E n \in DOMAIN todo[c] : todo[c][n].do = call[c].op
         \/ Reached(c, db.rows, todo[c]) /\ Aside(c)
  BY DEF CascadeInv, Cascading
<1>2. ~Stops(c) BY DEF Stops, Resolves
<1>3. ASSUME NEW steps, NEW miss, Goes(c, steps, miss) PROVE todo'[c] = <<>> BY <1>3 DEF Goes, Resolves
<1>4. ASSUME NEW steps, Marches(c, steps) PROVE db'.rows[d] # None /\ Swept(c, db'.rows, d)
  <2>1. PICK miss : Goes(c, steps, miss) BY <1>4 DEF Marches
  <2>2. todo'[c] = <<>> BY <1>3, <2>1
  <2>3. steps \in Suited(c) /\ Now(c).do # call[c].op BY <1>4 DEF Marches
  <2>4. ~ \E n \in DOMAIN todo[c] : todo[c][n].do = call[c].op
    <3> SUFFICES ASSUME \E n \in DOMAIN todo[c] : todo[c][n].do = call[c].op PROVE FALSE OBVIOUS
    <3>1. \E m \in DOMAIN todo'[c] : todo'[c][m].do = call[c].op BY <1>0, <2>1, <2>3, Remains
    <3> QED BY <2>2, <3>1
  <2> QED BY <1>0, <1>1, <1>4, <2>2, <2>4, LastMarches
<1>5. ASSUME NEW steps, Opens(c, steps) PROVE FALSE
  <2>1. steps \in Suited(c) /\ \A e \in Below({call[c].id}) : Has(steps, Sweep(c), call[c].id, KindOf[e]) BY <1>5 DEF Opens
  <2>2. PICK miss : Goes(c, steps, miss) BY <1>5 DEF Opens
  <2>3. \E e : e \in Below({call[c].id}) BY <1>1, UnderIs
  <2>4. \E do, i, k : Has(todo'[c], do, i, k) BY <1>0, <2>1, <2>2, <2>3, RestKeeps DEF Suited
  <2> QED BY <1>3, <2>2, <2>4 DEF Has
<1> QED BY <1>1, <1>2, <1>4, <1>5, ActingCascades

LEMMA CascadesAre ==
  ASSUME IInv, CascadesInv, [Next]_uvars, NEW c \in Clients, Resolves(c), call[c].op \in {"remove", "restore"},
         NEW d \in Under(call[c].id), NEW o, o = OwnerOf[d], db.rows[d] # None, {d, o} \cap meanwhile[c] = {},
         o # call[c].id => Matches(c, o)
  PROVE  db'.rows[d] # None /\ Swept(c, db'.rows, d)
<1>0. Base /\ call' # call /\ call'[c] # call[c] /\ call'[c].end = "resolved" BY DEF IInv, Resolves
<1>1. ~Rests BY <1>0 DEF Rests, Still, uvars, vars
<1>2. PICK e \in Clients : Acting(e) BY <1>0, <1>1, NextActs DEF Base
<1>3. Moves(e) BY <1>0, <1>2, ActingMoves DEF Base, CallsInv
<1>4. e = c BY <1>0, <1>3, OthersSpared DEF Spares
<1>5. ~CallSet(c) /\ ~CommitUnit(c)
  <2>1. call \in [Clients -> Ended] BY <1>0 DEF Base, TypeInv
  <2>2. ASSUME NEW op, NEW i, NEW steps, Start(c, op, i, steps) PROVE FALSE
    <3>1. call'[c].end = "running" BY <2>1, <2>2 DEF Start
    <3> QED BY <1>0, <3>1
  <2> QED BY <2>2 DEF CallSet, CommitUnit
<1>6. Cascading(c) BY <1>2, <1>4, <1>5, ActingRuns DEF Cascading
<1> QED BY <1>0, <1>2, <1>4, <1>6, ResolvesWhole DEF CascadesInv

LEMMA CascadesBegin == ASSUME UnitInit PROVE CascadesInv
<1>1. \A c \in Clients : todo[c] = <<>> BY DEF UnitInit, Init
<1> QED BY <1>1 DEF CascadesInv, CascadeInv

\* A remove() or restore() that resolves has left no row under the one it was given as
\* it was, whatever ran between its statements, but for those excepted.
THEOREM CascadesAreWhole == Spec => CascadeIsWhole
<1> DEFINE A == \A c \in Clients : Resolves(c) /\ call[c].op \in {"remove", "restore"} =>
                  \A d \in Under(call[c].id) :
                    LET o == OwnerOf[d] IN
                    db.rows[d] # None /\ {d, o} \cap meanwhile[c] = {} /\ (o # call[c].id => Matches(c, o)) =>
                      /\ call[c].op = "remove" => db'.rows[d] = None \/ db'.rows[d].deleted
                      /\ call[c].op = "restore" => ~db'.rows[d].deleted
<1>1. UnitInit => CascadesInv BY CascadesBegin
<1>2. IInv /\ CascadesInv /\ [Next]_uvars => CascadesInv' BY CascadesKept
<1>3. IInv /\ CascadesInv /\ [Next]_uvars => A
  <2> SUFFICES ASSUME IInv, CascadesInv, [Next]_uvars, NEW c \in Clients, Resolves(c), call[c].op \in {"remove", "restore"},
                      NEW d \in Under(call[c].id), NEW o, o = OwnerOf[d], db.rows[d] # None, {d, o} \cap meanwhile[c] = {},
                      o # call[c].id => Matches(c, o)
               PROVE  /\ call[c].op = "remove" => db'.rows[d] = None \/ db'.rows[d].deleted
                      /\ call[c].op = "restore" => ~db'.rows[d].deleted
    BY DEF A
  <2>1. db'.rows[d] # None /\ Swept(c, db'.rows, d) BY CascadesAre
  <2> QED BY <2>1 DEF Swept, Gone
<1>4. CascadeIsWhole <=> [][A]_vars BY DEF CascadeIsWhole
<1>5. [][Next]_uvars /\ []IInv /\ []CascadesInv => [][A]_vars
  <2>1. IInv /\ CascadesInv /\ [Next]_uvars => [A]_vars BY <1>3
  <2> HIDE DEF A
  <2> QED BY <2>1, PTL
<1> HIDE DEF A
<1> QED BY <1>1, <1>2, <1>4, <1>5, Invariance, PTL DEF Spec
====
