------------------------------ MODULE Induction ------------------------------
(***************************************************************************)
(* Induction over the natural numbers and definitions by recursion, stated *)
(* about sets and functions.                                               *)
(***************************************************************************)
EXTENDS Integers, SequencesExt, FiniteSetTheorems, TLAPS

(* A set that holds 0 and the successor of each of its numbers holds all.   *)
(* A number m outside of it would make the set of its numbers below m       *)
(* finite, and the successor maps that set into itself without 0.           *)
LEMMA SetInduction ==
    ASSUME NEW S \in SUBSET Nat, 0 \in S, \A n \in S : n + 1 \in S
    PROVE  S = Nat
<1> SUFFICES ASSUME NEW m \in Nat, m \notin S
             PROVE  FALSE
  OBVIOUS
<1> DEFINE Q == {n \in S : n <= m}
           R == Q \ {0}
           next == [n \in Q |-> n + 1]
<1>1. IsFiniteSet(Q)
  BY FS_BoundedSetOfNaturals, Q \in SUBSET Nat
<1>2. IsFiniteSet(R) /\ Cardinality(R) = Cardinality(Q) - 1 /\ Cardinality(Q) \in Nat
  <2>1. 0 \in Q
    OBVIOUS
  <2> HIDE DEF Q
  <2> QED
    BY <1>1, <2>1, FS_RemoveElement, FS_CardinalityType
<1>3. next \in Injection(Q, R)
  <2>1. \A n \in Q : n + 1 \in R
    <3> SUFFICES ASSUME NEW n \in Q
                 PROVE  n + 1 \in R
      OBVIOUS
    <3>1. n \in Nat /\ n \in S /\ n <= m /\ n # m
      OBVIOUS
    <3>2. n + 1 \in S /\ n + 1 <= m /\ n + 1 # 0
      BY <3>1
    <3> QED
      BY <3>2
  <2>2. \A n, k \in Q : next[n] = next[k] => n = k
    OBVIOUS
  <2>3. next \in [Q -> R]
    BY <2>1
  <2> HIDE DEF next, Q, R
  <2> QED
    BY <2>2, <2>3 DEF Injection, IsInjective
<1> HIDE DEF Q, R, next
<1>4. Cardinality(Q) <= Cardinality(R)
  BY <1>2, <1>3, FS_Injection
<1> QED
  BY <1>2, <1>4

(* The same up to a bound. *)
Inductive(S, N) == 0 \in S /\ \A n \in 0 .. N - 1 : n \in S => n + 1 \in S

LEMMA InductionTo ==
    ASSUME NEW N \in Nat, NEW S, Inductive(S, N)
    PROVE  \A n \in 0 .. N : n \in S
<1> USE DEF Inductive
<1> DEFINE T == {n \in Nat : n <= N => n \in S}
<1>1. 0 \in T
  OBVIOUS
<1>2. ASSUME NEW n \in T
      PROVE  n + 1 \in T
  <2>1. n \in Nat /\ (n <= N => n \in S)
    OBVIOUS
  <2>2. CASE n + 1 <= N
    <3>1. n \in 0 .. N - 1 /\ n \in S
      BY <2>1, <2>2
    <3> QED
      BY <2>1, <3>1
  <2>3. CASE ~(n + 1 <= N)
    BY <2>1, <2>3
  <2> QED
    BY <2>2, <2>3
<1>3. T = Nat
  <2> HIDE DEF T
  <2>1. T \in SUBSET Nat
    BY DEF T
  <2> QED
    BY <1>1, <1>2, <2>1, SetInduction
<1> QED
  BY <1>3

(* A set of numbers that is not empty has a least. *)
LEMMA LeastNumber ==
    ASSUME NEW S \in SUBSET Nat, S # {}
    PROVE  \E x \in S : \A y \in S : x <= y
<1> SUFFICES ASSUME \A x \in S : \E y \in S : y < x
             PROVE  FALSE
  OBVIOUS
<1> DEFINE T == {n \in Nat : \A y \in S : n < y}
<1>1. 0 \in T
  <2> SUFFICES ASSUME NEW y \in S
               PROVE  0 < y
    OBVIOUS
  <2>1. PICK z \in S : z < y
    OBVIOUS
  <2> QED
    BY <2>1
<1>2. ASSUME NEW n \in T
      PROVE  n + 1 \in T
  <2> SUFFICES ASSUME NEW y \in S
               PROVE  n + 1 < y
    OBVIOUS
  <2>1. PICK z \in S : z < y
    OBVIOUS
  <2>2. n \in Nat /\ n < z
    OBVIOUS
  <2> QED
    BY <2>1, <2>2
<1>3. T = Nat
  <2> HIDE DEF T
  <2>1. T \in SUBSET Nat
    BY DEF T
  <2> QED
    BY <1>1, <1>2, <2>1, SetInduction
<1>4. PICK x \in S : TRUE
  OBVIOUS
<1>5. x \in T
  BY <1>3, <1>4
<1> QED
  BY <1>4, <1>5

Steps(N, X) == [(1 .. N) \X X -> X]
IsRecursion(f, N, b, F) == f[0] = b /\ \A i \in 1 .. N : f[i] = F[<<i, f[i - 1]>>]

(* A function that is defined by recursion on the numbers up to N exists: F *)
(* gives each value from the one before it. *)
LEMMA RecursionTo ==
    ASSUME NEW N \in Nat, NEW X, NEW b \in X, NEW F \in Steps(N, X)
    PROVE  \E f \in [0 .. N -> X] : IsRecursion(f, N, b, F)
<1> USE DEF Steps, IsRecursion
<1> DEFINE IsTo(f, n) == f[0] = b /\ \A i \in 1 .. n : f[i] = F[<<i, f[i - 1]>>]
           S == {n \in Nat : n <= N => \E f \in [0 .. n -> X] : IsTo(f, n)}
<1>1. 0 \in S
  <2>1. [i \in 0 .. 0 |-> b] \in [0 .. 0 -> X] /\ IsTo([i \in 0 .. 0 |-> b], 0)
    OBVIOUS
  <2> QED
    BY <2>1
<1>2. ASSUME NEW n \in S
      PROVE  n + 1 \in S
  <2> SUFFICES ASSUME n + 1 <= N
               PROVE  \E f \in [0 .. n + 1 -> X] : IsTo(f, n + 1)
    OBVIOUS
  <2>1. n \in Nat /\ n <= N
    OBVIOUS
  <2>2. PICK f \in [0 .. n -> X] : IsTo(f, n)
    BY <2>1
  <2> DEFINE g == [i \in 0 .. n + 1 |-> IF i = n + 1 THEN F[<<n + 1, f[n]>>] ELSE f[i]]
  <2>3. F[<<n + 1, f[n]>>] \in X
    <3>1. n + 1 \in 1 .. N /\ f[n] \in X
      BY <2>1
    <3> QED
      BY <3>1
  <2>4. g \in [0 .. n + 1 -> X]
    BY <2>1, <2>3
  <2>5. g[0] = b
    BY <2>1, <2>2
  <2>6. ASSUME NEW i \in 1 .. n + 1
        PROVE  g[i] = F[<<i, g[i - 1]>>]
    <3>1. CASE i = n + 1
      <4>1. g[i - 1] = f[n] /\ g[i] = F[<<n + 1, f[n]>>]
        BY <2>1, <3>1
      <4> QED
        BY <3>1, <4>1
    <3>2. CASE i # n + 1
      <4>1. i \in 1 .. n /\ g[i - 1] = f[i - 1] /\ g[i] = f[i]
        BY <2>1, <3>2
      <4> QED
        BY <2>2, <4>1
    <3> QED
      BY <3>1, <3>2
  <2> HIDE DEF g
  <2> QED
    BY <2>4, <2>5, <2>6
<1>3. S = Nat
  <2> HIDE DEF S
  <2>1. S \in SUBSET Nat
    BY DEF S
  <2> QED
    BY <1>1, <1>2, <2>1, SetInduction
<1>4. PICK f \in [0 .. N -> X] : IsTo(f, N)
  <2>1. N \in S
    BY <1>3
  <2>2. N <= N => \E f \in [0 .. N -> X] : IsTo(f, N)
    BY ONLY <2>1
  <2> QED
    BY <2>2
<1> QED
  BY <1>4

(* Recursion from the other end: the value of i depends on that of a greater *)
(* number, where(i).  *)
Onward(N) == {where \in [1 .. N -> 2 .. N + 1] : \A i \in 1 .. N : i < where[i]}
IsOnward(f, N, where, b, F) == f[N + 1] = b /\ \A i \in 1 .. N : f[i] = F[<<i, f[where[i]]>>]

LEMMA OnwardExists ==
    ASSUME NEW N \in Nat, NEW where \in Onward(N), NEW X, NEW b \in X, NEW F \in Steps(N, X)
    PROVE  \E f \in [1 .. N + 1 -> X] : IsOnward(f, N, where, b, F)
<1> DEFINE S == {m \in 0 .. N : \E f \in [1 .. N + 1 -> X] :
                     f[N + 1] = b /\ \A i \in N + 1 - m .. N : f[i] = F[<<i, f[where[i]]>>]}
<1>0. \A i \in 1 .. N : where[i] \in 2 .. N + 1 /\ i < where[i] /\ where[i] \in 1 .. N + 1
  BY DEF Onward
<1>1. 0 \in S
  <2> DEFINE f == [i \in 1 .. N + 1 |-> b]
  <2>1. f \in [1 .. N + 1 -> X] /\ f[N + 1] = b
    OBVIOUS
  <2>2. N + 1 - 0 .. N = {} /\ 0 \in 0 .. N
    OBVIOUS
  <2> HIDE DEF f
  <2> QED
    BY <2>1, <2>2
<1>2. ASSUME NEW m \in 0 .. N - 1, m \in S
      PROVE  m + 1 \in S
  <2>1. PICK f \in [1 .. N + 1 -> X] : f[N + 1] = b /\ \A i \in N + 1 - m .. N : f[i] = F[<<i, f[where[i]]>>]
    BY <1>2
  <2>2. PICK a \in 1 .. N : a = N - m
    BY <1>2
  <2>3. a \in 1 .. N + 1 /\ a # N + 1 /\ N + 1 - m = a + 1 /\ N + 1 - (m + 1) = a /\ m + 1 \in 0 .. N
    BY <2>2
  <2> DEFINE g == [f EXCEPT ![a] = F[<<a, f[where[a]]>>]]
  <2>4. F[<<a, f[where[a]]>>] \in X
    <3>1. f[where[a]] \in X
      BY <1>0, <2>1
    <3> QED
      BY <3>1 DEF Steps
  <2>5. g \in [1 .. N + 1 -> X] /\ g[N + 1] = b /\ g[a] = F[<<a, f[where[a]]>>]
        /\ \A i \in 1 .. N + 1 : i # a => g[i] = f[i]
    BY <2>1, <2>3, <2>4
  <2> HIDE DEF g
  <2>6. ASSUME NEW i \in a .. N
        PROVE  g[i] = F[<<i, g[where[i]]>>]
    <3>1. i \in 1 .. N /\ i \in 1 .. N + 1 /\ where[i] \in 1 .. N + 1 /\ where[i] # a
      BY <1>0, <2>2
    <3>2. g[where[i]] = f[where[i]]
      BY <2>5, <3>1
    <3>3. CASE i = a
      BY <2>5, <3>2, <3>3
    <3>4. CASE i # a
      <4>1. i \in N + 1 - m .. N
        BY <2>2, <3>4
      <4> QED
        BY <2>1, <2>5, <3>1, <3>2, <3>4, <4>1
    <3> QED
      BY <3>3, <3>4
  <2> QED
    BY <2>3, <2>5, <2>6
<1>3. N \in S
  <2>1. N \in 0 .. N
    OBVIOUS
  <2> HIDE DEF S
  <2> QED
    BY <1>1, <1>2, <2>1, InductionTo DEF Inductive
<1>4. N + 1 - N = 1
  OBVIOUS
<1> QED
  BY <1>3, <1>4 DEF IsOnward

(* There is one such function only. *)
LEMMA OnwardSame ==
    ASSUME NEW N \in Nat, NEW where \in Onward(N), NEW f, NEW g,
           f[N + 1] = g[N + 1], \A i \in 1 .. N : f[where[i]] = g[where[i]] => f[i] = g[i]
    PROVE  \A i \in 1 .. N + 1 : f[i] = g[i]
<1> DEFINE S == {m \in 0 .. N : \A i \in N + 1 - m .. N + 1 : f[i] = g[i]}
<1>0. \A i \in 1 .. N : where[i] \in 2 .. N + 1 /\ i < where[i]
  BY DEF Onward
<1>1. 0 \in S
  <2>1. ASSUME NEW i \in N + 1 - 0 .. N + 1
        PROVE  f[i] = g[i]
    <3>1. i = N + 1
      OBVIOUS
    <3> QED
      BY <3>1
  <2> QED
    BY <2>1
<1>2. ASSUME NEW m \in 0 .. N - 1, m \in S
      PROVE  m + 1 \in S
  <2>1. \A i \in N + 1 - m .. N + 1 : f[i] = g[i]
    BY <1>2
  <2>2. ASSUME NEW i \in N + 1 - (m + 1) .. N + 1
        PROVE  f[i] = g[i]
    <3>1. CASE i = N - m
      <4>1. i \in 1 .. N
        BY <3>1
      <4>2. where[i] \in N + 1 - m .. N + 1
        BY <1>0, <3>1, <4>1
      <4>3. f[where[i]] = g[where[i]]
        BY <2>1, <4>2
      <4> QED
        BY <4>1, <4>3
    <3>2. CASE i # N - m
      <4>1. i \in N + 1 - m .. N + 1
        BY <3>2
      <4> QED
        BY <2>1, <4>1
    <3> QED
      BY <3>1, <3>2
  <2>3. m + 1 \in 0 .. N
    OBVIOUS
  <2> QED
    BY <2>2, <2>3
<1>3. N \in S
  <2>1. N \in 0 .. N
    OBVIOUS
  <2> HIDE DEF S
  <2> QED
    BY <1>1, <1>2, <2>1, InductionTo DEF Inductive
<1>4. N + 1 - N = 1
  OBVIOUS
<1> QED
  BY <1>3, <1>4
(* Recursion on a measure: G gives a function from a function, and each of *)
(* its values depends on values of a smaller measure only.                 *)
DependsBelow(G, T, D, measure) ==
    \A f, g \in T : \A x \in D :
        (\A y \in D : measure[y] < measure[x] => f[y] = g[y]) => G[f][x] = G[g][x]

Measured(G, T, D, X, measure, N) ==
    /\ T # {} /\ T \in SUBSET [D -> X] /\ G \in [T -> T]
    /\ measure \in [D -> 0 .. N] /\ DependsBelow(G, T, D, measure)

LEMMA RecursionBelow ==
    ASSUME NEW N \in Nat, NEW D, NEW measure, NEW X, NEW T, NEW G, Measured(G, T, D, X, measure, N)
    PROVE  \E f \in T : G[f] = f
<1> USE DEF Measured
<1> DEFINE S == {n \in 0 .. N + 1 : \E f \in T : \A x \in D : measure[x] < n => G[f][x] = f[x]}
<1>0. \A x \in D : measure[x] \in 0 .. N
  OBVIOUS
<1>1. 0 \in S
  <2>1. PICK f \in T : TRUE
    OBVIOUS
  <2>2. \A x \in D : ~(measure[x] < 0)
    BY <1>0
  <2> QED
    BY <2>1, <2>2
<1>2. ASSUME NEW n \in 0 .. (N + 1) - 1, n \in S
      PROVE  n + 1 \in S
  <2>1. PICK f \in T : \A x \in D : measure[x] < n => G[f][x] = f[x]
    BY <1>2
  <2>2. PICK g \in T : g = G[f]
    OBVIOUS
  <2>3. ASSUME NEW x \in D, measure[x] < n + 1
        PROVE  G[g][x] = g[x]
    <3>1. ASSUME NEW y \in D, measure[y] < measure[x]
          PROVE  g[y] = f[y]
      <4>1. measure[y] < n
        BY <1>0, <2>3, <3>1
      <4> QED
        BY <2>1, <2>2, <4>1
    <3>2. G[g][x] = G[f][x]
      BY <3>1 DEF DependsBelow
    <3> QED
      BY <2>2, <3>2
  <2>4. n + 1 \in 0 .. N + 1
    OBVIOUS
  <2> QED
    BY <2>3, <2>4
<1>3. N + 1 \in S
  <2>1. N + 1 \in 0 .. N + 1 /\ N + 1 \in Nat
    OBVIOUS
  <2> HIDE DEF S
  <2> QED
    BY <1>1, <1>2, <2>1, InductionTo DEF Inductive
<1>4. PICK f \in T : \A x \in D : measure[x] < N + 1 => G[f][x] = f[x]
  BY <1>3
<1>5. \A x \in D : G[f][x] = f[x]
  BY <1>0, <1>4
<1>6. f \in [D -> X] /\ G[f] \in [D -> X]
  OBVIOUS
<1>7. G[f] = f
  BY <1>5, <1>6
<1> QED
  BY <1>7

-----------------------------------------------------------------------------
(* Sequences joined together.                                               *)

\* The recursion that FlattenSeq is defined by.
Flattens(f, ss) == f[1] = ss[1] /\ \A i \in 2 .. Len(ss) : f[i] = f[i - 1] \o ss[i]

LEMMA FlattenIs ==
    ASSUME NEW X, NEW ss \in Seq(Seq(X)), Len(ss) > 0
    PROVE  \E f : Flattens(f, ss) /\ FlattenSeq(ss) = f[Len(ss)]
<1> DEFINE n == Len(ss)
           F == [p \in (1 .. n) \X Seq(X) |-> p[2] \o ss[p[1]]]
           IsFlat(f) == f = [i \in 1 .. n |-> IF i = 1 THEN ss[i] ELSE f[i - 1] \o ss[i]]
<1>1. n \in Nat /\ n > 0 /\ \A i \in 1 .. n : ss[i] \in Seq(X)
  OBVIOUS
<1>2. F \in Steps(n, Seq(X))
  <2>1. \A p \in (1 .. n) \X Seq(X) : p[2] \o ss[p[1]] \in Seq(X)
    <3> TAKE p \in (1 .. n) \X Seq(X)
    <3>1. p[1] \in 1 .. n /\ p[2] \in Seq(X)
      OBVIOUS
    <3>2. ss[p[1]] \in Seq(X)
      BY <1>1, <3>1
    <3> QED
      BY <3>1, <3>2
  <2> HIDE DEF n
  <2> QED
    BY <2>1 DEF Steps
<1>3. \A i \in 1 .. n, s \in Seq(X) : F[<<i, s>>] = s \o ss[i]
  OBVIOUS
<1> HIDE DEF n, F
<1>4. PICK g \in [0 .. n -> Seq(X)] : IsRecursion(g, n, <<>>, F)
  BY <1>1, <1>2, RecursionTo, <<>> \in Seq(X)
<1>5. g[0] = <<>> /\ \A i \in 1 .. n : g[i] = g[i - 1] \o ss[i] /\ g[i - 1] \in Seq(X)
  <2>1. \A i \in 1 .. n : g[i - 1] \in Seq(X) /\ i - 1 \in 0 .. n
    BY <1>1
  <2> QED
    BY <1>3, <1>4, <2>1 DEF IsRecursion
<1> DEFINE f == [i \in 1 .. n |-> g[i]]
<1>6. IsFlat(f)
  <2>1. ASSUME NEW i \in 1 .. n
        PROVE  f[i] = IF i = 1 THEN ss[i] ELSE f[i - 1] \o ss[i]
    <3>1. CASE i = 1
      <4>1. g[1] = <<>> \o ss[1] /\ 1 \in 1 .. n
        <5>1. 1 \in 1 .. n /\ 1 - 1 = 0
          BY <1>1
        <5>2. g[1] = g[1 - 1] \o ss[1]
          BY <1>5, <5>1
        <5> QED
          BY <1>5, <5>1, <5>2
      <4>2. <<>> \o ss[1] = ss[1]
        BY <1>1, <4>1
      <4> QED
        BY <3>1, <4>1, <4>2
    <3>2. CASE i # 1
      <4>1. i - 1 \in 1 .. n
        BY <1>1, <3>2
      <4> QED
        BY <1>5, <3>2, <4>1
    <3> QED
      BY <3>1, <3>2
  <2> QED
    BY <2>1
<1> HIDE DEF f
<1>7. FlattenSeq(ss) = (CHOOSE h : IsFlat(h))[n]
  BY <1>1 DEF FlattenSeq, n
<1> DEFINE h == CHOOSE k : IsFlat(k)
<1>8. IsFlat(h)
  <2> HIDE DEF IsFlat
  <2> QED
    BY <1>6
<1>9. FlattenSeq(ss) = h[n]
  BY <1>7
<1> HIDE DEF h
<1>10. Flattens(h, ss)
  <2>1. 1 \in 1 .. n /\ \A i \in 2 .. n : i \in 1 .. n /\ i # 1
    BY <1>1
  <2>2. \A i \in 1 .. n : h[i] = IF i = 1 THEN ss[i] ELSE h[i - 1] \o ss[i]
    BY <1>8
  <2> QED
    BY <2>1, <2>2 DEF Flattens, n
<1> QED
  BY <1>9, <1>10 DEF n

\* The last of the sequences comes last.
LEMMA FlattenStep ==
    ASSUME NEW X, NEW ss \in Seq(Seq(X)), NEW tt \in Seq(Seq(X)), Len(tt) = Len(ss) + 1,
           \A i \in 1 .. Len(ss) : tt[i] = ss[i]
    PROVE  FlattenSeq(tt) = FlattenSeq(ss) \o tt[Len(tt)]
<1> DEFINE n == Len(ss)
<1>1. n \in Nat /\ Len(tt) = n + 1
  OBVIOUS
<1>2. PICK f : Flattens(f, tt) /\ FlattenSeq(tt) = f[n + 1]
  <2>0. Len(tt) > 0
    BY <1>1
  <2>1. \E f : Flattens(f, tt) /\ FlattenSeq(tt) = f[Len(tt)]
    BY <2>0, FlattenIs
  <2> QED
    BY <1>1, <2>1
<1>3. CASE n = 0
  <2>1. FlattenSeq(ss) = <<>>
    BY <1>3 DEF FlattenSeq
  <2>2. f[n + 1] = tt[1] /\ Len(tt) = 1
    BY <1>1, <1>2, <1>3 DEF Flattens
  <2>3. tt[1] \in Seq(X)
    BY <2>2
  <2>4. <<>> \o tt[1] = tt[1]
    BY <2>3
  <2> QED
    BY <1>2, <2>1, <2>2, <2>4
<1>4. CASE n > 0
  <2>1. PICK g : Flattens(g, ss) /\ FlattenSeq(ss) = g[n]
    BY <1>4, FlattenIs
  <2> DEFINE S == {i \in 0 .. n : i > 0 => f[i] = g[i]}
  <2>2. Inductive(S, n)
    <3>1. 0 \in S
      BY <1>1
    <3>2. ASSUME NEW i \in 0 .. n - 1, i \in S
          PROVE  i + 1 \in S
      <4>1. i + 1 \in 0 .. n /\ i + 1 \in 1 .. n /\ (i + 1) - 1 = i /\ (i > 0 => f[i] = g[i])
        BY <1>1, <3>2, SMTT(30)
      <4>2. f[i + 1] = g[i + 1]
        <5>1. CASE i = 0
          BY <1>1, <1>2, <1>4, <2>1, <5>1 DEF Flattens
        <5>2. CASE i > 0
          <6>1. i + 1 \in 2 .. Len(ss) /\ i + 1 \in 2 .. Len(tt)
            BY <1>1, <4>1, <5>2
          <6> QED
            BY <1>2, <2>1, <4>1, <5>2, <6>1 DEF Flattens
        <5> QED
          BY <5>1, <5>2
      <4> QED
        BY <4>1, <4>2
    <3> HIDE DEF S, n
    <3> QED
      BY <3>1, <3>2 DEF Inductive
  <2>3. n \in S
    <3> HIDE DEF S, n
    <3> QED
      BY <1>1, <2>2, InductionTo
  <2>4. f[n] = g[n]
    BY <1>4, <2>3
  <2>5. f[n + 1] = f[n] \o tt[n + 1]
    <3>1. n + 1 \in 2 .. Len(tt) /\ (n + 1) - 1 = n
      BY <1>1, <1>4
    <3> QED
      BY <1>2, <3>1 DEF Flattens
  <2> QED
    BY <1>1, <1>2, <2>1, <2>4, <2>5
<1> QED
  BY <1>1, <1>3, <1>4
=============================================================================
