---------------------------- MODULE LetterProofs ----------------------------
(***************************************************************************)
(* Theorems about the reader of phonemes that a language gives, for every  *)
(* language whose rules are plain and every word: what a rule's context    *)
(* and next_match return, what a word is rewritten to, and that each of    *)
(* its letters is pronounced.                                              *)
(***************************************************************************)
EXTENDS LetterToPhoneme, Induction

-----------------------------------------------------------------------------
(* One element of a pattern.                                                *)

PlainClasses(l) ==
    \A c \in DOMAIN l.classes : IsSequence(l.classes[c]) /\ \A s \in ToSet(l.classes[c]) : IsSequence(s)

(* How far an element goes: forward, and a letter over itself. *)
LEMMA ForwardIs ==
    ASSUME NEW l, PlainClasses(l), NEW S, NEW text \in Seq(S), NEW e, NEW p \in 1 .. Len(text) + 1
    PROVE  /\ Forward(l, text, e, p) \in {Mismatch} \cup (p .. Len(text) + 1)
           /\ Kind(e) = "letter" /\ Forward(l, text, e, p) # Mismatch =>
                  p <= Len(text) /\ text[p] = e /\ Forward(l, text, e, p) = p + 1
<1>0. Len(text) \in Nat /\ p \in Nat /\ p >= 1
  OBVIOUS
<1>1. CASE Kind(e) = "letter"
  <2>1. Forward(l, text, e, p) = IF StartsAt(text, p, <<e>>) THEN p + 1 ELSE Mismatch
    BY <1>1 DEF Forward
  <2>2. CASE StartsAt(text, p, <<e>>)
    <3>1. p + 1 <= Len(text) + 1 /\ SubSeq(text, p, p + 1 - 1) = <<e>>
      BY <2>2 DEF StartsAt
    <3>2. p <= Len(text) /\ p + 1 - 1 = p
      BY <1>0, <3>1
    <3>3. SubSeq(text, p, p)[1] = text[p]
      BY <1>0, <3>2
    <3>4. text[p] = e
      <4>1. SubSeq(text, p, p) = <<e>>
        BY <3>1, <3>2
      <4> QED
        BY <3>3, <4>1
    <3> QED
      BY <1>0, <2>1, <2>2, <3>2, <3>4
  <2>3. CASE ~StartsAt(text, p, <<e>>)
    BY <2>1, <2>3
  <2> QED
    BY <2>2, <2>3
<1>2. CASE Kind(e) = "class" /\ e \in DOMAIN l.classes
  <2> DEFINE class == l.classes[e]
             I == {i \in 1 .. Len(class) : StartsAt(text, p, class[i])}
             i == SelectInSeq(class, LAMBDA s : StartsAt(text, p, s))
  <2>1. Forward(l, text, e, p) = match_classdef(class, text, p)
    BY <1>2 DEF Forward
  <2>2. class \in Seq(ToSet(class)) /\ \A s \in ToSet(class) : s \in Seq(ToSet(s))
    BY <1>2 DEF PlainClasses, IsSequence
  <2>3. match_classdef(class, text, p) = IF i = 0 THEN Mismatch ELSE p + Len(class[i])
    BY DEF match_classdef
  <2>4. i = IF I # {} THEN Min(I) ELSE 0
    BY DEF SelectInSeq
  <2>5. I # {} => Min(I) \in I
    <3>1. I \in SUBSET Nat
      BY <2>2
    <3> HIDE DEF I
    <3> QED
      BY <3>1, LeastNumber DEF Min
  <2> HIDE DEF i
  <2>6. CASE i = 0
    BY <1>2, <2>1, <2>3, <2>6
  <2>7. CASE i # 0
    <3>1. i \in 1 .. Len(class) /\ StartsAt(text, p, class[i])
      BY <2>4, <2>5, <2>7
    <3>2. class[i] \in ToSet(class)
      BY <2>2, <3>1 DEF ToSet
    <3>3. Len(class[i]) \in Nat
      BY <2>2, <3>2
    <3>4. p + Len(class[i]) <= Len(text) + 1
      BY <3>1 DEF StartsAt
    <3>5. p + Len(class[i]) \in p .. Len(text) + 1
      BY <1>0, <3>3, <3>4
    <3> QED
      BY <1>2, <2>1, <2>3, <2>7, <3>5
  <2> QED
    BY <2>6, <2>7
<1>3. CASE Kind(e) # "letter" /\ ~(Kind(e) = "class" /\ e \in DOMAIN l.classes)
  BY <1>3 DEF Forward
<1> QED
  BY <1>1, <1>2, <1>3

-----------------------------------------------------------------------------
(* The context of a rule.                                                   *)

Onto(m, q) == IF ~m.ok THEN m ELSE IF q = Mismatch THEN [m EXCEPT !.ok = FALSE] ELSE [m EXCEPT !.at = q]
IsWalk(f, l, text, s, p) ==
    f = [i \in 0 .. Len(s) |-> IF i = 0 THEN [at |-> p, ok |-> TRUE] ELSE Onto(f[i - 1], Forward(l, text, s[i], f[i - 1].at))]

(* Matching the context of a rule is such a walk over it. *)
LEMMA ContextIs ==
    ASSUME NEW l, NEW text, NEW rule, NEW p, \E f : IsWalk(f, l, text, rule.context, p)
    PROVE  \E f : IsWalk(f, l, text, rule.context, p) /\ Context(l, text, rule, p) = f[Len(rule.context)]
<1> DEFINE s == rule.context
           Op(m, e) == IF ~m.ok THEN m
                       ELSE With(Forward(l, text, e, m.at), LAMBDA q : IF q = Mismatch THEN [m EXCEPT !.ok = FALSE] ELSE [m EXCEPT !.at = q])
           Is(f, t) == f = [i \in 0 .. Len(t) |-> IF i = 0 THEN [at |-> p, ok |-> TRUE] ELSE With(f[i - 1], LAMBDA v : Op(v, t[i]))]
           Walked(t) == (CHOOSE f : Is(f, t))[Len(t)]
<1>1. \A v, e : With(v, LAMBDA w : Op(w, e)) = Onto(v, Forward(l, text, e, v.at))
  BY DEF With, Onto
<1>2. \A f : Is(f, s) <=> IsWalk(f, l, text, s, p)
  BY <1>1, ZenonT(60) DEF IsWalk
<1>3. Context(l, text, rule, p) = With(s, LAMBDA t : Walked(t))
  BY DEF Context, Along, Each
<1> HIDE DEF Is
<1>4. With(s, LAMBDA t : Walked(t)) = Walked(s)
  <2> HIDE DEF Walked
  <2> QED
    BY DEF With
<1> HIDE DEF s
<1> QED
  BY <1>2, <1>3, <1>4 DEF s

Letters(s) == \A i \in 1 .. Len(s) : Kind(s[i]) = "letter"
Places(text, p) == [at : p .. Len(text) + 1, ok : BOOLEAN]

(* A walk stays in the text and does not go back. *)
LEMMA WalkExists ==
    ASSUME NEW l, PlainClasses(l), NEW X, NEW text \in Seq(X), NEW p \in 1 .. Len(text) + 1,
           NEW E, NEW s \in Seq(E)
    PROVE  \E f \in [0 .. Len(s) -> Places(text, p)] : IsWalk(f, l, text, s, p)
<1> DEFINE N == Len(s)
           P == Places(text, p)
           F == [y \in (1 .. N) \X P |-> Onto(y[2], Forward(l, text, s[y[1]], y[2].at))]
           start == [at |-> p, ok |-> TRUE]
<1>0. N \in Nat /\ Len(text) \in Nat /\ start \in P
  BY DEF Places
<1>1. ASSUME NEW m \in P, NEW e
      PROVE  Onto(m, Forward(l, text, e, m.at)) \in P
  <2>1. m.at \in p .. Len(text) + 1 /\ m.ok \in BOOLEAN /\ m = [at |-> m.at, ok |-> m.ok]
    BY DEF Places
  <2>2. m.at \in 1 .. Len(text) + 1
    BY <1>0, <2>1
  <2>3. PICK q : q = Forward(l, text, e, m.at)
    OBVIOUS
  <2>4. q = Mismatch \/ q \in m.at .. Len(text) + 1
    BY <2>2, <2>3, ForwardIs
  <2>5. q = Mismatch \/ q \in p .. Len(text) + 1
    BY <1>0, <2>1, <2>4
  <2>6. Onto(m, q) \in P
    BY <2>1, <2>5 DEF Onto, Places
  <2> QED
    BY <2>3, <2>6
<1>2. F \in Steps(N, P)
  <2>1. \A y \in (1 .. N) \X P : Onto(y[2], Forward(l, text, s[y[1]], y[2].at)) \in P
    BY <1>1
  <2> HIDE DEF P, N
  <2> QED
    BY <2>1 DEF Steps
<1>3. \A i \in 1 .. N, m \in P : F[<<i, m>>] = Onto(m, Forward(l, text, s[i], m.at))
  OBVIOUS
<1> HIDE DEF F, P, N, start
<1>4. PICK f \in [0 .. N -> P] : IsRecursion(f, N, start, F)
  BY <1>0, <1>2, RecursionTo
<1>5. \A i \in 1 .. N : f[i - 1] \in P /\ f[i] = Onto(f[i - 1], Forward(l, text, s[i], f[i - 1].at))
  <2>1. \A i \in 1 .. N : i - 1 \in 0 .. N
    BY <1>0
  <2> QED
    BY <1>3, <1>4, <2>1 DEF IsRecursion
<1>6. \A i \in 0 .. N : i = 0 \/ i \in 1 .. N
  BY <1>0
<1>7. f[0] = start
  BY <1>4 DEF IsRecursion
<1>8. IsWalk(f, l, text, s, p)
  BY <1>4, <1>5, <1>6, <1>7 DEF IsWalk, N, start
<1> QED
  BY <1>4, <1>8 DEF N, P

(* Where the context of a rule ends; one of letters is the text up to there. *)
LEMMA ContextFacts ==
    ASSUME NEW l, PlainClasses(l), NEW X, NEW text \in Seq(X), NEW p \in 1 .. Len(text) + 1,
           NEW rule, IsSequence(rule.context)
    PROVE  LET c == Context(l, text, rule, p)
               s == rule.context
           IN  /\ c \in Places(text, p)
               /\ c.ok /\ s # <<>> /\ Kind(Head(s)) = "letter" => c.at \in p + 1 .. Len(text) + 1
               /\ c.ok /\ Letters(s) => c.at = p + Len(s) /\ s = SubSeq(text, p, c.at - 1)
<1> DEFINE s == rule.context
           N == Len(s)
<1>0. N \in Nat /\ Len(text) \in Nat /\ p \in Nat /\ s \in Seq(ToSet(s)) /\ p >= 1
  BY DEF IsSequence
<1>1. \E g \in [0 .. Len(s) -> Places(text, p)] : IsWalk(g, l, text, s, p)
  BY <1>0, WalkExists
<1>2. PICK f : IsWalk(f, l, text, s, p) /\ Context(l, text, rule, p) = f[N]
  BY <1>1, ContextIs
<1> HIDE DEF s, N
<1> DEFINE Walk(n) ==
             /\ f[n] \in Places(text, p)
             /\ f[n].ok /\ n > 0 /\ Kind(s[1]) = "letter" => f[n].at >= p + 1
             /\ f[n].ok /\ Letters(s) => f[n].at = p + n /\ \A i \in 1 .. n : text[p + i - 1] = s[i]
           T == {n \in 0 .. N : Walk(n)}
<1>3. f[0] = [at |-> p, ok |-> TRUE] /\ \A i \in 1 .. N : f[i] = Onto(f[i - 1], Forward(l, text, s[i], f[i - 1].at))
  <2>1. N = Len(s)
    BY DEF N
  <2>2. 0 \in 0 .. N /\ \A i \in 1 .. N : i \in 0 .. N /\ i # 0
    BY <1>0
  <2>3. f = [i \in 0 .. N |-> IF i = 0 THEN [at |-> p, ok |-> TRUE] ELSE Onto(f[i - 1], Forward(l, text, s[i], f[i - 1].at))]
    BY <1>2, <2>1 DEF IsWalk
  <2> QED
    BY <2>2, <2>3
<1>4. 0 \in T
  <2>1. f[0] \in Places(text, p) /\ f[0].ok /\ f[0].at = p
    BY <1>0, <1>3 DEF Places
  <2>2. Walk(0)
    BY <1>0, <2>1
  <2> QED
    BY <1>0, <2>2
<1>5. ASSUME NEW n \in 0 .. N - 1, n \in T
      PROVE  n + 1 \in T
  <2>0. n \in Nat /\ n + 1 \in 1 .. N /\ n + 1 \in 0 .. N /\ (n + 1) - 1 = n
    BY <1>0
  <2>1. Walk(n)
    BY <1>5
  <2>2. PICK m : m = f[n]
    OBVIOUS
  <2>3. m \in Places(text, p)
    BY <2>1, <2>2
  <2>4. m.at \in p .. Len(text) + 1 /\ m.ok \in BOOLEAN /\ m = [at |-> m.at, ok |-> m.ok]
    BY <2>3 DEF Places
  <2>5. PICK q : q = Forward(l, text, s[n + 1], m.at)
    OBVIOUS
  <2>6. m.at \in 1 .. Len(text) + 1 /\ m.at \in Nat
    BY <1>0, <2>4
  <2>7. /\ q \in {Mismatch} \cup (m.at .. Len(text) + 1)
        /\ Kind(s[n + 1]) = "letter" /\ q # Mismatch => m.at <= Len(text) /\ text[m.at] = s[n + 1] /\ q = m.at + 1
    BY <2>5, <2>6, ForwardIs
  <2>8. f[n + 1] = Onto(m, q)
    BY <1>3, <2>0, <2>2, <2>5
  <2>9. CASE ~m.ok \/ q = Mismatch
    <3>1. f[n + 1] = [at |-> m.at, ok |-> FALSE]
      BY <2>4, <2>8, <2>9 DEF Onto
    <3>2. f[n + 1] \in Places(text, p) /\ ~f[n + 1].ok
      BY <2>4, <3>1 DEF Places
    <3>3. Walk(n + 1)
      BY <3>2
    <3> QED
      BY <2>0, <3>3
  <2>10. CASE m.ok /\ q # Mismatch
    <3>1. f[n + 1] = [at |-> q, ok |-> TRUE] /\ q \in m.at .. Len(text) + 1
      BY <2>4, <2>7, <2>8, <2>10 DEF Onto
    <3>2. q \in Nat /\ q >= m.at /\ q \in p .. Len(text) + 1
      BY <1>0, <2>4, <2>6, <3>1
    <3>3. f[n + 1] \in Places(text, p) /\ f[n + 1].ok /\ f[n + 1].at = q
      BY <3>1, <3>2 DEF Places
    <3>4. ASSUME Kind(s[1]) = "letter"
          PROVE  q >= p + 1
      <4>1. CASE n = 0
        <5>1. q = m.at + 1
          BY <2>7, <2>10, <3>4, <4>1
        <5> QED
          BY <1>0, <2>4, <2>6, <5>1
      <4>2. CASE n > 0
        BY <1>0, <2>1, <2>2, <2>6, <2>10, <3>2, <3>4, <4>2
      <4> QED
        BY <2>0, <4>1, <4>2
    <3>5. ASSUME Letters(s)
          PROVE  q = p + (n + 1) /\ \A i \in 1 .. n + 1 : text[p + i - 1] = s[i]
      <4>1. m.at = p + n /\ \A i \in 1 .. n : text[p + i - 1] = s[i]
        BY <2>1, <2>2, <2>10, <3>5
      <4>2. Kind(s[n + 1]) = "letter"
        BY <2>0, <3>5 DEF Letters, N
      <4>3. q = m.at + 1 /\ text[m.at] = s[n + 1]
        BY <2>7, <2>10, <4>2
      <4>4. q = p + (n + 1) /\ p + (n + 1) - 1 = m.at
        BY <1>0, <2>0, <4>1, <4>3
      <4>5. \A i \in 1 .. n + 1 : i \in 1 .. n \/ i = n + 1
        BY <2>0
      <4> QED
        BY <4>1, <4>3, <4>4, <4>5
    <3>6. Walk(n + 1)
      BY <3>3, <3>4, <3>5
    <3> QED
      BY <2>0, <3>6
  <2> QED
    BY <2>4, <2>9, <2>10
<1>6. Walk(N)
  <2>1. N \in T
    <3>1. N \in 0 .. N
      BY <1>0
    <3> HIDE DEF T
    <3> QED
      BY <1>0, <1>4, <1>5, <3>1, InductionTo DEF Inductive
  <2> QED
    BY <2>1
<1>7. f[N].ok /\ s # <<>> /\ Kind(Head(s)) = "letter" => f[N].at \in p + 1 .. Len(text) + 1
  <2> SUFFICES ASSUME f[N].ok, s # <<>>, Kind(Head(s)) = "letter"
               PROVE  f[N].at \in p + 1 .. Len(text) + 1
    OBVIOUS
  <2>1. Head(s) = s[1] /\ N > 0
    BY <1>0 DEF N
  <2>2. f[N].at \in p .. Len(text) + 1
    BY <1>6 DEF Places
  <2> QED
    BY <1>0, <1>6, <2>1, <2>2
<1>8. f[N].ok /\ Letters(s) => f[N].at = p + N /\ s = SubSeq(text, p, f[N].at - 1)
  <2> SUFFICES ASSUME f[N].ok, Letters(s)
               PROVE  f[N].at = p + N /\ s = SubSeq(text, p, f[N].at - 1)
    OBVIOUS
  <2>1. f[N].at = p + N /\ \A i \in 1 .. N : text[p + i - 1] = s[i]
    BY <1>6
  <2>2. p + N \in p .. Len(text) + 1
    BY <1>6, <2>1 DEF Places
  <2>3. (p + N) - 1 <= Len(text) /\ (p + N) - 1 \in Nat /\ ((p + N) - 1) - p + 1 = N
    BY <1>0, <2>2
  <2>4. PICK t : t = SubSeq(text, p, (p + N) - 1)
    OBVIOUS
  <2>5. t \in Seq(X) /\ Len(t) = N /\ \A i \in 1 .. N : t[i] = text[p + i - 1]
    BY <1>0, <2>3, <2>4
  <2>6. t = s
    <3>1. Len(s) = N
      BY DEF N
    <3>2. \A i \in 1 .. N : t[i] = s[i]
      BY <2>1, <2>5
    <3> QED
      BY <1>0, <2>5, <3>1, <3>2
  <2>7. f[N].at = p + N
    BY <2>1
  <2> QED
    BY <2>4, <2>6, <2>7
<1> QED
  BY <1>2, <1>6, <1>7, <1>8 DEF s, N

-----------------------------------------------------------------------------
(* What the rules give.                                                     *)

Results(text) ==
    [kind : {"match", "end", "throw", "loops", "failed"}, next : 0 .. Len(text) + 1,
     phonemes : Seq(Phonemes), ahead : Seq(Phonemes)]

(* What next_match may return at position p. *)
Answered(text, r, p, ignore) ==
    /\ r \in Results(text) /\ r.kind # "failed"
    /\ r.kind = "match" => r.next \in p + 1 .. Len(text) + 1 /\ (ignore => r.phonemes # <<>>)

Arguments(text) == (1 .. Len(text) + 1) \X Phonemes \X BOOLEAN

(* Every answer from a position on is one that next_match may give there. *)
Answering(text, seek, first) ==
    \A p \in 1 .. Len(text) + 1, prev \in Phonemes, ignore \in BOOLEAN :
        p >= first => Answered(text, seek[<<p, prev, ignore>>], p, ignore)

(* The answers without phonemes are of the type of answers. *)
LEMMA ResultIs ==
    ASSUME NEW text, NEW X, text \in Seq(X), NEW kind \in {"match", "end", "throw", "loops", "failed"}
    PROVE  /\ Result(kind) \in Results(text) /\ Result(kind).kind = kind
           /\ \A n \in 0 .. Len(text) + 1 : /\ Failed(n) \in Results(text) /\ Failed(n).kind = "failed"
                                            /\ Failed(n).next = n
<1>1. 0 \in 0 .. Len(text) + 1 /\ <<>> \in Seq(Phonemes)
  OBVIOUS
<1>2. Result(kind) \in Results(text) /\ Result(kind).kind = kind
  BY <1>1 DEF Result, Results
<1>3. \A n \in 0 .. Len(text) + 1 : /\ Failed(n) \in Results(text) /\ Failed(n).kind = "failed"
                                    /\ Failed(n).next = n
  BY <1>1 DEF Result, Results, Failed
<1> QED
  BY <1>2, <1>3

-----------------------------------------------------------------------------
(* The right context.                                                       *)

RightResults(text) == {r \in Results(text) : r.kind # "end"}
Elements(rule, text, first) == (1 .. Len(rule.right) + 1) \X (first .. Len(text) + 1)

(* One block of features follows another at most to the end of the pattern. *)
LEMMA BlocksAre ==
    ASSUME NEW E, NEW s \in Seq(E), NEW i \in 1 .. Len(s), Kind(s[i]) = "features"
    PROVE  FeatureBlocks(s, i) \in 1 .. (Len(s) + 1) - i
<1> DEFINE other == {j \in i .. Len(s) : Kind(s[j]) # "features"}
           n == IF other = {} THEN Len(s) + 1 ELSE CHOOSE j \in other : \A k \in other : j <= k
<1>0. Len(s) \in Nat /\ i \in Nat
  OBVIOUS
<1>1. FeatureBlocks(s, i) = n - i
  BY DEF FeatureBlocks
<1>2. n \in i + 1 .. Len(s) + 1
  <2>1. CASE other = {}
    BY <1>0, <2>1
  <2>2. CASE other # {}
    <3>1. other \in SUBSET Nat
      BY <1>0
    <3>2. \E j \in other : \A k \in other : j <= k
      <4> HIDE DEF other
      <4> QED
        BY <2>2, <3>1, LeastNumber
    <3>3. n \in other
      <4> HIDE DEF other
      <4> QED
        BY <2>2, <3>2
    <3>4. n \in i .. Len(s) /\ n # i
      BY <3>3
    <3> HIDE DEF n
    <3> QED
      BY <1>0, <3>4
  <2> QED
    BY <2>1, <2>2
<1> HIDE DEF n
<1> QED
  BY <1>0, <1>1, <1>2

(* An element of the right context gives a result of its own, or what the    *)
(* later ones give from where it ends.                                      *)
AheadLeads(text, rule, i, r, seen) ==
    \/ \E c \in RightResults(text) : \A go : Ahead(go, rule, i, seen) = c
    \/ \E j \in i + 1 .. Len(rule.right) + 1, q \in r .. Len(text) + 1, a \in Seq(Phonemes) : \A go :
           Ahead(go, rule, i, seen) = [go[<<j, q>>] EXCEPT !.ahead = a \o @]

RightLeads(seek, l, text, rule, previous, i, r) ==
    \/ \E c \in RightResults(text) : \A go : RightAt(go, seek, l, text, rule, previous, i, r) = c
    \/ \E j \in i + 1 .. Len(rule.right) + 1, q \in r .. Len(text) + 1 : \A go :
           RightAt(go, seek, l, text, rule, previous, i, r) = go[<<j, q>>]
    \/ \E j \in i + 1 .. Len(rule.right) + 1, q \in r .. Len(text) + 1, a \in Seq(Phonemes) : \A go :
           RightAt(go, seek, l, text, rule, previous, i, r) = [go[<<j, q>>] EXCEPT !.ahead = a \o @]

(* What is behind a look ahead comes from the element it leads to. *)
LEMMA AheadIs ==
    ASSUME NEW X, NEW text \in Seq(X), NEW rule, IsSequence(rule.right), NEW i \in 1 .. Len(rule.right),
           Kind(rule.right[i]) \in {"features", "phonemes"}, NEW r \in 1 .. Len(text) + 1,
           NEW seen, Answered(text, seen, r, TRUE)
    PROVE  AheadLeads(text, rule, i, r, seen)
<1> USE DEF AheadLeads
<1> DEFINE e == rule.right[i]
           blocks == FeatureBlocks(rule.right, i)
           used == IF Len(seen.phonemes) < blocks THEN Len(seen.phonemes) ELSE blocks
           Behind(go, j) == [go[<<j, seen.next>>] EXCEPT !.ahead = seen.phonemes \o @]
<1>0. Len(rule.right) \in Nat /\ Len(text) \in Nat /\ i \in Nat /\ r \in Nat
  BY DEF IsSequence
<1>1. seen \in Results(text) /\ seen.kind # "failed" /\ seen.kind \in {"match", "end", "throw", "loops"}
  BY DEF Answered, Results
<1>2. Result("failed") \in RightResults(text)
  BY ResultIs DEF RightResults
<1>3. CASE seen.kind = "end"
  <2>1. \A go : Ahead(go, rule, i, seen) = Result("failed")
    BY <1>3 DEF Ahead
  <2> QED
    BY <1>2, <2>1
<1>4. CASE seen.kind \in {"throw", "loops"}
  <2>1. \A go : Ahead(go, rule, i, seen) = seen
    BY <1>4 DEF Ahead
  <2>2. seen \in RightResults(text)
    BY <1>1, <1>4 DEF RightResults
  <2> QED
    BY <2>1, <2>2
<1>5. CASE seen.kind = "match"
  <2>1. seen.next \in r + 1 .. Len(text) + 1 /\ seen.phonemes # <<>> /\ seen.phonemes \in Seq(Phonemes)
    BY <1>1, <1>5 DEF Answered, Results
  <2>2. seen.next \in r .. Len(text) + 1 /\ Len(seen.phonemes) \in Nat /\ Len(seen.phonemes) >= 1
    BY <1>0, <2>1
  <2>3. \A go, j : With(go[<<j, seen.next>>], LAMBDA rest : [rest EXCEPT !.ahead = seen.phonemes \o @]) = Behind(go, j)
    BY DEF With
  <2>4. CASE Kind(e) = "phonemes"
    <3>1. \A go : Ahead(go, rule, i, seen) = IF seen.phonemes = PhonemesIn[e] THEN Behind(go, i + 1) ELSE Result("failed")
      <4> HIDE DEF Behind
      <4> QED
        BY <1>5, <2>3, <2>4 DEF Ahead
    <3>2. i + 1 \in i + 1 .. Len(rule.right) + 1
      BY <1>0
    <3> QED
      BY <1>2, <2>1, <2>2, <3>1, <3>2, ZenonT(60)
  <2>5. CASE Kind(e) = "features"
    <3>1. \A go : Ahead(go, rule, i, seen) =
                IF /\ \A k \in 1 .. used : HasFeatures(seen.phonemes[k], rule.right[i + k - 1])
                   /\ used < Len(seen.phonemes) => i + blocks > Len(rule.right)
                THEN Behind(go, i + used) ELSE Result("failed")
      <4> HIDE DEF Behind
      <4> QED
        BY <1>5, <2>3, <2>5 DEF Ahead
    <3>2. blocks \in 1 .. (Len(rule.right) + 1) - i
      BY <2>5, BlocksAre DEF IsSequence
    <3> HIDE DEF blocks
    <3>3. used \in 1 .. (Len(rule.right) + 1) - i
      BY <1>0, <2>2, <3>2
    <3> HIDE DEF used
    <3>4. i + used \in i + 1 .. Len(rule.right) + 1
      BY <1>0, <3>3
    <3> QED
      BY <1>2, <2>1, <2>2, <3>1, <3>4
  <2> QED
    BY <2>4, <2>5
<1> QED
  BY <1>1, <1>3, <1>4, <1>5

Said(rule, previous) == IF rule.value = <<>> THEN previous ELSE rule.value[1]

(* An element gives a result of its own, or what the later ones give from *)
(* where it ends. *)
LEMMA RightAtIs ==
    ASSUME NEW l, PlainClasses(l), NEW X, NEW text \in Seq(X),
           NEW rule, IsSequence(rule.right), rule.value \in Seq(Phonemes), NEW previous \in Phonemes,
           NEW i \in 1 .. Len(rule.right) + 1, NEW r \in 1 .. Len(text) + 1, NEW seek, Answering(text, seek, r)
    PROVE  RightLeads(seek, l, text, rule, previous, i, r)
<1> DEFINE e == rule.right[i]
           Moved(go, q) == IF q = Mismatch THEN Result("failed") ELSE go[<<i + 1, q>>]
<1>0. Len(rule.right) \in Nat /\ Len(text) \in Nat /\ i \in Nat /\ r \in Nat
  BY DEF IsSequence
<1>1. Result("failed") \in RightResults(text) /\ Result("match") \in RightResults(text)
  BY ResultIs DEF RightResults
<1>2. CASE i > Len(rule.right)
  BY <1>1, <1>2 DEF RightAt, RightLeads
<1>3. ASSUME i <= Len(rule.right), NEW q, q \in {Mismatch} \cup (r .. Len(text) + 1),
             \A go : RightAt(go, seek, l, text, rule, previous, i, r) = Moved(go, q)
      PROVE  RightLeads(seek, l, text, rule, previous, i, r)
  <2>1. i + 1 \in i + 1 .. Len(rule.right) + 1
    BY <1>0, <1>3
  <2> QED
    BY <1>1, <1>3, <2>1 DEF RightLeads
<1>4. CASE i <= Len(rule.right) /\ Kind(e) = "boundary"
  <2>1. PICK q : q = IF r > Len(text) THEN r ELSE IF text[r] = l.boundary THEN r + 1 ELSE Mismatch
    OBVIOUS
  <2>2. q \in {Mismatch} \cup (r .. Len(text) + 1)
    BY <1>0, <2>1
  <2>3. \A go : RightAt(go, seek, l, text, rule, previous, i, r) = Moved(go, q)
    BY <1>0, <1>4, <2>1 DEF RightAt
  <2> HIDE DEF Moved
  <2> QED
    BY <1>3, <1>4, <2>2, <2>3
<1>5. CASE i <= Len(rule.right) /\ Kind(e) \in {"letter", "class"}
  <2>1. PICK q : q = Forward(l, text, e, r)
    OBVIOUS
  <2>2. q \in {Mismatch} \cup (r .. Len(text) + 1)
    BY <2>1, ForwardIs
  <2>3. \A go : RightAt(go, seek, l, text, rule, previous, i, r) = Moved(go, q)
    BY <1>0, <1>5, <2>1 DEF RightAt
  <2> HIDE DEF Moved
  <2> QED
    BY <1>3, <1>5, <2>2, <2>3
<1>6. CASE i <= Len(rule.right) /\ Kind(e) \in {"features", "phonemes"}
  <2>1. Said(rule, previous) \in Phonemes
    <3>1. rule.value # <<>> => rule.value[1] \in Phonemes
      OBVIOUS
    <3> QED
      BY <3>1 DEF Said
  <2>2. PICK seen : seen = seek[<<r, Said(rule, previous), TRUE>>]
    OBVIOUS
  <2>3. Answered(text, seen, r, TRUE)
    <3>1. r >= r /\ TRUE \in BOOLEAN
      BY <1>0
    <3> QED
      BY <2>1, <2>2, <3>1 DEF Answering
  <2>4. \A go : RightAt(go, seek, l, text, rule, previous, i, r) = Ahead(go, rule, i, seen)
    BY <1>0, <1>6, <2>2 DEF RightAt, Said, With
  <2>5. i \in 1 .. Len(rule.right)
    BY <1>0, <1>6
  <2>6. AheadLeads(text, rule, i, r, seen)
    BY <1>6, <2>3, <2>5, AheadIs
  <2> QED
    BY <2>4, <2>6, ZenonT(60) DEF AheadLeads, RightLeads
<1>7. Kind(e) \in {"boundary", "letter", "class", "features", "phonemes"}
  BY DEF Kind
<1> QED
  BY <1>0, <1>2, <1>4, <1>5, <1>6, <1>7

Readable(l, text, rule) ==
    PlainClasses(l) /\ (\E X : text \in Seq(X)) /\ IsSequence(rule.right) /\ rule.value \in Seq(Phonemes)

(* What the elements of a right context give is an answer, if what they lead to is. *)
LEMMA RightHolds ==
    ASSUME NEW l, NEW text, NEW rule, Readable(l, text, rule), NEW previous \in Phonemes,
           NEW first \in 1 .. Len(text) + 1, NEW seek, Answering(text, seek, first),
           NEW i \in 1 .. Len(rule.right) + 1, NEW r \in first .. Len(text) + 1
    PROVE  RightLeads(seek, l, text, rule, previous, i, r)
<1>1. PICK X : text \in Seq(X)
  BY DEF Readable
<1>2. Len(text) \in Nat /\ first \in Nat /\ r \in 1 .. Len(text) + 1 /\ r >= first /\ r \in Nat
  BY <1>1
<1>3. Answering(text, seek, r)
  <2>1. \A p \in 1 .. Len(text) + 1 : p >= r => p >= first
    BY <1>2
  <2> QED
    BY <2>1 DEF Answering
<1> QED
  BY <1>1, <1>2, <1>3, RightAtIs DEF Readable

Goes(go, seek, l, text, rule, previous, first) ==
    go = [y \in Elements(rule, text, first) |-> RightAt(go, seek, l, text, rule, previous, y[1], y[2])]

(* The phonemes that were seen ahead keep an answer one. *)
LEMMA WithAhead ==
    ASSUME NEW text, NEW r \in RightResults(text), NEW a \in Seq(Phonemes)
    PROVE  [r EXCEPT !.ahead = a \o @] \in RightResults(text)
<1>1. r \in Results(text) /\ r.kind # "end" /\ r.ahead \in Seq(Phonemes)
  BY DEF RightResults, Results
<1>2. a \o r.ahead \in Seq(Phonemes)
  BY <1>1
<1>3. PICK b \in Seq(Phonemes) : b = a \o r.ahead
  BY <1>2
<1>4. [r EXCEPT !.ahead = b] \in RightResults(text)
  BY <1>1 DEF RightResults, Results
<1> QED
  BY <1>3, <1>4

(* The recursion over a right context defines a function: each element leads on. *)
LEMMA RightExists ==
    ASSUME NEW l, NEW text, NEW rule, Readable(l, text, rule), NEW previous \in Phonemes,
           NEW first \in 1 .. Len(text) + 1, NEW seek, Answering(text, seek, first)
    PROVE  \E go \in [Elements(rule, text, first) -> RightResults(text)] : Goes(go, seek, l, text, rule, previous, first)
<1> DEFINE E == Elements(rule, text, first)
           R == RightResults(text)
           T == [E -> R]
           N == Len(rule.right)
           At(g, y) == RightAt(g, seek, l, text, rule, previous, y[1], y[2])
           G == [g \in T |-> [y \in E |-> At(g, y)]]
           measure == [y \in E |-> (N + 1) - y[1]]
<1>0. N \in Nat /\ Len(text) \in Nat /\ first \in Nat
  BY DEF Readable, IsSequence
<1>1. \A y \in E : y[1] \in 1 .. N + 1 /\ y[2] \in first .. Len(text) + 1
  BY DEF Elements
<1>2. \A j \in 1 .. N + 1, q \in first .. Len(text) + 1 : <<j, q>> \in E /\ measure[<<j, q>>] = (N + 1) - j
  BY DEF Elements
<1>3. measure \in [E -> 0 .. N]
  BY <1>0, <1>1
<1>4. \A y \in E : measure[y] = (N + 1) - y[1]
  OBVIOUS
<1>5. \A y \in E : RightLeads(seek, l, text, rule, previous, y[1], y[2])
  BY <1>1, RightHolds
<1> HIDE DEF measure
<1>6. ASSUME NEW y \in E, NEW f \in T, NEW g \in T,
             \A z \in E : measure[z] < measure[y] => f[z] = g[z]
      PROVE  At(f, y) \in R /\ At(f, y) = At(g, y)
  <2>0. y[1] \in 1 .. N + 1 /\ y[2] \in first .. Len(text) + 1 /\ measure[y] = (N + 1) - y[1]
    BY <1>1, <1>4
  <2>1. ASSUME NEW j \in y[1] + 1 .. N + 1, NEW q \in y[2] .. Len(text) + 1
        PROVE  f[<<j, q>>] \in R /\ f[<<j, q>>] = g[<<j, q>>]
    <3>1. j \in 1 .. N + 1 /\ q \in first .. Len(text) + 1 /\ (N + 1) - j < (N + 1) - y[1]
      BY <1>0, <2>0
    <3>2. <<j, q>> \in E /\ measure[<<j, q>>] < measure[y]
      BY <1>2, <2>0, <3>1
    <3> QED
      BY <1>6, <3>2
  <2>2. CASE \E c \in R : \A go : At(go, y) = c
    BY <2>2
  <2>3. CASE \E j \in y[1] + 1 .. N + 1, q \in y[2] .. Len(text) + 1 : \A go : At(go, y) = go[<<j, q>>]
    <3>1. PICK j \in y[1] + 1 .. N + 1, q \in y[2] .. Len(text) + 1 : \A go : At(go, y) = go[<<j, q>>]
      BY <2>3
    <3> HIDE DEF At
    <3> QED
      BY <2>1, <3>1
  <2>4. CASE \E j \in y[1] + 1 .. N + 1, q \in y[2] .. Len(text) + 1, a \in Seq(Phonemes) : \A go :
                 At(go, y) = [go[<<j, q>>] EXCEPT !.ahead = a \o @]
    <3>1. PICK j \in y[1] + 1 .. N + 1, q \in y[2] .. Len(text) + 1, a \in Seq(Phonemes) : \A go :
                 At(go, y) = [go[<<j, q>>] EXCEPT !.ahead = a \o @]
      BY <2>4
    <3>2. f[<<j, q>>] \in R /\ f[<<j, q>>] = g[<<j, q>>]
      BY <2>1
    <3>3. [f[<<j, q>>] EXCEPT !.ahead = a \o @] \in R
      BY <3>2, WithAhead
    <3>4. At(f, y) = [f[<<j, q>>] EXCEPT !.ahead = a \o @] /\ At(g, y) = [g[<<j, q>>] EXCEPT !.ahead = a \o @]
      BY <3>1
    <3> HIDE DEF At
    <3> QED
      BY <3>2, <3>3, <3>4
  <2> QED
    BY <1>5, <2>2, <2>3, <2>4 DEF RightLeads
<1>7. \A f \in T, y \in E : At(f, y) \in R
  <2> HIDE DEF At
  <2> QED
    BY <1>6
<1>8. G \in [T -> T]
  <2> HIDE DEF At, E, R
  <2> QED
    BY <1>7
<1>9. DependsBelow(G, T, E, measure)
  <2>1. \A f \in T : \A y \in E : G[f][y] = At(f, y)
    OBVIOUS
  <2> HIDE DEF At, E, R, T, G
  <2> QED
    BY <1>6, <2>1 DEF DependsBelow
<1>10. T # {}
  <2>1. Result("match") \in R
    <3>1. PICK X : text \in Seq(X)
      BY DEF Readable
    <3> QED
      BY <3>1, ResultIs DEF RightResults
  <2>2. [y \in E |-> Result("match")] \in T
    BY <2>1
  <2> QED
    BY <2>2
<1>11. PICK go \in T : G[go] = go
  <2> HIDE DEF G, T, E, R, N
  <2>1. T \in SUBSET [E -> R]
    BY DEF T
  <2>2. Measured(G, T, E, R, measure, N)
    BY <1>3, <1>8, <1>9, <1>10, <2>1 DEF Measured
  <2>3. N \in Nat
    BY <1>0
  <2> QED
    BY <2>2, <2>3, RecursionBelow
<1>12. go = [y \in E |-> At(go, y)]
  BY <1>11
<1> QED
  BY <1>12 DEF Goes

AgreeRight(go, ho, rule, text, first) ==
    \A i \in 1 .. Len(rule.right) + 1, r \in first .. Len(text) + 1 : go[<<i, r>>] = ho[<<i, r>>]

(* There is one such function only. *)
LEMMA GoesSame ==
    ASSUME NEW l, NEW text, NEW rule, Readable(l, text, rule), NEW previous \in Phonemes,
           NEW first \in 1 .. Len(text) + 1, NEW seek, Answering(text, seek, first),
           NEW go, Goes(go, seek, l, text, rule, previous, first), NEW ho, Goes(ho, seek, l, text, rule, previous, first)
    PROVE  AgreeRight(go, ho, rule, text, first)
<1> DEFINE N == Len(rule.right)
           S == {m \in 0 .. N : \A i \in (N + 1) - m .. N + 1, r \in first .. Len(text) + 1 : go[<<i, r>>] = ho[<<i, r>>]}
           Same(i, r) == \A j \in i + 1 .. N + 1, q \in r .. Len(text) + 1 : go[<<j, q>>] = ho[<<j, q>>]
<1>0. N \in Nat /\ Len(text) \in Nat /\ first \in Nat /\ first >= 1
  BY DEF Readable, IsSequence
<1>1. ASSUME NEW i \in 1 .. N + 1, NEW r \in first .. Len(text) + 1, Same(i, r)
      PROVE  go[<<i, r>>] = ho[<<i, r>>]
  <2>0. r \in 1 .. Len(text) + 1 /\ r >= first
    BY <1>0
  <2>1. go[<<i, r>>] = RightAt(go, seek, l, text, rule, previous, i, r)
        /\ ho[<<i, r>>] = RightAt(ho, seek, l, text, rule, previous, i, r)
    BY <2>0 DEF Goes, Elements
  <2>5. RightLeads(seek, l, text, rule, previous, i, r)
    BY <2>0, RightHolds
  <2>6. CASE \E c \in RightResults(text) : \A ko : RightAt(ko, seek, l, text, rule, previous, i, r) = c
    BY <2>1, <2>6
  <2>7. CASE \E j \in i + 1 .. N + 1, q \in r .. Len(text) + 1 : \A ko :
               RightAt(ko, seek, l, text, rule, previous, i, r) = ko[<<j, q>>]
    <3>1. PICK j \in i + 1 .. N + 1, q \in r .. Len(text) + 1 : \A ko :
               RightAt(ko, seek, l, text, rule, previous, i, r) = ko[<<j, q>>]
      BY <2>7
    <3>2. go[<<j, q>>] = ho[<<j, q>>]
      BY <1>1
    <3> QED
      BY <2>1, <3>1, <3>2
  <2>8. CASE \E j \in i + 1 .. N + 1, q \in r .. Len(text) + 1, a \in Seq(Phonemes) : \A ko :
               RightAt(ko, seek, l, text, rule, previous, i, r) = [ko[<<j, q>>] EXCEPT !.ahead = a \o @]
    <3>1. PICK j \in i + 1 .. N + 1, q \in r .. Len(text) + 1, a \in Seq(Phonemes) : \A ko :
               RightAt(ko, seek, l, text, rule, previous, i, r) = [ko[<<j, q>>] EXCEPT !.ahead = a \o @]
      BY <2>8
    <3>2. go[<<j, q>>] = ho[<<j, q>>]
      BY <1>1
    <3> QED
      BY <2>1, <3>1, <3>2
  <2> QED
    BY <2>5, <2>6, <2>7, <2>8 DEF RightLeads
<1>2. 0 \in S
  <2>1. ASSUME NEW i \in (N + 1) - 0 .. N + 1, NEW r \in first .. Len(text) + 1
        PROVE  go[<<i, r>>] = ho[<<i, r>>]
    <3>1. i \in 1 .. N + 1 /\ i + 1 .. N + 1 = {}
      BY <1>0
    <3> QED
      BY <1>1, <3>1
  <2>2. 0 \in 0 .. N
    BY <1>0
  <2> QED
    BY <2>1, <2>2
<1>3. ASSUME NEW m \in 0 .. N - 1, m \in S
      PROVE  m + 1 \in S
  <2>1. \A i \in (N + 1) - m .. N + 1, r \in first .. Len(text) + 1 : go[<<i, r>>] = ho[<<i, r>>]
    BY <1>3
  <2>2. ASSUME NEW i \in (N + 1) - (m + 1) .. N + 1, NEW r \in first .. Len(text) + 1
        PROVE  go[<<i, r>>] = ho[<<i, r>>]
    <3>1. i \in 1 .. N + 1 /\ \A j \in i + 1 .. N + 1 : j \in (N + 1) - m .. N + 1
      BY <1>0
    <3>2. \A q \in r .. Len(text) + 1 : q \in first .. Len(text) + 1
      BY <1>0
    <3>3. Same(i, r)
      BY <2>1, <3>1, <3>2
    <3> HIDE DEF Same
    <3> QED
      BY <1>1, <3>1, <3>3
  <2>3. m + 1 \in 0 .. N
    BY <1>0
  <2> QED
    BY <2>2, <2>3
<1>4. N \in S
  <2>1. N \in 0 .. N
    BY <1>0
  <2> HIDE DEF S, N
  <2> QED
    BY <1>0, <1>2, <1>3, <2>1, InductionTo DEF Inductive
<1>5. (N + 1) - N = 1
  BY <1>0
<1> QED
  BY <1>4, <1>5 DEF AgreeRight

(* What Right gives is the first value of such a function. *)
LEMMA RightIs ==
    ASSUME NEW l, NEW text, NEW rule, Readable(l, text, rule), NEW previous \in Phonemes,
           NEW first \in 1 .. Len(text) + 1, NEW seek, Answering(text, seek, first)
    PROVE  \E go \in [Elements(rule, text, first) -> RightResults(text)] :
               Right(seek, l, text, rule, previous, first) = go[<<1, first>>]
<1> DEFINE E == Elements(rule, text, first)
           Is(g) == Goes(g, seek, l, text, rule, previous, first)
           go == CHOOSE g : Is(g)
<1>1. Right(seek, l, text, rule, previous, first) = go[<<1, first>>]
  BY DEF Right, Goes, Elements
<1>2. PICK h \in [E -> RightResults(text)] : Is(h)
  BY RightExists
<1>3. Is(go)
  <2> HIDE DEF Is
  <2> QED
    BY <1>2
<1> HIDE DEF go
<1>4. AgreeRight(go, h, rule, text, first)
  BY <1>2, <1>3, GoesSame
<1>5. \A y \in E : go[y] = h[y]
  <2> TAKE y \in E
  <2>1. PICK i \in 1 .. Len(rule.right) + 1, r \in first .. Len(text) + 1 : y = <<i, r>>
    BY DEF Elements
  <2> QED
    BY <1>4, <2>1 DEF AgreeRight
<1>6. go = [y \in E |-> go[y]]
  BY <1>3 DEF Goes
<1>7. go \in [E -> RightResults(text)]
  <2> HIDE DEF E
  <2>1. \A y \in E : go[y] \in RightResults(text)
    BY <1>2, <1>5
  <2> QED
    BY <1>6, <2>1
<1> QED
  BY <1>1, <1>3, <1>7

Agree(f, g, text, first) ==
    \A p \in 1 .. Len(text) + 1, prev \in Phonemes, ignore \in BOOLEAN :
        p >= first => f[<<p, prev, ignore>>] = g[<<p, prev, ignore>>]

(* Only what the rules give from there on matters. *)
LEMMA RightSame ==
    ASSUME NEW l, NEW text, NEW rule, Readable(l, text, rule), NEW previous \in Phonemes,
           NEW seek, NEW teek, NEW first \in 1 .. Len(text) + 1, Agree(seek, teek, text, first)
    PROVE  Right(seek, l, text, rule, previous, first) = Right(teek, l, text, rule, previous, first)
<1> DEFINE Is(g) == Goes(g, seek, l, text, rule, previous, first)
           It(g) == Goes(g, teek, l, text, rule, previous, first)
<1>1. /\ Right(seek, l, text, rule, previous, first) = (CHOOSE g : Is(g))[<<1, first>>]
      /\ Right(teek, l, text, rule, previous, first) = (CHOOSE g : It(g))[<<1, first>>]
  BY DEF Right, Goes, Elements
<1>2. Said(rule, previous) \in Phonemes
  <2>1. rule.value # <<>> => rule.value[1] \in Phonemes
    BY DEF Readable
  <2> QED
    BY <2>1 DEF Said
<1>3. ASSUME NEW go, NEW y \in Elements(rule, text, first)
      PROVE  RightAt(go, seek, l, text, rule, previous, y[1], y[2]) = RightAt(go, teek, l, text, rule, previous, y[1], y[2])
  <2>1. y[2] \in 1 .. Len(text) + 1 /\ y[2] >= first
    BY DEF Elements, Readable
  <2>2. seek[<<y[2], Said(rule, previous), TRUE>>] = teek[<<y[2], Said(rule, previous), TRUE>>]
    BY <1>2, <2>1 DEF Agree
  <2> QED
    BY <2>2 DEF RightAt, Said
<1>4. \A g : Is(g) <=> It(g)
  BY <1>3 DEF Goes
<1> HIDE DEF Is, It
<1> QED
  BY <1>1, <1>4

(* A right context matches or fails, or stops the search. *)
LEMMA RightTyped ==
    ASSUME NEW l, NEW text, NEW rule, Readable(l, text, rule), NEW previous \in Phonemes,
           NEW first \in 1 .. Len(text) + 1, NEW seek, Answering(text, seek, first)
    PROVE  Right(seek, l, text, rule, previous, first) \in RightResults(text)
<1>1. PICK go \in [Elements(rule, text, first) -> RightResults(text)] :
               Right(seek, l, text, rule, previous, first) = go[<<1, first>>]
  BY RightIs
<1>2. <<1, first>> \in Elements(rule, text, first)
  <2>1. Len(rule.right) \in Nat /\ Len(text) \in Nat
    BY DEF Readable, IsSequence
  <2>2. 1 \in 1 .. Len(rule.right) + 1 /\ first \in first .. Len(text) + 1
    BY <2>1
  <2> QED
    BY <2>2 DEF Elements
<1> QED
  BY <1>1, <1>2

-----------------------------------------------------------------------------
(* A rule.                                                                  *)

(* A rule of the group of a letter. *)
PlainRule(c, rule) ==
    /\ IsSequence(rule.context) /\ IsSequence(rule.right) /\ rule.value \in Seq(Phonemes)
    /\ rule.context # <<>> /\ Head(rule.context) = c /\ Letters(rule.context)

(* What a rule gives at position p. *)
Matched(text, r, rule, p) ==
    /\ r.phonemes = rule.value
    /\ r.next \in p + 1 .. Len(text) + 1
    /\ rule.context = SubSeq(text, p, r.next - 1)

Attempt(text, r, p) ==
    /\ r \in RightResults(text)
    /\ r.kind = "failed" => r.next \in p .. Len(text) + 1
    /\ r.kind = "match" => r.next \in p + 1 .. Len(text) + 1

Of(right, rule, n) ==
    CASE right.kind = "failed" -> Failed(n)
      [] right.kind = "match" -> [right EXCEPT !.next = n, !.phonemes = rule.value]
      [] OTHER -> right

(* A rule is its conditions, its context and what is on either side of it. *)
LEMMA MatchIs ==
    ASSUME NEW seek, NEW l, NEW text, NEW rule, NEW previous, NEW p
    PROVE  Match(seek, l, text, rule, previous, p) =
               IF ~ConditionsHold(l, rule) THEN Failed(p)
               ELSE IF Context(l, text, rule, p).ok /\ Left(l, text, rule, previous, p)
               THEN Of(Right(seek, l, text, rule, previous, Context(l, text, rule, p).at), rule, Context(l, text, rule, p).at)
               ELSE Failed(Context(l, text, rule, p).at)
<1> DEFINE c == Context(l, text, rule, p)
           Behind(context) ==
              IF context.ok /\ Left(l, text, rule, previous, p)
              THEN With(Right(seek, l, text, rule, previous, context.at), LAMBDA right : Of(right, rule, context.at))
              ELSE Failed(context.at)
<1>1. Match(seek, l, text, rule, previous, p) = IF ConditionsHold(l, rule) THEN With(c, LAMBDA x : Behind(x)) ELSE Failed(p)
  BY DEF Match, Of
<1>2. With(c, LAMBDA x : Behind(x)) = Behind(c)
  <2> HIDE DEF Behind, c
  <2> QED
    BY DEF With
<1>3. \A right, n : With(right, LAMBDA x : Of(x, rule, n)) = Of(right, rule, n)
  BY DEF With
<1> HIDE DEF c
<1>4. Behind(c) = IF c.ok /\ Left(l, text, rule, previous, p)
                  THEN Of(Right(seek, l, text, rule, previous, c.at), rule, c.at) ELSE Failed(c.at)
  BY <1>3
<1> QED
  BY <1>1, <1>2, <1>4 DEF c

(* A rule that matches moves on over its own letters, which are its context. *)
LEMMA MatchTyped ==
    ASSUME NEW l, PlainClasses(l), NEW X, NEW text \in Seq(X), NEW c, Kind(c) = "letter", NEW rule, PlainRule(c, rule),
           NEW previous \in Phonemes, NEW p \in 1 .. Len(text), NEW seek, Answering(text, seek, p + 1)
    PROVE  /\ Attempt(text, Match(seek, l, text, rule, previous, p), p)
           /\ Match(seek, l, text, rule, previous, p).kind = "match" =>
                  Matched(text, Match(seek, l, text, rule, previous, p), rule, p)
<1>0. Len(text) \in Nat /\ p \in Nat /\ p \in 1 .. Len(text) + 1 /\ Readable(l, text, rule)
  BY DEF Readable, PlainRule
<1>1. PICK w : w = Context(l, text, rule, p)
  OBVIOUS
<1>2. /\ w \in Places(text, p)
      /\ w.ok => w.at \in p + 1 .. Len(text) + 1 /\ rule.context = SubSeq(text, p, w.at - 1)
  <2>1. IsSequence(rule.context) /\ Kind(Head(rule.context)) = "letter" /\ rule.context # <<>> /\ Letters(rule.context)
    BY DEF PlainRule
  <2> QED
    BY <1>0, <1>1, <2>1, ContextFacts
<1>3. w.at \in p .. Len(text) + 1 /\ w.at \in 0 .. Len(text) + 1 /\ p \in p .. Len(text) + 1 /\ p \in 0 .. Len(text) + 1
  BY <1>0, <1>2 DEF Places
<1>4. \A n \in p .. Len(text) + 1 : Attempt(text, Failed(n), p) /\ Failed(n).kind = "failed"
  <2> TAKE n \in p .. Len(text) + 1
  <2>1. n \in 0 .. Len(text) + 1
    BY <1>0
  <2>2. Failed(n) \in Results(text) /\ Failed(n).kind = "failed" /\ Failed(n).next = n
    BY <2>1, ResultIs
  <2> QED
    BY <2>2 DEF Attempt, RightResults
<1>5. PICK r : r = Match(seek, l, text, rule, previous, p)
  OBVIOUS
<1>6. CASE ~ConditionsHold(l, rule) \/ ~(w.ok /\ Left(l, text, rule, previous, p))
  <2>1. r = Failed(p) \/ r = Failed(w.at)
    BY <1>1, <1>5, <1>6, MatchIs
  <2> QED
    BY <1>3, <1>4, <1>5, <2>1
<1>7. CASE ConditionsHold(l, rule) /\ w.ok /\ Left(l, text, rule, previous, p)
  <2>1. PICK right : right = Right(seek, l, text, rule, previous, w.at)
    OBVIOUS
  <2>2. r = Of(right, rule, w.at)
    BY <1>1, <1>5, <1>7, <2>1, MatchIs
  <2>3. w.at \in 1 .. Len(text) + 1 /\ w.at \in p + 1 .. Len(text) + 1
    BY <1>0, <1>2, <1>7
  <2>4. right \in RightResults(text)
    <3>1. \A q \in 1 .. Len(text) + 1 : q >= w.at => q >= p + 1
      BY <1>0, <2>3
    <3>2. Answering(text, seek, w.at)
      BY <3>1 DEF Answering
    <3> QED
      BY <1>0, <2>1, <2>3, <3>2, RightTyped
  <2>5. CASE right.kind = "failed"
    <3>1. r = Failed(w.at)
      BY <2>2, <2>5 DEF Of
    <3> QED
      BY <1>3, <1>4, <1>5, <3>1
  <2>6. CASE right.kind = "match"
    <3>1. r = [right EXCEPT !.next = w.at, !.phonemes = rule.value]
      BY <2>2, <2>6 DEF Of
    <3>2. rule.value \in Seq(Phonemes)
      BY DEF PlainRule
    <3>3. r \in RightResults(text) /\ r.next = w.at /\ r.phonemes = rule.value /\ r.kind = "match"
      BY <1>3, <2>4, <2>6, <3>1, <3>2 DEF RightResults, Results
    <3>4. r.next \in p + 1 .. Len(text) + 1 /\ rule.context = SubSeq(text, p, r.next - 1)
      BY <1>2, <1>7, <2>3, <3>3
    <3> QED
      BY <1>5, <3>3, <3>4 DEF Attempt, Matched
  <2>7. CASE right.kind \notin {"failed", "match"}
    <3>1. r = right
      BY <2>2, <2>7 DEF Of
    <3> QED
      BY <1>5, <2>4, <2>7, <3>1 DEF Attempt
  <2> QED
    BY <2>5, <2>6, <2>7
<1> QED
  BY <1>6, <1>7, <1>2 DEF Places

(* A rule only looks ahead behind its first letter. *)
LEMMA MatchSame ==
    ASSUME NEW l, PlainClasses(l), NEW X, NEW text \in Seq(X), NEW c, Kind(c) = "letter", NEW rule, PlainRule(c, rule),
           NEW previous \in Phonemes, NEW p \in 1 .. Len(text),
           NEW seek, NEW teek, Agree(seek, teek, text, p + 1)
    PROVE  Match(seek, l, text, rule, previous, p) = Match(teek, l, text, rule, previous, p)
<1>0. Len(text) \in Nat /\ p \in Nat /\ p \in 1 .. Len(text) + 1 /\ Readable(l, text, rule)
  BY DEF Readable, PlainRule
<1>1. PICK w : w = Context(l, text, rule, p)
  OBVIOUS
<1>2. w.ok => w.at \in p + 1 .. Len(text) + 1
  <2>1. IsSequence(rule.context) /\ Kind(Head(rule.context)) = "letter" /\ rule.context # <<>>
    BY DEF PlainRule
  <2> QED
    BY <1>0, <1>1, <2>1, ContextFacts
<1>3. w.ok => Right(seek, l, text, rule, previous, w.at) = Right(teek, l, text, rule, previous, w.at)
  <2> SUFFICES ASSUME w.ok
               PROVE  Right(seek, l, text, rule, previous, w.at) = Right(teek, l, text, rule, previous, w.at)
    OBVIOUS
  <2>1. w.at \in 1 .. Len(text) + 1 /\ w.at >= p + 1
    BY <1>0, <1>2
  <2>2. Agree(seek, teek, text, w.at)
    <3>1. \A q \in 1 .. Len(text) + 1 : q >= w.at => q >= p + 1
      BY <1>0, <2>1
    <3> QED
      BY <3>1 DEF Agree
  <2> QED
    BY <1>0, <2>1, <2>2, RightSame
<1> QED
  BY <1>1, <1>3, MatchIs

-----------------------------------------------------------------------------
(* The rules of a group.                                                    *)

PlainGroup(c, group) == IsSequence(group) /\ Kind(c) = "letter" /\ \A i \in 1 .. Len(group) : PlainRule(c, group[i])

Trial(before, seek, l, text, rule, previous, p) ==
    IF before.kind = "failed" THEN Match(seek, l, text, rule, previous, p) ELSE before
IsTried(f, seek, l, text, group, previous, p) ==
    f = [i \in 0 .. Len(group) |-> IF i = 0 THEN Failed(p) ELSE Trial(f[i - 1], seek, l, text, group[i], previous, p)]

(* The rules of a group are tried one after the other. *)
LEMMA TriedIs ==
    ASSUME NEW seek, NEW l, NEW text, NEW group, NEW previous, NEW p,
           \E f : IsTried(f, seek, l, text, group, previous, p)
    PROVE  LET f == CHOOSE f : IsTried(f, seek, l, text, group, previous, p)
           IN  IsTried(f, seek, l, text, group, previous, p) /\ Tried(seek, l, text, group, previous, p) = f[Len(group)]
<1> DEFINE Op(before, rule) == IF before.kind = "failed" THEN Match(seek, l, text, rule, previous, p) ELSE before
           Is(f, t) == f = [i \in 0 .. Len(t) |-> IF i = 0 THEN Failed(p) ELSE With(f[i - 1], LAMBDA v : Op(v, t[i]))]
           Latest(t) == (CHOOSE f : Is(f, t))[Len(t)]
           It(f) == IsTried(f, seek, l, text, group, previous, p)
<1>1. \A v, e : With(v, LAMBDA w : Op(w, e)) = Trial(v, seek, l, text, e, previous, p)
  BY DEF With, Trial
<1>2. \A f : Is(f, group) <=> It(f)
  BY <1>1 DEF IsTried
<1>3. Tried(seek, l, text, group, previous, p) = With(group, LAMBDA t : Latest(t))
  BY DEF Tried, Each
<1> HIDE DEF Is
<1>4. With(group, LAMBDA t : Latest(t)) = Latest(group)
  <2> HIDE DEF Latest
  <2> QED
    BY DEF With
<1> HIDE DEF It
<1>5. Latest(group) = (CHOOSE f : It(f))[Len(group)]
  BY <1>2
<1>6. It(CHOOSE f : It(f))
  <2>1. \E f : It(f)
    BY DEF It
  <2> QED
    BY <2>1
<1> QED
  BY <1>3, <1>4, <1>5, <1>6 DEF It

(* Their recursion defines a function, of attempts at position p. *)
LEMMA TriedExists ==
    ASSUME NEW l, PlainClasses(l), NEW X, NEW text \in Seq(X), NEW c, NEW group, PlainGroup(c, group),
           NEW previous \in Phonemes, NEW p \in 1 .. Len(text), NEW seek, Answering(text, seek, p + 1)
    PROVE  \E f : IsTried(f, seek, l, text, group, previous, p)
<1> DEFINE N == Len(group)
           R == {r \in RightResults(text) : Attempt(text, r, p)}
           F == [y \in (1 .. N) \X R |-> Trial(y[2], seek, l, text, group[y[1]], previous, p)]
           start == Failed(p)
<1>0. N \in Nat
  BY DEF PlainGroup, IsSequence
<1>1. start \in R
  <2>1. p \in 0 .. Len(text) + 1 /\ p \in p .. Len(text) + 1
    OBVIOUS
  <2> QED
    BY <2>1, ResultIs DEF RightResults, Attempt
<1>2. F \in Steps(N, R)
  <2>1. ASSUME NEW i \in 1 .. N, NEW m \in R
        PROVE  Trial(m, seek, l, text, group[i], previous, p) \in R
    <3>1. PlainRule(c, group[i]) /\ Kind(c) = "letter"
      BY DEF PlainGroup
    <3>2. Match(seek, l, text, group[i], previous, p) \in R
      BY <3>1, MatchTyped DEF Attempt
    <3> QED
      BY <3>2 DEF Trial
  <2> HIDE DEF R, N
  <2> QED
    BY <2>1 DEF Steps
<1>3. \A i \in 1 .. N, m \in R : F[<<i, m>>] = Trial(m, seek, l, text, group[i], previous, p)
  OBVIOUS
<1> HIDE DEF F, R, N, start
<1>4. PICK f \in [0 .. N -> R] : IsRecursion(f, N, start, F)
  BY <1>0, <1>1, <1>2, RecursionTo
<1>5. \A i \in 1 .. N : f[i] = Trial(f[i - 1], seek, l, text, group[i], previous, p)
  <2>1. \A i \in 1 .. N : i - 1 \in 0 .. N
    BY <1>0
  <2> QED
    BY <1>3, <1>4, <2>1 DEF IsRecursion
<1>6. \A i \in 0 .. N : i = 0 \/ i \in 1 .. N
  BY <1>0
<1>7. f[0] = start
  BY <1>4 DEF IsRecursion
<1>8. IsTried(f, seek, l, text, group, previous, p)
  BY <1>4, <1>5, <1>6, <1>7 DEF IsTried, N, start
<1> QED
  BY <1>8

(* The first rule that does not fail gives the result. *)
LEMMA TriedTyped ==
    ASSUME NEW l, PlainClasses(l), NEW X, NEW text \in Seq(X), NEW c, NEW group, PlainGroup(c, group),
           NEW previous \in Phonemes, NEW p \in 1 .. Len(text), NEW seek, Answering(text, seek, p + 1)
    PROVE  LET t == Tried(seek, l, text, group, previous, p)
           IN  /\ Attempt(text, t, p)
               /\ t.kind = "match" => \E rule \in ToSet(group) : Matched(text, t, rule, p)
<1> DEFINE N == Len(group)
           Good(t) == /\ Attempt(text, t, p)
                      /\ t.kind = "match" => \E rule \in ToSet(group) : Matched(text, t, rule, p)
           f == CHOOSE f : IsTried(f, seek, l, text, group, previous, p)
<1>0. N \in Nat /\ \A i \in 1 .. N : group[i] \in ToSet(group)
  BY DEF PlainGroup, IsSequence, ToSet
<1>1. IsTried(f, seek, l, text, group, previous, p) /\ Tried(seek, l, text, group, previous, p) = f[N]
  BY TriedExists, TriedIs
<1> HIDE DEF f
<1>2. f[0] = Failed(p) /\ \A i \in 1 .. N : f[i] = Trial(f[i - 1], seek, l, text, group[i], previous, p)
  <2>1. f = [i \in 0 .. N |-> IF i = 0 THEN Failed(p) ELSE Trial(f[i - 1], seek, l, text, group[i], previous, p)]
    BY <1>1 DEF IsTried
  <2>2. 0 \in 0 .. N /\ \A i \in 1 .. N : i \in 0 .. N /\ i # 0
    BY <1>0
  <2> HIDE DEF N
  <2> QED
    BY <2>1, <2>2
<1> DEFINE S == {n \in 0 .. N : Good(f[n])}
<1>3. 0 \in S
  <2>1. p \in 0 .. Len(text) + 1 /\ p \in p .. Len(text) + 1
    OBVIOUS
  <2>2. Failed(p) \in Results(text) /\ Failed(p).kind = "failed" /\ Failed(p).next = p
    BY <2>1, ResultIs
  <2>3. Attempt(text, Failed(p), p) /\ Failed(p).kind # "match"
    BY <2>1, <2>2 DEF RightResults, Attempt
  <2>4. 0 \in 0 .. N
    BY <1>0
  <2> QED
    BY <1>2, <2>3, <2>4
<1>4. ASSUME NEW n \in 0 .. N - 1, n \in S
      PROVE  n + 1 \in S
  <2>0. n + 1 \in 1 .. N /\ n + 1 \in 0 .. N /\ (n + 1) - 1 = n
    BY <1>0
  <2>1. Good(f[n])
    BY <1>4
  <2>2. PlainRule(c, group[n + 1]) /\ Kind(c) = "letter" /\ group[n + 1] \in ToSet(group)
    BY <1>0, <2>0 DEF PlainGroup
  <2>3. PICK t : t = Match(seek, l, text, group[n + 1], previous, p)
    OBVIOUS
  <2>4. Attempt(text, t, p) /\ (t.kind = "match" => Matched(text, t, group[n + 1], p))
    BY <2>2, <2>3, MatchTyped
  <2>5. Good(t)
    BY <2>2, <2>4
  <2>6. f[n + 1] = t \/ f[n + 1] = f[n]
    BY <1>2, <2>0, <2>3 DEF Trial
  <2>7. Good(f[n + 1])
    <3> HIDE DEF Good
    <3> QED
      BY <2>1, <2>5, <2>6
  <2> QED
    BY <2>0, <2>7
<1>5. Good(f[N])
  <2>1. N \in S
    <3>1. N \in 0 .. N
      BY <1>0
    <3> HIDE DEF S, N
    <3> QED
      BY <1>0, <1>3, <1>4, <3>1, InductionTo DEF Inductive
  <2> QED
    BY <2>1
<1> QED
  BY <1>1, <1>5

(* A group only looks ahead behind position p. *)
LEMMA TriedSame ==
    ASSUME NEW l, PlainClasses(l), NEW X, NEW text \in Seq(X), NEW c, NEW group, PlainGroup(c, group),
           NEW previous \in Phonemes, NEW p \in 1 .. Len(text),
           NEW seek, Answering(text, seek, p + 1), NEW teek, Agree(seek, teek, text, p + 1)
    PROVE  Tried(seek, l, text, group, previous, p) = Tried(teek, l, text, group, previous, p)
<1> DEFINE Is(f) == IsTried(f, seek, l, text, group, previous, p)
           It(f) == IsTried(f, teek, l, text, group, previous, p)
<1>1. \A i \in 1 .. Len(group) : Match(seek, l, text, group[i], previous, p) = Match(teek, l, text, group[i], previous, p)
  <2> TAKE i \in 1 .. Len(group)
  <2>1. PlainRule(c, group[i]) /\ Kind(c) = "letter"
    BY DEF PlainGroup
  <2> QED
    BY <2>1, MatchSame
<1>2. \A f : Is(f) <=> It(f)
  <2> TAKE f
  <2>1. \A i \in 0 .. Len(group) : i # 0 => i \in 1 .. Len(group)
    BY DEF PlainGroup, IsSequence
  <2>2. \A i \in 0 .. Len(group) :
            (IF i = 0 THEN Failed(p) ELSE Trial(f[i - 1], seek, l, text, group[i], previous, p))
            = (IF i = 0 THEN Failed(p) ELSE Trial(f[i - 1], teek, l, text, group[i], previous, p))
    BY <1>1, <2>1 DEF Trial
  <2> QED
    BY <2>2 DEF IsTried
<1>3. \E f : Is(f)
  BY TriedExists
<1>4. Tried(seek, l, text, group, previous, p) = (CHOOSE f : Is(f))[Len(group)]
  BY <1>3, TriedIs
<1>5. \E f : It(f)
  <2> HIDE DEF Is, It
  <2> QED
    BY <1>2, <1>3
<1>6. Tried(teek, l, text, group, previous, p) = (CHOOSE f : It(f))[Len(group)]
  BY <1>5, TriedIs
<1> HIDE DEF Is, It
<1> QED
  BY <1>2, <1>4, <1>6

-----------------------------------------------------------------------------
(* A call of next_match.                                                    *)

PlainRules(l) == PlainClasses(l) /\ \A c \in DOMAIN l.l2p : PlainGroup(c, l.l2p[c])

Again(seek, p, n, previous) == IF n > p THEN seek[<<n, previous, TRUE>>] ELSE Result("loops")
Outcome(seek, tried, p, previous, ignore) ==
    CASE tried.kind = "failed" -> IF ignore THEN Again(seek, p, tried.next, previous) ELSE Result("throw")
      [] tried.kind = "match" /\ tried.phonemes = <<>> /\ ignore -> Again(seek, p, tried.next, previous)
      [] OTHER -> tried

(* The cases of a call of next_match. *)
LEMMA SoughtIs ==
    ASSUME NEW seek, NEW l, NEW text, NEW p, NEW previous, NEW ignore
    PROVE  Sought(seek, l, text, p, previous, ignore) =
               IF p > Len(text) THEN Result("end")
               ELSE IF text[p] = l.boundary THEN seek[<<p + 1, previous, ignore>>]
               ELSE IF text[p] \notin DOMAIN l.l2p THEN Result("throw")
               ELSE Outcome(seek, Tried(seek, l, text, l.l2p[text[p]], previous, p), p, previous, ignore)
<1> DEFINE t == Tried(seek, l, text, l.l2p[text[p]], previous, p)
<1>1. With(t, LAMBDA tried : Outcome(seek, tried, p, previous, ignore)) = Outcome(seek, t, p, previous, ignore)
  <2> HIDE DEF t
  <2> QED
    BY DEF With
<1>2. Sought(seek, l, text, p, previous, ignore) =
               IF p > Len(text) THEN Result("end")
               ELSE IF text[p] = l.boundary THEN seek[<<p + 1, previous, ignore>>]
               ELSE IF text[p] \notin DOMAIN l.l2p THEN Result("throw")
               ELSE With(t, LAMBDA tried : Outcome(seek, tried, p, previous, ignore))
  BY DEF Sought, Outcome, Again
<1> QED
  BY <1>1, <1>2

(* A call returns an answer, if those it makes further on in the text do. *)
LEMMA SoughtTyped ==
    ASSUME NEW l, PlainRules(l), NEW X, NEW text \in Seq(X), NEW previous \in Phonemes, NEW ignore \in BOOLEAN,
           NEW p \in 1 .. Len(text) + 1, NEW seek, Answering(text, seek, p + 1)
    PROVE  Answered(text, Sought(seek, l, text, p, previous, ignore), p, ignore)
<1>0. Len(text) \in Nat /\ p \in Nat
  OBVIOUS
<1>1. \A kind \in {"end", "throw", "loops"} : Answered(text, Result(kind), p, ignore)
  BY ResultIs DEF Answered
<1>2. ASSUME NEW n \in p + 1 .. Len(text) + 1, NEW i \in BOOLEAN, ignore => i
      PROVE  Answered(text, seek[<<n, previous, i>>], p, ignore)
  <2>1. n \in 1 .. Len(text) + 1 /\ n >= p + 1
    BY <1>0
  <2>2. Answered(text, seek[<<n, previous, i>>], n, i)
    BY <2>1 DEF Answering
  <2>3. \A k \in n + 1 .. Len(text) + 1 : k \in p + 1 .. Len(text) + 1
    BY <1>0, <2>1
  <2> QED
    BY <1>2, <2>2, <2>3 DEF Answered
<1>3. PICK r : r = Sought(seek, l, text, p, previous, ignore)
  OBVIOUS
<1>4. CASE p > Len(text)
  BY <1>1, <1>4, SoughtIs
<1>5. CASE p <= Len(text) /\ text[p] = l.boundary
  <2>1. r = seek[<<p + 1, previous, ignore>>]
    BY <1>0, <1>3, <1>5, SoughtIs
  <2>2. p + 1 \in p + 1 .. Len(text) + 1
    BY <1>0, <1>5
  <2> QED
    BY <1>2, <1>3, <2>1, <2>2
<1>6. CASE p <= Len(text) /\ text[p] # l.boundary /\ text[p] \notin DOMAIN l.l2p
  BY <1>0, <1>1, <1>6, SoughtIs
<1>7. CASE p <= Len(text) /\ text[p] # l.boundary /\ text[p] \in DOMAIN l.l2p
  <2>1. PICK t : t = Tried(seek, l, text, l.l2p[text[p]], previous, p)
    OBVIOUS
  <2>2. r = Outcome(seek, t, p, previous, ignore)
    <3>1. ~(p > Len(text))
      BY <1>0, <1>7
    <3> QED
      BY <1>3, <1>7, <2>1, <3>1, SoughtIs
  <2>3. PlainGroup(text[p], l.l2p[text[p]]) /\ PlainClasses(l) /\ p \in 1 .. Len(text)
    BY <1>0, <1>7 DEF PlainRules
  <2>4. Attempt(text, t, p)
    BY <2>1, <2>3, TriedTyped
  <2>5. ASSUME t.next \in p .. Len(text) + 1
        PROVE  ignore => Answered(text, Again(seek, p, t.next, previous), p, ignore)
    <3>1. CASE t.next > p
      <4>1. t.next \in p + 1 .. Len(text) + 1
        BY <1>0, <2>5, <3>1
      <4> QED
        BY <1>2, <3>1, <4>1 DEF Again
    <3>2. CASE ~(t.next > p)
      BY <1>1, <3>2 DEF Again
    <3> QED
      BY <3>1, <3>2
  <2>6. CASE t.kind = "failed"
    BY <1>1, <1>3, <2>2, <2>4, <2>5, <2>6 DEF Outcome, Attempt
  <2>7. CASE t.kind = "match" /\ t.phonemes = <<>> /\ ignore
    <3>1. t.next \in p .. Len(text) + 1
      BY <1>0, <2>4, <2>7 DEF Attempt
    <3> QED
      BY <1>3, <2>2, <2>5, <2>7, <3>1 DEF Outcome
  <2>8. CASE t.kind # "failed" /\ ~(t.kind = "match" /\ t.phonemes = <<>> /\ ignore)
    <3>1. r = t
      BY <2>2, <2>8 DEF Outcome
    <3> QED
      BY <1>3, <2>4, <2>8, <3>1 DEF Attempt, Answered, RightResults
  <2> QED
    BY <2>6, <2>7, <2>8
<1> QED
  BY <1>0, <1>4, <1>5, <1>6, <1>7

(* A call asks for what is further on in the text only. *)
LEMMA SoughtSame ==
    ASSUME NEW l, PlainRules(l), NEW X, NEW text \in Seq(X), NEW previous \in Phonemes, NEW ignore \in BOOLEAN,
           NEW p \in 1 .. Len(text) + 1, NEW seek, Answering(text, seek, p + 1), NEW teek, Agree(seek, teek, text, p + 1)
    PROVE  Sought(seek, l, text, p, previous, ignore) = Sought(teek, l, text, p, previous, ignore)
<1>0. Len(text) \in Nat /\ p \in Nat
  OBVIOUS
<1>1. \A n \in p + 1 .. Len(text) + 1, i \in BOOLEAN : seek[<<n, previous, i>>] = teek[<<n, previous, i>>]
  <2>1. \A n \in p + 1 .. Len(text) + 1 : n \in 1 .. Len(text) + 1 /\ n >= p + 1
    BY <1>0
  <2> QED
    BY <2>1 DEF Agree
<1>4. CASE p > Len(text)
  BY <1>4, SoughtIs
<1>5. CASE p <= Len(text) /\ text[p] = l.boundary
  <2>1. p + 1 \in p + 1 .. Len(text) + 1
    BY <1>0, <1>5
  <2> QED
    BY <1>0, <1>1, <1>5, <2>1, SoughtIs
<1>6. CASE p <= Len(text) /\ text[p] # l.boundary /\ text[p] \notin DOMAIN l.l2p
  BY <1>0, <1>6, SoughtIs
<1>7. CASE p <= Len(text) /\ text[p] # l.boundary /\ text[p] \in DOMAIN l.l2p
  <2>1. PICK t : t = Tried(seek, l, text, l.l2p[text[p]], previous, p)
    OBVIOUS
  <2>2. PlainGroup(text[p], l.l2p[text[p]]) /\ PlainClasses(l) /\ p \in 1 .. Len(text)
    BY <1>0, <1>7 DEF PlainRules
  <2>3. t = Tried(teek, l, text, l.l2p[text[p]], previous, p)
    BY <2>1, <2>2, TriedSame
  <2>4. Attempt(text, t, p)
    BY <2>1, <2>2, TriedTyped
  <2>5. t.kind \in {"failed", "match"} => Again(seek, p, t.next, previous) = Again(teek, p, t.next, previous)
    <3> SUFFICES ASSUME t.kind \in {"failed", "match"}
                 PROVE  Again(seek, p, t.next, previous) = Again(teek, p, t.next, previous)
      OBVIOUS
    <3>1. t.next \in p .. Len(text) + 1
      BY <1>0, <2>4 DEF Attempt
    <3>2. t.next > p => t.next \in p + 1 .. Len(text) + 1
      BY <1>0, <3>1
    <3> QED
      BY <1>1, <3>2 DEF Again
  <2>6. Outcome(seek, t, p, previous, ignore) = Outcome(teek, t, p, previous, ignore)
    BY <2>5 DEF Outcome
  <2> QED
    BY <1>0, <1>7, <2>1, <2>3, <2>6, SoughtIs
<1> QED
  BY <1>0, <1>4, <1>5, <1>6, <1>7

-----------------------------------------------------------------------------
(* All calls of next_match for a text.                                      *)

Seeks(seek, l, text) == seek = [x \in Arguments(text) |-> Sought(seek, l, text, x[1], x[2], x[3])]

(* The recursion of next_match defines a function: its calls are of greater positions. *)
LEMMA SeekExists ==
    ASSUME NEW l, PlainRules(l), NEW X, NEW text \in Seq(X)
    PROVE  \E seek : Seeks(seek, l, text)
<1> DEFINE D == Arguments(text)
           N == Len(text)
           T == {f \in [D -> Results(text)] : Answering(text, f, 1)}
           At(f, x) == Sought(f, l, text, x[1], x[2], x[3])
           G == [f \in T |-> [x \in D |-> At(f, x)]]
           measure == [x \in D |-> (N + 1) - x[1]]
<1>0. N \in Nat
  OBVIOUS
<1>1. \A x \in D : x[1] \in 1 .. N + 1 /\ x[2] \in Phonemes /\ x[3] \in BOOLEAN
  BY DEF Arguments
<1>2. \A p \in 1 .. N + 1, prev \in Phonemes, ignore \in BOOLEAN :
          <<p, prev, ignore>> \in D /\ measure[<<p, prev, ignore>>] = (N + 1) - p
  BY DEF Arguments
<1>3. measure \in [D -> 0 .. N]
  BY <1>0, <1>1
<1>4. \A x \in D : measure[x] = (N + 1) - x[1]
  OBVIOUS
<1> HIDE DEF measure
<1>5. \A f \in T, p \in 1 .. N + 1 : Answering(text, f, p + 1)
  <2>1. \A p \in 1 .. N + 1 : p >= 1
    BY <1>0
  <2> QED
    BY <2>1 DEF Answering
<1>6. \A f \in T, x \in D : Answered(text, At(f, x), x[1], x[3])
  BY <1>1, <1>5, SoughtTyped
<1>7. G \in [T -> T]
  <2>1. ASSUME NEW f \in T
        PROVE  G[f] \in T
    <3>1. G[f] = [x \in D |-> At(f, x)]
      OBVIOUS
    <3> HIDE DEF G, At
    <3>2. \A x \in D : G[f][x] = At(f, x)
      BY <3>1
    <3>3. G[f] \in [D -> Results(text)]
      BY <1>6, <3>1 DEF Answered
    <3>4. Answering(text, G[f], 1)
      <4> SUFFICES ASSUME NEW p \in 1 .. N + 1, NEW prev \in Phonemes, NEW ignore \in BOOLEAN
                   PROVE  Answered(text, G[f][<<p, prev, ignore>>], p, ignore)
        BY DEF Answering
      <4>1. PICK x \in D : x = <<p, prev, ignore>>
        BY <1>2
      <4>2. x[1] = p /\ x[3] = ignore
        BY <4>1
      <4> QED
        BY <1>6, <3>2, <4>1, <4>2
    <3> QED
      BY <3>3, <3>4
  <2>2. G = [f \in T |-> G[f]]
    OBVIOUS
  <2> HIDE DEF G, T
  <2> QED
    BY <2>1, <2>2
<1>8. DependsBelow(G, T, D, measure)
  <2>1. \A f \in T : \A x \in D : G[f][x] = At(f, x)
    OBVIOUS
  <2>2. ASSUME NEW f \in T, NEW g \in T, NEW x \in D, \A y \in D : measure[y] < measure[x] => f[y] = g[y]
        PROVE  At(f, x) = At(g, x)
    <3>1. Agree(f, g, text, x[1] + 1)
      <4> SUFFICES ASSUME NEW p \in 1 .. N + 1, NEW prev \in Phonemes, NEW ignore \in BOOLEAN, p >= x[1] + 1
                   PROVE  f[<<p, prev, ignore>>] = g[<<p, prev, ignore>>]
        BY DEF Agree
      <4>1. (N + 1) - p < (N + 1) - x[1]
        BY <1>0, <1>1
      <4>2. <<p, prev, ignore>> \in D /\ measure[<<p, prev, ignore>>] < measure[x]
        BY <1>2, <1>4, <4>1
      <4> QED
        BY <2>2, <4>2
    <3> QED
      BY <1>1, <1>5, <3>1, SoughtSame
  <2> HIDE DEF At, D, T, G
  <2> QED
    BY <2>1, <2>2 DEF DependsBelow
<1>9. T # {}
  <2>1. Answered(text, Result("end"), 0, TRUE) /\ Result("end") \in Results(text) /\ Result("end").kind = "end"
    BY ResultIs DEF Answered
  <2> DEFINE f == [x \in D |-> Result("end")]
  <2>2. f \in [D -> Results(text)]
    BY <2>1
  <2>3. Answering(text, f, 1)
    <3>1. \A p \in 1 .. N + 1, prev \in Phonemes, ignore \in BOOLEAN : f[<<p, prev, ignore>>] = Result("end")
      BY <1>2
    <3> HIDE DEF f
    <3> QED
      BY <2>1, <3>1 DEF Answering, Answered
  <2> QED
    BY <2>2, <2>3
<1>10. PICK seek \in T : G[seek] = seek
  <2> HIDE DEF G, T, D, N
  <2>1. T \in SUBSET [D -> Results(text)]
    BY DEF T
  <2>2. Measured(G, T, D, Results(text), measure, N)
    BY <1>3, <1>7, <1>8, <1>9, <2>1 DEF Measured
  <2> QED
    BY <1>0, <2>2, RecursionBelow
<1>11. seek = [x \in D |-> At(seek, x)]
  BY <1>10
<1> QED
  BY <1>11 DEF Seeks

(* next_match: the text up to the rule it finds is boundaries, and the rule   *)
(* is one of the group of the letter there, whose context is the text.        *)
Found(l, text, r, p) ==
    \E first \in p .. r.next - 1 :
        /\ first \in 1 .. Len(text) /\ r.next \in 1 .. Len(text) + 1 /\ r.phonemes \in Seq(Phonemes)
        /\ text[first] # l.boundary /\ \A k \in p .. first - 1 : text[k] = l.boundary
        /\ \E rule \in ToSet(l.l2p[text[first]]) :
               rule.context = SubSeq(text, first, r.next - 1) /\ rule.value = r.phonemes

Ends(l, text, p) == \A k \in p .. Len(text) : text[k] = l.boundary

Tells(l, text, r, p) ==
    /\ r.kind = "match" => Found(l, text, r, p)
    /\ r.kind = "end" => Ends(l, text, p)

(* One call, whose call of itself behind a boundary tells this. *)
LEMMA SoughtTells ==
    ASSUME NEW l, PlainRules(l), NEW X, NEW text \in Seq(X), NEW previous \in Phonemes,
           NEW p \in 1 .. Len(text) + 1, NEW seek, Answering(text, seek, p + 1),
           p <= Len(text) => Tells(l, text, seek[<<p + 1, previous, FALSE>>], p + 1)
    PROVE  Tells(l, text, Sought(seek, l, text, p, previous, FALSE), p)
<1>0. Len(text) \in Nat /\ p \in Nat /\ p >= 1
  OBVIOUS
<1>1. PICK r : r = Sought(seek, l, text, p, previous, FALSE)
  OBVIOUS
<1>2. CASE p > Len(text)
  <2>1. r.kind = "end"
    BY <1>1, <1>2, SoughtIs, ResultIs
  <2>2. p .. Len(text) = {}
    BY <1>0, <1>2
  <2> QED
    BY <1>1, <2>1, <2>2 DEF Tells, Ends
<1>3. CASE p <= Len(text) /\ text[p] = l.boundary
  <2>0. ~(p > Len(text)) /\ p \in 1 .. Len(text)
    BY <1>0, <1>3
  <2>1. r = seek[<<p + 1, previous, FALSE>>]
    BY <1>1, <1>3, <2>0, SoughtIs
  <2>2. Tells(l, text, r, p + 1)
    BY <1>3, <2>1
  <2>3. \A k : k \in p .. Len(text) => k = p \/ k \in p + 1 .. Len(text)
    BY <1>0
  <2>4. CASE r.kind = "end"
    BY <1>1, <1>3, <2>2, <2>3, <2>4 DEF Tells, Ends
  <2>5. CASE r.kind = "match"
    <3>1. PICK first \in p + 1 .. r.next - 1 :
             /\ first \in 1 .. Len(text) /\ r.next \in 1 .. Len(text) + 1 /\ r.phonemes \in Seq(Phonemes)
             /\ text[first] # l.boundary /\ \A k \in p + 1 .. first - 1 : text[k] = l.boundary
             /\ \E rule \in ToSet(l.l2p[text[first]]) :
                    rule.context = SubSeq(text, first, r.next - 1) /\ rule.value = r.phonemes
      BY <2>2, <2>5 DEF Tells, Found
    <3>2. first \in p .. r.next - 1 /\ \A k \in p .. first - 1 : k = p \/ k \in p + 1 .. first - 1
      BY <1>0, <3>1
    <3>3. \A k \in p .. first - 1 : text[k] = l.boundary
      BY <1>3, <3>1, <3>2
    <3>4. Found(l, text, r, p)
      BY <3>1, <3>2, <3>3 DEF Found
    <3> QED
      BY <1>1, <2>5, <3>4 DEF Tells
  <2>6. CASE r.kind \notin {"end", "match"}
    BY <1>1, <2>6 DEF Tells
  <2> QED
    BY <2>4, <2>5, <2>6
<1>4. CASE p <= Len(text) /\ text[p] # l.boundary
  <2>0. ~(p > Len(text)) /\ p \in 1 .. Len(text)
    BY <1>0, <1>4
  <2>1. CASE text[p] \notin DOMAIN l.l2p
    <3>1. r = Result("throw")
      BY <1>1, <1>4, <2>0, <2>1, SoughtIs
    <3>2. r.kind = "throw"
      BY <3>1, ResultIs
    <3> QED
      BY <1>1, <3>2 DEF Tells
  <2>2. CASE text[p] \in DOMAIN l.l2p
    <3>1. PICK t : t = Tried(seek, l, text, l.l2p[text[p]], previous, p)
      OBVIOUS
    <3>2. r = Outcome(seek, t, p, previous, FALSE)
      BY <1>1, <1>4, <2>0, <2>2, <3>1, SoughtIs
    <3>3. PlainGroup(text[p], l.l2p[text[p]]) /\ PlainClasses(l)
      BY <2>2 DEF PlainRules
    <3>4. /\ Attempt(text, t, p)
          /\ t.kind = "match" => \E rule \in ToSet(l.l2p[text[p]]) : Matched(text, t, rule, p)
      BY <2>0, <3>1, <3>3, TriedTyped
    <3>5. CASE t.kind = "failed"
      <4>1. r.kind = "throw"
        BY <3>2, <3>5, ResultIs DEF Outcome
      <4> QED
        BY <1>1, <4>1 DEF Tells
    <3>6. CASE t.kind # "failed"
      <4>1. r = t /\ t.kind # "end"
        BY <3>2, <3>4, <3>6 DEF Outcome, Attempt, RightResults
      <4>2. CASE t.kind = "match"
        <5>1. PICK rule \in ToSet(l.l2p[text[p]]) : Matched(text, t, rule, p)
          BY <3>4, <4>2
        <5>2. t.next \in p + 1 .. Len(text) + 1 /\ t.phonemes = rule.value /\ rule.context = SubSeq(text, p, t.next - 1)
          BY <5>1 DEF Matched
        <5>3. t.phonemes \in Seq(Phonemes)
          BY <3>4 DEF Attempt, RightResults, Results
        <5>4. p \in p .. t.next - 1 /\ t.next \in 1 .. Len(text) + 1 /\ p .. p - 1 = {}
          BY <1>0, <5>2
        <5>5. Found(l, text, t, p)
          BY <1>4, <2>0, <5>2, <5>3, <5>4 DEF Found
        <5> QED
          BY <1>1, <4>1, <4>2, <5>5 DEF Tells
      <4>3. CASE t.kind # "match"
        BY <1>1, <4>1, <4>3 DEF Tells
      <4> QED
        BY <4>2, <4>3
    <3> QED
      BY <3>5, <3>6
  <2> QED
    BY <2>1, <2>2
<1>5. p > Len(text) \/ p <= Len(text)
  BY <1>0
<1> QED
  BY <1>2, <1>3, <1>4, <1>5

(* Every call does, from the end of the text on. *)
LEMMA SeekTells ==
    ASSUME NEW l, PlainRules(l), NEW X, NEW text \in Seq(X), NEW seek, Seeks(seek, l, text)
    PROVE  \A p \in 1 .. Len(text) + 1, prev \in Phonemes :
               Tells(l, text, seek[<<p, prev, FALSE>>], p) /\ Answered(text, seek[<<p, prev, FALSE>>], p, FALSE)
<1> DEFINE N == Len(text)
           At(p) == Answering(text, seek, p) /\ \A prev \in Phonemes : Tells(l, text, seek[<<p, prev, FALSE>>], p)
           S == {m \in 0 .. N : At((N + 1) - m)}
<1>0. N \in Nat
  OBVIOUS
<1>1. \A p \in 1 .. N + 1, prev \in Phonemes, ignore \in BOOLEAN :
          seek[<<p, prev, ignore>>] = Sought(seek, l, text, p, prev, ignore)
  BY DEF Seeks, Arguments
<1>2. ASSUME NEW p \in 1 .. N + 1, p <= N => At(p + 1)
      PROVE  At(p)
  <2>1. Answering(text, seek, p + 1)
    <3>1. CASE p <= N
      BY <1>2, <3>1
    <3>2. CASE ~(p <= N)
      <4>1. \A q \in 1 .. N + 1 : ~(q >= p + 1)
        BY <1>0, <3>2
      <4> QED
        BY <4>1 DEF Answering
    <3> QED
      BY <3>1, <3>2
  <2>2. Answering(text, seek, p)
    <3> SUFFICES ASSUME NEW q \in 1 .. N + 1, NEW prev \in Phonemes, NEW ignore \in BOOLEAN, q >= p
                 PROVE  Answered(text, seek[<<q, prev, ignore>>], q, ignore)
      BY DEF Answering
    <3>1. CASE q = p
      BY <1>1, <2>1, <3>1, SoughtTyped
    <3>2. CASE q # p
      <4>1. q >= p + 1
        BY <3>2
      <4> QED
        BY <2>1, <4>1 DEF Answering
    <3> QED
      BY <3>1, <3>2
  <2>3. ASSUME NEW prev \in Phonemes
        PROVE  Tells(l, text, seek[<<p, prev, FALSE>>], p)
    <3>1. p <= N => Tells(l, text, seek[<<p + 1, prev, FALSE>>], p + 1)
      BY <1>2
    <3>2. Tells(l, text, Sought(seek, l, text, p, prev, FALSE), p)
      BY <2>1, <3>1, SoughtTells
    <3>3. FALSE \in BOOLEAN
      OBVIOUS
    <3> QED
      BY <1>1, <3>2, <3>3
  <2> QED
    BY <2>2, <2>3
<1>3. 0 \in S
  <2>1. (N + 1) - 0 = N + 1 /\ N + 1 \in 1 .. N + 1 /\ ~(N + 1 <= N) /\ 0 \in 0 .. N
    BY <1>0
  <2> HIDE DEF At
  <2> QED
    BY <1>2, <2>1
<1>4. ASSUME NEW m \in 0 .. N - 1, m \in S
      PROVE  m + 1 \in S
  <2>0. (N + 1) - (m + 1) \in 1 .. N + 1
    BY <1>0
  <2>1. PICK p \in 1 .. N + 1 : p = (N + 1) - (m + 1)
    BY <2>0
  <2>2. p + 1 = (N + 1) - m /\ m + 1 \in 0 .. N
    BY <1>0, <2>1
  <2> HIDE DEF At
  <2>3. At(p + 1)
    BY <1>4, <2>2
  <2> QED
    BY <1>2, <2>1, <2>2, <2>3
<1> HIDE DEF At
<1>5. \A m \in 0 .. N : m \in S
  <2> HIDE DEF S
  <2> QED
    BY <1>0, <1>3, <1>4, InductionTo DEF Inductive
<1>6. ASSUME NEW p \in 1 .. N + 1
      PROVE  At(p)
  <2>1. PICK m \in 0 .. N : (N + 1) - m = p
    <3>1. (N + 1) - p \in 0 .. N /\ (N + 1) - ((N + 1) - p) = p
      BY <1>0
    <3> QED
      BY <3>1
  <2> QED
    BY <1>5, <2>1
<1> SUFFICES ASSUME NEW p \in 1 .. N + 1, NEW prev \in Phonemes
             PROVE  Tells(l, text, seek[<<p, prev, FALSE>>], p) /\ Answered(text, seek[<<p, prev, FALSE>>], p, FALSE)
  OBVIOUS
<1>7. p >= p /\ FALSE \in BOOLEAN
  BY <1>0
<1> QED
  BY <1>6, <1>7 DEF At, Answering

(* So does next_match, which is the function of that recursion. *)
LEMMA NextMatchTells ==
    ASSUME NEW l, PlainRules(l), NEW X, NEW text \in Seq(X), NEW p \in 1 .. Len(text) + 1, NEW prev \in Phonemes
    PROVE  /\ Tells(l, text, next_match(l, text, p, prev, FALSE), p)
           /\ Answered(text, next_match(l, text, p, prev, FALSE), p, FALSE)
<1> DEFINE Is(s) == Seeks(s, l, text)
           seek == CHOOSE s : Is(s)
<1>1. next_match(l, text, p, prev, FALSE) = seek[<<p, prev, FALSE>>]
  BY DEF next_match, Seeks, Arguments
<1>2. Is(seek)
  <2>1. \E s : Is(s)
    BY SeekExists
  <2> HIDE DEF Is
  <2> QED
    BY <2>1
<1> HIDE DEF seek
<1> QED
  BY <1>1, <1>2, SeekTells

-----------------------------------------------------------------------------
(* The rewriting of a word.                                                 *)

(* The rule that is taken at position p, what it writes and where it goes on. *)
Choice(l, text, p) == SelectInSeq(Group(l.rewrite, text[p]), LAMBDA rule : Rewrites(l, text, rule, p))
Piece(l, text, p) ==
    IF Choice(l, text, p) = 0 THEN <<text[p]>> ELSE Group(l.rewrite, text[p])[Choice(l, text, p)].value
Onwards(l, text, p) ==
    IF Choice(l, text, p) = 0 THEN p + 1
    ELSE Context(l, text, Group(l.rewrite, text[p])[Choice(l, text, p)], p).at
IsRewritten(f, l, text) ==
    f = [p \in 1 .. Len(text) + 1 |-> IF p > Len(text) THEN <<>> ELSE Piece(l, text, p) \o f[Onwards(l, text, p)]]

(* What is rewritten is the first value of such a function. *)
LEMMA RewrittenIs ==
    ASSUME NEW l, NEW text, \E f : IsRewritten(f, l, text)
    PROVE  \E f : IsRewritten(f, l, text) /\ Rewritten(l, text) = f[1]
<1> DEFINE Is(f) == f = [p \in 1 .. Len(text) + 1 |->
                            IF p > Len(text) THEN <<>>
                            ELSE IF Choice(l, text, p) = 0 THEN <<text[p]>> \o f[p + 1]
                            ELSE Group(l.rewrite, text[p])[Choice(l, text, p)].value
                                     \o f[Context(l, text, Group(l.rewrite, text[p])[Choice(l, text, p)], p).at]]
<1>1. Rewritten(l, text) = (CHOOSE f : Is(f))[1]
  BY DEF Rewritten, Choice
<1>2. \A f : Is(f) <=> IsRewritten(f, l, text)
  BY DEF IsRewritten, Piece, Onwards
<1> HIDE DEF Is
<1> QED
  BY <1>1, <1>2

(* The rule that is taken is one of the group of the letter and moves on. *)
LEMMA ChoiceIs ==
    ASSUME NEW l, PlainClasses(l), WellGrouped(l.rewrite), NEW A, NEW text \in Seq(A), NEW p \in 1 .. Len(text),
           Choice(l, text, p) # 0
    PROVE  \E rule : /\ text[p] \in DOMAIN l.rewrite /\ rule \in ToSet(l.rewrite[text[p]])
                     /\ rule = Group(l.rewrite, text[p])[Choice(l, text, p)]
                     /\ Context(l, text, rule, p).at \in p + 1 .. Len(text) + 1
<1> DEFINE group == Group(l.rewrite, text[p])
           I == {i \in 1 .. Len(group) : Rewrites(l, text, group[i], p)}
           i == Choice(l, text, p)
<1>0. Len(text) \in Nat /\ p \in 1 .. Len(text) + 1
  OBVIOUS
<1>1. i = IF I # {} THEN Min(I) ELSE 0
  BY DEF Choice, SelectInSeq
<1>2. CASE text[p] \notin DOMAIN l.rewrite
  <2>1. group = <<>>
    BY <1>2 DEF Group
  <2>2. I = {}
    BY <2>1
  <2> QED
    BY <1>1, <2>2
<1>3. CASE text[p] \in DOMAIN l.rewrite
  <2>1. group = l.rewrite[text[p]]
    BY <1>3 DEF Group
  <2>2. /\ group \in Seq(ToSet(group)) /\ Kind(text[p]) = "letter"
        /\ \A rule \in ToSet(group) : IsSequence(rule.context) /\ rule.context # <<>> /\ Head(rule.context) = text[p]
    BY <1>3, <2>1 DEF WellGrouped, IsSequence
  <2>3. I # {} => Min(I) \in I
    <3>1. I \in SUBSET Nat
      BY <2>2
    <3> HIDE DEF I
    <3> QED
      BY <3>1, LeastNumber DEF Min
  <2>4. i \in 1 .. Len(group) /\ Rewrites(l, text, group[i], p)
    BY <1>1, <2>3
  <2> HIDE DEF i, group
  <2>5. PICK rule : rule = group[i]
    OBVIOUS
  <2>6. rule \in ToSet(group)
    BY <2>2, <2>4, <2>5 DEF ToSet
  <2>7. Context(l, text, rule, p).ok
    BY <2>4, <2>5 DEF Rewrites
  <2>8. Context(l, text, rule, p).at \in p + 1 .. Len(text) + 1
    BY <1>0, <2>2, <2>6, <2>7, ContextFacts
  <2> QED
    BY <1>3, <2>1, <2>5, <2>6, <2>8 DEF i, group
<1> QED
  BY <1>2, <1>3

Writes(l, A) == \A c \in DOMAIN l.rewrite : \A rule \in ToSet(l.rewrite[c]) : rule.value \in Seq(A)

(* Where the rules go on is further on in the text. *)
LEMMA PieceIs ==
    ASSUME NEW l, PlainClasses(l), WellGrouped(l.rewrite), NEW A, Writes(l, A), NEW text \in Seq(A),
           NEW p \in 1 .. Len(text)
    PROVE  Piece(l, text, p) \in Seq(A) /\ Onwards(l, text, p) \in p + 1 .. Len(text) + 1
<1>0. Len(text) \in Nat
  OBVIOUS
<1>1. CASE Choice(l, text, p) = 0
  <2>1. text[p] \in A /\ p + 1 \in p + 1 .. Len(text) + 1
    BY <1>0
  <2> QED
    BY <1>1, <2>1 DEF Piece, Onwards
<1>2. CASE Choice(l, text, p) # 0
  <2>1. PICK rule : /\ text[p] \in DOMAIN l.rewrite /\ rule \in ToSet(l.rewrite[text[p]])
                    /\ rule = Group(l.rewrite, text[p])[Choice(l, text, p)]
                    /\ Context(l, text, rule, p).at \in p + 1 .. Len(text) + 1
    BY <1>2, ChoiceIs
  <2>2. rule.value \in Seq(A)
    BY <2>1 DEF Writes
  <2> QED
    BY <1>2, <2>1, <2>2 DEF Piece, Onwards
<1> QED
  BY <1>1, <1>2

Wheres(l, text) == [p \in 1 .. Len(text) |-> Onwards(l, text, p)]
Pieces(l, text, A) == [y \in (1 .. Len(text)) \X Seq(A) |-> Piece(l, text, y[1]) \o y[2]]

(* They are what a recursion from the end of the text needs. *)
LEMMA PiecesAre ==
    ASSUME NEW l, PlainClasses(l), WellGrouped(l.rewrite), NEW A, Writes(l, A), NEW text \in Seq(A)
    PROVE  Wheres(l, text) \in Onward(Len(text)) /\ Pieces(l, text, A) \in Steps(Len(text), Seq(A))
<1>1. Wheres(l, text) \in Onward(Len(text))
  <2>1. \A p \in 1 .. Len(text) : Onwards(l, text, p) \in 2 .. Len(text) + 1 /\ p < Onwards(l, text, p)
    <3> TAKE p \in 1 .. Len(text)
    <3>1. Onwards(l, text, p) \in p + 1 .. Len(text) + 1
      BY PieceIs
    <3> QED
      BY <3>1
  <2> QED
    BY <2>1 DEF Wheres, Onward
<1>2. Pieces(l, text, A) \in Steps(Len(text), Seq(A))
  <2>1. \A y \in (1 .. Len(text)) \X Seq(A) : Piece(l, text, y[1]) \o y[2] \in Seq(A)
    <3> TAKE y \in (1 .. Len(text)) \X Seq(A)
    <3>1. PICK u, v : u = Piece(l, text, y[1]) /\ v = y[2]
      OBVIOUS
    <3>2. u \in Seq(A) /\ v \in Seq(A)
      <4>1. y[1] \in 1 .. Len(text) /\ y[2] \in Seq(A)
        OBVIOUS
      <4> QED
        BY <3>1, <4>1, PieceIs
    <3>3. u \o v \in Seq(A)
      BY <3>2
    <3> QED
      BY <3>1, <3>3
  <2> QED
    BY <2>1 DEF Pieces, Steps
<1> QED
  BY <1>1, <1>2

(* The text that is written is determined from its end. *)
LEMMA RewritesAgree ==
    ASSUME NEW l, PlainClasses(l), WellGrouped(l.rewrite), NEW A, Writes(l, A), NEW text \in Seq(A),
           NEW f, NEW g, IsRewritten(f, l, text), IsRewritten(g, l, text)
    PROVE  f[1] = g[1]
<1>1. Len(text) \in Nat /\ Wheres(l, text) \in Onward(Len(text))
  BY PiecesAre
<1>2. ASSUME NEW h, IsRewritten(h, l, text)
      PROVE  /\ h[Len(text) + 1] = <<>>
             /\ \A i \in 1 .. Len(text) : h[i] = Piece(l, text, i) \o h[Onwards(l, text, i)]
  <2>1. Len(text) + 1 > Len(text) /\ Len(text) + 1 \in 1 .. Len(text) + 1
    BY <1>1
  <2>2. \A i \in 1 .. Len(text) : i \in 1 .. Len(text) + 1 /\ ~(i > Len(text))
    BY <1>1
  <2> QED
    BY <1>2, <2>1, <2>2 DEF IsRewritten
<1>3. f[Len(text) + 1] = g[Len(text) + 1]
  BY <1>2
<1>4. ASSUME NEW i \in 1 .. Len(text), f[Wheres(l, text)[i]] = g[Wheres(l, text)[i]]
      PROVE  f[i] = g[i]
  <2>1. Wheres(l, text)[i] = Onwards(l, text, i)
    BY DEF Wheres
  <2> QED
    BY <1>2, <1>4, <2>1
<1>5. \A i \in 1 .. Len(text) + 1 : f[i] = g[i]
  BY <1>1, <1>3, <1>4, OnwardSame
<1> QED
  BY <1>1, <1>5

(* The rewritten text is of the letters of the text and of the replacements. *)
LEMMA RewriteTyped ==
    ASSUME NEW l, PlainClasses(l), WellGrouped(l.rewrite), NEW A, Writes(l, A), NEW text \in Seq(A)
    PROVE  rewrite(l, text) \in Seq(A)
<1>0. Len(text) \in Nat /\ <<>> \in Seq(A)
  OBVIOUS
<1>1. Wheres(l, text) \in Onward(Len(text)) /\ Pieces(l, text, A) \in Steps(Len(text), Seq(A))
  BY PiecesAre
<1>2. PICK g \in [1 .. Len(text) + 1 -> Seq(A)] :
          IsOnward(g, Len(text), Wheres(l, text), <<>>, Pieces(l, text, A))
  BY <1>0, <1>1, OnwardExists
<1>3. IsRewritten(g, l, text)
  <2>1. \A p \in 1 .. Len(text) : Wheres(l, text)[p] = Onwards(l, text, p) /\ Onwards(l, text, p) \in 1 .. Len(text) + 1
    <3> TAKE p \in 1 .. Len(text)
    <3>1. Onwards(l, text, p) \in p + 1 .. Len(text) + 1
      BY PieceIs
    <3> QED
      BY <1>0, <3>1 DEF Wheres
  <2>2. \A p \in 1 .. Len(text), s \in Seq(A) : Pieces(l, text, A)[<<p, s>>] = Piece(l, text, p) \o s
    BY DEF Pieces
  <2>3. g[Len(text) + 1] = <<>> /\ \A p \in 1 .. Len(text) : g[p] = Piece(l, text, p) \o g[Onwards(l, text, p)]
    BY <1>2, <2>1, <2>2 DEF IsOnward
  <2>4. \A p \in 1 .. Len(text) + 1 : IF p > Len(text) THEN p = Len(text) + 1 ELSE p \in 1 .. Len(text)
    BY <1>0
  <2>5. \A p \in 1 .. Len(text) + 1 : g[p] = IF p > Len(text) THEN <<>> ELSE Piece(l, text, p) \o g[Onwards(l, text, p)]
    BY <2>3, <2>4
  <2>6. g = [p \in 1 .. Len(text) + 1 |-> g[p]]
    OBVIOUS
  <2> QED
    BY <2>5, <2>6 DEF IsRewritten
<1>4. PICK f : IsRewritten(f, l, text) /\ Rewritten(l, text) = f[1]
  BY <1>3, RewrittenIs
<1>5. f[1] = g[1] /\ g[1] \in Seq(A)
  BY <1>0, <1>3, <1>4, RewritesAgree
<1> QED
  BY <1>4, <1>5 DEF rewrite

(* A sequence is one of its elements. *)
LEMMA OfItsElements ==
    ASSUME NEW A, NEW s \in Seq(A)
    PROVE  IsSequence(s)
<1>1. Len(s) \in Nat /\ s = [i \in 1 .. Len(s) |-> s[i]]
  OBVIOUS
<1>2. \A i \in 1 .. Len(s) : s[i] \in ToSet(s)
  BY DEF ToSet
<1> QED
  BY <1>1, <1>2 DEF IsSequence

(* The rules of a plain language are plain. *)
LEMMA PlainIs ==
    ASSUME NEW l, PlainLanguage(l)
    PROVE  PlainRules(l) /\ PlainClasses(l) /\ WellGrouped(l.rewrite)
<1>1. PlainClasses(l) /\ WellGrouped(l.rewrite)
  BY DEF PlainLanguage, PlainClasses
<1>2. ASSUME NEW c \in DOMAIN l.l2p
      PROVE  PlainGroup(c, l.l2p[c])
  <2>1. PICK group : group = l.l2p[c]
    OBVIOUS
  <2>2. IsSequence(group) /\ Kind(c) = "letter"
    BY <2>1 DEF PlainLanguage, WellGrouped
  <2>3. ASSUME NEW i \in 1 .. Len(group)
        PROVE  PlainRule(c, group[i])
    <3>1. PICK rule : rule = group[i]
      OBVIOUS
    <3>2. rule \in ToSet(l.l2p[c])
      BY <2>1, <2>2, <3>1 DEF IsSequence, ToSet
    <3>3. /\ IsSequence(rule.context) /\ IsSequence(rule.right) /\ IsSequence(rule.value)
          /\ rule.context # <<>> /\ Head(rule.context) = c
      BY <3>2 DEF PlainLanguage, WellGrouped
    <3>4. (\A e \in ToSet(rule.context) : Kind(e) = "letter") /\ ToSet(rule.value) \subseteq Phonemes
      BY <3>2 DEF PlainLanguage
    <3>5. rule.value \in Seq(Phonemes)
      <4>1. rule.value \in Seq(ToSet(rule.value))
        BY <3>3 DEF IsSequence
      <4> QED
        BY <3>4, <4>1
    <3>6. Letters(rule.context)
      <4>1. \A j \in 1 .. Len(rule.context) : rule.context[j] \in ToSet(rule.context)
        BY <3>3 DEF IsSequence, ToSet
      <4> QED
        BY <3>4, <4>1 DEF Letters
    <3>7. PlainRule(c, rule)
      BY <3>3, <3>5, <3>6 DEF PlainRule
    <3> QED
      BY <3>1, <3>7
  <2> QED
    BY <2>1, <2>2, <2>3 DEF PlainGroup
<1> QED
  BY <1>1, <1>2 DEF PlainRules

(* What a word is rewritten to is a sequence. *)
LEMMA RewriteOfWord ==
    ASSUME NEW l, PlainLanguage(l), NEW word \in Words
    PROVE  IsSequence(rewrite(l, word))
<1> DEFINE Given(c) == {ToSet(rule.value) : rule \in ToSet(l.rewrite[c])}
           A == (UNION {ToSet(w) : w \in Words}) \cup UNION UNION {Given(c) : c \in DOMAIN l.rewrite}
<1>1. Writes(l, A)
  <2> SUFFICES ASSUME NEW c \in DOMAIN l.rewrite, NEW rule \in ToSet(l.rewrite[c])
               PROVE  rule.value \in Seq(A)
    BY DEF Writes
  <2>1. rule.value \in Seq(ToSet(rule.value))
    BY DEF PlainLanguage, WellGrouped, IsSequence
  <2>2. ToSet(rule.value) \subseteq A
    <3>1. ToSet(rule.value) \in Given(c)
      OBVIOUS
    <3> HIDE DEF Given
    <3> QED
      BY <3>1
  <2> HIDE DEF A
  <2> QED
    BY <2>1, <2>2
<1>2. word \in Seq(A)
  <2>1. word \in Seq(UNION {ToSet(w) : w \in Words})
    BY WordsAssumption
  <2>2. (UNION {ToSet(w) : w \in Words}) \subseteq A
    OBVIOUS
  <2> DEFINE B == UNION {ToSet(w) : w \in Words}
  <2> HIDE DEF A, B
  <2>3. word \in Seq(B) /\ B \subseteq A
    BY <2>1, <2>2 DEF B
  <2> QED
    BY <2>3
<1> HIDE DEF A
<1>3. rewrite(l, word) \in Seq(A)
  BY <1>1, <1>2, PlainIs, RewriteTyped
<1> QED
  BY <1>3, OfItsElements

-----------------------------------------------------------------------------
(* Each letter is pronounced.                                               *)

\* A rule spoke the letters of a text from `first` on.
Says(l, text, span, first) ==
    /\ text[first] # l.boundary /\ \A p \in span.from .. first - 1 : text[p] = l.boundary
    /\ \E rule \in ToSet(l.l2p[text[first]]) :
           rule.context = SubSeq(text, first, span.to - 1) /\ rule.value = span.phonemes

\* What was read of a word: the letters before mCurrent belong to the rules that
\* were found, and each of these spoke its own letters.
Covered == \A p \in 1 .. mCurrent - 1 :
               mBuffer[p] # lang.boundary => \E i \in 1 .. Len(spans) : p \in spans[i].from .. spans[i].to - 1
AllSpoken == \A i \in 1 .. Len(spans) : \E first \in spans[i].from .. spans[i].to - 1 : Spoken(spans[i], first)

Spelled ==
    /\ IsSequence(mBuffer) /\ mCurrent \in 1 .. Len(mBuffer) + 1
    /\ phoneme \in Phonemes /\ phonemes \in Seq(Phonemes)
    /\ IsSequence(spans) /\ Covered /\ AllSpoken
    /\ reading = "end" => Ends(lang, mBuffer, mCurrent)

\* A word is read with a language that was loaded, and does not change.
ReadingInv == reading # "idle" => loaded = "yes" /\ (PlainLanguage(lang) => Spelled)

(* A step that touches neither the reader nor a language that is loaded. *)
LEMMA ReadingSame ==
    ASSUME ReadingInv, UNCHANGED readerVars, loaded = "yes" => UNCHANGED loaderVars
    PROVE  ReadingInv'
<1>1. UNCHANGED <<mBuffer, mCurrent, phonemes, phoneme, reading, spans>>
  BY DEF readerVars
<1>2. CASE reading = "idle"
  BY <1>1, <1>2 DEF ReadingInv
<1>3. CASE reading # "idle"
  <2>1. loaded = "yes" /\ UNCHANGED <<lang, loaded>>
    BY <1>3 DEF ReadingInv, loaderVars
  <2>2. Spelled => Spelled'
    BY <1>1, <2>1 DEF Spelled, Covered, AllSpoken, Spoken, Ends
  <2> QED
    BY <1>1, <1>3, <2>1, <2>2 DEF ReadingInv
<1> QED
  BY <1>2, <1>3

(* A word that is begun has been read up to its first letter. *)
LEMMA ResetSpells ==
    ASSUME ReadingInv, NEW word \in Words, Reset(word)
    PROVE  ReadingInv'
<1> SUFFICES ASSUME PlainLanguage(lang)
             PROVE  Spelled'
  BY DEF Reset, ReadingInv, loaderVars
<1>1. IsSequence(mBuffer')
  BY RewriteOfWord DEF Reset
<1>2. mCurrent' = 1 /\ phonemes' = <<>> /\ spans' = <<>> /\ phoneme' = "unspecified" /\ reading' = "reading"
  BY DEF Reset
<1>3. Len(mBuffer') \in Nat
  BY <1>1 DEF IsSequence
<1>4. mCurrent' \in 1 .. Len(mBuffer') + 1 /\ phonemes' \in Seq(Phonemes) /\ phoneme' \in Phonemes
  BY <1>2, <1>3, MatchingAssumption DEF Phonemes
<1>5. IsSequence(spans')
  BY <1>2 DEF IsSequence
<1>6. Covered' /\ AllSpoken'
  BY <1>2 DEF Covered, AllSpoken
<1> QED
  BY <1>1, <1>2, <1>4, <1>5, <1>6 DEF Spelled, IsSequence

(* A phoneme that is delivered leaves the position and the rules alone. *)
LEMMA PhonemeSpells ==
    ASSUME ReadingInv, ReadPhoneme
    PROVE  ReadingInv'
<1>1. UNCHANGED <<lang, loaded, mBuffer, mCurrent, reading, spans>> /\ reading = "reading" /\ phonemes # <<>>
  BY DEF ReadPhoneme, loaderVars
<1> SUFFICES ASSUME PlainLanguage(lang), Spelled
             PROVE  Spelled'
  BY <1>1 DEF ReadingInv
<1>2. phoneme' \in Phonemes /\ phonemes' \in Seq(Phonemes)
  BY <1>1 DEF ReadPhoneme, Spelled
<1> QED
  BY <1>1, <1>2 DEF Spelled, Covered, AllSpoken, Spoken, Ends

(* A rule that is found covers the letters it moves over. *)
LEMMA MatchSpells ==
    ASSUME ReadingInv, ReadMatch
    PROVE  ReadingInv'
<1>1. UNCHANGED <<lang, loaded, mBuffer, phoneme>> /\ reading = "reading"
  BY DEF ReadMatch, loaderVars
<1> SUFFICES ASSUME PlainLanguage(lang), Spelled
             PROVE  Spelled'
  BY <1>1 DEF ReadingInv
<1>2. PICK m : m = next_match(lang, mBuffer, mCurrent, phoneme, FALSE)
  OBVIOUS
<1>3. Tells(lang, mBuffer, m, mCurrent)
  BY <1>2, PlainIs, NextMatchTells DEF Spelled, IsSequence
<1>4. mBuffer \in Seq(ToSet(mBuffer)) /\ spans \in Seq(ToSet(spans)) /\ mCurrent \in 1 .. Len(mBuffer) + 1
  BY DEF Spelled, IsSequence
<1>5. CASE m.kind = "match"
  <2>1. PICK first \in mCurrent .. m.next - 1 :
           /\ first \in 1 .. Len(mBuffer) /\ m.next \in 1 .. Len(mBuffer) + 1 /\ m.phonemes \in Seq(Phonemes)
           /\ mBuffer[first] # lang.boundary /\ \A k \in mCurrent .. first - 1 : mBuffer[k] = lang.boundary
           /\ \E rule \in ToSet(lang.l2p[mBuffer[first]]) :
                  rule.context = SubSeq(mBuffer, first, m.next - 1) /\ rule.value = m.phonemes
    BY <1>3, <1>5 DEF Tells, Found
  <2>2. PICK span : span = [from |-> mCurrent, to |-> m.next, previous |-> phoneme,
                            phonemes |-> m.phonemes, ahead |-> m.ahead]
    OBVIOUS
  <2>3. mCurrent' = m.next /\ phonemes' = m.phonemes /\ spans' = Append(spans, span) /\ reading' = "reading"
    BY <1>1, <1>2, <1>5, <2>2 DEF ReadMatch, NextMatch
  <2>4. span.from = mCurrent /\ span.to = m.next /\ span.phonemes = m.phonemes
    BY <2>2
  <2>5. /\ spans' \in Seq(ToSet(spans) \cup {span}) /\ Len(spans) \in Nat /\ Len(spans') = Len(spans) + 1
        /\ spans'[Len(spans) + 1] = span /\ \A i \in 1 .. Len(spans) : spans'[i] = spans[i]
    BY <1>4, <2>3
  <2>6. IsSequence(spans')
    BY <2>5, OfItsElements
  <2>7. \A i \in 1 .. Len(spans) : i \in 1 .. Len(spans')
    BY <2>5
  <2>8. Len(spans) + 1 \in 1 .. Len(spans') /\ \A i \in 1 .. Len(spans') : i \in 1 .. Len(spans) \/ i = Len(spans) + 1
    BY <2>5
  <2>9. Len(mBuffer) \in Nat /\ mCurrent \in Nat /\ mCurrent >= 1 /\ m.next \in Int /\ m.next \in 1 .. Len(mBuffer) + 1
    <3>1. Len(mBuffer) \in Nat /\ mCurrent \in Nat /\ mCurrent >= 1
      BY <1>4
    <3> QED
      BY <2>1, <3>1
  <2>10. Covered'
    <3> SUFFICES ASSUME NEW p \in 1 .. m.next - 1, mBuffer[p] # lang.boundary
                 PROVE  \E i \in 1 .. Len(spans') : p \in spans'[i].from .. spans'[i].to - 1
      BY <1>1, <2>3 DEF Covered
    <3>1. CASE p < mCurrent
      <4>1. p \in 1 .. mCurrent - 1
        BY <2>9, <3>1
      <4>2. PICK i \in 1 .. Len(spans) : p \in spans[i].from .. spans[i].to - 1
        BY <4>1 DEF Spelled, Covered
      <4> QED
        BY <2>5, <2>7, <4>2
    <3>2. CASE ~(p < mCurrent)
      <4>1. p \in span.from .. span.to - 1
        BY <2>4, <2>9, <3>2
      <4> QED
        BY <2>5, <2>8, <4>1
    <3> QED
      BY <3>1, <3>2
  <2>11. AllSpoken'
    <3> SUFFICES ASSUME NEW i \in 1 .. Len(spans')
                 PROVE  \E k \in spans'[i].from .. spans'[i].to - 1 : Says(lang, mBuffer, spans'[i], k)
      BY <1>1 DEF AllSpoken, Spoken, Says
    <3>0. \A s, k : Spoken(s, k) <=> Says(lang, mBuffer, s, k)
      BY DEF Spoken, Says
    <3>1. CASE i \in 1 .. Len(spans)
      <4>1. PICK k \in spans[i].from .. spans[i].to - 1 : Spoken(spans[i], k)
        BY <3>1 DEF Spelled, AllSpoken
      <4> QED
        BY <2>5, <3>0, <3>1, <4>1
    <3>2. CASE i = Len(spans) + 1
      <4>1. Spoken(span, first)
        BY <2>1, <2>4 DEF Spoken
      <4> QED
        BY <2>1, <2>4, <2>5, <3>0, <3>2, <4>1
    <3> QED
      BY <2>8, <3>1, <3>2
  <2> QED
    BY <1>1, <1>4, <2>1, <2>3, <2>6, <2>9, <2>10, <2>11 DEF Spelled
<1>6. CASE m.kind # "match"
  <2>1. reading' = m.kind /\ UNCHANGED <<mCurrent, phonemes, spans>>
    BY <1>2, <1>6 DEF ReadMatch, NextMatch
  <2>2. reading' = "end" => Ends(lang, mBuffer, mCurrent)
    BY <1>3, <2>1 DEF Tells
  <2> QED
    BY <1>1, <2>1, <2>2 DEF Spelled, Covered, AllSpoken, Spoken, Ends
<1> QED
  BY <1>5, <1>6

(* Every step keeps the invariant. *)
LEMMA ReadingStep ==
    ASSUME ReadingInv, [Next]_vars
    PROVE  ReadingInv'
<1>1. CASE Compile /\ UNCHANGED <<loaderVars, readerVars>>
  BY <1>1, ReadingSame
<1>2. CASE LoadSection
  <2>1. loaded = "no" /\ UNCHANGED <<compilerVars, readerVars>>
    BY <1>2 DEF LoadSection
  <2> QED
    BY <2>1, ReadingSame
<1>3. CASE LoadEnd
  <2>1. loaded = "no" /\ UNCHANGED readerVars
    BY <1>3 DEF LoadEnd
  <2> QED
    BY <2>1, ReadingSame
<1>4. CASE \E word \in Words : Reset(word)
  BY <1>4, ResetSpells
<1>5. CASE ReadPhoneme
  BY <1>5, PhonemeSpells
<1>6. CASE ReadMatch
  BY <1>6, MatchSpells
<1>7. CASE UNCHANGED vars
  BY <1>7, ReadingSame DEF vars
<1> QED
  BY <1>1, <1>2, <1>3, <1>4, <1>5, <1>6, <1>7 DEF Next

(* A word that is at its end has no letters behind mCurrent. *)
LEMMA ReadingPronounces ==
    ASSUME ReadingInv, PlainLanguage(lang)
    PROVE  EveryLetterPronounced
<1> SUFFICES ASSUME reading = "end"
             PROVE  /\ \A p \in 1 .. Len(mBuffer) :
                           mBuffer[p] # lang.boundary => \E i \in 1 .. Len(spans) : p \in spans[i].from .. spans[i].to - 1
                    /\ AllSpoken
  BY DEF EveryLetterPronounced, AllSpoken
<1>1. Spelled /\ Ends(lang, mBuffer, mCurrent)
  BY DEF ReadingInv, Spelled
<1>2. Len(mBuffer) \in Nat /\ mCurrent \in 1 .. Len(mBuffer) + 1
  BY <1>1 DEF Spelled, IsSequence
<1>3. \A p \in 1 .. Len(mBuffer) : p \in 1 .. mCurrent - 1 \/ p \in mCurrent .. Len(mBuffer)
  BY <1>2
<1> QED
  BY <1>1, <1>3 DEF Spelled, Covered, Ends

\* Reading a word to its end leaves no letter of it out, and each rule that spoke
\* says what it has for exactly its letters (ruleset::read, next_match).
THEOREM LettersArePronounced == Spec => [](PlainLanguage(lang) => EveryLetterPronounced)
<1>1. Init => ReadingInv
  BY DEF Init, ReadingInv
<1>2. ReadingInv /\ [Next]_vars => ReadingInv'
  BY ReadingStep
<1>3. ReadingInv => (PlainLanguage(lang) => EveryLetterPronounced)
  BY ReadingPronounces
<1> QED
  BY <1>1, <1>2, <1>3, PTL DEF Spec

\* The next rule is found further on, unless the reading stops.
MovesOn ==
    \/ reading' = "reading" /\ mCurrent' \in mCurrent + 1 .. Len(mBuffer) + 1
    \/ reading' \in {"end", "throw", "loops"} /\ UNCHANGED mCurrent

(* What next_match returns is behind the position it was asked for. *)
LEMMA MatchMovesOn ==
    ASSUME ReadingInv, PlainLanguage(lang), ReadMatch
    PROVE  MovesOn
<1>1. PICK m : m = next_match(lang, mBuffer, mCurrent, phoneme, FALSE)
  OBVIOUS
<1>2. reading = "reading" /\ Spelled
  BY DEF ReadMatch, ReadingInv
<1>3. Answered(mBuffer, m, mCurrent, FALSE)
  BY <1>1, <1>2, PlainIs, NextMatchTells DEF Spelled, IsSequence
<1>4. CASE m.kind = "match"
  <2>1. m.next \in mCurrent + 1 .. Len(mBuffer) + 1
    BY <1>3, <1>4 DEF Answered
  <2>2. mCurrent' = m.next /\ reading' = reading
    BY <1>1, <1>4 DEF ReadMatch, NextMatch
  <2> QED
    BY <1>2, <2>1, <2>2 DEF MovesOn
<1>5. CASE m.kind # "match"
  <2>1. m.kind \in {"end", "throw", "loops"}
    BY <1>3, <1>5 DEF Answered, Results
  <2>2. reading' = m.kind /\ UNCHANGED mCurrent
    BY <1>1, <1>5 DEF ReadMatch, NextMatch
  <2> QED
    BY <2>1, <2>2 DEF MovesOn
<1> QED
  BY <1>4, <1>5

\* A read() that needs a rule moves on in the word or is the last of it.
THEOREM EachMatchMovesOn == Spec => [][PlainLanguage(lang) /\ ReadMatch => MovesOn]_vars
<1>1. Init => ReadingInv
  BY DEF Init, ReadingInv
<1>2. ReadingInv /\ [Next]_vars => ReadingInv'
  BY ReadingStep
<1>3. ReadingInv /\ [Next]_vars => [PlainLanguage(lang) /\ ReadMatch => MovesOn]_vars
  BY MatchMovesOn
<1> QED
  BY <1>1, <1>2, <1>3, PTL DEF Spec
=============================================================================
