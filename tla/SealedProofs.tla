----------------------------- MODULE SealedProofs -----------------------------
(***************************************************************************)
(* Lemmas about Sealed, for lists of any length: a Merkle root, with the   *)
(* number of leaves, tells the leaves; a sorted list has the members it    *)
(* was made of.                                                            *)
(*                                                                         *)
(* Induction is over sets: a set of naturals with 0 in it and with each    *)
(* number its successor has them all, because each set of naturals has a   *)
(* least member (NatLessThanWellFounded, WFMin).                           *)
(***************************************************************************)
EXTENDS Sealed, FiniteSetTheorems, SequenceTheorems, WellFoundedInduction, TLAPS

LEMMA LeastNat ==
    ASSUME NEW T \in SUBSET Nat, T # {}
    PROVE  \E n \in T : \A m \in T : n <= m
<1>1. \E x \in T : \A y \in T : ~ (<<y, x>> \in OpToRel(<, Nat))
  BY NatLessThanWellFounded, WFMin
<1>2. PICK n \in T : \A y \in T : ~ (<<y, n>> \in OpToRel(<, Nat))
  BY <1>1
<1>3. \A m \in T : ~ (m < n)
  BY <1>2 DEF OpToRel
<1> QED
  BY <1>3

LEMMA Induct ==
    ASSUME NEW S, 0 \in S, \A n \in Nat : n \in S => n + 1 \in S
    PROVE  Nat \subseteq S
<1> SUFFICES ASSUME Nat \ S # {} PROVE FALSE
  OBVIOUS
<1>1. PICK n \in Nat \ S : \A m \in Nat \ S : n <= m
  BY LeastNat
<1>2. n # 0 /\ n - 1 \in Nat
  BY <1>1
<1>3. n - 1 \in S
  BY <1>1, <1>2
<1> QED
  BY <1>1, <1>2, <1>3

--------------------------------------------------------------------------------
(* Recursion.                                                                  *)

Iterates(f, v, G) == f[0] = v /\ \A n \in Nat : f[n + 1] = G[f[n]]

\* A step function can be iterated from any value.
LEMMA Iteration ==
    ASSUME NEW V, NEW v \in V, NEW G \in [V -> V]
    PROVE  \E f \in [Nat -> V] : Iterates(f, v, G)
<1> DEFINE Starts(n) ==
        {g \in [0 .. n -> V] : g[0] = v /\ \A k \in 0 .. n - 1 : g[k + 1] = G[g[k]]}
           S == {n \in Nat : Starts(n) # {}}
<1>1. 0 \in S
  <2>1. [k \in 0 .. 0 |-> v] \in Starts(0)
    OBVIOUS
  <2> QED
    BY <2>1
<1>2. ASSUME NEW n \in Nat, n \in S PROVE n + 1 \in S
  <2>1. PICK g \in Starts(n) : TRUE
    BY <1>2
  <2> DEFINE h == [k \in 0 .. n + 1 |-> IF k = n + 1 THEN G[g[n]] ELSE g[k]]
  <2>2. h \in [0 .. n + 1 -> V]
    BY <2>1
  <2>3. h[0] = v
    BY <2>1
  <2>4. ASSUME NEW k \in 0 .. n + 1 - 1 PROVE h[k + 1] = G[h[k]]
    <3>1. CASE k = n
      BY <3>1, <2>1
    <3>2. CASE k \in 0 .. n - 1
      BY <3>2, <2>1
    <3> QED
      BY <3>1, <3>2
  <2>5. h \in Starts(n + 1)
    BY <2>2, <2>3, <2>4
  <2> HIDE DEF Starts, h
  <2> QED
    BY <2>5
<1>3. \A n \in Nat : Starts(n) # {}
  <2> HIDE DEF Starts
  <2>1. Nat \subseteq S
    BY <1>1, <1>2, Induct
  <2> QED
    BY <2>1
\* All starts agree where both are defined.
<1>4. ASSUME NEW n \in Nat, NEW m \in Nat, NEW g \in Starts(n), NEW h \in Starts(m)
      PROVE  \A k \in Nat : k <= n /\ k <= m => g[k] = h[k]
  <2> DEFINE A == {k \in Nat : k <= n /\ k <= m => g[k] = h[k]}
  <2>1. 0 \in A
    OBVIOUS
  <2>2. ASSUME NEW k \in Nat, k \in A PROVE k + 1 \in A
    <3> SUFFICES ASSUME k + 1 <= n, k + 1 <= m PROVE g[k + 1] = h[k + 1]
      OBVIOUS
    <3>1. k \in 0 .. n - 1 /\ k \in 0 .. m - 1
      OBVIOUS
    <3>2. g[k + 1] = G[g[k]] /\ h[k + 1] = G[h[k]]
      BY <3>1
    <3>3. g[k] = h[k]
      BY <2>2
    <3> QED
      BY <3>2, <3>3
  <2>3. Nat \subseteq A
    <3> HIDE DEF A
    <3> QED
      BY <2>1, <2>2, Induct
  <2> QED
    BY <2>3
<1> DEFINE f == [n \in Nat |-> (CHOOSE g \in Starts(n) : TRUE)[n]]
<1>5. ASSUME NEW n \in Nat PROVE \E g \in Starts(n) : f[n] = g[n]
  <2> HIDE DEF Starts
  <2> QED
    BY <1>3
<1>6. f \in [Nat -> V]
  <2>1. ASSUME NEW n \in Nat PROVE f[n] \in V
    <3>1. PICK g \in Starts(n) : f[n] = g[n]
      BY <1>5
    <3>2. g \in [0 .. n -> V] /\ n \in 0 .. n
      OBVIOUS
    <3> HIDE DEF f
    <3> QED
      BY <3>1, <3>2
  <2> QED
    BY <2>1
<1>7. f[0] = v
  <2>1. PICK g \in Starts(0) : f[0] = g[0]
    BY <1>5
  <2> HIDE DEF f
  <2> QED
    BY <2>1
<1>8. ASSUME NEW n \in Nat PROVE f[n + 1] = G[f[n]]
  <2>1. PICK g \in Starts(n) : f[n] = g[n]
    BY <1>5
  <2>n. n + 1 \in Nat
    OBVIOUS
  <2>2. PICK h \in Starts(n + 1) : f[n + 1] = h[n + 1]
    <3> HIDE DEF f, Starts
    <3> QED
      BY <2>n, <1>5
  <2> HIDE DEF f
  <2>3. g[n] = h[n]
    <3> HIDE DEF Starts
    <3> QED
      BY <1>4
  <2>4. h[n + 1] = G[h[n]]
    <3>1. n \in 0 .. (n + 1) - 1
      OBVIOUS
    <3> QED
      BY <3>1
  <2> QED
    BY <2>1, <2>2, <2>3, <2>4
<1> QED
  <2> HIDE DEF f
  <2> QED
    BY <1>6, <1>7, <1>8 DEF Iterates

\* f counts up from v, G making the n-th value of the one before.
Counts(f, v, G) == f[0] = v /\ \A n \in Nat : f[n + 1] = G[<<n + 1, f[n]>>]

\* A function of the naturals can be defined from its value before.
LEMMA Counting ==
    ASSUME NEW V, NEW v \in V, NEW G \in [Nat \X V -> V]
    PROVE  \E f \in [Nat -> V] : Counts(f, v, G)
<1> DEFINE W == Nat \X V
           F == [p \in W |-> <<p[1] + 1, G[<<p[1] + 1, p[2]>>]>>]
           w == <<0, v>>
<1>1. w \in W
  OBVIOUS
<1>2. F \in [W -> W]
  <2>1. ASSUME NEW n \in Nat, NEW x \in V PROVE G[<<n + 1, x>>] \in V
    <3>1. n + 1 \in Nat
      OBVIOUS
    <3> QED
      BY <3>1
  <2> QED
    BY <2>1
<1> HIDE DEF w, F
<1>3. PICK h \in [Nat -> W] : Iterates(h, w, F)
  <2> HIDE DEF W
  <2> QED
    BY <1>1, <1>2, Iteration, Zenon
<1>4. h[0] = <<0, v>> /\ \A n \in Nat : h[n] \in W /\ h[n + 1] = F[h[n]]
  BY <1>3 DEF Iterates, w
<1>5. ASSUME NEW n \in Nat
      PROVE  h[n + 1] = <<h[n][1] + 1, G[<<h[n][1] + 1, h[n][2]>>]>>
  BY <1>4 DEF F
<1> DEFINE S == {n \in Nat : h[n][1] = n}
<1>6. Nat \subseteq S
  <2>1. 0 \in S
    BY <1>4
  <2>2. ASSUME NEW n \in Nat, n \in S PROVE n + 1 \in S
    <3>1. n + 1 \in Nat /\ h[n][1] = n
      BY <2>2
    <3>2. h[n + 1] = <<n + 1, G[<<n + 1, h[n][2]>>]>>
      BY <1>5, <3>1
    <3> QED
      BY <3>1, <3>2
  <2> HIDE DEF S
  <2> QED
    BY <2>1, <2>2, Induct
<1> DEFINE f == [n \in Nat |-> h[n][2]]
<1>7. f \in [Nat -> V]
  BY <1>4
<1>8. f[0] = v
  BY <1>4
<1>9. ASSUME NEW n \in Nat PROVE f[n + 1] = G[<<n + 1, f[n]>>]
  <2>1. h[n][1] = n /\ n + 1 \in Nat
    BY <1>6
  <2>2. h[n + 1][2] = G[<<n + 1, h[n][2]>>]
    BY <1>5, <2>1
  <2> QED
    BY <2>1, <2>2
<1> HIDE DEF f
<1> QED
  BY <1>7, <1>8, <1>9 DEF Counts

\* f folds G over the members of a set, in the order c takes them out.
IsFold(f, S, v, c, G) ==
    \A T \in SUBSET S : f[T] = IF T = {} THEN v ELSE G[<<c[T], f[T \ {c[T]}]>>]

\* A finite set can be folded.
LEMMA SetRecursion ==
    ASSUME NEW S, IsFiniteSet(S), NEW V, NEW v \in V, NEW G \in [S \X V -> V],
           NEW c, \A T \in SUBSET S : T # {} => c[T] \in T
    PROVE  \E f \in [SUBSET S -> V] : IsFold(f, S, v, c, G)
<1> DEFINE W == [SUBSET S -> V]
           Next1(g, T) == IF T = {} THEN v ELSE G[<<c[T], g[T \ {c[T]}]>>]
           F == [g \in W |-> [T \in SUBSET S |-> Next1(g, T)]]
           w == [T \in SUBSET S |-> v]
<1>1. F \in [W -> W]
  <2>1. ASSUME NEW g \in W, NEW T \in SUBSET S PROVE Next1(g, T) \in V
    <3>1. CASE T = {}
      BY <3>1
    <3>2. CASE T # {}
      <4>1. c[T] \in S /\ T \ {c[T]} \in SUBSET S
        BY <3>2
      <4>2. g[T \ {c[T]}] \in V
        BY <4>1
      <4> QED
        BY <3>2, <4>1, <4>2
    <3> QED
      BY <3>1, <3>2
  <2> HIDE DEF Next1
  <2> QED
    BY <2>1
<1>2. w \in W
  OBVIOUS
<1> HIDE DEF F, w
<1>3. PICK h \in [Nat -> W] : Iterates(h, w, F)
  <2> HIDE DEF W
  <2> QED
    BY <1>1, <1>2, Iteration, Zenon
<1>4. ASSUME NEW n \in Nat, NEW T \in SUBSET S PROVE h[n + 1][T] = Next1(h[n], T)
  <2>1. h[n] \in W /\ h[n + 1] = F[h[n]]
    BY <1>3 DEF Iterates
  <2>2. F[h[n]] = [U \in SUBSET S |-> Next1(h[n], U)]
    BY <2>1 DEF F
  <2> HIDE DEF Next1
  <2> QED
    BY <2>1, <2>2
<1>5. ASSUME NEW T \in SUBSET S
      PROVE  /\ Cardinality(T) \in Nat /\ (Cardinality(T) = 0 <=> T = {})
             /\ T # {} => /\ T \ {c[T]} \in SUBSET S
                          /\ Cardinality(T \ {c[T]}) = Cardinality(T) - 1
  <2>1. IsFiniteSet(T)
    BY FS_Subset
  <2>2. Cardinality(T) \in Nat /\ (Cardinality(T) = 0 <=> T = {})
    BY <2>1, FS_EmptySet, FS_CardinalityType
  <2>3. T # {} => Cardinality(T \ {c[T]}) = Cardinality(T) - 1
    BY <2>1, FS_RemoveElement
  <2> QED
    BY <2>2, <2>3
\* From the n-th round on, sets of n members keep their value.
<1> DEFINE Settled(n) == \A T \in SUBSET S : Cardinality(T) <= n => h[n + 1][T] = h[n][T]
           N == {n \in Nat : Settled(n)}
<1>6. 0 \in N
  <2>1. ASSUME NEW T \in SUBSET S, Cardinality(T) <= 0 PROVE h[0 + 1][T] = h[0][T]
    <3>n. Cardinality(T) \in Nat
      BY <1>5, Zenon
    <3>0. Cardinality(T) = 0
      BY <2>1, <3>n
    <3>1. T = {}
      BY <3>0, <1>5
    <3>2. h[0][T] = v
      BY <1>3 DEF Iterates, w
    <3> QED
      BY <3>1, <3>2, <1>4
  <2> HIDE DEF W
  <2> QED
    BY <2>1
<1>7. ASSUME NEW n \in Nat, n \in N PROVE n + 1 \in N
  <2>0. n + 1 \in Nat
    OBVIOUS
  <2>1. ASSUME NEW T \in SUBSET S, Cardinality(T) <= n + 1
        PROVE  h[n + 1 + 1][T] = h[n + 1][T]
    <3>1. h[n + 1 + 1][T] = Next1(h[n + 1], T) /\ h[n + 1][T] = Next1(h[n], T)
      BY <1>4, <2>0
    <3>2. CASE T = {}
      BY <3>1, <3>2
    <3>3. CASE T # {}
      <4>1. T \ {c[T]} \in SUBSET S /\ Cardinality(T \ {c[T]}) <= n
        <5>1. Cardinality(T \ {c[T]}) = Cardinality(T) - 1 /\ Cardinality(T) \in Nat
          BY <3>3, <1>5
        <5> QED
          BY <5>1, <2>1
      <4>2. h[n + 1][T \ {c[T]}] = h[n][T \ {c[T]}]
        BY <4>1, <1>7
      <4> QED
        BY <3>1, <3>3, <4>2
    <3> QED
      BY <3>2, <3>3
  <2> HIDE DEF W, Next1
  <2> QED
    BY <2>0, <2>1
<1>8. Nat \subseteq N
  <2> HIDE DEF N
  <2> QED
    BY <1>6, <1>7, Induct
<1> DEFINE top == Cardinality(S)
<1>9. top \in Nat /\ \A T \in SUBSET S : Cardinality(T) <= top
  BY FS_Subset, FS_CardinalityType
<1> HIDE DEF top
<1>10. ASSUME NEW T \in SUBSET S PROVE h[top][T] = Next1(h[top], T)
  <2>1. h[top + 1][T] = h[top][T]
    BY <1>8, <1>9
  <2> QED
    BY <2>1, <1>4, <1>9
<1>11. h[top] \in W
  BY <1>3, <1>9
<1> QED
  BY <1>10, <1>11 DEF IsFold

--------------------------------------------------------------------------------
(* Merkle trees.                                                               *)

LEMMA HalfOf ==
    ASSUME NEW n \in Nat
    PROVE  /\ (n + 1) \div 2 \in Nat
           /\ n > 0 => (n + 1) \div 2 > 0
           /\ n > 1 => (n + 1) \div 2 < n
           /\ n <= 1 => (n + 1) \div 2 = n
           /\ \A i \in 1 .. (n + 1) \div 2 :
                 2 * i - 1 \in 1 .. n /\ (2 * i <= n => 2 * i \in 1 .. n)
           /\ \A j \in 1 .. n : \E i \in 1 .. (n + 1) \div 2 :
                 j = 2 * i - 1 \/ (j = 2 * i /\ 2 * i <= n)
<1>1. ASSUME NEW j \in 1 .. n
      PROVE  \E i \in 1 .. (n + 1) \div 2 : j = 2 * i - 1 \/ (j = 2 * i /\ 2 * i <= n)
  <2>1. (j + 1) \div 2 \in 1 .. (n + 1) \div 2
    OBVIOUS
  <2>2. j = 2 * ((j + 1) \div 2) - 1 \/ j = 2 * ((j + 1) \div 2)
    OBVIOUS
  <2> QED
    BY <2>1, <2>2
<1> QED
  BY <1>1

\* The two nodes that are hashed into node i of the level above.
LEMMA LevelAboveIs ==
    ASSUME NEW X, NEW nodes \in Seq(Seq(X))
    PROVE  /\ LevelAbove(nodes) \in Seq(Seq(X))
           /\ Len(LevelAbove(nodes)) = (Len(nodes) + 1) \div 2
           /\ \A i \in 1 .. (Len(nodes) + 1) \div 2 :
                 LET second == IF 2 * i <= Len(nodes) THEN 2 * i ELSE 2 * i - 1
                 IN  /\ 2 * i - 1 \in 1 .. Len(nodes) /\ second \in 1 .. Len(nodes)
                     /\ nodes[2 * i - 1] \in Seq(X) /\ nodes[second] \in Seq(X)
                     /\ LevelAbove(nodes)[i] = nodes[2 * i - 1] \o nodes[second]
<1> DEFINE n == Len(nodes)
           half == (n + 1) \div 2
           second(i) == IF 2 * i <= n THEN 2 * i ELSE 2 * i - 1
<1>1. n \in Nat /\ \A j \in 1 .. n : nodes[j] \in Seq(X)
  OBVIOUS
<1>2. half \in Nat /\ \A i \in 1 .. half : 2 * i - 1 \in 1 .. n /\ second(i) \in 1 .. n
  <2> HIDE DEF n
  <2> QED
    BY <1>1, HalfOf
<1>3. LevelAbove(nodes) = [i \in 1 .. half |-> nodes[2 * i - 1] \o nodes[second(i)]]
  BY DEF LevelAbove
<1>4. ASSUME NEW i \in 1 .. half
      PROVE  /\ nodes[2 * i - 1] \in Seq(X) /\ nodes[second(i)] \in Seq(X)
             /\ nodes[2 * i - 1] \o nodes[second(i)] \in Seq(X)
  <2> HIDE DEF n, half, second
  <2>1. nodes[2 * i - 1] \in Seq(X) /\ nodes[second(i)] \in Seq(X)
    BY <1>1, <1>2
  <2> QED
    BY <2>1
<1> HIDE DEF n, half, second
<1>5. LevelAbove(nodes) \in Seq(Seq(X)) /\ Len(LevelAbove(nodes)) = half
  BY <1>2, <1>3, <1>4
<1>6. \A i \in 1 .. half : LevelAbove(nodes)[i] = nodes[2 * i - 1] \o nodes[second(i)]
  BY <1>3
<1> QED
  BY <1>2, <1>4, <1>5, <1>6 DEF n, half, second

LEMMA LevelsAre ==
    ASSUME NEW X, NEW d \in Seq(X)
    PROVE  /\ Levels(d)[0] = [i \in DOMAIN d |-> <<d[i]>>]
           /\ \A k \in Nat : /\ Levels(d)[k] \in Seq(Seq(X))
                             /\ Levels(d)[k + 1] = LevelAbove(Levels(d)[k])
<1> DEFINE V == Seq(Seq(X))
           v == [i \in DOMAIN d |-> <<d[i]>>]
           G == [nodes \in V |-> LevelAbove(nodes)]
<1>1. v \in V
  <2>1. DOMAIN d = 1 .. Len(d) /\ Len(d) \in Nat
    OBVIOUS
  <2>2. \A i \in DOMAIN d : <<d[i]>> \in Seq(X)
    OBVIOUS
  <2> QED
    BY <2>1, <2>2
<1>2. G \in [V -> V]
  BY LevelAboveIs
<1> HIDE DEF V, v, G
<1>3. PICK f \in [Nat -> V] : Iterates(f, v, G)
  BY <1>1, <1>2, Iteration, Zenon
<1>4. \A n \in Nat : f[n] \in V /\ f[n + 1] = LevelAbove(f[n])
  BY <1>3 DEF G, Iterates
<1> DEFINE Step(level) == [k \in Nat |-> IF k = 0 THEN v ELSE LevelAbove(level[k - 1])]
<1>5. f = Step(f)
  <2>1. ASSUME NEW k \in Nat, k # 0 PROVE f[k] = LevelAbove(f[k - 1])
    <3>1. k - 1 \in Nat /\ (k - 1) + 1 = k
      BY <2>1
    <3> QED
      BY <3>1, <1>4
  <2>2. \A k \in Nat : f[k] = IF k = 0 THEN v ELSE LevelAbove(f[k - 1])
    BY <2>1, <1>3 DEF Iterates
  <2> QED
    BY <1>3, <2>2
<1>6. Levels(d) = CHOOSE level : level = Step(level)
  BY DEF Levels, v
<1>7. Levels(d) = Step(Levels(d))
  <2> HIDE DEF Step
  <2> QED
    BY <1>5, <1>6
<1>8. Levels(d)[0] = v /\ \A k \in Nat : Levels(d)[k + 1] = LevelAbove(Levels(d)[k])
  <2>1. Levels(d)[0] = v
    BY <1>7
  <2>2. ASSUME NEW k \in Nat PROVE Levels(d)[k + 1] = LevelAbove(Levels(d)[k])
    <3>1. k + 1 \in Nat /\ k + 1 # 0 /\ (k + 1) - 1 = k
      OBVIOUS
    <3>2. Levels(d)[k + 1] = LevelAbove(Levels(d)[(k + 1) - 1])
      BY <3>1, <1>7
    <3> QED
      BY <3>1, <3>2
  <2> QED
    BY <2>1, <2>2
<1>9. \A k \in Nat : Levels(d)[k] \in V
  <2> DEFINE S == {k \in Nat : Levels(d)[k] \in V}
  <2>1. 0 \in S
    BY <1>8, <1>1
  <2>2. ASSUME NEW k \in Nat, k \in S PROVE k + 1 \in S
    <3>0. Levels(d)[k] \in Seq(Seq(X))
      BY <2>2 DEF V
    <3>1. LevelAbove(Levels(d)[k]) \in V
      BY <3>0, LevelAboveIs DEF V
    <3>2. k + 1 \in Nat
      OBVIOUS
    <3>3. Levels(d)[k + 1] = LevelAbove(Levels(d)[k])
      BY <1>8, Zenon
    <3>4. k + 1 \in Nat /\ Levels(d)[k + 1] \in V
      BY <3>1, <3>2, <3>3, Zenon
    <3> QED
      BY <3>4
  <2>3. Nat \subseteq S
    <3> HIDE DEF S
    <3> QED
      BY <2>1, <2>2, Induct
  <2> QED
    BY <2>3
<1> QED
  BY <1>8, <1>9 DEF V, v

\* Two levels with nodes over as many leaves.
SameShape(a, b) ==
    /\ Len(a) = Len(b)
    /\ \A i \in 1 .. Len(a) : Len(a[i]) = Len(b[i])

LEMMA SameEntries ==
    ASSUME NEW X, NEW s \in Seq(X), NEW t \in Seq(X), Len(s) = Len(t),
           \A i \in 1 .. Len(s) : s[i] = t[i]
    PROVE  s = t
OBVIOUS

LEMMA ConcatLengths ==
    ASSUME NEW X, NEW s \in Seq(X), NEW t \in Seq(X), NEW u \in Seq(X), NEW v \in Seq(X),
           Len(s) = Len(u), Len(t) = Len(v)
    PROVE  Len(s \o t) = Len(u \o v)
OBVIOUS

LEMMA ConcatParts ==
    ASSUME NEW X, NEW s \in Seq(X), NEW t \in Seq(X), NEW u \in Seq(X), NEW v \in Seq(X),
           s \o t = u \o v, Len(s) = Len(u)
    PROVE  s = u /\ t = v
<1>1. Len(s) \in Nat /\ Len(t) \in Nat /\ Len(v) \in Nat
  OBVIOUS
<1>2. Len(s \o t) = Len(s) + Len(t) /\ Len(u \o v) = Len(s) + Len(v)
  OBVIOUS
<1>3. Len(t) = Len(v)
  BY <1>1, <1>2
<1>4. /\ \A i \in 1 .. Len(s) + Len(t) :
            (s \o t)[i] = IF i <= Len(s) THEN s[i] ELSE t[i - Len(s)]
      /\ \A i \in 1 .. Len(s) + Len(t) :
            (u \o v)[i] = IF i <= Len(s) THEN u[i] ELSE v[i - Len(s)]
  BY <1>3, ConcatProperties
<1>5. ASSUME NEW i \in 1 .. Len(s) PROVE s[i] = u[i]
  BY <1>1, <1>4
<1>6. s = u
  BY <1>5, SameEntries
<1> QED
  BY <1>6, ConcatSimplifications

LEMMA ShapeAbove ==
    ASSUME NEW X, NEW a \in Seq(Seq(X)), NEW b \in Seq(Seq(X)), SameShape(a, b)
    PROVE  SameShape(LevelAbove(a), LevelAbove(b))
<1> DEFINE n == Len(a)
           half == (n + 1) \div 2
           second(i) == IF 2 * i <= n THEN 2 * i ELSE 2 * i - 1
<1>1. n = Len(b) /\ \A i \in 1 .. n : Len(a[i]) = Len(b[i])
  BY DEF SameShape
<1>2. Len(LevelAbove(a)) = half /\ Len(LevelAbove(b)) = half
  BY <1>1, LevelAboveIs
<1>3. ASSUME NEW i \in 1 .. half
      PROVE  Len(LevelAbove(a)[i]) = Len(LevelAbove(b)[i])
  <2>1. /\ 2 * i - 1 \in 1 .. n /\ second(i) \in 1 .. n
        /\ a[2 * i - 1] \in Seq(X) /\ a[second(i)] \in Seq(X)
        /\ LevelAbove(a)[i] = a[2 * i - 1] \o a[second(i)]
    BY LevelAboveIs
  <2>2. /\ b[2 * i - 1] \in Seq(X) /\ b[second(i)] \in Seq(X)
        /\ LevelAbove(b)[i] = b[2 * i - 1] \o b[second(i)]
    BY <1>1, LevelAboveIs
  <2> DEFINE first == 2 * i - 1
             other == second(i)
  <2> HIDE DEF n, half, second, first, other
  <2>3. Len(a[first]) = Len(b[first]) /\ Len(a[other]) = Len(b[other])
    BY <1>1, <2>1 DEF first, other
  <2>4. /\ a[first] \in Seq(X) /\ a[other] \in Seq(X)
        /\ b[first] \in Seq(X) /\ b[other] \in Seq(X)
    BY <2>1, <2>2 DEF first, other
  <2>5. Len(a[first] \o a[other]) = Len(b[first] \o b[other])
    <3> DEFINE p == a[first]
               q == a[other]
               r == b[first]
               t == b[other]
    <3>1. /\ p \in Seq(X) /\ q \in Seq(X) /\ r \in Seq(X) /\ t \in Seq(X)
          /\ Len(p) = Len(r) /\ Len(q) = Len(t)
      BY <2>3, <2>4
    <3> HIDE DEF p, q, r, t
    <3>2. Len(p \o q) = Len(r \o t)
      BY <3>1, ConcatLengths
    <3> QED
      BY <3>2 DEF p, q, r, t
  <2> QED
    BY <2>1, <2>2, <2>5 DEF first, other
<1> QED
  BY <1>2, <1>3 DEF SameShape

LEMMA LevelAboveTells ==
    ASSUME NEW X, NEW a \in Seq(Seq(X)), NEW b \in Seq(Seq(X)), SameShape(a, b),
           LevelAbove(a) = LevelAbove(b)
    PROVE  a = b
<1> DEFINE n == Len(a)
           half == (n + 1) \div 2
           second(i) == IF 2 * i <= n THEN 2 * i ELSE 2 * i - 1
<1>1. n \in Nat /\ n = Len(b) /\ \A i \in 1 .. n : Len(a[i]) = Len(b[i])
  BY DEF SameShape
<1>2. ASSUME NEW i \in 1 .. half
      PROVE  a[2 * i - 1] = b[2 * i - 1] /\ a[second(i)] = b[second(i)]
  <2>1. /\ 2 * i - 1 \in 1 .. n /\ second(i) \in 1 .. n
        /\ a[2 * i - 1] \in Seq(X) /\ a[second(i)] \in Seq(X)
        /\ LevelAbove(a)[i] = a[2 * i - 1] \o a[second(i)]
    BY LevelAboveIs
  <2>2. /\ b[2 * i - 1] \in Seq(X) /\ b[second(i)] \in Seq(X)
        /\ LevelAbove(b)[i] = b[2 * i - 1] \o b[second(i)]
    BY <1>1, LevelAboveIs
  <2> DEFINE first == 2 * i - 1
             other == second(i)
  <2> HIDE DEF n, half, second, first, other
  <2>3. Len(a[first]) = Len(b[first])
    BY <1>1, <2>1 DEF first, other
  <2>4. a[first] \o a[other] = b[first] \o b[other]
    BY <2>1, <2>2 DEF first, other
  <2>5. a[first] \in Seq(X) /\ a[other] \in Seq(X) /\ b[first] \in Seq(X) /\ b[other] \in Seq(X)
    BY <2>1, <2>2 DEF first, other
  <2>6. a[first] = b[first] /\ a[other] = b[other]
    BY <2>3, <2>4, <2>5, ConcatParts
  <2> QED
    BY <2>6 DEF first, other
<1>3. ASSUME NEW j \in 1 .. n PROVE a[j] = b[j]
  <2>1. PICK i \in 1 .. half : j = 2 * i - 1 \/ (j = 2 * i /\ 2 * i <= n)
    <3> HIDE DEF n
    <3> QED
      BY <1>1, HalfOf
  <2>2. j = 2 * i - 1 \/ j = second(i)
    BY <2>1
  <2> HIDE DEF n, half, second
  <2> QED
    BY <2>2, <1>2
<1> QED
  BY <1>1, <1>3, SameEntries

LEMMA LevelsShape ==
    ASSUME NEW X, NEW d \in Seq(X), NEW e \in Seq(X), Len(d) = Len(e)
    PROVE  \A k \in Nat : SameShape(Levels(d)[k], Levels(e)[k])
<1> DEFINE S == {k \in Nat : SameShape(Levels(d)[k], Levels(e)[k])}
<1>1. 0 \in S
  <2>0. DOMAIN d = 1 .. Len(d) /\ DOMAIN e = 1 .. Len(d)
    OBVIOUS
  <2>1. /\ Levels(d)[0] = [i \in 1 .. Len(d) |-> <<d[i]>>]
        /\ Levels(e)[0] = [i \in 1 .. Len(d) |-> <<e[i]>>]
    BY <2>0, LevelsAre, Zenon
  <2>2. Len(d) \in Nat
    OBVIOUS
  <2>3. /\ Len([i \in 1 .. Len(d) |-> <<d[i]>>]) = Len(d)
        /\ Len([i \in 1 .. Len(d) |-> <<e[i]>>]) = Len(d)
    BY <2>2
  <2>4. \A i \in 1 .. Len(d) : Len(<<d[i]>>) = 1 /\ Len(<<e[i]>>) = 1
    OBVIOUS
  <2> QED
    BY <2>1, <2>3, <2>4 DEF SameShape
<1>2. ASSUME NEW k \in Nat, k \in S PROVE k + 1 \in S
  <2>1. Levels(d)[k] \in Seq(Seq(X)) /\ Levels(e)[k] \in Seq(Seq(X))
    BY LevelsAre
  <2>2. SameShape(LevelAbove(Levels(d)[k]), LevelAbove(Levels(e)[k]))
    BY <2>1, <1>2, ShapeAbove
  <2>3. SameShape(Levels(d)[k + 1], Levels(e)[k + 1])
    BY <2>2, LevelsAre, Zenon
  <2> QED
    BY <2>3
<1>3. Nat \subseteq S
  <2> HIDE DEF S
  <2> QED
    BY <1>1, <1>2, Induct
<1> QED
  BY <1>3

\* The level merkleRoot stops at.
IsTop(d, t) ==
    /\ Len(Levels(d)[t]) = 1
    /\ t > 0 => Len(Levels(d)[t - 1]) > 1

LEMMA LevelLengths ==
    ASSUME NEW X, NEW d \in Seq(X)
    PROVE  \A k \in Nat :
              /\ Len(Levels(d)[k]) \in Nat
              /\ Len(Levels(d)[k + 1]) = (Len(Levels(d)[k]) + 1) \div 2
<1> TAKE k \in Nat
<1>1. Levels(d)[k] \in Seq(Seq(X)) /\ Levels(d)[k + 1] = LevelAbove(Levels(d)[k])
  BY LevelsAre, Zenon
<1>2. Len(LevelAbove(Levels(d)[k])) = (Len(Levels(d)[k]) + 1) \div 2
  BY <1>1, LevelAboveIs
<1>3. Len(Levels(d)[k]) \in Nat
  BY <1>1
<1> QED
  BY <1>1, <1>2, <1>3, Zenon

LEMMA LevelsShrink ==
    ASSUME NEW X, NEW d \in Seq(X), d # <<>>
    PROVE  \A k \in Nat : /\ Len(Levels(d)[k]) > 0
                          /\ Len(Levels(d)[k]) = 1 \/ Len(Levels(d)[k]) + k <= Len(d)
<1> DEFINE len(k) == Len(Levels(d)[k])
           S == {k \in Nat : len(k) > 0 /\ (len(k) = 1 \/ len(k) + k <= Len(d))}
<1>1. 0 \in S
  <2>1. Levels(d)[0] = [i \in DOMAIN d |-> <<d[i]>>]
    BY LevelsAre, Zenon
  <2>2. len(0) = Len(d) /\ Len(d) > 0 /\ Len(d) \in Nat
    BY <2>1
  <2> QED
    BY <2>2
<1>2. ASSUME NEW k \in Nat, k \in S PROVE k + 1 \in S
  <2> HIDE DEF len
  <2>1. len(k) \in Nat /\ len(k + 1) = (len(k) + 1) \div 2
    BY LevelLengths DEF len
  <2>2. len(k) > 0 /\ (len(k) = 1 \/ len(k) + k <= Len(d))
    BY <1>2
  <2>3. len(k) > 1 => (len(k) + 1) \div 2 < len(k)
    BY <2>1, HalfOf
  <2>4. Len(d) \in Nat
    OBVIOUS
  <2>5. len(k + 1) \in Nat /\ len(k + 1) > 0
    BY <2>1, <2>2
  <2>6. len(k + 1) = 1 \/ len(k + 1) + (k + 1) <= Len(d)
    BY <2>1, <2>2, <2>3, <2>4
  <2> QED
    BY <2>5, <2>6
<1>3. Nat \subseteq S
  <2> HIDE DEF S
  <2> QED
    BY <1>1, <1>2, Induct
<1> QED
  BY <1>3

LEMMA TopExists ==
    ASSUME NEW X, NEW d \in Seq(X), d # <<>>
    PROVE  \E t \in 0 .. Len(d) : IsTop(d, t)
<1> DEFINE len(k) == Len(Levels(d)[k])
           T == {k \in Nat : len(k) = 1}
<1>0. Len(d) \in Nat /\ \A k \in Nat : len(k) \in Nat /\ len(k) > 0
                               /\ (len(k) = 1 \/ len(k) + k <= Len(d))
  BY LevelLengths, LevelsShrink
<1> HIDE DEF len
<1>1. Len(d) \in T
  BY <1>0
<1>2. PICK t \in T : \A m \in T : t <= m
  BY <1>1, LeastNat
<1>3. t \in 0 .. Len(d) /\ len(t) = 1
  BY <1>0, <1>1, <1>2
<1>4. ASSUME t > 0 PROVE len(t - 1) > 1
  <2>1. t - 1 \in Nat /\ ~ (t - 1 \in T)
    BY <1>2, <1>4
  <2> QED
    BY <2>1, <1>0
<1> QED
  BY <1>3, <1>4 DEF IsTop, len

LEMMA OneTop ==
    ASSUME NEW X, NEW d \in Seq(X), NEW t \in Nat, NEW u \in Nat, IsTop(d, t), IsTop(d, u)
    PROVE  t = u
\* Above a level of one node there are only levels of one node.
<1>1. ASSUME NEW m \in Nat, Len(Levels(d)[m]) = 1
      PROVE  \A n \in Nat : Len(Levels(d)[m + n]) = 1
  <2> DEFINE S == {n \in Nat : Len(Levels(d)[m + n]) = 1}
  <2>1. 0 \in S
    BY <1>1
  <2>2. ASSUME NEW n \in Nat, n \in S PROVE n + 1 \in S
    <3>1. m + n \in Nat /\ m + (n + 1) = (m + n) + 1
      OBVIOUS
    <3>2. Len(Levels(d)[m + n]) = 1
      BY <2>2
    <3>3. Len(Levels(d)[(m + n) + 1]) = (Len(Levels(d)[m + n]) + 1) \div 2
      BY <3>1, LevelLengths, Zenon
    <3>4. Len(Levels(d)[(m + n) + 1]) = 1
      BY <3>2, <3>3
    <3>5. Len(Levels(d)[m + (n + 1)]) = 1
      BY <3>1, <3>4, Zenon
    <3> QED
      BY <3>5
  <2>3. Nat \subseteq S
    <3> HIDE DEF S
    <3> QED
      BY <2>1, <2>2, Induct
  <2> QED
    BY <2>3
<1>2. ASSUME NEW m \in Nat, NEW n \in Nat, IsTop(d, m), IsTop(d, n), m < n PROVE FALSE
  <2>1. n > 0 /\ n - 1 - m \in Nat /\ m + (n - 1 - m) = n - 1
    BY <1>2
  <2>2. Len(Levels(d)[n - 1]) > 1
    BY <2>1, <1>2 DEF IsTop
  <2>3. Len(Levels(d)[m]) = 1
    BY <1>2 DEF IsTop
  <2>4. Len(Levels(d)[m + (n - 1 - m)]) = 1
    BY <2>1, <2>3, <1>1
  <2>5. Len(Levels(d)[n - 1]) = 1
    BY <2>1, <2>4, Zenon
  <2> QED
    BY <2>2, <2>5
<1> QED
  BY <1>2

LEMMA MerkleRootIs ==
    ASSUME NEW X, NEW d \in Seq(X), d # <<>>
    PROVE  \E t \in Nat : /\ IsTop(d, t)
                          /\ Len(Levels(d)[t]) = 1
                          /\ MerkleRoot(d) = Levels(d)[t][1]
<1> DEFINE t == CHOOSE k \in 0 .. Len(d) : IsTop(d, k)
<1>1. t \in 0 .. Len(d) /\ IsTop(d, t)
  BY TopExists, Zenon
<1>2. MerkleRoot(d) = Levels(d)[t][1]
  BY DEF MerkleRoot, IsTop
<1>3. t \in Nat /\ Len(Levels(d)[t]) = 1
  BY <1>1 DEF IsTop
<1> HIDE DEF t
<1> QED
  BY <1>1, <1>2, <1>3, Zenon

\* Lists of one length with one root are the same list: nothing is hashed that does
\* not show in the root.
LEMMA MerkleRootTells ==
    ASSUME NEW X, NEW d \in Seq(X), NEW e \in Seq(X), Len(d) = Len(e),
           MerkleRoot(d) = MerkleRoot(e)
    PROVE  d = e
<1>0. CASE d = <<>>
  BY <1>0
<1>1. CASE d # <<>>
  <2>0. e # <<>>
    BY <1>1
  <2>1. PICK t \in Nat : /\ IsTop(d, t) /\ Len(Levels(d)[t]) = 1
                         /\ MerkleRoot(d) = Levels(d)[t][1]
    BY <1>1, MerkleRootIs
  <2>2. PICK u \in Nat : /\ IsTop(e, u) /\ Len(Levels(e)[u]) = 1
                         /\ MerkleRoot(e) = Levels(e)[u][1]
    BY <2>0, MerkleRootIs
  <2>3. \A k \in Nat : SameShape(Levels(d)[k], Levels(e)[k])
    BY LevelsShape
  <2>4. t = u
    <3>1. Len(Levels(d)[u]) = 1
      BY <2>2, <2>3 DEF SameShape
    <3>2. ASSUME u > 0 PROVE Len(Levels(d)[u - 1]) > 1
      BY <3>2, <2>2, <2>3 DEF SameShape, IsTop
    <3>3. IsTop(d, u)
      BY <3>1, <3>2 DEF IsTop
    <3> QED
      BY <2>1, <3>3, OneTop
  <2>5. Levels(d)[t] = Levels(e)[t]
    <3>1. Levels(d)[t] \in Seq(Seq(X)) /\ Levels(e)[t] \in Seq(Seq(X))
      BY LevelsAre, Zenon
    <3>2. /\ Len(Levels(d)[t]) = 1 /\ Len(Levels(e)[t]) = 1
          /\ Levels(d)[t][1] = Levels(e)[t][1]
      BY <2>1, <2>2, <2>4
    <3>3. \A i \in 1 .. Len(Levels(d)[t]) : i = 1
      BY <3>2
    <3> QED
      BY <3>1, <3>2, <3>3, SameEntries
  \* Downwards, level by level.
  <2> DEFINE S == {n \in Nat : n <= t => Levels(d)[t - n] = Levels(e)[t - n]}
  <2>6. 0 \in S
    BY <2>5
  <2>7. ASSUME NEW n \in Nat, n \in S PROVE n + 1 \in S
    <3> SUFFICES ASSUME n + 1 <= t PROVE Levels(d)[t - (n + 1)] = Levels(e)[t - (n + 1)]
      OBVIOUS
    <3> DEFINE k == t - (n + 1)
    <3>1. k \in Nat /\ k + 1 = t - n /\ n <= t
      OBVIOUS
    <3> HIDE DEF k
    <3>2. Levels(d)[k + 1] = Levels(e)[k + 1]
      BY <3>1, <2>7
    <3>3. /\ Levels(d)[k] \in Seq(Seq(X)) /\ Levels(d)[k + 1] = LevelAbove(Levels(d)[k])
          /\ Levels(e)[k] \in Seq(Seq(X)) /\ Levels(e)[k + 1] = LevelAbove(Levels(e)[k])
      BY <3>1, LevelsAre, Zenon
    <3>4. SameShape(Levels(d)[k], Levels(e)[k])
      BY <3>1, <2>3
    <3> QED
      BY <3>2, <3>3, <3>4, LevelAboveTells DEF k
  <2>8. Nat \subseteq S
    <3> HIDE DEF S
    <3> QED
      BY <2>6, <2>7, Induct
  <2>9. Levels(d)[0] = Levels(e)[0]
    <3>1. t \in S /\ t - t = 0 /\ t <= t
      BY <2>8
    <3> QED
      BY <3>1
  <2>10. /\ Levels(d)[0] = [i \in DOMAIN d |-> <<d[i]>>]
         /\ Levels(e)[0] = [i \in DOMAIN e |-> <<e[i]>>]
    BY LevelsAre, Zenon
  <2>11. ASSUME NEW i \in 1 .. Len(d) PROVE d[i] = e[i]
    <3>1. Levels(d)[0][i] = <<d[i]>> /\ Levels(e)[0][i] = <<e[i]>>
      BY <2>10
    <3>2. <<d[i]>>[1] = <<e[i]>>[1]
      BY <3>1, <2>9
    <3> QED
      BY <3>2
  <2> QED
    BY <2>11, SameEntries
<1> QED
  BY <1>0, <1>1

\* The leaves under a level.
LeavesOf(nodes) == UNION {ToSet(nodes[i]) : i \in 1 .. Len(nodes)}

LEMMA MembersOfConcat ==
    ASSUME NEW X, NEW s \in Seq(X), NEW t \in Seq(X)
    PROVE  ToSet(s \o t) = ToSet(s) \cup ToSet(t)
<1>1. /\ Len(s) \in Nat /\ Len(t) \in Nat /\ DOMAIN (s \o t) = 1 .. Len(s) + Len(t)
      /\ DOMAIN s = 1 .. Len(s) /\ DOMAIN t = 1 .. Len(t)
  OBVIOUS
<1>2. \A i \in 1 .. Len(s) + Len(t) :
          (s \o t)[i] = IF i <= Len(s) THEN s[i] ELSE t[i - Len(s)]
  BY ConcatProperties
<1>3. ASSUME NEW i \in 1 .. Len(s) PROVE s[i] \in ToSet(s \o t)
  <2>1. i \in 1 .. Len(s) + Len(t) /\ i <= Len(s)
    BY <1>1
  <2>2. (s \o t)[i] = s[i]
    BY <2>1, <1>2
  <2> QED
    BY <2>1, <2>2, <1>1 DEF ToSet
<1>4. ASSUME NEW i \in 1 .. Len(t) PROVE t[i] \in ToSet(s \o t)
  <2>1. /\ i + Len(s) \in 1 .. Len(s) + Len(t) /\ ~ (i + Len(s) <= Len(s))
        /\ i + Len(s) - Len(s) = i
    BY <1>1
  <2>2. (s \o t)[i + Len(s)] = t[i + Len(s) - Len(s)]
    BY <2>1, <1>2
  <2> QED
    BY <2>1, <2>2, <1>1 DEF ToSet
<1>5. ASSUME NEW i \in 1 .. Len(s) + Len(t) PROVE (s \o t)[i] \in ToSet(s) \cup ToSet(t)
  <2>1. CASE i <= Len(s)
    <3>1. i \in DOMAIN s /\ (s \o t)[i] = s[i]
      BY <2>1, <1>1, <1>2
    <3> QED
      BY <3>1 DEF ToSet
  <2>2. CASE ~ (i <= Len(s))
    <3>1. i - Len(s) \in DOMAIN t /\ (s \o t)[i] = t[i - Len(s)]
      BY <2>2, <1>1, <1>2
    <3> QED
      BY <3>1 DEF ToSet
  <2> QED
    BY <2>1, <2>2
<1>6. ToSet(s) \subseteq ToSet(s \o t) /\ ToSet(t) \subseteq ToSet(s \o t)
  BY <1>1, <1>3, <1>4 DEF ToSet
<1>7. ToSet(s \o t) \subseteq ToSet(s) \cup ToSet(t)
  <2>1. ToSet(s \o t) = {(s \o t)[i] : i \in 1 .. Len(s) + Len(t)}
    BY <1>1 DEF ToSet
  <2> QED
    BY <2>1, <1>5
<1> QED
  BY <1>6, <1>7

LEMMA LeavesAbove ==
    ASSUME NEW X, NEW nodes \in Seq(Seq(X))
    PROVE  LeavesOf(LevelAbove(nodes)) = LeavesOf(nodes)
<1> DEFINE n == Len(nodes)
           half == (n + 1) \div 2
           second(i) == IF 2 * i <= n THEN 2 * i ELSE 2 * i - 1
           above == LevelAbove(nodes)
<1>0. n \in Nat
  OBVIOUS
<1>1. Len(above) = half
  BY LevelAboveIs
<1>2. ASSUME NEW i \in 1 .. half
      PROVE  /\ 2 * i - 1 \in 1 .. n /\ second(i) \in 1 .. n
             /\ ToSet(above[i]) = ToSet(nodes[2 * i - 1]) \cup ToSet(nodes[second(i)])
  <2>1. /\ 2 * i - 1 \in 1 .. n /\ second(i) \in 1 .. n
        /\ nodes[2 * i - 1] \in Seq(X) /\ nodes[second(i)] \in Seq(X)
        /\ above[i] = nodes[2 * i - 1] \o nodes[second(i)]
    BY LevelAboveIs
  <2> DEFINE first == nodes[2 * i - 1]
             other == nodes[second(i)]
  <2> HIDE DEF first, other, above
  <2>2. first \in Seq(X) /\ other \in Seq(X) /\ above[i] = first \o other
    BY <2>1 DEF first, other
  <2>3. ToSet(above[i]) = ToSet(first) \cup ToSet(other)
    BY <2>2, MembersOfConcat
  <2> QED
    BY <2>1, <2>3 DEF first, other
<1>3. ASSUME NEW j \in 1 .. n
      PROVE  \E i \in 1 .. half : j = 2 * i - 1 \/ j = second(i)
  <2>1. PICK i \in 1 .. half : j = 2 * i - 1 \/ (j = 2 * i /\ 2 * i <= n)
    <3> HIDE DEF n
    <3> QED
      BY <1>0, HalfOf
  <2> QED
    BY <2>1
<1> HIDE DEF n, half, second, above
<1>4. ASSUME NEW x \in LeavesOf(above) PROVE x \in LeavesOf(nodes)
  <2>1. PICK i \in 1 .. half : x \in ToSet(above[i])
    BY <1>1 DEF LeavesOf
  <2>2. PICK j \in 1 .. n : x \in ToSet(nodes[j])
    BY <2>1, <1>2
  <2> QED
    BY <2>2 DEF LeavesOf, n
<1>5. ASSUME NEW x \in LeavesOf(nodes) PROVE x \in LeavesOf(above)
  <2>1. PICK j \in 1 .. n : x \in ToSet(nodes[j])
    BY DEF LeavesOf, n
  <2>2. PICK i \in 1 .. half : j = 2 * i - 1 \/ j = second(i)
    BY <1>3
  <2>3. x \in ToSet(above[i])
    BY <2>1, <2>2, <1>2
  <2> QED
    BY <2>3, <1>1 DEF LeavesOf
<1> QED
  BY <1>4, <1>5 DEF above

\* The root stands for the members of the list, none more and none less.
LEMMA MerkleRootMembers ==
    ASSUME NEW X, NEW d \in Seq(X)
    PROVE  ToSet(MerkleRoot(d)) = ToSet(d)
<1>0. CASE d = <<>>
  BY <1>0 DEF MerkleRoot
<1>1. CASE d # <<>>
  <2>1. PICK t \in Nat : /\ IsTop(d, t) /\ Len(Levels(d)[t]) = 1
                         /\ MerkleRoot(d) = Levels(d)[t][1]
    BY <1>1, MerkleRootIs
  <2> DEFINE S == {k \in Nat : LeavesOf(Levels(d)[k]) = ToSet(d)}
  <2>2. 0 \in S
    <3>1. DOMAIN d = 1 .. Len(d) /\ Len(d) \in Nat
      OBVIOUS
    <3>2. Levels(d)[0] = [i \in 1 .. Len(d) |-> <<d[i]>>]
      BY <3>1, LevelsAre, Zenon
    <3>3. Len(Levels(d)[0]) = Len(d)
      BY <3>1, <3>2
    <3>4. \A i \in 1 .. Len(d) : ToSet(Levels(d)[0][i]) = {d[i]}
      BY <3>2 DEF ToSet
    <3> DEFINE leaves == LeavesOf(Levels(d)[0])
    <3>5. leaves = UNION {{d[i]} : i \in 1 .. Len(d)}
      BY <3>3, <3>4 DEF LeavesOf
    <3>6. ToSet(d) = {d[i] : i \in 1 .. Len(d)}
      BY <3>1 DEF ToSet
    <3> HIDE DEF leaves
    <3>7. leaves = ToSet(d)
      BY <3>5, <3>6
    <3> QED
      BY <3>7 DEF leaves
  <2>3. ASSUME NEW k \in Nat, k \in S PROVE k + 1 \in S
    <3>1. Levels(d)[k] \in Seq(Seq(X)) /\ Levels(d)[k + 1] = LevelAbove(Levels(d)[k])
      BY LevelsAre, Zenon
    <3>2. LeavesOf(Levels(d)[k + 1]) = LeavesOf(Levels(d)[k])
      BY <3>1, LeavesAbove
    <3> QED
      BY <3>2, <2>3
  <2>4. Nat \subseteq S
    <3> HIDE DEF S
    <3> QED
      BY <2>2, <2>3, Induct
  <2>5. LeavesOf(Levels(d)[t]) = ToSet(d)
    BY <2>4
  <2>6. LeavesOf(Levels(d)[t]) = ToSet(Levels(d)[t][1])
    <3>1. 1 .. Len(Levels(d)[t]) = {1}
      BY <2>1
    <3> QED
      BY <3>1 DEF LeavesOf
  <2> QED
    BY <2>1, <2>5, <2>6
<1> QED
  BY <1>0, <1>1

--------------------------------------------------------------------------------
(* Bags and sorted lists.                                                      *)

\* The places of a member in a list.
PlacesOf(s, x) == {i \in DOMAIN s : s[i] = x}

LEMMA BagOfList ==
    ASSUME NEW X, NEW s \in Seq(X)
    PROVE  /\ DOMAIN ToBag(s) = ToSet(s)
           /\ \A x \in ToSet(s) : ToBag(s)[x] = Cardinality(PlacesOf(s, x))
           /\ \A x : IsFiniteSet(PlacesOf(s, x)) /\ Cardinality(PlacesOf(s, x)) \in Nat
           /\ \A x \in ToSet(s) : Cardinality(PlacesOf(s, x)) > 0
<1>1. DOMAIN s = 1 .. Len(s) /\ Len(s) \in Nat
  OBVIOUS
<1>2. DOMAIN ToBag(s) = ToSet(s)
  BY DEF ToBag, ToSet, Range
<1>3. \A x \in ToSet(s) : ToBag(s)[x] = Cardinality(PlacesOf(s, x))
  BY DEF ToBag, ToSet, Range, PlacesOf
<1>4. ASSUME NEW x
      PROVE  IsFiniteSet(PlacesOf(s, x)) /\ Cardinality(PlacesOf(s, x)) \in Nat
  <2>1. IsFiniteSet(1 .. Len(s))
    BY <1>1, FS_Interval
  <2>2. PlacesOf(s, x) \in SUBSET (1 .. Len(s))
    BY <1>1 DEF PlacesOf
  <2>3. IsFiniteSet(PlacesOf(s, x))
    BY <2>1, <2>2, FS_Subset
  <2> QED
    BY <2>3, FS_CardinalityType
<1>5. ASSUME NEW x \in ToSet(s) PROVE Cardinality(PlacesOf(s, x)) > 0
  <2>1. PlacesOf(s, x) # {}
    BY DEF ToSet, PlacesOf
  <2> QED
    BY <2>1, <1>4, FS_EmptySet
<1> QED
  BY <1>2, <1>3, <1>4, <1>5

\* Lists with one bag are permutations of each other.
LEMMA BagPermutes ==
    ASSUME NEW X, NEW s \in Seq(X), NEW t \in Seq(X), ToBag(s) = ToBag(t)
    PROVE  \E f \in Bijection(DOMAIN s, DOMAIN t) : \A i \in DOMAIN s : t[f[i]] = s[i]
<1>1. ToSet(s) = ToSet(t)
  BY BagOfList
<1>2. /\ DOMAIN s = 1 .. Len(s) /\ DOMAIN t = 1 .. Len(t)
      /\ Len(s) \in Nat /\ Len(t) \in Nat
  OBVIOUS
<1> DEFINE Between(x) == Bijection(PlacesOf(s, x), PlacesOf(t, x))
           place == [x \in ToSet(s) |-> CHOOSE g \in Between(x) : TRUE]
           f == [i \in DOMAIN s |-> place[s[i]][i]]
<1>3. ASSUME NEW x \in ToSet(s) PROVE place[x] \in Between(x)
  <2>1. IsFiniteSet(PlacesOf(s, x)) /\ IsFiniteSet(PlacesOf(t, x))
    BY BagOfList
  <2>2. Cardinality(PlacesOf(s, x)) = Cardinality(PlacesOf(t, x))
    BY <1>1, BagOfList
  <2>3. Between(x) # {}
    BY <2>1, <2>2, FS_SameCardinalityBij DEF ExistsBijection
  <2> HIDE DEF Between
  <2> QED
    BY <2>3
<1>4. ASSUME NEW x \in ToSet(s)
      PROVE  /\ place[x] \in [PlacesOf(s, x) -> PlacesOf(t, x)]
             /\ \A i, j \in PlacesOf(s, x) : place[x][i] = place[x][j] => i = j
             /\ \A k \in PlacesOf(t, x) : \E i \in PlacesOf(s, x) : place[x][i] = k
  <2>1. place[x] \in Between(x)
    BY <1>3
  <2> HIDE DEF place
  <2> QED
    BY <2>1 DEF Bijection, Injection, Surjection, IsInjective
<1>5. ASSUME NEW i \in DOMAIN s
      PROVE  f[i] \in DOMAIN t /\ t[f[i]] = s[i] /\ f[i] = place[s[i]][i]
  <2>1. s[i] \in ToSet(s) /\ i \in PlacesOf(s, s[i]) /\ f[i] = place[s[i]][i]
    BY DEF ToSet, PlacesOf
  <2> HIDE DEF place, f
  <2>2. f[i] \in PlacesOf(t, s[i])
    BY <2>1, <1>4
  <2> QED
    BY <2>1, <2>2 DEF PlacesOf
<1>6. f \in [DOMAIN s -> DOMAIN t]
  BY <1>5
<1> HIDE DEF place, f
<1>7. ASSUME NEW i \in DOMAIN s, NEW j \in DOMAIN s, f[i] = f[j] PROVE i = j
  <2>1. s[i] = s[j]
    BY <1>5, <1>7
  <2>2. s[i] \in ToSet(s) /\ i \in PlacesOf(s, s[i]) /\ j \in PlacesOf(s, s[i])
    BY <2>1 DEF ToSet, PlacesOf
  <2>3. place[s[i]][i] = place[s[i]][j]
    BY <2>1, <1>5, <1>7
  <2> QED
    BY <2>2, <2>3, <1>4
<1>8. ASSUME NEW k \in DOMAIN t PROVE \E i \in DOMAIN s : f[i] = k
  <2>1. t[k] \in ToSet(s) /\ k \in PlacesOf(t, t[k])
    BY <1>1 DEF ToSet, PlacesOf
  <2>2. PICK i \in PlacesOf(s, t[k]) : place[t[k]][i] = k
    BY <2>1, <1>4
  <2> QED
    BY <2>2, <1>5 DEF PlacesOf
<1>9. f \in Bijection(DOMAIN s, DOMAIN t)
  BY <1>6, <1>7, <1>8 DEF Bijection, Injection, Surjection, IsInjective
<1> QED
  BY <1>5, <1>9

LEMMA PermutedBag ==
    ASSUME NEW X, NEW s \in Seq(X), NEW t \in Seq(X), NEW f \in Bijection(DOMAIN s, DOMAIN t),
           \A i \in DOMAIN s : t[f[i]] = s[i]
    PROVE  ToBag(s) = ToBag(t)
<1>1. /\ f \in [DOMAIN s -> DOMAIN t]
      /\ \A i, j \in DOMAIN s : f[i] = f[j] => i = j
      /\ \A k \in DOMAIN t : \E i \in DOMAIN s : f[i] = k
  BY DEF Bijection, Injection, Surjection, IsInjective
<1>2. ToSet(s) = ToSet(t)
  BY <1>1 DEF ToSet
<1>3. ASSUME NEW x \in ToSet(s)
      PROVE  Cardinality(PlacesOf(s, x)) = Cardinality(PlacesOf(t, x))
  <2> DEFINE P == PlacesOf(s, x)
             Q == PlacesOf(t, x)
             g == [i \in P |-> f[i]]
  <2>1. /\ g \in [P -> Q] /\ \A i, j \in P : g[i] = g[j] => i = j
        /\ \A k \in Q : \E i \in P : g[i] = k
    BY <1>1 DEF PlacesOf
  <2>2. IsFiniteSet(P)
    BY BagOfList
  <2> HIDE DEF P, Q, g
  <2>3. g \in Bijection(P, Q)
    BY <2>1 DEF Bijection, Injection, Surjection, IsInjective
  <2>4. ExistsBijection(P, Q)
    BY <2>3 DEF ExistsBijection
  <2> QED
    BY <2>2, <2>4, FS_Bijection DEF P, Q
<1>4. DOMAIN ToBag(s) = ToSet(s) /\ DOMAIN ToBag(t) = ToSet(s)
  BY <1>2, BagOfList
<1>5. \A x \in ToSet(s) : ToBag(s)[x] = ToBag(t)[x]
  BY <1>2, <1>3, BagOfList
<1>6. ToBag(s) = [x \in ToSet(s) |-> ToBag(s)[x]] /\ ToBag(t) = [x \in ToSet(s) |-> ToBag(t)[x]]
  BY <1>4 DEF ToBag
<1> QED
  BY <1>5, <1>6

\* Lists with one bag are as long.
LEMMA BagTellsLength ==
    ASSUME NEW X, NEW s \in Seq(X), NEW t \in Seq(X), ToBag(s) = ToBag(t)
    PROVE  Len(s) = Len(t) /\ ToSet(s) = ToSet(t)
<1>1. ToSet(s) = ToSet(t)
  BY BagOfList
<1>2. /\ DOMAIN s = 1 .. Len(s) /\ DOMAIN t = 1 .. Len(t)
      /\ Len(s) \in Nat /\ Len(t) \in Nat
  OBVIOUS
<1>3. PICK f \in Bijection(DOMAIN s, DOMAIN t) : TRUE
  BY BagPermutes
<1>4. Cardinality(1 .. Len(t)) = Cardinality(1 .. Len(s))
  <2>1. ExistsBijection(1 .. Len(s), 1 .. Len(t))
    BY <1>2, <1>3 DEF ExistsBijection
  <2>2. IsFiniteSet(1 .. Len(s))
    BY <1>2, FS_Interval
  <2> QED
    BY <2>1, <2>2, FS_Bijection
<1>5. Cardinality(1 .. Len(s)) = Len(s) /\ Cardinality(1 .. Len(t)) = Len(t)
  <2>1. ASSUME NEW n \in Nat PROVE Cardinality(1 .. n) = n
    BY FS_Interval
  <2> QED
    BY <2>1, <1>2
<1> QED
  BY <1>1, <1>4, <1>5

MappedAlike(s, t, u, v) ==
    /\ Len(u) = Len(s) /\ Len(v) = Len(t)
    /\ \A i \in DOMAIN s : \A j \in DOMAIN t : s[i] = t[j] => u[i] = v[j]

\* Lists with one bag, mapped alike.
LEMMA MappedBags ==
    ASSUME NEW X, NEW s \in Seq(X), NEW t \in Seq(X), ToBag(s) = ToBag(t),
           NEW Y, NEW u \in Seq(Y), NEW v \in Seq(Y), MappedAlike(s, t, u, v)
    PROVE  ToBag(u) = ToBag(v)
<1>a. /\ Len(u) = Len(s) /\ Len(v) = Len(t)
      /\ \A i \in DOMAIN s : \A j \in DOMAIN t : s[i] = t[j] => u[i] = v[j]
  BY DEF MappedAlike
<1>0. s \in Seq(X) /\ t \in Seq(X) /\ ToBag(s) = ToBag(t)
  OBVIOUS
<1>1. PICK f : /\ f \in Bijection(DOMAIN s, DOMAIN t)
               /\ \A i \in DOMAIN s : t[f[i]] = s[i]
  <2>1. \E f \in Bijection(DOMAIN s, DOMAIN t) : \A i \in DOMAIN s : t[f[i]] = s[i]
    BY ONLY <1>0, BagPermutes
  <2> QED
    BY <2>1
<1>2. DOMAIN u = DOMAIN s /\ DOMAIN v = DOMAIN t
  BY <1>a
<1>3. f \in [DOMAIN s -> DOMAIN t]
  BY <1>1 DEF Bijection, Injection
<1>4. \A i \in DOMAIN u : v[f[i]] = u[i]
  BY <1>a, <1>1, <1>2, <1>3
<1>5. f \in Bijection(DOMAIN u, DOMAIN v)
  BY <1>1, <1>2
<1> QED
  BY <1>4, <1>5, PermutedBag

\* Sorting puts the members in another order and nothing else.
LEMMA SortedKeeps ==
    ASSUME NEW X, NEW d \in Seq(X)
    PROVE  /\ Sorted(d) \in Seq(X)
           /\ ToBag(Sorted(d)) = ToBag(d)
           /\ Len(Sorted(d)) = Len(d)
           /\ ToSet(Sorted(d)) = ToSet(d)
<1>1. d \in [DOMAIN d -> ToSet(d)]
  BY DEF ToSet
<1>2. Sorted(d) \in [DOMAIN d -> ToSet(d)] /\ ToBag(Sorted(d)) = ToBag(d)
  BY <1>1, Zenon DEF Sorted
<1>3. DOMAIN d = 1 .. Len(d) /\ Len(d) \in Nat /\ ToSet(d) \subseteq X
  BY DEF ToSet
<1>4. Sorted(d) \in Seq(X)
  BY <1>2, <1>3
<1> QED
  BY <1>2, <1>4, BagTellsLength

\* The order depends on the members alone.
LEMMA SortedOfBag ==
    ASSUME NEW X, NEW d \in Seq(X), NEW e \in Seq(X), ToBag(d) = ToBag(e)
    PROVE  Sorted(d) = Sorted(e)
<1>1. Len(d) = Len(e) /\ ToSet(d) = ToSet(e)
  BY BagTellsLength
<1>2. DOMAIN d = DOMAIN e
  BY <1>1
<1> QED
  BY <1>1, <1>2 DEF Sorted

\* What the root over sorted digests, with their number, says of two lists: they
\* have the same members, each as often.
LEMMA SortedRootTells ==
    ASSUME NEW X, NEW d \in Seq(X), NEW e \in Seq(X), Len(d) = Len(e)
    PROVE  MerkleRoot(Sorted(d)) = MerkleRoot(Sorted(e)) <=> ToBag(d) = ToBag(e)
<1>1. /\ Sorted(d) \in Seq(X) /\ Sorted(e) \in Seq(X)
      /\ Len(Sorted(d)) = Len(Sorted(e))
      /\ ToBag(Sorted(d)) = ToBag(d) /\ ToBag(Sorted(e)) = ToBag(e)
  BY SortedKeeps
<1>2. ASSUME MerkleRoot(Sorted(d)) = MerkleRoot(Sorted(e)) PROVE ToBag(d) = ToBag(e)
  <2>1. Sorted(d) = Sorted(e)
    BY <1>1, <1>2, MerkleRootTells
  <2> QED
    BY <1>1, <2>1
<1>3. ASSUME ToBag(d) = ToBag(e) PROVE MerkleRoot(Sorted(d)) = MerkleRoot(Sorted(e))
  BY <1>3, SortedOfBag
<1> QED
  BY <1>2, <1>3

\* And what the root says without the number.
LEMMA SortedRootMembers ==
    ASSUME NEW X, NEW d \in Seq(X), NEW e \in Seq(X),
           MerkleRoot(Sorted(d)) = MerkleRoot(Sorted(e))
    PROVE  ToSet(d) = ToSet(e)
<1>1. /\ Sorted(d) \in Seq(X) /\ Sorted(e) \in Seq(X)
      /\ ToSet(Sorted(d)) = ToSet(d) /\ ToSet(Sorted(e)) = ToSet(e)
  BY SortedKeeps
<1>2. /\ ToSet(MerkleRoot(Sorted(d))) = ToSet(Sorted(d))
      /\ ToSet(MerkleRoot(Sorted(e))) = ToSet(Sorted(e))
  BY <1>1, MerkleRootMembers
<1> QED
  BY <1>1, <1>2

--------------------------------------------------------------------------------
(* Kept lists.                                                                 *)

KeptOf(list, places) ==
    CHOOSE kept : kept = [n \in 0 .. Len(list) |->
        IF n = 0 THEN <<>>
        ELSE IF n \in places THEN Append(kept[n - 1], list[n]) ELSE kept[n - 1]]

LEMMA KeptIsOf == \A list, places : Kept(list, places) = KeptOf(list, places)[Len(list)]
BY DEF Kept, KeptOf

LEMMA KeptAre ==
    ASSUME NEW X, NEW list \in Seq(X), NEW places
    PROVE  /\ KeptOf(list, places)[0] = <<>>
           /\ \A n \in 1 .. Len(list) :
                 KeptOf(list, places)[n] =
                     IF n \in places THEN Append(KeptOf(list, places)[n - 1], list[n])
                     ELSE KeptOf(list, places)[n - 1]
<1> DEFINE V == Seq(X)
           top == Len(list)
           G == [p \in Nat \X V |-> IF p[1] \in places /\ p[1] \in 1 .. top
                                    THEN Append(p[2], list[p[1]]) ELSE p[2]]
           Step(kept) == [n \in 0 .. top |->
               IF n = 0 THEN <<>>
               ELSE IF n \in places THEN Append(kept[n - 1], list[n]) ELSE kept[n - 1]]
<1>1. G \in [Nat \X V -> V]
  <2>1. ASSUME NEW n \in 1 .. top, NEW s \in V PROVE Append(s, list[n]) \in V
    OBVIOUS
  <2> HIDE DEF V, top
  <2> QED
    BY <2>1
<1>2. <<>> \in V /\ top \in Nat
  OBVIOUS
<1> HIDE DEF V, G, top
<1>3. PICK f \in [Nat -> V] : Counts(f, <<>>, G)
  BY <1>1, <1>2, Counting, Zenon
<1>4. ASSUME NEW n \in 1 .. top
      PROVE  f[n] = IF n \in places THEN Append(f[n - 1], list[n]) ELSE f[n - 1]
  <2>1. n \in Nat /\ n - 1 \in Nat /\ (n - 1) + 1 = n
    BY <1>2
  <2>2. f[n] = G[<<n, f[n - 1]>>] /\ f[n - 1] \in V
    BY <1>3, <2>1 DEF Counts
  <2> QED
    BY <2>1, <2>2 DEF G
<1>5. f[0] = <<>>
  BY <1>3 DEF Counts
<1> DEFINE g == [n \in 0 .. top |-> f[n]]
<1>6. g = Step(g)
  <2>1. ASSUME NEW n \in 0 .. top PROVE g[n] = Step(g)[n]
    <3>1. CASE n = 0
      BY <1>5, <3>1
    <3>2. CASE n # 0
      <4>1. n \in 1 .. top /\ n - 1 \in 0 .. top
        BY <1>2, <3>2
      <4>2. g[n] = f[n] /\ g[n - 1] = f[n - 1]
        BY <4>1
      <4> HIDE DEF g
      <4> QED
        BY <1>4, <3>2, <4>1, <4>2
    <3> QED
      BY <3>1, <3>2
  <2> QED
    BY <2>1
<1>7. KeptOf(list, places) = CHOOSE kept : kept = Step(kept)
  BY Zenon DEF KeptOf, top
<1>8. KeptOf(list, places) = Step(KeptOf(list, places))
  <2> HIDE DEF Step, g
  <2> QED
    BY <1>6, <1>7
<1> DEFINE kept == KeptOf(list, places)
<1> HIDE DEF kept
<1>9. kept = Step(kept)
  BY <1>8 DEF kept
<1>10. kept[0] = <<>>
  BY <1>2, <1>9
<1>11. ASSUME NEW n \in 1 .. top
       PROVE  kept[n] = IF n \in places THEN Append(kept[n - 1], list[n]) ELSE kept[n - 1]
  <2>1. n \in 0 .. top /\ n # 0
    BY <1>2
  <2>2. kept[n] = Step(kept)[n]
    BY <1>9, Zenon
  <2> QED
    BY <2>1, <2>2
<1> QED
  BY <1>10, <1>11 DEF kept, top

LEMMA PlacesAppended ==
    ASSUME NEW X, NEW s \in Seq(X), NEW e \in X, NEW x
    PROVE  /\ Append(s, e) \in Seq(X) /\ Len(Append(s, e)) = Len(s) + 1
           /\ ToSet(Append(s, e)) = ToSet(s) \cup {e}
           /\ Cardinality(PlacesOf(Append(s, e), x))
                 = Cardinality(PlacesOf(s, x)) + IF e = x THEN 1 ELSE 0
<1> DEFINE t == Append(s, e)
           l == Len(s)
<1>1. l \in Nat /\ DOMAIN s = 1 .. l /\ DOMAIN t = 1 .. l + 1
      /\ t[l + 1] = e /\ \A i \in 1 .. l : t[i] = s[i]
  OBVIOUS
<1>2. t \in Seq(X) /\ Len(t) = Len(s) + 1
  OBVIOUS
<1> HIDE DEF t, l
<1>3. ToSet(t) = ToSet(s) \cup {e}
  <2>1. \A i \in 1 .. l + 1 : i \in 1 .. l \/ i = l + 1
    BY <1>1
  <2>2. \A i \in 1 .. l : i \in 1 .. l + 1
    BY <1>1
  <2>3. l + 1 \in 1 .. l + 1
    BY <1>1
  <2> QED
    BY <1>1, <2>1, <2>2, <2>3 DEF ToSet
<1>4. /\ IsFiniteSet(PlacesOf(s, x)) /\ Cardinality(PlacesOf(s, x)) \in Nat
      /\ l + 1 \notin PlacesOf(s, x)
  <2>1. IsFiniteSet(PlacesOf(s, x)) /\ Cardinality(PlacesOf(s, x)) \in Nat
    BY BagOfList, Zenon
  <2>2. l + 1 \notin PlacesOf(s, x)
    BY <1>1 DEF PlacesOf
  <2> QED
    BY <2>1, <2>2
<1>5. CASE e = x
  <2>1. PlacesOf(t, x) = PlacesOf(s, x) \cup {l + 1}
    BY <1>1, <1>5 DEF PlacesOf
  <2>2. Cardinality(PlacesOf(s, x) \cup {l + 1}) = Cardinality(PlacesOf(s, x)) + 1
    BY <1>4, FS_AddElement
  <2> QED
    BY <1>2, <1>3, <1>5, <2>1, <2>2 DEF t
<1>6. CASE e # x
  <2>1. PlacesOf(t, x) = PlacesOf(s, x)
    BY <1>1, <1>6 DEF PlacesOf
  <2> QED
    BY <1>2, <1>3, <1>4, <1>6, <2>1 DEF t
<1> QED
  BY <1>5, <1>6

\* What is kept of a list, each member as often as it is at one of the places.
LEMMA KeptIs ==
    ASSUME NEW X, NEW list \in Seq(X), NEW places \in SUBSET DOMAIN list
    PROVE  /\ Kept(list, places) \in Seq(X)
           /\ Len(Kept(list, places)) = Cardinality(places)
           /\ ToSet(Kept(list, places)) = {list[i] : i \in places}
           /\ \A x : Cardinality(PlacesOf(Kept(list, places), x))
                        = Cardinality({i \in places : list[i] = x})
<1> DEFINE top == Len(list)
           kept == KeptOf(list, places)
           Upto(n) == {i \in places : i <= n}
           At(n, x) == {i \in Upto(n) : list[i] = x}
           Good(n) == /\ kept[n] \in Seq(X)
                      /\ Len(kept[n]) = Cardinality(Upto(n))
                      /\ ToSet(kept[n]) = {list[i] : i \in Upto(n)}
                      /\ \A x : Cardinality(PlacesOf(kept[n], x)) = Cardinality(At(n, x))
           S == {n \in Nat : n <= top => Good(n)}
<1>1. top \in Nat /\ DOMAIN list = 1 .. top /\ places \subseteq 1 .. top
      /\ IsFiniteSet(places)
  <2>1. Len(list) \in Nat /\ DOMAIN list = 1 .. Len(list)
    OBVIOUS
  <2>2. IsFiniteSet(1 .. Len(list))
    BY <2>1, FS_Interval
  <2> QED
    BY <2>1, <2>2, FS_Subset
<1>2. /\ kept[0] = <<>>
      /\ \A n \in 1 .. top : kept[n] = IF n \in places THEN Append(kept[n - 1], list[n])
                                       ELSE kept[n - 1]
  BY KeptAre
<1> HIDE DEF top, kept
<1>3. 0 \in S
  <2>1. Upto(0) = {} /\ \A x : At(0, x) = {}
    BY <1>1
  <2>2. <<>> \in Seq(X) /\ ToSet(<<>>) = {} /\ \A x : PlacesOf(<<>>, x) = {}
    BY DEF ToSet, PlacesOf
  <2>3. kept[0] \in Seq(X) /\ ToSet(kept[0]) = {} /\ \A x : PlacesOf(kept[0], x) = {}
    BY <1>2, <2>2
  <2>4. Len(kept[0]) = 0 /\ Cardinality({}) = 0
    BY <1>2, FS_EmptySet
  <2> HIDE DEF Upto, At
  <2> QED
    BY <2>1, <2>3, <2>4
<1>4. ASSUME NEW n \in Nat, n \in S PROVE n + 1 \in S
  <2> SUFFICES ASSUME n + 1 <= top PROVE Good(n + 1)
    OBVIOUS
  <2>1. n + 1 \in 1 .. top /\ (n + 1) - 1 = n /\ n <= top
    BY <1>1
  <2>2. Good(n)
    BY <1>4, <2>1
  <2>3. kept[n + 1] = IF n + 1 \in places THEN Append(kept[n], list[n + 1]) ELSE kept[n]
    BY <1>2, <2>1
  <2>4. list[n + 1] \in X
    BY <1>1, <2>1
  <2>5. CASE n + 1 \in places
    <3> DEFINE e == list[n + 1]
    <3>1. Upto(n + 1) = Upto(n) \cup {n + 1} /\ n + 1 \notin Upto(n)
      BY <1>1, <2>5
    <3>2. ASSUME NEW x
          PROVE  Cardinality(At(n + 1, x)) = Cardinality(At(n, x)) + IF e = x THEN 1 ELSE 0
      <4>1. At(n, x) \in SUBSET places
        OBVIOUS
      <4>2. IsFiniteSet(At(n, x)) /\ Cardinality(At(n, x)) \in Nat
        <5> HIDE DEF At
        <5> QED
          BY <1>1, <4>1, FS_Subset, FS_CardinalityType
      <4>3. CASE e = x
        <5>1. At(n + 1, x) = At(n, x) \cup {n + 1} /\ n + 1 \notin At(n, x)
          BY <3>1, <4>3
        <5> HIDE DEF At
        <5>2. Cardinality(At(n, x) \cup {n + 1}) = Cardinality(At(n, x)) + 1
          BY <4>2, <5>1, FS_AddElement
        <5> QED
          BY <4>3, <5>1, <5>2
      <4>4. CASE e # x
        <5>1. At(n + 1, x) = At(n, x)
          BY <3>1, <4>4
        <5> HIDE DEF At
        <5> QED
          BY <4>2, <4>4, <5>1
      <4> QED
        BY <4>3, <4>4
    <3>3. {list[i] : i \in Upto(n + 1)} = {list[i] : i \in Upto(n)} \cup {e}
      BY <3>1
    <3>4. kept[n + 1] = Append(kept[n], e)
      BY <2>3, <2>5
    <3>5. kept[n] \in Seq(X)
      BY <2>2
    <3> HIDE DEF e
    <3>6. Cardinality(Upto(n + 1)) = Cardinality(Upto(n)) + 1
      <4>1. Upto(n) \in SUBSET places
        OBVIOUS
      <4> HIDE DEF Upto
      <4>2. IsFiniteSet(Upto(n))
        BY <1>1, <4>1, FS_Subset
      <4> QED
        BY <3>1, <4>2, FS_AddElement
    <3>7. /\ Append(kept[n], e) \in Seq(X)
          /\ Len(Append(kept[n], e)) = Len(kept[n]) + 1
          /\ ToSet(Append(kept[n], e)) = ToSet(kept[n]) \cup {e}
          /\ \A x : Cardinality(PlacesOf(Append(kept[n], e), x))
                       = Cardinality(PlacesOf(kept[n], x)) + IF e = x THEN 1 ELSE 0
      BY <2>4, <3>5, PlacesAppended DEF e
    <3> HIDE DEF Upto, At
    <3> QED
      BY <2>2, <3>2, <3>3, <3>4, <3>6, <3>7
  <2>6. CASE n + 1 \notin places
    <3>1. Upto(n + 1) = Upto(n)
      BY <1>1, <2>6
    <3>2. kept[n + 1] = kept[n]
      BY <2>3, <2>6
    <3> HIDE DEF Upto
    <3> QED
      BY <2>2, <3>1, <3>2
  <2> QED
    BY <2>5, <2>6
<1>5. Good(top)
  <2>1. Nat \subseteq S
    <3> HIDE DEF S
    <3> QED
      BY <1>3, <1>4, Induct
  <2> HIDE DEF Good
  <2> QED
    BY <1>1, <2>1
<1>6. Upto(top) = places
  BY <1>1
<1>7. Kept(list, places) = kept[top]
  BY KeptIsOf DEF kept, top
<1> QED
  BY <1>5, <1>6, <1>7

Selects(s, places, M) ==
    places \in SUBSET DOMAIN s /\ \A i \in DOMAIN s : i \in places <=> s[i] \in M

\* Of lists with one bag, what satisfies one condition is one bag.
LEMMA KeptBags ==
    ASSUME NEW X, NEW s \in Seq(X), NEW t \in Seq(X), ToBag(s) = ToBag(t),
           NEW p, NEW q, NEW M, Selects(s, p, M), Selects(t, q, M)
    PROVE  ToBag(Kept(s, p)) = ToBag(Kept(t, q))
<1>0. /\ p \in SUBSET DOMAIN s /\ \A i \in DOMAIN s : i \in p <=> s[i] \in M
      /\ q \in SUBSET DOMAIN t /\ \A i \in DOMAIN t : i \in q <=> t[i] \in M
  BY DEF Selects
<1> DEFINE a == Kept(s, p)
           b == Kept(t, q)
<1>1. /\ a \in Seq(X) /\ ToSet(a) = {s[i] : i \in p}
      /\ b \in Seq(X) /\ ToSet(b) = {t[i] : i \in q}
      /\ \A x : Cardinality(PlacesOf(a, x)) = Cardinality({i \in p : s[i] = x})
      /\ \A x : Cardinality(PlacesOf(b, x)) = Cardinality({i \in q : t[i] = x})
  BY <1>0, KeptIs
<1>2. ToSet(s) = ToSet(t)
  <2>1. s \in Seq(X) /\ t \in Seq(X) /\ ToBag(s) = ToBag(t)
    OBVIOUS
  <2> QED
    BY ONLY <2>1, BagTellsLength
<1>3. ToSet(a) = ToSet(s) \cap M /\ ToSet(b) = ToSet(t) \cap M
  <2>1. ToSet(s) = {s[i] : i \in DOMAIN s} /\ ToSet(t) = {t[i] : i \in DOMAIN t}
    BY DEF ToSet
  <2>2. {s[i] : i \in p} = {s[i] : i \in DOMAIN s} \cap M
    BY ONLY <1>0
  <2>3. {t[i] : i \in q} = {t[i] : i \in DOMAIN t} \cap M
    BY ONLY <1>0
  <2> QED
    BY ONLY <1>1, <2>1, <2>2, <2>3
<1>4. ASSUME NEW x \in ToSet(a)
      PROVE  Cardinality(PlacesOf(a, x)) = Cardinality(PlacesOf(b, x))
  <2>1. x \in ToSet(s) /\ x \in ToSet(t) /\ x \in M
    BY <1>2, <1>3
  <2>2. {i \in p : s[i] = x} = PlacesOf(s, x) /\ {i \in q : t[i] = x} = PlacesOf(t, x)
    BY <1>0, <2>1 DEF PlacesOf
  <2>3. Cardinality(PlacesOf(s, x)) = Cardinality(PlacesOf(t, x))
    BY <2>1, BagOfList
  <2> QED
    BY <1>1, <2>2, <2>3
<1> HIDE DEF a, b
<1>5. DOMAIN ToBag(a) = ToSet(a) /\ DOMAIN ToBag(b) = ToSet(a)
  BY <1>1, <1>2, <1>3, BagOfList
<1>6. \A x \in ToSet(a) : ToBag(a)[x] = ToBag(b)[x]
  BY <1>1, <1>2, <1>3, <1>4, BagOfList
<1>7. ToBag(a) = [x \in ToSet(a) |-> ToBag(a)[x]] /\ ToBag(b) = [x \in ToSet(a) |-> ToBag(b)[x]]
  BY <1>5 DEF ToBag
<1> QED
  BY <1>6, <1>7 DEF a, b

IsList(s) == s \in Seq(ToSet(s))

LEMMA ListsOf ==
    ASSUME NEW X, NEW s \in Seq(X)
    PROVE  IsList(s) /\ ToSet(s) \subseteq X
BY DEF IsList, ToSet

LEMMA ListIn ==
    ASSUME NEW s, IsList(s), NEW X, ToSet(s) \subseteq X
    PROVE  s \in Seq(X)
BY DEF IsList

--------------------------------------------------------------------------------
(* Sums.                                                                       *)

TotalsOf(counts) ==
    CHOOSE total : total = [n \in 0 .. Len(counts) |->
        IF n = 0 THEN 0 ELSE total[n - 1] + counts[n]]

LEMMA TotalOfIs == \A counts : TotalOf(counts) = TotalsOf(counts)[Len(counts)]
BY DEF TotalOf, TotalsOf

LEMMA TotalsAre ==
    ASSUME NEW counts \in Seq(Int)
    PROVE  /\ TotalsOf(counts)[0] = 0
           /\ \A n \in 0 .. Len(counts) : TotalsOf(counts)[n] \in Int
           /\ \A n \in 1 .. Len(counts) :
                 TotalsOf(counts)[n] = TotalsOf(counts)[n - 1] + counts[n]
<1> DEFINE top == Len(counts)
           G == [p \in Nat \X Int |-> p[2] + IF p[1] \in 1 .. top THEN counts[p[1]] ELSE 0]
           Step(total) == [n \in 0 .. top |-> IF n = 0 THEN 0 ELSE total[n - 1] + counts[n]]
<1>1. top \in Nat /\ 0 \in Int /\ \A n \in 1 .. top : counts[n] \in Int
  OBVIOUS
<1> HIDE DEF top
<1>2. G \in [Nat \X Int -> Int]
  BY <1>1
<1> HIDE DEF G
<1>3. PICK f \in [Nat -> Int] : Counts(f, 0, G)
  BY <1>1, <1>2, Counting, Zenon
<1>4. ASSUME NEW n \in 1 .. top PROVE f[n] = f[n - 1] + counts[n]
  <2>1. n \in Nat /\ n - 1 \in Nat /\ (n - 1) + 1 = n
    BY <1>1
  <2>2. f[n] = G[<<n, f[n - 1]>>] /\ f[n - 1] \in Int
    BY <1>3, <2>1 DEF Counts
  <2> QED
    BY <2>1, <2>2 DEF G
<1>5. f[0] = 0
  BY <1>3 DEF Counts
<1> DEFINE g == [n \in 0 .. top |-> f[n]]
<1>6. g = Step(g)
  <2>1. ASSUME NEW n \in 0 .. top PROVE g[n] = Step(g)[n]
    <3>1. CASE n = 0
      BY <1>5, <3>1
    <3>2. CASE n # 0
      <4>1. n \in 1 .. top /\ n - 1 \in 0 .. top
        BY <1>1, <3>2
      <4>2. g[n] = f[n] /\ g[n - 1] = f[n - 1]
        BY <4>1
      <4> HIDE DEF g
      <4> QED
        BY <1>4, <3>2, <4>1, <4>2
    <3> QED
      BY <3>1, <3>2
  <2> QED
    BY <2>1
<1> DEFINE total == TotalsOf(counts)
<1>7. total = CHOOSE t : t = Step(t)
  BY Zenon DEF TotalsOf, top
<1>8. total = Step(total)
  <2> HIDE DEF Step, g, total
  <2> QED
    BY <1>6, <1>7
<1> HIDE DEF total
<1>9. total[0] = 0
  BY <1>1, <1>8
<1>10. ASSUME NEW n \in 1 .. top PROVE total[n] = total[n - 1] + counts[n]
  <2>1. n \in 0 .. top /\ n # 0
    BY <1>1
  <2>2. total[n] = Step(total)[n]
    BY <1>8, Zenon
  <2> QED
    BY <2>1, <2>2
<1> DEFINE S == {n \in Nat : n <= top => total[n] \in Int}
<1>11. 0 \in S
  BY <1>9
<1>12. ASSUME NEW n \in Nat, n \in S PROVE n + 1 \in S
  <2> SUFFICES ASSUME n + 1 <= top PROVE total[n + 1] \in Int
    OBVIOUS
  <2>1. n + 1 \in 1 .. top /\ (n + 1) - 1 = n /\ n <= top
    BY <1>1
  <2>2. total[n + 1] = total[n] + counts[n + 1] /\ total[n] \in Int
    BY <1>10, <1>12, <2>1
  <2>3. counts[n + 1] \in Int
    BY <1>1, <2>1
  <2> DEFINE x == total[n]
             y == counts[n + 1]
  <2>4. x \in Int /\ y \in Int
    BY <2>2, <2>3
  <2> HIDE DEF x, y
  <2>5. x + y \in Int
    BY <2>4
  <2> QED
    BY <2>2, <2>5 DEF x, y
<1>13. Nat \subseteq S
  <2> HIDE DEF S
  <2> QED
    BY <1>11, <1>12, Induct
<1>14. \A n \in 0 .. top : total[n] \in Int
  BY <1>1, <1>13
<1> QED
  BY <1>9, <1>10, <1>14 DEF total, top

\* One count more.
LEMMA TotalOfAppend ==
    ASSUME NEW s \in Seq(Int), NEW k \in Int
    PROVE  TotalOf(s) \in Int /\ TotalOf(Append(s, k)) = TotalOf(s) + k
<1> DEFINE t == Append(s, k)
           l == Len(s)
           a == TotalsOf(s)
           b == TotalsOf(t)
<1>1. /\ l \in Nat /\ t \in Seq(Int) /\ Len(t) = l + 1 /\ t[l + 1] = k
      /\ \A i \in 1 .. l : t[i] = s[i]
  OBVIOUS
<1>2. /\ a[0] = 0
      /\ \A n \in 0 .. l : a[n] \in Int
      /\ \A n \in 1 .. l : a[n] = a[n - 1] + s[n]
  BY TotalsAre
<1> HIDE DEF t
<1>3. /\ b[0] = 0
      /\ \A n \in 1 .. l + 1 : b[n] = b[n - 1] + t[n]
  BY <1>1, TotalsAre
<1>4. TotalOf(s) = a[l] /\ TotalOf(t) = b[l + 1]
  BY <1>1, TotalOfIs, Zenon
<1> HIDE DEF l, a, b
<1> DEFINE S == {n \in Nat : n <= l => a[n] = b[n]}
<1>5. 0 \in S
  BY <1>2, <1>3
<1>6. ASSUME NEW n \in Nat, n \in S PROVE n + 1 \in S
  <2> SUFFICES ASSUME n + 1 <= l PROVE a[n + 1] = b[n + 1]
    OBVIOUS
  <2>1. n + 1 \in 1 .. l /\ n + 1 \in 1 .. l + 1 /\ (n + 1) - 1 = n /\ n <= l
    BY <1>1
  <2> QED
    BY <1>1, <1>2, <1>3, <1>6, <2>1
<1>7. a[l] = b[l]
  <2>1. Nat \subseteq S
    <3> HIDE DEF S
    <3> QED
      BY <1>5, <1>6, Induct
  <2> QED
    BY <1>1, <2>1
<1>8. b[l + 1] = b[l] + k
  <2>1. l + 1 \in 1 .. l + 1 /\ (l + 1) - 1 = l
    BY <1>1
  <2> QED
    BY <1>1, <1>3, <2>1
<1>9. a[l] \in Int
  BY <1>1, <1>2
<1> QED
  BY <1>4, <1>7, <1>8, <1>9 DEF t

LEMMA TotalOfNone == TotalOf(<<>>) = 0
<1>1. <<>> \in Seq(Int) /\ Len(<<>>) = 0
  OBVIOUS
<1>2. TotalOf(<<>>) = TotalsOf(<<>>)[Len(<<>>)]
  BY TotalOfIs, Zenon
<1>3. TotalsOf(<<>>)[0] = 0
  BY <1>1, TotalsAre
<1> QED
  BY <1>1, <1>2, <1>3

LEMMA TotalOfNats ==
    ASSUME NEW s \in Seq(Nat)
    PROVE  /\ TotalOf(s) \in Nat
           /\ \A k \in Nat : TotalOf(Append(s, k)) = TotalOf(s) + k
<1> DEFINE l == Len(s)
           a == TotalsOf(s)
           S == {n \in Nat : n <= l => a[n] \in Nat}
<1>1. l \in Nat /\ s \in Seq(Int) /\ \A i \in 1 .. l : s[i] \in Nat
  OBVIOUS
<1>2. a[0] = 0 /\ \A n \in 1 .. l : a[n] = a[n - 1] + s[n]
  BY <1>1, TotalsAre
<1>3. TotalOf(s) = a[l]
  BY TotalOfIs, Zenon
<1> HIDE DEF l, a
<1>4. 0 \in S
  BY <1>2
<1>5. ASSUME NEW n \in Nat, n \in S PROVE n + 1 \in S
  <2> SUFFICES ASSUME n + 1 <= l PROVE a[n + 1] \in Nat
    OBVIOUS
  <2>1. n + 1 \in 1 .. l /\ (n + 1) - 1 = n /\ n <= l
    BY <1>1
  <2>2. a[n + 1] = a[n] + s[n + 1] /\ a[n] \in Nat /\ s[n + 1] \in Nat
    BY <1>1, <1>2, <1>5, <2>1
  <2> QED
    BY <2>2
<1>6. Nat \subseteq S
  <2> HIDE DEF S
  <2> QED
    BY <1>4, <1>5, Induct
<1>7. \A k \in Nat : TotalOf(Append(s, k)) = TotalOf(s) + k
  BY <1>1, TotalOfAppend
<1> QED
  BY <1>1, <1>3, <1>6, <1>7

--------------------------------------------------------------------------------
(* Lists in another order.                                                     *)

\* Lists that differ in one place.
LEMMA TotalsDiffer ==
    ASSUME NEW u \in Seq(Int), NEW v \in Seq(Int), Len(u) = Len(v), NEW i \in DOMAIN u,
           \A k \in DOMAIN u : k # i => u[k] = v[k]
    PROVE  TotalOf(u) = TotalOf(v) + (u[i] - v[i])
<1> DEFINE l == Len(u)
           a == TotalsOf(u)
           b == TotalsOf(v)
           more(n) == IF n < i THEN 0 ELSE u[i] - v[i]
           S == {n \in Nat : n <= l => a[n] = b[n] + more(n)}
<1>1. /\ l \in Nat /\ l = Len(v) /\ DOMAIN u = 1 .. l /\ DOMAIN v = 1 .. l /\ i \in 1 .. l
      /\ \A k \in 1 .. l : u[k] \in Int /\ v[k] \in Int
  OBVIOUS
<1>2. /\ a[0] = 0 /\ \A n \in 0 .. l : a[n] \in Int
      /\ \A n \in 1 .. l : a[n] = a[n - 1] + u[n]
  BY TotalsAre
<1>3. /\ b[0] = 0 /\ \A n \in 0 .. l : b[n] \in Int
      /\ \A n \in 1 .. l : b[n] = b[n - 1] + v[n]
  BY <1>1, TotalsAre
<1>4. TotalOf(u) = a[l] /\ TotalOf(v) = b[l]
  BY <1>1, TotalOfIs, Zenon
<1> HIDE DEF l, a, b
<1>5. 0 \in S
  BY <1>1, <1>2, <1>3
<1>6. ASSUME NEW n \in Nat, n \in S PROVE n + 1 \in S
  <2> SUFFICES ASSUME n + 1 <= l PROVE a[n + 1] = b[n + 1] + more(n + 1)
    OBVIOUS
  <2>1. n + 1 \in 1 .. l /\ (n + 1) - 1 = n /\ n <= l /\ n \in 0 .. l
    BY <1>1
  <2>2. /\ a[n + 1] = a[n] + u[n + 1] /\ b[n + 1] = b[n] + v[n + 1]
        /\ a[n] \in Int /\ b[n] \in Int /\ a[n] = b[n] + more(n)
        /\ u[n + 1] \in Int /\ v[n + 1] \in Int /\ u[i] \in Int /\ v[i] \in Int
    BY <1>1, <1>2, <1>3, <1>6, <2>1
  <2>3. CASE n + 1 = i
    BY <1>1, <2>2, <2>3
  <2>4. CASE n + 1 # i
    <3>0. n \in Int /\ i \in Int
      BY <1>1
    <3>1. u[n + 1] = v[n + 1]
      BY <1>1, <2>1, <2>4
    <3>2. CASE n < i
      <4>1. n + 1 < i
        BY <3>0, <3>2, <2>4
      <4>2. more(n + 1) = 0 /\ more(n) = 0
        BY <4>1, <3>2
      <4> HIDE DEF more
      <4> QED
        BY <2>2, <3>1, <4>2
    <3>3. CASE ~ (n < i)
      <4>1. ~ (n + 1 < i)
        BY <3>0, <3>3
      <4>2. more(n + 1) = more(n) /\ more(n) \in Int
        BY <2>2, <4>1, <3>3
      <4> HIDE DEF more
      <4> QED
        BY <2>2, <3>1, <4>2, SMTT(30)
    <3> QED
      BY <3>2, <3>3
  <2> QED
    BY <2>3, <2>4
<1>7. Nat \subseteq S
  <2> HIDE DEF S
  <2> QED
    BY <1>5, <1>6, Induct
<1>8. a[l] = b[l] + more(l) /\ ~ (l < i)
  BY <1>1, <1>7
<1> QED
  BY <1>4, <1>8

\* Only some places of a list.
Masked(s, P) == [k \in DOMAIN s |-> IF k \in P THEN s[k] ELSE 0]

LEMMA MaskedIs ==
    ASSUME NEW s \in Seq(Int), NEW P
    PROVE  /\ Masked(s, P) \in Seq(Int) /\ Len(Masked(s, P)) = Len(s)
           /\ DOMAIN Masked(s, P) = DOMAIN s
           /\ \A k \in DOMAIN s : Masked(s, P)[k] = IF k \in P THEN s[k] ELSE 0
<1>1. DOMAIN s = 1 .. Len(s) /\ Len(s) \in Nat /\ \A k \in DOMAIN s : s[k] \in Int
  OBVIOUS
<1>2. Masked(s, P) = [k \in 1 .. Len(s) |-> IF k \in P THEN s[k] ELSE 0]
  BY <1>1 DEF Masked
<1>3. \A k \in 1 .. Len(s) : (IF k \in P THEN s[k] ELSE 0) \in Int
  BY <1>1
<1>4. Masked(s, P) \in [1 .. Len(s) -> Int]
  BY <1>2, <1>3
<1> QED
  BY <1>1, <1>2, <1>4

LEMMA MaskedMore ==
    ASSUME NEW s \in Seq(Int), NEW P, NEW i \in DOMAIN s, i \in P
    PROVE  TotalOf(Masked(s, P)) = TotalOf(Masked(s, P \ {i})) + s[i]
<1> DEFINE u == Masked(s, P)
           v == Masked(s, P \ {i})
<1>1. /\ u \in Seq(Int) /\ v \in Seq(Int) /\ Len(u) = Len(v) /\ DOMAIN u = DOMAIN s
      /\ \A k \in DOMAIN s : u[k] = IF k \in P THEN s[k] ELSE 0
      /\ \A k \in DOMAIN s : v[k] = IF k \in P \ {i} THEN s[k] ELSE 0
  BY MaskedIs
<1> HIDE DEF u, v
<1>2. u[i] = s[i] /\ v[i] = 0 /\ \A k \in DOMAIN u : k # i => u[k] = v[k]
  BY <1>1
<1>3. TotalOf(u) = TotalOf(v) + (u[i] - v[i])
  BY <1>1, <1>2, TotalsDiffer
<1>4. s[i] \in Int
  OBVIOUS
<1>5. u[i] - v[i] = s[i]
  BY <1>2, <1>4
<1> QED
  BY <1>3, <1>5 DEF u, v

LEMMA MaskedAll ==
    ASSUME NEW s \in Seq(Int)
    PROVE  Masked(s, DOMAIN s) = s
<1>1. s = [k \in DOMAIN s |-> s[k]]
  OBVIOUS
<1> QED
  BY <1>1 DEF Masked

LEMMA TotalOfNothing ==
    ASSUME NEW s \in Seq(Int)
    PROVE  TotalOf(Masked(s, {})) = 0
<1> DEFINE u == Masked(s, {})
           l == Len(u)
           a == TotalsOf(u)
           S == {n \in Nat : n <= l => a[n] = 0}
<1>1. u \in Seq(Int) /\ l \in Nat /\ \A k \in 1 .. l : u[k] = 0
  <2>1. u \in Seq(Int) /\ DOMAIN u = DOMAIN s /\ \A k \in DOMAIN s : u[k] = 0
    BY MaskedIs
  <2> HIDE DEF u
  <2> QED
    BY <2>1
<1> HIDE DEF u
<1>2. a[0] = 0 /\ \A n \in 1 .. l : a[n] = a[n - 1] + u[n]
  BY <1>1, TotalsAre
<1>3. TotalOf(u) = a[l]
  BY TotalOfIs, Zenon
<1> HIDE DEF a, l
<1>4. 0 \in S
  BY <1>2
<1>5. ASSUME NEW n \in Nat, n \in S PROVE n + 1 \in S
  <2> SUFFICES ASSUME n + 1 <= l PROVE a[n + 1] = 0
    OBVIOUS
  <2>1. n + 1 \in 1 .. l /\ (n + 1) - 1 = n /\ n <= l
    BY <1>1
  <2> QED
    BY <1>1, <1>2, <1>5, <2>1
<1>6. Nat \subseteq S
  <2> HIDE DEF S
  <2> QED
    BY <1>4, <1>5, Induct
<1> QED
  BY <1>1, <1>3, <1>6 DEF u

\* The order of a list does not matter to its total.
LEMMA TotalOfBag ==
    ASSUME NEW s \in Seq(Int), NEW t \in Seq(Int), ToBag(s) = ToBag(t)
    PROVE  TotalOf(s) = TotalOf(t)
<1>0. \E f \in Bijection(DOMAIN s, DOMAIN t) : \A i \in DOMAIN s : t[f[i]] = s[i]
  BY BagPermutes
<1>1. PICK f : /\ f \in Bijection(DOMAIN s, DOMAIN t)
               /\ \A i \in DOMAIN s : t[f[i]] = s[i]
  BY <1>0
<1>2. /\ f \in [DOMAIN s -> DOMAIN t]
      /\ \A i, j \in DOMAIN s : f[i] = f[j] => i = j
      /\ \A k \in DOMAIN t : \E i \in DOMAIN s : f[i] = k
  BY <1>1 DEF Bijection, Injection, Surjection, IsInjective
<1>3. IsFiniteSet(DOMAIN s)
  <2>1. DOMAIN s = 1 .. Len(s) /\ Len(s) \in Nat
    OBVIOUS
  <2> QED
    BY <2>1, FS_Interval
<1> DEFINE Img(P) == {f[i] : i \in P}
           Same(P) == TotalOf(Masked(s, P)) = TotalOf(Masked(t, Img(P)))
           N == {n \in Nat : \A P \in SUBSET DOMAIN s : Cardinality(P) = n => Same(P)}
<1>4. \A P \in SUBSET DOMAIN s : IsFiniteSet(P) /\ Cardinality(P) \in Nat
  BY <1>3, FS_Subset, FS_CardinalityType
<1>5. 0 \in N
  <2> SUFFICES ASSUME NEW P \in SUBSET DOMAIN s, Cardinality(P) = 0 PROVE Same(P)
    OBVIOUS
  <2>1. P = {}
    BY <1>4, FS_EmptySet
  <2>2. Img(P) = {}
    BY <2>1
  <2> HIDE DEF Img
  <2> QED
    BY <2>1, <2>2, TotalOfNothing
<1>6. ASSUME NEW n \in Nat, n \in N PROVE n + 1 \in N
  <2> SUFFICES ASSUME NEW P \in SUBSET DOMAIN s, Cardinality(P) = n + 1 PROVE Same(P)
    OBVIOUS
  <2>0. P # {}
    <3>1. Cardinality({}) = 0 /\ n + 1 # 0
      BY FS_EmptySet
    <3> QED
      BY <3>1
  <2>1. PICK i \in P : TRUE
    BY <2>0
  <2> DEFINE Q == P \ {i}
  <2>2. Q \in SUBSET DOMAIN s /\ Cardinality(Q) = n
    <3>1. Cardinality(P \ {i}) = Cardinality(P) - 1
      BY <1>4, <2>1, FS_RemoveElement
    <3> QED
      BY <3>1
  <2>3. Img(Q) = Img(P) \ {f[i]} /\ f[i] \in Img(P) /\ f[i] \in DOMAIN t /\ t[f[i]] = s[i]
    BY <1>1, <1>2, <2>1
  <2>4. Same(Q)
    <3> HIDE DEF Q, Same
    <3> QED
      BY <1>6, <2>2
  <2>5. TotalOf(Masked(s, P)) = TotalOf(Masked(s, Q)) + s[i]
    BY <2>1, MaskedMore
  <2> HIDE DEF Img
  <2>6. TotalOf(Masked(t, Img(P))) = TotalOf(Masked(t, Img(P) \ {f[i]})) + t[f[i]]
    BY <2>3, MaskedMore
  <2> QED
    BY <2>3, <2>4, <2>5, <2>6
<1>7. Nat \subseteq N
  <2> HIDE DEF N
  <2> QED
    BY <1>5, <1>6, Induct
<1>8. Same(DOMAIN s)
  <2> HIDE DEF Same
  <2> QED
    BY <1>4, <1>7
<1>9. Img(DOMAIN s) = DOMAIN t
  <2>1. ASSUME NEW k \in DOMAIN t PROVE k \in Img(DOMAIN s)
    <3>1. PICK i \in DOMAIN s : f[i] = k
      BY <1>2
    <3> QED
      BY <3>1
  <2>2. \A i \in DOMAIN s : f[i] \in DOMAIN t
    BY <1>2
  <2> QED
    BY <2>1, <2>2
<1> QED
  BY <1>8, <1>9, MaskedAll

\* f says where each member of s is in t.
Carries(f, s, t) == f \in Bijection(DOMAIN s, DOMAIN t) /\ \A i \in DOMAIN s : t[f[i]] = s[i]

\* What is kept of a list that was put in another order.
LEMMA KeptPermuted ==
    ASSUME NEW X, NEW s \in Seq(X), NEW t \in Seq(X),
           NEW f, Carries(f, s, t), NEW P \in SUBSET DOMAIN t
    PROVE  ToBag(Kept(s, {i \in DOMAIN s : f[i] \in P})) = ToBag(Kept(t, P))
<1> DEFINE Q == {i \in DOMAIN s : f[i] \in P}
           a == Kept(s, Q)
           b == Kept(t, P)
<1>1. /\ f \in [DOMAIN s -> DOMAIN t]
      /\ \A i, j \in DOMAIN s : f[i] = f[j] => i = j
      /\ \A k \in DOMAIN t : \E i \in DOMAIN s : f[i] = k
      /\ \A i \in DOMAIN s : t[f[i]] = s[i]
  BY DEF Carries, Bijection, Injection, Surjection, IsInjective
<1>2. Q \in SUBSET DOMAIN s
  OBVIOUS
<1>3. /\ a \in Seq(X) /\ ToSet(a) = {s[i] : i \in Q}
      /\ \A x : Cardinality(PlacesOf(a, x)) = Cardinality({i \in Q : s[i] = x})
  BY <1>2, KeptIs
<1>4. /\ b \in Seq(X) /\ ToSet(b) = {t[i] : i \in P}
      /\ \A x : Cardinality(PlacesOf(b, x)) = Cardinality({i \in P : t[i] = x})
  BY KeptIs
<1>5. {s[i] : i \in Q} = {t[i] : i \in P}
  BY <1>1
<1>6. ASSUME NEW x
      PROVE  Cardinality({i \in Q : s[i] = x}) = Cardinality({i \in P : t[i] = x})
  <2> DEFINE A == {i \in Q : s[i] = x}
             B == {i \in P : t[i] = x}
             g == [i \in A |-> f[i]]
  <2>1. /\ g \in [A -> B] /\ \A i, j \in A : g[i] = g[j] => i = j
        /\ \A k \in B : \E i \in A : g[i] = k
    BY <1>1
  <2>2. IsFiniteSet(A)
    <3>1. IsFiniteSet(PlacesOf(s, x))
      BY BagOfList
    <3> QED
      BY <3>1, FS_Subset DEF PlacesOf
  <2> HIDE DEF A, B, g
  <2>3. g \in Bijection(A, B)
    BY <2>1 DEF Bijection, Injection, Surjection, IsInjective
  <2>4. ExistsBijection(A, B)
    BY <2>3 DEF ExistsBijection
  <2> QED
    BY <2>2, <2>4, FS_Bijection DEF A, B
<1> HIDE DEF a, b
<1>7. ToSet(a) = ToSet(b) /\ \A x : Cardinality(PlacesOf(a, x)) = Cardinality(PlacesOf(b, x))
  <2> HIDE DEF Q
  <2> QED
    BY <1>3, <1>4, <1>5, <1>6
<1>8. DOMAIN ToBag(a) = ToSet(a) /\ DOMAIN ToBag(b) = ToSet(a)
  BY <1>3, <1>4, <1>7, BagOfList
<1>9. \A x \in ToSet(a) : ToBag(a)[x] = ToBag(b)[x]
  BY <1>3, <1>4, <1>7, BagOfList
<1>10. ToBag(a) = [x \in ToSet(a) |-> ToBag(a)[x]] /\ ToBag(b) = [x \in ToSet(a) |-> ToBag(b)[x]]
  BY <1>8 DEF ToBag
<1> QED
  BY <1>9, <1>10 DEF a, b
================================================================================
