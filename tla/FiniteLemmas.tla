---------------------------- MODULE FiniteLemmas ----------------------------
(***************************************************************************)
(* Facts about least elements and about the extremes of finite sets of     *)
(* integers, for any module whose definitions use Min and Max, about the   *)
(* elements of queues and lists, and about functions that are defined      *)
(* recursively along 0 .. n.  The inductions are arguments from a least    *)
(* counterexample: the library's induction schemas take an operator as a   *)
(* parameter, LeastNat does not.                                           *)
(***************************************************************************)
EXTENDS Integers, FiniteSetsExt, FiniteSetTheorems, SequenceTheorems, WellFoundedInduction,
        TLAPS

\* Every non-empty set of naturals has a least element; all later inductions,
\* from the loop of merge_with_last_if_needed to the search for the first
\* changed row, rest on this fact.
LEMMA LeastNat ==
    ASSUME NEW T \in SUBSET Nat, T # {}
    PROVE  \E x \in T : \A y \in T : x <= y
<1> DEFINE R == OpToRel(<, Nat)
<1>1. IsWellFoundedOn(R, Nat)
  BY NatLessThanWellFounded
<1>2. PICK x \in T : \A y \in T : ~(<<y, x>> \in R)
  <2> HIDE DEF R
  <2> QED BY <1>1, WFMin
<1>3. \A y \in T : ~ (y < x)
  BY <1>2 DEF OpToRel
<1>4. \A y \in T : x <= y
  <2> HIDE DEF R
  <2> QED BY <1>3
<1> QED BY <1>4, Zenon

\* Min(T) is the least element of a non-empty set of naturals: what the code
\* means by the first index at which a search stops.
LEMMA MinNat ==
    ASSUME NEW T \in SUBSET Nat, T # {}
    PROVE  Min(T) \in T /\ \A y \in T : Min(T) <= y
<1>1. PICK x \in T : \A y \in T : x <= y
  BY LeastNat
<1> QED BY <1>1 DEF Min

\* A finite, non-empty set of integers has a greatest and a least element.
LEMMA FiniteHasExtremes ==
    ASSUME NEW S \in SUBSET Int, IsFiniteSet(S), S # {}
    PROVE  /\ \E x \in S : \A y \in S : y <= x
           /\ \E x \in S : \A y \in S : x <= y
<1> DEFINE Good(T) == /\ \E x \in T : \A y \in T : y <= x
                      /\ \E x \in T : \A y \in T : x <= y
           Bad == {T \in SUBSET Int : IsFiniteSet(T) /\ T # {} /\ ~Good(T)}
           Sizes == {Cardinality(T) : T \in Bad}
<1>1. ASSUME Bad # {} PROVE FALSE
  <2>1. Sizes \in SUBSET Nat /\ Sizes # {}
    BY <1>1, FS_CardinalityType
  <2>2. PICK c \in Sizes : \A d \in Sizes : c <= d
    <3> HIDE DEF Sizes
    <3> QED BY <2>1, LeastNat
  <2>3. PICK T \in Bad : Cardinality(T) = c
    OBVIOUS
  <2>4. /\ T \in SUBSET Int /\ IsFiniteSet(T) /\ T # {} /\ ~Good(T)
    OBVIOUS
  <2>5. PICK a \in T : TRUE
    BY <2>4
  <2>6. a \in Int
    BY <2>4
  <2> DEFINE U == T \ {a}
  <2>7. /\ U \in SUBSET Int /\ IsFiniteSet(U) /\ Cardinality(U) = c - 1
    BY <2>3, <2>4, <2>5, FS_RemoveElement
  <2>8. CASE U = {}
    <3>1. \A y \in T : y = a BY <2>8
    <3> QED BY <2>4, <2>5, <2>6, <3>1
  <2>9. CASE U # {}
    <3>1. Good(U)
      <4>1. SUFFICES ASSUME ~Good(U) PROVE FALSE OBVIOUS
      <4>2. U \in Bad BY <2>7, <2>9, <4>1
      <4>3. c - 1 \in Sizes BY <2>7, <4>2
      <4>4. c \in Nat BY <2>1
      <4> HIDE DEF Sizes
      <4> QED BY <2>2, <4>3, <4>4
    <3>2. PICK hi \in U : \A y \in U : y <= hi BY <3>1
    <3>3. PICK lo \in U : \A y \in U : lo <= y BY <3>1
    <3>4. \A y \in T : y = a \/ y \in U OBVIOUS
    <3>5. \A y \in T : y \in Int BY <2>4
    <3>6. hi \in T /\ lo \in T OBVIOUS
    <3> HIDE DEF U
    <3>7. \E x \in T : \A y \in T : y <= x
      <4>1. CASE a <= hi BY <2>5, <3>2, <3>4, <3>5, <3>6, <4>1
      <4>2. CASE hi <= a BY <2>5, <3>2, <3>4, <3>5, <3>6, <4>2
      <4> QED BY <2>5, <3>5, <3>6, <4>1, <4>2
    <3>8. \E x \in T : \A y \in T : x <= y
      <4>1. CASE lo <= a BY <2>5, <3>3, <3>4, <3>5, <3>6, <4>1
      <4>2. CASE a <= lo BY <2>5, <3>3, <3>4, <3>5, <3>6, <4>2
      <4> QED BY <2>5, <3>5, <3>6, <4>1, <4>2
    <3> QED BY <2>4, <3>7, <3>8
  <2> QED BY <2>8, <2>9
<1>2. S \notin Bad
  <2> HIDE DEF Bad
  <2> QED BY <1>1
<1> QED BY <1>2

\* Max denotes the greatest element and Min the least one.
LEMMA FiniteMaxMin ==
    ASSUME NEW S \in SUBSET Int, IsFiniteSet(S), S # {}
    PROVE  /\ Max(S) \in S /\ \A x \in S : x <= Max(S)
           /\ Min(S) \in S /\ \A x \in S : Min(S) <= x
<1>1. PICK hi \in S : \A x \in S : hi >= x
  BY FiniteHasExtremes
<1>2. PICK lo \in S : \A x \in S : lo <= x
  BY FiniteHasExtremes
<1>3. Max(S) \in S /\ \A x \in S : Max(S) >= x
  BY <1>1 DEF Max
<1>4. Min(S) \in S /\ \A x \in S : Min(S) <= x
  BY <1>2 DEF Min
<1> QED BY <1>3, <1>4

\* The greater and the smaller of two integers.
LEMMA PairMaxMin ==
    ASSUME NEW x \in Int, NEW y \in Int
    PROVE  /\ Max({x, y}) \in {x, y} /\ x <= Max({x, y}) /\ y <= Max({x, y})
           /\ Min({x, y}) \in {x, y} /\ Min({x, y}) <= x /\ Min({x, y}) <= y
<1>1. \A P : P = {x, y} =>
          /\ Max(P) \in P /\ \A z \in P : z <= Max(P)
          /\ Min(P) \in P /\ \A z \in P : Min(P) <= z
  <2> SUFFICES ASSUME NEW P, P = {x, y}
               PROVE  /\ Max(P) \in P /\ \A z \in P : z <= Max(P)
                      /\ Min(P) \in P /\ \A z \in P : Min(P) <= z
    OBVIOUS
  <2>1. IsFiniteSet({x})
    BY FS_Singleton, Zenon
  <2>2. IsFiniteSet({x} \cup {y})
    BY <2>1, FS_AddElement
  <2>3. P = {x} \cup {y} /\ P \in SUBSET Int /\ P # {}
    OBVIOUS
  <2>4. IsFiniteSet(P)
    BY <2>2, <2>3
  <2> QED
    BY <2>3, <2>4, FiniteMaxMin
<1> QED
  BY <1>1

\* A set is finite when all its elements but one are values of a function on
\* a finite set.
LEMMA CoveredFinite ==
    ASSUME NEW D, IsFiniteSet(D), NEW T, NEW f \in [D -> T], NEW V, NEW a \in V,
           \A x \in V : x = a \/ \E i \in D : x = f[i]
    PROVE  IsFiniteSet(V)
<1> DEFINE W == {f[i] : i \in D}
<1>1. f \in Surjection(D, W)
  BY DEF Surjection
<1>2. IsFiniteSet(W)
  <2> HIDE DEF W
  <2> QED BY <1>1, FS_Surjection
<1>3. IsFiniteSet(W \cup {a})
  <2> HIDE DEF W
  <2> QED BY <1>2, FS_AddElement
<1>4. V \in SUBSET (W \cup {a})
  OBVIOUS
<1> HIDE DEF W
<1> QED BY <1>3, <1>4, FS_Subset

-----------------------------------------------------------------------------
(* Sequences as queues and as lists without repetitions.                     *)

\* What is new can be appended to a sequence without repetitions.
LEMMA AppendNew ==
    ASSUME NEW S, NEW q \in Seq(S), IsInjective(q), NEW s \in S, s \notin Range(q)
    PROVE  /\ Append(q, s) \in Seq(S) /\ IsInjective(Append(q, s))
           /\ Range(Append(q, s)) = Range(q) \cup {s}
<1>1. /\ Append(q, s) \in Seq(S) /\ Len(Append(q, s)) = Len(q) + 1
      /\ \A i \in 1 .. Len(q) : Append(q, s)[i] = q[i]
      /\ Append(q, s)[Len(q) + 1] = s
      /\ Len(q) \in Nat
  BY AppendProperties
<1>2. /\ DOMAIN q = 1 .. Len(q)
      /\ DOMAIN Append(q, s) = 1 .. Len(q) + 1
  BY <1>1
<1>3. \A i \in 1 .. Len(q) : q[i] # s
  BY <1>2 DEF Range
<1>4. \A i \in 1 .. Len(q) + 1 : i \in 1 .. Len(q) \/ i = Len(q) + 1
  BY <1>1
<1>5. IsInjective(Append(q, s))
  BY <1>1, <1>2, <1>3, <1>4 DEF IsInjective
<1>6. Range(Append(q, s)) = Range(q) \cup {s}
  BY <1>1, <1>2, <1>4 DEF Range
<1> QED
  BY <1>1, <1>5, <1>6

\* The head of a sequence and what is behind it.
LEMMA TailRange ==
    ASSUME NEW S, NEW q \in Seq(S), q # <<>>
    PROVE  /\ Tail(q) \in Seq(S) /\ Head(q) \in S
           /\ Range(q) = Range(Tail(q)) \cup {Head(q)}
<1>1. /\ Tail(q) \in Seq(S) /\ Head(q) = q[1] /\ Head(q) \in S
      /\ Len(Tail(q)) = Len(q) - 1 /\ Len(q) \in Nat \ {0}
      /\ \A i \in 1 .. Len(q) - 1 : Tail(q)[i] = q[i + 1]
  BY HeadTailProperties
<1>2. DOMAIN q = 1 .. Len(q) /\ DOMAIN Tail(q) = 1 .. Len(q) - 1
  BY <1>1
<1>3. ASSUME NEW i \in 1 .. Len(q)
      PROVE  q[i] \in Range(Tail(q)) \cup {Head(q)}
  <2>1. CASE i = 1
    BY <1>1, <2>1
  <2>2. CASE i # 1
    <3>1. i - 1 \in 1 .. Len(q) - 1 /\ Tail(q)[i - 1] = q[i]
      BY <1>1, <2>2
    <3> QED
      BY <1>2, <3>1 DEF Range
  <2> QED
    BY <2>1, <2>2
<1>4. ASSUME NEW i \in 1 .. Len(q) - 1
      PROVE  Tail(q)[i] \in Range(q)
  BY <1>1, <1>2 DEF Range
<1>5. Head(q) \in Range(q)
  BY <1>1, <1>2 DEF Range
<1> QED
  BY <1>1, <1>2, <1>3, <1>4, <1>5 DEF Range

\* What leaves a queue without repetitions is not in the rest of it.
LEMMA TailNew ==
    ASSUME NEW S, NEW q \in Seq(S), q # <<>>, IsInjective(q)
    PROVE  IsInjective(Tail(q)) /\ Head(q) \notin Range(Tail(q))
<1>1. /\ Tail(q) \in Seq(S) /\ Head(q) = q[1]
      /\ Len(Tail(q)) = Len(q) - 1 /\ Len(q) \in Nat \ {0}
      /\ \A i \in 1 .. Len(q) - 1 : Tail(q)[i] = q[i + 1]
  BY HeadTailProperties
<1>2. DOMAIN q = 1 .. Len(q) /\ DOMAIN Tail(q) = 1 .. Len(q) - 1
  BY <1>1
<1>3. \A i \in 1 .. Len(q) - 1 : i + 1 \in 1 .. Len(q) /\ i + 1 # 1
  BY <1>1
<1> QED
  BY <1>1, <1>2, <1>3 DEF IsInjective, Range

-----------------------------------------------------------------------------
(* Sets that change by one element.                                        *)

\* Two sets that agree but for one element: the one is finite if the other is,
\* and their sizes are told by where that element is.
LEMMA OneChanges ==
    ASSUME NEW A, IsFiniteSet(A), NEW B, NEW e, \A o : o # e => (o \in B <=> o \in A)
    PROVE  /\ IsFiniteSet(B) /\ Cardinality(A) \in Nat /\ Cardinality(B) \in Nat
           /\ (e \in A <=> e \in B) => B = A /\ Cardinality(B) = Cardinality(A)
           /\ e \notin A /\ e \in B => Cardinality(B) = Cardinality(A) + 1
           /\ e \in A /\ e \notin B => Cardinality(B) = Cardinality(A) - 1
<1>1. Cardinality(A) \in Nat
  BY FS_CardinalityType
<1>2. CASE e \in A <=> e \in B
  <2>1. B = A
    BY <1>2
  <2> QED
    BY <1>1, <1>2, <2>1
<1>3. CASE e \notin A /\ e \in B
  <2>1. B = A \cup {e}
    BY <1>3
  <2> QED
    BY <1>1, <1>3, <2>1, FS_AddElement
<1>4. CASE e \in A /\ e \notin B
  <2>1. B = A \ {e}
    BY <1>4
  <2>2. IsFiniteSet(B) /\ Cardinality(B) = Cardinality(A) - 1
    BY <1>4, <2>1, FS_RemoveElement
  <2> QED
    BY <1>1, <1>4, <2>2, FS_CardinalityType
<1> QED
  BY <1>2, <1>3, <1>4

-----------------------------------------------------------------------------
(* Recursion and induction along 0 .. n.                                   *)

\* Induction up to n: P stands for the numbers that have been reached.
LEMMA Reaches ==
    ASSUME NEW n \in Nat, NEW P, 0 \in P, \A i \in 1 .. n : i - 1 \in P => i \in P
    PROVE  \A i \in 0 .. n : i \in P
<1> DEFINE Bad == {i \in 0 .. n : i \notin P}
<1>1. SUFFICES ASSUME Bad # {} PROVE FALSE
  OBVIOUS
<1>2. PICK i \in Bad : \A j \in Bad : i <= j
  <2>1. Bad \in SUBSET Nat
    OBVIOUS
  <2> HIDE DEF Bad
  <2> QED
    BY <1>1, <2>1, LeastNat
<1>3. i \in 0 .. n /\ i \notin P /\ i # 0
  OBVIOUS
<1>4. i \in 1 .. n /\ i - 1 \in 0 .. n /\ ~ (i <= i - 1)
  BY <1>3
<1>5. i - 1 \notin Bad
  <2> HIDE DEF Bad
  <2> QED
    BY <1>2, <1>4
<1>6. i - 1 \in P
  BY <1>4, <1>5
<1> QED
  BY <1>3, <1>4, <1>6

\* The values of f along 0 .. n begin with a, and h says how each one follows from
\* the one before it.
Iterates(f, n, S, a, h) ==
    /\ f \in [0 .. n -> S] /\ f[0] = a
    /\ \A i \in 1 .. n : f[i] = h[i][f[i - 1]]

\* A function is defined along 0 .. n by its first value and its steps.
LEMMA RecursionExists ==
    ASSUME NEW n \in Nat, NEW S, NEW a \in S, NEW h \in [1 .. n -> [S -> S]]
    PROVE  \E f : Iterates(f, n, S, a, h)
<1> DEFINE Runs(m, f) == Iterates(f, m, S, a, h)
           P == {m \in 0 .. n : \E f : Runs(m, f)}
<1>1. 0 \in P
  <2> DEFINE f == [i \in 0 .. 0 |-> a]
  <2>1. f \in [0 .. 0 -> S] /\ f[0] = a
    OBVIOUS
  <2>2. Runs(0, f)
    <3> HIDE DEF f
    <3> QED
      BY <2>1 DEF Iterates
  <2> HIDE DEF Runs
  <2> QED
    BY <2>2
<1>2. ASSUME NEW m \in 1 .. n, m - 1 \in P
      PROVE  m \in P
  <2>1. PICK g : Runs(m - 1, g)
    <3> HIDE DEF Runs
    <3> QED
      BY <1>2
  <2> DEFINE f == [i \in 0 .. m |-> IF i = m THEN h[m][g[m - 1]] ELSE g[i]]
  <2>2. g[m - 1] \in S /\ h[m] \in [S -> S]
    BY <2>1 DEF Iterates
  <2>3. \A i \in 0 .. m : i # m => g[i] \in S
    BY <2>1 DEF Iterates
  <2>4. f \in [0 .. m -> S]
    BY <2>2, <2>3
  <2>5. f[0] = a /\ \A i \in 0 .. m : i # m => f[i] = g[i]
    BY <2>1 DEF Iterates
  <2>6. f[m] = h[m][g[m - 1]]
    OBVIOUS
  <2> HIDE DEF f
  <2>7. \A i \in 1 .. m : f[i] = h[i][f[i - 1]]
    <3> SUFFICES ASSUME NEW i \in 1 .. m PROVE f[i] = h[i][f[i - 1]]
      OBVIOUS
    <3>1. f[i - 1] = g[i - 1]
      BY <2>5
    <3>2. CASE i = m
      BY <2>6, <3>1, <3>2
    <3>3. CASE i # m
      BY <2>1, <2>5, <3>1, <3>3 DEF Iterates
    <3> QED
      BY <3>2, <3>3
  <2>8. Runs(m, f)
    BY <2>4, <2>5, <2>7 DEF Iterates
  <2> HIDE DEF Runs
  <2> QED
    BY <2>8
<1>3. n \in P
  <2>1. \A i \in 0 .. n : i \in P
    <3> HIDE DEF P
    <3> QED
      BY <1>1, <1>2, Reaches
  <2> QED
    BY <2>1
<1> QED
  BY <1>3

\* What a step takes from one stage to the next is at its stage all the way.
LEMMA StagesExist ==
    ASSUME NEW n \in Nat, NEW S, NEW V \in [0 .. n -> SUBSET S], NEW a \in V[0],
           NEW h \in [1 .. n -> [S -> S]],
           \A i \in 1 .. n : \A x \in V[i - 1] : h[i][x] \in V[i]
    PROVE  \E f : Iterates(f, n, S, a, h) /\ \A i \in 0 .. n : f[i] \in V[i]
<1>1. a \in S
  OBVIOUS
<1>2. PICK f : Iterates(f, n, S, a, h)
  BY <1>1, RecursionExists
<1> DEFINE P == {i \in 0 .. n : f[i] \in V[i]}
<1>3. 0 \in P
  BY <1>2 DEF Iterates
<1>4. \A i \in 1 .. n : i - 1 \in P => i \in P
  BY <1>2 DEF Iterates
<1>5. \A i \in 0 .. n : i \in P
  <2> HIDE DEF P
  <2> QED
    BY <1>3, <1>4, Reaches
<1> QED
  BY <1>2, <1>5

=============================================================================
