--------------------------- MODULE DataflowProofs ---------------------------
(***************************************************************************)
(* What holds along the way of the data.                                   *)
(*                                                                         *)
(* Receiver, for all instruments, timeframes, windows and ticks: a bar is  *)
(* the summary of its ticks, with their volume, and the bars of a          *)
(* timeframe stand for consecutive one-minute bars, none left out.         *)
(*                                                                         *)
(* Decision and Runtime, for all contexts, symbols, counts and capacities: *)
(* when the table opens and closes positions, that a run that ends has     *)
(* delivered what the channels could keep, and that its strategy waits.    *)
(***************************************************************************)
EXTENDS Receiver, Runtime, FiniteLemmas

-----------------------------------------------------------------------------
(* Sums.                                                                   *)

\* f has the sums of the beginnings of s.
Sums(f, s) ==
    /\ f \in [0 .. Len(s) -> Int] /\ f[0] = 0
    /\ \A i \in 1 .. Len(s) : f[i] = f[i - 1] + s[i]

\* The sums of the beginnings are there.
LEMMA SumsExist ==
    ASSUME NEW s \in Seq(Int)
    PROVE  \E f : Sums(f, s)
<1> DEFINE h == [i \in 1 .. Len(s) |-> [x \in Int |-> x + s[i]]]
<1>1. h \in [1 .. Len(s) -> [Int -> Int]]
  OBVIOUS
<1>2. \A i \in 1 .. Len(s), x \in Int : h[i][x] = x + s[i]
  OBVIOUS
<1> HIDE DEF h
<1>3. PICK f : Iterates(f, Len(s), Int, 0, h)
  <2>1. Len(s) \in Nat /\ 0 \in Int
    OBVIOUS
  <2> QED
    BY <1>1, <2>1, RecursionExists, Zenon
<1>4. \A i \in 1 .. Len(s) : f[i - 1] \in Int
  BY <1>3 DEF Iterates
<1>5. Sums(f, s)
  BY <1>2, <1>3, <1>4 DEF Sums, Iterates
<1> QED
  BY <1>5

\* Total(s) is the last of them.
LEMMA TotalIs ==
    ASSUME NEW s \in Seq(Int), NEW f, Sums(f, s)
    PROVE  Total(s) = f[Len(s)] /\ Total(s) \in Int
<1> DEFINE Defines(g) == g = [i \in 0 .. Len(s) |-> IF i = 0 THEN 0 ELSE g[i - 1] + s[i]]
           g == CHOOSE x : Defines(x)
<1>1. Len(s) \in Nat
  OBVIOUS
<1>2. f = [i \in 0 .. Len(s) |-> IF i = 0 THEN 0 ELSE f[i - 1] + s[i]]
  <2>1. f = [i \in 0 .. Len(s) |-> f[i]]
    BY DEF Sums
  <2>2. \A i \in 0 .. Len(s) : f[i] = IF i = 0 THEN 0 ELSE f[i - 1] + s[i]
    BY DEF Sums
  <2> QED
    BY <2>1, <2>2
<1>3. Defines(g)
  <2> HIDE DEF Defines
  <2>1. Defines(f)
    BY <1>2 DEF Defines
  <2> QED
    BY <2>1
<1>4. Total(s) = g[Len(s)]
  BY DEF Total
<1>5. g[0] = 0 /\ \A i \in 1 .. Len(s) : g[i] = g[i - 1] + s[i]
  <2>1. g = [i \in 0 .. Len(s) |-> IF i = 0 THEN 0 ELSE g[i - 1] + s[i]]
    BY <1>3
  <2>2. 0 \in 0 .. Len(s) /\ \A i \in 1 .. Len(s) : i \in 0 .. Len(s) /\ i # 0
    BY <1>1
  <2> HIDE DEF g
  <2> QED
    BY <2>1, <2>2, Zenon
<1> HIDE DEF g
<1>6. \A i \in 0 .. Len(s) : g[i] = f[i]
  <2> DEFINE P == {i \in 0 .. Len(s) : g[i] = f[i]}
  <2>1. 0 \in P
    BY <1>1, <1>5 DEF Sums
  <2>2. \A i \in 1 .. Len(s) : i - 1 \in P => i \in P
    BY <1>5 DEF Sums
  <2>3. \A i \in 0 .. Len(s) : i \in P
    <3> HIDE DEF P
    <3> QED
      BY <1>1, <2>1, <2>2, Reaches
  <2> QED
    BY <2>3
<1>7. f[Len(s)] \in Int
  BY <1>1 DEF Sums
<1> QED
  BY <1>1, <1>4, <1>6, <1>7

LEMMA TotalType ==
    ASSUME NEW s \in Seq(Int)
    PROVE  Total(s) \in Int
BY SumsExist, TotalIs

\* The sum of one number, and of one sequence behind another.
LEMMA TotalOne ==
    ASSUME NEW x \in Int
    PROVE  Total(<<x>>) = x
<1> DEFINE f == [i \in 0 .. 1 |-> IF i = 0 THEN 0 ELSE x]
<1>1. f \in [0 .. 1 -> Int] /\ f[0] = 0 /\ f[1] = x
  OBVIOUS
<1>2. <<x>> \in Seq(Int) /\ Len(<<x>>) = 1 /\ <<x>>[1] = x
  OBVIOUS
<1> HIDE DEF f
<1>3. \A i \in 1 .. 1 : f[i] = f[i - 1] + x
  BY <1>1
<1>4. Sums(f, <<x>>)
  BY <1>1, <1>2, <1>3 DEF Sums
<1> QED
  BY <1>1, <1>2, <1>4, TotalIs

LEMMA TotalConcat ==
    ASSUME NEW s \in Seq(Int), NEW t \in Seq(Int)
    PROVE  Total(s \o t) = Total(s) + Total(t)
<1>1. PICK f : Sums(f, s)
  BY SumsExist
<1>2. PICK g : Sums(g, t)
  BY SumsExist
<1> DEFINE m == Len(s)
           n == Len(t)
           h == [i \in 0 .. m + n |-> IF i <= m THEN f[i] ELSE f[m] + g[i - m]]
<1>3. m \in Nat /\ n \in Nat
  OBVIOUS
<1>4. /\ s \o t \in Seq(Int) /\ Len(s \o t) = m + n
      /\ \A i \in 1 .. m : (s \o t)[i] = s[i]
      /\ \A i \in m + 1 .. m + n : (s \o t)[i] = t[i - m]
  BY ConcatProperties
<1>5. /\ f \in [0 .. m -> Int] /\ f[0] = 0 /\ \A i \in 1 .. m : f[i] = f[i - 1] + s[i]
      /\ g \in [0 .. n -> Int] /\ g[0] = 0 /\ \A i \in 1 .. n : g[i] = g[i - 1] + t[i]
  BY <1>1, <1>2 DEF Sums
<1> \A i \in 0 .. m : f[i] \in Int
  BY <1>5
<1> f[m] \in Int
  BY <1>3
<1> \A i \in 0 .. n : g[i] \in Int
  BY <1>5
<1> \A i \in 1 .. n : t[i] \in Int
  OBVIOUS
<1>6. h \in [0 .. m + n -> Int]
  <2>1. \A i \in 0 .. m + n : i <= m => f[i] \in Int
    BY <1>3, <1>5
  <2>2. \A i \in 0 .. m + n : ~ (i <= m) => f[m] + g[i - m] \in Int
    <3> SUFFICES ASSUME NEW i \in 0 .. m + n, ~ (i <= m) PROVE f[m] + g[i - m] \in Int
      OBVIOUS
    <3>1. i - m \in 0 .. n
      BY <1>3
    <3>2. g[i - m] \in Int
      BY <3>1
    <3> QED
      BY <3>2
  <2> QED
    BY <2>1, <2>2
<1>7. \A i \in 0 .. m : h[i] = f[i]
  BY <1>3
<1>8. \A i \in m .. m + n : h[i] = f[m] + g[i - m]
  <2> SUFFICES ASSUME NEW i \in m .. m + n PROVE h[i] = f[m] + g[i - m]
    OBVIOUS
  <2>1. CASE i = m
    <3>1. f[m] \in Int /\ i - m = 0
      BY <1>3, <1>5, <2>1
    <3> HIDE DEF h
    <3> QED
      BY <1>3, <1>5, <1>7, <2>1, <3>1
  <2>2. CASE i # m
    BY <1>3, <2>2
  <2> QED
    BY <2>1, <2>2
<1> HIDE DEF h
<1>9. \A i \in 1 .. m + n : h[i] = h[i - 1] + (s \o t)[i]
  <2> SUFFICES ASSUME NEW i \in 1 .. m + n PROVE h[i] = h[i - 1] + (s \o t)[i]
    OBVIOUS
  <2>1. CASE i <= m
    <3>1. i \in 1 .. m /\ i \in 0 .. m /\ i - 1 \in 0 .. m
      BY <1>3, <2>1
    <3> QED
      BY <1>4, <1>5, <1>7, <3>1
  <2>2. CASE ~ (i <= m)
    <3>1. /\ i \in m + 1 .. m + n /\ i \in m .. m + n /\ i - 1 \in m .. m + n
          /\ i - m \in 1 .. n /\ (i - 1) - m = (i - m) - 1 /\ (i - m) - 1 \in 0 .. n
      BY <1>3, <2>2
    <3>2. h[i] = f[m] + g[i - m] /\ h[i - 1] = f[m] + g[(i - m) - 1]
      BY <1>8, <3>1
    <3>3. g[i - m] = g[(i - m) - 1] + t[i - m] /\ (s \o t)[i] = t[i - m]
      BY <1>4, <1>5, <3>1
    <3>4. f[m] \in Int /\ g[(i - m) - 1] \in Int /\ t[i - m] \in Int
      BY <3>1
    <3> QED
      BY <3>2, <3>3, <3>4
  <2> QED
    BY <2>1, <2>2
<1>10. Sums(h, s \o t)
  <2>1. h[0] = 0
    BY <1>3, <1>5, <1>7
  <2> QED
    BY <1>4, <1>6, <1>9, <2>1 DEF Sums
<1>11. /\ Total(s \o t) = h[m + n]
       /\ Total(s) = f[m] /\ Total(t) = g[n]
  <2>1. Total(s \o t) = h[Len(s \o t)]
    BY <1>4, <1>10, TotalIs
  <2>2. Total(s) = f[m] /\ Total(t) = g[n]
    BY <1>1, <1>2, TotalIs
  <2> QED
    BY <1>4, <2>1, <2>2
<1>12. m + n \in m .. m + n /\ (m + n) - m = n
  BY <1>3
<1> QED
  BY <1>8, <1>11, <1>12

\* Sums compare as their terms do.
LEMMA TotalCompares ==
    ASSUME NEW s \in Seq(Int), NEW t \in Seq(Int), NEW u \in Seq(Int),
           Len(t) = Len(s), Len(u) = Len(s),
           \A i \in 1 .. Len(s) : s[i] <= t[i] + u[i]
    PROVE  /\ Total(s) <= Total(t) + Total(u)
           /\ (\A i \in 1 .. Len(s) : s[i] = t[i] + u[i]) => Total(s) = Total(t) + Total(u)
<1>1. PICK f, g, h : Sums(f, s) /\ Sums(g, t) /\ Sums(h, u)
  BY SumsExist
<1> DEFINE n == Len(s)
           P == {i \in 0 .. n : f[i] <= g[i] + h[i]}
           Q == {i \in 0 .. n : f[i] = g[i] + h[i]}
<1>2. /\ n \in Nat
      /\ f \in [0 .. n -> Int] /\ f[0] = 0 /\ \A i \in 1 .. n : f[i] = f[i - 1] + s[i]
      /\ g \in [0 .. n -> Int] /\ g[0] = 0 /\ \A i \in 1 .. n : g[i] = g[i - 1] + t[i]
      /\ h \in [0 .. n -> Int] /\ h[0] = 0 /\ \A i \in 1 .. n : h[i] = h[i - 1] + u[i]
  BY <1>1 DEF Sums
<1>3. Total(s) = f[n] /\ Total(t) = g[n] /\ Total(u) = h[n]
  BY <1>1, TotalIs
<1>4. \A i \in 1 .. n : s[i] \in Int /\ t[i] \in Int /\ u[i] \in Int /\ s[i] <= t[i] + u[i]
  OBVIOUS
<1> HIDE DEF n
<1>5. \A i \in 1 .. n : f[i - 1] \in Int /\ g[i - 1] \in Int /\ h[i - 1] \in Int
  BY <1>2
<1>6. 0 \in P /\ 0 \in Q
  BY <1>2
<1>7. \A i \in 1 .. n : /\ f[i - 1] \in Int /\ g[i - 1] \in Int /\ h[i - 1] \in Int
                        /\ s[i] \in Int /\ t[i] \in Int /\ u[i] \in Int
                        /\ f[i] = f[i - 1] + s[i] /\ g[i] = g[i - 1] + t[i]
                        /\ h[i] = h[i - 1] + u[i] /\ i \in 0 .. n
  BY <1>2, <1>4, <1>5
<1>12. \A a, b, c, x, y, z \in Int :
           a <= b + c /\ x <= y + z => a + x <= (b + y) + (c + z)
  OBVIOUS
<1>8. ASSUME NEW i \in 1 .. n, i - 1 \in P
      PROVE  i \in P
  <2>1. f[i - 1] <= g[i - 1] + h[i - 1] /\ s[i] <= t[i] + u[i]
    BY <1>4, <1>8
  <2>2. f[i - 1] + s[i] <= (g[i - 1] + t[i]) + (h[i - 1] + u[i])
    BY <1>7, <1>12, <2>1, Zenon
  <2> QED
    BY <1>7, <2>2
<1>11. ASSUME \A i \in 1 .. n : s[i] = t[i] + u[i], NEW i \in 1 .. n, i - 1 \in Q
      PROVE  i \in Q
  <2>1. f[i - 1] = g[i - 1] + h[i - 1] /\ s[i] = t[i] + u[i]
    BY <1>11
  <2>2. (g[i - 1] + h[i - 1]) + (t[i] + u[i]) = (g[i - 1] + t[i]) + (h[i - 1] + u[i])
    <3>1. g[i - 1] \in Int /\ h[i - 1] \in Int /\ t[i] \in Int /\ u[i] \in Int
      BY <1>7
    <3> QED
      BY <3>1, SMTT(30)
  <2>3. f[i - 1] + s[i] = (g[i - 1] + t[i]) + (h[i - 1] + u[i])
    BY <2>1, <2>2, Zenon
  <2> QED
    BY <1>7, <2>3
<1>9. f[n] <= g[n] + h[n]
  <2>1. \A i \in 0 .. n : i \in P
    <3> HIDE DEF P
    <3> QED
      BY <1>2, <1>6, <1>8, Reaches
  <2> QED
    BY <1>2, <2>1
<1>10. ASSUME \A i \in 1 .. n : s[i] = t[i] + u[i]
       PROVE  f[n] = g[n] + h[n]
  <2>1. \A i \in 0 .. n : i \in Q
    <3>1. \A i \in 1 .. n : i - 1 \in Q => i \in Q
      BY <1>10, <1>11
    <3> HIDE DEF Q
    <3> QED
      BY <1>2, <1>6, <3>1, Reaches
  <2> QED
    BY <1>2, <2>1
<1> QED
  BY <1>3, <1>9, <1>10 DEF n

-----------------------------------------------------------------------------
(* Sequences of sequences, flattened.                                      *)

\* f has the concatenations of the beginnings of q.
Joins(f, q, T) ==
    /\ f \in [0 .. Len(q) -> Seq(T)] /\ f[0] = <<>>
    /\ \A i \in 1 .. Len(q) : f[i] = f[i - 1] \o q[i]

\* FlattenSeq(q) is the last of them.
LEMMA FlattenIs ==
    ASSUME NEW T, NEW q \in Seq(Seq(T)), q # <<>>
    PROVE  \E f : Joins(f, q, T) /\ FlattenSeq(q) = f[Len(q)]
<1> DEFINE n == Len(q)
           Defines(g) == g = [i \in 1 .. n |-> IF i = 1 THEN q[i] ELSE g[i - 1] \o q[i]]
           g == CHOOSE x : Defines(x)
           h == [i \in 1 .. n |-> [x \in Seq(T) |-> x \o q[i]]]
           N == Seq(T)
           none == <<>>
<1>1. n \in Nat \ {0} /\ none \in N
  OBVIOUS
<1>2. \A i \in 1 .. n : q[i] \in Seq(T) /\ <<>> \o q[i] = q[i]
  OBVIOUS
<1>3. h \in [1 .. n -> [N -> N]]
  BY <1>2
<1>4. \A i \in 1 .. n, x \in Seq(T) : h[i][x] = x \o q[i]
  OBVIOUS
<1>5. PICK f : Iterates(f, n, N, none, h)
  <2> HIDE DEF n, N, none, h
  <2>1. n \in Nat
    BY <1>1
  <2> QED
    BY <1>1, <1>3, <2>1, RecursionExists, Zenon
<1>6. f \in [0 .. n -> Seq(T)] /\ f[0] = <<>> /\ \A i \in 1 .. n : f[i] = h[i][f[i - 1]]
  BY <1>5 DEF Iterates
<1>7. \A i \in 1 .. n : f[i - 1] \in Seq(T)
  <2> HIDE DEF n, h
  <2>1. \A i \in 1 .. n : i - 1 \in 0 .. n
    BY <1>1
  <2> QED
    BY <1>6, <2>1
<1>8. \A i \in 1 .. n : f[i] = f[i - 1] \o q[i]
  <2> HIDE DEF h
  <2> QED
    BY <1>4, <1>6, <1>7
<1>9. Joins(f, q, T)
  BY <1>6, <1>8 DEF Joins
<1>f. 1 \in 1 .. n /\ f[1] = q[1]
  <2>1. 1 \in 1 .. n /\ 1 - 1 = 0
    BY <1>1
  <2> HIDE DEF n
  <2>2. f[1] = <<>> \o q[1]
    BY <1>6, <1>8, <2>1, ZenonT(30)
  <2> QED
    BY <1>2, <2>1, <2>2
<1> HIDE DEF h
<1>10. Defines(g)
  <2>1. \A i \in 1 .. n : i # 1 => i - 1 \in 1 .. n
    OBVIOUS
  <2>2. \A i \in 1 .. n : f[i] = IF i = 1 THEN q[i] ELSE f[i - 1] \o q[i]
    BY <1>8, <1>f
  <2> DEFINE e == [i \in 1 .. n |-> f[i]]
  <2>3. \A i \in 1 .. n : e[i] = f[i] /\ (i # 1 => e[i - 1] = f[i - 1])
    BY <2>1
  <2>4. e = [i \in 1 .. n |-> IF i = 1 THEN q[i] ELSE e[i - 1] \o q[i]]
    <3>1. \A i \in 1 .. n : f[i] = IF i = 1 THEN q[i] ELSE e[i - 1] \o q[i]
      BY <2>2, <2>3
    <3> QED
      BY <3>1
  <2>5. Defines(e)
    BY <2>4
  <2> HIDE DEF Defines
  <2> QED
    BY <2>5
<1>11. FlattenSeq(q) = g[n]
  BY <1>1 DEF FlattenSeq
<1>12. /\ 1 \in 1 .. n => g[1] = q[1]
       /\ \A i \in 1 .. n : i # 1 => g[i] = g[i - 1] \o q[i]
  <2>1. g = [i \in 1 .. n |-> IF i = 1 THEN q[i] ELSE g[i - 1] \o q[i]]
    BY <1>10
  <2> HIDE DEF g, n
  <2> QED
    BY <2>1, Zenon
<1> HIDE DEF g
<1>13. \A i \in 0 .. n : i = 0 \/ g[i] = f[i]
  <2> DEFINE P == {i \in 0 .. n : i = 0 \/ g[i] = f[i]}
  <2>1. 0 \in P
    BY <1>1
  <2>2. ASSUME NEW i \in 1 .. n, i - 1 \in P PROVE i \in P
    <3>1. CASE i = 1
      <4>1. g[1] = f[1] /\ 1 \in 0 .. n
        BY <1>12, <1>f
      <4> QED
        BY <3>1, <4>1
    <3>2. CASE i # 1
      <4>1. g[i - 1] = f[i - 1] /\ i \in 0 .. n
        BY <2>2, <3>2
      <4>2. g[i] = g[i - 1] \o q[i] /\ f[i] = f[i - 1] \o q[i]
        BY <1>8, <1>12, <3>2
      <4> QED
        BY <4>1, <4>2
    <3> QED
      BY <3>1, <3>2
  <2>3. \A i \in 0 .. n : i \in P
    <3> HIDE DEF P
    <3>1. n \in Nat
      OBVIOUS
    <3> QED
      BY <2>1, <2>2, <3>1, Reaches
  <2> QED
    BY <2>3
<1>14. g[n] = f[n]
  BY <1>1, <1>13
<1> QED
  BY <1>9, <1>11, <1>14

LEMMA RangeType ==
    ASSUME NEW T, NEW s \in Seq(T)
    PROVE  Range(s) \in SUBSET T
<1>1. DOMAIN s = 1 .. Len(s) /\ \A i \in 1 .. Len(s) : s[i] \in T
  OBVIOUS
<1> QED
  BY <1>1 DEF Range

\* Where one sequence stands behind another.
LEMMA ConcatEnds ==
    ASSUME NEW T, NEW s \in Seq(T), NEW t \in Seq(T), s # <<>>, t # <<>>
    PROVE  /\ s \o t \in Seq(T) /\ s \o t # <<>> /\ (s \o t)[1] = s[1]
           /\ (s \o t)[Len(s \o t)] = t[Len(t)]
           /\ Range(s \o t) = Range(s) \cup Range(t)
<1>1. Len(s) \in Nat \ {0} /\ Len(t) \in Nat \ {0}
  OBVIOUS
<1>2. /\ s \o t \in Seq(T) /\ Len(s \o t) = Len(s) + Len(t)
      /\ \A i \in 1 .. Len(s) + Len(t) :
             (s \o t)[i] = IF i <= Len(s) THEN s[i] ELSE t[i - Len(s)]
  BY ConcatProperties
<1>3. /\ 1 \in 1 .. Len(s) + Len(t) /\ 1 <= Len(s)
      /\ Len(s) + Len(t) \in 1 .. Len(s) + Len(t) /\ ~ (Len(s) + Len(t) <= Len(s))
      /\ (Len(s) + Len(t)) - Len(s) = Len(t)
  BY <1>1
<1>4. s \o t # <<>>
  BY <1>1, <1>2
<1> QED
  BY <1>2, <1>3, <1>4, RangeConcatenation

\* What FlattenSeq begins with, ends with and contains.
LEMMA Flattened ==
    ASSUME NEW T, NEW q \in Seq(Seq(T)), q # <<>>, \A j \in 1 .. Len(q) : q[j] # <<>>
    PROVE  /\ FlattenSeq(q) \in Seq(T) /\ FlattenSeq(q) # <<>>
           /\ FlattenSeq(q)[1] = q[1][1]
           /\ FlattenSeq(q)[Len(FlattenSeq(q))] = q[Len(q)][Len(q[Len(q)])]
           /\ \A x : x \in Range(FlattenSeq(q)) <=> \E j \in 1 .. Len(q) : x \in Range(q[j])
<1>1. PICK f : Joins(f, q, T) /\ FlattenSeq(q) = f[Len(q)]
  BY FlattenIs
<1> DEFINE n == Len(q)
           Good(i) == /\ f[i] # <<>> /\ f[i][1] = q[1][1]
                      /\ f[i][Len(f[i])] = q[i][Len(q[i])]
                      /\ \A x : x \in Range(f[i]) <=> \E j \in 1 .. i : x \in Range(q[j])
           P == {i \in 0 .. n : i = 0 \/ Good(i)}
<1>2. n \in Nat \ {0} /\ n # 0
  OBVIOUS
<1>3. \A i \in 1 .. n : q[i] \in Seq(T) /\ q[i] # <<>>
  OBVIOUS
<1> HIDE DEF n
<1>4. /\ \A i \in 0 .. n : f[i] \in Seq(T)
      /\ f[0] = <<>> /\ \A i \in 1 .. n : f[i] = f[i - 1] \o q[i]
  BY <1>1 DEF Joins, n
<1>5. ASSUME NEW i \in 1 .. n, i - 1 \in P
      PROVE  i \in P
  <2>1. CASE i = 1
    <3>1. i - 1 = 0 /\ i \in 0 .. n
      BY <2>1
    <3>2. f[i] = q[i]
      <4>1. f[i] = <<>> \o q[i]
        BY <1>4, <3>1
      <4> QED
        BY <1>3, <4>1
    <3>3. \A j \in 1 .. i : j = i
      BY <2>1
    <3>4. Good(i)
      BY <1>3, <2>1, <3>2, <3>3
    <3> HIDE DEF Good
    <3> QED
      BY <3>1, <3>4
  <2>2. CASE i # 1
    <3>1. i - 1 # 0 /\ i \in 0 .. n /\ i - 1 \in 0 .. n
      BY <1>2, <2>2
    <3>2. Good(i - 1)
      <4> HIDE DEF Good
      <4> QED
        BY <1>5, <3>1
    <3>3. f[i] = f[i - 1] \o q[i]
      BY <1>4
    <3>4. /\ f[i] # <<>> /\ f[i][1] = f[i - 1][1] /\ f[i][Len(f[i])] = q[i][Len(q[i])]
          /\ Range(f[i]) = Range(f[i - 1]) \cup Range(q[i])
      <4>1. f[i - 1] \in Seq(T) /\ f[i - 1] # <<>> /\ q[i] \in Seq(T) /\ q[i] # <<>>
        BY <1>3, <1>4, <3>1, <3>2
      <4> DEFINE a == f[i - 1]
                 b == q[i]
      <4> HIDE DEF a, b
      <4>2. a \in Seq(T) /\ a # <<>> /\ b \in Seq(T) /\ b # <<>>
        BY <4>1 DEF a, b
      <4>3. /\ a \o b # <<>> /\ (a \o b)[1] = a[1] /\ (a \o b)[Len(a \o b)] = b[Len(b)]
            /\ Range(a \o b) = Range(a) \cup Range(b)
        BY <4>2, ConcatEnds
      <4> QED
        BY <3>3, <4>3 DEF a, b
    <3>5. ASSUME NEW x
          PROVE  x \in Range(f[i]) <=> \E j \in 1 .. i : x \in Range(q[j])
      <4>1. \A j \in 1 .. i : j \in 1 .. i - 1 \/ j = i
        OBVIOUS
      <4>2. i \in 1 .. i /\ \A j \in 1 .. i - 1 : j \in 1 .. i
        OBVIOUS
      <4>3. x \in Range(f[i - 1]) <=> \E j \in 1 .. i - 1 : x \in Range(q[j])
        BY <3>2
      <4> QED
        BY <3>4, <4>1, <4>2, <4>3
    <3>6. Good(i)
      BY <3>2, <3>4, <3>5
    <3> HIDE DEF Good
    <3> QED
      BY <3>1, <3>6
  <2> QED
    BY <2>1, <2>2
<1>6. Good(n)
  <2>1. 0 \in P
    BY <1>2
  <2>2. \A i \in 0 .. n : i \in P
    <3> HIDE DEF P
    <3> QED
      BY <1>2, <1>5, <2>1, Reaches
  <2> HIDE DEF Good
  <2> QED
    BY <1>2, <2>2
<1>7. FlattenSeq(q) = f[n] /\ f[n] \in Seq(T)
  BY <1>1, <1>2, <1>4 DEF n
<1> QED
  BY <1>6, <1>7 DEF n

\* What g gives for the elements of s.
Mapped(g, s) == [b \in DOMAIN s |-> g[s[b]]]

IsMapped(m, g, s) ==
    /\ m \in Seq(Int) /\ Len(m) = Len(s)
    /\ \A i \in 1 .. Len(s) : m[i] = g[s[i]]

LEMMA MappedType ==
    ASSUME NEW T, NEW g \in [T -> Int], NEW s \in Seq(T)
    PROVE  IsMapped(Mapped(g, s), g, s)
<1>1. DOMAIN s = 1 .. Len(s) /\ Len(s) \in Nat /\ \A b \in 1 .. Len(s) : g[s[b]] \in Int
  OBVIOUS
<1> QED
  BY <1>1 DEF Mapped, IsMapped

LEMMA MappedConcat ==
    ASSUME NEW T, NEW g \in [T -> Int], NEW s \in Seq(T), NEW t \in Seq(T)
    PROVE  Mapped(g, s \o t) = Mapped(g, s) \o Mapped(g, t)
<1>1. /\ s \o t \in Seq(T) /\ Len(s \o t) = Len(s) + Len(t)
      /\ \A i \in 1 .. Len(s) + Len(t) :
             (s \o t)[i] = IF i <= Len(s) THEN s[i] ELSE t[i - Len(s)]
  BY ConcatProperties
<1> DEFINE a == Mapped(g, s)
           b == Mapped(g, t)
           c == Mapped(g, s \o t)
<1>2. IsMapped(a, g, s) /\ IsMapped(b, g, t) /\ IsMapped(c, g, s \o t)
  BY <1>1, MappedType, Zenon
<1> HIDE DEF a, b, c
<1>6. a \in Seq(Int) /\ Len(a) = Len(s) /\ \A i \in 1 .. Len(s) : a[i] = g[s[i]]
  BY <1>2 DEF IsMapped
<1>7. b \in Seq(Int) /\ Len(b) = Len(t) /\ \A i \in 1 .. Len(t) : b[i] = g[t[i]]
  BY <1>2 DEF IsMapped
<1>8. /\ c \in Seq(Int) /\ Len(c) = Len(s) + Len(t)
      /\ \A i \in 1 .. Len(s) + Len(t) : c[i] = g[(s \o t)[i]]
  BY <1>1, <1>2 DEF IsMapped
<1>3. /\ a \o b \in Seq(Int) /\ Len(a \o b) = Len(s) + Len(t)
      /\ \A i \in 1 .. Len(s) + Len(t) :
             (a \o b)[i] = IF i <= Len(s) THEN a[i] ELSE b[i - Len(s)]
  <2>1. /\ a \o b \in Seq(Int) /\ Len(a \o b) = Len(a) + Len(b)
        /\ \A i \in 1 .. Len(a) + Len(b) :
               (a \o b)[i] = IF i <= Len(a) THEN a[i] ELSE b[i - Len(a)]
    BY <1>6, <1>7, ConcatProperties, ZenonT(30)
  <2> QED
    BY <1>6, <1>7, <2>1, Zenon
<1>4. ASSUME NEW i \in 1 .. Len(s) + Len(t)
      PROVE  c[i] = (a \o b)[i]
  <2>1. CASE i <= Len(s)
    <3>1. i \in 1 .. Len(s)
      BY <2>1
    <3>2. (s \o t)[i] = s[i] /\ (a \o b)[i] = a[i]
      BY <1>1, <1>3, <2>1
    <3> QED
      BY <1>6, <1>8, <3>1, <3>2
  <2>2. CASE ~ (i <= Len(s))
    <3>1. i - Len(s) \in 1 .. Len(t)
      BY <2>2
    <3>2. (s \o t)[i] = t[i - Len(s)] /\ (a \o b)[i] = b[i - Len(s)]
      BY <1>1, <1>3, <2>2
    <3> QED
      BY <1>7, <1>8, <3>1, <3>2
  <2> QED
    BY <2>1, <2>2
<1>5. c = a \o b
  BY <1>3, <1>4, <1>8, SeqEqual
<1> QED
  BY <1>5 DEF a, b, c

\* The sum over all elements is the sum of the sums over the parts.
LEMMA FlattenTotal ==
    ASSUME NEW T, NEW q \in Seq(Seq(T)), q # <<>>, NEW g \in [T -> Int],
           NEW v \in Seq(Int), Len(v) = Len(q),
           \A j \in 1 .. Len(q) : v[j] = Total(Mapped(g, q[j]))
    PROVE  Total(v) = Total(Mapped(g, FlattenSeq(q)))
<1>1. PICK f : Joins(f, q, T) /\ FlattenSeq(q) = f[Len(q)]
  BY FlattenIs
<1>2. PICK h : Sums(h, v)
  BY SumsExist
<1> DEFINE n == Len(q)
           P == {i \in 0 .. n : h[i] = Total(Mapped(g, f[i]))}
<1>3. n \in Nat /\ \A i \in 1 .. n : q[i] \in Seq(T) /\ v[i] = Total(Mapped(g, q[i]))
  OBVIOUS
<1>4. Total(v) = h[n] /\ FlattenSeq(q) = f[n]
  BY <1>1, <1>2, TotalIs
<1> HIDE DEF n
<1>5. /\ \A i \in 0 .. n : f[i] \in Seq(T)
      /\ f[0] = <<>> /\ \A i \in 1 .. n : f[i] = f[i - 1] \o q[i]
  BY <1>1 DEF Joins, n
<1>6. h[0] = 0 /\ \A i \in 1 .. n : h[i] = h[i - 1] + v[i]
  BY <1>2 DEF Sums, n
<1>7. 0 \in P
  <2>1. Mapped(g, <<>>) = <<>>
    BY DEF Mapped
  <2>2. Total(<<>>) = 0
    <3>1. PICK k : Sums(k, <<>>)
      BY SumsExist, EmptySeq
    <3>2. Total(<<>>) = k[Len(<<>>)]
      BY <3>1, TotalIs, EmptySeq
    <3> QED
      BY <3>1, <3>2 DEF Sums
  <2> QED
    BY <1>3, <1>5, <1>6, <2>1, <2>2
<1>8. ASSUME NEW i \in 1 .. n, i - 1 \in P
      PROVE  i \in P
  <2>1. f[i - 1] \in Seq(T) /\ q[i] \in Seq(T) /\ i \in 0 .. n
    BY <1>3, <1>5
  <2>2. Mapped(g, f[i]) = Mapped(g, f[i - 1]) \o Mapped(g, q[i])
    <3> DEFINE a == f[i - 1]
               b == q[i]
    <3> HIDE DEF a, b
    <3>1. a \in Seq(T) /\ b \in Seq(T)
      BY <2>1 DEF a, b
    <3>2. Mapped(g, a \o b) = Mapped(g, a) \o Mapped(g, b)
      BY <3>1, MappedConcat, ZenonT(30)
    <3> QED
      BY <1>5, <3>2 DEF a, b
  <2>3. Mapped(g, f[i - 1]) \in Seq(Int) /\ Mapped(g, q[i]) \in Seq(Int)
    BY <2>1, MappedType DEF IsMapped
  <2>4. Total(Mapped(g, f[i])) = Total(Mapped(g, f[i - 1])) + Total(Mapped(g, q[i]))
    BY <2>2, <2>3, TotalConcat
  <2>5. h[i - 1] = Total(Mapped(g, f[i - 1]))
    BY <1>8
  <2> QED
    BY <1>3, <1>6, <2>1, <2>4, <2>5
<1>9. n \in P
  <2>1. \A i \in 0 .. n : i \in P
    <3> HIDE DEF P
    <3> QED
      BY <1>3, <1>7, <1>8, Reaches
  <2> QED
    BY <1>3, <2>1
<1> QED
  BY <1>4, <1>9

-----------------------------------------------------------------------------
(* The ticks.                                                              *)

TickRow == [by : Instruments, minute : Int, price : Prices, volume : Nat,
            traded : Nat, fresh : BOOLEAN, late : BOOLEAN]

\* The latest tick of instrument k before the n-th, late or not; 0 for none.
LatestTick(k, n) == Max({0} \cup {m \in 1 .. n - 1 : ticks[m].by = k})

\* The volume that the n-th tick added to its bar.
Counted(n) ==
    LET p == LatestTick(ticks[n].by, n)
    IN  IF p # 0 /\ ticks[n].volume >= ticks[p].volume
        THEN ticks[n].volume - ticks[p].volume ELSE 0

\* What VolumeAccounted says of a bar holds of each tick.
TickAccounted(n) ==
    /\ Recounted(n) \in Nat
    /\ Counted(n) <= ticks[n].traded + Recounted(n)
    /\ ~ticks[n].fresh => /\ Counted(n) = ticks[n].traded + Recounted(n)
                          /\ LatestTick(ticks[n].by, n) # 0
                          /\ LatestOnTime(ticks[n].by, n) # 0

\* The next tick.
Coming == Len(ticks) + 1

\* m is a tick of the session that instrument k is in.
InSession(k, m) ==
    /\ m \in OnTime /\ ticks[m].by = k
    /\ \A l \in OnTime : l > m /\ ticks[l].by = k => ~ticks[l].fresh

\* The volume of instrument k's session is that of its latest tick on time, and
\* the aggregator has the volume of the latest tick, which is no larger.
VolumeKept(k) ==
    LET newest == LatestTick(k, Coming)
        top    == LatestOnTime(k, Coming)
    IN  /\ newest = 0 => lastVolume[k] = Unknown
        /\ newest # 0 => /\ lastVolume[k] = ticks[newest].volume
                         /\ top # 0 /\ ticks[newest].volume <= ticks[top].volume
        /\ \A m \in 1 .. Len(ticks) :
               InSession(k, m) => ticks[m].volume <= ticks[top].volume

TicksInv ==
    /\ \A n \in DOMAIN ticks : TickAccounted(n)
    /\ \A k \in Instruments : VolumeKept(k)

LEMMA MaxUpTo ==
    ASSUME NEW n \in Nat, NEW S \in SUBSET (0 .. n), 0 \in S
    PROVE  Max(S) \in S /\ \A x \in S : x <= Max(S)
<1>1. IsFiniteSet(0 .. n)
  BY FS_Interval
<1>2. IsFiniteSet(S)
  BY <1>1, FS_Subset
<1>3. S \in SUBSET Int /\ S # {}
  OBVIOUS
<1> QED
  BY <1>2, <1>3, FiniteMaxMin

\* l is the greatest number in 1 .. n - 1 that is in Q, or 0.
IsLatest(l, n, Q) ==
    /\ l \in 0 .. n - 1
    /\ l # 0 => l \in Q
    /\ \A m \in 1 .. n - 1 : m \in Q => m <= l

LEMMA LatestFound ==
    ASSUME NEW n \in Nat \ {0}, NEW Q, NEW S, S = {0} \cup {m \in 1 .. n - 1 : m \in Q}
    PROVE  IsLatest(Max(S), n, Q)
<1>1. n - 1 \in Nat /\ S \in SUBSET (0 .. n - 1) /\ 0 \in S
  OBVIOUS
<1>2. Max(S) \in S /\ \A x \in S : x <= Max(S)
  <2> DEFINE k == n - 1
  <2>1. k \in Nat /\ S \in SUBSET (0 .. k)
    BY <1>1
  <2> HIDE DEF k
  <2> QED
    BY <1>1, <2>1, MaxUpTo
<1> QED
  BY <1>1, <1>2 DEF IsLatest

LEMMA LatestUnique ==
    ASSUME NEW n \in Nat \ {0}, NEW Q, NEW l, IsLatest(l, n, Q), NEW k, IsLatest(k, n, Q)
    PROVE  l = k
<1>1. l \in Int /\ k \in Int /\ (l = 0 \/ l <= k) /\ (k = 0 \/ k <= l) /\ 0 <= l /\ 0 <= k
  <2>1. l \in 0 .. n - 1 /\ k \in 0 .. n - 1
    BY DEF IsLatest
  <2>2. l # 0 => l <= k
    BY <2>1 DEF IsLatest
  <2>3. k # 0 => k <= l
    BY <2>1 DEF IsLatest
  <2> QED
    BY <2>1, <2>2, <2>3
<1> QED
  BY <1>1

TicksOf(k) == {m \in 1 .. Len(ticks) : ticks[m].by = k}
OnTimeOf(k) == {m \in OnTime : ticks[m].by = k}

LEMMA LatestTicks ==
    ASSUME ticks \in Seq(TickRow), NEW k, NEW n \in 1 .. Coming
    PROVE  /\ IsLatest(LatestTick(k, n), n, TicksOf(k))
           /\ IsLatest(LatestOnTime(k, n), n, OnTimeOf(k))
<1>1. Len(ticks) \in Nat /\ DOMAIN ticks = 1 .. Len(ticks) /\ n \in Nat \ {0}
  BY DEF Coming
<1>2. \A m \in 1 .. n - 1 : m \in 1 .. Len(ticks)
  BY <1>1 DEF Coming
<1>3. {0} \cup {m \in 1 .. n - 1 : ticks[m].by = k} = {0} \cup {m \in 1 .. n - 1 : m \in TicksOf(k)}
  BY <1>2 DEF TicksOf
<1>4. {0} \cup {m \in OnTime : m < n /\ ticks[m].by = k}
          = {0} \cup {m \in 1 .. n - 1 : m \in OnTimeOf(k)}
  BY <1>1, <1>2 DEF OnTimeOf, OnTime
<1>5. IsLatest(LatestTick(k, n), n, TicksOf(k))
  BY <1>1, <1>3, LatestFound DEF LatestTick
<1>6. IsLatest(LatestOnTime(k, n), n, OnTimeOf(k))
  BY <1>1, <1>4, LatestFound DEF LatestOnTime
<1> QED
  BY <1>5, <1>6

\* A new tick leaves what is known of the earlier ones as it is.
LEMMA TickAppended ==
    ASSUME ticks \in Seq(TickRow), NEW t \in TickRow, ticks' = Append(ticks, t)
    PROVE  /\ ticks' \in Seq(TickRow) /\ Len(ticks') = Coming /\ ticks'[Coming] = t
           /\ \A n \in 1 .. Len(ticks) : ticks'[n] = ticks[n]
           /\ \A n \in 1 .. Len(ticks) : n \in OnTime' <=> n \in OnTime
           /\ Coming \in OnTime' <=> ~t.late
           /\ \A n \in 1 .. Coming : \A k : /\ LatestTick(k, n)' = LatestTick(k, n)
                                             /\ LatestOnTime(k, n)' = LatestOnTime(k, n)
<1>1. /\ Len(ticks) \in Nat /\ DOMAIN ticks = 1 .. Len(ticks)
      /\ ticks' \in Seq(TickRow) /\ Len(ticks') = Coming /\ DOMAIN ticks' = 1 .. Coming
      /\ ticks'[Coming] = t
  BY DEF Coming
<1>2. \A n \in 1 .. Len(ticks) : ticks'[n] = ticks[n] /\ n \in 1 .. Coming
  BY DEF Coming
<1>3. \A n \in 1 .. Len(ticks) : n \in OnTime' <=> n \in OnTime
  BY <1>1, <1>2 DEF OnTime
<1>4. Coming \in OnTime' <=> ~t.late
  <2>1. Coming \in 1 .. Coming
    BY DEF Coming
  <2> QED
    BY <1>1, <2>1 DEF OnTime
<1>5. ASSUME NEW k, NEW n \in 1 .. Coming
      PROVE  /\ LatestTick(k, n)' = LatestTick(k, n)
             /\ LatestOnTime(k, n)' = LatestOnTime(k, n)
  <2>1. n \in Nat /\ \A m \in 1 .. n - 1 : m \in 1 .. Len(ticks) /\ m < n
    BY <1>1 DEF Coming
  <2>2. {m \in 1 .. n - 1 : ticks'[m].by = k} = {m \in 1 .. n - 1 : ticks[m].by = k}
    BY <1>2, <2>1
  <2>3. {m \in OnTime' : m < n /\ ticks'[m].by = k} = {m \in OnTime : m < n /\ ticks[m].by = k}
    <3>1. \A m \in OnTime' : m < n => m \in 1 .. Len(ticks)
      BY <1>1, <2>1 DEF OnTime
    <3>2. \A m \in OnTime : m \in 1 .. Len(ticks)
      BY <1>1 DEF OnTime
    <3> QED
      BY <1>2, <1>3, <3>1, <3>2
  <2> QED
    BY <2>2, <2>3 DEF LatestTick, LatestOnTime
<1> QED
  BY <1>1, <1>2, <1>3, <1>4, <1>5

\* It is the latest tick of its instrument.
LEMMA LatestAfter ==
    ASSUME ticks \in Seq(TickRow), NEW t \in TickRow, ticks' = Append(ticks, t), NEW k
    PROVE  /\ LatestTick(k, Coming)' = IF t.by = k THEN Coming ELSE LatestTick(k, Coming)
           /\ LatestOnTime(k, Coming)' = IF t.by = k /\ ~t.late THEN Coming
                                         ELSE LatestOnTime(k, Coming)
<1>1. /\ ticks' \in Seq(TickRow) /\ Len(ticks') = Coming /\ ticks'[Coming] = t
      /\ \A n \in 1 .. Len(ticks) : ticks'[n] = ticks[n]
      /\ \A n \in 1 .. Len(ticks) : n \in OnTime' <=> n \in OnTime
      /\ Coming \in OnTime' <=> ~t.late
  BY TickAppended
<1>2. /\ Coming \in Nat \ {0} /\ Coming \in 1 .. Coming /\ Coming' = Coming + 1
      /\ Coming - 1 = Len(ticks) /\ (Coming + 1) - 1 = Coming /\ Coming + 1 \in Nat \ {0}
      /\ \A m \in 1 .. Coming : m \in 1 .. Len(ticks) \/ m = Coming
      /\ \A m \in 1 .. Len(ticks) : m \in 1 .. Coming /\ m # Coming
      /\ \A m \in 1 .. Coming : m < Coming + 1
  <2>1. Len(ticks) \in Nat
    OBVIOUS
  <2> QED
    BY <1>1, <2>1 DEF Coming
<1> DEFINE T == {m \in 1 .. Coming : ticks'[m].by = k}
           O == {m \in 1 .. Coming : m \in OnTime' /\ ticks'[m].by = k}
<1>3. /\ IsLatest(LatestTick(k, Coming), Coming, TicksOf(k))
      /\ IsLatest(LatestOnTime(k, Coming), Coming, OnTimeOf(k))
  BY <1>2, LatestTicks
<1>4. IsLatest(LatestTick(k, Coming)', Coming + 1, T)
  <2>1. LatestTick(k, Coming)' = Max({0} \cup {m \in 1 .. (Coming + 1) - 1 : m \in T})
    <3>1. LatestTick(k, Coming)' = Max({0} \cup {m \in 1 .. Coming' - 1 : ticks'[m].by = k})
      BY DEF LatestTick
    <3>2. {m \in 1 .. Coming' - 1 : ticks'[m].by = k} = {m \in 1 .. (Coming + 1) - 1 : m \in T}
      BY <1>2
    <3> QED
      BY <3>1, <3>2
  <2> HIDE DEF T
  <2> QED
    BY <1>2, <2>1, LatestFound
<1>5. IsLatest(LatestOnTime(k, Coming)', Coming + 1, O)
  <2>1. LatestOnTime(k, Coming)' = Max({0} \cup {m \in 1 .. (Coming + 1) - 1 : m \in O})
    <3>1. LatestOnTime(k, Coming)'
              = Max({0} \cup {m \in OnTime' : m < Coming' /\ ticks'[m].by = k})
      BY DEF LatestOnTime
    <3>2. \A m \in OnTime' : m \in 1 .. Coming
      BY <1>1, <1>2 DEF OnTime
    <3>3. {m \in OnTime' : m < Coming' /\ ticks'[m].by = k}
              = {m \in 1 .. (Coming + 1) - 1 : m \in O}
      BY <1>2, <3>2
    <3> QED
      BY <3>1, <3>3
  <2> HIDE DEF O
  <2> QED
    BY <1>2, <2>1, LatestFound
<1>6. IsLatest(IF t.by = k THEN Coming ELSE LatestTick(k, Coming), Coming + 1, T)
  <2>1. CASE t.by = k
    <3>1. Coming \in T /\ \A m \in 1 .. Coming : m <= Coming
      BY <1>1, <1>2, <2>1
    <3> QED
      BY <1>2, <2>1, <3>1 DEF IsLatest
  <2>2. CASE t.by # k
    <3>1. \A m \in 1 .. Coming : m \in T <=> m \in 1 .. Len(ticks) /\ m \in TicksOf(k)
      BY <1>1, <1>2, <2>2 DEF TicksOf
    <3> HIDE DEF T
    <3> QED
      BY <1>2, <1>3, <2>2, <3>1 DEF IsLatest
  <2> QED
    BY <2>1, <2>2
<1>7. IsLatest(IF t.by = k /\ ~t.late THEN Coming ELSE LatestOnTime(k, Coming), Coming + 1, O)
  <2>1. CASE t.by = k /\ ~t.late
    <3>1. Coming \in O /\ \A m \in 1 .. Coming : m <= Coming
      BY <1>1, <1>2, <2>1
    <3> QED
      BY <1>2, <2>1, <3>1 DEF IsLatest
  <2>2. CASE ~ (t.by = k /\ ~t.late)
    <3>1. \A m \in 1 .. Coming : m \in O <=> m \in 1 .. Len(ticks) /\ m \in OnTimeOf(k)
      BY <1>1, <1>2, <2>2 DEF OnTimeOf
    <3> HIDE DEF O
    <3> QED
      BY <1>2, <1>3, <2>2, <3>1 DEF IsLatest
  <2> QED
    BY <2>1, <2>2
<1> HIDE DEF T, O
<1> QED
  BY <1>2, <1>4, <1>5, <1>6, <1>7, LatestUnique

\* What the exchange may send: a tick of the running session, on time or late, or
\* the first one of a session.
Legal(t) ==
    \/ /\ ~t.late
       /\ lastVolume[t.by] = Unknown => t.fresh
       /\ t.fresh => lastVolume[t.by] = Unknown \/ t.volume = t.traded
       /\ ~t.fresh => t.volume = t.traded + ticks[LatestOnTime(t.by, Coming)].volume
    \/ /\ t.late /\ ~t.fresh /\ t.traded = 0
       /\ \E n \in OnTime : InSession(t.by, n) /\ t.volume = ticks[n].volume

LEMMA PairMax ==
    ASSUME NEW d \in Int
    PROVE  Max({0, d}) = IF 0 <= d THEN d ELSE 0
<1>1. Max({0, d}) \in {0, d} /\ \A x \in {0, d} : x <= Max({0, d})
  <2>1. IsFiniteSet({0, d})
    <3>1. IsFiniteSet({0}) /\ {0, d} = {0} \cup {d}
      BY FS_Singleton
    <3> QED
      BY <3>1, FS_AddElement
  <2>2. {0, d} \in SUBSET Int /\ {0, d} # {}
    OBVIOUS
  <2> QED
    BY <2>1, <2>2, FiniteMaxMin
<1> QED
  BY <1>1

\* What TicksInv says of instrument k.
SessionOf(k, newest, top) ==
    /\ newest \in 0 .. Len(ticks) /\ top \in 0 .. Len(ticks)
    /\ newest = 0 => lastVolume[k] = Unknown
    /\ newest # 0 => /\ lastVolume[k] = ticks[newest].volume /\ lastVolume[k] # Unknown
                     /\ top # 0 /\ ticks[newest].volume <= ticks[top].volume
    /\ \A m \in OnTimeOf(k) : m <= newest /\ m <= top /\ m # 0

LEMMA SessionFacts ==
    ASSUME ticks \in Seq(TickRow), TicksInv, NEW k \in Instruments
    PROVE  SessionOf(k, LatestTick(k, Coming), LatestOnTime(k, Coming))
<1>1. /\ Len(ticks) \in Nat /\ Coming \in 1 .. Coming /\ Coming - 1 = Len(ticks)
      /\ \A m \in 1 .. Len(ticks) : ticks[m] \in TickRow
  BY DEF Coming
<1>2. /\ IsLatest(LatestTick(k, Coming), Coming, TicksOf(k))
      /\ IsLatest(LatestOnTime(k, Coming), Coming, OnTimeOf(k))
  BY <1>1, LatestTicks
<1>3. \A m \in OnTimeOf(k) : m \in 1 .. Len(ticks) /\ m \in TicksOf(k) /\ m # 0
  BY <1>1 DEF OnTimeOf, OnTime, TicksOf
<1> DEFINE p == LatestTick(k, Coming)
           o == LatestOnTime(k, Coming)
<1>4. /\ p \in 0 .. Len(ticks) /\ o \in 0 .. Len(ticks)
      /\ \A m \in OnTimeOf(k) : m <= p /\ m <= o
  <2> HIDE DEF p, o
  <2>1. IsLatest(p, Coming, TicksOf(k)) /\ IsLatest(o, Coming, OnTimeOf(k))
    BY <1>2 DEF p, o
  <2> QED
    BY <1>1, <1>3, <2>1 DEF IsLatest
<1>5. /\ p = 0 => lastVolume[k] = Unknown
      /\ p # 0 => /\ lastVolume[k] = ticks[p].volume
                  /\ o # 0 /\ ticks[p].volume <= ticks[o].volume
  BY DEF TicksInv, VolumeKept
<1> HIDE DEF p, o
<1>6. p # 0 => ticks[p].volume \in Nat
  BY <1>1, <1>4 DEF TickRow
<1>7. SessionOf(k, p, o)
  BY <1>3, <1>4, <1>5, <1>6 DEF SessionOf, Unknown
<1> QED
  BY <1>7 DEF p, o

\* The volume of a legal tick, the n-th, is accounted for.
LEMMA NewTickAccounted ==
    ASSUME ticks \in Seq(TickRow), TicksInv, NEW t \in TickRow, Legal(t),
           t.by \in Instruments,
           ticks' = Append(ticks, t), NEW n, n = Coming
    PROVE  TickAccounted(n)'
<1> DEFINE k == t.by
           p == LatestTick(k, n)
           o == LatestOnTime(k, n)
           v == t.volume
           u == ticks[p].volume
           w == ticks[o].volume
           a == ticks'[p].volume
           b == ticks'[o].volume
<1>1. /\ ticks' \in Seq(TickRow) /\ Len(ticks') = Coming /\ ticks'[n] = t
      /\ \A m \in 1 .. Len(ticks) : ticks'[m] = ticks[m]
      /\ LatestTick(k, n)' = p /\ LatestOnTime(k, n)' = o
  <2>1. n \in 1 .. Coming
    BY DEF Coming
  <2> QED
    BY <2>1, TickAppended
<1>2. SessionOf(k, p, o)
  BY SessionFacts
<1>3. /\ Recounted(n)' = IF t.fresh THEN 0 ELSE Max({0, (IF t.late THEN v ELSE b) - a})
      /\ Counted(n)' = IF p # 0 /\ v >= a THEN v - a ELSE 0
  <2>1. LatestTick(k, n)' = Max({0} \cup {m \in 1 .. n - 1 : ticks'[m].by = t.by})
    BY DEF LatestTick
  <2> HIDE DEF p, o
  <2> QED
    BY <1>1, <2>1 DEF Recounted, Counted
<1>4. /\ v \in Nat /\ t.traded \in Nat
      /\ p # 0 => u \in Nat /\ a = u
      /\ o # 0 => w \in Nat /\ b = w
  <2> HIDE DEF p, o
  <2>1. p \in 0 .. Len(ticks) /\ o \in 0 .. Len(ticks)
    BY <1>2 DEF SessionOf
  <2>2. /\ p # 0 => p \in 1 .. Len(ticks)
        /\ o # 0 => o \in 1 .. Len(ticks)
    BY <2>1
  <2>3. \A m \in 1 .. Len(ticks) : ticks[m].volume \in Nat
    <3>1. \A m \in 1 .. Len(ticks) : ticks[m] \in TickRow
      OBVIOUS
    <3> QED
      BY <3>1 DEF TickRow
  <2> QED
    BY <1>1, <2>2, <2>3 DEF TickRow
<1>5. /\ p = 0 => lastVolume[k] = Unknown
      /\ p # 0 => lastVolume[k] # Unknown /\ o # 0 /\ u <= w
  BY <1>2 DEF SessionOf
<1>6. \/ /\ ~t.late
         /\ lastVolume[k] = Unknown => t.fresh
         /\ t.fresh => lastVolume[k] = Unknown \/ v = t.traded
         /\ ~t.fresh => v = t.traded + w
      \/ t.late /\ ~t.fresh /\ t.traded = 0 /\ p # 0
  <2>1. ASSUME NEW m \in OnTime, InSession(k, m)
        PROVE  p # 0
    <3>1. m \in OnTimeOf(k)
      BY <2>1 DEF InSession, OnTimeOf
    <3>2. m <= p /\ m # 0 /\ m \in Nat /\ p \in Nat
      BY <1>2, <3>1 DEF SessionOf, OnTime
    <3> QED
      BY <3>2
  <2> QED
    BY <2>1 DEF Legal, Coming
<1> HIDE DEF p, o, v, u, w, a, b
<1>7. CASE t.fresh
  <2>1. Recounted(n)' = 0
    BY <1>3, <1>7
  <2>2. Counted(n)' <= t.traded
    BY <1>3, <1>4, <1>5, <1>6, <1>7
  <2>3. Counted(n)' <= t.traded + 0
    BY <1>4, <2>2
  <2> QED
    BY <1>1, <1>7, <2>1, <2>3 DEF TickAccounted
<1>8. CASE ~t.fresh
  <2>1. /\ p # 0 /\ o # 0 /\ u <= w /\ u \in Nat /\ w \in Nat /\ a = u /\ b = w
        /\ t.late \/ v = t.traded + w
        /\ t.late => t.traded = 0
    BY <1>4, <1>5, <1>6, <1>8
  <2> DEFINE d == (IF t.late THEN v ELSE w) - u
  <2>2. d \in Int
    BY <1>4, <2>1
  <2>3. Recounted(n)' = Max({0, d})
    BY <1>3, <1>8, <2>1
  <2>4. Recounted(n)' = IF 0 <= d THEN d ELSE 0
    <3> HIDE DEF d
    <3> QED
      BY <2>2, <2>3, PairMax
  <2>5. Recounted(n)' \in Nat /\ Counted(n)' = t.traded + Recounted(n)'
    BY <1>3, <1>4, <2>1, <2>4
  <2>6. Counted(n)' <= t.traded + Recounted(n)'
    BY <1>4, <2>5
  <2> QED
    BY <1>1, <2>1, <2>5, <2>6 DEF TickAccounted
<1> QED
  BY <1>7, <1>8

\* The earlier ticks stay accounted for.
LEMMA OldTicksAccounted ==
    ASSUME ticks \in Seq(TickRow), TicksInv, NEW t \in TickRow, ticks' = Append(ticks, t),
           NEW n \in 1 .. Len(ticks)
    PROVE  Counted(n)' = Counted(n) /\ TickAccounted(n)'
<1>1. /\ Len(ticks) \in Nat /\ n \in 1 .. Coming /\ n \in DOMAIN ticks
      /\ \A m \in 1 .. Len(ticks) : ticks'[m] = ticks[m]
  <2>1. Len(ticks) \in Nat /\ n \in 1 .. Coming /\ n \in DOMAIN ticks
    BY DEF Coming
  <2> QED
    BY <2>1, TickAppended
<1>2. TickAccounted(n)
  BY <1>1 DEF TicksInv
<1>k. PICK k : k = ticks[n].by
  OBVIOUS
<1> DEFINE p == LatestTick(k, n)
           o == LatestOnTime(k, n)
<1>3. ticks'[n] = ticks[n] /\ LatestTick(k, n)' = p /\ LatestOnTime(k, n)' = o
  BY <1>1, TickAppended
<1>4. /\ p = 0 \/ ticks'[p] = ticks[p]
      /\ o = 0 \/ ticks'[o] = ticks[o]
  <2>1. IsLatest(p, n, TicksOf(k)) /\ IsLatest(o, n, OnTimeOf(k))
    BY <1>1, LatestTicks
  <2>2. p \in 0 .. n - 1 /\ o \in 0 .. n - 1
    <3> HIDE DEF p, o
    <3> QED
      BY <2>1 DEF IsLatest
  <2> HIDE DEF p, o
  <2>3. (p = 0 \/ p \in 1 .. Len(ticks)) /\ (o = 0 \/ o \in 1 .. Len(ticks))
    BY <1>1, <2>2
  <2> QED
    BY <1>1, <2>3
<1>5. /\ Recounted(n) = IF ticks[n].fresh THEN 0
                         ELSE Max({0, (IF ticks[n].late THEN ticks[n].volume
                                       ELSE ticks[o].volume) - ticks[p].volume})
      /\ Recounted(n)' = IF ticks[n].fresh THEN 0
                          ELSE Max({0, (IF ticks[n].late THEN ticks[n].volume
                                        ELSE ticks'[o].volume) - ticks'[p].volume})
  <2>1. /\ p = Max({0} \cup {m \in 1 .. n - 1 : ticks[m].by = k})
        /\ LatestTick(k, n)' = Max({0} \cup {m \in 1 .. n - 1 : ticks'[m].by = k})
    BY DEF LatestTick
  <2>2. Recounted(n) = IF ticks[n].fresh THEN 0
                       ELSE Max({0, (IF ticks[n].late THEN ticks[n].volume
                                     ELSE ticks[o].volume) - ticks[p].volume})
    <3> HIDE DEF o
    <3> QED
      BY <1>k, <2>1 DEF Recounted, o
  <2>3. Recounted(n)' = IF ticks[n].fresh THEN 0
                        ELSE Max({0, (IF ticks[n].late THEN ticks[n].volume
                                      ELSE ticks'[o].volume) - ticks'[p].volume})
    <3> HIDE DEF p, o
    <3> QED
      BY <1>k, <1>3, <2>1, ZenonT(30) DEF Recounted
  <2> QED
    BY <2>2, <2>3
<1>6. /\ Counted(n) = IF p # 0 /\ ticks[n].volume >= ticks[p].volume
                      THEN ticks[n].volume - ticks[p].volume ELSE 0
      /\ Counted(n)' = IF p # 0 /\ ticks[n].volume >= ticks'[p].volume
                       THEN ticks[n].volume - ticks'[p].volume ELSE 0
  <2> HIDE DEF p, o
  <2>1. Counted(n)' = IF p # 0 /\ ticks[n].volume >= ticks'[p].volume
                      THEN ticks[n].volume - ticks'[p].volume ELSE 0
    BY <1>k, <1>3 DEF Counted
  <2>2. Counted(n) = IF p # 0 /\ ticks[n].volume >= ticks[p].volume
                      THEN ticks[n].volume - ticks[p].volume ELSE 0
    BY <1>k DEF Counted, p
  <2> QED
    BY <2>1, <2>2
<1>7. ~ticks[n].fresh => p # 0 /\ o # 0
  BY <1>k, <1>2 DEF TickAccounted
<1> HIDE DEF p, o
<1>8. Counted(n)' = Counted(n)
  BY <1>4, <1>6
<1>9. Recounted(n)' = Recounted(n)
  <2>1. CASE ticks[n].fresh
    BY <1>5, <2>1, Zenon
  <2>2. CASE ~ticks[n].fresh
    <3>1. ticks'[o] = ticks[o] /\ ticks'[p] = ticks[p]
      BY <1>4, <1>7, <2>2
    <3>2. PICK d : d = (IF ticks[n].late THEN ticks[n].volume
                        ELSE ticks[o].volume) - ticks[p].volume
      OBVIOUS
    <3>3. Recounted(n) = Max({0, d})
      BY <1>5, <2>2, <3>2
    <3>4. d = (IF ticks[n].late THEN ticks[n].volume
               ELSE ticks'[o].volume) - ticks'[p].volume
      BY <3>1, <3>2
    <3>5. Recounted(n)' = Max({0, d})
      BY <1>5, <2>2, <3>4
    <3> QED
      BY <3>3, <3>5
  <2> QED
    BY <2>1, <2>2
<1> QED
  BY <1>k, <1>2, <1>3, <1>7, <1>8, <1>9 DEF TickAccounted, p, o

\* A legal tick keeps TicksInv.
LEMMA TicksStep ==
    ASSUME ticks \in Seq(TickRow), lastVolume \in [Instruments -> Int], TicksInv,
           NEW t \in TickRow, Legal(t),
           ticks' = Append(ticks, t), lastVolume' = [lastVolume EXCEPT ![t.by] = t.volume]
    PROVE  TicksInv'
<1>1. /\ ticks' \in Seq(TickRow) /\ Len(ticks') = Coming /\ ticks'[Coming] = t
      /\ DOMAIN ticks' = 1 .. Coming
      /\ \A n \in 1 .. Len(ticks) : ticks'[n] = ticks[n]
      /\ \A n \in 1 .. Len(ticks) : n \in OnTime' <=> n \in OnTime
      /\ Coming \in OnTime' <=> ~t.late
  BY TickAppended
<1>2. /\ Coming \in Nat \ {0} /\ Coming \in 1 .. Coming /\ Coming \notin 1 .. Len(ticks)
      /\ \A m \in 1 .. Coming : m \in 1 .. Len(ticks) \/ m = Coming
      /\ \A m \in 1 .. Len(ticks) : Coming > m /\ m # 0 /\ m \in DOMAIN ticks
  BY DEF Coming
<1>5. t.by \in Instruments /\ t.volume \in Nat /\ t.traded \in Nat
  BY DEF TickRow
<1>3. \A n \in DOMAIN ticks' : TickAccounted(n)'
  <2>1. \A n \in 1 .. Len(ticks) : TickAccounted(n)'
    BY OldTicksAccounted
  <2>2. \A n : n = Coming => TickAccounted(n)'
    BY <1>5, NewTickAccounted
  <2>3. \A n \in DOMAIN ticks' : n \in 1 .. Len(ticks) \/ n = Coming
    BY <1>1, <1>2
  <2> QED
    BY <2>1, <2>2, <2>3
<1>4. ASSUME NEW k \in Instruments
      PROVE  VolumeKept(k)'
  <2> DEFINE p == LatestTick(k, Coming)
             o == LatestOnTime(k, Coming)
             q == LatestTick(k, Coming)'
             r == LatestOnTime(k, Coming)'
  <2>1. /\ q = IF t.by = k THEN Coming ELSE p
        /\ r = IF t.by = k /\ ~t.late THEN Coming ELSE o
    BY LatestAfter
  <2>2. SessionOf(k, p, o)
    BY SessionFacts
  <2>3. VolumeKept(k)
    BY DEF TicksInv
  <2>4. \A m \in 1 .. Len(ticks) : InSession(k, m) => ticks[m].volume <= ticks[o].volume
    BY <2>3 DEF VolumeKept
  <2>5. \A m \in 1 .. Len(ticks) : InSession(k, m)' => InSession(k, m)
    <3> SUFFICES ASSUME NEW m \in 1 .. Len(ticks), InSession(k, m)' PROVE InSession(k, m)
      OBVIOUS
    <3>1. m \in OnTime /\ ticks[m].by = k
      BY <1>1 DEF InSession
    <3>2. \A l \in OnTime : l \in 1 .. Len(ticks)
      BY DEF OnTime
    <3>3. ASSUME NEW l \in OnTime, l > m, ticks[l].by = k PROVE ~ticks[l].fresh
      <4>1. l \in 1 .. Len(ticks) /\ l \in OnTime' /\ ticks'[l] = ticks[l]
        BY <1>1, <3>2, <3>3
      <4> QED
        BY <3>3, <4>1 DEF InSession
    <3> QED
      BY <3>1, <3>3 DEF InSession
  <2> DEFINE Goal == /\ q = 0 => lastVolume'[k] = Unknown
                     /\ q # 0 => /\ lastVolume'[k] = ticks'[q].volume
                                 /\ r # 0 /\ ticks'[q].volume <= ticks'[r].volume
                     /\ \A m \in 1 .. Coming :
                            InSession(k, m)' => ticks'[m].volume <= ticks'[r].volume
  <2>6. Goal => VolumeKept(k)'
    <3> HIDE DEF p, o
    <3> QED
      BY <1>1 DEF VolumeKept
  <2>7. /\ p = 0 => lastVolume[k] = Unknown
        /\ p # 0 => /\ lastVolume[k] = ticks[p].volume /\ lastVolume[k] # Unknown
                    /\ o # 0 /\ ticks[p].volume <= ticks[o].volume
        /\ p = 0 \/ p \in 1 .. Len(ticks)
        /\ o = 0 \/ o \in 1 .. Len(ticks)
        /\ \A m \in OnTimeOf(k) : m <= p /\ m <= o /\ m # 0
    <3> HIDE DEF p, o
    <3> QED
      BY <2>2 DEF SessionOf
  <2> HIDE DEF p, o, q, r
  <2>8. \A m \in 1 .. Len(ticks) : ticks[m].volume \in Nat
    <3>1. \A m \in 1 .. Len(ticks) : ticks[m] \in TickRow
      OBVIOUS
    <3> QED
      BY <3>1 DEF TickRow
  <2>9. \A m \in 1 .. Len(ticks) : InSession(k, m) => o \in 1 .. Len(ticks)
    <3> SUFFICES ASSUME NEW m \in 1 .. Len(ticks), InSession(k, m)
                 PROVE  o \in 1 .. Len(ticks)
      OBVIOUS
    <3>1. m \in OnTimeOf(k)
      BY DEF InSession, OnTimeOf
    <3>2. m <= o
      BY <2>7, <3>1
    <3>3. o # 0
      BY <3>2
    <3> QED
      BY <2>7, <3>3
  <2>10. CASE t.by # k
    <3>1. q = p /\ r = o /\ lastVolume'[k] = lastVolume[k]
      BY <2>1, <2>10
    <3>2. ASSUME NEW m \in 1 .. Coming, InSession(k, m)'
          PROVE  ticks'[m].volume <= ticks'[r].volume
      <4>1. m # Coming
        BY <1>1, <2>10, <3>2 DEF InSession
      <4>2. m \in 1 .. Len(ticks) /\ InSession(k, m)
        BY <1>2, <2>5, <3>2, <4>1
      <4> QED
        BY <1>1, <2>4, <2>9, <3>1, <4>2
    <3>3. q # 0 => /\ lastVolume'[k] = ticks'[q].volume
                   /\ r # 0 /\ ticks'[q].volume <= ticks'[r].volume
      BY <1>1, <2>7, <3>1
    <3> QED
      BY <2>6, <2>7, <3>1, <3>2, <3>3
  <2>11. CASE t.by = k /\ ~t.late
    <3>1. q = Coming /\ r = Coming /\ lastVolume'[k] = t.volume /\ q # 0
      BY <1>2, <2>1, <2>11
    <3>2. ticks'[q].volume = t.volume /\ ticks'[r].volume = t.volume
      BY <1>1, <3>1
    <3>3. ASSUME NEW m \in 1 .. Len(ticks), InSession(k, m)'
          PROVE  ticks'[m].volume <= t.volume
      <4>1. ~t.fresh
        <5>1. Coming \in OnTime' /\ Coming > m /\ ticks'[Coming].by = k
          BY <1>1, <1>2, <2>11
        <5> QED
          BY <1>1, <3>3, <5>1 DEF InSession
      <4>2. t.volume = t.traded + ticks[o].volume
        BY <2>11, <4>1 DEF Legal, o
      <4>3. /\ ticks[m].volume <= ticks[o].volume /\ ticks[m].volume \in Nat
            /\ ticks[o].volume \in Nat /\ ticks'[m] = ticks[m]
        BY <1>1, <2>4, <2>5, <2>8, <2>9, <3>3
      <4>4. ticks[m].volume <= t.volume
        BY <1>5, <4>2, <4>3
      <4> QED
        BY <4>3, <4>4
    <3>4. \A m \in 1 .. Coming : InSession(k, m)' => ticks'[m].volume <= ticks'[r].volume
      <4>1. t.volume <= t.volume
        BY <1>5
      <4> QED
        BY <1>1, <1>2, <3>2, <3>3, <4>1
    <3>5. ticks'[q].volume <= ticks'[r].volume
      BY <1>5, <3>2
    <3> QED
      BY <2>6, <3>1, <3>2, <3>4, <3>5
  <2>12. CASE t.by = k /\ t.late
    <3>1. q = Coming /\ r = o /\ lastVolume'[k] = t.volume /\ q # 0
      BY <1>2, <2>1, <2>12
    <3>2. ticks'[q].volume = t.volume
      BY <1>1, <3>1
    <3>3. PICK n \in OnTime : InSession(k, n) /\ t.volume = ticks[n].volume
      BY <2>12 DEF Legal
    <3>4. n \in 1 .. Len(ticks)
      BY DEF OnTime
    <3>5. o \in 1 .. Len(ticks) /\ ticks[n].volume <= ticks[o].volume
      BY <2>4, <2>9, <3>3, <3>4
    <3>6. r # 0 /\ ticks'[r] = ticks[o]
      BY <1>1, <1>2, <3>1, <3>5
    <3>7. ASSUME NEW m \in 1 .. Coming, InSession(k, m)'
          PROVE  ticks'[m].volume <= ticks'[r].volume
      <4>1. m # Coming
        BY <1>1, <2>12, <3>7 DEF InSession
      <4>2. m \in 1 .. Len(ticks) /\ InSession(k, m)
        BY <1>2, <2>5, <3>7, <4>1
      <4> QED
        BY <1>1, <2>4, <3>6, <4>2
    <3> QED
      BY <2>6, <3>1, <3>2, <3>3, <3>5, <3>6, <3>7
  <2> QED
    BY <2>10, <2>11, <2>12
<1> QED
  BY <1>3, <1>4 DEF TicksInv

-----------------------------------------------------------------------------
(* Bars.                                                                   *)

BarRow == [minute : Int, open : Int, high : Int, low : Int, close : Int,
           volume : Int, ticks : Seq(Nat)]

\* The bar is the summary of its ticks, which are among the first N: price and
\* count have the price and the counted volume of a tick.
Summary(bar, N, price, count) ==
    /\ bar.ticks \in Seq(1 .. N) /\ bar.ticks # <<>>
    /\ bar.open = price[bar.ticks[1]]
    /\ bar.close = price[bar.ticks[Len(bar.ticks)]]
    /\ \E n \in Range(bar.ticks) : bar.high = price[n]
    /\ \E n \in Range(bar.ticks) : bar.low = price[n]
    /\ \A n \in Range(bar.ticks) : bar.low <= price[n] /\ price[n] <= bar.high
    /\ bar.volume = Total(Mapped(count, bar.ticks))

\* It stays the summary when there are more ticks.
LEMMA SummaryKept ==
    ASSUME NEW N \in Nat, NEW M \in Nat, N <= M,
           NEW price, NEW count, NEW newPrice, NEW newCount,
           \A n \in 1 .. N : newPrice[n] = price[n] /\ newCount[n] = count[n],
           NEW bar, Summary(bar, N, price, count)
    PROVE  Summary(bar, M, newPrice, newCount)
<1> DEFINE s == bar.ticks
<1>1. s \in Seq(1 .. N) /\ s # <<>> /\ bar.volume = Total(Mapped(count, s))
  BY DEF Summary
<1> HIDE DEF s
<1>2. Len(s) \in Nat \ {0} /\ DOMAIN s = 1 .. Len(s) /\ \A i \in 1 .. Len(s) : s[i] \in 1 .. N
  BY <1>1
<1>3. s \in Seq(1 .. M)
  BY <1>1
<1>4. Mapped(newCount, s) = Mapped(count, s)
  BY <1>2 DEF Mapped
<1>5. 1 \in 1 .. Len(s) /\ Len(s) \in 1 .. Len(s)
  BY <1>2
<1>6. newPrice[s[1]] = price[s[1]] /\ newPrice[s[Len(s)]] = price[s[Len(s)]]
  BY <1>2, <1>5
<1>7. \A n \in Range(s) : newPrice[n] = price[n]
  BY <1>2 DEF Range
<1> QED
  BY <1>1, <1>3, <1>4, <1>6, <1>7 DEF Summary, s

\* The summary of one tick.
LEMMA SummaryOfOne ==
    ASSUME NEW N \in Nat, NEW price \in [1 .. N -> Int], NEW count \in [1 .. N -> Int],
           NEW n \in 1 .. N, NEW bar, bar.ticks = <<n>>, bar.volume = count[n],
           bar.open = price[n], bar.high = price[n], bar.low = price[n], bar.close = price[n]
    PROVE  Summary(bar, N, price, count)
<1>1. /\ <<n>> \in Seq(1 .. N) /\ <<n>> # <<>> /\ <<n>>[1] = n /\ Len(<<n>>) = 1
      /\ Range(<<n>>) = {n}
  BY DEF Range
<1>2. Mapped(count, <<n>>) = <<count[n]>>
  BY DEF Mapped
<1>3. Total(<<count[n]>>) = count[n]
  <2>1. count[n] \in Int
    OBVIOUS
  <2> QED
    BY <2>1, TotalOne
<1>4. price[n] <= price[n]
  <2>1. price[n] \in Int
    OBVIOUS
  <2> QED
    BY <2>1
<1> QED
  BY <1>1, <1>2, <1>3, <1>4 DEF Summary

\* The summary goes on with another tick.
LEMMA SummaryGoesOn ==
    ASSUME NEW N \in Nat, NEW price \in [1 .. N -> Int], NEW count \in [1 .. N -> Int],
           NEW n \in 1 .. N, NEW old, Summary(old, N, price, count),
           NEW bar, bar.ticks = Append(old.ticks, n),
           bar.open = old.open, bar.close = price[n],
           bar.high = IF price[n] > old.high THEN price[n] ELSE old.high,
           bar.low = IF price[n] < old.low THEN price[n] ELSE old.low,
           bar.volume = old.volume + count[n]
    PROVE  Summary(bar, N, price, count)
<1> DEFINE s == old.ticks
           u == <<n>>
<1>1. /\ s \in Seq(1 .. N) /\ s # <<>>
      /\ old.open = price[s[1]] /\ old.volume = Total(Mapped(count, s))
      /\ \E m \in Range(s) : old.high = price[m]
      /\ \E m \in Range(s) : old.low = price[m]
      /\ \A m \in Range(s) : old.low <= price[m] /\ price[m] <= old.high
  BY DEF Summary
<1>2. u \in Seq(1 .. N) /\ u # <<>> /\ u[1] = n /\ Len(u) = 1 /\ Range(u) = {n}
  BY DEF Range
<1>3. bar.ticks = s \o u
  BY <1>1, AppendIsConcat
<1>4. Mapped(count, u) = <<count[n]>>
  BY DEF Mapped
<1> HIDE DEF s, u
<1>5. /\ s \o u \in Seq(1 .. N) /\ s \o u # <<>> /\ (s \o u)[1] = s[1]
      /\ (s \o u)[Len(s \o u)] = n /\ Range(s \o u) = Range(s) \cup {n}
  <2>1. PICK T : T = 1 .. N
    OBVIOUS
  <2>2. s \in Seq(T) /\ u \in Seq(T) /\ s # <<>> /\ u # <<>>
    BY <1>1, <1>2, <2>1
  <2>3. /\ s \o u \in Seq(T) /\ s \o u # <<>> /\ (s \o u)[1] = s[1]
        /\ (s \o u)[Len(s \o u)] = u[Len(u)] /\ Range(s \o u) = Range(s) \cup Range(u)
    BY <2>2, ConcatEnds
  <2> QED
    BY <1>2, <2>1, <2>3
<1>6. Total(Mapped(count, s \o u)) = Total(Mapped(count, s)) + count[n]
  <2>1. Mapped(count, s \o u) = Mapped(count, s) \o Mapped(count, u)
    BY <1>1, <1>2, MappedConcat, ZenonT(30)
  <2>2. Mapped(count, s) \in Seq(Int) /\ Mapped(count, u) \in Seq(Int)
    BY <1>1, <1>2, MappedType DEF IsMapped
  <2>3. count[n] \in Int
    OBVIOUS
  <2> QED
    BY <1>4, <2>1, <2>2, <2>3, TotalConcat, TotalOne, ZenonT(30)
<1>7. \A m \in Range(s) : m \in 1 .. N /\ price[m] \in Int
  <2>1. Range(s) \in SUBSET (1 .. N)
    BY <1>1, RangeType
  <2> QED
    BY <2>1
<1>8. old.high \in Int /\ old.low \in Int /\ price[n] \in Int
  BY <1>1, <1>7
<1>9. \A m \in Range(s \o u) : bar.low <= price[m] /\ price[m] <= bar.high
  <2>1. price[n] <= bar.high /\ bar.low <= price[n]
    BY <1>8
  <2>2. \A x \in Int : x <= old.high => x <= bar.high
    BY <1>8
  <2>3. \A x \in Int : old.low <= x => bar.low <= x
    BY <1>8
  <2> QED
    BY <1>1, <1>5, <1>7, <2>1, <2>2, <2>3
<1>10. /\ \E m \in Range(s \o u) : bar.high = price[m]
       /\ \E m \in Range(s \o u) : bar.low = price[m]
  BY <1>1, <1>5
<1> QED
  BY <1>1, <1>3, <1>5, <1>6, <1>9, <1>10 DEF Summary

\* The numbers of the bars of q, all of which are summaries.
LEMMA SummaryOfWindow ==
    ASSUME NEW N \in Nat, NEW price \in [1 .. N -> Int], NEW count \in [1 .. N -> Int],
           NEW q \in Seq(BarRow), q # <<>>,
           \A i \in 1 .. Len(q) : Summary(q[i], N, price, count)
    PROVE  WindowBar(q) \in BarRow /\ Summary(WindowBar(q), N, price, count)
<1> DEFINE bar == WindowBar(q)
           parts == [i \in DOMAIN q |-> q[i].ticks]
           volumes == [i \in DOMAIN q |-> q[i].volume]
           T == 1 .. N
           s == FlattenSeq(parts)
<1>1. /\ Len(q) \in Nat \ {0} /\ DOMAIN q = 1 .. Len(q)
      /\ 1 \in 1 .. Len(q) /\ Len(q) \in 1 .. Len(q)
      /\ \A i \in 1 .. Len(q) : q[i] \in BarRow
      /\ Head(q) = q[1] /\ Last(q) = q[Len(q)]
  BY DEF Last
<1>2. \A i \in 1 .. Len(q) :
          /\ q[i].minute \in Int /\ q[i].open \in Int /\ q[i].high \in Int /\ q[i].low \in Int
          /\ q[i].close \in Int /\ q[i].volume \in Int
          /\ q[i].ticks \in Seq(T) /\ q[i].ticks # <<>>
  BY <1>1 DEF BarRow, Summary
<1>3. /\ parts \in Seq(Seq(T)) /\ parts # <<>> /\ Len(parts) = Len(q)
      /\ \A i \in 1 .. Len(q) : parts[i] = q[i].ticks /\ parts[i] # <<>>
  BY <1>1, <1>2
<1>4. /\ volumes \in Seq(Int) /\ Len(volumes) = Len(q)
      /\ \A i \in 1 .. Len(q) : volumes[i] = Total(Mapped(count, parts[i]))
  <2>1. \A i \in 1 .. Len(q) : q[i].volume = Total(Mapped(count, q[i].ticks))
    BY DEF Summary
  <2> QED
    BY <1>1, <1>2, <1>3, <2>1
<1>5. /\ s \in Seq(T) /\ s # <<>>
      /\ s[1] = parts[1][1]
      /\ s[Len(s)] = parts[Len(q)][Len(parts[Len(q)])]
      /\ \A x : x \in Range(s) <=> \E j \in 1 .. Len(q) : x \in Range(parts[j])
  <2> HIDE DEF parts, T
  <2> QED
    BY <1>3, Flattened
<1>6. Total(volumes) = Total(Mapped(count, s))
  <2> HIDE DEF parts, volumes
  <2> QED
    BY <1>3, <1>4, FlattenTotal
<1> DEFINE highs == {b.high : b \in Range(q)}
           lows == {b.low : b \in Range(q)}
<1>7. /\ highs \in SUBSET Int /\ lows \in SUBSET Int /\ highs # {} /\ lows # {}
      /\ IsFiniteSet(highs) /\ IsFiniteSet(lows)
  <2>1. highs = {q[i].high : i \in 1 .. Len(q)} /\ lows = {q[i].low : i \in 1 .. Len(q)}
    BY <1>1 DEF Range
  <2>2. IsFiniteSet(1 .. Len(q))
    BY <1>1, FS_Interval
  <2> DEFINE f == [i \in 1 .. Len(q) |-> q[i].high]
             g == [i \in 1 .. Len(q) |-> q[i].low]
  <2>3. f \in Surjection(1 .. Len(q), highs) /\ g \in Surjection(1 .. Len(q), lows)
    BY <2>1 DEF Surjection
  <2>4. IsFiniteSet(highs) /\ IsFiniteSet(lows)
    <3> HIDE DEF f, g, highs, lows
    <3> QED
      BY <2>2, <2>3, FS_Surjection
  <2>5. \A i \in 1 .. Len(q) : q[i].high \in Int /\ q[i].low \in Int
    BY <1>2
  <2>6. q[1].high \in highs /\ q[1].low \in lows
    BY <1>1, <2>1
  <2>7. highs \in SUBSET Int /\ lows \in SUBSET Int
    BY <2>1, <2>5
  <2> HIDE DEF highs, lows
  <2> QED
    BY <2>4, <2>6, <2>7
<1>8. /\ bar.high \in highs /\ \A x \in highs : x <= bar.high
      /\ bar.low \in lows /\ \A x \in lows : bar.low <= x
  <2>1. PICK h \in highs : \A x \in highs : x <= h
    <3> HIDE DEF highs
    <3> QED
      BY <1>7, FiniteHasExtremes
  <2>2. PICK l \in lows : \A x \in lows : l <= x
    <3> HIDE DEF lows
    <3> QED
      BY <1>7, FiniteHasExtremes
  <2>3. /\ bar.high = CHOOSE x \in highs : \A b \in Range(q) : b.high <= x
        /\ bar.low = CHOOSE x \in lows : \A b \in Range(q) : x <= b.low
    BY DEF WindowBar
  <2>4. /\ \A b \in Range(q) : b.high <= h
        /\ \A b \in Range(q) : l <= b.low
    BY <2>1, <2>2
  <2>5. /\ bar.high \in highs /\ \A b \in Range(q) : b.high <= bar.high
        /\ bar.low \in lows /\ \A b \in Range(q) : bar.low <= b.low
    <3> HIDE DEF highs, lows, bar
    <3> QED
      BY <2>3, <2>4
  <2> QED
    BY <2>5
<1>9. /\ bar = [minute |-> bar.minute, open |-> bar.open, high |-> bar.high, low |-> bar.low,
                close |-> bar.close, volume |-> bar.volume, ticks |-> bar.ticks]
      /\ bar.minute = q[Len(q)].minute /\ bar.open = q[1].open /\ bar.close = q[Len(q)].close
      /\ bar.volume = Total(volumes) /\ bar.ticks = s
  BY <1>1 DEF WindowBar
<1> HIDE DEF bar, parts, volumes, s
<1>10. bar.high \in Int /\ bar.low \in Int
  <2> HIDE DEF highs, lows
  <2> QED
    BY <1>7, <1>8
<1>11. bar \in BarRow
  <2>1. s \in Seq(Nat)
    <3>1. \A i \in 1 .. N : i \in Nat
      OBVIOUS
    <3> QED
      BY <1>5, <3>1
  <2>2. Total(volumes) \in Int
    BY <1>4, TotalType
  <2>3. bar.minute \in Int /\ bar.open \in Int /\ bar.close \in Int
    BY <1>1, <1>2, <1>9
  <2>4. [minute |-> bar.minute, open |-> bar.open, high |-> bar.high, low |-> bar.low,
         close |-> bar.close, volume |-> bar.volume, ticks |-> bar.ticks] \in BarRow
    BY <1>9, <1>10, <2>1, <2>2, <2>3 DEF BarRow
  <2> QED
    BY <1>9, <2>4
<1>12. \A x : x \in Range(s) <=> \E j \in 1 .. Len(q) : x \in Range(q[j].ticks)
  BY <1>3, <1>5
<1>13. \A j \in 1 .. Len(q) : /\ q[j].high \in highs /\ q[j].high <= bar.high
                              /\ q[j].low \in lows /\ bar.low <= q[j].low
  <2>1. \A j \in 1 .. Len(q) : q[j] \in Range(q)
    BY <1>1 DEF Range
  <2>2. \A j \in 1 .. Len(q) : q[j].high \in highs /\ q[j].low \in lows
    BY <2>1
  <2> HIDE DEF highs, lows
  <2> QED
    BY <1>8, <2>2
<1>14. \A j \in 1 .. Len(q) :
           /\ \E n \in Range(q[j].ticks) : q[j].high = price[n]
           /\ \E n \in Range(q[j].ticks) : q[j].low = price[n]
           /\ \A n \in Range(q[j].ticks) : q[j].low <= price[n] /\ price[n] <= q[j].high
  BY DEF Summary
<1>15. \A n \in Range(s) : n \in 1 .. N /\ price[n] \in Int
  <2>1. Range(s) \in SUBSET T
    BY <1>5, RangeType
  <2> QED
    BY <2>1
<1>16. ASSUME NEW n \in Range(s)
       PROVE  bar.low <= price[n] /\ price[n] <= bar.high
  <2>1. PICK j \in 1 .. Len(q) : n \in Range(q[j].ticks)
    BY <1>12
  <2>2. /\ q[j].low <= price[n] /\ price[n] <= q[j].high
        /\ q[j].high <= bar.high /\ bar.low <= q[j].low
    BY <1>13, <1>14, <2>1
  <2>3. price[n] \in Int /\ q[j].low \in Int /\ q[j].high \in Int
    BY <1>2, <1>15
  <2> QED
    BY <1>10, <2>2, <2>3
<1>17. \E n \in Range(s) : bar.high = price[n]
  <2>1. PICK j \in 1 .. Len(q) : bar.high = q[j].high
    BY <1>1, <1>8 DEF Range
  <2> QED
    BY <1>12, <1>14, <2>1
<1>18. \E n \in Range(s) : bar.low = price[n]
  <2>1. PICK j \in 1 .. Len(q) : bar.low = q[j].low
    BY <1>1, <1>8 DEF Range
  <2> QED
    BY <1>12, <1>14, <2>1
<1>19. bar.open = price[s[1]] /\ bar.close = price[s[Len(s)]]
  <2>1. q[1].open = price[q[1].ticks[1]]
    BY <1>1 DEF Summary
  <2>2. q[Len(q)].close = price[q[Len(q)].ticks[Len(q[Len(q)].ticks)]]
    BY <1>1 DEF Summary
  <2>3. s[1] = q[1].ticks[1] /\ s[Len(s)] = q[Len(q)].ticks[Len(q[Len(q)].ticks)]
    BY <1>1, <1>3, <1>5
  <2> QED
    BY <1>9, <2>1, <2>2, <2>3
<1>20. Summary(bar, N, price, count)
  BY <1>5, <1>6, <1>9, <1>16, <1>17, <1>18, <1>19 DEF Summary
<1> QED
  BY <1>11, <1>20 DEF bar

-----------------------------------------------------------------------------
(* The bars of a timeframe.                                                *)

\* What a timeframe has, the bars being in B.
Rows(B) == [buffer : Seq(B), appended : Seq(B)]

\* The bars that are summaries; a window of them is one.
Bars(N, price, count) == {bar \in BarRow : Summary(bar, N, price, count)}

Closed(B) == \A q \in Seq(B) : q # <<>> => WindowBar(q) \in B

LEMMA SummariesClosed ==
    ASSUME NEW N \in Nat, NEW price \in [1 .. N -> Int], NEW count \in [1 .. N -> Int]
    PROVE  Closed(Bars(N, price, count))
<1> DEFINE B == Bars(N, price, count)
<1>1. SUFFICES ASSUME NEW q \in Seq(B), q # <<>>
               PROVE  WindowBar(q) \in B
  BY DEF Closed
<1>2. B \in SUBSET BarRow
  BY DEF Bars
<1>3. q \in Seq(BarRow) /\ \A i \in 1 .. Len(q) : q[i] \in B
  <2> HIDE DEF B
  <2> QED
    BY <1>2
<1>4. \A i \in 1 .. Len(q) : Summary(q[i], N, price, count)
  BY <1>3 DEF Bars
<1>5. WindowBar(q) \in BarRow /\ Summary(WindowBar(q), N, price, count)
  BY <1>1, <1>3, <1>4, SummaryOfWindow
<1> QED
  BY <1>5 DEF Bars

LEMMA FedType ==
    ASSUME NEW B, Closed(B), NEW tf, NEW s \in Rows(B), NEW bar \in B
    PROVE  Fed(tf, s, bar) \in Rows(B)
<1> DEFINE full == Append(s.buffer, bar)
<1>1. /\ s = [buffer |-> s.buffer, appended |-> s.appended]
      /\ s.buffer \in Seq(B) /\ s.appended \in Seq(B)
  BY DEF Rows
<1>2. full \in Seq(B) /\ full # <<>> /\ Append(s.appended, bar) \in Seq(B)
  BY <1>1
<1>3. WindowBar(full) \in B
  <2> HIDE DEF full
  <2> QED
    BY <1>2 DEF Closed
<1> HIDE DEF full
<1>4. Append(s.appended, WindowBar(full)) \in Seq(B)
  BY <1>1, <1>3
<1>5. [s EXCEPT !.appended = Append(@, bar)] \in Rows(B)
  BY <1>1, <1>2 DEF Rows
<1>6. [s EXCEPT !.buffer = full] \in Rows(B)
  BY <1>1, <1>2 DEF Rows
<1>7. [buffer |-> <<>>, appended |-> Append(s.appended, WindowBar(full))] \in Rows(B)
  BY <1>4 DEF Rows
<1> QED
  BY <1>5, <1>6, <1>7 DEF Fed, WindowUpdate, full

\* f has what timeframe tf has after each of the bars.
Feeds(f, B, tf, bars) ==
    /\ f \in [0 .. Len(bars) -> Rows(B)]
    /\ f[0] = [buffer |-> buffer[tf], appended |-> appended[tf]]
    /\ \A i \in 1 .. Len(bars) : f[i] = Fed(tf, f[i - 1], bars[i])

LEMMA FeedingIs ==
    ASSUME NEW B, Closed(B), NEW tf, buffer[tf] \in Seq(B), appended[tf] \in Seq(B),
           NEW bars \in Seq(B)
    PROVE  Feeds(Feeding(tf, bars), B, tf, bars)
<1> DEFINE n == Len(bars)
           S == Rows(B)
           first == [buffer |-> buffer[tf], appended |-> appended[tf]]
           h == [i \in 1 .. n |-> [s \in S |-> Fed(tf, s, bars[i])]]
           Defines(g) == g = [i \in 0 .. n |-> IF i = 0 THEN first
                                              ELSE Fed(tf, g[i - 1], bars[i])]
           g == CHOOSE x : Defines(x)
<1>1. n \in Nat /\ first \in S /\ \A i \in 1 .. n : bars[i] \in B
  BY DEF Rows
<1>2. h \in [1 .. n -> [S -> S]]
  <2>1. \A i \in 1 .. n, s \in S : Fed(tf, s, bars[i]) \in S
    BY <1>1, FedType
  <2> HIDE DEF n, S
  <2> QED
    BY <2>1
<1>3. \A i \in 1 .. n, s \in S : h[i][s] = Fed(tf, s, bars[i])
  OBVIOUS
<1> HIDE DEF n, S, first, h
<1>4. PICK f : Iterates(f, n, S, first, h)
  BY <1>1, <1>2, RecursionExists, Zenon
<1>5. /\ f \in [0 .. n -> S] /\ f[0] = first
      /\ \A i \in 1 .. n : f[i] = Fed(tf, f[i - 1], bars[i])
  <2>1. f \in [0 .. n -> S] /\ f[0] = first /\ \A i \in 1 .. n : f[i] = h[i][f[i - 1]]
    BY <1>4 DEF Iterates
  <2>2. \A i \in 1 .. n : f[i - 1] \in S
    <3>1. \A i \in 1 .. n : i - 1 \in 0 .. n
      BY <1>1
    <3> QED
      BY <2>1, <3>1
  <2> QED
    BY <1>3, <2>1, <2>2
<1>6. Defines(f)
  <2>1. \A i \in 0 .. n : i # 0 => i \in 1 .. n
    BY <1>1
  <2>2. \A i \in 0 .. n : f[i] = IF i = 0 THEN first ELSE Fed(tf, f[i - 1], bars[i])
    BY <1>5, <2>1
  <2>3. f = [i \in 0 .. n |-> f[i]]
    BY <1>5
  <2> QED
    BY <2>2, <2>3
<1>7. Defines(g)
  <2> HIDE DEF Defines
  <2> QED
    BY <1>6
<1>8. Feeding(tf, bars) = g
  BY DEF Feeding, n, first
<1>9. g \in [0 .. n -> S] /\ g = f
  <2>1. /\ g[0] = first
        /\ \A i \in 1 .. n : g[i] = Fed(tf, g[i - 1], bars[i])
        /\ g = [i \in 0 .. n |-> g[i]]
    <3>1. g = [i \in 0 .. n |-> IF i = 0 THEN first ELSE Fed(tf, g[i - 1], bars[i])]
      BY <1>7
    <3>2. 0 \in 0 .. n /\ \A i \in 1 .. n : i \in 0 .. n /\ i # 0
      BY <1>1
    <3> HIDE DEF g
    <3> QED
      BY <3>1, <3>2, Zenon
  <2> HIDE DEF g
  <2> DEFINE P == {i \in 0 .. n : g[i] = f[i]}
  <2>2. 0 \in P
    BY <1>1, <1>5, <2>1
  <2>3. ASSUME NEW i \in 1 .. n, i - 1 \in P
        PROVE  i \in P
    <3>1. g[i - 1] = f[i - 1] /\ i \in 0 .. n
      BY <2>3
    <3>2. g[i] = f[i]
      BY <1>5, <2>1, <3>1
    <3> QED
      BY <3>1, <3>2
  <2>4. \A i \in 0 .. n : i \in P
    <3> HIDE DEF P
    <3> QED
      BY <1>1, <2>2, <2>3, Reaches
  <2>5. \A i \in 0 .. n : g[i] = f[i]
    BY <2>4
  <2> QED
    BY <1>5, <2>1, <2>5
<1> QED
  BY <1>5, <1>8, <1>9 DEF Feeds, n, S, first

\* The ticks of the w bars of c from the i-th on.
Stretch(c, i, w) == FlattenSeq([j \in 1 .. w |-> c[i + j - 1].ticks])

\* The bars of a stand for stretches of w of the first n bars of c, one after the
\* other: the m-th begins at at[m], and b bars are left over at the end.  With
\* "on", they and the b last bars cover everything behind "from".
Placed(at, a, b, w, on, from, c, n) ==
    /\ at \in [1 .. Len(a) -> 1 .. n]
    /\ \A m \in 1 .. Len(a) : at[m] + w <= n - b + 1 /\ a[m].ticks = Stretch(c, at[m], w)
    /\ \A m \in 1 .. Len(a) - 1 : at[m] + w <= at[m + 1]
    /\ on => \A i \in from + 1 .. n - b : \E m \in 1 .. Len(a) : at[m] <= i /\ i < at[m] + w

Windowed(w, on, from, s, c, n) ==
    /\ Len(s.buffer) < w /\ Len(s.buffer) <= n
    /\ ~on => s.buffer = <<>>
    /\ \A j \in 1 .. Len(s.buffer) : s.buffer[j] = c[n - Len(s.buffer) + j]
    /\ \E at : Placed(at, s.appended, Len(s.buffer), w, on, from, c, n)

\* Another bar waits, or the timeframe is off or begins anew.
LEMMA PlacedOn ==
    ASSUME NEW at, NEW a, NEW T, a \in Seq(T), NEW b \in Nat, NEW d \in Nat, NEW w \in Nat,
           NEW n \in Nat, NEW m \in Nat, NEW on, NEW from \in Nat, NEW on2, NEW from2 \in Nat,
           NEW c, Placed(at, a, b, w, on, from, c, n), n <= m, n - b <= m - d,
           on2 => m - d <= from2 \/ (on /\ from2 = from /\ n - b = m - d)
    PROVE  Placed(at, a, d, w, on2, from2, c, m)
<1>1. /\ at \in [1 .. Len(a) -> 1 .. n] /\ Len(a) \in Nat
      /\ \A i \in 1 .. Len(a) : at[i] + w <= n - b + 1 /\ a[i].ticks = Stretch(c, at[i], w)
      /\ \A i \in 1 .. Len(a) - 1 : at[i] + w <= at[i + 1]
      /\ on => \A i \in from + 1 .. n - b : \E k \in 1 .. Len(a) : at[k] <= i /\ i < at[k] + w
  <2>1. Len(a) \in Nat
    OBVIOUS
  <2> QED
    BY <2>1 DEF Placed
<1>2. at \in [1 .. Len(a) -> 1 .. m]
  <2>1. \A i \in 1 .. Len(a) : at[i] \in 1 .. n
    BY <1>1
  <2>2. \A x \in 1 .. n : x \in 1 .. m
    OBVIOUS
  <2> QED
    BY <1>1, <2>1, <2>2
<1>3. \A i \in 1 .. Len(a) : at[i] + w <= m - d + 1
  <2>1. \A x \in Int : x <= n - b + 1 => x <= m - d + 1
    OBVIOUS
  <2>2. \A i \in 1 .. Len(a) : at[i] + w \in Int
    BY <1>2
  <2> QED
    BY <1>1, <2>1, <2>2
<1>4. ASSUME on2, NEW i \in from2 + 1 .. m - d
      PROVE  \E k \in 1 .. Len(a) : at[k] <= i /\ i < at[k] + w
  <2>1. ~ (m - d <= from2)
    OBVIOUS
  <2>2. on /\ i \in from + 1 .. n - b
    BY <1>4, <2>1
  <2> QED
    BY <1>1, <2>2
<1> QED
  BY <1>1, <1>2, <1>3, <1>4 DEF Placed

\* A bar that stands for all that was left over and the next one is appended.
LEMMA PlacedFull ==
    ASSUME NEW at, NEW a, NEW T, a \in Seq(T), NEW b \in Nat, NEW n \in Nat, b <= n,
           NEW on, NEW from \in Nat, NEW c, Placed(at, a, b, b + 1, on, from, c, n),
           NEW bar \in T, bar.ticks = Stretch(c, n - b + 1, b + 1)
    PROVE  \E to : Placed(to, Append(a, bar), 0, b + 1, on, from, c, n + 1)
<1> DEFINE w == b + 1
           l == Len(a)
           e == Append(a, bar)
           to == [m \in 1 .. l + 1 |-> IF m <= l THEN at[m] ELSE n - b + 1]
<1>1. /\ at \in [1 .. l -> 1 .. n] /\ l \in Nat
      /\ \A i \in 1 .. l : at[i] + w <= n - b + 1 /\ a[i].ticks = Stretch(c, at[i], w)
      /\ \A i \in 1 .. l - 1 : at[i] + w <= at[i + 1]
      /\ on => \A i \in from + 1 .. n - b : \E k \in 1 .. l : at[k] <= i /\ i < at[k] + w
  BY DEF Placed
<1>2. /\ Len(e) = l + 1 /\ e[l + 1] = bar
      /\ \A i \in 1 .. l : e[i] = a[i]
  BY AppendProperties
<1>3. /\ l + 1 \in 1 .. l + 1 /\ ~ (l + 1 <= l)
      /\ \A i \in 1 .. l + 1 : i \in 1 .. l \/ i = l + 1
      /\ \A i \in 1 .. l : i \in 1 .. l + 1 /\ i <= l
  BY <1>1
<1>4. to[l + 1] = n - b + 1 /\ \A i \in 1 .. l : to[i] = at[i]
  <2> HIDE DEF l
  <2> QED
    BY <1>3
<1>5. to \in [1 .. l + 1 -> 1 .. n + 1]
  <2>1. \A i \in 1 .. l : at[i] \in 1 .. n + 1
    <3>1. \A x \in 1 .. n : x \in 1 .. n + 1
      OBVIOUS
    <3> QED
      BY <1>1, <3>1
  <2>2. n - b + 1 \in 1 .. n + 1
    OBVIOUS
  <2> HIDE DEF l
  <2>3. \A i \in 1 .. l + 1 : (IF i <= l THEN at[i] ELSE n - b + 1) \in 1 .. n + 1
    BY <1>3, <2>1, <2>2
  <2> QED
    BY <2>3
<1>6. w = b + 1 /\ l = Len(a)
  OBVIOUS
<1> HIDE DEF to, l, e, w
<1>7. \A i \in 1 .. l + 1 : to[i] + w <= n + 1 - 0 + 1 /\ e[i].ticks = Stretch(c, to[i], w)
  <2>1. (n - b + 1) + w <= n + 1 - 0 + 1
    BY <1>6
  <2>2. \A x \in Int : x <= n - b + 1 => x <= n + 1 - 0 + 1
    OBVIOUS
  <2>3. \A i \in 1 .. l : at[i] + w \in Int
    <3>1. \A i \in 1 .. l : at[i] \in 1 .. n
      BY <1>1
    <3>2. \A x \in 1 .. n : x + w \in Int
      BY <1>6
    <3> QED
      BY <3>1, <3>2
  <2>4. \A i \in 1 .. l : to[i] + w <= n + 1 - 0 + 1 /\ e[i].ticks = Stretch(c, to[i], w)
    BY <1>1, <1>2, <1>4, <2>2, <2>3
  <2>5. to[l + 1] + w <= n + 1 - 0 + 1 /\ e[l + 1].ticks = Stretch(c, to[l + 1], w)
    BY <1>2, <1>4, <1>6, <2>1
  <2> QED
    BY <1>3, <2>4, <2>5
<1>8. \A i \in 1 .. l : to[i] + w <= to[i + 1]
  <2> SUFFICES ASSUME NEW i \in 1 .. l PROVE to[i] + w <= to[i + 1]
    OBVIOUS
  <2>1. CASE i = l
    BY <1>1, <1>4, <2>1
  <2>2. CASE i # l
    <3>1. i \in 1 .. l - 1 /\ i + 1 \in 1 .. l
      BY <1>1, <2>2
    <3> QED
      BY <1>1, <1>4, <3>1
  <2> QED
    BY <2>1, <2>2
<1>9. ASSUME on, NEW i \in from + 1 .. n + 1 - 0
      PROVE  \E k \in 1 .. l + 1 : to[k] <= i /\ i < to[k] + w
  <2>1. CASE i <= n - b
    <3>1. i \in from + 1 .. n - b
      BY <2>1
    <3>2. PICK k \in 1 .. l : at[k] <= i /\ i < at[k] + w
      BY <1>1, <1>9, <3>1
    <3> QED
      BY <1>3, <1>4, <3>2
  <2>2. CASE ~ (i <= n - b)
    <3>1. n - b + 1 <= i /\ i < (n - b + 1) + w
      BY <1>6, <2>2
    <3> QED
      BY <1>3, <1>4, <3>1
  <2> QED
    BY <2>1, <2>2
<1>10. (l + 1) - 1 = l
  BY <1>1
<1>11. Placed(to, e, 0, w, on, from, c, n + 1)
  <2>1. to \in [1 .. Len(e) -> 1 .. n + 1]
    BY <1>2, <1>5
  <2>2. \A i \in 1 .. Len(e) : to[i] + w <= n + 1 - 0 + 1 /\ e[i].ticks = Stretch(c, to[i], w)
    BY <1>2, <1>7
  <2>3. \A i \in 1 .. Len(e) - 1 : to[i] + w <= to[i + 1]
    BY <1>2, <1>8, <1>10
  <2>4. on => \A i \in from + 1 .. n + 1 - 0 :
                  \E k \in 1 .. Len(e) : to[k] <= i /\ i < to[k] + w
    BY <1>2, <1>9
  <2> QED
    BY <2>1, <2>2, <2>3, <2>4 DEF Placed
<1> QED
  BY <1>11 DEF e, w

LEMMA FlattenOne ==
    ASSUME NEW T, NEW s \in Seq(T)
    PROVE  FlattenSeq(<<s>>) = s
<1> DEFINE q == <<s>>
<1>1. q \in Seq(Seq(T)) /\ q # <<>> /\ Len(q) = 1 /\ q[1] = s
  OBVIOUS
<1> HIDE DEF q
<1>2. PICK f : Joins(f, q, T) /\ FlattenSeq(q) = f[Len(q)]
  BY <1>1, FlattenIs
<1>3. 1 \in 1 .. Len(q) /\ 1 - 1 = 0
  BY <1>1
<1>4. f[1] = f[1 - 1] \o q[1] /\ f[0] = <<>>
  BY <1>2, <1>3 DEF Joins
<1>5. f[1] = <<>> \o s
  BY <1>1, <1>3, <1>4
<1>6. <<>> \o s = s
  OBVIOUS
<1> QED
  BY <1>1, <1>2, <1>5, <1>6 DEF q

\* Where a window stands depends on the bars up to n only.
LEMMA PlacedMoved ==
    ASSUME NEW at, NEW a, NEW T, a \in Seq(T), NEW b \in Nat, NEW w \in Nat, NEW n \in Nat,
           NEW on, NEW from \in Nat, NEW c, Placed(at, a, b, w, on, from, c, n),
           NEW d, \A i \in 1 .. n : d[i] = c[i]
    PROVE  Placed(at, a, b, w, on, from, d, n)
<1>1. /\ at \in [1 .. Len(a) -> 1 .. n]
      /\ \A i \in 1 .. Len(a) : at[i] + w <= n - b + 1 /\ a[i].ticks = Stretch(c, at[i], w)
  BY DEF Placed
<1>2. ASSUME NEW i \in 1 .. Len(a)
      PROVE  Stretch(d, at[i], w) = Stretch(c, at[i], w)
  <2>1. PICK x : x = at[i]
    OBVIOUS
  <2>2. x \in 1 .. n /\ x + w <= n - b + 1
    BY <1>1, <2>1
  <2>3. \A j \in 1 .. w : x + j - 1 \in 1 .. n
    BY <2>2
  <2>4. [j \in 1 .. w |-> d[x + j - 1].ticks] = [j \in 1 .. w |-> c[x + j - 1].ticks]
    BY <2>3
  <2>5. Stretch(d, x, w) = Stretch(c, x, w)
    BY <2>4 DEF Stretch
  <2> QED
    BY <2>1, <2>5
<1>3. \A i \in 1 .. Len(a) : at[i] + w <= n - b + 1 /\ a[i].ticks = Stretch(d, at[i], w)
  BY <1>1, <1>2
<1> QED
  BY <1>3 DEF Placed

LEMMA WindowedMoved ==
    ASSUME NEW B, NEW s \in Rows(B), NEW w \in Nat, NEW n \in Nat,
           NEW on, NEW from \in Nat, NEW c, Windowed(w, on, from, s, c, n),
           NEW d, \A i \in 1 .. n : d[i] = c[i]
    PROVE  Windowed(w, on, from, s, d, n)
<1>1. s.appended \in Seq(B) /\ s.buffer \in Seq(B) /\ Len(s.buffer) \in Nat
  BY DEF Rows
<1>2. /\ Len(s.buffer) < w /\ Len(s.buffer) <= n /\ (~on => s.buffer = <<>>)
      /\ \A j \in 1 .. Len(s.buffer) : s.buffer[j] = c[n - Len(s.buffer) + j]
  BY DEF Windowed
<1>3. PICK at : Placed(at, s.appended, Len(s.buffer), w, on, from, c, n)
  BY DEF Windowed
<1>4. Placed(at, s.appended, Len(s.buffer), w, on, from, d, n)
  BY <1>1, <1>3, PlacedMoved
<1>5. \A j \in 1 .. Len(s.buffer) : n - Len(s.buffer) + j \in 1 .. n
  BY <1>1, <1>2
<1>6. \A j \in 1 .. Len(s.buffer) : s.buffer[j] = d[n - Len(s.buffer) + j]
  BY <1>2, <1>5
<1> QED
  BY <1>2, <1>4, <1>6 DEF Windowed

\* The timeframe is registered, with an empty buffer.
LEMMA WindowedAnew ==
    ASSUME NEW B, NEW s \in Rows(B), NEW w \in Nat \ {0}, NEW n \in Nat,
           NEW on, NEW from \in Nat, NEW c, Windowed(w, on, from, s, c, n)
    PROVE  Windowed(w, TRUE, n, [s EXCEPT !.buffer = <<>>], c, n)
<1> DEFINE r == [s EXCEPT !.buffer = <<>>]
<1>1. /\ s.appended \in Seq(B) /\ s.buffer \in Seq(B) /\ Len(s.buffer) \in Nat
      /\ r.buffer = <<>> /\ r.appended = s.appended
  BY DEF Rows
<1>2. PICK at : Placed(at, s.appended, Len(s.buffer), w, on, from, c, n)
  BY DEF Windowed
<1>3. n - Len(s.buffer) <= n - 0 /\ n - 0 <= n /\ n <= n /\ 0 \in Nat
  BY <1>1
<1>4. Placed(at, s.appended, 0, w, TRUE, n, c, n)
  BY <1>1, <1>2, <1>3, PlacedOn
<1> HIDE DEF r
<1>5. Len(r.buffer) = 0
  BY <1>1
<1>6. Windowed(w, TRUE, n, r, c, n)
  <2>1. \A j \in 1 .. Len(r.buffer) : r.buffer[j] = c[n - Len(r.buffer) + j]
    BY <1>5
  <2>2. \E to : Placed(to, r.appended, Len(r.buffer), w, TRUE, n, c, n)
    BY <1>1, <1>4, <1>5
  <2>3. Len(r.buffer) < w /\ Len(r.buffer) <= n
    BY <1>5
  <2> QED
    BY <2>1, <2>2, <2>3 DEF Windowed
<1> QED
  BY <1>6 DEF r

\* forward_m1_bar keeps the windows in place.
LEMMA WindowedStep ==
    ASSUME NEW B \in SUBSET BarRow, Closed(B), NEW tf \in Timeframes, Window[tf] \in Nat \ {0},
           NEW s \in Rows(B), NEW n \in Nat, NEW c, c[n + 1] \in B, NEW from \in Nat,
           Windowed(Window[tf], tf \in registered, from, s, c, n)
    PROVE  Windowed(Window[tf], tf \in registered, from, Fed(tf, s, c[n + 1]), c, n + 1)
<1> DEFINE w == Window[tf]
           bar == c[n + 1]
           b == Len(s.buffer)
           on == tf \in registered
           full == Append(s.buffer, bar)
           r == Fed(tf, s, bar)
<1>1. /\ s = [buffer |-> s.buffer, appended |-> s.appended]
      /\ s.appended \in Seq(B) /\ s.buffer \in Seq(B) /\ b \in Nat
  BY DEF Rows
<1>2. /\ b < w /\ b <= n /\ (~on => s.buffer = <<>>)
      /\ \A j \in 1 .. b : s.buffer[j] = c[n - b + j]
  BY DEF Windowed
<1>3. PICK at : Placed(at, s.appended, b, w, on, from, c, n)
  BY DEF Windowed
<1>4. /\ full \in Seq(B) /\ full # <<>> /\ Len(full) = b + 1 /\ full[b + 1] = bar
      /\ \A j \in 1 .. b : full[j] = s.buffer[j]
  BY <1>1, AppendProperties
<1>5. \A j \in 1 .. b + 1 : full[j] = c[n - b + j]
  <2> SUFFICES ASSUME NEW j \in 1 .. b + 1 PROVE full[j] = c[n - b + j]
    OBVIOUS
  <2> HIDE DEF full, b
  <2>1. CASE j = b + 1
    <3>1. n - b + j = n + 1
      BY <1>1, <2>1
    <3> QED
      BY <1>4, <2>1, <3>1
  <2>2. CASE j # b + 1
    <3>1. j \in 1 .. b
      BY <1>1, <2>2
    <3> QED
      BY <1>2, <1>4, <3>1
  <2> QED
    BY <2>1, <2>2
<1>6. w \in Nat \ {0} /\ bar \in B
  OBVIOUS
<1>7. r = IF ~on THEN s
          ELSE IF w = 1 THEN [s EXCEPT !.appended = Append(@, bar)]
          ELSE IF Len(full) < w THEN [s EXCEPT !.buffer = full]
          ELSE [buffer |-> <<>>, appended |-> Append(s.appended, WindowBar(full))]
  BY DEF Fed, WindowUpdate
<1> HIDE DEF w, bar, on, full, r
<1>8. CASE ~on
  <2>1. r = s /\ s.buffer = <<>> /\ b = 0
    BY <1>2, <1>7, <1>8
  <2>2. Placed(at, s.appended, b, w, on, from, c, n + 1)
    <3>1. n <= n + 1 /\ n - b <= (n + 1) - b /\ n + 1 \in Nat
      BY <1>1
    <3> HIDE DEF b
    <3> QED
      BY <1>1, <1>3, <1>6, <1>8, <3>1, PlacedOn
  <2>3. b < w /\ b <= n + 1 /\ \A j \in 1 .. b : s.buffer[j] = c[(n + 1) - b + j]
    BY <1>2, <2>1
  <2>4. Windowed(w, on, from, s, c, n + 1)
    BY <2>1, <2>2, <2>3 DEF Windowed
  <2> QED
    BY <2>1, <2>4 DEF w, on, r, bar
<1> DEFINE Waiting(v, k) == /\ Len(v) < w /\ Len(v) <= k
                            /\ \A j \in 1 .. Len(v) : v[j] = c[k - Len(v) + j]
<1>9. ASSUME on, NEW v, Waiting(v, n + 1), NEW a,
             \E to : Placed(to, a, Len(v), w, on, from, c, n + 1),
             r = [buffer |-> v, appended |-> a]
      PROVE  Windowed(w, on, from, r, c, n + 1)
  <2>1. r.buffer = v /\ r.appended = a
    BY <1>9
  <2> QED
    BY <1>9, <2>1 DEF Windowed
<1>10. Waiting(<<>>, n + 1) /\ Len(<<>>) = 0
  BY <1>6
<1>11. CASE on /\ w = 1
  <2>1. b = 0 /\ s.buffer = <<>>
    BY <1>1, <1>2, <1>11
  <2>2. r = [buffer |-> <<>>, appended |-> Append(s.appended, bar)]
    BY <1>1, <1>7, <1>11, <2>1
  <2>3. bar.ticks = Stretch(c, n - 0 + 1, 0 + 1)
    <3>1. [j \in 1 .. 1 |-> c[n - 0 + 1 + j - 1].ticks] = <<bar.ticks>>
      BY DEF bar
    <3>2. 0 + 1 = 1
      OBVIOUS
    <3>3. FlattenSeq(<<bar.ticks>>) = bar.ticks
      <4>1. bar \in BarRow
        BY <1>6
      <4>2. bar.ticks \in Seq(Nat)
        BY <4>1 DEF BarRow
      <4> QED
        BY <4>2, FlattenOne
    <3> QED
      BY <3>1, <3>2, <3>3 DEF Stretch
  <2>4. \E to : Placed(to, Append(s.appended, bar), 0, 0 + 1, on, from, c, n + 1)
    <3>1. Placed(at, s.appended, 0, 0 + 1, on, from, c, n)
      <4>1. 0 + 1 = w
        BY <1>11
      <4> HIDE DEF b
      <4> QED
        BY <1>3, <2>1, <4>1
    <3>2. 0 <= n /\ 0 \in Nat
      OBVIOUS
    <3> QED
      BY <1>1, <1>6, <2>3, <3>1, <3>2, PlacedFull
  <2>5. \E to : Placed(to, Append(s.appended, bar), Len(<<>>), w, on, from, c, n + 1)
    <3>1. 0 + 1 = w /\ Len(<<>>) = 0
      BY <1>11
    <3> QED
      BY <2>4, <3>1
  <2>6. Windowed(w, on, from, r, c, n + 1)
    <3> HIDE DEF Waiting
    <3> QED
      BY <1>9, <1>10, <1>11, <2>2, <2>5
  <2> QED
    BY <2>6 DEF w, on, r, bar
<1>12. CASE on /\ w # 1 /\ Len(full) < w
  <2>1. r = [buffer |-> full, appended |-> s.appended]
    BY <1>1, <1>7, <1>12
  <2>2. Waiting(full, n + 1)
    <3>1. \A j \in 1 .. b + 1 : (n + 1) - (b + 1) + j = n - b + j
      BY <1>1
    <3>2. \A j \in 1 .. b + 1 : full[j] = c[(n + 1) - (b + 1) + j]
      BY <1>5, <3>1
    <3>3. Len(full) <= n + 1
      BY <1>1, <1>2, <1>4
    <3> HIDE DEF b
    <3> QED
      BY <1>4, <1>12, <3>2, <3>3
  <2>3. Placed(at, s.appended, b + 1, w, on, from, c, n + 1)
    <3>1. /\ n <= n + 1 /\ n - b <= (n + 1) - (b + 1) /\ n + 1 \in Nat /\ b + 1 \in Nat
          /\ n - b = (n + 1) - (b + 1)
      BY <1>1
    <3> HIDE DEF b
    <3> QED
      BY <1>1, <1>3, <1>6, <1>12, <3>1, PlacedOn
  <2>4. \E to : Placed(to, s.appended, Len(full), w, on, from, c, n + 1)
    BY <1>4, <2>3
  <2>5. Windowed(w, on, from, r, c, n + 1)
    <3> HIDE DEF Waiting
    <3> QED
      BY <1>9, <1>12, <2>1, <2>2, <2>4
  <2> QED
    BY <2>5 DEF w, on, r, bar
<1>13. CASE on /\ w # 1 /\ ~ (Len(full) < w)
  <2> DEFINE new == WindowBar(full)
  <2>1. r = [buffer |-> <<>>, appended |-> Append(s.appended, new)]
    BY <1>7, <1>13
  <2>2. w = b + 1
    BY <1>1, <1>2, <1>4, <1>6, <1>13
  <2>3. new \in B
    BY <1>4 DEF Closed
  <2>4. new.ticks = Stretch(c, n - b + 1, b + 1)
    <3>1. DOMAIN full = 1 .. b + 1
      BY <1>4
    <3>2. \A j \in 1 .. b + 1 : full[j] = c[(n - b + 1) + j - 1]
      <4>1. \A j \in 1 .. b + 1 : (n - b + 1) + j - 1 = n - b + j
        BY <1>1
      <4> HIDE DEF b
      <4> QED
        BY <1>5, <4>1
    <3>3. [j \in DOMAIN full |-> full[j].ticks]
              = [j \in 1 .. b + 1 |-> c[(n - b + 1) + j - 1].ticks]
      <4> HIDE DEF b
      <4> QED
        BY <3>1, <3>2
    <3>4. new.ticks = FlattenSeq([j \in DOMAIN full |-> full[j].ticks])
      BY DEF WindowBar
    <3> HIDE DEF b
    <3> QED
      BY <3>3, <3>4 DEF Stretch
  <2> HIDE DEF new
  <2>5. \E to : Placed(to, Append(s.appended, new), 0, b + 1, on, from, c, n + 1)
    <3>1. Placed(at, s.appended, b, b + 1, on, from, c, n)
      BY <1>3, <2>2
    <3> HIDE DEF b
    <3> QED
      BY <1>1, <1>2, <2>3, <2>4, <3>1, PlacedFull
  <2>6. \E to : Placed(to, Append(s.appended, new), Len(<<>>), w, on, from, c, n + 1)
    <3> HIDE DEF b
    <3> QED
      BY <1>10, <2>2, <2>5
  <2>7. Windowed(w, on, from, r, c, n + 1)
    <3> HIDE DEF Waiting
    <3> QED
      BY <1>9, <1>10, <1>13, <2>1, <2>6
  <2> QED
    BY <2>7 DEF w, on, r, bar
<1> QED
  BY <1>8, <1>11, <1>12, <1>13

-----------------------------------------------------------------------------
(* The invariant.                                                          *)

Price == [n \in 1 .. Len(ticks) |-> ticks[n].price]
Amount == [n \in 1 .. Len(ticks) |-> Counted(n)]

\* The bars that are summaries of ticks so far.
Good == Bars(Len(ticks), Price, Amount)

\* All bars are, and so were those that are in longer bars now.
BarsInv ==
    /\ registered \in SUBSET Timeframes
    /\ ticks \in Seq(TickRow) /\ (ticks # <<>> => ~ticks[1].late)
    /\ lastVolume \in [Instruments -> Int]
    /\ current \in [Instruments -> Good \cup {NoBar}]
    /\ IsFiniteSet({k \in Instruments : current[k] # NoBar})
    /\ buffer \in [Timeframes -> Seq(Good)] /\ appended \in [Timeframes -> Seq(Good)]
    /\ completed \in Seq(Good) /\ since \in [Timeframes -> Nat]

\* No two one-minute bars begin with the same tick.
FirstsInv ==
    /\ \A i, j \in 1 .. Len(completed) :
           completed[i].ticks[1] = completed[j].ticks[1] => i = j
    /\ \A k \in Instruments : current[k] # NoBar =>
           /\ ticks[current[k].ticks[1]].by = k
           /\ \A i \in 1 .. Len(completed) : completed[i].ticks[1] # current[k].ticks[1]

Row(tf) == [buffer |-> buffer[tf], appended |-> appended[tf]]

WindowsInv ==
    \A tf \in Timeframes :
        Windowed(Window[tf], tf \in registered, since[tf], Row(tf), completed, Len(completed))

ReceiverInv == TicksInv /\ BarsInv /\ FirstsInv /\ WindowsInv

LEMMA PriceAmountType ==
    ASSUME ticks \in Seq(TickRow)
    PROVE  /\ Len(ticks) \in Nat
           /\ Price \in [1 .. Len(ticks) -> Int] /\ Amount \in [1 .. Len(ticks) -> Int]
<1>1. Len(ticks) \in Nat /\ \A n \in 1 .. Len(ticks) : ticks[n] \in TickRow
  OBVIOUS
<1>2. \A n \in 1 .. Len(ticks) : ticks[n].price \in Int /\ ticks[n].volume \in Nat
  BY <1>1, ReceiverAssumption DEF TickRow
<1>3. ASSUME NEW n \in 1 .. Len(ticks)
      PROVE  Counted(n) \in Int
  <2>1. n \in 1 .. Coming
    BY <1>1 DEF Coming
  <2>2. PICK p : p = LatestTick(ticks[n].by, n)
    OBVIOUS
  <2>3. p \in 0 .. n - 1
    BY <2>1, <2>2, LatestTicks DEF IsLatest
  <2>4. p # 0 => ticks[p].volume \in Nat
    BY <1>1, <1>2, <2>3
  <2>5. Counted(n) = IF p # 0 /\ ticks[n].volume >= ticks[p].volume
                     THEN ticks[n].volume - ticks[p].volume ELSE 0
    BY <2>2 DEF Counted
  <2>6. ticks[n].volume \in Nat
    BY <1>2
  <2> QED
    BY <2>4, <2>5, <2>6
<1>4. Price \in [1 .. Len(ticks) -> Int]
  BY <1>2 DEF Price
<1>5. Amount \in [1 .. Len(ticks) -> Int]
  BY <1>3 DEF Amount
<1> QED
  BY <1>1, <1>4, <1>5

LEMMA GoodClosed ==
    ASSUME ticks \in Seq(TickRow)
    PROVE  Good \in SUBSET BarRow /\ Closed(Good)
<1>1. Closed(Good)
  BY PriceAmountType, SummariesClosed DEF Good
<1> QED
  BY <1>1 DEF Good, Bars

\* What a tick adds to its bar is what Counted says of it.
LEMMA NewCounted ==
    ASSUME ticks \in Seq(TickRow), TicksInv, NEW t \in TickRow,
           ticks' = Append(ticks, t), NEW n, n = Coming
    PROVE  Counted(n)' = Delta(t.by, t.volume)
<1>1. PICK k : k = t.by
  OBVIOUS
<1>2. k \in Instruments /\ t.volume \in Nat
  BY <1>1 DEF TickRow
<1> DEFINE p == LatestTick(k, n)
<1>3. /\ ticks'[n] = t /\ LatestTick(k, n)' = p
      /\ \A m \in 1 .. Len(ticks) : ticks'[m] = ticks[m]
  <2>1. n \in 1 .. Coming
    BY DEF Coming
  <2> QED
    BY <2>1, TickAppended
<1>4. SessionOf(k, p, LatestOnTime(k, n))
  BY <1>2, SessionFacts
<1> HIDE DEF p
<1>5. /\ p \in 0 .. Len(ticks)
      /\ p = 0 => lastVolume[k] = Unknown
      /\ p # 0 => lastVolume[k] = ticks[p].volume /\ lastVolume[k] # Unknown
  BY <1>4 DEF SessionOf
<1>6. Counted(n)' = IF p # 0 /\ t.volume >= ticks'[p].volume
                    THEN t.volume - ticks'[p].volume ELSE 0
  BY <1>1, <1>3 DEF Counted
<1>7. p # 0 => ticks'[p].volume = ticks[p].volume
  BY <1>3, <1>5
<1>8. Delta(t.by, t.volume) = IF lastVolume[k] # Unknown /\ t.volume >= lastVolume[k]
                              THEN t.volume - lastVolume[k] ELSE 0
  BY <1>1 DEF Delta
<1>9. CASE p = 0
  BY <1>5, <1>6, <1>8, <1>9
<1>10. CASE p # 0
  BY <1>5, <1>6, <1>7, <1>8, <1>10
<1> QED
  BY <1>9, <1>10

\* With a new tick the summaries stay summaries.
LEMMA GoodGrows ==
    ASSUME ticks \in Seq(TickRow), TicksInv, NEW t \in TickRow, ticks' = Append(ticks, t)
    PROVE  Good \in SUBSET Good'
<1> DEFINE N == Len(ticks)
           M == Len(ticks')
<1>1. /\ N \in Nat /\ Price \in [1 .. N -> Int] /\ Amount \in [1 .. N -> Int]
  BY PriceAmountType
<1>2. M = N + 1 /\ \A n \in 1 .. N : n \in 1 .. M /\ ticks'[n] = ticks[n]
  <2>1. Len(ticks') = Coming /\ \A n \in 1 .. Len(ticks) : ticks'[n] = ticks[n]
    BY TickAppended
  <2> QED
    BY <1>1, <2>1 DEF Coming
<1>3. \A n \in 1 .. N : Counted(n)' = Counted(n)
  BY OldTicksAccounted
<1>4. \A n \in 1 .. N : Price'[n] = Price[n] /\ Amount'[n] = Amount[n]
  <2>1. Price' = [n \in 1 .. M |-> ticks'[n].price] /\ Amount' = [n \in 1 .. M |-> Counted(n)']
    BY DEF Price, Amount
  <2>2. \A n \in 1 .. N : Price[n] = ticks[n].price /\ Amount[n] = Counted(n)
    BY DEF Price, Amount
  <2> HIDE DEF N, M
  <2>3. \A n \in 1 .. N : Price'[n] = ticks'[n].price /\ Amount'[n] = Counted(n)'
    BY <1>2, <2>1
  <2> QED
    BY <1>2, <1>3, <2>2, <2>3
<1> HIDE DEF N, M
<1>5. ASSUME NEW bar \in Good
      PROVE  bar \in Good'
  <2>1. bar \in BarRow /\ Summary(bar, N, Price, Amount)
    BY DEF Good, Bars, N
  <2>2. N <= M /\ M \in Nat
    BY <1>1, <1>2
  <2>3. PICK p, c, q, d : p = Price /\ c = Amount /\ q = Price' /\ d = Amount'
    OBVIOUS
  <2>4. Summary(bar, N, p, c) /\ \A n \in 1 .. N : q[n] = p[n] /\ d[n] = c[n]
    BY <1>4, <2>1, <2>3
  <2>5. Summary(bar, M, q, d)
    BY <1>1, <2>2, <2>4, SummaryKept
  <2>6. Good' = Bars(M, q, d)
    BY <2>3 DEF Good, M
  <2> QED
    BY <2>1, <2>5, <2>6 DEF Bars
<1> QED
  BY <1>5

\* forward_m1_bar for some bars keeps the windows in place.
LEMMA ForwardStep ==
    ASSUME NEW B \in SUBSET BarRow, Closed(B), NEW bars \in Seq(B), Forward(bars),
           buffer \in [Timeframes -> Seq(B)], appended \in [Timeframes -> Seq(B)],
           completed \in Seq(B), since \in [Timeframes -> Nat], WindowsInv,
           registered' = registered, since' = since
    PROVE  /\ buffer' \in [Timeframes -> Seq(B)] /\ appended' \in [Timeframes -> Seq(B)]
           /\ completed' \in Seq(B) /\ WindowsInv'
<1> DEFINE c == completed \o bars
           l == Len(completed)
           m == Len(bars)
<1>1. /\ l \in Nat /\ m \in Nat /\ c \in Seq(B) /\ Len(c) = l + m /\ completed' = c
      /\ \A i \in 1 .. l : c[i] = completed[i]
      /\ \A i \in 1 .. m : c[l + i] = bars[i] /\ bars[i] \in B
  <2>1. /\ c \in Seq(B) /\ Len(c) = l + m
        /\ \A i \in 1 .. l + m : c[i] = IF i <= l THEN completed[i] ELSE bars[i - l]
    BY ConcatProperties
  <2>2. l \in Nat /\ m \in Nat /\ \A i \in 1 .. m : bars[i] \in B
    OBVIOUS
  <2>3. completed' = c
    BY DEF Forward
  <2> HIDE DEF l, m, c
  <2>4. \A i \in 1 .. l : i \in 1 .. l + m /\ i <= l
    BY <2>2
  <2>5. \A i \in 1 .. m : l + i \in 1 .. l + m /\ ~ (l + i <= l) /\ (l + i) - l = i
    BY <2>2
  <2> QED
    BY <2>1, <2>2, <2>3, <2>4, <2>5
<1> HIDE DEF c, l, m
<1>2. ASSUME NEW tf \in Timeframes
      PROVE  /\ Row(tf)' \in Rows(B)
             /\ Windowed(Window[tf], tf \in registered, since[tf], Row(tf)', c, l + m)
  <2>1. buffer[tf] \in Seq(B) /\ appended[tf] \in Seq(B)
    OBVIOUS
  <2>2. PICK f : f = Feeding(tf, bars)
    OBVIOUS
  <2>3. Feeds(f, B, tf, bars)
    BY <2>1, <2>2, FeedingIs
  <2>4. /\ \A i \in 0 .. m : f[i] \in Rows(B)
        /\ f[0] = Row(tf)
        /\ \A i \in 1 .. m : f[i] = Fed(tf, f[i - 1], bars[i])
    BY <2>3 DEF Feeds, Row, m
  <2>5. Row(tf)' = f[m]
    <3>1. /\ buffer'[tf] = f[m].buffer /\ appended'[tf] = f[m].appended
      BY <2>2 DEF Forward, m
    <3>2. f[m] = [buffer |-> f[m].buffer, appended |-> f[m].appended]
      <4>1. f[m] \in Rows(B)
        BY <1>1, <2>4
      <4> QED
        BY <4>1 DEF Rows
    <3> QED
      BY <3>1, <3>2 DEF Row
  <2> DEFINE w == Window[tf]
             on == tf \in registered
             from == since[tf]
             P == {i \in 0 .. m : Windowed(w, on, from, f[i], c, l + i)}
  <2>6. w \in Nat \ {0} /\ w \in Nat /\ from \in Nat
    BY ReceiverAssumption
  <2>7. 0 \in P
    <3>1. Windowed(w, on, from, Row(tf), completed, l)
      BY DEF WindowsInv, l
    <3>2. Row(tf) \in Rows(B)
      BY <1>1, <2>4
    <3> HIDE DEF w, on, from
    <3>3. Windowed(w, on, from, Row(tf), c, l)
      BY <1>1, <2>6, <3>1, <3>2, WindowedMoved
    <3>4. l + 0 = l /\ 0 \in 0 .. m
      BY <1>1
    <3> QED
      BY <2>4, <3>3, <3>4
  <2>8. ASSUME NEW i \in 1 .. m, i - 1 \in P
        PROVE  i \in P
    <3> DEFINE s == f[i - 1]
               k == l + (i - 1)
    <3>1. /\ k \in Nat /\ k + 1 = l + i /\ i \in 0 .. m /\ i - 1 \in 0 .. m
      <4>1. l \in Nat /\ m \in Nat
        BY <1>1
      <4> QED
        BY <4>1
    <3>2. s \in Rows(B) /\ Windowed(w, on, from, s, c, k)
      BY <2>4, <2>8, <3>1
    <3>3. c[k + 1] = bars[i] /\ c[k + 1] \in B
      BY <1>1, <3>1
    <3>4. Windowed(w, on, from, Fed(tf, s, c[k + 1]), c, k + 1)
      <4> HIDE DEF s, k, from
      <4> QED
        BY <2>6, <3>1, <3>2, <3>3, WindowedStep
    <3>5. Windowed(w, on, from, f[i], c, l + i)
      <4> HIDE DEF k, w, on, from
      <4> QED
        BY <2>4, <3>1, <3>3, <3>4
    <3> QED
      BY <3>1, <3>5
  <2>9. m \in P
    <3>1. \A i \in 0 .. m : i \in P
      <4> HIDE DEF P
      <4> QED
        BY <1>1, <2>7, <2>8, Reaches
    <3> QED
      BY <1>1, <3>1
  <2> QED
    BY <1>1, <2>4, <2>5, <2>9
<1>3. WindowsInv'
  <2> SUFFICES ASSUME NEW tf \in Timeframes
               PROVE  Windowed(Window[tf], tf \in registered', since'[tf], Row(tf)',
                               completed', Len(completed'))
    BY DEF WindowsInv
  <2> QED
    BY <1>1, <1>2
<1>4. \A tf \in Timeframes : buffer'[tf] \in Seq(B) /\ appended'[tf] \in Seq(B)
  BY <1>2 DEF Rows, Row
<1>5. buffer' \in [Timeframes -> Seq(B)] /\ appended' \in [Timeframes -> Seq(B)]
  <2>1. /\ buffer' = [tf \in Timeframes |-> buffer'[tf]]
        /\ appended' = [tf \in Timeframes |-> appended'[tf]]
    BY DEF Forward
  <2> QED
    BY <1>4, <2>1
<1> QED
  BY <1>1, <1>3, <1>5

\* The one-minute bars still begin with different ticks when others are completed
\* that do.
LEMMA FirstsForward ==
    ASSUME completed \in Seq(BarRow), NEW bars \in Seq(BarRow), completed' = completed \o bars,
           FirstsInv,
           \A i, j \in 1 .. Len(bars) : bars[i].ticks[1] = bars[j].ticks[1] => i = j,
           \A i \in 1 .. Len(completed), j \in 1 .. Len(bars) :
               completed[i].ticks[1] # bars[j].ticks[1]
    PROVE  /\ \A i, j \in 1 .. Len(completed') :
                  completed'[i].ticks[1] = completed'[j].ticks[1] => i = j
           /\ \A i \in 1 .. Len(completed') :
                  \/ \E j \in 1 .. Len(completed) : completed'[i] = completed[j]
                  \/ \E j \in 1 .. Len(bars) : completed'[i] = bars[j]
<1> DEFINE l == Len(completed)
           m == Len(bars)
           c == completed'
<1>1. /\ l \in Nat /\ m \in Nat /\ Len(c) = l + m
      /\ \A i \in 1 .. l + m : c[i] = IF i <= l THEN completed[i] ELSE bars[i - l]
  <2>1. completed \o bars \in Seq(BarRow) /\ Len(completed \o bars) = l + m
        /\ \A i \in 1 .. l + m :
               (completed \o bars)[i] = IF i <= l THEN completed[i] ELSE bars[i - l]
    BY ConcatProperties
  <2> QED
    BY <2>1
<1>2. \A i, j \in 1 .. l : completed[i].ticks[1] = completed[j].ticks[1] => i = j
  BY DEF FirstsInv
<1> HIDE DEF l, m, c
<1>3. ASSUME NEW i \in 1 .. l + m
      PROVE  \/ i \in 1 .. l /\ c[i] = completed[i]
             \/ i - l \in 1 .. m /\ c[i] = bars[i - l]
  <2>1. CASE i <= l
    BY <1>1, <2>1
  <2>2. CASE ~ (i <= l)
    BY <1>1, <2>2
  <2> QED
    BY <2>1, <2>2
<1>4. ASSUME NEW i \in 1 .. l + m, NEW j \in 1 .. l + m, c[i].ticks[1] = c[j].ticks[1]
      PROVE  i = j
  <2>1. CASE i \in 1 .. l /\ c[i] = completed[i] /\ j \in 1 .. l /\ c[j] = completed[j]
    BY <1>2, <1>4, <2>1
  <2>2. CASE i - l \in 1 .. m /\ c[i] = bars[i - l] /\ j - l \in 1 .. m /\ c[j] = bars[j - l]
    <3>1. i - l = j - l
      BY <1>4, <2>2 DEF m
    <3> QED
      BY <1>1, <3>1
  <2>3. CASE i \in 1 .. l /\ c[i] = completed[i] /\ j - l \in 1 .. m /\ c[j] = bars[j - l]
    BY <1>4, <2>3 DEF l, m
  <2>4. CASE i - l \in 1 .. m /\ c[i] = bars[i - l] /\ j \in 1 .. l /\ c[j] = completed[j]
    BY <1>4, <2>4 DEF l, m
  <2> QED
    BY <1>3, <2>1, <2>2, <2>3, <2>4
<1>5. \A i \in 1 .. l + m : \/ \E j \in 1 .. l : c[i] = completed[j]
                            \/ \E j \in 1 .. m : c[i] = bars[j]
  BY <1>3
<1> QED
  BY <1>1, <1>4, <1>5 DEF l, m, c

\* p and c are the prices and counted volumes of m ticks, the last of which is t.
Recorded(p, c, m, t) ==
    /\ m \in Nat \ {0} /\ p \in [1 .. m -> Int] /\ c \in [1 .. m -> Int]
    /\ p[m] = t.price /\ c[m] = Delta(t.by, t.volume)

LEMMA NewRecorded ==
    ASSUME ticks \in Seq(TickRow), lastVolume \in [Instruments -> Int], TicksInv,
           NEW t \in TickRow, ticks' = Append(ticks, t)
    PROVE  /\ \E p, c : Recorded(p, c, Coming, t) /\ Good' = Bars(Coming, p, c)
           /\ Good' \in SUBSET BarRow /\ Closed(Good')
<1>1. /\ Len(ticks) \in Nat /\ Len(ticks') = Coming /\ Coming = Len(ticks) + 1
      /\ \A n \in 1 .. Len(ticks) : ticks'[n] = ticks[n]
      /\ ticks'[Coming] = t
  <2>1. Len(ticks) \in Nat /\ Coming = Len(ticks) + 1
    BY DEF Coming
  <2> QED
    BY <2>1, TickAppended
<1>2. PICK p, c : p = Price' /\ c = Amount'
  OBVIOUS
<1>3. PICK m : m = Coming
  OBVIOUS
<1>4. /\ p = [n \in 1 .. m |-> ticks'[n].price]
      /\ c = [n \in 1 .. m |-> Counted(n)']
  BY <1>1, <1>2, <1>3 DEF Price, Amount
<1>5. /\ m \in Nat \ {0} /\ m \in 1 .. m
      /\ \A n \in 1 .. m : n \in 1 .. Len(ticks) \/ n = m
      /\ \A n \in 1 .. Len(ticks) : n \in 1 .. m
  BY <1>1, <1>3
<1>6. /\ t.price \in Int /\ t.by \in Instruments /\ t.volume \in Nat
  BY ReceiverAssumption DEF TickRow
<1>7. Counted(m)' = Delta(t.by, t.volume)
  BY <1>3, NewCounted
<1>8. Delta(t.by, t.volume) \in Int
  <2>1. lastVolume[t.by] \in Int
    BY <1>6
  <2> QED
    BY <1>6, <2>1 DEF Delta
<1>9. \A n \in 1 .. Len(ticks) : Counted(n)' \in Int /\ ticks'[n].price \in Int
  <2>1. \A n \in 1 .. Len(ticks) : Counted(n)' = Counted(n)
    BY OldTicksAccounted
  <2>2. Price \in [1 .. Len(ticks) -> Int] /\ Amount \in [1 .. Len(ticks) -> Int]
    BY PriceAmountType
  <2>3. \A n \in 1 .. Len(ticks) : Price[n] = ticks[n].price /\ Amount[n] = Counted(n)
    BY DEF Price, Amount
  <2>4. \A n \in 1 .. Len(ticks) : Price[n] \in Int /\ Amount[n] \in Int
    BY <2>2
  <2> QED
    BY <1>1, <2>1, <2>3, <2>4
<1>10. p \in [1 .. m -> Int] /\ p[m] = t.price
  <2>1. \A n \in 1 .. m : ticks'[n].price \in Int
    BY <1>1, <1>3, <1>5, <1>6, <1>9
  <2> QED
    BY <1>1, <1>3, <1>4, <1>5, <2>1
<1>11. c \in [1 .. m -> Int] /\ c[m] = Delta(t.by, t.volume)
  <2>1. \A n \in 1 .. m : Counted(n)' \in Int
    BY <1>5, <1>7, <1>8, <1>9
  <2> QED
    BY <1>4, <1>5, <1>7, <2>1
<1>12. Recorded(p, c, Coming, t)
  BY <1>3, <1>5, <1>10, <1>11 DEF Recorded
<1>13. Good' = Bars(Coming, p, c)
  BY <1>1, <1>2 DEF Good
<1>14. Bars(m, p, c) \in SUBSET BarRow /\ Closed(Bars(m, p, c))
  <2>1. m \in Nat
    BY <1>5
  <2>2. Closed(Bars(m, p, c))
    BY <1>10, <1>11, <2>1, SummariesClosed
  <2> QED
    BY <2>2 DEF Bars
<1> QED
  BY <1>3, <1>12, <1>13, <1>14

LEMMA BarFieldChanged ==
    ASSUME NEW bar \in BarRow
    PROVE  /\ \A x \in Int : [bar EXCEPT !.high = x] \in BarRow
           /\ \A x \in Int : [bar EXCEPT !.low = x] \in BarRow
           /\ \A x \in Int : [bar EXCEPT !.close = x] \in BarRow
           /\ \A x \in Int : [bar EXCEPT !.volume = x] \in BarRow
           /\ \A x \in Seq(Nat) : [bar EXCEPT !.ticks = x] \in BarRow
BY DEF BarRow

LEMMA BarChanged ==
    ASSUME NEW bar \in BarRow, NEW h \in Int, NEW l \in Int, NEW c \in Int, NEW v \in Int,
           NEW s \in Seq(Nat)
    PROVE  [bar EXCEPT !.high = h, !.low = l, !.close = c, !.volume = v, !.ticks = s] \in BarRow
<1>1. PICK b1 : b1 = [bar EXCEPT !.high = h]
  OBVIOUS
<1>2. PICK b2 : b2 = [b1 EXCEPT !.low = l]
  OBVIOUS
<1>3. PICK b3 : b3 = [b2 EXCEPT !.close = c]
  OBVIOUS
<1>4. PICK b4 : b4 = [b3 EXCEPT !.volume = v]
  OBVIOUS
<1>5. PICK b5 : b5 = [b4 EXCEPT !.ticks = s]
  OBVIOUS
<1>6. b5 \in BarRow
  <2>1. b1 \in BarRow
    BY <1>1, BarFieldChanged
  <2>2. b2 \in BarRow
    BY <1>2, <2>1, BarFieldChanged
  <2>3. b3 \in BarRow
    BY <1>3, <2>2, BarFieldChanged
  <2>4. b4 \in BarRow
    BY <1>4, <2>3, BarFieldChanged
  <2> QED
    BY <1>5, <2>4, BarFieldChanged
<1>7. [bar EXCEPT !.high = h, !.low = l, !.close = c, !.volume = v, !.ticks = s] = b5
  BY <1>1, <1>2, <1>3, <1>4, <1>5
<1> QED
  BY <1>6, <1>7

\* The bar that a tick opens, and the one that it goes into.
LEMMA NewBars ==
    ASSUME NEW m, NEW p, NEW c, NEW t, Recorded(p, c, m, t), t.minute \in Int
    PROVE  /\ OpenedBar(t, m) \in Bars(m, p, c) /\ OpenedBar(t, m).ticks = <<m>>
           /\ \A bar \in Bars(m, p, c) :
                  /\ ExtendedBar(bar, t, m) \in Bars(m, p, c)
                  /\ ExtendedBar(bar, t, m).ticks = Append(bar.ticks, m)
<1>1. /\ m \in Nat /\ m \in 1 .. m /\ p \in [1 .. m -> Int] /\ c \in [1 .. m -> Int]
      /\ p[m] = t.price /\ c[m] = Delta(t.by, t.volume)
      /\ p[m] \in Int /\ c[m] \in Int
  <2>1. m \in Nat \ {0} /\ p \in [1 .. m -> Int] /\ c \in [1 .. m -> Int]
    BY DEF Recorded
  <2> QED
    BY <2>1 DEF Recorded
<1>2. OpenedBar(t, m) \in Bars(m, p, c) /\ OpenedBar(t, m).ticks = <<m>>
  <2> DEFINE bar == OpenedBar(t, m)
  <2>1. /\ bar.ticks = <<m>> /\ bar.volume = c[m]
        /\ bar.open = p[m] /\ bar.high = p[m] /\ bar.low = p[m] /\ bar.close = p[m]
    BY <1>1 DEF OpenedBar
  <2>2. bar \in BarRow
    BY <1>1 DEF OpenedBar, BarRow
  <2> HIDE DEF bar
  <2>3. Summary(bar, m, p, c)
    BY <1>1, <2>1, SummaryOfOne
  <2>4. bar \in Bars(m, p, c)
    BY <2>2, <2>3 DEF Bars
  <2> QED
    BY <2>1, <2>4 DEF bar
<1>3. ASSUME NEW old \in Bars(m, p, c)
      PROVE  /\ ExtendedBar(old, t, m) \in Bars(m, p, c)
             /\ ExtendedBar(old, t, m).ticks = Append(old.ticks, m)
  <2> DEFINE bar == ExtendedBar(old, t, m)
  <2>1. old \in BarRow /\ Summary(old, m, p, c)
    BY DEF Bars
  <2>2. /\ bar.ticks = Append(old.ticks, m) /\ bar.open = old.open /\ bar.close = p[m]
        /\ bar.high = IF p[m] > old.high THEN p[m] ELSE old.high
        /\ bar.low = IF p[m] < old.low THEN p[m] ELSE old.low
        /\ bar.volume = old.volume + c[m]
    BY <1>1, <2>1 DEF ExtendedBar, BarRow
  <2>3. bar \in BarRow
    <3>1. /\ old.high \in Int /\ old.low \in Int /\ old.volume \in Int /\ old.ticks \in Seq(Nat)
      BY <2>1 DEF BarRow
    <3>2. PICK h, l, v, s : /\ h = IF t.price > old.high THEN t.price ELSE old.high
                            /\ l = IF t.price < old.low THEN t.price ELSE old.low
                            /\ v = old.volume + Delta(t.by, t.volume)
                            /\ s = Append(old.ticks, m)
      OBVIOUS
    <3>3. h \in Int /\ l \in Int /\ v \in Int /\ s \in Seq(Nat) /\ t.price \in Int
      BY <1>1, <3>1, <3>2
    <3>4. bar = [old EXCEPT !.high = h, !.low = l, !.close = t.price, !.volume = v, !.ticks = s]
      BY <3>2 DEF ExtendedBar
    <3> HIDE DEF bar
    <3> QED
      BY <2>1, <3>3, <3>4, BarChanged
  <2> HIDE DEF bar
  <2>4. Summary(bar, m, p, c)
    BY <1>1, <2>1, <2>2, SummaryGoesOn
  <2>5. bar \in Bars(m, p, c)
    BY <2>3, <2>4 DEF Bars
  <2> QED
    BY <2>2, <2>5 DEF bar
<1> QED
  BY <1>2, <1>3

\* A summary begins with one of its ticks.
LEMMA GoodFirst ==
    ASSUME NEW N, NEW p, NEW c, NEW bar \in Bars(N, p, c)
    PROVE  bar.ticks[1] \in 1 .. N /\ bar # NoBar
<1>1. bar.ticks \in Seq(1 .. N) /\ bar.ticks # <<>>
  BY DEF Bars, Summary
<1> DEFINE s == bar.ticks
<1> HIDE DEF s
<1>2. s \in Seq(1 .. N) /\ s # <<>>
  BY <1>1 DEF s
<1>3. s[1] \in 1 .. N
  <2>1. PICK T : T = 1 .. N
    OBVIOUS
  <2>2. s \in Seq(T) /\ s # <<>>
    BY <1>2, <2>1
  <2>3. s[1] \in T
    BY <2>2
  <2> QED
    BY <2>1, <2>3
<1>4. NoBar.ticks = <<>>
  BY DEF NoBar
<1> QED
  BY <1>1, <1>3, <1>4 DEF s

\* The bars that are being made, when tick t opens bar x of its instrument or goes
\* into it.
LEMMA CurrentStep ==
    ASSUME BarsInv, FirstsInv, NEW t \in TickRow, ticks' = Append(ticks, t),
           NEW B, Good \in SUBSET B, NEW x \in B, x # NoBar,
           current' = [current EXCEPT ![t.by] = x],
           \/ /\ completed' = completed
              /\ \/ x.ticks[1] = Coming
                 \/ current[t.by] # NoBar /\ x.ticks[1] = current[t.by].ticks[1]
           \/ /\ current[t.by] # NoBar
              /\ completed' = completed \o <<current[t.by]>> /\ x.ticks[1] = Coming
    PROVE  /\ current' \in [Instruments -> B \cup {NoBar}]
           /\ IsFiniteSet({k \in Instruments : current'[k] # NoBar})
           /\ FirstsInv'
<1>1. PICK k : k = t.by
  OBVIOUS
<1>2. /\ k \in Instruments /\ current' = [current EXCEPT ![k] = x]
      /\ current \in [Instruments -> Good \cup {NoBar}] /\ completed \in Seq(Good)
      /\ ticks \in Seq(TickRow)
  BY <1>1 DEF BarsInv, TickRow
<1>3. /\ current'[k] = x
      /\ \A q \in Instruments : q # k => current'[q] = current[q]
  BY <1>2
<1>4. current' \in [Instruments -> B \cup {NoBar}]
  <2>1. \A q \in Instruments : current[q] \in B \cup {NoBar}
    BY <1>2
  <2> QED
    BY <1>2, <2>1
<1>5. IsFiniteSet({q \in Instruments : current'[q] # NoBar})
  <2> DEFINE S == {q \in Instruments : current[q] # NoBar}
             T == {q \in Instruments : current'[q] # NoBar}
  <2>1. IsFiniteSet(S)
    BY DEF BarsInv
  <2>2. T \in SUBSET (S \cup {k})
    BY <1>3
  <2> HIDE DEF S, T
  <2>3. IsFiniteSet(S \cup {k})
    BY <2>1, FS_AddElement
  <2>4. IsFiniteSet(T)
    BY <2>2, <2>3, FS_Subset
  <2> QED
    BY <2>4 DEF T
<1>6. /\ Len(ticks) \in Nat /\ Coming = Len(ticks) + 1 /\ ticks'[Coming] = t
      /\ \A n \in 1 .. Len(ticks) : ticks'[n] = ticks[n]
  <2>1. Len(ticks) \in Nat /\ Coming = Len(ticks) + 1
    BY <1>2 DEF Coming
  <2>2. ticks'[Coming] = t /\ \A n \in 1 .. Len(ticks) : ticks'[n] = ticks[n]
    BY <1>2, TickAppended
  <2> QED
    BY <2>1, <2>2
<1>7. /\ \A q \in Instruments : current[q] # NoBar => current[q].ticks[1] \in 1 .. Len(ticks)
      /\ \A i \in 1 .. Len(completed) : completed[i].ticks[1] \in 1 .. Len(ticks)
  <2>1. \A bar \in Good : bar.ticks[1] \in 1 .. Len(ticks)
    BY GoodFirst DEF Good
  <2> QED
    BY <1>2, <2>1
<1>8. /\ \A i, j \in 1 .. Len(completed) :
             completed[i].ticks[1] = completed[j].ticks[1] => i = j
      /\ \A q \in Instruments : current[q] # NoBar =>
             /\ ticks[current[q].ticks[1]].by = q
             /\ \A i \in 1 .. Len(completed) : completed[i].ticks[1] # current[q].ticks[1]
  BY DEF FirstsInv
<1>9. ASSUME NEW q \in Instruments, current'[q] # NoBar
      PROVE  ticks'[current'[q].ticks[1]].by = q
  <2>1. CASE q = k
    <3>1. CASE x.ticks[1] = Coming
      BY <1>1, <1>3, <1>6, <2>1, <3>1
    <3>2. CASE current[k] # NoBar /\ x.ticks[1] = current[k].ticks[1]
      BY <1>2, <1>3, <1>6, <1>7, <1>8, <2>1, <3>2
    <3> QED
      BY <1>1, <3>1, <3>2
  <2>2. CASE q # k
    <3>1. current'[q] = current[q] /\ current[q].ticks[1] \in 1 .. Len(ticks)
      BY <1>3, <1>7, <1>9, <2>2
    <3> QED
      BY <1>6, <1>8, <1>9, <3>1
  <2> QED
    BY <2>1, <2>2
<1>10. ASSUME NEW q \in Instruments, current'[q] # NoBar, NEW i \in 1 .. Len(completed)
       PROVE  completed[i].ticks[1] # current'[q].ticks[1]
  <2>1. CASE q = k
    <3>1. CASE x.ticks[1] = Coming
      <4>1. completed[i].ticks[1] \in 1 .. Len(ticks)
        BY <1>7
      <4>2. completed[i].ticks[1] # Coming
        BY <1>6, <4>1
      <4> QED
        BY <1>3, <2>1, <3>1, <4>2
    <3>2. CASE current[k] # NoBar /\ x.ticks[1] = current[k].ticks[1]
      BY <1>2, <1>3, <1>8, <2>1, <3>2
    <3> QED
      BY <1>1, <3>1, <3>2
  <2>2. CASE q # k
    BY <1>3, <1>8, <1>10, <2>2
  <2> QED
    BY <2>1, <2>2
<1>11. CASE completed' = completed
  BY <1>4, <1>5, <1>8, <1>9, <1>10, <1>11 DEF FirstsInv
<1>12. CASE /\ current[k] # NoBar
            /\ completed' = completed \o <<current[k]>> /\ x.ticks[1] = Coming
  <2> DEFINE bars == <<current[k]>>
  <2>1. Good \in SUBSET BarRow
    BY DEF Good, Bars
  <2>2. current[k] \in Good
    BY <1>2, <1>12
  <2>3. /\ bars \in Seq(BarRow) /\ Len(bars) = 1
        /\ \A i \in 1 .. Len(bars) : i = 1 /\ bars[i] = current[k]
    BY <2>1, <2>2
  <2>4. completed \in Seq(BarRow) /\ completed' = completed \o bars
    BY <1>2, <1>12, <2>1
  <2> HIDE DEF bars
  <2>5. \A i, j \in 1 .. Len(bars) : bars[i].ticks[1] = bars[j].ticks[1] => i = j
    BY <2>3
  <2>6. \A i \in 1 .. Len(completed), j \in 1 .. Len(bars) :
            completed[i].ticks[1] # bars[j].ticks[1]
    BY <1>2, <1>8, <1>12, <2>3
  <2>7. /\ \A i, j \in 1 .. Len(completed') :
                  completed'[i].ticks[1] = completed'[j].ticks[1] => i = j
        /\ \A i \in 1 .. Len(completed') :
                  \/ \E j \in 1 .. Len(completed) : completed'[i] = completed[j]
                  \/ \E j \in 1 .. Len(bars) : completed'[i] = bars[j]
    BY <2>3, <2>4, <2>5, <2>6, FirstsForward
  <2>8. ASSUME NEW q \in Instruments, current'[q] # NoBar, NEW i \in 1 .. Len(completed')
        PROVE  completed'[i].ticks[1] # current'[q].ticks[1]
    <3>1. CASE \E j \in 1 .. Len(completed) : completed'[i] = completed[j]
      BY <1>10, <2>8, <3>1
    <3>2. CASE completed'[i] = current[k]
      <4>1. current[k].ticks[1] \in 1 .. Len(ticks)
        BY <1>2, <1>7, <1>12
      <4>2. CASE q = k
        <5>1. current[k].ticks[1] # Coming
          BY <1>6, <4>1
        <5> QED
          BY <1>3, <1>12, <3>2, <4>2, <5>1
      <4>3. CASE q # k
        <5>1. current'[q] = current[q]
          BY <1>3, <4>3
        <5>2. ticks[current[q].ticks[1]].by = q /\ ticks[current[k].ticks[1]].by = k
          BY <1>2, <1>8, <1>12, <2>8, <5>1
        <5> QED
          BY <3>2, <4>3, <5>1, <5>2
      <4> QED
        BY <4>2, <4>3
    <3> QED
      BY <2>3, <2>7, <3>1, <3>2
  <2>9. FirstsInv'
    BY <1>9, <2>7, <2>8 DEF FirstsInv
  <2> QED
    BY <1>4, <1>5, <2>9
<1> QED
  BY <1>1, <1>11, <1>12

\* What is said of the ticks depends on nothing else.
LEMMA TicksSame ==
    ASSUME ticks' = ticks, lastVolume' = lastVolume
    PROVE  (TicksInv => TicksInv') /\ Good' = Good
<1>1. OnTime' = OnTime /\ Coming' = Coming /\ DOMAIN ticks' = DOMAIN ticks
  BY DEF OnTime, Coming
<1>2. \A k, n : /\ LatestTick(k, n)' = LatestTick(k, n)
                /\ LatestOnTime(k, n)' = LatestOnTime(k, n)
  BY <1>1 DEF LatestTick, LatestOnTime
<1>3. \A n : Counted(n)' = Counted(n)
  <2> SUFFICES ASSUME NEW n PROVE Counted(n)' = Counted(n)
    OBVIOUS
  <2>1. PICK k : k = ticks[n].by
    OBVIOUS
  <2>2. LatestTick(k, n)' = LatestTick(k, n)
    BY <1>2
  <2> QED
    BY <2>1, <2>2 DEF Counted
<1>4. \A n : Recounted(n)' = Recounted(n)
  <2> SUFFICES ASSUME NEW n PROVE Recounted(n)' = Recounted(n)
    OBVIOUS
  <2>1. PICK k : k = ticks[n].by
    OBVIOUS
  <2>2. LatestOnTime(k, n)' = LatestOnTime(k, n)
    BY <1>2
  <2> QED
    BY <2>1, <2>2 DEF Recounted
<1>5. \A n : TickAccounted(n) => TickAccounted(n)'
  <2> SUFFICES ASSUME NEW n, TickAccounted(n) PROVE TickAccounted(n)'
    OBVIOUS
  <2>1. PICK k : k = ticks[n].by
    OBVIOUS
  <2>2. LatestTick(k, n)' = LatestTick(k, n) /\ LatestOnTime(k, n)' = LatestOnTime(k, n)
    BY <1>2
  <2>3. Counted(n)' = Counted(n) /\ Recounted(n)' = Recounted(n)
    BY <1>3, <1>4
  <2> QED
    BY <2>1, <2>2, <2>3 DEF TickAccounted
<1>6. \A k : VolumeKept(k) => VolumeKept(k)'
  <2> SUFFICES ASSUME NEW k, VolumeKept(k) PROVE VolumeKept(k)'
    OBVIOUS
  <2>1. PICK c : c = Coming
    OBVIOUS
  <2>2. LatestTick(k, c)' = LatestTick(k, c) /\ LatestOnTime(k, c)' = LatestOnTime(k, c)
    BY <1>2
  <2>3. \A m : InSession(k, m)' = InSession(k, m)
    BY <1>1 DEF InSession
  <2>4. Coming' = c
    BY <1>1, <2>1
  <2> QED
    BY <2>1, <2>2, <2>3, <2>4 DEF VolumeKept
<1>7. Good' = Good
  <2>1. Price' = Price
    BY DEF Price
  <2>2. Amount' = Amount
    BY <1>3 DEF Amount
  <2> QED
    BY <2>1, <2>2 DEF Good
<1> QED
  BY <1>1, <1>5, <1>6, <1>7 DEF TicksInv

\* A timeframe is registered.
LEMMA RegisterStep ==
    ASSUME ReceiverInv, NEW tf \in Timeframes, Register(tf)
    PROVE  ReceiverInv'
<1>1. /\ BarsInv /\ TicksInv /\ FirstsInv /\ WindowsInv
  BY DEF ReceiverInv
<1>2. /\ registered' = registered \cup {tf} /\ buffer' = [buffer EXCEPT ![tf] = <<>>]
      /\ since' = [since EXCEPT ![tf] = Len(completed)]
      /\ current' = current /\ lastVolume' = lastVolume /\ appended' = appended
      /\ ticks' = ticks /\ completed' = completed
  BY DEF Register
<1>3. /\ registered \in SUBSET Timeframes /\ ticks \in Seq(TickRow)
      /\ buffer \in [Timeframes -> Seq(Good)] /\ appended \in [Timeframes -> Seq(Good)]
      /\ completed \in Seq(Good) /\ since \in [Timeframes -> Nat] /\ Len(completed) \in Nat
  BY <1>1 DEF BarsInv
<1>4. TicksInv'
  BY <1>1, <1>2, TicksSame
<1>5. Good' = Good
  BY <1>2, TicksSame
<1>6. BarsInv'
  <2>1. buffer' \in [Timeframes -> Seq(Good)]
    BY <1>2, <1>3
  <2>2. since' \in [Timeframes -> Nat] /\ registered' \in SUBSET Timeframes
    BY <1>2, <1>3
  <2> QED
    BY <1>1, <1>2, <1>5, <2>1, <2>2 DEF BarsInv
<1>7. FirstsInv'
  BY <1>1, <1>2 DEF FirstsInv
<1>8. ASSUME NEW g \in Timeframes
      PROVE  Windowed(Window[g], g \in registered', since'[g], Row(g)', completed, Len(completed))
  <2>1. Windowed(Window[g], g \in registered, since[g], Row(g), completed, Len(completed))
    BY <1>1 DEF WindowsInv
  <2>2. CASE g = tf
    <3>1. /\ g \in registered' /\ since'[g] = Len(completed)
          /\ Row(g)' = [Row(g) EXCEPT !.buffer = <<>>]
      BY <1>2, <1>3, <2>2 DEF Row
    <3>2. Row(g) \in Rows(Good) /\ Window[g] \in Nat \ {0} /\ since[g] \in Nat
      BY <1>3, ReceiverAssumption DEF Row, Rows
    <3> DEFINE w == Window[g]
               s == Row(g)
               from == since[g]
               on == g \in registered
               n == Len(completed)
    <3>3. Windowed(w, TRUE, n, [s EXCEPT !.buffer = <<>>], completed, n)
      <4>1. n \in Nat
        BY <1>3
      <4> HIDE DEF w, s, from, on, n
      <4> QED
        BY <2>1, <3>2, <4>1, WindowedAnew DEF w, s, from, on, n
    <3>4. (g \in registered') = TRUE
      BY <3>1
    <3> QED
      BY <3>1, <3>3, <3>4
  <2>3. CASE g # tf
    <3>1. (g \in registered') = (g \in registered) /\ since'[g] = since[g] /\ Row(g)' = Row(g)
      BY <1>2, <1>3, <2>3 DEF Row
    <3> QED
      BY <2>1, <3>1
  <2> QED
    BY <2>2, <2>3
<1>9. WindowsInv'
  BY <1>2, <1>8 DEF WindowsInv
<1> QED
  BY <1>4, <1>6, <1>7, <1>9 DEF ReceiverInv

\* A legal tick is ingested.
LEMMA IngestStep ==
    ASSUME ReceiverInv, NEW t \in TickRow, Legal(t), ticks = <<>> => ~t.late, IngestTick(t)
    PROVE  ReceiverInv'
<1>1. /\ BarsInv /\ TicksInv /\ FirstsInv /\ WindowsInv
  BY DEF ReceiverInv
<1>2. /\ registered \in SUBSET Timeframes /\ ticks \in Seq(TickRow)
      /\ (ticks # <<>> => ~ticks[1].late)
      /\ lastVolume \in [Instruments -> Int]
      /\ current \in [Instruments -> Good \cup {NoBar}]
      /\ buffer \in [Timeframes -> Seq(Good)] /\ appended \in [Timeframes -> Seq(Good)]
      /\ completed \in Seq(Good) /\ since \in [Timeframes -> Nat]
  BY <1>1 DEF BarsInv
<1>3. /\ ticks' = Append(ticks, t) /\ registered' = registered /\ since' = since
      /\ lastVolume' = [lastVolume EXCEPT ![t.by] = t.volume]
  BY DEF IngestTick
<1>4. t.by \in Instruments /\ t.minute \in Int /\ t.volume \in Nat
  BY DEF TickRow
<1>5. TicksInv'
  BY <1>1, <1>2, <1>3, TicksStep
<1>6. PICK B : B = Good'
  OBVIOUS
<1>7. PICK m : m = Coming
  OBVIOUS
<1>8. /\ Good \in SUBSET B /\ B \in SUBSET BarRow /\ Closed(B)
      /\ \E p, c : Recorded(p, c, m, t) /\ B = Bars(m, p, c)
  BY <1>1, <1>2, <1>3, <1>6, <1>7, GoodGrows, NewRecorded
<1>9. /\ buffer \in [Timeframes -> Seq(B)] /\ appended \in [Timeframes -> Seq(B)]
      /\ completed \in Seq(B)
  <2>1. Seq(Good) \in SUBSET Seq(B)
    BY <1>8
  <2> QED
    BY <1>2, <2>1
<1>10. ticks' \in Seq(TickRow) /\ (ticks' # <<>> => ~ticks'[1].late)
  <2>1. ticks' \in Seq(TickRow)
    BY <1>2, <1>3
  <2>2. CASE ticks = <<>>
    BY <1>3, <2>2
  <2>3. CASE ticks # <<>>
    BY <1>2, <1>3, <2>3
  <2> QED
    BY <2>1, <2>2, <2>3
<1>11. lastVolume' \in [Instruments -> Int]
  BY <1>2, <1>3, <1>4
<1>12. /\ OpenedBar(t, m) \in B /\ OpenedBar(t, m).ticks = <<m>> /\ OpenedBar(t, m) # NoBar
       /\ \A bar \in Good : /\ ExtendedBar(bar, t, m) \in B
                            /\ ExtendedBar(bar, t, m).ticks = Append(bar.ticks, m)
                            /\ ExtendedBar(bar, t, m) # NoBar
  <2>1. PICK p, c : Recorded(p, c, m, t) /\ B = Bars(m, p, c)
    BY <1>8
  <2>2. /\ OpenedBar(t, m) \in Bars(m, p, c) /\ OpenedBar(t, m).ticks = <<m>>
        /\ \A bar \in Bars(m, p, c) :
               /\ ExtendedBar(bar, t, m) \in Bars(m, p, c)
               /\ ExtendedBar(bar, t, m).ticks = Append(bar.ticks, m)
    BY <1>4, <2>1, NewBars
  <2>3. \A bar \in B : bar # NoBar
    BY <2>1, GoodFirst
  <2> QED
    BY <1>8, <2>1, <2>2, <2>3
<1>13. \A bar \in Good : ExtendedBar(bar, t, m).ticks[1] = bar.ticks[1]
  <2> SUFFICES ASSUME NEW bar \in Good PROVE ExtendedBar(bar, t, m).ticks[1] = bar.ticks[1]
    OBVIOUS
  <2> DEFINE s == bar.ticks
  <2>1. s \in Seq(Nat) /\ s # <<>>
    BY <1>8 DEF Good, Bars, Summary, BarRow
  <2> HIDE DEF s
  <2>2. Append(s, m)[1] = s[1]
    BY <2>1
  <2> QED
    BY <1>12, <2>2 DEF s
<1>14. Coming = m /\ Len(ticks) + 1 = m
  BY <1>7 DEF Coming
<1>15. ASSUME current' \in [Instruments -> B \cup {NoBar}],
              IsFiniteSet({k \in Instruments : current'[k] # NoBar}), FirstsInv',
              buffer' \in [Timeframes -> Seq(B)], appended' \in [Timeframes -> Seq(B)],
              completed' \in Seq(B), WindowsInv'
       PROVE  ReceiverInv'
  <2>1. BarsInv'
    BY <1>2, <1>3, <1>6, <1>10, <1>11, <1>15 DEF BarsInv
  <2> QED
    BY <1>5, <1>15, <2>1 DEF ReceiverInv
<1>16. ASSUME UNCHANGED <<buffer, appended, completed>>
       PROVE  /\ buffer' \in [Timeframes -> Seq(B)] /\ appended' \in [Timeframes -> Seq(B)]
              /\ completed' \in Seq(B) /\ WindowsInv'
  <2>1. WindowsInv'
    BY <1>1, <1>3, <1>16 DEF WindowsInv, Row
  <2> QED
    BY <1>9, <1>16, <2>1
<1>17. CASE /\ current[t.by] = NoBar
            /\ current' = [current EXCEPT ![t.by] = OpenedBar(t, m)]
            /\ UNCHANGED <<buffer, appended, completed>>
  <2>0. PICK x : x = OpenedBar(t, m)
    OBVIOUS
  <2>1. x \in B /\ x # NoBar /\ x.ticks[1] = Coming
    BY <1>12, <1>14, <2>0
  <2>2. completed' = completed /\ current' = [current EXCEPT ![t.by] = x]
    BY <1>17, <2>0
  <2>3. /\ current' \in [Instruments -> B \cup {NoBar}]
        /\ IsFiniteSet({k \in Instruments : current'[k] # NoBar})
        /\ FirstsInv'
    BY <1>1, <1>3, <1>8, <2>1, <2>2, CurrentStep
  <2> QED
    BY <1>15, <1>16, <1>17, <2>3
<1>18. CASE /\ current[t.by] # NoBar
            /\ current' = [current EXCEPT ![t.by] = ExtendedBar(current[t.by], t, m)]
            /\ UNCHANGED <<buffer, appended, completed>>
  <2>0. PICK x : x = ExtendedBar(current[t.by], t, m)
    OBVIOUS
  <2>1. current[t.by] \in Good
    BY <1>2, <1>4, <1>18
  <2>2. x \in B /\ x # NoBar /\ x.ticks[1] = current[t.by].ticks[1]
    BY <1>12, <1>13, <2>0, <2>1
  <2>3. completed' = completed /\ current' = [current EXCEPT ![t.by] = x]
    BY <1>18, <2>0
  <2>4. /\ current' \in [Instruments -> B \cup {NoBar}]
        /\ IsFiniteSet({k \in Instruments : current'[k] # NoBar})
        /\ FirstsInv'
    <3>1. \/ x.ticks[1] = Coming
          \/ current[t.by] # NoBar /\ x.ticks[1] = current[t.by].ticks[1]
      BY <1>18, <2>2
    <3> QED
      BY <1>1, <1>3, <1>8, <2>2, <2>3, <3>1, CurrentStep
  <2> QED
    BY <1>15, <1>16, <1>18, <2>4
<1>19. CASE /\ current[t.by] # NoBar
            /\ current' = [current EXCEPT ![t.by] = OpenedBar(t, m)]
            /\ Forward(<<current[t.by]>>)
  <2>0. PICK x : x = OpenedBar(t, m)
    OBVIOUS
  <2> DEFINE bars == <<current[t.by]>>
  <2>1. x \in B /\ x # NoBar /\ x.ticks[1] = Coming
    BY <1>12, <1>14, <2>0
  <2>2. bars \in Seq(B)
    <3>1. current[t.by] \in B
      BY <1>2, <1>4, <1>8, <1>19
    <3> QED
      BY <3>1
  <2>3. completed' = completed \o bars /\ current' = [current EXCEPT ![t.by] = x]
    BY <1>19, <2>0 DEF Forward
  <2>7. /\ current[t.by] # NoBar
        /\ completed' = completed \o <<current[t.by]>> /\ x.ticks[1] = Coming
    BY <1>19, <2>1, <2>3
  <2>4. /\ current' \in [Instruments -> B \cup {NoBar}]
        /\ IsFiniteSet({k \in Instruments : current'[k] # NoBar})
        /\ FirstsInv'
    <3>1. /\ BarsInv /\ FirstsInv /\ ticks' = Append(ticks, t)
          /\ Good \in SUBSET B /\ x \in B /\ x # NoBar
          /\ current' = [current EXCEPT ![t.by] = x]
      BY <1>1, <1>3, <1>8, <2>1, <2>3
    <3> QED
      BY <2>7, <3>1, CurrentStep, Zenon
  <2>5. Forward(bars)
    BY <1>19
  <2> HIDE DEF bars
  <2>6. /\ buffer' \in [Timeframes -> Seq(B)] /\ appended' \in [Timeframes -> Seq(B)]
        /\ completed' \in Seq(B) /\ WindowsInv'
    BY <1>1, <1>2, <1>3, <1>8, <1>9, <2>2, <2>5, ForwardStep
  <2> QED
    BY <1>15, <2>4, <2>6
<1> QED
  BY <1>14, <1>17, <1>18, <1>19 DEF IngestTick

\* The bars that are being made are completed, all of them.
LEMMA FlushStep ==
    ASSUME ReceiverInv, FlushTicks
    PROVE  ReceiverInv'
<1>1. /\ BarsInv /\ TicksInv /\ FirstsInv /\ WindowsInv
  BY DEF ReceiverInv
<1>2. /\ registered \in SUBSET Timeframes /\ ticks \in Seq(TickRow)
      /\ current \in [Instruments -> Good \cup {NoBar}]
      /\ IsFiniteSet({k \in Instruments : current[k] # NoBar})
      /\ buffer \in [Timeframes -> Seq(Good)] /\ appended \in [Timeframes -> Seq(Good)]
      /\ completed \in Seq(Good) /\ since \in [Timeframes -> Nat]
  BY <1>1 DEF BarsInv
<1> DEFINE S == {k \in Instruments : current[k] # NoBar}
<1>3. PICK order \in SetToSeqs(S) : Forward([i \in DOMAIN order |-> current[order[i]]])
  BY DEF FlushTicks
<1>4. /\ current' = [k \in Instruments |-> NoBar]
      /\ registered' = registered /\ lastVolume' = lastVolume /\ ticks' = ticks
      /\ since' = since
  BY DEF FlushTicks
<1>5. PICK l : l = Cardinality(S)
  OBVIOUS
<1>6. l \in Nat
  BY <1>2, <1>5, FS_CardinalityType
<1>7. /\ order \in [1 .. l -> S] /\ DOMAIN order = 1 .. l
      /\ \A i, j \in 1 .. l : order[i] = order[j] => i = j
  <2> HIDE DEF S
  <2> QED
    BY <1>3, <1>5 DEF SetToSeqs
<1>8. Good \in SUBSET BarRow /\ Closed(Good)
  BY <1>2, GoodClosed
<1> DEFINE bars == [i \in DOMAIN order |-> current[order[i]]]
<1>9. \A i \in 1 .. l : order[i] \in Instruments /\ current[order[i]] # NoBar
  BY <1>7
<1>10. /\ bars \in Seq(Good) /\ Len(bars) = l
       /\ \A i \in 1 .. l : bars[i] = current[order[i]]
  <2>1. \A i \in 1 .. l : current[order[i]] \in Good
    BY <1>2, <1>9
  <2> QED
    BY <1>6, <1>7, <2>1
<1>11. Forward(bars)
  BY <1>3
<1> HIDE DEF bars, S
<1>12. /\ buffer' \in [Timeframes -> Seq(Good)] /\ appended' \in [Timeframes -> Seq(Good)]
       /\ completed' \in Seq(Good) /\ WindowsInv'
  BY <1>1, <1>2, <1>4, <1>8, <1>10, <1>11, ForwardStep
<1>13. TicksInv' /\ Good' = Good
  BY <1>1, <1>4, TicksSame
<1>14. IsFiniteSet({k \in Instruments : current'[k] # NoBar})
  <2>1. {k \in Instruments : current'[k] # NoBar} = {}
    BY <1>4
  <2> QED
    BY <2>1, FS_EmptySet
<1>15. BarsInv'
  <2>1. current' \in [Instruments -> Good \cup {NoBar}]
    BY <1>4
  <2> QED
    BY <1>1, <1>4, <1>12, <1>13, <1>14, <2>1 DEF BarsInv
<1>16. \A i \in 1 .. Len(bars) : ticks[bars[i].ticks[1]].by = order[i]
  BY <1>1, <1>9, <1>10 DEF FirstsInv
<1>17. \A i, j \in 1 .. Len(bars) : bars[i].ticks[1] = bars[j].ticks[1] => i = j
  <2> SUFFICES ASSUME NEW i \in 1 .. Len(bars), NEW j \in 1 .. Len(bars),
                      bars[i].ticks[1] = bars[j].ticks[1]
               PROVE  i = j
    OBVIOUS
  <2>1. order[i] = order[j]
    BY <1>16
  <2> QED
    BY <1>7, <1>10, <2>1
<1>18. \A i \in 1 .. Len(completed), j \in 1 .. Len(bars) :
           completed[i].ticks[1] # bars[j].ticks[1]
  BY <1>1, <1>9, <1>10 DEF FirstsInv
<1>19. FirstsInv'
  <2>1. completed \in Seq(BarRow) /\ bars \in Seq(BarRow)
    BY <1>2, <1>8, <1>10
  <2>2. completed' = completed \o bars
    BY <1>11 DEF Forward
  <2>3. \A i, j \in 1 .. Len(completed') :
            completed'[i].ticks[1] = completed'[j].ticks[1] => i = j
    BY <1>1, <1>17, <1>18, <2>1, <2>2, FirstsForward
  <2> QED
    BY <1>4, <2>3 DEF FirstsInv
<1> QED
  BY <1>12, <1>13, <1>15, <1>19 DEF ReceiverInv

\* What Tick and LateTick send is legal.
LEMMA TickLegal ==
    ASSUME ReceiverInv, NEW k \in Instruments, Tick(k)
    PROVE  \E t \in TickRow : Legal(t) /\ (ticks = <<>> => ~t.late) /\ IngestTick(t)
<1>1. PICK step \in MinuteSteps, price \in Prices, traded \in Volumes, fresh \in BOOLEAN,
           before \in IF lastVolume[k] = Unknown THEN Volumes ELSE {0} :
        /\ lastVolume[k] = Unknown => fresh
        /\ IngestTick([by |-> k, minute |-> Now + step, price |-> price,
                       volume |-> traded + (IF fresh THEN before
                                            ELSE ticks[LatestOnTime(k, Len(ticks) + 1)].volume),
                       traded |-> traded, fresh |-> fresh, late |-> FALSE])
  BY DEF Tick
<1> DEFINE o == LatestOnTime(k, Coming)
           v == traded + (IF fresh THEN before ELSE ticks[o].volume)
           t == [by |-> k, minute |-> Now + step, price |-> price, volume |-> v,
                 traded |-> traded, fresh |-> fresh, late |-> FALSE]
<1>2. IngestTick(t)
  BY <1>1 DEF Coming
<1>3. /\ ticks \in Seq(TickRow) /\ (ticks # <<>> => ~ticks[1].late) /\ TicksInv
      /\ \A n \in 1 .. Len(ticks) : ticks[n] \in TickRow
  BY DEF ReceiverInv, BarsInv
<1>4. traded \in Nat /\ before \in Nat /\ price \in Prices /\ step \in Nat
  BY <1>1, ReceiverAssumption
<1>5. Now \in Int
  <2>1. CASE ticks = <<>>
    BY <2>1 DEF Now
  <2>2. CASE ticks # <<>>
    <3>1. 1 \in OnTime
      BY <1>3, <2>2 DEF OnTime
    <3>2. OnTime \in SUBSET (1 .. Len(ticks)) /\ Len(ticks) \in Nat
      BY <1>3 DEF OnTime
    <3>3. IsFiniteSet(OnTime)
      <4>1. IsFiniteSet(1 .. Len(ticks))
        BY <3>2, FS_Interval
      <4> QED
        BY <3>2, <4>1, FS_Subset
    <3>4. OnTime \in SUBSET Int /\ OnTime # {}
      BY <3>1, <3>2
    <3>5. Max(OnTime) \in OnTime
      BY <3>3, <3>4, FiniteMaxMin
    <3>6. ticks[Max(OnTime)] \in TickRow
      BY <1>3, <3>2, <3>5
    <3>7. ticks[Max(OnTime)].minute \in Int
      BY <3>6 DEF TickRow
    <3> QED
      BY <2>2, <3>7 DEF Now
  <2> QED
    BY <2>1, <2>2
<1>6. ~fresh => ticks[o].volume \in Nat
  <2>1. SessionOf(k, LatestTick(k, Coming), o)
    BY <1>3, SessionFacts
  <2> HIDE DEF o
  <2>2. /\ o \in 0 .. Len(ticks)
        /\ lastVolume[k] # Unknown => o # 0
    BY <2>1 DEF SessionOf
  <2>3. ~fresh => ticks[o] \in TickRow
    BY <1>1, <1>3, <2>2
  <2> QED
    BY <2>3 DEF TickRow
<1>7. v \in Nat /\ Now + step \in Int
  <2> HIDE DEF o
  <2> QED
    BY <1>4, <1>5, <1>6
<1>8. /\ t.by = k /\ t.volume = v /\ t.traded = traded /\ t.fresh = fresh /\ t.late = FALSE
      /\ t \in TickRow
  <2> HIDE DEF v
  <2> QED
    BY <1>4, <1>7 DEF TickRow
<1>9. fresh => lastVolume[k] = Unknown \/ v = traded
  BY <1>1, <1>4
<1> HIDE DEF t
<1>10. ~fresh => v = traded + ticks[LatestOnTime(k, Coming)].volume
  OBVIOUS
<1> HIDE DEF v, o
<1>11. Legal(t)
  BY <1>1, <1>8, <1>9, <1>10 DEF Legal
<1> QED
  BY <1>2, <1>8, <1>11

LEMMA LateTickLegal ==
    ASSUME ReceiverInv, NEW k \in Instruments, LateTick(k)
    PROVE  \E t \in TickRow : Legal(t) /\ (ticks = <<>> => ~t.late) /\ IngestTick(t)
<1>1. PICK n \in OnTime :
          /\ ticks[n].by = k
          /\ \A m \in OnTime : m > n /\ ticks[m].by = k => ~ticks[m].fresh
          /\ IngestTick([ticks[n] EXCEPT !.traded = 0, !.fresh = FALSE, !.late = TRUE])
  BY DEF LateTick
<1>2. ticks \in Seq(TickRow)
  BY DEF ReceiverInv, BarsInv
<1>3. n \in 1 .. Len(ticks) /\ ticks # <<>> /\ ticks[n] \in TickRow
  BY <1>2 DEF OnTime
<1>4. PICK t : t = [ticks[n] EXCEPT !.traded = 0, !.fresh = FALSE, !.late = TRUE]
  OBVIOUS
<1>5. /\ t \in TickRow /\ t.by = k /\ t.volume = ticks[n].volume /\ t.traded = 0
      /\ t.fresh = FALSE /\ t.late = TRUE
  BY <1>1, <1>3, <1>4 DEF TickRow
<1>6. InSession(k, n)
  BY <1>1 DEF InSession
<1>7. Legal(t)
  BY <1>5, <1>6 DEF Legal
<1> QED
  BY <1>1, <1>3, <1>4, <1>5, <1>7

LEMMA ReceiverInitInv ==
    ASSUME ReceiverInit
    PROVE  ReceiverInv
<1>1. /\ registered = {} /\ current = [k \in Instruments |-> NoBar]
      /\ lastVolume = [k \in Instruments |-> Unknown]
      /\ buffer = [tf \in Timeframes |-> <<>>] /\ appended = [tf \in Timeframes |-> <<>>]
      /\ ticks = <<>> /\ completed = <<>> /\ since = [tf \in Timeframes |-> 0]
  BY DEF ReceiverInit
<1>2. ticks \in Seq(TickRow) /\ Len(ticks) = 0 /\ Coming = 1
  BY <1>1 DEF Coming
<1>3. TicksInv
  <2>1. ASSUME NEW k \in Instruments PROVE VolumeKept(k)
    <3>1. IsLatest(LatestTick(k, 1), 1, TicksOf(k))
      <4>1. 1 \in 1 .. Coming
        BY <1>2
      <4> QED
        BY <1>2, <4>1, LatestTicks
    <3>2. LatestTick(k, Coming) = 0
      BY <1>2, <3>1 DEF IsLatest
    <3> QED
      BY <1>1, <1>2, <3>2 DEF VolumeKept
  <2>2. DOMAIN ticks = {}
    BY <1>1
  <2> QED
    BY <2>1, <2>2 DEF TicksInv
<1>4. BarsInv
  <2>1. {k \in Instruments : current[k] # NoBar} = {}
    BY <1>1
  <2>2. IsFiniteSet({k \in Instruments : current[k] # NoBar})
    BY <2>1, FS_EmptySet
  <2>3. lastVolume \in [Instruments -> Int]
    BY <1>1 DEF Unknown
  <2> QED
    BY <1>1, <1>2, <2>2, <2>3 DEF BarsInv
<1>5. FirstsInv
  BY <1>1 DEF FirstsInv
<1>6. ASSUME NEW tf \in Timeframes
      PROVE  Windowed(Window[tf], tf \in registered, since[tf], Row(tf), completed,
                      Len(completed))
  <2>1. PICK w : w = Window[tf]
    OBVIOUS
  <2>2. w \in Nat \ {0}
    BY <2>1, ReceiverAssumption
  <2>3. /\ Row(tf).buffer = <<>> /\ Row(tf).appended = <<>> /\ (tf \in registered) = FALSE
        /\ Len(completed) = 0 /\ completed = <<>> /\ since[tf] = 0
    BY <1>1 DEF Row
  <2>4. Placed(<<>>, <<>>, 0, w, FALSE, 0, <<>>, 0)
    <3>1. <<>> \in [1 .. 0 -> 1 .. 0] /\ Len(<<>>) = 0
      OBVIOUS
    <3> QED
      BY <3>1 DEF Placed
  <2>5. Windowed(w, FALSE, 0, Row(tf), <<>>, 0)
    <3>1. PICK s : s = Row(tf)
      OBVIOUS
    <3>2. Len(s.buffer) = 0 /\ s.buffer = <<>> /\ 1 .. Len(s.buffer) = {}
      BY <2>3, <3>1
    <3>3. Len(s.buffer) < w /\ Len(s.buffer) <= 0
      BY <2>2, <3>2
    <3>4. \A j \in 1 .. Len(s.buffer) : s.buffer[j] = <<>>[0 - Len(s.buffer) + j]
      BY <3>2
    <3>5. Placed(<<>>, s.appended, Len(s.buffer), w, FALSE, 0, <<>>, 0)
      BY <2>3, <2>4, <3>1, <3>2
    <3>6. Windowed(w, FALSE, 0, s, <<>>, 0)
      BY <3>2, <3>3, <3>4, <3>5 DEF Windowed
    <3> QED
      BY <3>1, <3>6
  <2> QED
    BY <2>1, <2>3, <2>5
<1>7. WindowsInv
  BY <1>6 DEF WindowsInv
<1> QED
  BY <1>3, <1>4, <1>5, <1>7 DEF ReceiverInv

LEMMA ReceiverStep ==
    ASSUME ReceiverInv, [ReceiverNext]_receiverVars
    PROVE  ReceiverInv'
<1>1. CASE \E k \in Instruments : Tick(k) \/ LateTick(k)
  BY <1>1, TickLegal, LateTickLegal, IngestStep
<1>2. CASE FlushTicks
  BY <1>2, FlushStep
<1>3. CASE \E tf \in Timeframes : Register(tf)
  BY <1>3, RegisterStep
<1>4. CASE UNCHANGED receiverVars
  <2>1. /\ registered' = registered /\ current' = current /\ lastVolume' = lastVolume
        /\ buffer' = buffer /\ appended' = appended /\ ticks' = ticks
        /\ completed' = completed /\ since' = since
    BY <1>4 DEF receiverVars, aggregatorVars, historyVars
  <2>2. TicksInv /\ BarsInv /\ FirstsInv /\ WindowsInv
    BY DEF ReceiverInv
  <2>3. TicksInv' /\ Good' = Good
    BY <2>1, <2>2, TicksSame
  <2>4. BarsInv'
    BY <2>1, <2>2, <2>3 DEF BarsInv
  <2>5. FirstsInv'
    BY <2>1, <2>2 DEF FirstsInv
  <2>6. WindowsInv'
    BY <2>1, <2>2 DEF WindowsInv, Row
  <2> QED
    BY <2>3, <2>4, <2>5, <2>6 DEF ReceiverInv
<1> QED
  BY <1>1, <1>2, <1>3, <1>4 DEF ReceiverNext

\* The invariant holds in every reachable state.
THEOREM ReceiverInvariant == ReceiverSpec => []ReceiverInv
<1>1. ReceiverInit => ReceiverInv
  BY ReceiverInitInv
<1>2. ReceiverInv /\ [ReceiverNext]_receiverVars => ReceiverInv'
  BY ReceiverStep
<1> QED
  BY <1>1, <1>2, PTL DEF ReceiverSpec

-----------------------------------------------------------------------------
(* What follows for the bars.                                              *)

LEMMA AllBarsGood ==
    ASSUME ReceiverInv, NEW bar \in AllBars
    PROVE  bar \in Good
<1>1. /\ current \in [Instruments -> Good \cup {NoBar}]
      /\ buffer \in [Timeframes -> Seq(Good)] /\ appended \in [Timeframes -> Seq(Good)]
  BY DEF ReceiverInv, BarsInv
<1>2. CASE bar \in UNION {Range(appended[tf]) \cup Range(buffer[tf]) : tf \in Timeframes}
  <2>1. PICK tf \in Timeframes : bar \in Range(appended[tf]) \cup Range(buffer[tf])
    BY <1>2
  <2>2. buffer[tf] \in Seq(Good) /\ appended[tf] \in Seq(Good)
    BY <1>1
  <2>3. Range(appended[tf]) \in SUBSET Good /\ Range(buffer[tf]) \in SUBSET Good
    BY <2>2, RangeType
  <2> QED
    BY <2>1, <2>3
<1>3. CASE bar \in {current[k] : k \in Instruments} \ {NoBar}
  <2>1. PICK k \in Instruments : bar = current[k]
    BY <1>3
  <2>2. current[k] \in Good \cup {NoBar}
    BY <1>1
  <2> QED
    BY <1>3, <2>1, <2>2
<1>4. \/ bar \in UNION {Range(appended[tf]) \cup Range(buffer[tf]) : tf \in Timeframes}
      \/ bar \in {current[k] : k \in Instruments} \ {NoBar}
  BY Zenon DEF AllBars
<1> QED
  BY <1>2, <1>3, <1>4

\* The ticks of a bar, as numbers.
LEMMA BarTicks ==
    ASSUME ReceiverInv, NEW bar \in AllBars
    PROVE  /\ bar.ticks \in Seq(1 .. Len(ticks)) /\ bar.ticks # <<>>
           /\ Range(bar.ticks) \in SUBSET (1 .. Len(ticks))
           /\ Summary(bar, Len(ticks), Price, Amount)
           /\ \A n \in 1 .. Len(ticks) : Price[n] = ticks[n].price /\ Amount[n] = Counted(n)
<1>1. Summary(bar, Len(ticks), Price, Amount)
  BY AllBarsGood DEF Good, Bars
<1>2. bar.ticks \in Seq(1 .. Len(ticks)) /\ bar.ticks # <<>>
  BY <1>1 DEF Summary
<1>3. Range(bar.ticks) \in SUBSET (1 .. Len(ticks))
  BY <1>2, RangeType
<1>4. \A n \in 1 .. Len(ticks) : Price[n] = ticks[n].price /\ Amount[n] = Counted(n)
  BY DEF Price, Amount
<1> QED
  BY <1>1, <1>2, <1>3, <1>4

\* A bar of any timeframe is the summary of its ticks, through both levels of
\* aggregation.
THEOREM BarsAreSummaries == ReceiverSpec => []BarsSummarize
<1>1. ASSUME ReceiverInv PROVE BarsSummarize
  <2> SUFFICES ASSUME NEW bar \in AllBars
               PROVE  LET prices == {ticks[n].price : n \in Range(bar.ticks)}
                      IN  /\ bar.open = ticks[Head(bar.ticks)].price
                          /\ bar.close = ticks[Last(bar.ticks)].price
                          /\ {bar.high, bar.low} \subseteq prices
                          /\ \A p \in prices : bar.low <= p /\ p <= bar.high
    BY DEF BarsSummarize
  <2> DEFINE s == bar.ticks
             N == Len(ticks)
  <2>1. /\ s \in Seq(1 .. N) /\ s # <<>> /\ Range(s) \in SUBSET (1 .. N)
        /\ Summary(bar, N, Price, Amount)
        /\ \A n \in 1 .. N : Price[n] = ticks[n].price
    BY <1>1, BarTicks
  <2>2. Head(s) = s[1] /\ Last(s) = s[Len(s)] /\ s[1] \in 1 .. N /\ s[Len(s)] \in 1 .. N
    <3>1. PICK T : T = 1 .. N
      OBVIOUS
    <3> HIDE DEF s, N
    <3>2. s \in Seq(T) /\ s # <<>>
      BY <2>1, <3>1
    <3>3. Head(s) = s[1] /\ s[1] \in T /\ s[Len(s)] \in T
      BY <3>2
    <3> QED
      BY <3>1, <3>3 DEF Last
  <2>3. /\ bar.open = Price[s[1]] /\ bar.close = Price[s[Len(s)]]
        /\ \E n \in Range(s) : bar.high = Price[n]
        /\ \E n \in Range(s) : bar.low = Price[n]
        /\ \A n \in Range(s) : bar.low <= Price[n] /\ Price[n] <= bar.high
    BY <2>1 DEF Summary
  <2>4. \A n \in Range(s) : Price[n] = ticks[n].price
    BY <2>1
  <2> HIDE DEF s, N
  <2> QED
    BY <2>1, <2>2, <2>3, <2>4 DEF s
<1> QED
  BY <1>1, ReceiverInvariant, PTL

\* The volume of a bar, tick by tick: no more than its ticks traded and counted
\* again, and as much where none of them begins a session.
THEOREM VolumesAccounted == ReceiverSpec => []VolumeAccounted
<1>1. ASSUME ReceiverInv PROVE VolumeAccounted
  <2> SUFFICES ASSUME NEW bar \in AllBars
               PROVE  LET again == Total([i \in DOMAIN bar.ticks |-> Recounted(bar.ticks[i])])
                      IN  /\ bar.volume <= Traded(bar) + again
                          /\ (\A n \in Range(bar.ticks) : ~ticks[n].fresh)
                                => bar.volume = Traded(bar) + again
    BY DEF VolumeAccounted
  <2> DEFINE N == Len(ticks)
             added == Mapped(Amount, bar.ticks)
             traded == [i \in DOMAIN bar.ticks |-> ticks[bar.ticks[i]].traded]
             again == [i \in DOMAIN bar.ticks |-> Recounted(bar.ticks[i])]
  <2>1. /\ bar.ticks \in Seq(1 .. N) /\ Range(bar.ticks) \in SUBSET (1 .. N)
        /\ bar.volume = Total(added)
        /\ \A n \in 1 .. N : Amount[n] = Counted(n)
    <3>1. Summary(bar, N, Price, Amount)
      BY <1>1, BarTicks
    <3>2. bar.volume = Total(added)
      BY <3>1 DEF Summary
    <3> QED
      BY <1>1, <3>2, BarTicks
  <2>2. PICK s : s = bar.ticks
    OBVIOUS
  <2>3. /\ s \in Seq(1 .. N) /\ Len(s) \in Nat /\ DOMAIN s = 1 .. Len(s)
        /\ \A i \in 1 .. Len(s) : s[i] \in 1 .. N /\ s[i] \in Range(s)
    BY <2>1, <2>2 DEF Range
  <2>4. \A n \in 1 .. N : ticks[n].traded \in Nat
    <3>1. \A n \in 1 .. N : ticks[n] \in TickRow
      BY <1>1 DEF ReceiverInv, BarsInv
    <3> QED
      BY <3>1 DEF TickRow
  <2>5. \A n \in 1 .. N : TickAccounted(n)
    <3>1. DOMAIN ticks = 1 .. N
      BY <1>1 DEF ReceiverInv, BarsInv
    <3> QED
      BY <1>1, <3>1 DEF ReceiverInv, TicksInv
  <2>6. \A n \in 1 .. N : /\ Recounted(n) \in Nat
                          /\ Counted(n) <= ticks[n].traded + Recounted(n)
                          /\ ~ticks[n].fresh => Counted(n) = ticks[n].traded + Recounted(n)
    BY <2>5 DEF TickAccounted
  <2>7. IsMapped(added, Amount, s)
    BY <1>1, <2>2, <2>3, MappedType, PriceAmountType DEF ReceiverInv, BarsInv
  <2>8. /\ added \in Seq(Int) /\ Len(added) = Len(s)
        /\ \A i \in 1 .. Len(s) : added[i] = Counted(s[i])
    BY <2>1, <2>3, <2>7 DEF IsMapped
  <2>9. /\ traded \in Seq(Int) /\ Len(traded) = Len(s)
        /\ \A i \in 1 .. Len(s) : traded[i] = ticks[s[i]].traded
    BY <2>2, <2>3, <2>4
  <2>10. /\ again \in Seq(Int) /\ Len(again) = Len(s)
         /\ \A i \in 1 .. Len(s) : again[i] = Recounted(s[i])
    BY <2>2, <2>3, <2>6
  <2>11. Traded(bar) = Total(traded)
    BY DEF Traded
  <2> HIDE DEF added, traded, again, N
  <2>12. \A i \in 1 .. Len(s) : /\ added[i] <= traded[i] + again[i]
                                /\ ~ticks[s[i]].fresh => added[i] = traded[i] + again[i]
    BY <2>3, <2>6, <2>8, <2>9, <2>10
  <2>13. \A i \in 1 .. Len(added) : added[i] <= traded[i] + again[i]
    BY <2>8, <2>12
  <2>14. /\ Total(added) <= Total(traded) + Total(again)
         /\ (\A i \in 1 .. Len(added) : added[i] = traded[i] + again[i])
                => Total(added) = Total(traded) + Total(again)
    BY <2>8, <2>9, <2>10, <2>13, TotalCompares
  <2>15. ASSUME \A n \in Range(bar.ticks) : ~ticks[n].fresh
         PROVE  \A i \in 1 .. Len(added) : added[i] = traded[i] + again[i]
    BY <2>2, <2>3, <2>8, <2>12, <2>15
  <2>16. /\ bar.volume <= Traded(bar) + Total(again)
         /\ (\A n \in Range(bar.ticks) : ~ticks[n].fresh)
                => bar.volume = Traded(bar) + Total(again)
    BY <2>1, <2>11, <2>14, <2>15
  <2> QED
    BY <2>16 DEF again
<1> QED
  BY <1>1, ReceiverInvariant, PTL

-----------------------------------------------------------------------------
(* What follows for the timeframes.                                        *)

\* The ticks of a stretch begin with those of its first bar, and they are the
\* ticks of its bars.
LEMMA StretchIs ==
    ASSUME NEW T, NEW n \in Nat, NEW c, NEW w \in Nat \ {0}, NEW i \in 1 .. n,
           i + w <= n + 1, \A k \in 1 .. n : c[k].ticks \in Seq(T) /\ c[k].ticks # <<>>
    PROVE  /\ Stretch(c, i, w)[1] = c[i].ticks[1]
           /\ \A k \in i .. i + w - 1 :
                  Range(c[k].ticks) \in SUBSET Range(Stretch(c, i, w))
<1> DEFINE q == [j \in 1 .. w |-> c[i + j - 1].ticks]
<1>1. \A j \in 1 .. w : i + j - 1 \in 1 .. n
  OBVIOUS
<1>2. q \in Seq(Seq(T)) /\ Len(q) = w /\ q # <<>>
  <2>1. q \in [1 .. w -> Seq(T)]
    BY <1>1
  <2> HIDE DEF q
  <2> QED
    BY <2>1
<1>3. \A j \in 1 .. w : q[j] = c[i + j - 1].ticks /\ q[j] # <<>>
  BY <1>1
<1>4. q[1] = c[i].ticks
  BY <1>3
<1>5. Stretch(c, i, w) = FlattenSeq(q)
  BY DEF Stretch
<1> HIDE DEF q
<1>6. /\ FlattenSeq(q)[1] = q[1][1]
      /\ \A x : x \in Range(FlattenSeq(q)) <=> \E j \in 1 .. Len(q) : x \in Range(q[j])
  BY <1>2, <1>3, Flattened
<1>7. ASSUME NEW k \in i .. i + w - 1
      PROVE  Range(c[k].ticks) \in SUBSET Range(Stretch(c, i, w))
  <2>1. k - i + 1 \in 1 .. w /\ i + (k - i + 1) - 1 = k
    OBVIOUS
  <2>2. q[k - i + 1] = c[k].ticks
    BY <1>3, <2>1
  <2> QED
    BY <1>2, <1>5, <1>6, <2>1, <2>2
<1> QED
  BY <1>4, <1>5, <1>6, <1>7

\* What the timeframe has, in the invariant's terms.
LEMMA TimeframeIs ==
    ASSUME ReceiverInv, NEW tf \in Timeframes
    PROVE  /\ Window[tf] \in Nat \ {0} /\ Len(completed) \in Nat
           /\ \A k \in 1 .. Len(completed) :
                  completed[k].ticks \in Seq(Nat) /\ completed[k].ticks # <<>>
           /\ appended[tf] \in Seq(Good) /\ buffer[tf] \in Seq(Good)
           /\ since[tf] \in Nat
           /\ Windowed(Window[tf], tf \in registered, since[tf], Row(tf), completed,
                       Len(completed))
<1>1. /\ completed \in Seq(Good) /\ since \in [Timeframes -> Nat]
      /\ buffer \in [Timeframes -> Seq(Good)] /\ appended \in [Timeframes -> Seq(Good)]
  BY DEF ReceiverInv, BarsInv
<1>2. \A k \in 1 .. Len(completed) : completed[k] \in Good
  BY <1>1
<1>3. \A bar \in Good : bar.ticks \in Seq(Nat) /\ bar.ticks # <<>>
  BY DEF Good, Bars, BarRow, Summary
<1> QED
  BY <1>1, <1>2, <1>3, ReceiverAssumption DEF ReceiverInv, WindowsInv

\* No one-minute bar goes into two bars of a timeframe: the bars stand one
\* after the other, and where a bar stands is told by its first tick.
THEOREM NoBarInTwoWindows == ReceiverSpec => []WindowsConsecutive
<1>1. ASSUME ReceiverInv PROVE WindowsConsecutive
  <2> SUFFICES ASSUME NEW tf \in Timeframes
               PROVE  LET w == Window[tf]
                          Ticks(i) == FlattenSeq([j \in 1 .. w |-> completed[i + j - 1].ticks])
                          starts == [m \in DOMAIN appended[tf] |->
                                        {i \in 1 .. Len(completed) - w + 1 :
                                            Ticks(i) = appended[tf][m].ticks}]
                      IN  /\ \A m \in DOMAIN starts : starts[m] # {}
                          /\ \A m \in 1 .. Len(starts) - 1 :
                                \A i \in starts[m], j \in starts[m + 1] : i + w <= j
    BY DEF WindowsConsecutive
  <2>1. PICK w, c, n, a, b : /\ w = Window[tf] /\ c = completed /\ n = Len(completed)
                             /\ a = appended[tf] /\ b = Len(buffer[tf])
    OBVIOUS
  <2> DEFINE Starts(m) == {i \in 1 .. n - w + 1 : Stretch(c, i, w) = a[m].ticks}
             starts == [m \in DOMAIN a |-> Starts(m)]
  <2>2. /\ w \in Nat \ {0} /\ n \in Nat /\ b \in Nat /\ Len(a) \in Nat
        /\ DOMAIN a = 1 .. Len(a)
        /\ \A k \in 1 .. n : c[k].ticks \in Seq(Nat) /\ c[k].ticks # <<>>
    BY <1>1, <2>1, TimeframeIs
  <2>3. PICK at : Placed(at, a, b, w, tf \in registered, since[tf], c, n)
    <3>1. Windowed(w, tf \in registered, since[tf], Row(tf), c, n)
      BY <1>1, <2>1, TimeframeIs
    <3>2. Row(tf).appended = a /\ Len(Row(tf).buffer) = b
      BY <2>1 DEF Row
    <3> QED
      BY <3>1, <3>2 DEF Windowed
  <2>4. /\ \A m \in 1 .. Len(a) : /\ at[m] \in 1 .. n /\ at[m] + w <= n - b + 1
                                  /\ a[m].ticks = Stretch(c, at[m], w)
        /\ \A m \in 1 .. Len(a) - 1 : at[m] + w <= at[m + 1]
    BY <2>3 DEF Placed
  <2>5. \A m \in 1 .. Len(a) : at[m] \in Starts(m)
    <3> TAKE m \in 1 .. Len(a)
    <3>1. PICK p : p = at[m]
      OBVIOUS
    <3>2. p \in 1 .. n /\ p + w <= n - b + 1 /\ Stretch(c, p, w) = a[m].ticks
      BY <2>4, <3>1
    <3>3. p \in 1 .. n - w + 1
      BY <2>2, <3>2
    <3> QED
      BY <3>1, <3>2, <3>3
  <2>6. ASSUME NEW m \in 1 .. Len(a), NEW i \in Starts(m)
        PROVE  i = at[m]
    <3>1. PICK p : p = at[m]
      OBVIOUS
    <3>2. /\ p \in 1 .. n - w + 1 /\ Stretch(c, p, w) = a[m].ticks
          /\ i \in 1 .. n - w + 1 /\ Stretch(c, i, w) = a[m].ticks
      BY <2>5, <3>1
    <3>3. p \in 1 .. n /\ p + w <= n + 1 /\ i \in 1 .. n /\ i + w <= n + 1
      BY <2>2, <3>2
    <3>4. /\ Stretch(c, p, w)[1] = c[p].ticks[1]
          /\ Stretch(c, i, w)[1] = c[i].ticks[1]
      <4>1. ASSUME NEW k \in 1 .. n, k + w <= n + 1
            PROVE  Stretch(c, k, w)[1] = c[k].ticks[1]
        <5> HIDE DEF Starts
        <5>1. \A x \in 1 .. n : c[x].ticks \in Seq(Nat) /\ c[x].ticks # <<>>
          BY <2>2
        <5>2. n \in Nat /\ w \in Nat \ {0}
          BY <2>2
        <5>3. /\ Stretch(c, k, w)[1] = c[k].ticks[1]
              /\ \A x \in k .. k + w - 1 :
                     Range(c[x].ticks) \in SUBSET Range(Stretch(c, k, w))
          BY <4>1, <5>1, <5>2, StretchIs
        <5> QED
          BY <5>3
      <4> QED
        BY <3>3, <4>1
    <3>5. c[i].ticks[1] = c[p].ticks[1]
      BY <3>2, <3>4
    <3> QED
      BY <1>1, <2>1, <3>1, <3>3, <3>5 DEF ReceiverInv, FirstsInv
  <2> HIDE DEF Starts
  <2>7. /\ DOMAIN starts = 1 .. Len(a) /\ Len(starts) = Len(a)
        /\ \A m \in 1 .. Len(a) : starts[m] = Starts(m)
    BY <2>2
  <2> HIDE DEF starts
  <2>8. \A m \in DOMAIN starts : starts[m] # {}
    BY <2>5, <2>7
  <2>9. ASSUME NEW m \in 1 .. Len(starts) - 1, NEW i \in starts[m], NEW j \in starts[m + 1]
        PROVE  i + w <= j
    <3>1. m \in 1 .. Len(a) /\ m + 1 \in 1 .. Len(a) /\ m \in 1 .. Len(a) - 1
      BY <2>2, <2>7
    <3>2. i \in Starts(m) /\ j \in Starts(m + 1)
      BY <2>7, <2>9, <3>1
    <3>3. i = at[m] /\ j = at[m + 1]
      BY <2>6, <3>1, <3>2
    <3> QED
      BY <2>4, <3>1, <3>3
  <2>10. starts = [m \in DOMAIN appended[tf] |->
                      {i \in 1 .. Len(completed) - Window[tf] + 1 :
                          FlattenSeq([j \in 1 .. Window[tf] |-> completed[i + j - 1].ticks])
                              = appended[tf][m].ticks}]
    BY <2>1 DEF starts, Starts, Stretch
  <2> QED
    BY <2>1, <2>8, <2>9, <2>10
<1> QED
  BY <1>1, ReceiverInvariant, PTL

\* While a timeframe is registered no one-minute bar is lost: each is in the
\* stretch of an appended bar, or behind them all and waits in the buffer.
THEOREM NoBarSkipped == ReceiverSpec => []NothingSkipped
<1>1. ASSUME ReceiverInv PROVE NothingSkipped
  <2> SUFFICES ASSUME NEW tf \in registered, NEW i \in since[tf] + 1 .. Len(completed)
               PROVE  \E bar \in Range(appended[tf]) \cup Range(buffer[tf]) :
                          Range(completed[i].ticks) \subseteq Range(bar.ticks)
    BY DEF NothingSkipped
  <2>1. tf \in Timeframes
    BY <1>1 DEF ReceiverInv, BarsInv
  <2>2. PICK w, c, n, a, q, from : /\ w = Window[tf] /\ c = completed /\ n = Len(completed)
                                   /\ a = appended[tf] /\ q = buffer[tf] /\ from = since[tf]
    OBVIOUS
  <2>3. /\ w \in Nat \ {0} /\ n \in Nat /\ Len(a) \in Nat /\ Len(q) \in Nat /\ from \in Nat
        /\ DOMAIN a = 1 .. Len(a) /\ DOMAIN q = 1 .. Len(q)
        /\ \A k \in 1 .. n : c[k].ticks \in Seq(Nat) /\ c[k].ticks # <<>>
    <3>1. PICK G : G = Good
      OBVIOUS
    <3>2. /\ w \in Nat \ {0} /\ n \in Nat /\ a \in Seq(G) /\ q \in Seq(G) /\ from \in Nat
          /\ \A k \in 1 .. n : c[k].ticks \in Seq(Nat) /\ c[k].ticks # <<>>
      BY <1>1, <2>1, <2>2, <3>1, TimeframeIs
    <3> QED
      BY <3>2
  <2>4. i \in from + 1 .. n /\ i \in 1 .. n
    BY <2>2, <2>3
  <2>5. /\ Len(q) <= n
        /\ \A j \in 1 .. Len(q) : q[j] = c[n - Len(q) + j]
        /\ \E at : Placed(at, a, Len(q), w, TRUE, from, c, n)
    <3>1. Windowed(w, tf \in registered, from, Row(tf), c, n)
      BY <1>1, <2>1, <2>2, TimeframeIs
    <3>2. Row(tf).appended = a /\ Row(tf).buffer = q /\ (tf \in registered) = TRUE
      BY <2>2 DEF Row
    <3> QED
      BY <3>1, <3>2 DEF Windowed
  <2>6. CASE i <= n - Len(q)
    <3>1. PICK at : Placed(at, a, Len(q), w, TRUE, from, c, n)
      BY <2>5
    <3>2. i \in from + 1 .. n - Len(q)
      BY <2>3, <2>4, <2>6
    <3>3. PICK m \in 1 .. Len(a) : at[m] <= i /\ i < at[m] + w
      BY <3>1, <3>2 DEF Placed
    <3>4. PICK p : p = at[m]
      OBVIOUS
    <3>5. p \in 1 .. n /\ p + w <= n - Len(q) + 1 /\ a[m].ticks = Stretch(c, p, w)
      BY <3>1, <3>4 DEF Placed
    <3>6. p + w <= n + 1 /\ i \in p .. p + w - 1
      BY <2>3, <2>4, <3>3, <3>4, <3>5
    <3>7. Range(c[i].ticks) \in SUBSET Range(Stretch(c, p, w))
      BY <2>3, <3>5, <3>6, StretchIs, ZenonT(30)
    <3>8. a[m] \in Range(appended[tf])
      BY <2>2, <2>3 DEF Range
    <3> QED
      BY <2>2, <3>5, <3>7, <3>8
  <2>7. CASE i > n - Len(q)
    <3>1. PICK j : j = i - (n - Len(q))
      OBVIOUS
    <3>2. j \in 1 .. Len(q) /\ n - Len(q) + j = i
      BY <2>3, <2>4, <2>7, <3>1
    <3>3. q[j] = c[i]
      BY <2>5, <3>2
    <3>4. q[j] \in Range(buffer[tf])
      BY <2>2, <2>3, <3>2 DEF Range
    <3> QED
      BY <2>2, <3>3, <3>4
  <2> QED
    BY <2>3, <2>4, <2>6, <2>7
<1> QED
  BY <1>1, ReceiverInvariant, PTL

-----------------------------------------------------------------------------
(* The decision table.                                                     *)

\* A position is opened only when there is none and all the gates agree: the
\* three timeframes point the same way, nothing speaks against it, and the
\* score is beyond the threshold on that side.
THEOREM OpensOnlyWhenAgreed ==
    ASSUME NEW c \in Context, Evaluate(c) \in {"buy", "short"}
    PROVE  /\ c.position = "flat" /\ ~c.cooldown /\ ~c.failure /\ ~c.conflict
           /\ Aligned(c) /\ GatePassed(c) /\ c.secondPush
           /\ Evaluate(c) = "buy" => Signal(c, "up")
           /\ Evaluate(c) = "short" => Signal(c, "down")
<1>1. Closing(c.position) \in {"sell", "cover", "wait"}
  BY DEF Context, Positions, Closing
<1>2. /\ ~c.cooldown /\ ~c.failure /\ ~c.conflict
      /\ Aligned(c) /\ GatePassed(c) /\ c.secondPush
      /\ Evaluate(c) = Following(c)
  BY <1>1 DEF Evaluate, Context
<1>3. /\ Following(c) = "buy" => Signal(c, "up") /\ c.position = "flat"
      /\ Following(c) = "short" => Signal(c, "down") /\ c.position = "flat"
  BY DEF Following, Context, Positions
<1> QED BY <1>2, <1>3

\* A long position is only ever ended by a sell and a short one by a cover, and
\* neither is turned over: the strategy gets flat before it opens again.
THEOREM ClosesWhatIsOpen ==
    ASSUME NEW c \in Context
    PROVE  /\ Evaluate(c) = "sell" => c.position = "long"
           /\ Evaluate(c) = "cover" => c.position = "short"
<1>1. /\ Closing(c.position) = "sell" => c.position = "long"
      /\ Closing(c.position) = "cover" => c.position = "short"
  BY DEF Context, Positions, Closing
<1>2. /\ Following(c) = "sell" => c.position = "long"
      /\ Following(c) = "cover" => c.position = "short"
  BY DEF Following, Context, Positions
<1>3. Evaluate(c) \in {"wait", Closing(c.position), Following(c)}
  BY DEF Evaluate
<1> QED BY <1>1, <1>2, <1>3

\* With the stage that the score defines, nothing is opened on a score below 45:
\* the threshold of a critical stage, lowered as far as a signal can, is just
\* out of the reach of a critical score.
THEOREM CriticalNeverOpens ==
    ASSUME NEW c \in Context, c.stage = Stage(c.score), Evaluate(c) \in {"buy", "short"}
    PROVE  c.score >= 45 \/ c.score <= -45
<1>1. c.score \in Int /\ c.behavior \in Behaviors \cup {"absent"}
  BY DEF Context
<1>2. c.stage # "failed"
  BY DEF Evaluate, Following, Closing, Context, Positions
<1>3. ThresholdShift(c.behavior) \in -10 .. 15
  BY <1>1 DEF ThresholdShift, Behaviors, Accepts, Rejects
<1>4. \/ c.score >= OpenThreshold(c)
      \/ c.score <= -OpenThreshold(c)
  BY OpensOnlyWhenAgreed DEF Signal
<1>5. CASE c.stage = "critical"
  <2>1. BaseThreshold(c.stage) = 55
    BY <1>5 DEF BaseThreshold
  <2>2. OpenThreshold(c) >= 45
    BY <1>3, <2>1 DEF OpenThreshold, Clamp
  <2>3. OpenThreshold(c) \in Int
    BY <1>3, <2>1 DEF OpenThreshold, Clamp
  <2> QED BY <1>1, <1>4, <2>2, <2>3
<1>6. CASE c.stage # "critical"
  BY <1>1, <1>2, <1>6 DEF Stage
<1> QED BY <1>5, <1>6

\* What the strategy asks is answered with wait, whatever was made of the bar.
THEOREM StrategyWaits ==
    ASSUME NEW sd, NEW signal
    PROVE  Evaluate(StrategyContext(sd, signal)) = "wait"
<1> DEFINE c == StrategyContext(sd, signal)
<1>1. c.position = "flat" /\ c.cooldown = FALSE
  BY DEF StrategyContext
<1>2. c.higher = "none"
  BY DEF StrategyContext, TimeframeSd, DefaultSd, ToDirection
<1> HIDE DEF c
<1>3. Closing(c.position) = "wait"
  BY <1>1 DEF Closing
<1>4. ~Aligned(c)
  BY <1>2 DEF Aligned
<1>5. Evaluate(c) = "wait"
  BY <1>1, <1>3, <1>4 DEF Evaluate
<1> QED BY <1>5 DEF c

-----------------------------------------------------------------------------
(* The run.                                                                *)

\* A stretch of a sequence goes on with the element behind it.
LEMMA SubSeqExtend ==
    ASSUME NEW S, NEW seq \in Seq(S), NEW m \in Nat, NEW n \in Nat, m <= n, n < Len(seq)
    PROVE  Append(SubSeq(seq, m + 1, n), seq[n + 1]) = SubSeq(seq, m + 1, n + 1)
<1>1. m + 1 \in 1 .. Len(seq) /\ n + 1 \in m + 1 .. Len(seq) /\ (n + 1) - 1 = n
  OBVIOUS
<1>2. SubSeq(seq, m + 1, n + 1) = SubSeq(seq, m + 1, n) \o <<seq[n + 1]>>
  BY <1>1, SubSeqRecursiveSecond
<1>3. SubSeq(seq, m + 1, n) \in Seq(S) /\ seq[n + 1] \in S
  BY <1>1
<1> QED BY <1>2, <1>3, AppendIsConcat

\* The types of the state, and that a run subscribes at least one symbol.
TypeInv ==
    /\ mode \in {"Ctp", "Binance"} /\ policy \in {"DropNewest", "DropOldest"}
    /\ symbols \in Seq(Names) /\ symbols # <<>>
    /\ phase \in {"subscribing", "pumping", "looping", "done", "aborted"}
    /\ due \in Nat /\ (phase = "subscribing" => due > 0)
    /\ attempts \in Nat /\ published \in Nat
    /\ ingress \in Seq(Nat)
    /\ sent \in [Names -> Seq(Nat)]
    /\ next \in [Names -> Nat]
    /\ received \in [Names -> Seq(Nat)]

\* Before the loop nothing is received, and nothing is queued or sent that was
\* not published.
PumpInv ==
    phase \in {"subscribing", "pumping"} =>
        /\ Len(ingress) <= published
        /\ \A s \in Names : Len(sent[s]) <= published /\ next[s] = 0 /\ received[s] = <<>>

\* A subscriber in the loop: what it has received, and that the iterations to
\* come suffice for the rest.
Served(s) ==
    /\ received[s] = SubSeq(OnChannel(s), Overwritten(s) + 1, next[s])
    /\ Lagged(s) => next[s] = 0 /\ ChannelCapacity < due
    /\ ~Lagged(s) => next[s] <= Len(OnChannel(s)) /\ Len(OnChannel(s)) - next[s] <= due

LoopInv ==
    phase \in {"looping", "done"} =>
        /\ Len(ingress) <= due
        /\ \A s \in Range(symbols) : Served(s)
        /\ phase = "done" => due = 0

RInv == TypeInv /\ PumpInv /\ LoopInv

\* Who subscribed has a name, and the channel of a name is a sequence of bars.
LEMMA ChannelOf ==
    ASSUME TypeInv
    PROVE  /\ Range(symbols) \subseteq Names
           /\ \A s \in Names : /\ ChannelKey(s) \in Names /\ OnChannel(s) = sent[ChannelKey(s)]
                              /\ OnChannel(s) \in Seq(Nat) /\ Len(OnChannel(s)) \in Nat
                              /\ Overwritten(s) \in Nat /\ Overwritten(s) <= Len(OnChannel(s))
                              /\ Len(OnChannel(s)) - Overwritten(s) <= ChannelCapacity
<1>1. Range(symbols) \subseteq Names
  BY DEF TypeInv, Range
<1>2. \A s \in Names : ChannelKey(s) \in Names
  BY RuntimeAssumption DEF ChannelKey
<1>3. \A s \in Names : /\ OnChannel(s) = sent[ChannelKey(s)]
                      /\ OnChannel(s) \in Seq(Nat) /\ Len(OnChannel(s)) \in Nat
  BY <1>2 DEF TypeInv, OnChannel
<1>4. \A s \in Names : /\ Overwritten(s) \in Nat /\ Overwritten(s) <= Len(OnChannel(s))
                      /\ Len(OnChannel(s)) - Overwritten(s) <= ChannelCapacity
  <2> TAKE s \in Names
  <2>1. Len(OnChannel(s)) \in Nat /\ ChannelCapacity \in Nat \ {0}
    BY <1>3, RuntimeAssumption
  <2> QED BY <2>1 DEF Overwritten
<1> QED BY <1>1, <1>2, <1>3, <1>4

LEMMA InitRInv == RuntimeInit => RInv
<1> SUFFICES ASSUME RuntimeInit PROVE RInv
  OBVIOUS
<1>1. Cardinality(Names) \in Nat
  BY RuntimeAssumption, FS_CardinalityType
<1>2. symbols \in Seq(Names) /\ symbols # <<>>
  BY <1>1 DEF RuntimeInit, SeqOf
<1>3. Len(symbols) \in Nat /\ Len(symbols) > 0
  BY <1>2
<1>4. TypeInv
  BY <1>2, <1>3 DEF RuntimeInit, TypeInv
<1> QED BY <1>4 DEF RuntimeInit, RInv, PumpInv, LoopInv

\* What Feed::ingest_broker_bar does to the queue and to the channels.
LEMMA IngestOne ==
    ASSUME TypeInv, NEW s, Ingest(s)
    PROVE  /\ published' = published + 1
           /\ ingress' \in Seq(Nat) /\ Len(ingress') <= Len(ingress) + 1
           /\ sent' \in [Names -> Seq(Nat)]
           /\ \A t \in Names : Len(sent'[t]) <= Len(sent[t]) + 1
<1>1. published + 1 \in Nat /\ IngressCapacity \in Nat \ {0}
  BY RuntimeAssumption DEF TypeInv
<1>2. ingress \in Seq(Nat) /\ Len(ingress) \in Nat
  BY DEF TypeInv
<1>3. ingress' \in Seq(Nat) /\ Len(ingress') <= Len(ingress) + 1
  <2>1. CASE Len(ingress) # IngressCapacity
    BY <1>1, <1>2, <2>1 DEF Ingest
  <2>2. CASE Len(ingress) = IngressCapacity
    BY <1>1, <1>2, <2>2 DEF Ingest
  <2> QED BY <2>1, <2>2
<1>4. \A t \in Names : /\ sent'[t] \in {sent[t], Append(sent[t], published + 1)}
                         /\ sent[t] \in Seq(Nat)
  BY DEF Ingest, TypeInv
<1>5. sent' \in [Names -> Seq(Nat)]
  <2>1. sent' = [t \in Names |-> sent'[t]]
    BY DEF Ingest, TypeInv
  <2>2. \A t \in Names : sent'[t] \in Seq(Nat)
    <3> TAKE t \in Names
    <3>1. sent[t] \in Seq(Nat) /\ sent'[t] \in {sent[t], Append(sent[t], published + 1)}
      BY <1>4
    <3>2. Append(sent[t], published + 1) \in Seq(Nat)
      BY <1>1, <3>1, AppendProperties
    <3> QED BY <3>1, <3>2
  <2> QED BY <2>1, <2>2
<1>6. \A t \in Names : Len(sent'[t]) <= Len(sent[t]) + 1
  <2> TAKE t \in Names
  <2>1. sent[t] \in Seq(Nat) /\ sent'[t] \in {sent[t], Append(sent[t], published + 1)}
    BY <1>4
  <2>2. Len(Append(sent[t], published + 1)) = Len(sent[t]) + 1 /\ Len(sent[t]) \in Nat
    BY <1>1, <2>1, AppendProperties
  <2> QED BY <2>1, <2>2
<1> QED BY <1>3, <1>5, <1>6 DEF Ingest

\* A step of the pump that may have ingested a bar.
LEMMA PumpStep ==
    ASSUME RInv, phase = "pumping",
           \/ \E s \in Names : Ingest(s)
           \/ UNCHANGED <<ingress, sent, published>>,
           phase' \in {"pumping", "aborted"}, attempts' \in Nat,
           UNCHANGED <<mode, policy, symbols, due, next, received>>
    PROVE  RInv'
<1>1. TypeInv /\ PumpInv
  BY DEF RInv
<1>2. /\ published' \in Nat
      /\ ingress' \in Seq(Nat) /\ Len(ingress') <= published'
      /\ sent' \in [Names -> Seq(Nat)]
      /\ \A t \in Names : Len(sent'[t]) <= published'
  <2>1. CASE \E s \in Names : Ingest(s)
    <3>1. PICK s \in Names : Ingest(s)
      BY <2>1
    <3>2. /\ published' = published + 1
          /\ ingress' \in Seq(Nat) /\ Len(ingress') <= Len(ingress) + 1
          /\ sent' \in [Names -> Seq(Nat)]
          /\ \A t \in Names : Len(sent'[t]) <= Len(sent[t]) + 1
      BY <1>1, <3>1, IngestOne
    <3>3. /\ published \in Nat /\ Len(ingress) \in Nat /\ Len(ingress') \in Nat
          /\ Len(ingress') <= published'
      <4>1. published \in Nat /\ ingress \in Seq(Nat) /\ Len(ingress) <= published
        BY <1>1 DEF TypeInv, PumpInv
      <4>2. Len(ingress) \in Nat /\ Len(ingress') \in Nat
        BY <3>2, <4>1
      <4> QED BY <3>2, <4>1, <4>2
    <3>4. \A t \in Names : Len(sent'[t]) <= published'
      <4> TAKE t \in Names
      <4>1. sent[t] \in Seq(Nat) /\ sent'[t] \in Seq(Nat) /\ Len(sent[t]) <= published
        BY <1>1, <3>2 DEF TypeInv, PumpInv
      <4>2. Len(sent[t]) \in Nat /\ Len(sent'[t]) \in Nat /\ Len(sent'[t]) <= Len(sent[t]) + 1
        BY <3>2, <4>1
      <4> QED BY <3>2, <3>3, <4>1, <4>2
    <3> QED BY <3>2, <3>3, <3>4
  <2>2. CASE UNCHANGED <<ingress, sent, published>>
    BY <1>1, <2>2 DEF TypeInv, PumpInv
  <2> QED BY <2>1, <2>2
<1>3. TypeInv'
  BY <1>1, <1>2 DEF TypeInv
<1>4. PumpInv' /\ LoopInv'
  BY <1>1, <1>2 DEF PumpInv, LoopInv
<1> QED BY <1>3, <1>4 DEF RInv

\* What a subscriber has received stays right where nothing changes for it.
LEMMA ServedStays ==
    ASSUME UNCHANGED <<symbols, due, sent, next, received>>, \A s \in Range(symbols) : Served(s)
    PROVE  \A s \in Range(symbols)' : Served(s)'
<1>1. Range(symbols)' = Range(symbols)
  BY DEF Range
<1>2. ASSUME NEW s \in Range(symbols) PROVE Served(s)'
  <2>1. OnChannel(s)' = OnChannel(s)
    BY DEF OnChannel
  <2>2. Overwritten(s)' = Overwritten(s)
    BY <2>1 DEF Overwritten
  <2>3. Lagged(s)' <=> Lagged(s)
    BY <2>2 DEF Lagged
  <2>4. Served(s)
    OBVIOUS
  <2> QED BY <2>1, <2>2, <2>3, <2>4 DEF Served
<1> QED BY <1>1, <1>2

\* When the pump ends, an iteration is due for each bar it published.
LEMMA EndPumpStep == RInv /\ EndPump /\ UNCHANGED <<mode, policy, symbols>> => RInv'
<1> SUFFICES ASSUME RInv, EndPump, UNCHANGED <<mode, policy, symbols>> PROVE RInv'
  OBVIOUS
<1>1. TypeInv /\ PumpInv /\ phase = "pumping" /\ due' = published
  BY DEF RInv, EndPump
<1>2. TypeInv'
  BY <1>1 DEF TypeInv, EndPump
<1>3. \A s \in Range(symbols)' : Served(s)'
  <2> SUFFICES ASSUME NEW s \in Range(symbols) PROVE Served(s)'
    OBVIOUS
  <2>1. s \in Names
    BY <1>1, ChannelOf
  <2>2. /\ ChannelKey(s) \in Names /\ OnChannel(s) = sent[ChannelKey(s)]
        /\ OnChannel(s) \in Seq(Nat) /\ Len(OnChannel(s)) \in Nat /\ Overwritten(s) \in Nat
    BY <1>1, <2>1, ChannelOf
  <2>3. /\ OnChannel(s)' = OnChannel(s) /\ Len(OnChannel(s)) <= published /\ published \in Nat
        /\ next'[s] = 0 /\ received'[s] = <<>> /\ ChannelCapacity \in Nat \ {0}
    BY <1>1, <2>1, <2>2, RuntimeAssumption DEF TypeInv, PumpInv, EndPump, OnChannel
  <2>4. Overwritten(s)' = Overwritten(s)
    BY <2>3 DEF Overwritten
  <2>5. SubSeq(OnChannel(s), Overwritten(s) + 1, 0) = <<>>
    BY <2>2, SubSeqEmpty
  <2>6. Lagged(s)' => ChannelCapacity < due'
    BY <1>1, <2>2, <2>3, <2>4 DEF Lagged, Overwritten
  <2>7. next'[s] <= Len(OnChannel(s)') /\ Len(OnChannel(s)') - next'[s] <= due'
    BY <1>1, <2>2, <2>3
  <2>8. received'[s] = SubSeq(OnChannel(s)', Overwritten(s)' + 1, next'[s])
    BY <2>3, <2>4, <2>5
  <2> QED BY <2>3, <2>6, <2>7, <2>8 DEF Served
<1>4. PumpInv' /\ LoopInv'
  BY <1>1, <1>3 DEF PumpInv, LoopInv, EndPump
<1> QED BY <1>2, <1>4 DEF RInv

\* An iteration serves every subscriber: one that lags is set to the oldest bar
\* kept, another receives a bar, a third has nothing left.
LEMMA IterateServes ==
    ASSUME RInv, Iterate, UNCHANGED <<mode, policy, symbols>>, NEW s \in Range(symbols)
    PROVE  Served(s)'
<1>0. TypeInv /\ s \in Names
  BY ChannelOf DEF RInv
<1>1. /\ OnChannel(s)' = OnChannel(s) /\ OnChannel(s) \in Seq(Nat) /\ Len(OnChannel(s)) \in Nat
      /\ next[s] \in Nat /\ due \in Nat /\ due > 0 /\ due' = due - 1
      /\ ChannelCapacity \in Nat \ {0}
  <2>1. OnChannel(s) \in Seq(Nat) /\ Len(OnChannel(s)) \in Nat
    BY <1>0, ChannelOf
  <2>2. OnChannel(s)' = OnChannel(s)
    BY DEF Iterate, OnChannel
  <2> QED BY <1>0, <2>1, <2>2, RuntimeAssumption DEF TypeInv, Iterate
<1>2. Served(s)
  BY DEF RInv, LoopInv, Iterate
<1>3. Overwritten(s)' = Overwritten(s) /\ Overwritten(s) \in Nat /\ Overwritten(s) <= Len(OnChannel(s))
      /\ Len(OnChannel(s)) - Overwritten(s) <= ChannelCapacity
  <2>1. Overwritten(s)' = Overwritten(s)
    BY <1>1 DEF Overwritten
  <2> QED BY <1>0, <2>1, ChannelOf
<1>4. /\ next'[s] = IF Lagged(s) THEN Overwritten(s) ELSE IF Ready(s) THEN next[s] + 1 ELSE next[s]
      /\ received'[s] = IF Ready(s) THEN Append(received[s], OnChannel(s)[next[s] + 1]) ELSE received[s]
  BY <1>0 DEF Iterate
<1>5. CASE Lagged(s)
  <2>1. next'[s] = Overwritten(s) /\ received'[s] = received[s]
    BY <1>4, <1>5 DEF Ready
  <2>2. received[s] = SubSeq(OnChannel(s), Overwritten(s) + 1, next[s]) /\ next[s] = 0 /\ ChannelCapacity < due
    BY <1>2, <1>5 DEF Served
  <2>3. /\ SubSeq(OnChannel(s), Overwritten(s) + 1, 0) = <<>>
        /\ SubSeq(OnChannel(s), Overwritten(s) + 1, Overwritten(s)) = <<>>
    BY <1>1, <1>3, SubSeqEmpty
  <2>4. ~Lagged(s)'
    BY <1>3, <2>1 DEF Lagged
  <2> QED BY <1>1, <1>3, <2>1, <2>2, <2>3, <2>4 DEF Served
<1>6. CASE Ready(s)
  <2>1. next'[s] = next[s] + 1 /\ received'[s] = Append(received[s], OnChannel(s)[next[s] + 1])
    BY <1>4, <1>6 DEF Ready
  <2>2. /\ received[s] = SubSeq(OnChannel(s), Overwritten(s) + 1, next[s])
        /\ next[s] < Len(OnChannel(s)) /\ Len(OnChannel(s)) - next[s] <= due /\ Overwritten(s) <= next[s]
    BY <1>1, <1>2, <1>3, <1>6 DEF Served, Ready, Lagged
  <2>3. Append(SubSeq(OnChannel(s), Overwritten(s) + 1, next[s]), OnChannel(s)[next[s] + 1])
          = SubSeq(OnChannel(s), Overwritten(s) + 1, next[s] + 1)
    BY <1>1, <1>3, <2>2, SubSeqExtend
  <2>4. ~Lagged(s)'
    <3>1. ~(next[s] + 1 < Overwritten(s))
      BY <1>1, <1>3, <2>2
    <3> QED BY <1>3, <2>1, <3>1 DEF Lagged
  <2>5. next'[s] <= Len(OnChannel(s)') /\ Len(OnChannel(s)') - next'[s] <= due'
    BY <1>1, <2>1, <2>2
  <2>6. received'[s] = SubSeq(OnChannel(s)', Overwritten(s)' + 1, next'[s])
    BY <1>1, <1>3, <2>1, <2>2, <2>3
  <2> QED BY <2>4, <2>5, <2>6 DEF Served
<1>7. CASE ~Lagged(s) /\ ~Ready(s)
  <2>1. next'[s] = next[s] /\ received'[s] = received[s]
    BY <1>4, <1>7
  <2>2. next[s] = Len(OnChannel(s)) /\ received[s] = SubSeq(OnChannel(s), Overwritten(s) + 1, next[s])
    BY <1>1, <1>2, <1>7 DEF Served, Ready
  <2>3. ~Lagged(s)'
    BY <1>3, <1>7, <2>1 DEF Lagged
  <2>4. next'[s] <= Len(OnChannel(s)') /\ Len(OnChannel(s)') - next'[s] <= due'
    BY <1>1, <2>1, <2>2
  <2>5. received'[s] = SubSeq(OnChannel(s)', Overwritten(s)' + 1, next'[s])
    BY <1>1, <1>3, <2>1, <2>2
  <2> QED BY <2>3, <2>4, <2>5 DEF Served
<1> QED BY <1>5, <1>6, <1>7

LEMMA IterateStep == RInv /\ Iterate /\ UNCHANGED <<mode, policy, symbols>> => RInv'
<1> SUFFICES ASSUME RInv, Iterate, UNCHANGED <<mode, policy, symbols>> PROVE RInv'
  OBVIOUS
<1>1. TypeInv /\ phase = "looping" /\ phase' = "looping" /\ due > 0 /\ due' = due - 1
      /\ Len(ingress) <= due
  BY DEF RInv, LoopInv, Iterate
<1>2. ingress' \in Seq(Nat) /\ Len(ingress') <= due'
  BY <1>1 DEF TypeInv, Iterate
<1>3. next' \in [Names -> Nat]
  <2>1. \A s \in Names : Overwritten(s) \in Nat /\ next[s] \in Nat
    BY <1>1, ChannelOf DEF TypeInv
  <2> DEFINE position(s) == IF s \notin Range(symbols) THEN next[s]
                            ELSE IF Lagged(s) THEN Overwritten(s)
                            ELSE IF Ready(s) THEN next[s] + 1 ELSE next[s]
  <2>2. \A s \in Names : position(s) \in Nat
    BY <2>1
  <2>3. next' = [s \in Names |-> position(s)]
    BY DEF Iterate
  <2> HIDE DEF position
  <2> QED BY <2>2, <2>3
<1>4. received' \in [Names -> Seq(Nat)]
  <2> DEFINE result(s) == IF s \in Range(symbols) /\ Ready(s)
                          THEN Append(received[s], OnChannel(s)[next[s] + 1]) ELSE received[s]
  <2>1. ASSUME NEW t \in Names PROVE result(t) \in Seq(Nat)
    <3>1. /\ OnChannel(t) \in Seq(Nat) /\ Len(OnChannel(t)) \in Nat
          /\ next[t] \in Nat /\ received[t] \in Seq(Nat)
      BY <1>1, ChannelOf DEF TypeInv
    <3>2. CASE t \in Range(symbols) /\ Ready(t)
      <4>1. OnChannel(t)[next[t] + 1] \in Nat
        BY <3>1, <3>2 DEF Ready
      <4>2. Append(received[t], OnChannel(t)[next[t] + 1]) \in Seq(Nat)
        BY <3>1, <4>1, AppendProperties
      <4> QED BY <3>2, <4>2, Zenon
    <3>3. CASE ~(t \in Range(symbols) /\ Ready(t))
      BY <3>1, <3>3, Zenon
    <3> QED BY <3>2, <3>3
  <2>2. received' = [s \in Names |-> result(s)]
    BY DEF Iterate
  <2> HIDE DEF result
  <2> QED BY <2>1, <2>2
<1>5. TypeInv'
  BY <1>1, <1>2, <1>3, <1>4 DEF TypeInv, Iterate
<1>6. \A s \in Range(symbols)' : Served(s)'
  BY IterateServes
<1>7. PumpInv' /\ LoopInv'
  BY <1>1, <1>2, <1>6 DEF PumpInv, LoopInv
<1> QED BY <1>5, <1>7 DEF RInv

LEMMA NextRInv == RInv /\ [RuntimeNext]_runtimeVars => RInv'
<1> SUFFICES ASSUME RInv, [RuntimeNext]_runtimeVars PROVE RInv'
  OBVIOUS
<1>1. CASE UNCHANGED runtimeVars
  <2>1. TypeInv' /\ PumpInv'
    BY <1>1 DEF runtimeVars, RInv, TypeInv, PumpInv
  <2>2. phase \in {"looping", "done"} => \A s \in Range(symbols)' : Served(s)'
    BY <1>1, ServedStays DEF runtimeVars, RInv, LoopInv
  <2>3. LoopInv'
    BY <1>1, <2>2 DEF runtimeVars, RInv, LoopInv
  <2> QED BY <2>1, <2>3 DEF RInv
<1>2. CASE SubscribeNext /\ UNCHANGED <<mode, policy, symbols>>
  <2>1. TypeInv'
    BY <1>2 DEF RInv, TypeInv, SubscribeNext
  <2>2. PumpInv' /\ LoopInv'
    BY <1>2 DEF RInv, PumpInv, LoopInv, SubscribeNext
  <2> QED BY <2>1, <2>2 DEF RInv
<1>3. CASE PumpFeed /\ UNCHANGED <<mode, policy, symbols>>
  <2>1. Default \in Names /\ attempts' \in Nat
    BY <1>3, RuntimeAssumption DEF RInv, TypeInv, PumpFeed
  <2> QED BY <1>3, <2>1, PumpStep DEF PumpFeed
<1>4. CASE PumpAdapter /\ UNCHANGED <<mode, policy, symbols>>
  <2>1. phase = "pumping" /\ phase' \in {"pumping", "aborted"} /\ attempts' \in Nat
    BY <1>4 DEF PumpAdapter, RInv, TypeInv
  <2>2. \/ \E s \in Names : Ingest(s)
        \/ UNCHANGED <<ingress, sent, published>>
    BY <1>4 DEF PumpAdapter
  <2> QED BY <1>4, <2>1, <2>2, PumpStep DEF PumpAdapter
<1>5. CASE EndPump /\ UNCHANGED <<mode, policy, symbols>>
  BY <1>5, EndPumpStep
<1>6. CASE Iterate /\ UNCHANGED <<mode, policy, symbols>>
  BY <1>6, IterateStep
<1>7. CASE Finish /\ UNCHANGED <<mode, policy, symbols>>
  <2>1. TypeInv'
    BY <1>7 DEF RInv, TypeInv, Finish
  <2>2. \A s \in Range(symbols)' : Served(s)'
    BY <1>7, ServedStays DEF RInv, LoopInv, Finish
  <2>3. PumpInv' /\ LoopInv'
    BY <1>7, <2>2 DEF RInv, PumpInv, LoopInv, Finish
  <2> QED BY <2>1, <2>3 DEF RInv
<1> QED BY <1>1, <1>2, <1>3, <1>4, <1>5, <1>6, <1>7 DEF RuntimeNext

\* A run that ends in order leaves nothing behind, for any number of symbols,
\* also such that share a channel, for any number of bars and polls, and for
\* channels and queues of any size.
THEOREM CaughtUpHolds == RuntimeSpec => []CaughtUp
<1>1. RInv => CaughtUp
  <2> SUFFICES ASSUME RInv, phase = "done"
               PROVE  (\A s \in Range(symbols) : received[s] = StillKept(s)) /\ ingress = <<>>
    BY DEF CaughtUp
  <2>1. due = 0 /\ Len(ingress) <= 0 /\ \A s \in Range(symbols) : Served(s)
    BY DEF RInv, LoopInv
  <2>2. ingress = <<>>
    BY <2>1 DEF RInv, TypeInv
  <2>3. ASSUME NEW s \in Range(symbols) PROVE received[s] = StillKept(s)
    <3>1. /\ next[s] \in Nat /\ Len(OnChannel(s)) \in Nat /\ ChannelCapacity \in Nat \ {0}
      BY ChannelOf, RuntimeAssumption DEF RInv, TypeInv
    <3>2. ~Lagged(s)
      BY <2>1, <3>1 DEF Served
    <3>3. next[s] = Len(OnChannel(s))
      BY <2>1, <3>1, <3>2 DEF Served
    <3> QED BY <2>1, <3>3 DEF Served, StillKept
  <2> QED BY <2>2, <2>3
<1> QED BY InitRInv, NextRInv, <1>1, PTL DEF RuntimeSpec

\* The strategy never acts, whatever the analysis makes of the bars.
THEOREM NeverActsHolds == RuntimeSpec => []NeverActs
<1>1. RuntimeInit => NeverActs
  BY DEF RuntimeInit, NeverActs
<1>2. NeverActs /\ [RuntimeNext]_runtimeVars => NeverActs'
  <2> SUFFICES ASSUME NeverActs, [RuntimeNext]_runtimeVars PROVE NeverActs'
    OBVIOUS
  <2>1. CASE Iterate
    BY <2>1, StrategyWaits DEF Iterate, NeverActs
  <2>2. CASE UNCHANGED decisions
    BY <2>2 DEF NeverActs
  <2> QED BY <2>1, <2>2
      DEF RuntimeNext, runtimeVars, SubscribeNext, PumpFeed, PumpAdapter, EndPump, Finish
<1> QED BY <1>1, <1>2, PTL DEF RuntimeSpec

=============================================================================
