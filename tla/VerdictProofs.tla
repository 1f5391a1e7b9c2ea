---------------------------- MODULE VerdictProofs ----------------------------
(***************************************************************************)
(* The policy engine (Rules) and the tools (Tools), proved for scenarios   *)
(* of any length, calendars of any length, any people, whoever manages     *)
(* whom, documents of any sections and any number of builds of the index.  *)
(*                                                                         *)
(* The loops of the code are recursive functions of a number.  That such a *)
(* function is defined, and what it keeps from one turn to the next, is    *)
(* proved once, in LoopIsDefined and UpFromTheFirst; what comes of a list  *)
(* that is put together or filtered, in FlattenInOrder and FilterKeeps.    *)
(* BackedProofs and StatedProofs rest on them too.                         *)
(***************************************************************************)
EXTENDS Tools, WellFoundedInduction, FiniteSetTheorems, SequenceTheorems, TLAPS

-----------------------------------------------------------------------------
(* Numbers and loops.                                                      *)
\* A set of numbers with 0 in it, and the next of each, has every number in it.
LEMMA UpTheNumbers ==
  ASSUME NEW S \in SUBSET Nat, 0 \in S, \A n \in S : n + 1 \in S
  PROVE  S = Nat
  <1> SUFFICES ASSUME Nat \ S # {} PROVE FALSE
    OBVIOUS
  <1>1. PICK m \in Nat \ S : \A n \in Nat \ S : ~(<<n, m>> \in OpToRel(<, Nat))
    BY NatLessThanWellFounded, WFMin
  <1>2. \A n \in Nat \ S : ~(n < m)
    BY <1>1 DEF OpToRel
  <1>3. m # 0 /\ m - 1 \in Nat
    OBVIOUS
  <1>4. m - 1 \in S /\ (m - 1) + 1 = m
    BY <1>2, <1>3
  <1> QED
    BY <1>4

\* Of the numbers of a set one is the least.
LEMMA MinIsLeast ==
  ASSUME NEW S \in SUBSET Nat, S # {}
  PROVE  Min(S) \in S /\ \A x \in S : Min(S) <= x
  <1>1. PICK m \in S : \A n \in S : ~(<<n, m>> \in OpToRel(<, Nat))
    BY NatLessThanWellFounded, WFMin
  <1>2. \A n \in S : ~(n < m)
    BY <1>1 DEF OpToRel
  <1>3. \A n \in S : m <= n
    BY <1>2
  <1> QED
    BY <1>3 DEF Min

\* A set with lo in it, and the next of each up to hi, has all of them in it.
LEMMA UpFromTheFirst ==
  ASSUME NEW lo \in Int, NEW hi \in Int, NEW S, lo \in S,
         \A n \in (lo + 1)..hi : n - 1 \in S => n \in S
  PROVE  \A n \in lo..hi : n \in S
  <1> DEFINE T == {k \in Nat : lo + k <= hi => lo + k \in S}
  <1>1. 0 \in T
    OBVIOUS
  <1>2. ASSUME NEW k \in T PROVE k + 1 \in T
    <2>1. CASE lo + (k + 1) <= hi
      <3>1. lo + (k + 1) \in (lo + 1)..hi /\ (lo + (k + 1)) - 1 = lo + k /\ lo + k <= hi
        BY <2>1
      <3>2. lo + k \in S
        BY <3>1
      <3> QED
        BY <3>1, <3>2
    <2> QED
      BY <2>1
  <1> HIDE DEF T
  <1>3. T = Nat
    <2>1. T \in SUBSET Nat
      BY DEF T
    <2>2. \A k \in T : k + 1 \in T
      BY <1>2
    <2> QED
      BY <2>1, <1>1, <2>2, UpTheNumbers
  <1>4. \A k \in Nat : lo + k <= hi => lo + k \in S
    BY <1>3 DEF T
  <1>5. \A n \in lo..hi : n - lo \in Nat /\ lo + (n - lo) = n
    OBVIOUS
  <1> QED
    BY <1>4, <1>5

\* f is what a loop has worked out from lo to hi, starting with b and going on as s says.
Loops(f, lo, hi, b, s) ==
    \A n \in lo..hi : f[n] = IF n = lo THEN b ELSE s[<<n, f[n - 1]>>]

\* There is such an f.
LEMMA LoopIsDefined ==
  ASSUME NEW lo \in Int, NEW hi \in Int, NEW D, NEW b \in D,
         NEW s \in [Int \X D -> D]
  PROVE  \E f \in [lo..hi -> D] : Loops(f, lo, hi, b, s)
  <1> DEFINE Goes(f, k) ==
                \A n \in lo..hi : n <= lo + k => f[n] = IF n = lo THEN b ELSE s[<<n, f[n - 1]>>]
             S == {k \in Nat : \E f \in [lo..hi -> D] : Goes(f, k)}
  <1>1. 0 \in S
    <2>1. [n \in lo..hi |-> b] \in [lo..hi -> D] /\ Goes([n \in lo..hi |-> b], 0)
      OBVIOUS
    <2> QED
      BY <2>1
  <1>2. ASSUME NEW k \in S PROVE k + 1 \in S
    <2>1. k \in Nat
      BY DEF S
    <2>2. PICK f \in [lo..hi -> D] : Goes(f, k)
      BY DEF S
    <2> DEFINE m == lo + k + 1
    <2>3. \E h \in [lo..hi -> D] : Goes(h, k + 1)
      <3>1. CASE m > hi
        <4>1. Goes(f, k + 1)
          BY <2>1, <2>2, <3>1
        <4> QED
          BY <4>1
      <3>2. CASE m <= hi
        <4> DEFINE g == [f EXCEPT ![m] = s[<<m, f[m - 1]>>]]
        <4>1. m \in Int /\ m - 1 \in lo..hi /\ m \in lo..hi
          BY <2>1, <3>2
        <4>2. s[<<m, f[m - 1]>>] \in D
          BY <4>1
        <4>3. g \in [lo..hi -> D]
          BY <4>2
        <4>4. ASSUME NEW n \in lo..hi, n <= lo + (k + 1)
              PROVE  g[n] = IF n = lo THEN b ELSE s[<<n, g[n - 1]>>]
          <5>1. n # lo => n - 1 \in lo..hi /\ n - 1 # m
            BY <2>1, <4>4
          <5>2. n # lo => g[n - 1] = f[n - 1]
            BY <5>1
          <5>3. CASE n = m
            <6>1. g[n] = s[<<m, f[m - 1]>>] /\ n # lo
              BY <2>1, <4>1, <5>3
            <6> QED
              BY <5>2, <5>3, <6>1
          <5>4. CASE n # m
            <6>1. g[n] = f[n] /\ n <= lo + k
              BY <2>1, <4>4, <5>4
            <6> HIDE DEF g
            <6> QED
              BY <2>2, <5>2, <6>1
          <5> QED
            BY <5>3, <5>4
        <4> HIDE DEF g
        <4>5. Goes(g, k + 1)
          BY <4>4
        <4> HIDE DEF Goes
        <4> QED
          BY <4>3, <4>5
      <3> HIDE DEF Goes
      <3> QED
        BY <2>1, <3>1, <3>2
    <2> HIDE DEF Goes
    <2> QED
      BY <2>1, <2>3
  <1> HIDE DEF S
  <1>3. S = Nat
    <2>1. S \in SUBSET Nat
      BY DEF S
    <2>2. \A k \in S : k + 1 \in S
      BY <1>2
    <2> QED
      BY <2>1, <1>1, <2>2, UpTheNumbers
  <1>4. CASE lo <= hi
    <2>1. hi - lo \in Nat
      BY <1>4
    <2>2. PICK f \in [lo..hi -> D] : Goes(f, hi - lo)
      BY <1>3, <2>1 DEF S
    <2>3. \A n \in lo..hi : n <= lo + (hi - lo)
      OBVIOUS
    <2> QED
      BY <2>2, <2>3 DEF Loops
  <1>5. CASE lo > hi
    <2>1. lo..hi = {} /\ [n \in lo..hi |-> b] \in [lo..hi -> D]
      BY <1>5
    <2> QED
      BY <2>1 DEF Loops
  <1> QED
    BY <1>4, <1>5

-----------------------------------------------------------------------------
(* Sequences. FlattenSeq is a fold, and Filter is made of it.              *)
\* What FlattenSeq puts together is put together from the left, one sequence after another.
LEMMA FlattenIsALoop ==
  ASSUME NEW T, NEW n \in Nat, NEW f \in [1..n -> Seq(T)]
  PROVE  \E g \in [0..n -> Seq(T)] :
            /\ g[0] = <<>>
            /\ \A i \in 1..n : g[i] = g[i - 1] \o f[i]
            /\ FlattenSeq(f) = g[n]
  <1>1. f \in Seq(Seq(T)) /\ Len(f) = n
    OBVIOUS
  <1>2. CASE n = 0
    <2>1. f = <<>> /\ FlattenSeq(f) = f
      BY <1>1, <1>2 DEF FlattenSeq
    <2>2. [i \in 0..n |-> <<>>] \in [0..n -> Seq(T)]
      OBVIOUS
    <2> DEFINE g == [i \in 0..n |-> <<>>]
    <2>3. g[0] = <<>> /\ g[n] = <<>> /\ \A i \in 1..n : g[i] = g[i - 1] \o f[i]
      BY <1>2
    <2> QED
      BY <2>1, <2>2, <2>3
  <1>3. CASE n # 0
    <2> DEFINE s == [x \in Int \X Seq(T) |-> IF x[1] \in 1..n THEN x[2] \o f[x[1]] ELSE x[2]]
    <2>1. f[1] \in Seq(T)
      BY <1>3
    <2>2. s \in [Int \X Seq(T) -> Seq(T)]
      <3> SUFFICES ASSUME NEW x \in Int \X Seq(T) PROVE (IF x[1] \in 1..n THEN x[2] \o f[x[1]] ELSE x[2]) \in Seq(T)
        OBVIOUS
      <3> QED
        OBVIOUS
    <2>3. \A x \in Int \X Seq(T) : x[1] \in 1..n => s[x] = x[2] \o f[x[1]]
      OBVIOUS
    <2> HIDE DEF s
    <2>4. \E h \in [1..n -> Seq(T)] : Loops(h, 1, n, f[1], s)
      <3>1. 1 \in Int /\ n \in Int
        OBVIOUS
      <3> QED
        BY ONLY <3>1, <2>1, <2>2, LoopIsDefined
    <2>5. PICK h \in [1..n -> Seq(T)] : Loops(h, 1, n, f[1], s)
      BY <2>4
    <2>6. \A i \in 1..n : h[i] = IF i = 1 THEN f[i] ELSE h[i - 1] \o f[i]
      <3> SUFFICES ASSUME NEW i \in 1..n PROVE h[i] = IF i = 1 THEN f[i] ELSE h[i - 1] \o f[i]
        OBVIOUS
      <3>1. i # 1 => i - 1 \in 1..n /\ <<i, h[i - 1]>> \in Int \X Seq(T)
        OBVIOUS
      <3>2. i # 1 => s[<<i, h[i - 1]>>] = h[i - 1] \o f[i]
        BY <2>3, <3>1
      <3> QED
        BY <2>5, <3>2 DEF Loops
    <2> DEFINE Is(k) == k = [i \in 1..n |-> IF i = 1 THEN f[i] ELSE k[i - 1] \o f[i]]
               flatten == CHOOSE k : Is(k)
    <2>7. Is(h)
      BY <2>6
    <2>8. Is(flatten)
      <3> HIDE DEF Is
      <3> QED
        BY <2>7
    <2>9. FlattenSeq(f) = flatten[n]
      BY <1>1, <1>3 DEF FlattenSeq
    <2>10. \A i \in 1..n : flatten[i] = IF i = 1 THEN f[i] ELSE flatten[i - 1] \o f[i]
      <3>1. flatten = [i \in 1..n |-> IF i = 1 THEN f[i] ELSE flatten[i - 1] \o f[i]]
        BY <2>8
      <3> HIDE DEF flatten
      <3> QED
        BY <3>1
    <2> HIDE DEF flatten, Is
    <2>11. \A i \in 1..n : i \in {j \in 1..n : flatten[j] = h[j]}
      <3>1. 1 \in {j \in 1..n : flatten[j] = h[j]}
        BY <1>3, <2>6, <2>10
      <3>2. ASSUME NEW i \in 2..n, flatten[i - 1] = h[i - 1] PROVE flatten[i] = h[i]
        <4>1. i \in 1..n /\ i # 1
          OBVIOUS
        <4> QED
          BY <2>6, <2>10, <3>2, <4>1
      <3>4. \A i \in 2..n : i - 1 \in {j \in 1..n : flatten[j] = h[j]} => i \in {j \in 1..n : flatten[j] = h[j]}
        BY <3>2
      <3>3. 1 \in Int /\ n \in Int /\ 1 + 1 = 2
        OBVIOUS
      <3> QED
        BY <3>1, <3>3, <3>4, UpFromTheFirst
    <2> DEFINE g == [i \in 0..n |-> IF i = 0 THEN <<>> ELSE h[i]]
    <2>12. g \in [0..n -> Seq(T)]
      OBVIOUS
    <2>13. \A i \in 1..n : g[i] = g[i - 1] \o f[i]
      <3> SUFFICES ASSUME NEW i \in 1..n PROVE g[i] = g[i - 1] \o f[i]
        OBVIOUS
      <3>1. CASE i = 1
        <4>1. g[i] = f[i] /\ g[i - 1] = <<>>
          BY <2>6, <3>1
        <4>2. f[i] \in Seq(T)
          OBVIOUS
        <4>3. <<>> \o f[i] = f[i]
          BY <4>2
        <4> HIDE DEF g
        <4> QED
          BY <4>1, <4>3
      <3>2. CASE i # 1
        <4>1. g[i] = h[i] /\ g[i - 1] = h[i - 1]
          BY <3>2
        <4> HIDE DEF g
        <4> QED
          BY <2>6, <3>2, <4>1
      <3> QED
        BY <3>1, <3>2
    <2>14. g[n] = FlattenSeq(f) /\ g[0] = <<>>
      BY <1>3, <2>9, <2>11
    <2> QED
      BY <2>12, <2>13, <2>14
  <1> QED
    BY <1>2, <1>3

\* Where the entries of out, put together from f, come from: at[k] is the place in f
\* of the sequence that the k-th entry was in.
ComesFrom(out, f, m, at) ==
    /\ \A k \in 1..Len(out) : at[k] \in 1..m /\ \E j \in 1..Len(f[at[k]]) : out[k] = f[at[k]][j]
    /\ \A j, k \in 1..Len(out) : j < k => at[j] <= at[k] /\ (Len(f[at[k]]) = 1 => at[j] < at[k])
    /\ \A i \in 1..m : \A j \in 1..Len(f[i]) : \E k \in 1..Len(out) : at[k] = i /\ out[k] = f[i][j]

\* So do they when one sequence more is put behind the others.
LEMMA OneSequenceMore ==
  ASSUME NEW T, NEW n \in Nat, NEW f \in [1..n -> Seq(T)], NEW m \in 1..n, NEW out \in Seq(T),
         NEW at, ComesFrom(out, f, m - 1, at)
  PROVE  ComesFrom(out \o f[m], f, m, [k \in 1..Len(out \o f[m]) |-> IF k <= Len(out) THEN at[k] ELSE m])
  <1> DEFINE more == out \o f[m]
             to == [k \in 1..Len(more) |-> IF k <= Len(out) THEN at[k] ELSE m]
  <1>1. f[m] \in Seq(T) /\ Len(out) \in Nat /\ Len(f[m]) \in Nat
    OBVIOUS
  <1>2. Len(more) = Len(out) + Len(f[m])
    BY <1>1
  <1>3. \A k \in 1..Len(more) : more[k] = IF k <= Len(out) THEN out[k] ELSE f[m][k - Len(out)]
    BY <1>1
  <1>4. \A k \in 1..Len(more) : to[k] = IF k <= Len(out) THEN at[k] ELSE m
    OBVIOUS
  <1> HIDE DEF more, to
  <1>5. ASSUME NEW k \in 1..Len(more) PROVE to[k] \in 1..m /\ \E j \in 1..Len(f[to[k]]) : more[k] = f[to[k]][j]
    <2>1. CASE k <= Len(out)
      <3>1. k \in 1..Len(out) /\ more[k] = out[k] /\ to[k] = at[k]
        BY <1>1, <1>3, <1>4, <2>1
      <3>2. at[k] \in 1..(m - 1) /\ \E j \in 1..Len(f[at[k]]) : out[k] = f[at[k]][j]
        BY <3>1 DEF ComesFrom
      <3>3. at[k] \in 1..m
        BY <3>2
      <3> QED
        BY <3>1, <3>2, <3>3
    <2>2. CASE ~(k <= Len(out))
      <3>1. k - Len(out) \in 1..Len(f[m]) /\ more[k] = f[m][k - Len(out)] /\ to[k] = m
        BY <1>1, <1>2, <1>3, <1>4, <2>2
      <3> QED
        BY <3>1
    <2> QED
      BY <2>1, <2>2
  <1>6. ASSUME NEW j \in 1..Len(more), NEW k \in 1..Len(more), j < k
        PROVE  to[j] <= to[k] /\ (Len(f[to[k]]) = 1 => to[j] < to[k])
    <2>1. CASE k <= Len(out)
      <3>1. k \in 1..Len(out) /\ j \in 1..Len(out) /\ to[j] = at[j] /\ to[k] = at[k]
        BY <1>1, <1>4, <1>6, <2>1
      <3> QED
        BY <1>6, <3>1 DEF ComesFrom
    <2>2. CASE ~(k <= Len(out))
      <3>1. to[k] = m
        BY <1>4, <2>2
      <3>2. CASE j <= Len(out)
        <4>1. j \in 1..Len(out) /\ to[j] = at[j]
          BY <1>1, <1>4, <3>2
        <4>2. at[j] \in 1..(m - 1)
          BY <4>1 DEF ComesFrom
        <4> QED
          BY <3>1, <4>1, <4>2
      <3>3. CASE ~(j <= Len(out))
        <4>1. to[j] = m
          BY <1>4, <3>3
        <4>2. j \in Int /\ k \in Int /\ j < k /\ k <= Len(out) + Len(f[m]) /\ Len(out) < j
          BY <1>1, <1>2, <1>6, <3>3
        <4> DEFINE a == Len(out)
                   b == Len(f[m])
        <4>3. a \in Nat /\ b \in Nat /\ k <= a + b /\ a < j
          BY <1>1, <4>2
        <4> HIDE DEF a, b
        <4>4. b # 1
          BY <4>2, <4>3
        <4>5. Len(f[m]) # 1
          BY <4>4 DEF b
        <4> QED
          BY <3>1, <4>1, <4>5
      <3> QED
        BY <3>2, <3>3
    <2> QED
      BY <2>1, <2>2
  <1>7. ASSUME NEW i \in 1..m, NEW j \in 1..Len(f[i])
        PROVE  \E k \in 1..Len(more) : to[k] = i /\ more[k] = f[i][j]
    <2>1. CASE i = m
      <3>1. Len(out) + j \in 1..Len(more) /\ ~(Len(out) + j <= Len(out)) /\ (Len(out) + j) - Len(out) = j
        BY <1>1, <1>2, <2>1
      <3> QED
        BY <1>3, <1>4, <2>1, <3>1
    <2>2. CASE i # m
      <3>1. i \in 1..(m - 1)
        BY <2>2
      <3>2. PICK k \in 1..Len(out) : at[k] = i /\ out[k] = f[i][j]
        BY <3>1 DEF ComesFrom
      <3>3. k \in 1..Len(more) /\ k <= Len(out)
        BY <1>1, <1>2
      <3> QED
        BY <1>3, <1>4, <3>2, <3>3
    <2> QED
      BY <2>1, <2>2
  <1>8. ComesFrom(more, f, m, to)
    BY <1>5, <1>6, <1>7 DEF ComesFrom
  <1> QED
    BY <1>8 DEF more, to

\* FlattenSeq leaves nothing out, adds nothing and keeps the order.
LEMMA FlattenInOrder ==
  ASSUME NEW T, NEW n \in Nat, NEW f \in [1..n -> Seq(T)]
  PROVE  FlattenSeq(f) \in Seq(T) /\ \E at : ComesFrom(FlattenSeq(f), f, n, at)
  <1>1. PICK g \in [0..n -> Seq(T)] : /\ g[0] = <<>>
                                      /\ \A i \in 1..n : g[i] = g[i - 1] \o f[i]
                                      /\ FlattenSeq(f) = g[n]
    BY FlattenIsALoop
  <1> DEFINE S == {m \in 0..n : \E at : ComesFrom(g[m], f, m, at)}
  <1>2. 0 \in S
    <2>1. g[0] = <<>> /\ Len(<<>>) = 0
      BY <1>1
    <2>2. ComesFrom(g[0], f, 0, <<>>)
      BY <2>1 DEF ComesFrom
    <2> QED
      BY <2>2
  <1>3. ASSUME NEW m \in 1..n, m - 1 \in S PROVE m \in S
    <2>1. PICK at : ComesFrom(g[m - 1], f, m - 1, at)
      BY <1>3
    <2>2. g[m - 1] \in Seq(T) /\ g[m] = g[m - 1] \o f[m]
      <3>1. m - 1 \in 0..n
        OBVIOUS
      <3> HIDE DEF S
      <3> QED
        BY <1>1, <3>1
    <2>3. \E to : ComesFrom(g[m - 1] \o f[m], f, m, to)
      BY <2>1, <2>2, OneSequenceMore
    <2>4. \E to : ComesFrom(g[m], f, m, to)
      BY <2>2, <2>3
    <2> QED
      BY <2>4
  <1>4. n \in S
    <2> HIDE DEF S
    <2>1. 0 \in Int /\ n \in Int /\ n \in 0..n /\ 0 + 1 = 1
      OBVIOUS
    <2>2. \A m \in (0 + 1)..n : m - 1 \in S => m \in S
      BY <1>3, <2>1
    <2> QED
      BY <1>2, <2>1, <2>2, UpFromTheFirst
  <1> QED
    BY <1>1, <1>4

\* What FlattenSeq puts together says all that its sequences say, and no more.
LEMMA FlattenSaysAll ==
  ASSUME NEW T, NEW n \in Nat, NEW f \in [1..n -> Seq(T)]
  PROVE  /\ FlattenSeq(f) \in Seq(T)
         /\ ToSet(FlattenSeq(f)) = UNION {ToSet(f[i]) : i \in 1..n}
  <1>1. PICK at : ComesFrom(FlattenSeq(f), f, n, at)
    BY FlattenInOrder
  <1>2. FlattenSeq(f) \in Seq(T)
    BY FlattenInOrder
  <1>3. \A i \in 1..n : f[i] \in Seq(T) /\ DOMAIN f[i] = 1..Len(f[i])
    OBVIOUS
  <1> DEFINE out == FlattenSeq(f)
  <1>4. DOMAIN out = 1..Len(out)
    BY <1>2
  <1> HIDE DEF out
  <1>5. ASSUME NEW k \in 1..Len(out) PROVE out[k] \in UNION {ToSet(f[i]) : i \in 1..n}
    <2>1. at[k] \in 1..n /\ \E j \in 1..Len(f[at[k]]) : out[k] = f[at[k]][j]
      BY <1>1 DEF ComesFrom, out
    <2> QED
      BY <1>3, <2>1 DEF ToSet
  <1>6. ASSUME NEW i \in 1..n, NEW x \in ToSet(f[i]) PROVE x \in ToSet(out)
    <2>1. PICK j \in 1..Len(f[i]) : x = f[i][j]
      BY <1>3 DEF ToSet
    <2>2. \E k \in 1..Len(out) : out[k] = x
      BY <1>1, <2>1 DEF ComesFrom, out
    <2> QED
      BY <1>4, <2>2 DEF ToSet
  <1>7. ToSet(out) = UNION {ToSet(f[i]) : i \in 1..n}
    BY <1>4, <1>5, <1>6 DEF ToSet
  <1> QED
    BY <1>2, <1>7 DEF out

\* Of a filtered sequence exactly the entries that pass are there, in the order they had.
Subsequence(out, s, P) ==
    /\ out \in Seq(P)
    /\ ToSet(out) = ToSet(s) \cap P
    /\ \E at \in [1..Len(out) -> 1..Len(s)] :
          /\ \A k \in 1..Len(out) : out[k] = s[at[k]]
          /\ \A j, k \in 1..Len(out) : j < k => at[j] < at[k]
          /\ \A i \in 1..Len(s) : s[i] \in P => \E k \in 1..Len(out) : at[k] = i

\* Filter, written with a set in place of its test, keeps what it should.
LEMMA FilterKeeps ==
  ASSUME NEW T, NEW s \in Seq(T), NEW P,
         NEW f, f = [i \in DOMAIN s |-> IF s[i] \in P THEN <<s[i]>> ELSE <<>>]
  PROVE  Subsequence(FlattenSeq(f), s, P)
  <1> DEFINE n == Len(s)
             U == T \cap P
             out == FlattenSeq(f)
  <1>1. n \in Nat /\ DOMAIN s = 1..n /\ \A i \in 1..n : s[i] \in T
    OBVIOUS
  <1>2. \A i \in 1..n : f[i] = IF s[i] \in P THEN <<s[i]>> ELSE <<>>
    BY <1>1
  <1>3. \A i \in 1..n : f[i] \in Seq(U) /\ Len(f[i]) = (IF s[i] \in P THEN 1 ELSE 0) /\ (s[i] \in P => f[i][1] = s[i])
    <2> SUFFICES ASSUME NEW i \in 1..n
                 PROVE  f[i] \in Seq(U) /\ Len(f[i]) = (IF s[i] \in P THEN 1 ELSE 0) /\ (s[i] \in P => f[i][1] = s[i])
      OBVIOUS
    <2>1. CASE s[i] \in P
      <3>1. f[i] = <<s[i]>> /\ s[i] \in U
        BY <1>1, <1>2, <2>1
      <3> HIDE DEF U
      <3> QED
        BY <2>1, <3>1
    <2>2. CASE s[i] \notin P
      <3>1. f[i] = <<>>
        BY <1>2, <2>2
      <3> QED
        BY <2>2, <3>1
    <2> QED
      BY <2>1, <2>2
  <1>4. f \in [1..n -> Seq(U)]
    BY <1>1, <1>3
  <1> HIDE DEF n, U
  <1>5. out \in Seq(U) /\ \E at : ComesFrom(out, f, n, at)
    BY <1>1, <1>4, FlattenInOrder
  <1> HIDE DEF out
  <1>6. PICK at : ComesFrom(out, f, n, at)
    BY <1>5
  <1>7. out \in Seq(P) /\ DOMAIN out = 1..Len(out) /\ Len(out) \in Nat
    <2>1. \A k \in 1..Len(out) : out[k] \in P
      BY <1>5 DEF U
    <2>2. out = [k \in 1..Len(out) |-> out[k]] /\ Len(out) \in Nat /\ DOMAIN out = 1..Len(out)
      BY <1>5
    <2> QED
      BY <2>1, <2>2
  <1> DEFINE to == [k \in 1..Len(out) |-> at[k]]
  <1>8. ASSUME NEW k \in 1..Len(out) PROVE at[k] \in 1..n /\ Len(f[at[k]]) = 1 /\ out[k] = s[at[k]] /\ to[k] = at[k]
    <2>1. at[k] \in 1..n /\ \E j \in 1..Len(f[at[k]]) : out[k] = f[at[k]][j]
      BY <1>6 DEF ComesFrom
    <2>2. Len(f[at[k]]) = 1 /\ f[at[k]][1] = s[at[k]]
      BY <1>3, <2>1
    <2> QED
      BY <2>1, <2>2
  <1> HIDE DEF to
  <1>9. to \in [1..Len(out) -> 1..n]
    <2>1. to = [k \in 1..Len(out) |-> at[k]]
      BY DEF to
    <2> QED
      BY <1>8, <2>1
  <1>10. \A j, k \in 1..Len(out) : j < k => to[j] < to[k]
    BY <1>6, <1>8 DEF ComesFrom
  <1>11. \A i \in 1..n : s[i] \in P => \E k \in 1..Len(out) : to[k] = i
    <2> SUFFICES ASSUME NEW i \in 1..n, s[i] \in P PROVE \E k \in 1..Len(out) : to[k] = i
      OBVIOUS
    <2>1. 1 \in 1..Len(f[i])
      BY <1>3
    <2>2. \A j \in 1..Len(f[i]) : \E k \in 1..Len(out) : at[k] = i /\ out[k] = f[i][j]
      BY <1>6 DEF ComesFrom
    <2>3. \E k \in 1..Len(out) : at[k] = i
      BY <2>1, <2>2
    <2> QED
      BY <1>8, <2>3
  <1>12. ToSet(out) = ToSet(s) \cap P
    <2>1. ASSUME NEW k \in 1..Len(out) PROVE out[k] \in ToSet(s) \cap P
      BY <1>1, <1>7, <1>8, <2>1 DEF ToSet
    <2>2. ASSUME NEW i \in 1..n, s[i] \in P PROVE s[i] \in ToSet(out)
      <3>1. PICK k \in 1..Len(out) : to[k] = i
        BY <1>11, <2>2
      <3>2. out[k] = s[i]
        BY <1>8, <3>1
      <3> QED
        BY <1>7, <3>2 DEF ToSet
    <2> QED
      BY <1>1, <1>7, <2>1, <2>2 DEF ToSet
  <1>13. \E a \in [1..Len(out) -> 1..n] :
            /\ \A k \in 1..Len(out) : out[k] = s[a[k]]
            /\ \A j, k \in 1..Len(out) : j < k => a[j] < a[k]
            /\ \A i \in 1..n : s[i] \in P => \E k \in 1..Len(out) : a[k] = i
    <2>1. \A k \in 1..Len(out) : out[k] = s[to[k]]
      BY <1>8
    <2> QED
      BY <1>9, <1>10, <1>11, <2>1
  <1>14. Subsequence(out, s, P)
    BY <1>7, <1>12, <1>13 DEF Subsequence, n
  <1> QED
    BY <1>14 DEF out

\* What a sequence says is finite, and no more than it is long.
LEMMA RangeIsFinite ==
  ASSUME NEW T, NEW s \in Seq(T)
  PROVE  /\ IsFiniteSet(ToSet(s)) /\ Cardinality(ToSet(s)) \in Nat /\ Cardinality(ToSet(s)) <= Len(s)
         /\ ToSet(s) = {s[i] : i \in 1..Len(s)} /\ ToSet(s) \subseteq T
  <1>1. Len(s) \in Nat /\ DOMAIN s = 1..Len(s) /\ s \in [1..Len(s) -> T]
    OBVIOUS
  <1>2. ToSet(s) = {s[i] : i \in 1..Len(s)}
    BY <1>1 DEF ToSet
  <1>3. s \in Surjection(1..Len(s), ToSet(s))
    BY <1>1, <1>2 DEF Surjection
  <1>4. IsFiniteSet(1..Len(s)) /\ Cardinality(1..Len(s)) = Len(s)
    BY <1>1, FS_Interval
  <1>5. IsFiniteSet(ToSet(s)) /\ Cardinality(ToSet(s)) <= Len(s)
    BY <1>3, <1>4, FS_Surjection
  <1>6. Cardinality(ToSet(s)) \in Nat
    BY <1>5, FS_CardinalityType
  <1> QED
    BY <1>1, <1>2, <1>5, <1>6

\* SetToSeq lists each member of a finite set once.
LEMMA SetToSeqIsIt ==
  ASSUME NEW S, IsFiniteSet(S)
  PROVE  /\ SetToSeq(S) \in Seq(S) /\ Len(SetToSeq(S)) = Cardinality(S) /\ Cardinality(S) \in Nat
         /\ ToSet(SetToSeq(S)) = S
         /\ \A i, j \in 1..Len(SetToSeq(S)) : SetToSeq(S)[i] = SetToSeq(S)[j] => i = j
  <1> DEFINE n == Cardinality(S)
             OK(f) == f \in [1..n -> S] /\ IsInjective(f)
             f == SetToSeq(S)
  <1>1. n \in Nat /\ ExistsBijection(1..n, S)
    BY FS_CardinalityType
  <1>2. \E h : OK(h)
    BY <1>1 DEF ExistsBijection, Bijection, Injection
  <1>3. f = CHOOSE h \in [1..n -> S] : IsInjective(h)
    BY DEF SetToSeq
  <1>4. f \in [1..n -> S] /\ IsInjective(f)
    BY <1>2, <1>3
  <1> HIDE DEF f, n
  <1>5. f \in Seq(S) /\ Len(f) = n /\ DOMAIN f = 1..n
    BY <1>1, <1>4
  <1>6. f \in Injection(1..n, S)
    BY <1>4 DEF Injection
  <1>7. Cardinality(1..n) = n /\ IsFiniteSet(1..n)
    BY <1>1, FS_Interval
  <1>8. f \in Surjection(1..n, S)
    <2>1. Cardinality(1..n) = Cardinality(S)
      BY <1>7 DEF n
    <2> QED
      BY <1>6, <2>1, FS_Injection
  <1>9. ToSet(f) = S
    BY <1>5, <1>8 DEF ToSet, Surjection
  <1>10. \A i, j \in 1..n : f[i] = f[j] => i = j
    BY <1>4, <1>5 DEF IsInjective
  <1> QED
    BY <1>1, <1>5, <1>9, <1>10 DEF f, n

\* One sequence more is put together behind the others.
LEMMA FlattenOneMore ==
  ASSUME NEW T, NEW n \in Nat, NEW f \in [1..n -> Seq(T)], NEW h \in [1..(n + 1) -> Seq(T)], \A i \in 1..n : h[i] = f[i]
  PROVE  FlattenSeq(h) = FlattenSeq(f) \o h[n + 1]
  <1>1. PICK a \in [0..n -> Seq(T)] :
             /\ a[0] = <<>>
             /\ \A i \in 1..n : a[i] = a[i - 1] \o f[i]
             /\ FlattenSeq(f) = a[n]
    BY FlattenIsALoop
  <1>2. PICK b \in [0..(n + 1) -> Seq(T)] :
             /\ b[0] = <<>>
             /\ \A i \in 1..(n + 1) : b[i] = b[i - 1] \o h[i]
             /\ FlattenSeq(h) = b[(n + 1)]
    <2>1. n + 1 \in Nat
      OBVIOUS
    <2> QED
      BY <2>1, FlattenIsALoop
  <1> DEFINE S == {m \in 0..n : a[m] = b[m]}
  <1>3. 0 \in S
    BY <1>1, <1>2
  <1>4. ASSUME NEW m \in (0 + 1)..n, m - 1 \in S PROVE m \in S
    <2>1. a[m - 1] = b[m - 1]
      BY <1>4
    <2>2. m \in 1..n /\ m \in 1..(n + 1) /\ m \in 0..n
      OBVIOUS
    <2> QED
      BY <1>1, <1>2, <2>1, <2>2
  <1> HIDE DEF S
  <1>5. 0 \in Int /\ n \in Int
    OBVIOUS
  <1>6. \A m \in 0..n : m \in S
    BY <1>3, <1>4, <1>5, UpFromTheFirst
  <1>7. a[n] = b[n]
    BY <1>6 DEF S
  <1>8. b[n + 1] = b[n] \o h[n + 1]
    <2>1. n + 1 \in 1..(n + 1) /\ (n + 1) - 1 = n
      OBVIOUS
    <2>2. \A i \in 1..(n + 1) : b[i] = b[i - 1] \o h[i]
      BY <1>2
    <2> QED
      BY <2>1, <2>2
  <1> QED
    BY <1>1, <1>2, <1>7, <1>8

\* x, if it is of P.
Piece(x, P) == IF x \in P THEN <<x>> ELSE <<>>

\* The entries of s that are of P.
Kept(s, P) == FlattenSeq([i \in DOMAIN s |-> Piece(s[i], P)])

\* What is kept of one entry more.
LEMMA KeptOneMore ==
  ASSUME NEW T, NEW P, NEW s \in Seq(T), NEW x \in T
  PROVE  Kept(s \o <<x>>, P) = Kept(s, P) \o Piece(x, P)
  <1> DEFINE n == Len(s)
             t == s \o <<x>>
             f == [i \in 1..n |-> Piece(s[i], P)]
             h == [i \in 1..(n + 1) |-> Piece(t[i], P)]
  <1>1. n \in Nat /\ DOMAIN s = 1..n /\ DOMAIN t = 1..(n + 1) /\ t[n + 1] = x /\ \A i \in 1..n : t[i] = s[i] /\ s[i] \in T
    OBVIOUS
  <1>2. \A y \in T : Piece(y, P) \in Seq(T)
    BY DEF Piece
  <1> HIDE DEF n, t
  <1>3. \A i \in 1..(n + 1) : t[i] \in T
    BY <1>1
  <1>4. f \in [1..n -> Seq(T)] /\ h \in [1..(n + 1) -> Seq(T)] /\ h[n + 1] = Piece(x, P)
    BY <1>1, <1>2, <1>3
  <1>5. \A i \in 1..n : h[i] = f[i]
    BY <1>1
  <1>6. Kept(t, P) = FlattenSeq(h) /\ Kept(s, P) = FlattenSeq(f)
    BY <1>1 DEF Kept
  <1> HIDE DEF f, h
  <1> QED
    BY <1>1, <1>4, <1>5, <1>6, FlattenOneMore DEF t

\* f[i] is one entry or none, and g[i] that entry if it is of P.
PieceByPiece(f, g, n, T, P) ==
    \A i \in 1..n : (f[i] = <<>> /\ g[i] = <<>>) \/ \E x \in T : f[i] = <<x>> /\ g[i] = Piece(x, P)

\* To filter what was put together from pieces of one entry is to filter each piece.
LEMMA KeepThePieces ==
  ASSUME NEW T, NEW P, NEW n \in Nat, NEW f \in [1..n -> Seq(T)], NEW g \in [1..n -> Seq(T)],
         PieceByPiece(f, g, n, T, P)
  PROVE  Kept(FlattenSeq(f), P) = FlattenSeq(g)
  <1>1. PICK a \in [0..n -> Seq(T)] :
             /\ a[0] = <<>>
             /\ \A i \in 1..n : a[i] = a[i - 1] \o f[i]
             /\ FlattenSeq(f) = a[n]
    BY FlattenIsALoop
  <1>2. PICK b \in [0..n -> Seq(T)] :
             /\ b[0] = <<>>
             /\ \A i \in 1..n : b[i] = b[i - 1] \o g[i]
             /\ FlattenSeq(g) = b[n]
    BY FlattenIsALoop
  <1> DEFINE S == {m \in 0..n : Kept(a[m], P) = b[m]}
  <1>3. Kept(<<>>, P) = <<>>
    <2> DEFINE e == [i \in DOMAIN <<>> |-> Piece(<<>>[i], P)]
    <2>1. e = <<>>
      OBVIOUS
    <2>2. FlattenSeq(<<>>) = <<>>
      BY DEF FlattenSeq
    <2> QED
      BY <2>1, <2>2 DEF Kept
  <1>4. 0 \in S
    BY <1>1, <1>2, <1>3
  <1>5. ASSUME NEW m \in (0 + 1)..n, m - 1 \in S PROVE m \in S
    <2>1. m \in 1..n /\ m \in 0..n /\ m - 1 \in 0..n
      OBVIOUS
    <2>2. Kept(a[m - 1], P) = b[m - 1]
      BY <1>5
    <2>3. a[m] = a[m - 1] \o f[m] /\ b[m] = b[m - 1] \o g[m] /\ a[m - 1] \in Seq(T) /\ b[m - 1] \in Seq(T)
      BY <1>1, <1>2, <2>1
    <2>6. (f[m] = <<>> /\ g[m] = <<>>) \/ \E x \in T : f[m] = <<x>> /\ g[m] = Piece(x, P)
      BY <2>1 DEF PieceByPiece
    <2>4. CASE f[m] = <<>> /\ g[m] = <<>>
      <3>1. a[m] = a[m - 1] /\ b[m] = b[m - 1]
        BY <2>3, <2>4
      <3> QED
        BY <2>1, <2>2, <3>1
    <2>5. CASE \E x \in T : f[m] = <<x>> /\ g[m] = Piece(x, P)
      <3>1. PICK x \in T : f[m] = <<x>> /\ g[m] = Piece(x, P)
        BY <2>5
      <3>2. Kept(a[m - 1] \o <<x>>, P) = Kept(a[m - 1], P) \o Piece(x, P)
        BY <2>3, KeptOneMore
      <3> QED
        BY <2>1, <2>2, <2>3, <3>1, <3>2
    <2> QED
      BY <2>4, <2>5, <2>6
  <1> HIDE DEF S
  <1>6. 0 \in Int /\ n \in Int
    OBVIOUS
  <1>7. \A m \in 0..n : m \in S
    BY <1>4, <1>5, <1>6, UpFromTheFirst
  <1> QED
    BY <1>1, <1>2, <1>7 DEF S

\* A step that keeps the entries Wrong does not hold of and puts at most one other, new, for each it does.
Steps(out, text, Wrong, new) ==
    /\ \A s \in ToSet(out) : s = new \/ (s \in ToSet(text) /\ s \notin Wrong)
    /\ \A s \in ToSet(text) : s \notin Wrong => s \in ToSet(out)
    /\ \A P : new \notin P /\ P \cap Wrong = {} => Kept(out, P) = Kept(text, P)

\* f is a function with domain D.
IsFunctionOn(f, D) == f = [i \in D |-> f[i]]

\* f[i] is the entry, what stands for it or nothing.
LEMMA StepByStep ==
  ASSUME NEW T, NEW new \in T, NEW text \in Seq(T), NEW Wrong,
         NEW f, IsFunctionOn(f, DOMAIN text),
         \A i \in DOMAIN text : IF text[i] \in Wrong THEN f[i] \in {<<new>>, <<>>} ELSE f[i] = <<text[i]>>
  PROVE  FlattenSeq(f) \in Seq(T) /\ Steps(FlattenSeq(f), text, Wrong, new)
         /\ \A i \in DOMAIN text : f[i] = <<new>> => new \in ToSet(FlattenSeq(f))
  <1> DEFINE n == Len(text)
             out == FlattenSeq(f)
  <1>1. n \in Nat /\ DOMAIN text = 1..n /\ \A i \in 1..n : text[i] \in T
    OBVIOUS
  <1> HIDE DEF n
  <1>2. \A x \in T : <<x>> \in Seq(T) /\ ToSet(<<x>>) = {x}
    <2> TAKE x \in T
    <2>1. <<x>> \in Seq(T) /\ DOMAIN <<x>> = 1..1 /\ <<x>>[1] = x
      OBVIOUS
    <2>2. \A i \in 1..1 : i = 1
      OBVIOUS
    <2>3. 1 \in 1..1
      OBVIOUS
    <2>4. \A i \in 1..1 : <<x>>[i] = x
      BY <2>1, <2>2
    <2> QED
      BY <2>1, <2>3, <2>4 DEF ToSet
  <1>3. <<>> \in Seq(T) /\ ToSet(<<>>) = {}
    BY DEF ToSet
  <1>4. \A i \in 1..n : f[i] \in Seq(T)
    BY <1>1, <1>2, <1>3
  <1>0. f = [i \in 1..n |-> f[i]]
    BY <1>1 DEF IsFunctionOn
  <1>5. f \in [1..n -> Seq(T)]
    BY <1>0, <1>4
  <1>50. n \in Nat
    BY <1>1
  <1>6. out \in Seq(T) /\ ToSet(out) = UNION {ToSet(f[i]) : i \in 1..n}
    BY <1>50, <1>5, FlattenSaysAll
  <1>7. \A i \in 1..n : \A x \in ToSet(f[i]) : x = new \/ (x \in ToSet(text) /\ x \notin Wrong)
    <2> TAKE i \in 1..n
    <2>1. text[i] \in ToSet(text)
      BY <1>1 DEF ToSet
    <2>2. CASE text[i] \in Wrong
      <3>1. f[i] = <<new>> \/ f[i] = <<>>
        BY <1>1, <2>2
      <3>2. CASE f[i] = <<new>>
        <4>1. ToSet(f[i]) = {new}
          BY <1>2, <3>2
        <4> QED
          BY <4>1
      <3>3. CASE f[i] = <<>>
        BY <1>3, <3>3
      <3> QED
        BY <3>1, <3>2, <3>3
    <2>3. CASE text[i] \notin Wrong
      <3>1. f[i] = <<text[i]>> /\ text[i] \in T
        BY <1>1, <2>3
      <3>2. ToSet(f[i]) = {text[i]}
        BY <1>2, <3>1
      <3> QED
        BY <2>1, <2>3, <3>2
    <2> QED
      BY <2>2, <2>3
  <1>8. ASSUME NEW P, new \notin P, P \cap Wrong = {} PROVE Kept(out, P) = Kept(text, P)
    <2> DEFINE g == [i \in 1..n |-> Piece(text[i], P)]
    <2>1. \A i \in 1..n : Piece(text[i], P) \in Seq(T)
      BY <1>1, <1>2, <1>3 DEF Piece
    <2>2. g \in [1..n -> Seq(T)] /\ \A i \in 1..n : g[i] = Piece(text[i], P)
      BY <2>1
    <2>3. Kept(text, P) = FlattenSeq(g)
      BY <1>1 DEF Kept
    <2> HIDE DEF g
    <2>4. PieceByPiece(f, g, n, T, P)
      <3> SUFFICES ASSUME NEW i \in 1..n
                   PROVE (f[i] = <<>> /\ g[i] = <<>>) \/ \E x \in T : f[i] = <<x>> /\ g[i] = Piece(x, P)
        BY DEF PieceByPiece
      <3>1. CASE text[i] \in Wrong
        <4>1. g[i] = <<>>
          BY <1>8, <2>2, <3>1 DEF Piece
        <4>2. Piece(new, P) = <<>>
          BY <1>8 DEF Piece
        <4> QED
          BY <1>1, <3>1, <4>1, <4>2
      <3>2. CASE text[i] \notin Wrong
        BY <1>1, <2>2, <3>2
      <3> QED
        BY <3>1, <3>2
    <2>6. g \in [1..n -> Seq(T)]
      BY <2>2
    <2>5. Kept(FlattenSeq(f), P) = FlattenSeq(g)
      BY <1>50, <1>5, <2>6, <2>4, KeepThePieces
    <2> QED
      BY <2>3, <2>5
  <1>9. \A i \in 1..n : f[i] = <<new>> => new \in ToSet(out)
    <2> SUFFICES ASSUME NEW i \in 1..n, f[i] = <<new>> PROVE new \in ToSet(out)
      OBVIOUS
    <2>1. ToSet(f[i]) = {new}
      BY <1>2
    <2> QED
      BY <1>6, <2>1
  <1>11. ASSUME NEW i \in 1..n, text[i] \notin Wrong PROVE text[i] \in ToSet(out)
    <2>1. f[i] = <<text[i]>> /\ text[i] \in T
      BY <1>1, <1>11
    <2>2. ToSet(f[i]) = {text[i]}
      BY <1>2, <2>1
    <2> QED
      BY <1>6, <2>2
  <1>12. \A s \in ToSet(text) : s \notin Wrong => s \in ToSet(out)
    BY <1>1, <1>11 DEF ToSet
  <1>10. Steps(out, text, Wrong, new)
    BY <1>6, <1>7, <1>8, <1>12 DEF Steps
  <1> QED
    BY <1>1, <1>6, <1>9, <1>10

\* What is picked from n places: g's value of each place of K, in order.
PickedBy(at, out, n, K, g) ==
    /\ at \in [1..Len(out) -> 1..n]
    /\ \A k \in 1..Len(out) : at[k] \in K /\ out[k] = g[at[k]]
    /\ \A j, k \in 1..Len(out) : j < k => at[j] < at[k]
    /\ \A i \in K : \E k \in 1..Len(out) : at[k] = i

\* To put together what stands at some places, and nothing for the others, is to
\* pick.
LEMMA FlattenPicks ==
  ASSUME NEW T, NEW n \in Nat, NEW K \in SUBSET (1..n), NEW g \in [1..n -> T],
         NEW f, f = [i \in 1..n |-> IF i \in K THEN <<g[i]>> ELSE <<>>]
  PROVE  FlattenSeq(f) \in Seq(T) /\ \E at : PickedBy(at, FlattenSeq(f), n, K, g)
  <1> DEFINE out == FlattenSeq(f)
  <1>1. \A i \in 1..n : f[i] = IF i \in K THEN <<g[i]>> ELSE <<>>
    OBVIOUS
  <1>2. \A i \in 1..n : f[i] \in Seq(T) /\ Len(f[i]) = (IF i \in K THEN 1 ELSE 0) /\ (i \in K => f[i][1] = g[i])
    <2> SUFFICES ASSUME NEW i \in 1..n
                 PROVE  f[i] \in Seq(T) /\ Len(f[i]) = (IF i \in K THEN 1 ELSE 0) /\ (i \in K => f[i][1] = g[i])
      OBVIOUS
    <2>1. CASE i \in K
      <3>1. f[i] = <<g[i]>> /\ g[i] \in T
        BY <1>1, <2>1
      <3> QED
        BY <2>1, <3>1
    <2>2. CASE i \notin K
      <3>1. f[i] = <<>>
        BY <1>1, <2>2
      <3> QED
        BY <2>2, <3>1
    <2> QED
      BY <2>1, <2>2
  <1>3. f \in [1..n -> Seq(T)]
    BY <1>2
  <1>4. out \in Seq(T) /\ \E at : ComesFrom(out, f, n, at)
    BY <1>3, FlattenInOrder
  <1> HIDE DEF out
  <1>5. PICK at : ComesFrom(out, f, n, at)
    BY <1>4
  <1> DEFINE to == [k \in 1..Len(out) |-> at[k]]
  <1>6. ASSUME NEW k \in 1..Len(out)
        PROVE  at[k] \in 1..n /\ Len(f[at[k]]) = 1 /\ at[k] \in K /\ out[k] = g[at[k]] /\ to[k] = at[k]
    <2>1. at[k] \in 1..n /\ \E j \in 1..Len(f[at[k]]) : out[k] = f[at[k]][j]
      BY <1>5 DEF ComesFrom
    <2>2. Len(f[at[k]]) = 1 /\ at[k] \in K /\ f[at[k]][1] = g[at[k]]
      BY <1>2, <2>1
    <2> QED
      BY <2>1, <2>2
  <1>7. to \in [1..Len(out) -> 1..n]
    BY <1>6
  <1> HIDE DEF to
  <1>8. \A j, k \in 1..Len(out) : j < k => to[j] < to[k]
    BY <1>5, <1>6 DEF ComesFrom
  <1>9. ASSUME NEW i \in K PROVE \E k \in 1..Len(out) : to[k] = i
    <2>1. 1 \in 1..Len(f[i])
      BY <1>2
    <2>2. \A j \in 1..Len(f[i]) : \E k \in 1..Len(out) : at[k] = i /\ out[k] = f[i][j]
      BY <1>5 DEF ComesFrom
    <2>3. \E k \in 1..Len(out) : at[k] = i
      BY <2>1, <2>2
    <2> QED
      BY <1>6, <2>3
  <1>10. PickedBy(to, out, n, K, g)
    BY <1>6, <1>7, <1>8, <1>9 DEF PickedBy
  <1> QED
    BY <1>4, <1>10 DEF out

\* Of bounded numbers one is the greatest.
LEMMA MaxIsGreatest ==
  ASSUME NEW K \in Nat, NEW S \in SUBSET (0..K), S # {}
  PROVE  Max(S) \in S /\ \A x \in S : x <= Max(S)
  <1> DEFINE T == {K - x : x \in S}
             m == Min(T)
  <1>1. T \in SUBSET Nat /\ T # {}
    <2>1. \A x \in S : K - x \in Nat
      OBVIOUS
    <2> QED
      BY <2>1
  <1>2. m \in T /\ \A t \in T : m <= t
    BY <1>1, MinIsLeast
  <1>3. PICK y \in S : m = K - y
    BY <1>2
  <1> HIDE DEF m
  <1>4. \A x \in S : K - x \in T
    OBVIOUS
  <1>5. \A x \in S : m <= K - x
    BY <1>2, <1>4
  <1>6. \A x \in S : x <= y
    <2> HIDE DEF T
    <2> QED
      BY <1>3, <1>5
  <1> QED
    BY <1>6 DEF Max

\* One sequence put together is that sequence.
LEMMA FlattenOfOne ==
  ASSUME NEW T, NEW x \in Seq(T)
  PROVE  FlattenSeq(<<x>>) = x
  <1> DEFINE f == [i \in 1..0 |-> x]
             h == [i \in 1..(0 + 1) |-> x]
  <1>1. f \in [1..0 -> Seq(T)] /\ h \in [1..(0 + 1) -> Seq(T)] /\ h[0 + 1] = x /\ f = <<>> /\ h = <<x>>
    <2>1. h = <<x>>
      <3>1. \A i \in 1..1 : i = 1
        OBVIOUS
      <3>2. DOMAIN <<x>> = 1..1 /\ <<x>>[1] = x
        OBVIOUS
      <3> QED
        BY <3>1, <3>2
    <2>2. f = <<>>
      OBVIOUS
    <2> QED
      BY <2>1, <2>2
  <1>2. \A i \in 1..0 : h[i] = f[i]
    OBVIOUS
  <1>3. FlattenSeq(<<>>) = <<>>
    BY DEF FlattenSeq
  <1> HIDE DEF f, h
  <1>4. FlattenSeq(h) = FlattenSeq(f) \o h[0 + 1]
    BY <1>1, <1>2, FlattenOneMore
  <1>5. <<>> \o x = x
    OBVIOUS
  <1>6. FlattenSeq(f) = <<>> /\ h[0 + 1] = x /\ FlattenSeq(h) = FlattenSeq(<<x>>)
    BY <1>1, <1>3
  <1> QED
    BY <1>4, <1>5, <1>6

\* A list of at most n members is a sequence.
LEMMA ListsAreSequences ==
  ASSUME NEW S, NEW n
  PROVE  SeqOf(S, n) \subseteq Seq(S)
  <1> SUFFICES ASSUME NEW s \in SeqOf(S, n) PROVE s \in Seq(S)
    OBVIOUS
  <1>1. PICK m \in 0..n : s \in [1..m -> S]
    BY DEF SeqOf
  <1>2. m \in Nat
    BY <1>1
  <1> QED
    BY <1>1, <1>2

\* So are lists of two, of one and of none.
LEMMA ShortLists ==
  ASSUME NEW S
  PROVE  /\ <<>> \in Seq(S)
         /\ \A a \in S : <<a>> \in Seq(S)
         /\ \A a \in S, b \in S : <<a, b>> \in Seq(S)
  OBVIOUS

-----------------------------------------------------------------------------
(* The verdict.  What evaluate() has decided of some of the rows.          *)
DecidedRows(i, rows) == [n \in rows |-> _evaluate_requirement(i.scenario[n], i.early)]

\* One turn of the loop adds the decision of its row, or nothing.
LEMMA DecideOfItsRow ==
  ASSUME NEW i, NEW rows \in SUBSET (1..Requirements), NEW n \in 1..Requirements
  PROVE  \E more \in SUBSET (1..Requirements) :
            Decide(i, n, DecidedRows(i, rows)) = DecidedRows(i, more)
  <1> DEFINE before == DecidedRows(i, rows)
  <1>1. DOMAIN before = rows /\ \A k \in rows : before[k] = _evaluate_requirement(i.scenario[k], i.early)
    BY DEF DecidedRows
  <1> HIDE DEF before
  <1>2. CASE guard_holds(i.scenario[n].applies_when, before)
    <2>1. Decide(i, n, before) = DecidedRows(i, rows \cup {n})
      BY <1>1, <1>2 DEF Decide, DecidedRows
    <2> QED
      BY <2>1 DEF before
  <1>3. CASE ~guard_holds(i.scenario[n].applies_when, before)
    <2>1. Decide(i, n, before) = before
      BY <1>3 DEF Decide
    <2> QED
      BY <2>1 DEF before
  <1> QED
    BY <1>2, <1>3

\* What is decided after all of them is decided of the rows that apply.
LEMMA DecidedUpToTheLast ==
  ASSUME NEW i
  PROVE  \E rows \in SUBSET (1..Requirements) : DecidedUpTo(i) = DecidedRows(i, rows)
  <1> DEFINE D == {DecidedRows(i, rows) : rows \in SUBSET (1..Requirements)}
             turn == [x \in Int \X D |-> IF x[1] \in 1..Requirements THEN Decide(i, x[1], x[2]) ELSE x[2]]
             upTo[n \in 0..Requirements] == IF n = 0 THEN <<>> ELSE Decide(i, n, upTo[n - 1])
  <1>1. Requirements \in Nat \ {0}
    BY RulesConstants
  <1>2. <<>> \in D
    <2>1. <<>> = DecidedRows(i, {})
      BY DEF DecidedRows
    <2> QED
      BY <2>1
  <1>3. \A n \in 1..Requirements, x \in D : Decide(i, n, x) \in D
    BY DecideOfItsRow
  <1> HIDE DEF D
  <1>4. turn \in [Int \X D -> D]
    BY <1>3
  <1>5. \A n \in 1..Requirements, x \in D : turn[<<n, x>>] = Decide(i, n, x)
    OBVIOUS
  <1> HIDE DEF turn
  <1>6. PICK f \in [0..Requirements -> D] : Loops(f, 0, Requirements, <<>>, turn)
    <2>1. 0 \in Int /\ Requirements \in Int
      BY <1>1
    <2> QED
      BY <2>1, <1>2, <1>4, LoopIsDefined
  <1>7. f = [n \in 0..Requirements |-> IF n = 0 THEN <<>> ELSE Decide(i, n, f[n - 1])]
    <2>1. ASSUME NEW n \in 0..Requirements
          PROVE  f[n] = IF n = 0 THEN <<>> ELSE Decide(i, n, f[n - 1])
      <3>1. CASE n = 0
        BY <1>6, <3>1 DEF Loops
      <3>2. CASE n # 0
        <4>1. n \in 1..Requirements /\ n - 1 \in 0..Requirements
          BY <1>1, <3>2
        <4> QED
          BY <1>5, <1>6, <3>2, <4>1 DEF Loops
      <3> QED
        BY <3>1, <3>2
    <2> QED
      BY <2>1
  <1>8. upTo = [n \in 0..Requirements |-> IF n = 0 THEN <<>> ELSE Decide(i, n, upTo[n - 1])]
    BY <1>7
  <1>9. DecidedUpTo(i) = upTo[Requirements]
    BY DEF DecidedUpTo
  <1> HIDE DEF upTo
  <1> DEFINE S == {n \in 0..Requirements : upTo[n] \in D}
  <1>10. 0 \in S
    BY <1>1, <1>2, <1>8
  <1>11. ASSUME NEW n \in (0 + 1)..Requirements, n - 1 \in S PROVE n \in S
    <2>1. n \in 1..Requirements /\ n \in 0..Requirements /\ n # 0
      OBVIOUS
    <2>2. upTo[n] = Decide(i, n, upTo[n - 1])
      BY <1>8, <2>1
    <2> QED
      BY <1>3, <1>11, <2>1, <2>2
  <1> HIDE DEF S
  <1>12. \A n \in 0..Requirements : n \in S
    <2>1. /\ 0 \in Int /\ Requirements \in Int
          /\ \A n \in (0 + 1)..Requirements : n - 1 \in S => n \in S
      BY <1>1, <1>11
    <2> QED
      BY <1>10, <2>1, UpFromTheFirst
  <1>13. upTo[Requirements] \in D
    BY <1>1, <1>12 DEF S
  <1> QED
    BY <1>9, <1>13 DEF D

\* What VerdictIsEarned says of a row.
IsCompared(r, early) == /\ r.operator \in {"compare", "snapshot"}
                        /\ r.value # "absent"
                        /\ ~(r.operator = "snapshot" /\ early)
HasFailed(r, early) == IsCompared(r, early) /\ r.value = "fails"
Standing(r) == r.operator = "informational"
Manual(r) == r.operator = "manual"

\* d is the decision of the row r.
IsDecision(d) ==
    /\ d = [status |-> d.status, evaluable |-> d.evaluable, blocking |-> d.blocking, data_backed |-> d.data_backed]
    /\ d.evaluable \in BOOLEAN /\ d.blocking \in BOOLEAN /\ d.data_backed \in BOOLEAN
IsOf(d, r, early) ==
    /\ d.status = "met" <=> Standing(r) \/ (IsCompared(r, early) /\ ~HasFailed(r, early))
    /\ d.status = "unmet" <=> HasFailed(r, early)
    /\ d.data_backed <=> ~Manual(r)
    /\ d.evaluable <=> Manual(r) \/ Standing(r) \/ IsCompared(r, early)
    /\ d.blocking <=> ~Manual(r) /\ r.blocking

\* What _evaluate_requirement says of a row is decided by what the row is.
LEMMA RowDecided ==
  ASSUME NEW i \in RuleInputs, NEW n \in 1..Requirements
  PROVE  /\ IsDecision(_evaluate_requirement(i.scenario[n], i.early))
         /\ IsOf(_evaluate_requirement(i.scenario[n], i.early), i.scenario[n], i.early)
  <1> DEFINE r == i.scenario[n]
  <1>1. i.early \in BOOLEAN /\ r \in RequirementsAt(n)
    BY DEF RuleInputs, Scenarios
  <1>2. /\ r.operator \in {"compare", "snapshot", "manual", "informational"}
        /\ r.value \in {"absent", "passes", "fails"}
        /\ r.blocking \in BOOLEAN
    BY <1>1 DEF RequirementsAt, Operators, Values
  <1> HIDE DEF r
  <1> DEFINE d == _evaluate_requirement(r, i.early)
  <1>3. CASE r.operator = "informational"
    <2>1. d = [status |-> "met", evaluable |-> TRUE, blocking |-> r.blocking, data_backed |-> TRUE]
      BY <1>1, <1>2, <1>3 DEF _evaluate_requirement, Decision
    <2> HIDE DEF d
    <2>2. d.status = "met" /\ d.evaluable = TRUE /\ d.blocking = r.blocking /\ d.data_backed = TRUE
      BY <2>1
    <2>3. IsDecision(d)
      BY <2>1, <1>2 DEF IsDecision
    <2>4. IsOf(d, r, i.early)
      BY <1>1, <1>2, <1>3, <2>2 DEF IsOf, IsCompared, HasFailed, Standing, Manual
    <2> QED
      BY <2>3, <2>4 DEF d, r
  <1>4. CASE r.operator = "manual"
    <2>1. d = [status |-> "not_stated", evaluable |-> TRUE, blocking |-> FALSE, data_backed |-> FALSE]
      BY <1>1, <1>2, <1>4 DEF _evaluate_requirement, Decision
    <2> HIDE DEF d
    <2>2. d.status = "not_stated" /\ d.evaluable = TRUE /\ d.blocking = FALSE /\ d.data_backed = FALSE
      BY <2>1
    <2>3. IsDecision(d)
      BY <2>1, <1>2 DEF IsDecision
    <2>4. IsOf(d, r, i.early)
      BY <1>1, <1>2, <1>4, <2>2 DEF IsOf, IsCompared, HasFailed, Standing, Manual
    <2> QED
      BY <2>3, <2>4 DEF d, r
  <1>5. CASE r.operator = "snapshot" /\ i.early
    <2>1. d = [status |-> "not_stated", evaluable |-> FALSE, blocking |-> r.blocking, data_backed |-> TRUE]
      BY <1>1, <1>2, <1>5 DEF _evaluate_requirement, Decision
    <2> HIDE DEF d
    <2>2. d.status = "not_stated" /\ d.evaluable = FALSE /\ d.blocking = r.blocking /\ d.data_backed = TRUE
      BY <2>1
    <2>3. IsDecision(d)
      BY <2>1, <1>2 DEF IsDecision
    <2>4. IsOf(d, r, i.early)
      BY <1>1, <1>2, <1>5, <2>2 DEF IsOf, IsCompared, HasFailed, Standing, Manual
    <2> QED
      BY <2>3, <2>4 DEF d, r
  <1>6. CASE r.operator \in {"compare", "snapshot"} /\ ~(r.operator = "snapshot" /\ i.early)
    <2>1. CASE r.value = "absent"
      <3>1. d = [status |-> "not_stated", evaluable |-> FALSE, blocking |-> r.blocking, data_backed |-> TRUE]
        BY <1>1, <1>2, <1>6, <2>1 DEF _evaluate_requirement, Decision
      <3> HIDE DEF d
      <3>2. d.status = "not_stated" /\ d.evaluable = FALSE /\ d.blocking = r.blocking /\ d.data_backed = TRUE
        BY <3>1
      <3>3. IsDecision(d)
        BY <3>1, <1>2 DEF IsDecision
      <3>4. IsOf(d, r, i.early)
        BY <1>1, <1>2, <1>6, <2>1, <3>2 DEF IsOf, IsCompared, HasFailed, Standing, Manual
      <3> QED
        BY <3>3, <3>4 DEF d, r
    <2>2. CASE r.value = "passes"
      <3>1. d = [status |-> "met", evaluable |-> TRUE, blocking |-> r.blocking, data_backed |-> TRUE]
        BY <1>1, <1>2, <1>6, <2>2 DEF _evaluate_requirement, Decision
      <3> HIDE DEF d
      <3>2. d.status = "met" /\ d.evaluable = TRUE /\ d.blocking = r.blocking /\ d.data_backed = TRUE
        BY <3>1
      <3>3. IsDecision(d)
        BY <3>1, <1>2 DEF IsDecision
      <3>4. IsOf(d, r, i.early)
        BY <1>1, <1>2, <1>6, <2>2, <3>2 DEF IsOf, IsCompared, HasFailed, Standing, Manual
      <3> QED
        BY <3>3, <3>4 DEF d, r
    <2>3. CASE r.value = "fails"
      <3>1. d = [status |-> "unmet", evaluable |-> TRUE, blocking |-> r.blocking, data_backed |-> TRUE]
        BY <1>1, <1>2, <1>6, <2>3 DEF _evaluate_requirement, Decision
      <3> HIDE DEF d
      <3>2. d.status = "unmet" /\ d.evaluable = TRUE /\ d.blocking = r.blocking /\ d.data_backed = TRUE
        BY <3>1
      <3>3. IsDecision(d)
        BY <3>1, <1>2 DEF IsDecision
      <3>4. IsOf(d, r, i.early)
        BY <1>1, <1>2, <1>6, <2>3, <3>2 DEF IsOf, IsCompared, HasFailed, Standing, Manual
      <3> QED
        BY <3>3, <3>4 DEF d, r
    <2> QED
      BY <1>2, <1>6, <2>1, <2>2, <2>3
  <1> QED
    BY <1>2, <1>3, <1>4, <1>5, <1>6 DEF r, d

\* A row that data was compared for, or that stands; a decision that was settled beside
\* one; and all of them.
Grounded(i, rows) ==
    \E n \in rows : Standing(i.scenario[n]) \/ IsCompared(i.scenario[n], i.early)
SettledAs(d, r, early, grounded) ==
    /\ d.evaluable \in BOOLEAN /\ d.blocking \in BOOLEAN
    /\ d.status = "met" <=> Standing(r) \/ (IsCompared(r, early) /\ ~HasFailed(r, early))
    /\ d.status = "unmet" <=> HasFailed(r, early)
    /\ d.evaluable <=> Standing(r) \/ IsCompared(r, early) \/ (Manual(r) /\ grounded)
    /\ d.blocking <=> ~Manual(r) /\ r.blocking
IsSettled(settled, rows, i) ==
    /\ DOMAIN settled = rows
    /\ \A n \in rows : SettledAs(settled[n], i.scenario[n], i.early, Grounded(i, rows))

\* _settle_manual leaves a decision as it was, except that a manual one counts only
\* beside a row that is grounded.
LEMMA RowSettled ==
  ASSUME NEW i \in RuleInputs, NEW rows \in SUBSET (1..Requirements)
  PROVE  IsSettled(_settle_manual(DecidedRows(i, rows)), rows, i)
  <1> DEFINE decided == DecidedRows(i, rows)
             settled == _settle_manual(decided)
             early == i.early
             row(n) == i.scenario[n]
             backed == \E n \in rows : decided[n].data_backed /\ decided[n].evaluable
  <1>1. DOMAIN decided = rows /\ \A n \in rows : decided[n] = _evaluate_requirement(row(n), early)
    BY DEF DecidedRows
  <1>2. DOMAIN settled = rows
    BY <1>1 DEF _settle_manual
  <1>3. \A n \in rows : settled[n] = IF decided[n].data_backed \/ backed THEN decided[n]
                                     ELSE [decided[n] EXCEPT !.evaluable = FALSE]
    BY <1>1 DEF _settle_manual
  <1>4. \A n \in rows : IsDecision(decided[n]) /\ IsOf(decided[n], row(n), early)
    BY <1>1, RowDecided
  <1> HIDE DEF decided, settled, row, early
  <1>5. \A n \in rows : /\ ~(Manual(row(n)) /\ (Standing(row(n)) \/ IsCompared(row(n), early)))
                        /\ ~(Standing(row(n)) /\ IsCompared(row(n), early))
    BY DEF Manual, Standing, IsCompared
  <1>6. backed <=> Grounded(i, rows)
    <2>1. \A n \in rows : decided[n].data_backed /\ decided[n].evaluable <=> Standing(row(n)) \/ IsCompared(row(n), early)
      BY <1>4, <1>5 DEF IsOf
    <2> QED
      BY <2>1 DEF Grounded, row, early
  <1> HIDE DEF backed
  <1>7. ASSUME NEW n \in rows
        PROVE  SettledAs(settled[n], row(n), early, Grounded(i, rows))
    <2> DEFINE d == decided[n]
    <2>1. CASE d.data_backed \/ backed
      BY <1>3, <1>4, <1>5, <1>6, <2>1 DEF IsDecision, IsOf, SettledAs
    <2>2. CASE ~(d.data_backed \/ backed)
      <3>1. d = [status |-> d.status, evaluable |-> d.evaluable, blocking |-> d.blocking, data_backed |-> d.data_backed]
        BY <1>4 DEF IsDecision
      <3>2. settled[n] = [d EXCEPT !.evaluable = FALSE]
        BY <1>3, <2>2
      <3>3. /\ settled[n].status = d.status /\ settled[n].blocking = d.blocking
            /\ settled[n].evaluable = FALSE
        BY <3>1, <3>2
      <3> QED
        BY <1>4, <1>5, <1>6, <2>2, <3>3 DEF IsDecision, IsOf, SettledAs
    <2> QED
      BY <2>1, <2>2
  <1> QED
    BY <1>2, <1>7 DEF IsSettled, settled, decided, row, early

\* Whatever the requirements of a scenario are, and the facts they are put, the verdict
\* is earned.
LEMMA VerdictsEarned ==
  ASSUME NEW i \in RuleInputs
  PROVE  VerdictIsEarned(i)
  <1>1. PICK rows \in SUBSET (1..Requirements) : DecidedUpTo(i) = DecidedRows(i, rows)
    BY DecidedUpToTheLast
  <1> DEFINE decided == DecidedRows(i, rows)
             settled == _settle_manual(decided)
             early == i.early
             row(n) == i.scenario[n]
             body == evaluate(i)
  <1>2. /\ body.verdict = _verdict(settled)
        /\ body.requirements = settled
        /\ body.unmet = {n \in DOMAIN settled : settled[n].status = "unmet"}
        /\ body.approvals_required = Attached("unmet", decided)
    BY <1>1 DEF evaluate
  <1>3. DOMAIN settled = rows
    BY RowSettled DEF IsSettled
  <1>4. \A n \in rows : SettledAs(settled[n], row(n), early, Grounded(i, rows))
    BY RowSettled DEF IsSettled
  <1>5. \A n \in rows : /\ ~(Manual(row(n)) /\ (Standing(row(n)) \/ IsCompared(row(n), early)))
                        /\ ~(Standing(row(n)) /\ IsCompared(row(n), early))
    BY DEF Manual, Standing, IsCompared
  <1>6. Attached("unmet", decided) = {n \in rows : HasFailed(row(n), early)}
    <2>1. DOMAIN decided = rows /\ \A n \in rows : decided[n] = _evaluate_requirement(row(n), early)
      BY DEF DecidedRows
    <2> HIDE DEF decided
    <2>2. \A n \in rows : decided[n].status = "unmet" <=> HasFailed(row(n), early)
      BY <2>1, RowDecided DEF IsOf
    <2>3. \A n \in rows : guard_holds(<<"unmet", n>>, decided) <=> decided[n].status = "unmet"
      BY <2>1 DEF guard_holds
    <2> QED
      BY <2>1, <2>2, <2>3 DEF Attached
  <1> HIDE DEF body, decided, settled
  <1> DEFINE nobody == \A n \in rows : ~settled[n].evaluable
             blocked == \E n \in rows : settled[n].blocking /\ settled[n].evaluable /\ settled[n].status # "met"
             missed == \E n \in rows : settled[n].status # "met"
  <1>7. body.verdict = IF nobody THEN "insufficient_evidence" ELSE IF blocked THEN "non_compliant"
                       ELSE IF missed THEN "conditional" ELSE "compliant"
    <2>1. _verdict(settled) = IF nobody THEN "insufficient_evidence" ELSE IF blocked THEN "non_compliant"
                              ELSE IF missed THEN "conditional" ELSE "compliant"
      BY <1>3 DEF _verdict, Met
    <2> QED
      BY <1>2, <2>1
  <1>8. nobody <=> \A n \in rows : Manual(row(n)) \/ (~Standing(row(n)) /\ ~IsCompared(row(n), early))
    BY <1>4, <1>5 DEF SettledAs, Grounded
  <1>9. (blocked <=> \E n \in rows : HasFailed(row(n), early) /\ row(n).blocking)
    BY <1>4, <1>5 DEF HasFailed, SettledAs
  <1>10. blocked => ~nobody
    OBVIOUS
  <1>11. ~missed => \A n \in rows : Standing(row(n)) \/ (IsCompared(row(n), early) /\ ~HasFailed(row(n), early))
    BY <1>4 DEF SettledAs
  <1>12. ~nobody => rows # {}
    OBVIOUS
  <1> HIDE DEF nobody, blocked, missed
  <1>13. body.verdict = "compliant" => rows # {} /\ \A n \in rows : Standing(row(n)) \/ (IsCompared(row(n), early) /\ ~HasFailed(row(n), early))
    BY <1>7, <1>11, <1>12
  <1>14. body.verdict = "non_compliant" <=> \E n \in rows : HasFailed(row(n), early) /\ row(n).blocking
    BY <1>7, <1>9, <1>10
  <1>15. body.verdict = "insufficient_evidence" <=> \A n \in rows : Manual(row(n)) \/ (~Standing(row(n)) /\ ~IsCompared(row(n), early))
    BY <1>7, <1>8
  <1>16. body.unmet = {n \in rows : HasFailed(row(n), early)} /\ body.approvals_required = body.unmet
    BY <1>2, <1>3, <1>4, <1>6 DEF SettledAs
  <1>17. DOMAIN body.requirements = rows
    BY <1>2, <1>3
  <1> QED
    BY <1>13, <1>14, <1>15, <1>16, <1>17 DEF VerdictIsEarned, body, Standing, Manual, IsCompared, HasFailed

-----------------------------------------------------------------------------
(* The days.  What the walk of span_end has left after each day.           *)
Asked(days) == IF days < 1 THEN 1 ELSE days

\* It is what was asked for at first, and one less after each working day.
LEMMA RemainingGoesDown ==
  ASSUME NEW start \in Int, NEW days \in Int, NEW holidays
  PROVE  LET left == Remaining(start, days, holidays)
         IN  /\ left \in [(start - 1)..LastStop(start) -> Int]
             /\ left[start - 1] = Asked(days)
             /\ \A d \in start..LastStop(start) :
                   left[d] = IF IsWorkingDay(d, holidays) THEN left[d - 1] - 1 ELSE left[d - 1]
  <1> DEFINE lo == start - 1
             hi == LastStop(start)
             turn == [x \in Int \X Int |-> IF IsWorkingDay(x[1], holidays) THEN x[2] - 1 ELSE x[2]]
             left == Remaining(start, days, holidays)
  <1>1. lo \in Int /\ hi \in Int /\ lo < hi /\ Asked(days) \in Int
    BY RulesConstants DEF LastStop, Asked
  <1>2. turn \in [Int \X Int -> Int]
    OBVIOUS
  <1>3. \A n \in Int, m \in Int : turn[<<n, m>>] = IF IsWorkingDay(n, holidays) THEN m - 1 ELSE m
    OBVIOUS
  <1> HIDE DEF turn, lo, hi
  <1>4. PICK f \in [lo..hi -> Int] : Loops(f, lo, hi, Asked(days), turn)
    BY <1>1, <1>2, LoopIsDefined
  <1>5. f = [d \in lo..hi |-> IF d = lo THEN Asked(days)
                              ELSE IF IsWorkingDay(d, holidays) THEN f[d - 1] - 1 ELSE f[d - 1]]
    <2>1. ASSUME NEW d \in lo..hi
          PROVE  f[d] = IF d = lo THEN Asked(days)
                        ELSE IF IsWorkingDay(d, holidays) THEN f[d - 1] - 1 ELSE f[d - 1]
      <3>1. f[d] = IF d = lo THEN Asked(days) ELSE turn[<<d, f[d - 1]>>]
        BY <1>4 DEF Loops
      <3>2. d # lo => d \in Int /\ f[d - 1] \in Int
        BY <1>1
      <3> QED
        BY <1>3, <3>1, <3>2
    <2> QED
      BY <2>1
  <1>6. left = [d \in lo..hi |-> IF d = lo THEN Asked(days)
                                 ELSE IF IsWorkingDay(d, holidays) THEN left[d - 1] - 1 ELSE left[d - 1]]
    BY <1>5 DEF Remaining, Asked, lo, hi
  <1> HIDE DEF left
  <1>7. left[lo] = Asked(days)
    BY <1>1, <1>6
  <1>8. \A d \in (lo + 1)..hi : left[d] = IF IsWorkingDay(d, holidays) THEN left[d - 1] - 1 ELSE left[d - 1]
    <2> TAKE d \in (lo + 1)..hi
    <2>1. d \in lo..hi /\ d # lo
      BY <1>1
    <2> QED
      BY <1>6, <2>1
  <1> DEFINE S == {d \in lo..hi : left[d] \in Int}
  <1>9. lo \in S
    BY <1>1, <1>7
  <1>10. ASSUME NEW d \in (lo + 1)..hi, d - 1 \in S PROVE d \in S
    BY <1>1, <1>8, <1>10
  <1> HIDE DEF S
  <1>11. \A d \in lo..hi : d \in S
    BY <1>1, <1>9, <1>10, UpFromTheFirst
  <1>12. left \in [lo..hi -> Int]
    BY <1>6, <1>11 DEF S
  <1>13. lo + 1 = start
    BY DEF lo
  <1> QED
    BY <1>7, <1>8, <1>12, <1>13 DEF lo, hi, left

\* The working days so far and the ones left are the ones asked for.
LEMMA WhatIsLeft ==
  ASSUME NEW start \in Int, NEW days \in Int, NEW holidays
  PROVE  \A d \in (start - 1)..LastStop(start) :
            /\ business_days_inclusive(start, d, holidays) \in Nat
            /\ Remaining(start, days, holidays)[d] + business_days_inclusive(start, d, holidays) = Asked(days)
  <1> DEFINE lo == start - 1
             hi == LastStop(start)
             left == Remaining(start, days, holidays)
             worked(d) == {x \in start..d : IsWorkingDay(x, holidays)}
             S == {d \in lo..hi : left[d] + Cardinality(worked(d)) = Asked(days)}
  <1>1. lo \in Int /\ hi \in Int /\ lo < hi /\ Asked(days) \in Int /\ lo + 1 = start
    BY RulesConstants DEF LastStop, Asked
  <1>2. /\ left \in [lo..hi -> Int] /\ left[lo] = Asked(days)
        /\ \A d \in start..hi : left[d] = IF IsWorkingDay(d, holidays) THEN left[d - 1] - 1 ELSE left[d - 1]
    BY RemainingGoesDown
  <1>3. ASSUME NEW d \in Int PROVE IsFiniteSet(worked(d)) /\ Cardinality(worked(d)) \in Nat
    <2>1. IsFiniteSet(start..d)
      BY FS_Interval
    <2>2. IsFiniteSet(worked(d))
      BY <2>1, FS_Subset
    <2> QED
      BY <2>2, FS_CardinalityType
  <1> HIDE DEF left, hi
  <1>4. lo \in S
    <2>1. worked(lo) = {}
      BY <1>1
    <2>2. Cardinality(worked(lo)) = 0
      BY <2>1, FS_EmptySet
    <2> QED
      BY <1>1, <1>2, <2>2
  <1>5. ASSUME NEW d \in (lo + 1)..hi, d - 1 \in S PROVE d \in S
    <2>1. d \in Int /\ d - 1 \in Int /\ d \in start..hi /\ d \in lo..hi /\ d - 1 \in lo..hi
      BY <1>1
    <2>2. left[d] = IF IsWorkingDay(d, holidays) THEN left[d - 1] - 1 ELSE left[d - 1]
      BY <1>2, <2>1
    <2>3. left[d - 1] + Cardinality(worked(d - 1)) = Asked(days)
      BY <1>5
    <2>4. left[d - 1] \in Int /\ Cardinality(worked(d - 1)) \in Nat
      BY <1>2, <1>3, <2>1
    <2>5. CASE IsWorkingDay(d, holidays)
      <3>1. worked(d) = worked(d - 1) \cup {d} /\ d \notin worked(d - 1)
        BY <2>1, <2>5
      <3>2. Cardinality(worked(d)) = Cardinality(worked(d - 1)) + 1
        BY <1>3, <2>1, <3>1, FS_AddElement
      <3> HIDE DEF worked
      <3>3. left[d] + Cardinality(worked(d)) = Asked(days)
        BY <2>2, <2>3, <2>4, <2>5, <3>2
      <3> QED
        BY <2>1, <3>3
    <2>6. CASE ~IsWorkingDay(d, holidays)
      <3>1. worked(d) = worked(d - 1)
        BY <2>1, <2>6
      <3> HIDE DEF worked
      <3> QED
        BY <2>1, <2>2, <2>3, <2>6, <3>1
    <2> QED
      BY <2>5, <2>6
  <1> HIDE DEF S
  <1>6. \A d \in lo..hi : d \in S
    BY <1>1, <1>4, <1>5, UpFromTheFirst
  <1>7. \A d \in lo..hi : /\ Cardinality(worked(d)) \in Nat
                         /\ left[d] + Cardinality(worked(d)) = Asked(days)
    <2>1. \A d \in lo..hi : d \in Int
      BY <1>1
    <2> HIDE DEF worked
    <2>2. \A d \in lo..hi : left[d] + Cardinality(worked(d)) = Asked(days)
      BY <1>6 DEF S
    <2> QED
      BY <1>3, <2>1, <2>2
  <1>8. \A d : business_days_inclusive(start, d, holidays) = Cardinality(worked(d))
    BY DEF business_days_inclusive
  <1> HIDE DEF worked
  <1> QED
    BY <1>7, <1>8 DEF left, hi

\* A week has three working days at least, one holiday or none in it.
LEMMA AWeekIsEnough ==
  ASSUME NEW start \in Nat, NEW days \in Int, days <= 3, NEW h
  PROVE  Remaining(start, days, {h})[start + 6] <= 0
  <1> DEFINE left == Remaining(start, days, {h})
  <1>1. /\ left \in [(start - 1)..LastStop(start) -> Int] /\ left[start - 1] <= 3
        /\ \A d \in start..LastStop(start) : left[d] = IF IsWorkingDay(d, {h}) THEN left[d - 1] - 1 ELSE left[d - 1]
    BY RemainingGoesDown DEF Asked
  <1> HIDE DEF left
  <1>2. \A d \in start..(start + 6) : /\ d \in start..LastStop(start) /\ d - 1 \in (start - 1)..LastStop(start)
                                     /\ d \in (start - 1)..LastStop(start)
    BY RulesConstants DEF LastStop
  <1> DEFINE w(d) == IF IsWorkingDay(d, {h}) THEN 1 ELSE 0
  <1>3. \A d \in start..(start + 6) : left[d] = left[d - 1] - w(d) /\ left[d] \in Int /\ left[d - 1] \in Int
    <2> TAKE d \in start..(start + 6)
    <2>1. left[d] = (IF IsWorkingDay(d, {h}) THEN left[d - 1] - 1 ELSE left[d - 1]) /\ left[d] \in Int /\ left[d - 1] \in Int
      BY <1>1, <1>2
    <2> QED
      BY <2>1
  <1>4. w(start) + w(start + 1) + w(start + 2) + w(start + 3) + w(start + 4) + w(start + 5) + w(start + 6) >= 3
    BY DEF IsWorkingDay
  <1>5. /\ w(start) \in Int /\ w(start + 1) \in Int /\ w(start + 2) \in Int /\ w(start + 3) \in Int
        /\ w(start + 4) \in Int /\ w(start + 5) \in Int /\ w(start + 6) \in Int
    OBVIOUS
  <1> HIDE DEF w
  <1>6. \A d \in start..(start + 6) : left[d - 1] \in Int /\ left[d] \in Int
    BY <1>3
  <1>7. left[start] = left[start - 1] - w(start)
    BY <1>3
  <1>8. left[start + 1] = left[start - 1] - (w(start) + w(start + 1))
    <2>1. (start + 1) - 1 = start /\ start + 1 \in start..(start + 6) /\ start \in start..(start + 6)
      OBVIOUS
    <2> QED
      BY <1>3, <1>5, <1>7, <2>1
  <1>9. left[start + 2] = left[start - 1] - (w(start) + w(start + 1) + w(start + 2))
    <2>1. (start + 2) - 1 = start + 1 /\ start + 2 \in start..(start + 6) /\ start \in start..(start + 6)
      OBVIOUS
    <2> QED
      BY <1>3, <1>5, <1>8, <2>1
  <1>10. left[start + 3] = left[start - 1] - (w(start) + w(start + 1) + w(start + 2) + w(start + 3))
    <2>1. (start + 3) - 1 = start + 2 /\ start + 3 \in start..(start + 6) /\ start \in start..(start + 6)
      OBVIOUS
    <2> QED
      BY <1>3, <1>5, <1>9, <2>1
  <1>11. left[start + 4] = left[start - 1] - (w(start) + w(start + 1) + w(start + 2) + w(start + 3) + w(start + 4))
    <2>1. (start + 4) - 1 = start + 3 /\ start + 4 \in start..(start + 6) /\ start \in start..(start + 6)
      OBVIOUS
    <2> QED
      BY <1>3, <1>5, <1>10, <2>1
  <1>12. left[start + 5] = left[start - 1] - (w(start) + w(start + 1) + w(start + 2) + w(start + 3) + w(start + 4) + w(start + 5))
    <2>1. (start + 5) - 1 = start + 4 /\ start + 5 \in start..(start + 6) /\ start \in start..(start + 6)
      OBVIOUS
    <2> QED
      BY <1>3, <1>5, <1>11, <2>1
  <1>13. left[start + 6] = left[start - 1] - (w(start) + w(start + 1) + w(start + 2) + w(start + 3) + w(start + 4) + w(start + 5) + w(start + 6))
    <2>1. (start + 6) - 1 = start + 5 /\ start + 6 \in start..(start + 6) /\ start \in start..(start + 6)
      OBVIOUS
    <2> QED
      BY <1>3, <1>5, <1>12, <2>1
  <1>14. left[start + 6] <= 0
    <2>1. left[start - 1] \in Int /\ left[start - 1] <= 3
      BY <1>1, <1>6
    <2> QED
      BY <1>4, <1>5, <1>13, <2>1
  <1> QED
    BY <1>14 DEF left

\* A span that is asked for in days ends within the calendar and its week, on a day that
\* makes it that long.
LEMMA SpanIsAsLong ==
  ASSUME NEW start \in Nat, NEW days \in Int, NEW holidays,
         NEW enough \in start..LastStop(start), Remaining(start, days, holidays)[enough] <= 0
  PROVE  LET end == span_end(start, days, holidays)
         IN  /\ end \in start..enough
             /\ business_days_inclusive(start, end, holidays) = Asked(days)
  <1> DEFINE left == Remaining(start, days, holidays)
             done == {d \in start..LastStop(start) : left[d] <= 0}
             end == span_end(start, days, holidays)
  <1>1. /\ left \in [(start - 1)..LastStop(start) -> Int] /\ left[start - 1] = Asked(days)
        /\ \A d \in start..LastStop(start) : left[d] = IF IsWorkingDay(d, holidays) THEN left[d - 1] - 1 ELSE left[d - 1]
    BY RemainingGoesDown
  <1>2. \A d \in (start - 1)..LastStop(start) :
           /\ business_days_inclusive(start, d, holidays) \in Nat
           /\ left[d] + business_days_inclusive(start, d, holidays) = Asked(days)
    BY WhatIsLeft
  <1>3. left[enough] <= 0
    OBVIOUS
  <1>4. LastStop(start) \in Int
    BY RulesConstants DEF LastStop
  <1> HIDE DEF left
  <1>5. end = Min(done)
    BY DEF span_end, left
  <1>6. end \in done /\ \A d \in done : end <= d
    <2>1. done \in SUBSET Nat /\ enough \in done
      BY <1>3, <1>4
    <2> QED
      BY <1>5, <2>1, MinIsLeast
  <1> HIDE DEF end
  <1>7. /\ end \in start..LastStop(start) /\ left[end] <= 0 /\ end <= enough
        /\ end \in start..enough
    <2>1. enough \in done
      BY <1>3
    <2> QED
      BY <1>4, <1>6, <2>1
  <1>8. left[end - 1] >= 1 /\ left[end - 1] \in Int /\ left[end] \in Int
    <2>1. end - 1 \in (start - 1)..LastStop(start) /\ end \in (start - 1)..LastStop(start)
      BY <1>4, <1>7
    <2>2. CASE end = start
      BY <1>1, <2>1, <2>2 DEF Asked
    <2>3. CASE end # start
      <3>1. end - 1 \in start..LastStop(start) /\ ~(end <= end - 1)
        BY <1>4, <1>7, <2>3
      <3>2. ~(left[end - 1] <= 0)
        BY <1>6, <3>1
      <3>3. left[end - 1] \in Int
        BY <1>1, <2>1
      <3> QED
        BY <1>1, <2>1, <3>2, <3>3
    <2> QED
      BY <2>2, <2>3
  <1>9. left[end] = 0
    <2>1. left[end] = left[end - 1] - 1 \/ left[end] = left[end - 1]
      BY <1>1, <1>7
    <2> QED
      BY <1>7, <1>8, <2>1
  <1>10. business_days_inclusive(start, end, holidays) = Asked(days)
    <2>1. end \in (start - 1)..LastStop(start)
      BY <1>4, <1>7
    <2> QED
      BY <1>2, <1>9, <2>1
  <1> QED
    BY <1>7, <1>10 DEF end

\* Whatever the dates and the days a question gives, they agree.
LEMMA SpansOfAQuestionAgree ==
  ASSUME NEW p \in DateInputs
  PROVE  SpansAgree(p)
  <1> DEFINE holidays == {p.holiday}
             derived == derive_parameters(p, holidays)
             start == p.start
  <1>1. /\ start \in Nat /\ start <= LastRulesDay /\ p.days \in Int /\ p.days <= 3 /\ p.end \in Int
        /\ p.end # NotGiven => p.end \in Nat /\ p.end <= LastRulesDay
    BY RulesConstants DEF DateInputs, NotGiven
  <1>2. ASSUME ~derived.error, p.end = NotGiven
        PROVE  business_days_inclusive(start, derived.end, holidays) = Asked(p.days)
    <2> DEFINE days == IF p.days = NotGiven THEN 1 ELSE p.days
    <2>1. derived.end = span_end(start, days, holidays)
      BY <1>2 DEF derive_parameters
    <2>2. days \in Int /\ days <= 3 /\ Asked(days) = Asked(p.days)
      BY <1>1 DEF Asked, NotGiven
    <2> HIDE DEF days, holidays, derived
    <2>3. start + 6 \in start..LastStop(start)
      BY <1>1, RulesConstants DEF LastStop
    <2>4. Remaining(start, days, holidays)[start + 6] <= 0
      BY <1>1, <2>2, AWeekIsEnough DEF holidays
    <2> QED
      BY <1>1, <2>1, <2>2, <2>3, <2>4, SpanIsAsLong
  <1>3. ASSUME ~derived.error, p.end # NotGiven, p.days = NotGiven, derived.days > 0
        PROVE  span_end(start, derived.days, holidays) <= p.end
    <2>1. derived.days = business_days_inclusive(start, p.end, holidays) /\ ~(p.end < start)
      BY <1>3 DEF derive_parameters
    <2>2. p.end \in start..LastStop(start) /\ p.end \in (start - 1)..LastStop(start) /\ LastStop(start) \in Int
      BY <1>1, <1>3, <2>1, RulesConstants DEF LastStop
    <2> HIDE DEF holidays, derived
    <2>3. derived.days \in Nat
      <3>1. business_days_inclusive(start, p.end, holidays) \in Nat
        <4>1. start \in Int /\ 1 \in Int
          BY <1>1
        <4> HIDE DEF start
        <4> QED
          BY <2>2, <4>1, WhatIsLeft
      <3> QED
        BY <2>1, <3>1
    <2>4. Remaining(start, derived.days, holidays)[p.end] <= 0
      <3>1. Remaining(start, derived.days, holidays)[p.end] + derived.days = Asked(derived.days)
        BY <1>1, <2>1, <2>2, <2>3, WhatIsLeft
      <3>2. Remaining(start, derived.days, holidays)[p.end] \in Int
        BY <1>1, <2>2, <2>3, RemainingGoesDown
      <3>3. Asked(derived.days) = derived.days
        BY <1>3, <2>3 DEF Asked
      <3> QED
        BY <2>3, <3>1, <3>2, <3>3
    <2>5. span_end(start, derived.days, holidays) \in start..p.end
      BY <1>1, <2>2, <2>3, <2>4, SpanIsAsLong
    <2> QED
      BY <1>1, <2>5
  <1>4. business_days_between(start, p.end, holidays) <= business_days_inclusive(start, p.end, holidays)
    <2> DEFINE within == {d \in start..p.end : IsWorkingDay(d, holidays)}
               between == {d \in (start + 1)..(p.end - 1) : IsWorkingDay(d, holidays)}
    <2>1. between \in SUBSET within
      BY <1>1
    <2>2. IsFiniteSet(within)
      <3>1. IsFiniteSet(start..p.end)
        <4>1. start \in Int /\ p.end \in Int
          BY <1>1
        <4> HIDE DEF start
        <4> QED
          BY <4>1, FS_Interval
      <3> QED
        BY <3>1, FS_Subset
    <2>3. Cardinality(between) <= Cardinality(within)
      BY <2>1, <2>2, FS_Subset
    <2> QED
      BY <2>3 DEF business_days_between, business_days_inclusive
  <1> QED
    BY <1>2, <1>3, <1>4 DEF SpansAgree, Asked

-----------------------------------------------------------------------------
(* The approvers.  A walk up the managers from an actor never comes back   *)
(* to them, and each one on it is the manager of the one before.           *)
IsWalk(walk, actor, managers) ==
    /\ walk \in Seq(People)
    /\ actor \notin ToSet(walk)
    /\ walk # <<>> => walk[1] = managers[actor]
    /\ \A n \in 2..Len(walk) : walk[n] = managers[walk[n - 1]]

\* One turn of the loop of chain() goes on with the walk; only who has no manager but
\* themselves has nobody above them.
LEMMA ClimbGoesOn ==
  ASSUME NEW actor \in People, NEW managers \in [People -> People \cup {Nobody}],
         NEW walk, IsWalk(walk, actor, managers)
  PROVE  /\ IsWalk(Climb(actor, walk, managers), actor, managers)
         /\ Climb(actor, walk, managers) = <<>> => managers[actor] \in {Nobody, actor}
  <1> DEFINE from == IF walk = <<>> THEN actor ELSE Last(walk)
             above == managers[from]
             next == Append(walk, above)
  <1>1. walk \in Seq(People) /\ actor \notin ToSet(walk) /\ Len(walk) \in Nat
    BY DEF IsWalk
  <1>2. from \in People /\ (walk # <<>> => Len(walk) >= 1 /\ from = walk[Len(walk)])
    BY <1>1 DEF Last
  <1>3. Climb(actor, walk, managers) = IF above \in {Nobody, actor} \cup ToSet(walk) THEN walk ELSE next
    BY DEF Climb
  <1>4. walk = <<>> => from = actor /\ ToSet(walk) = {}
    BY DEF ToSet
  <1> HIDE DEF from
  <1>5. CASE above \in {Nobody, actor} \cup ToSet(walk)
    BY <1>3, <1>4, <1>5
  <1>6. CASE above \notin {Nobody, actor} \cup ToSet(walk)
    <2>1. above \in People /\ above # actor
      BY <1>2, <1>6
    <2> HIDE DEF above
    <2>2. /\ next \in Seq(People) /\ Len(next) = Len(walk) + 1 /\ next[Len(walk) + 1] = above
          /\ \A n \in 1..Len(walk) : next[n] = walk[n]
          /\ next # <<>>
      BY <1>1, <2>1
    <2>3. DOMAIN next = 1..(Len(walk) + 1) /\ DOMAIN walk = 1..Len(walk)
      BY <1>1, <2>2
    <2> HIDE DEF next
    <2>4. actor \notin ToSet(next)
      <3>1. ASSUME NEW n \in DOMAIN next PROVE next[n] # actor
        <4>1. CASE n = Len(walk) + 1
          BY <2>1, <2>2, <4>1
        <4>2. CASE n \in 1..Len(walk)
          BY <1>1, <2>2, <2>3, <4>2 DEF ToSet
        <4> QED
          BY <1>1, <2>3, <4>1, <4>2
      <3> QED
        BY <3>1 DEF ToSet
    <2>5. next[1] = managers[actor]
      <3>1. CASE walk = <<>>
        <4>1. Len(walk) = 0
          BY <3>1
        <4> QED
          BY <1>4, <2>2, <3>1, <4>1 DEF above
      <3>2. CASE walk # <<>>
        <4>1. 1 \in 1..Len(walk)
          BY <1>1, <1>2, <3>2
        <4> QED
          BY <2>2, <3>2, <4>1 DEF IsWalk
      <3> QED
        BY <3>1, <3>2
    <2>6. ASSUME NEW n \in 2..Len(next) PROVE next[n] = managers[next[n - 1]]
      <3>1. CASE n = Len(walk) + 1
        <4>1. walk # <<>> /\ n - 1 = Len(walk) /\ n - 1 \in 1..Len(walk)
          BY <1>1, <3>1
        <4> QED
          BY <1>2, <2>2, <3>1, <4>1 DEF above
      <3>2. CASE n \in 2..Len(walk)
        <4>1. n \in 1..Len(walk) /\ n - 1 \in 1..Len(walk)
          BY <1>1, <3>2
        <4> QED
          BY <2>2, <3>2, <4>1 DEF IsWalk
      <3> QED
        BY <1>1, <2>2, <3>1, <3>2
    <2>7. IsWalk(next, actor, managers)
      BY <2>2, <2>4, <2>5, <2>6 DEF IsWalk
    <2> QED
      BY <1>3, <1>6, <2>2, <2>7
  <1> QED
    BY <1>5, <1>6

\* So what chain() returns is a walk.
LEMMA ChainIsAWalk ==
  ASSUME NEW actor \in People, NEW managers \in [People -> People \cup {Nobody}]
  PROVE  /\ IsWalk(chain(actor, managers), actor, managers)
         /\ chain(actor, managers) = <<>> => managers[actor] \in {Nobody, actor}
  <1> DEFINE D == {w \in Seq(People) : IsWalk(w, actor, managers)}
             turn == [x \in Int \X D |-> Climb(actor, x[2], managers)]
             Walk[n \in 0..MAX_DEPTH] == IF n = 0 THEN <<>> ELSE Climb(actor, Walk[n - 1], managers)
  <1>1. \A w \in D : Climb(actor, w, managers) \in D
    BY ClimbGoesOn DEF IsWalk
  <1>2. <<>> \in D
    BY DEF IsWalk, ToSet
  <1> HIDE DEF D
  <1>3. turn \in [Int \X D -> D] /\ \A n \in Int, w \in D : turn[<<n, w>>] = Climb(actor, w, managers)
    BY <1>1
  <1> HIDE DEF turn
  <1>4. 0 \in Int /\ MAX_DEPTH \in Int
    BY DEF MAX_DEPTH
  <1>5. PICK f \in [0..MAX_DEPTH -> D] : Loops(f, 0, MAX_DEPTH, <<>>, turn)
    BY <1>2, <1>3, <1>4, LoopIsDefined
  <1>6. f = [n \in 0..MAX_DEPTH |-> IF n = 0 THEN <<>> ELSE Climb(actor, f[n - 1], managers)]
    <2>1. ASSUME NEW n \in 0..MAX_DEPTH
          PROVE  f[n] = IF n = 0 THEN <<>> ELSE Climb(actor, f[n - 1], managers)
      <3>1. f[n] = IF n = 0 THEN <<>> ELSE turn[<<n, f[n - 1]>>]
        BY <1>5 DEF Loops
      <3>2. n # 0 => n \in Int /\ f[n - 1] \in D
        BY <1>4
      <3> QED
        BY <1>3, <3>1, <3>2
    <2> QED
      BY <2>1
  <1>7. Walk = [n \in 0..MAX_DEPTH |-> IF n = 0 THEN <<>> ELSE Climb(actor, Walk[n - 1], managers)]
    BY <1>6
  <1>8. chain(actor, managers) = Walk[MAX_DEPTH]
    BY DEF chain
  <1> HIDE DEF Walk
  <1> DEFINE S == {n \in 0..MAX_DEPTH : Walk[n] \in D}
  <1>9. 0 \in S
    BY <1>2, <1>4, <1>7 DEF MAX_DEPTH
  <1>10. ASSUME NEW n \in (0 + 1)..MAX_DEPTH, n - 1 \in S PROVE n \in S
    <2>1. n \in 0..MAX_DEPTH /\ n # 0
      BY <1>4
    <2>2. Walk[n] = Climb(actor, Walk[n - 1], managers)
      BY <1>7, <2>1
    <2> QED
      BY <1>1, <1>10, <2>1, <2>2
  <1> HIDE DEF S
  <1>11. \A n \in 0..MAX_DEPTH : n \in S
    BY <1>4, <1>9, <1>10, UpFromTheFirst
  <1>12. MAX_DEPTH - 1 \in 0..MAX_DEPTH /\ MAX_DEPTH \in 0..MAX_DEPTH /\ MAX_DEPTH # 0
    BY DEF MAX_DEPTH
  <1>13. Walk[MAX_DEPTH - 1] \in D /\ Walk[MAX_DEPTH] = Climb(actor, Walk[MAX_DEPTH - 1], managers)
    BY <1>7, <1>11, <1>12 DEF S
  <1> QED
    BY <1>8, <1>13, ClimbGoesOn DEF D

\* The chain never leaves people who are managed by one another, if the actor is one.
LEMMA ChainStaysAmong ==
  ASSUME NEW actor \in People, NEW managers \in [People -> People \cup {Nobody}],
         NEW among, actor \in among, \A p \in among : managers[p] \in among
  PROVE  \A p \in ToSet(chain(actor, managers)) : p \in among
  <1> DEFINE walk == chain(actor, managers)
             S == {n \in 1..Len(walk) : walk[n] \in among}
  <1>1. IsWalk(walk, actor, managers)
    BY ChainIsAWalk
  <1> HIDE DEF walk
  <1>2. walk \in Seq(People) /\ Len(walk) \in Nat /\ DOMAIN walk = 1..Len(walk)
    BY <1>1 DEF IsWalk
  <1>3. CASE walk = <<>>
    BY <1>3 DEF ToSet, walk
  <1>4. CASE walk # <<>>
    <2>1. 1 \in S
      BY <1>1, <1>2, <1>4 DEF IsWalk
    <2>2. ASSUME NEW n \in (1 + 1)..Len(walk), n - 1 \in S PROVE n \in S
      BY <1>1, <1>2, <2>2 DEF IsWalk
    <2> HIDE DEF S
    <2>3. \A n \in 1..Len(walk) : n \in S
      <3>1. 1 \in Int /\ Len(walk) \in Int /\ \A n \in (1 + 1)..Len(walk) : n - 1 \in S => n \in S
        BY <1>2, <2>2
      <3> QED
        BY <2>1, <3>1, UpFromTheFirst
    <2> QED
      BY <1>2, <2>3 DEF S, ToSet, walk
  <1> QED
    BY <1>3, <1>4

\* Who is named to approve is above the actor.
LEMMA ApproverIsAbove ==
  ASSUME NEW i \in ApproverInputs, NEW p \in People
  PROVE  resolve(i.kind, p, i.title, i.managers).person \in {Nobody} \cup ToSet(chain(p, i.managers))
  <1> DEFINE above == chain(p, i.managers)
             next == IF above = <<>> THEN Nobody ELSE Head(above)
             holders == {n \in DOMAIN above : i.title[above[n]] = i.kind}
             held == IF holders = {} THEN Nobody ELSE above[Min(holders)]
  <1>1. IsWalk(above, p, i.managers)
    BY ChainIsAWalk DEF ApproverInputs
  <1>2. resolve(i.kind, p, i.title, i.managers).person \in {next, held}
    BY DEF resolve, Route
  <1> HIDE DEF above
  <1>3. above \in Seq(People) /\ DOMAIN above = 1..Len(above) /\ Len(above) \in Nat
    BY <1>1 DEF IsWalk
  <1>4. next \in {Nobody} \cup ToSet(above)
    BY <1>3 DEF ToSet
  <1>5. held \in {Nobody} \cup ToSet(above)
    <2>1. CASE holders # {}
      <3>1. holders \in SUBSET Nat
        BY <1>3
      <3>2. Min(holders) \in holders
        BY <2>1, <3>1, MinIsLeast
      <3> QED
        BY <2>1, <3>2 DEF ToSet
    <2> QED
      BY <2>1
  <1> QED
    BY <1>2, <1>4, <1>5 DEF above

\* Whoever manages whom, nobody approves what is their own.
LEMMA NobodyApprovesTheirOwn ==
  ASSUME NEW i \in ApproverInputs
  PROVE  NobodyApprovesThemselves(i)
  <1> DEFINE m == i.managers
             approver(p) == resolve(i.kind, p, i.title, i.managers).person
             up(p) == chain(p, m)
             cyclic == \E p \in People : Nobody \notin {m[q] : q \in {p} \cup ToSet(up(p))}
  <1>1. m \in [People -> People \cup {Nobody}]
    BY DEF ApproverInputs
  <1>2. \A p \in People : IsWalk(up(p), p, m) /\ approver(p) \in {Nobody} \cup ToSet(up(p))
    BY <1>1, ChainIsAWalk, ApproverIsAbove
  <1>3. \A p \in People : approver(p) # p
    BY <1>2, NobodyIsNobody DEF IsWalk
  <1>4. ASSUME NEW p \in People, NEW q \in People, approver(p) = q, approver(q) = p
        PROVE  cyclic
    <2> DEFINE walk == up(p)
               back == up(q)
    <2>1. PICK j \in DOMAIN walk : walk[j] = q
      BY <1>2, <1>4, NobodyIsNobody DEF ToSet
    <2>2. PICK l \in DOMAIN back : back[l] = p
      BY <1>2, <1>4, NobodyIsNobody DEF ToSet
    <2>3. IsWalk(walk, p, m) /\ IsWalk(back, q, m)
      BY <1>2
    <2> HIDE DEF walk, back, approver
    <2>4. /\ walk \in Seq(People) /\ DOMAIN walk = 1..Len(walk) /\ Len(walk) \in Nat /\ walk # <<>>
          /\ back \in Seq(People) /\ DOMAIN back = 1..Len(back) /\ Len(back) \in Nat /\ back # <<>>
      BY <2>1, <2>2, <2>3 DEF IsWalk
    <2> DEFINE among == {walk[n] : n \in 1..j} \cup {back[n] : n \in 1..l}
    <2>5. p \in among /\ q \in among /\ among \in SUBSET People
      BY <2>1, <2>2, <2>4
    <2>6. ASSUME NEW n \in 1..j PROVE m[walk[n]] \in among
      <3>1. CASE n = j
        <4>1. m[q] = back[1] /\ 1 \in 1..l
          BY <2>2, <2>3, <2>4 DEF IsWalk
        <4> QED
          BY <2>1, <3>1, <4>1
      <3>2. CASE n # j
        <4>1. n + 1 \in 2..Len(walk) /\ n + 1 \in 1..j /\ (n + 1) - 1 = n
          BY <2>1, <2>4, <3>2
        <4>2. walk[n + 1] = m[walk[n]]
          BY <2>3, <4>1 DEF IsWalk
        <4> QED
          BY <4>1, <4>2
      <3> QED
        BY <3>1, <3>2
    <2>7. ASSUME NEW n \in 1..l PROVE m[back[n]] \in among
      <3>1. CASE n = l
        <4>1. m[p] = walk[1] /\ 1 \in 1..j
          BY <2>1, <2>3, <2>4 DEF IsWalk
        <4> QED
          BY <2>2, <3>1, <4>1
      <3>2. CASE n # l
        <4>1. n + 1 \in 2..Len(back) /\ n + 1 \in 1..l /\ (n + 1) - 1 = n
          BY <2>2, <2>4, <3>2
        <4>2. back[n + 1] = m[back[n]]
          BY <2>3, <4>1 DEF IsWalk
        <4> QED
          BY <4>1, <4>2
      <3> QED
        BY <3>1, <3>2
    <2>8. \A x \in among : m[x] \in among
      BY <2>6, <2>7
    <2> HIDE DEF among, m
    <2>9. \A x \in ToSet(up(p)) : x \in among
      BY <1>1, <2>5, <2>8, ChainStaysAmong
    <2>10. \A x \in {p} \cup ToSet(up(p)) : m[x] # Nobody
      BY <2>5, <2>8, <2>9, NobodyIsNobody
    <2> QED
      BY <2>10
  <1> QED
    BY <1>3, <1>4 DEF NobodyApprovesThemselves

\* And the manager a profile names is the one who would be asked.
LEMMA OneManager ==
  ASSUME NEW i \in ProfileInputs
  PROVE  OneManagerPerPerson(i)
  <1> SUFFICES ASSUME i.who # Nobody PROVE OneManagerPerPerson(i)
    BY DEF OneManagerPerPerson, _profile
  <1> DEFINE m == i.managers
             p == i.who
             above == chain(p, m)
             out == _profile(i)
  <1>1. m \in [People -> People \cup {Nobody}] /\ p \in People /\ Acyclic(m)
    BY DEF ProfileInputs
  <1>2. IsWalk(above, p, m) /\ (above = <<>> => m[p] \in {Nobody, p})
    BY <1>1, ChainIsAWalk
  <1>3. m[p] # p
    BY <1>1 DEF Acyclic
  <1>4. (IF above = <<>> THEN Nobody ELSE Head(above)) = m[p]
    <2> HIDE DEF above
    <2>1. above # <<>> => Head(above) = above[1]
      BY <1>2 DEF IsWalk
    <2> QED
      BY <1>2, <1>3, <2>1 DEF IsWalk
  <1>5. resolve("manager", p, [q \in People |-> "staff"], m).person = m[p]
    BY <1>4 DEF resolve, Route
  <1>6. approvers_of(m, p) = {m[p]} \ {Nobody}
    BY <1>5 DEF approvers_of
  <1>7. /\ out.status = "ok" /\ out.manager = m[p] /\ out.skip_level = skip_level(m, p)
        /\ out.approvers = {m[p]} \ {Nobody}
    BY <1>6 DEF _profile
  <1> HIDE DEF out
  <1>8. ASSUME NEW role \in {"manager", "skip_level", "benefits_team"}
        PROVE  recipient_name(m, p, role) = "a person" <=>
                  (role = "manager" /\ out.approvers # {}) \/ (role = "skip_level" /\ out.skip_level # Nobody)
    BY <1>7 DEF recipient_name
  <1>9. read_meta(p).source = "explicit"
    BY DEF read_meta
  <1> QED
    BY <1>7, <1>8, <1>9 DEF OneManagerPerPerson, out

-----------------------------------------------------------------------------
(* The index (Tools).                                                      *)

\* What the files may hold.
IndexFiles == [manifest : {NoFile} \cup Versions, index : {NoFile, SchemaOnly} \cup Versions, model : {"m1", "m2"},
               report : {NoFile} \cup Versions, exit : 0..2]

\* An index with rows in it is one that a build up to n wrote, with its model.
IndexIsOf(files, builds, n) ==
    files.index > SchemaOnly => \E m \in 1..n : builds[m].corpus = files.index /\ builds[m].model = files.model

\* One build more.
LEMMA OneBuild ==
  ASSUME NEW files \in IndexFiles, NEW b \in Builds
  PROVE  LET out == main(files, b)
         IN  /\ out \in IndexFiles
             /\ \/ out.index <= SchemaOnly
                \/ out.index = files.index /\ out.model = files.model
                \/ out.index = b.corpus /\ out.model = b.model
             /\ b.crash = 0 => out.index = b.corpus /\ out.model = b.model /\ out.report = b.corpus
             /\ b.crash = 0 /\ b.op = "ingest" => out.manifest = b.corpus
             /\ b.op = "verify" => out.manifest = files.manifest /\ (out.exit = 0 => files.manifest = b.corpus)
  <1> DEFINE manifest == IF b.op = "ingest" /\ Reaches(b, 1) THEN b.corpus ELSE files.manifest
             index == IF Reaches(b, 4) THEN b.corpus ELSE IF Reaches(b, 3) THEN SchemaOnly
                      ELSE IF Reaches(b, 2) THEN NoFile ELSE files.index
             model == IF Reaches(b, 4) THEN b.model ELSE files.model
             report == IF b.crash = 0 THEN b.corpus ELSE files.report
             exit == IF b.crash # 0 THEN 2 ELSE IF b.op = "verify" /\ files.manifest # b.corpus THEN 1 ELSE 0
  <1>1. /\ b.op \in {"ingest", "verify"} /\ b.corpus \in Versions /\ b.model \in {"m1", "m2"} /\ b.crash \in 0..4
        /\ files.manifest \in {NoFile} \cup Versions /\ files.index \in {NoFile, SchemaOnly} \cup Versions
        /\ files.model \in {"m1", "m2"} /\ files.report \in {NoFile} \cup Versions /\ files.exit \in 0..2
        /\ files = [manifest |-> files.manifest, index |-> files.index, model |-> files.model, report |-> files.report,
                    exit |-> files.exit]
    BY DEF IndexFiles, Builds
  <1>2. main(files, b) = [manifest |-> manifest, index |-> index, model |-> model, report |-> report, exit |-> exit]
    <2> DEFINE written == [manifest |-> manifest, index |-> files.index, model |-> files.model, report |-> files.report, exit |-> files.exit]
               built == [manifest |-> manifest, index |-> index, model |-> model, report |-> files.report, exit |-> files.exit]
               ingested == [manifest |-> manifest, index |-> index, model |-> model, report |-> report, exit |-> files.exit]
    <2>1. [files EXCEPT !.manifest = IF b.op = "ingest" /\ Reaches(b, 1) THEN b.corpus ELSE @] = written
      BY <1>1
    <2>2. build_index(written, b) = built
      <3>1. written.index = files.index /\ written.model = files.model
        OBVIOUS
      <3>2. build_index(written, b) = [written EXCEPT !.index = index, !.model = model]
        <4> HIDE DEF written
        <4> QED
          BY <3>1 DEF build_index
      <3> HIDE DEF index, model, manifest
      <3> QED
        BY <3>2
    <2>3. [built EXCEPT !.report = IF b.crash = 0 THEN b.corpus ELSE @] = ingested
      BY DEF built
    <2>4. ingest(files, b) = ingested
      BY <2>1, <2>2, <2>3, Zenon DEF ingest
    <2>5. main(files, b) = [ingested EXCEPT !.exit = exit]
      BY <2>4, Zenon DEF main
    <2> QED
      BY <2>5
  <1>3. /\ manifest \in {NoFile} \cup Versions /\ index \in {NoFile, SchemaOnly} \cup Versions /\ model \in {"m1", "m2"}
        /\ report \in {NoFile} \cup Versions /\ exit \in 0..2
    BY <1>1
  <1>4. index <= SchemaOnly \/ (index = files.index /\ model = files.model) \/ (index = b.corpus /\ model = b.model)
    BY <1>1 DEF NoFile, SchemaOnly, Reaches
  <1>5. /\ b.crash = 0 => index = b.corpus /\ model = b.model /\ report = b.corpus
        /\ b.crash = 0 /\ b.op = "ingest" => manifest = b.corpus
        /\ b.op = "verify" => manifest = files.manifest /\ (exit = 0 => files.manifest = b.corpus)
    BY <1>1 DEF Reaches
  <1> HIDE DEF manifest, index, model, report, exit
  <1>6. [manifest |-> manifest, index |-> index, model |-> model, report |-> report, exit |-> exit] \in IndexFiles
    BY <1>3 DEF IndexFiles
  <1> QED
    BY <1>2, <1>4, <1>5, <1>6

\* What the files hold after the first n builds, for every n.
LEMMA EachBuildIsOne ==
  ASSUME NEW builds \in Seq(Builds)
  PROVE  /\ Built(builds)[0] = Nothing
         /\ \A n \in DOMAIN builds : Built(builds)[n] = main(Built(builds)[n - 1], builds[n])
         /\ \A n \in 0..Len(builds) : Built(builds)[n] \in IndexFiles /\ IndexIsOf(Built(builds)[n], builds, n)
  <1> DEFINE N == Len(builds)
             Files[n \in 0..N] == IF n = 0 THEN Nothing ELSE main(Files[n - 1], builds[n])
             step == [x \in Int \X IndexFiles |-> IF x[1] \in 1..N THEN main(x[2], builds[x[1]]) ELSE x[2]]
  <1>1. N \in Nat /\ 0 \in Int /\ N \in Int /\ DOMAIN builds = 1..N /\ \A n \in 1..N : builds[n] \in Builds
    OBVIOUS
  <1>2. Nothing \in IndexFiles /\ Nothing.index = NoFile
    BY DEF Nothing, IndexFiles
  <1>3. step \in [Int \X IndexFiles -> IndexFiles]
    <2>1. ASSUME NEW x \in Int \X IndexFiles, x[1] \in 1..N PROVE main(x[2], builds[x[1]]) \in IndexFiles
      <3>1. x[2] \in IndexFiles /\ builds[x[1]] \in Builds
        BY <1>1, <2>1
      <3> QED
        BY <3>1, OneBuild
    <2> QED
      BY <2>1
  <1>4. \A n \in 1..N : \A x \in IndexFiles : step[<<n, x>>] = main(x, builds[n])
    OBVIOUS
  <1> HIDE DEF step, N
  <1>5. PICK f \in [0..N -> IndexFiles] : Loops(f, 0, N, Nothing, step)
    BY <1>1, <1>2, <1>3, LoopIsDefined
  <1>6. ASSUME NEW n \in 0..N PROVE f[n] = IF n = 0 THEN Nothing ELSE main(f[n - 1], builds[n])
    <2>1. f[n] = IF n = 0 THEN Nothing ELSE step[<<n, f[n - 1]>>]
      BY <1>5 DEF Loops
    <2>2. n # 0 => n \in 1..N /\ f[n - 1] \in IndexFiles
      BY <1>1, <1>5
    <2> QED
      BY <1>4, <2>1, <2>2
  <1>7. Files = [n \in 0..N |-> IF n = 0 THEN Nothing ELSE main(Files[n - 1], builds[n])]
    <2>1. f = [n \in 0..N |-> IF n = 0 THEN Nothing ELSE main(f[n - 1], builds[n])]
      BY <1>5, <1>6
    <2> QED
      BY <2>1
  <1>8. Built(builds) = Files
    BY DEF Built, N
  <1> HIDE DEF Files
  <1>9. Files[0] = Nothing /\ \A n \in 1..N : Files[n] = main(Files[n - 1], builds[n])
    BY <1>1, <1>7
  <1> DEFINE S == {n \in 0..N : Files[n] \in IndexFiles /\ IndexIsOf(Files[n], builds, n)}
  <1>10. 0 \in S
    BY <1>1, <1>2, <1>9 DEF IndexIsOf, NoFile, SchemaOnly
  <1>11. ASSUME NEW n \in (0 + 1)..N, n - 1 \in S PROVE n \in S
    <2> DEFINE before == Files[n - 1]
               b == builds[n]
    <2>1. before \in IndexFiles /\ IndexIsOf(before, builds, n - 1) /\ b \in Builds /\ Files[n] = main(before, b)
          /\ n \in 1..N /\ n \in 0..N
      BY <1>1, <1>9, <1>11
    <2> HIDE DEF before, b, S
    <2>2. /\ Files[n] \in IndexFiles
          /\ \/ Files[n].index <= SchemaOnly
             \/ Files[n].index = before.index /\ Files[n].model = before.model
             \/ Files[n].index = b.corpus /\ Files[n].model = b.model
      BY <2>1, OneBuild
    <2>3. CASE Files[n].index <= SchemaOnly
      <3>1. ~(Files[n].index > SchemaOnly)
        BY <2>2, <2>3 DEF IndexFiles, Versions, NoFile, SchemaOnly
      <3> QED
        BY <2>1, <2>2, <3>1 DEF IndexIsOf, S
    <2>4. CASE Files[n].index = before.index /\ Files[n].model = before.model
      <3>1. \A m \in 1..(n - 1) : m \in 1..n
        BY <2>1
      <3> QED
        BY <2>1, <2>2, <2>4, <3>1 DEF IndexIsOf, S
    <2>5. CASE Files[n].index = b.corpus /\ Files[n].model = b.model
      <3>1. n \in 1..n /\ builds[n].corpus = Files[n].index /\ builds[n].model = Files[n].model
        BY <2>1, <2>5 DEF b
      <3> QED
        BY <2>1, <2>2, <3>1 DEF IndexIsOf, S
    <2> QED
      BY <2>2, <2>3, <2>4, <2>5
  <1> HIDE DEF S
  <1>12. \A n \in 0..N : n \in S
    BY <1>1, <1>10, <1>11, UpFromTheFirst
  <1> QED
    BY <1>1, <1>8, <1>9, <1>12 DEF S, N

(***************************************************************************)
(* After any number of builds, each cut short anywhere or not, an index    *)
(* that can be opened is all of one corpus that was built with the model   *)
(* that reads it; a build that ends mends whatever was before it; and a    *)
(* verify says yes only to the manifest of the corpus, which it never      *)
(* writes (ingest, build_index, check_meta, selftest).                     *)
(***************************************************************************)
THEOREM BuildsWhole ==
  ASSUME NEW builds \in Seq(Builds)
  PROVE  BuildsAreWhole(builds)
  <1> SUFFICES ASSUME NEW n \in DOMAIN builds
               PROVE  LET files == Built(builds)[n]
                          b == builds[n]
                      IN  /\ check_meta(files, "m2") => \E m \in 1..n : builds[m].model = "m2" /\ builds[m].corpus = files.index
                          /\ b.crash = 0 => check_meta(files, b.model) /\ files.index = b.corpus /\ files.report = b.corpus
                          /\ (b.crash = 0 /\ b.op = "ingest") => files.manifest = b.corpus /\ selftest(files, b.model)
                          /\ b.op = "verify" => files.manifest = Built(builds)[n - 1].manifest /\ (files.exit = 0 => files.manifest = b.corpus)
                          /\ selftest(files, b.model) => ChunkCount[files.index] = ChunkCount[files.manifest]
    BY DEF BuildsAreWhole
  <1> DEFINE files == Built(builds)[n]
             before == Built(builds)[n - 1]
             b == builds[n]
  <1>1. n \in 0..Len(builds) /\ n - 1 \in 0..Len(builds) /\ b \in Builds
    OBVIOUS
  <1>2. /\ before \in IndexFiles /\ files = main(before, b)
        /\ files \in IndexFiles /\ IndexIsOf(files, builds, n)
    BY <1>1, EachBuildIsOne
  <1>3. b.corpus \in 1..3
    BY <1>1 DEF Builds, Versions
  <1> HIDE DEF files, before, b
  <1>4. /\ b.crash = 0 => files.index = b.corpus /\ files.model = b.model /\ files.report = b.corpus
        /\ b.crash = 0 /\ b.op = "ingest" => files.manifest = b.corpus
        /\ b.op = "verify" => files.manifest = before.manifest /\ (files.exit = 0 => before.manifest = b.corpus)
    BY <1>1, <1>2, OneBuild
  <1>5. check_meta(files, "m2") => \E m \in 1..n : builds[m].model = "m2" /\ builds[m].corpus = files.index
    BY <1>2 DEF check_meta, IndexIsOf
  <1>6. b.crash = 0 => check_meta(files, b.model) /\ files.index = b.corpus /\ files.report = b.corpus
    BY <1>3, <1>4 DEF check_meta, SchemaOnly
  <1>7. (b.crash = 0 /\ b.op = "ingest") => files.manifest = b.corpus /\ selftest(files, b.model)
    BY <1>3, <1>4, <1>6 DEF selftest
  <1> QED
    BY <1>4, <1>5, <1>6, <1>7 DEF selftest, files, before, b

-----------------------------------------------------------------------------
(* Sections (get_policy_section).                                          *)
\* What the sections of a document may be, whatever its outline.
SectionChunks == [path : Headings, id : Nat \ {NoChunk}, start : Nat, end : Nat]

\* A document: each chunk once, each section in one place, no section in another's, and
\* all of them in its text.
IsADocument(chunks) ==
    /\ chunks \in Seq(SectionChunks)
    /\ \E length \in Nat : \A n \in DOMAIN chunks : chunks[n].end <= length
    /\ \A m, n \in DOMAIN chunks : chunks[m].id = chunks[n].id => m = n
    /\ \A l, m, n \in DOMAIN chunks : (l <= m /\ m <= n /\ chunks[l].path = chunks[n].path) => chunks[m].path = chunks[l].path
    /\ \A m, n \in DOMAIN chunks : (m < n /\ chunks[m].path # chunks[n].path) => chunks[m].end <= chunks[n].start

\* The section of path is the chunks lo to hi.
IsSection(chunks, path, lo, hi) ==
    /\ lo \in DOMAIN chunks /\ hi \in DOMAIN chunks /\ lo <= hi
    /\ \A n \in DOMAIN chunks : chunks[n].path = path <=> n \in lo..hi

\* The ids of the chunks lo to hi.
IdsFrom(chunks, lo, hi) == [k \in 1..(hi - lo + 1) |-> chunks[lo + k - 1].id]

LEMMA ChunksOfADocument ==
  ASSUME NEW chunks, IsADocument(chunks)
  PROVE  /\ Len(chunks) \in Nat /\ DOMAIN chunks = 1..Len(chunks)
         /\ \A n \in 1..Len(chunks) : /\ chunks[n].path \in Headings /\ chunks[n].path # NoSection
                                      /\ chunks[n].id \in Nat /\ chunks[n].id # NoChunk
  <1>1. chunks \in Seq(SectionChunks)
    BY DEF IsADocument
  <1>2. Len(chunks) \in Nat /\ DOMAIN chunks = 1..Len(chunks) /\ \A n \in 1..Len(chunks) : chunks[n] \in SectionChunks
    BY <1>1
  <1>3. \A c \in SectionChunks : c.path \in Headings /\ c.id \in Nat /\ c.id # NoChunk
    BY DEF SectionChunks
  <1>4. \A h \in Headings : h # NoSection
    BY DEF Headings, ParentOf, NoSection
  <1> QED
    BY <1>2, <1>3, <1>4

LEMMA SpansOfADocument ==
  ASSUME NEW chunks, IsADocument(chunks)
  PROVE  \A n \in 1..Len(chunks) : chunks[n].start \in Nat /\ chunks[n].end \in Nat
  <1>1. chunks \in Seq(SectionChunks)
    BY DEF IsADocument
  <1>2. \A n \in 1..Len(chunks) : chunks[n] \in SectionChunks
    BY <1>1
  <1> QED
    BY <1>2 DEF SectionChunks

\* The chunks of one section are one stretch of the document.
LEMMA OneStretch ==
  ASSUME NEW chunks, IsADocument(chunks), NEW n \in DOMAIN chunks
  PROVE  \E lo, hi \in DOMAIN chunks : IsSection(chunks, chunks[n].path, lo, hi)
  <1> DEFINE N == Len(chunks)
             own == {m \in DOMAIN chunks : chunks[m].path = chunks[n].path}
             lo == Min(own)
             hi == Max(own)
  <1>1. chunks \in Seq(SectionChunks) /\ N \in Nat /\ DOMAIN chunks = 1..N
    BY DEF IsADocument
  <1>2. own \subseteq Nat /\ own \subseteq 0..N /\ n \in own
    BY <1>1
  <1>3. lo \in own /\ \A m \in own : lo <= m
    <2> HIDE DEF own
    <2> QED
      BY <1>2, MinIsLeast
  <1>4. hi \in own /\ \A m \in own : m <= hi
    <2> HIDE DEF own
    <2> QED
      BY <1>1, <1>2, MaxIsGreatest
  <1> HIDE DEF lo, hi
  <1>5. lo \in DOMAIN chunks /\ hi \in DOMAIN chunks /\ chunks[lo].path = chunks[hi].path /\ chunks[lo].path = chunks[n].path
    BY <1>3, <1>4
  <1>6. lo <= hi /\ lo \in 1..N /\ hi \in 1..N
    BY <1>1, <1>3, <1>4, <1>5
  <1>7. ASSUME NEW m \in DOMAIN chunks PROVE chunks[m].path = chunks[n].path <=> m \in lo..hi
    <2>1. ASSUME chunks[m].path = chunks[n].path PROVE m \in lo..hi
      <3>1. m \in own /\ m \in 1..N
        BY <1>1, <2>1
      <3> HIDE DEF own
      <3> QED
        BY <1>3, <1>4, <1>6, <3>1
    <2>2. ASSUME m \in lo..hi PROVE chunks[m].path = chunks[n].path
      <3>1. lo <= m /\ m <= hi
        BY <1>6, <2>2
      <3> QED
        BY <1>5, <3>1 DEF IsADocument
    <2> QED
      BY <2>1, <2>2
  <1> QED
    BY <1>5, <1>6, <1>7 DEF IsSection

\* What has a path.
ChunksOf(chunks, path) == Filter(chunks, LAMBDA c : c.path = path)

\* What has the path of a section is its chunks, and its ids are theirs in order.
LEMMA OwnChunks ==
  ASSUME NEW chunks, IsADocument(chunks), NEW path, NEW lo, NEW hi, IsSection(chunks, path, lo, hi)
  PROVE  LET own == ChunksOf(chunks, path)
         IN  /\ own \in Seq(SectionChunks) /\ Len(own) = hi - lo + 1
             /\ \A k \in 1..(hi - lo + 1) : own[k] = chunks[lo + k - 1]
             /\ IdsOf(chunks, path) = IdsFrom(chunks, lo, hi)
  <1> DEFINE own == ChunksOf(chunks, path)
             N == Len(chunks)
             P == {c \in SectionChunks : c.path = path}
             f == [k \in DOMAIN chunks |-> IF chunks[k] \in P THEN <<chunks[k]>> ELSE <<>>]
  <1>1. chunks \in Seq(SectionChunks) /\ N \in Nat /\ DOMAIN chunks = 1..N /\ \A k \in 1..N : chunks[k] \in SectionChunks
    BY DEF IsADocument
  <1>2. lo \in 1..N /\ hi \in 1..N /\ lo <= hi /\ \A n \in 1..N : chunks[n].path = path <=> n \in lo..hi
    BY <1>1 DEF IsSection
  <1>3. own = FlattenSeq(f)
    <2>1. [k \in DOMAIN chunks |-> IF chunks[k].path = path THEN <<chunks[k]>> ELSE <<>>] = f
      BY <1>1
    <2> QED
      BY <2>1 DEF ChunksOf, Filter
  <1>4. Subsequence(own, chunks, P)
    <2> HIDE DEF P, own
    <2> QED
      BY <1>1, <1>3, FilterKeeps
  <1> HIDE DEF own, f
  <1>5. own \in Seq(P) /\ own \in Seq(SectionChunks)
    BY <1>4 DEF Subsequence
  <1>6. Len(own) \in Nat /\ DOMAIN own = 1..Len(own)
    BY <1>5
  <1>7. PICK at \in [1..Len(own) -> 1..N] :
             /\ \A k \in 1..Len(own) : own[k] = chunks[at[k]]
             /\ \A j, k \in 1..Len(own) : j < k => at[j] < at[k]
             /\ \A n \in 1..N : chunks[n] \in P => \E k \in 1..Len(own) : at[k] = n
    BY <1>4 DEF Subsequence
  <1>8. \A k \in 1..Len(own) : at[k] \in lo..hi
    <2> SUFFICES ASSUME NEW k \in 1..Len(own) PROVE at[k] \in lo..hi
      OBVIOUS
    <2>1. own[k] \in P
      BY <1>5, <1>6
    <2> QED
      BY <1>2, <1>7, <2>1
  <1>9. \A n \in lo..hi : \E k \in 1..Len(own) : at[k] = n
    <2> SUFFICES ASSUME NEW n \in lo..hi PROVE \E k \in 1..Len(own) : at[k] = n
      OBVIOUS
    <2>1. n \in 1..N
      BY <1>1, <1>2
    <2>2. chunks[n] \in P
      BY <1>1, <1>2, <2>1
    <2> HIDE DEF P
    <2> QED
      BY <1>7, <2>1, <2>2
  <1> HIDE DEF P, N
  <1>10. \A k \in 1..Len(own) : at[k] = lo + k - 1
    <2> DEFINE S == {k \in 1..Len(own) : at[k] = lo + k - 1}
    <2>1. CASE Len(own) = 0
      BY <2>1
    <2>2. CASE Len(own) # 0
      <3>1. 1 \in S
        <4>1. PICK k \in 1..Len(own) : at[k] = lo
          BY <1>2, <1>9
        <4>2. 1 \in 1..Len(own) /\ at[1] \in lo..hi
          BY <1>6, <1>8, <2>2
        <4>3. k = 1
          <5>1. k > 1 => at[1] < at[k]
            BY <1>7, <4>2
          <5> QED
            BY <1>2, <4>1, <4>2, <5>1
        <4> QED
          BY <1>2, <4>1, <4>2, <4>3
      <3>2. \A k \in (1 + 1)..Len(own) : k - 1 \in S => k \in S
        <4> SUFFICES ASSUME NEW k \in 2..Len(own), at[k - 1] = lo + (k - 1) - 1 PROVE at[k] = lo + k - 1
          OBVIOUS
        <4>1. k \in 1..Len(own) /\ k - 1 \in 1..Len(own) /\ k - 1 < k
          BY <1>6
        <4>2. at[k] \in lo..hi /\ at[k - 1] < at[k]
          BY <1>7, <1>8, <4>1
        <4> DEFINE next == lo + k - 1
        <4>3. CASE at[k] # next
          <5>1. next \in lo..hi /\ next < at[k]
            BY <1>2, <4>1, <4>2, <4>3
          <5>2. PICK j \in 1..Len(own) : at[j] = next
            BY <1>9, <5>1
          <5>3. j > k => at[k] < at[j]
            BY <1>7, <4>1
          <5>4. j < k - 1 => at[j] < at[k - 1]
            BY <1>7, <4>1
          <5>5. j \in Int /\ k \in Int /\ at[k] \in Int /\ at[j] \in Int /\ at[k - 1] \in Int
            BY <1>2, <1>8, <4>1
          <5>6. j # k /\ j # k - 1
            BY <1>2, <4>1, <5>1, <5>2, <5>5
          <5>7. lo \in Int
            BY <1>2
          <5> QED
            BY <5>1, <5>2, <5>3, <5>4, <5>5, <5>6, <5>7
        <4> QED
          BY <4>3
      <3> HIDE DEF S
      <3>3. \A k \in 1..Len(own) : k \in S
        <4>1. 1 \in Int /\ Len(own) \in Int
          BY <1>6
        <4> QED
          BY <3>1, <3>2, <4>1, UpFromTheFirst
      <3> QED
        BY <3>3 DEF S
    <2> QED
      BY <2>1, <2>2
  <1>11. Len(own) = hi - lo + 1
    <2>1. PICK k \in 1..Len(own) : at[k] = hi
      BY <1>2, <1>9
    <2>2. k = hi - lo + 1
      BY <1>2, <1>10, <2>1
    <2>3. Len(own) \in 1..Len(own)
      BY <1>6, <2>1
    <2>4. at[Len(own)] = lo + Len(own) - 1 /\ at[Len(own)] \in lo..hi
      BY <1>8, <1>10, <2>3
    <2> QED
      BY <1>2, <1>6, <2>2, <2>4
  <1>12. \A k \in 1..(hi - lo + 1) : own[k] = chunks[lo + k - 1]
    BY <1>7, <1>10, <1>11
  <1>13. IdsOf(chunks, path) = [n \in DOMAIN own |-> own[n].id]
    BY DEF IdsOf, ChunksOf, own
  <1>14. IdsOf(chunks, path) = IdsFrom(chunks, lo, hi)
    BY <1>6, <1>11, <1>12, <1>13 DEF IdsFrom
  <1> QED
    BY <1>5, <1>11, <1>12, <1>14 DEF own

\* What no chunk is of has none.
LEMMA NoChunks ==
  ASSUME NEW chunks, IsADocument(chunks), NEW path, \A n \in DOMAIN chunks : chunks[n].path # path
  PROVE  IdsOf(chunks, path) = <<>>
  <1> DEFINE own == ChunksOf(chunks, path)
             P == {c \in SectionChunks : c.path = path}
             f == [k \in DOMAIN chunks |-> IF chunks[k] \in P THEN <<chunks[k]>> ELSE <<>>]
  <1>1. chunks \in Seq(SectionChunks) /\ \A k \in DOMAIN chunks : chunks[k] \in SectionChunks
    BY DEF IsADocument
  <1>2. own = FlattenSeq(f)
    <2>1. [k \in DOMAIN chunks |-> IF chunks[k].path = path THEN <<chunks[k]>> ELSE <<>>] = f
      BY <1>1
    <2> QED
      BY <2>1 DEF ChunksOf, Filter
  <1>3. Subsequence(own, chunks, P)
    <2> HIDE DEF P, own
    <2> QED
      BY <1>1, <1>2, FilterKeeps
  <1>4. own \in Seq(P) /\ ToSet(own) = ToSet(chunks) \cap P
    BY <1>3 DEF Subsequence
  <1>5. ToSet(chunks) \cap P = {}
    BY DEF ToSet
  <1> HIDE DEF own, P
  <1>6. own = <<>>
    <2>1. \A k \in DOMAIN own : own[k] \in ToSet(own)
      BY <1>4 DEF ToSet
    <2>2. Len(own) \in Nat /\ DOMAIN own = 1..Len(own)
      BY <1>4
    <2>3. Len(own) = 0
      BY <1>4, <1>5, <2>1, <2>2
    <2> QED
      BY <1>4, <2>3
  <1>7. IdsOf(chunks, path) = [n \in DOMAIN own |-> own[n].id]
    BY DEF IdsOf, ChunksOf, own
  <1> QED
    BY <1>6, <1>7

\* The sections in order: at[k] is the first chunk of the k-th.
InOrder(paths, chunks, at) ==
    /\ paths \in Seq(Headings) /\ at \in [1..Len(paths) -> 1..Len(chunks)]
    /\ \A k \in 1..Len(paths) : paths[k] = chunks[at[k]].path /\ \A m \in 1..(at[k] - 1) : chunks[m].path # paths[k]
    /\ \A j, k \in 1..Len(paths) : j < k => at[j] < at[k]
    /\ \A n \in 1..Len(chunks) : (\A m \in 1..(n - 1) : chunks[m].path # chunks[n].path) => \E k \in 1..Len(paths) : at[k] = n

LEMMA PathsInOrder ==
  ASSUME NEW chunks, IsADocument(chunks)
  PROVE  \E at : InOrder(ordered_paths(chunks), chunks, at)
  <1> DEFINE N == Len(chunks)
             first(n) == \A m \in 1..(n - 1) : chunks[m].path # chunks[n].path
             places == [n \in DOMAIN chunks |-> n]
             P == {n \in Nat : first(n)}
             f == [n \in DOMAIN places |-> IF places[n] \in P THEN <<places[n]>> ELSE <<>>]
             from == Filter(places, first)
             paths == ordered_paths(chunks)
  <1>1. chunks \in Seq(SectionChunks) /\ N \in Nat /\ DOMAIN chunks = 1..N /\ \A k \in 1..N : chunks[k] \in SectionChunks
    BY DEF IsADocument
  <1>2. places \in Seq(Nat) /\ Len(places) = N /\ DOMAIN places = 1..N /\ \A n \in 1..N : places[n] = n
    <2>1. places = [n \in 1..N |-> n]
      BY <1>1
    <2> QED
      BY <1>1, <2>1
  <1>3. from = FlattenSeq(f)
    <2>1. \A n \in DOMAIN places : places[n] \in P <=> first(places[n])
      BY <1>2
    <2>2. from = FlattenSeq([n \in DOMAIN places |-> IF first(places[n]) THEN <<places[n]>> ELSE <<>>])
      BY DEF Filter
    <2> HIDE DEF P, first, places
    <2> QED
      BY <2>1, <2>2
  <1>4. Subsequence(from, places, P)
    <2> HIDE DEF P, from, places
    <2> QED
      BY <1>2, <1>3, FilterKeeps
  <1>5. paths = [n \in DOMAIN from |-> chunks[from[n]].path]
    BY DEF ordered_paths
  <1> HIDE DEF from, f, paths
  <1>6. PICK at \in [1..Len(from) -> 1..N] :
             /\ \A k \in 1..Len(from) : from[k] = places[at[k]]
             /\ \A j, k \in 1..Len(from) : j < k => at[j] < at[k]
             /\ \A n \in 1..N : places[n] \in P => \E k \in 1..Len(from) : at[k] = n
    BY <1>2, <1>4 DEF Subsequence
  <1>7. from \in Seq(P) /\ Len(from) \in Nat /\ DOMAIN from = 1..Len(from)
    BY <1>4 DEF Subsequence
  <1>8. \A k \in 1..Len(from) : from[k] = at[k] /\ at[k] \in 1..N /\ first(at[k])
    <2> SUFFICES ASSUME NEW k \in 1..Len(from) PROVE from[k] = at[k] /\ at[k] \in 1..N /\ first(at[k])
      OBVIOUS
    <2>1. from[k] \in P
      BY <1>7
    <2> QED
      BY <1>2, <1>6, <2>1
  <1>9. \A n \in 1..N : first(n) => \E k \in 1..Len(from) : at[k] = n
    BY <1>2, <1>6
  <1> HIDE DEF places, P
  <1>10. Len(paths) = Len(from) /\ DOMAIN paths = 1..Len(from) /\ paths \in Seq(Headings)
         /\ \A k \in 1..Len(from) : paths[k] = chunks[at[k]].path
    <2>1. \A k \in 1..Len(from) : chunks[from[k]].path \in Headings
      BY <1>1, <1>8 DEF SectionChunks
    <2>2. paths \in [1..Len(from) -> Headings]
      BY <1>5, <1>7, <2>1
    <2>3. \A k \in 1..Len(from) : paths[k] = chunks[at[k]].path
      BY <1>5, <1>7, <1>8
    <2> QED
      BY <1>7, <2>2, <2>3
  <1>11. InOrder(paths, chunks, at)
    <2>1. at \in [1..Len(paths) -> 1..Len(chunks)]
      BY <1>6, <1>10
    <2>2. \A k \in 1..Len(paths) : paths[k] = chunks[at[k]].path /\ \A m \in 1..(at[k] - 1) : chunks[m].path # paths[k]
      BY <1>8, <1>10
    <2>3. \A j, k \in 1..Len(paths) : j < k => at[j] < at[k]
      BY <1>6, <1>10
    <2>4. \A n \in 1..Len(chunks) : first(n) => \E k \in 1..Len(paths) : at[k] = n
      BY <1>9, <1>10
    <2> QED
      BY <1>10, <2>1, <2>2, <2>3, <2>4 DEF InOrder
  <1> QED
    BY <1>11 DEF paths

\* A section stands between the section of the chunk before its first and that of the
\* chunk after its last.
LEMMA BetweenItsNeighbours ==
  ASSUME NEW chunks, IsADocument(chunks), NEW path, NEW lo, NEW hi, IsSection(chunks, path, lo, hi)
  PROVE  LET paths == ordered_paths(chunks)
             position == CHOOSE n \in DOMAIN paths : paths[n] = path
         IN  /\ (IF position > 1 THEN paths[position - 1] ELSE NoSection) = (IF lo = 1 THEN NoSection ELSE chunks[lo - 1].path)
             /\ (IF position < Len(paths) THEN paths[position + 1] ELSE NoSection)
                    = (IF hi = Len(chunks) THEN NoSection ELSE chunks[hi + 1].path)
  <1> DEFINE paths == ordered_paths(chunks)
             position == CHOOSE n \in DOMAIN paths : paths[n] = path
             N == Len(chunks)
  <1>1. chunks \in Seq(SectionChunks) /\ N \in Nat /\ DOMAIN chunks = 1..N
    BY DEF IsADocument
  <1>2. PICK at : InOrder(paths, chunks, at)
    BY PathsInOrder
  <1>3. /\ paths \in Seq(Headings) /\ Len(paths) \in Nat /\ DOMAIN paths = 1..Len(paths)
        /\ at \in [1..Len(paths) -> 1..N]
    BY <1>2 DEF InOrder
  <1>4. \A k \in 1..Len(paths) : paths[k] = chunks[at[k]].path /\ \A m \in 1..(at[k] - 1) : chunks[m].path # paths[k]
    BY <1>2 DEF InOrder
  <1>5. \A j, k \in 1..Len(paths) : j < k => at[j] < at[k]
    BY <1>2 DEF InOrder
  <1>6. \A n \in 1..N : (\A m \in 1..(n - 1) : chunks[m].path # chunks[n].path) => \E k \in 1..Len(paths) : at[k] = n
    BY <1>2 DEF InOrder
  <1>7. lo \in 1..N /\ hi \in 1..N /\ lo <= hi /\ \A n \in 1..N : chunks[n].path = path <=> n \in lo..hi
    BY <1>1 DEF IsSection
  <1>8. \A l, m, n \in 1..N : (l <= m /\ m <= n /\ chunks[l].path = chunks[n].path) => chunks[m].path = chunks[l].path
    BY <1>1 DEF IsADocument
  <1>9. \A n \in 1..N : \E first \in 1..N : /\ first <= n /\ chunks[first].path = chunks[n].path
                                           /\ \A m \in 1..(first - 1) : chunks[m].path # chunks[n].path
    <2> SUFFICES ASSUME NEW n \in 1..N
                 PROVE  \E first \in 1..N : first <= n /\ chunks[first].path = chunks[n].path /\ \A m \in 1..(first - 1) : chunks[m].path # chunks[n].path
      OBVIOUS
    <2>1. PICK a, b \in DOMAIN chunks : IsSection(chunks, chunks[n].path, a, b)
      BY <1>1, OneStretch
    <2>2. a \in 1..N /\ b \in 1..N /\ a <= b /\ \A m \in 1..N : chunks[m].path = chunks[n].path <=> m \in a..b
      BY <1>1, <2>1 DEF IsSection
    <2>3. n \in a..b /\ a \in a..b /\ \A m \in 1..(a - 1) : m \in 1..N /\ ~(m \in a..b)
      BY <1>1, <2>2
    <2> QED
      BY <2>2, <2>3
  <1> HIDE DEF paths, N
  <1>10. PICK k \in 1..Len(paths) : at[k] = lo
    <2>1. \A m \in 1..(lo - 1) : m \in 1..N /\ ~(m \in lo..hi)
      BY <1>1, <1>7
    <2>2. chunks[lo].path = path /\ \A m \in 1..(lo - 1) : chunks[m].path # chunks[lo].path
      BY <1>7, <2>1
    <2> QED
      BY <1>6, <1>7, <2>2
  <1>11. paths[k] = path
    BY <1>4, <1>7, <1>10
  <1>12. \A j \in 1..Len(paths) : paths[j] = path => j = k
    <2> SUFFICES ASSUME NEW j \in 1..Len(paths), paths[j] = path PROVE j = k
      OBVIOUS
    <2>1. at[j] \in 1..N /\ chunks[at[j]].path = path /\ \A m \in 1..(at[j] - 1) : chunks[m].path # path
      BY <1>3, <1>4
    <2>2. at[j] \in lo..hi
      BY <1>7, <2>1
    <2>3. ~(lo \in 1..(at[j] - 1))
      BY <1>7, <2>1
    <2>4. at[j] = lo
      BY <1>7, <2>2, <2>3
    <2>5. at[j] = at[k]
      BY <1>10, <2>4
    <2>6. j < k => at[j] < at[k]
      BY <1>5
    <2>7. k < j => at[k] < at[j]
      BY <1>5
    <2>8. j \in Int /\ k \in Int /\ at[j] \in Int
      BY <1>3, <2>1
    <2> QED
      BY <2>5, <2>6, <2>7, <2>8
  <1>13. position = k
    BY <1>3, <1>11, <1>12
  <1> HIDE DEF position
  <1>14. k \in Int /\ lo \in Int /\ hi \in Int /\ Len(paths) \in Int /\ \A j \in 1..Len(paths) : at[j] \in 1..N /\ at[j] \in Int
    BY <1>1, <1>3, <1>7
  <1>15. (IF k > 1 THEN paths[k - 1] ELSE NoSection) = (IF lo = 1 THEN NoSection ELSE chunks[lo - 1].path)
    <2>1. CASE lo = 1
      <3>1. ~(k > 1)
        <4>1. k > 1 => k - 1 \in 1..Len(paths) /\ at[k - 1] < at[k] /\ at[k - 1] \in 1..N
          BY <1>3, <1>5, <1>14
        <4> QED
          BY <1>1, <1>10, <2>1, <4>1
      <3> QED
        BY <2>1, <3>1
    <2>2. CASE lo # 1
      <3>1. lo - 1 \in 1..N
        BY <1>1, <1>7, <2>2
      <3>2. PICK first \in 1..N : /\ first <= lo - 1 /\ chunks[first].path = chunks[lo - 1].path
                                  /\ \A m \in 1..(first - 1) : chunks[m].path # chunks[lo - 1].path
        BY <1>9, <3>1
      <3>3. PICK j \in 1..Len(paths) : at[j] = first
        BY <1>6, <3>2
      <3>4. j < k
        <4>1. ~(k < j) /\ j # k
          <5>1. k < j => at[k] < at[j]
            BY <1>5
          <5> QED
            BY <1>10, <1>14, <3>2, <3>3, <5>1
        <4> QED
          BY <4>1, <1>14
      <3>5. k > 1 /\ k - 1 \in 1..Len(paths) /\ j <= k - 1
        BY <1>14, <3>4
      <3> DEFINE a == at[k - 1]
      <3>6. a \in 1..N /\ a < lo /\ paths[k - 1] = chunks[a].path /\ \A m \in 1..(a - 1) : chunks[m].path # chunks[a].path
        <4>1. k - 1 < k
          BY <1>14
        <4> QED
          BY <1>3, <1>4, <1>5, <1>10, <3>5, <4>1
      <3>7. j < k - 1 => first < a
        BY <1>5, <3>3, <3>5
      <3> HIDE DEF a
      <3>8. j = k - 1
        <4> SUFFICES ASSUME j # k - 1 PROVE FALSE
          OBVIOUS
        <4>1. first < a
          BY <1>14, <3>5, <3>7
        <4>2. first \in 1..(a - 1) /\ a <= lo - 1 /\ first <= a
          BY <1>1, <1>14, <3>2, <3>6, <4>1
        <4>3. chunks[a].path = chunks[first].path
          BY <1>8, <3>1, <3>2, <3>6, <4>2
        <4> QED
          BY <3>6, <4>2, <4>3
      <3>9. paths[k - 1] = chunks[lo - 1].path
        BY <3>2, <3>3, <3>6, <3>8 DEF a
      <3> QED
        BY <2>2, <3>5, <3>9
    <2> QED
      BY <2>1, <2>2
  <1>16. (IF k < Len(paths) THEN paths[k + 1] ELSE NoSection) = (IF hi = N THEN NoSection ELSE chunks[hi + 1].path)
    <2>1. k < Len(paths) => at[k + 1] > hi /\ at[k + 1] \in 1..N /\ paths[k + 1] = chunks[at[k + 1]].path
      <3> SUFFICES ASSUME k < Len(paths) PROVE at[k + 1] > hi /\ at[k + 1] \in 1..N /\ paths[k + 1] = chunks[at[k + 1]].path
        OBVIOUS
      <3>1. k + 1 \in 1..Len(paths) /\ k < k + 1 /\ k + 1 # k
        BY <1>14
      <3> DEFINE b == at[k + 1]
      <3>2. b \in 1..N /\ lo < b /\ paths[k + 1] = chunks[b].path /\ chunks[b].path # path
        BY <1>4, <1>5, <1>10, <1>12, <1>14, <3>1
      <3> HIDE DEF b
      <3>3. ~(b \in lo..hi)
        BY <1>7, <3>2
      <3>4. b > hi
        BY <1>1, <1>14, <3>2, <3>3
      <3> QED
        BY <3>2, <3>4 DEF b
    <2>2. CASE hi = N
      <3>1. ~(k < Len(paths))
        BY <1>1, <2>1, <2>2
      <3> QED
        BY <2>2, <3>1
    <2>3. CASE hi # N
      <3>1. hi + 1 \in 1..N /\ ~(hi + 1 \in lo..hi)
        BY <1>1, <1>7, <2>3
      <3>2. chunks[hi + 1].path # path /\ chunks[hi].path = path
        BY <1>7, <3>1
      <3>3. \A m \in 1..hi : chunks[m].path # chunks[hi + 1].path
        <4> SUFFICES ASSUME NEW m \in 1..hi, chunks[m].path = chunks[hi + 1].path PROVE FALSE
          OBVIOUS
        <4>1. m \in 1..N /\ m <= hi /\ hi <= hi + 1
          BY <1>1, <1>7
        <4>2. chunks[hi].path = chunks[m].path
          BY <1>7, <1>8, <3>1, <4>1
        <4> QED
          BY <3>2, <4>2
      <3> DEFINE y == hi + 1
      <3>4. \E j \in 1..Len(paths) : at[j] = hi + 1
        <4>1. y \in 1..N
          BY <3>1
        <4>2. \A m \in 1..(y - 1) : chunks[m].path # chunks[y].path
          <5>1. 1..(y - 1) = 1..hi
            BY <1>14
          <5> DEFINE there == chunks[y].path
          <5>2. \A m \in 1..hi : chunks[m].path # there
            BY <3>3
          <5> HIDE DEF there, y
          <5>3. \A m \in 1..(y - 1) : chunks[m].path # there
            BY <5>1, <5>2
          <5> QED
            BY <5>3 DEF there
        <4> HIDE DEF y
        <4>3. \E j \in 1..Len(paths) : at[j] = y
          BY <1>6, <4>1, <4>2
        <4> QED
          BY <4>3 DEF y
      <3> HIDE DEF y
      <3>11. PICK j \in 1..Len(paths) : at[j] = hi + 1
        BY <3>4
      <3>5. k < j
        <4>1. j < k => at[j] < at[k]
          BY <1>5
        <4> QED
          BY <1>7, <1>10, <1>14, <3>11, <4>1
      <3>6. k < Len(paths) /\ k + 1 \in 1..Len(paths) /\ k + 1 <= j
        BY <1>14, <3>5
      <3> DEFINE b == at[k + 1]
      <3>7. b > hi /\ b \in 1..N /\ paths[k + 1] = chunks[b].path
        BY <2>1, <3>6
      <3>8. k + 1 < j => b < hi + 1
        BY <1>5, <3>11, <3>6
      <3>9. k + 1 = j => b = hi + 1
        BY <3>11
      <3> HIDE DEF b
      <3>10. b = hi + 1
        BY <1>1, <1>14, <3>6, <3>7, <3>8, <3>9
      <3> QED
        BY <2>3, <3>6, <3>7, <3>10
    <2> QED
      BY <2>2, <2>3
  <1> QED
    BY <1>13, <1>15, <1>16 DEF paths, position, N

\* Every path of a chunk is that of a section.
LEMMA EverySectionIsOne ==
  ASSUME NEW chunks, IsADocument(chunks), NEW paths, NEW at, InOrder(paths, chunks, at)
  PROVE  ToSet(paths) = {chunks[n].path : n \in DOMAIN chunks}
  <1>1. Len(chunks) \in Nat /\ DOMAIN chunks = 1..Len(chunks) /\ DOMAIN paths = 1..Len(paths)
    BY DEF IsADocument, InOrder
  <1>2. ASSUME NEW k \in DOMAIN paths PROVE \E n \in DOMAIN chunks : paths[k] = chunks[n].path
    <2>1. at[k] \in 1..Len(chunks) /\ paths[k] = chunks[at[k]].path
      BY <1>1 DEF InOrder
    <2> QED
      BY <1>1, <2>1
  <1>3. ASSUME NEW n \in DOMAIN chunks PROVE \E k \in DOMAIN paths : paths[k] = chunks[n].path
    <2>1. PICK lo, hi \in DOMAIN chunks : IsSection(chunks, chunks[n].path, lo, hi)
      BY OneStretch
    <2>2. lo \in 1..Len(chunks) /\ chunks[lo].path = chunks[n].path /\ \A m \in 1..(lo - 1) : chunks[m].path # chunks[n].path
      <3>1. lo \in lo..hi /\ \A m \in 1..(lo - 1) : m \in DOMAIN chunks /\ ~(m \in lo..hi)
        BY <1>1, <2>1 DEF IsSection
      <3> QED
        BY <1>1, <2>1, <3>1 DEF IsSection
    <2>3. PICK k \in 1..Len(paths) : at[k] = lo
      BY <2>2 DEF InOrder
    <2>4. paths[k] = chunks[lo].path
      BY <2>3 DEF InOrder
    <2> QED
      BY <1>1, <2>2, <2>4
  <1> QED
    BY <1>2, <1>3 DEF ToSet

\* What an answer about a section is.
IsTheSection(out, i, path, lo, hi) ==
    /\ out.status = "ok" /\ out.path = path
    /\ out.chunk_ids = IdsFrom(i.chunks, lo, hi)
    /\ out.prev = (IF lo = 1 THEN NoSection ELSE i.chunks[lo - 1].path)
    /\ out.next = (IF hi = Len(i.chunks) THEN NoSection ELSE i.chunks[hi + 1].path)
    /\ out.text = IF i.include_neighbors THEN IdsOf(i.chunks, out.prev) \o IdsFrom(i.chunks, lo, hi) \o IdsOf(i.chunks, out.next)
                  ELSE IdsFrom(i.chunks, lo, hi)
    /\ \E n \in lo..hi : out.start = i.chunks[n].start
    /\ \E n \in lo..hi : out.end = i.chunks[n].end
    /\ ToSet(out.siblings) = {p \in {i.chunks[n].path : n \in DOMAIN i.chunks} : p # path /\ ParentOf[p] = ParentOf[path]}

Selectors(chunks) == [chunks : {chunks}, heading_path : Headings \cup {NoSection}, chunk_id : Nat, include_neighbors : BOOLEAN]

LEMMA SectionIs ==
  ASSUME NEW chunks, IsADocument(chunks), NEW i \in Selectors(chunks), NEW path, path = SectionAt(i), path # NoSection,
         NEW lo, NEW hi, IsSection(chunks, path, lo, hi)
  PROVE  IsTheSection(_section(i), i, path, lo, hi)
  <1> DEFINE paths == ordered_paths(chunks)
             position == CHOOSE n \in DOMAIN paths : paths[n] = path
             before == IF position > 1 THEN paths[position - 1] ELSE NoSection
             after == IF position < Len(paths) THEN paths[position + 1] ELSE NoSection
             own == ChunksOf(chunks, path)
             siblings == Filter(paths, LAMBDA p : p # path /\ ParentOf[p] = ParentOf[path])
             out == _section(i)
  <1>1. i.chunks = chunks /\ chunks \in Seq(SectionChunks) /\ Len(chunks) \in Nat /\ DOMAIN chunks = 1..Len(chunks)
        /\ \A n \in DOMAIN chunks : chunks[n] \in SectionChunks
    BY DEF Selectors, IsADocument
  <1>2. out = [status |-> "ok", path |-> path, chunk_ids |-> IdsOf(chunks, path), prev |-> before, next |-> after,
               text |-> IF i.include_neighbors
                        THEN IdsOf(chunks, before) \o IdsOf(chunks, path) \o IdsOf(chunks, after) ELSE IdsOf(chunks, path),
               start |-> Min({own[n].start : n \in DOMAIN own}), end |-> Max({own[n].end : n \in DOMAIN own}),
               siblings |-> siblings]
    BY <1>1 DEF _section, SectionIn, ChunksOf
  <1>3. before = (IF lo = 1 THEN NoSection ELSE chunks[lo - 1].path) /\ after = (IF hi = Len(chunks) THEN NoSection ELSE chunks[hi + 1].path)
    BY BetweenItsNeighbours
  <1>4. /\ own \in Seq(SectionChunks) /\ Len(own) = hi - lo + 1
        /\ \A k \in 1..(hi - lo + 1) : own[k] = chunks[lo + k - 1]
        /\ IdsOf(chunks, path) = IdsFrom(chunks, lo, hi)
    BY OwnChunks
  <1>5. PICK at : InOrder(paths, chunks, at)
    BY PathsInOrder
  <1>6. siblings = FlattenSeq([n \in DOMAIN paths |-> IF paths[n] # path /\ ParentOf[paths[n]] = ParentOf[path] THEN <<paths[n]>> ELSE <<>>])
    BY DEF Filter
  <1>7. lo \in DOMAIN chunks /\ hi \in DOMAIN chunks /\ lo <= hi
    BY DEF IsSection
  <1> HIDE DEF paths, position, before, after, own, siblings, out
  <1>8. DOMAIN own = 1..(hi - lo + 1) /\ \A k \in DOMAIN own : own[k] \in SectionChunks /\ lo + k - 1 \in lo..hi /\ own[k] = chunks[lo + k - 1]
    <2>1. DOMAIN own = 1..(hi - lo + 1) /\ lo \in Int /\ hi \in Int
      BY <1>1, <1>4, <1>7
    <2> QED
      BY <1>4, <2>1
  <1>9. 1 \in DOMAIN own
    BY <1>1, <1>7, <1>8
  <1>10. \E n \in lo..hi : out.start = chunks[n].start
    <2> DEFINE S == {own[n].start : n \in DOMAIN own}
    <2>1. S \subseteq Nat /\ S # {}
      BY <1>8, <1>9 DEF SectionChunks
    <2> HIDE DEF S
    <2>2. Min(S) \in S
      BY <2>1, MinIsLeast
    <2>3. out.start = Min(S)
      BY <1>2 DEF S
    <2> QED
      BY <1>8, <2>2, <2>3 DEF S
  <1>11. \E n \in lo..hi : out.end = chunks[n].end
    <2> DEFINE S == {own[n].end : n \in DOMAIN own}
               m == Max(S)
    <2>1. S \subseteq Nat /\ S # {}
      BY <1>8, <1>9 DEF SectionChunks
    <2>2. PICK length \in Nat : \A n \in DOMAIN chunks : chunks[n].end <= length
      BY DEF IsADocument
    <2>5. \A n \in DOMAIN own : own[n].end \in Nat /\ own[n].end <= length
      <3> SUFFICES ASSUME NEW n \in DOMAIN own PROVE own[n].end \in Nat /\ own[n].end <= length
        OBVIOUS
      <3>1. lo + n - 1 \in DOMAIN chunks
        BY <1>1, <1>7, <1>8
      <3> QED
        BY <1>8, <2>2, <3>1 DEF SectionChunks
    <2>6. S \subseteq 0..length
      BY <2>5
    <2> HIDE DEF S
    <2>3. m \in S
      BY <2>1, <2>2, <2>6, MaxIsGreatest DEF m
    <2>4. out.end = m
      BY <1>2 DEF S, m
    <2> HIDE DEF m
    <2> QED
      BY <1>8, <2>3, <2>4 DEF S
  <1>12. ToSet(siblings) = {p \in {chunks[n].path : n \in DOMAIN chunks} : p # path /\ ParentOf[p] = ParentOf[path]}
    <2> DEFINE P == {p \in Headings : p # path /\ ParentOf[p] = ParentOf[path]}
    <2>1. paths \in Seq(Headings)
      BY <1>5 DEF InOrder
    <2>2. siblings = FlattenSeq([n \in DOMAIN paths |-> IF paths[n] \in P THEN <<paths[n]>> ELSE <<>>])
      <3>1. \A n \in DOMAIN paths : paths[n] \in P <=> paths[n] # path /\ ParentOf[paths[n]] = ParentOf[path]
        BY <2>1
      <3> HIDE DEF P
      <3> QED
        BY <1>6, <3>1
    <2>3. Subsequence(siblings, paths, P)
      <3> HIDE DEF P
      <3> QED
        BY <2>1, <2>2, FilterKeeps
    <2>4. ToSet(siblings) = ToSet(paths) \cap P
      BY <2>3 DEF Subsequence
    <2>5. ToSet(paths) = {chunks[n].path : n \in DOMAIN chunks}
      BY <1>5, EverySectionIsOne
    <2>6. ToSet(paths) \subseteq Headings
      BY <2>1 DEF ToSet
    <2> QED
      BY <2>4, <2>5, <2>6
  <1>13. out.siblings = siblings
    BY <1>2
  <1>14. /\ out.status = "ok" /\ out.path = path /\ out.chunk_ids = IdsFrom(chunks, lo, hi)
         /\ out.prev = before /\ out.next = after
         /\ out.text = IF i.include_neighbors THEN IdsOf(chunks, before) \o IdsFrom(chunks, lo, hi) \o IdsOf(chunks, after)
                       ELSE IdsFrom(chunks, lo, hi)
    BY <1>2, <1>4
  <1>15. IsTheSection(out, i, path, lo, hi)
    BY <1>1, <1>3, <1>10, <1>11, <1>12, <1>13, <1>14 DEF IsTheSection
  <1> QED
    BY <1>15 DEF out

\* The stretch lo to hi and the one after it are the stretch of both.
LEMMA StretchesMeet ==
  ASSUME NEW chunks, IsADocument(chunks), NEW lo \in Nat \ {0}, NEW mid \in Nat, NEW hi \in Nat,
         lo - 1 <= mid, mid <= hi, hi <= Len(chunks)
  PROVE  /\ IdsFrom(chunks, lo, mid) \in Seq(Nat)
         /\ IdsFrom(chunks, lo, mid) \o IdsFrom(chunks, mid + 1, hi) = IdsFrom(chunks, lo, hi)
  <1> DEFINE a == IdsFrom(chunks, lo, mid)
             b == IdsFrom(chunks, mid + 1, hi)
             c == IdsFrom(chunks, lo, hi)
             id(n) == chunks[n].id
             p == mid - lo + 1
             q == hi - mid
             r == hi - lo + 1
  <1>1. \A n \in lo..hi : id(n) \in Nat
    <2>1. \A n \in lo..hi : n \in 1..Len(chunks)
      BY ChunksOfADocument
    <2> QED
      BY <2>1, ChunksOfADocument
  <1>2. p \in Nat /\ q \in Nat /\ r \in Nat /\ r = p + q
    OBVIOUS
  <1>3. a = [k \in 1..p |-> id(lo + k - 1)]
    BY DEF IdsFrom
  <1>4. b = [k \in 1..q |-> id(mid + k)]
    <2>1. hi - (mid + 1) + 1 = q /\ \A k \in 1..q : mid + 1 + k - 1 = mid + k
      OBVIOUS
    <2> QED
      BY <2>1 DEF IdsFrom
  <1>5. c = [k \in 1..r |-> id(lo + k - 1)]
    BY DEF IdsFrom
  <1> HIDE DEF a, b, c, id
  <1>6. a \in Seq(Nat) /\ Len(a) = p
    <2>1. \A k \in 1..p : lo + k - 1 \in lo..hi
      OBVIOUS
    <2>2. \A k \in 1..p : id(lo + k - 1) \in Nat
      BY <1>1, <2>1
    <2> HIDE DEF p
    <2>3. a \in [1..p -> Nat]
      BY <1>3, <2>2
    <2> QED
      BY <1>2, <2>3
  <1>7. b \in Seq(Nat) /\ Len(b) = q
    <2>1. \A k \in 1..q : mid + k \in lo..hi
      OBVIOUS
    <2>2. \A k \in 1..q : id(mid + k) \in Nat
      BY <1>1, <2>1
    <2> HIDE DEF q
    <2>3. b \in [1..q -> Nat]
      BY <1>4, <2>2
    <2> QED
      BY <1>2, <2>3
  <1>8. a \o b \in Seq(Nat) /\ Len(a \o b) = r /\ \A k \in 1..r : (a \o b)[k] = (IF k <= p THEN a[k] ELSE b[k - p])
    <2>1. /\ a \o b \in Seq(Nat) /\ Len(a \o b) = Len(a) + Len(b)
          /\ \A k \in 1..(Len(a) + Len(b)) : (a \o b)[k] = IF k <= Len(a) THEN a[k] ELSE b[k - Len(a)]
      BY <1>6, <1>7, ConcatProperties
    <2> DEFINE d == a \o b
    <2>2. /\ d \in Seq(Nat) /\ Len(d) = Len(a) + Len(b)
          /\ \A k \in 1..(Len(a) + Len(b)) : d[k] = IF k <= Len(a) THEN a[k] ELSE b[k - Len(a)]
      BY <2>1
    <2> HIDE DEF p, q, r, d
    <2>3. d \in Seq(Nat) /\ Len(d) = r /\ \A k \in 1..r : d[k] = IF k <= p THEN a[k] ELSE b[k - p]
      BY <1>2, <1>6, <1>7, <2>2
    <2> QED
      BY <2>3 DEF d
  <1>9. \A k \in 1..r : (IF k <= p THEN a[k] ELSE b[k - p]) = id(lo + k - 1)
    <2> SUFFICES ASSUME NEW k \in 1..r PROVE (IF k <= p THEN a[k] ELSE b[k - p]) = id(lo + k - 1)
      OBVIOUS
    <2>1. CASE k <= p
      <3>1. k \in 1..p
        BY <2>1
      <3> QED
        BY <1>3, <2>1, <3>1
    <2>2. CASE ~(k <= p)
      <3>1. k - p \in 1..q /\ mid + (k - p) = lo + k - 1
        BY <1>2, <2>2
      <3>2. b[k - p] = id(mid + (k - p))
        BY <1>4, <3>1
      <3> QED
        BY <2>2, <3>1, <3>2
    <2> QED
      BY <2>1, <2>2
  <1>10. a \o b = c
    <2> DEFINE d == a \o b
    <2>1. d \in Seq(Nat) /\ Len(d) = r /\ \A k \in 1..r : d[k] = id(lo + k - 1)
      BY <1>8, <1>9
    <2> HIDE DEF d, r
    <2>2. d = [k \in 1..r |-> id(lo + k - 1)]
      <3>1. d \in [1..r -> Nat]
        BY <1>2, <2>1
      <3> QED
        BY <2>1, <3>1
    <2> QED
      BY <1>5, <2>2 DEF d
  <1> QED
    BY <1>6, <1>10 DEF a, b, c

\* The text of a section is a stretch, and so it is with its neighbours'.
LEMMA TextIsAStretch ==
  ASSUME NEW chunks, IsADocument(chunks), NEW i \in Selectors(chunks), NEW path, NEW lo, NEW hi, NEW out,
         IsSection(chunks, path, lo, hi), IsTheSection(out, i, path, lo, hi)
  PROVE  \E a, b \in DOMAIN chunks : a <= b /\ out.text = IdsFrom(chunks, a, b)
  <1> DEFINE N == Len(chunks)
  <1>1. i.chunks = chunks /\ N \in Nat /\ DOMAIN chunks = 1..N /\ \A n \in 1..N : chunks[n].path \in Headings
    <2>1. i.chunks = chunks
      BY DEF Selectors
    <2> QED
      BY <2>1, ChunksOfADocument
  <1>2. lo \in 1..N /\ hi \in 1..N /\ lo <= hi /\ chunks[lo].path = path /\ \A n \in 1..N : chunks[n].path = path <=> n \in lo..hi
    BY <1>1 DEF IsSection
  <1>3. CASE ~i.include_neighbors
    BY <1>1, <1>2, <1>3 DEF IsTheSection
  <1>4. CASE i.include_neighbors
    <2>1. out.text = IdsOf(chunks, out.prev) \o IdsFrom(chunks, lo, hi) \o IdsOf(chunks, out.next)
      BY <1>1, <1>4 DEF IsTheSection
    <2>2. NoSection \notin Headings
      BY DEF NoSection, Headings, ParentOf
    <2>3. IdsOf(chunks, NoSection) = <<>>
      <3>1. \A n \in DOMAIN chunks : chunks[n].path # NoSection
        BY <1>1, <2>2
      <3> QED
        BY <3>1, NoChunks
    <2>4. \E a \in 1..N : a <= lo /\ IdsOf(chunks, out.prev) = IdsFrom(chunks, a, lo - 1)
      <3>1. CASE lo = 1
        <4>1. out.prev = NoSection
          BY <3>1 DEF IsTheSection
        <4>2. IdsFrom(chunks, 1, 0) = <<>>
          BY DEF IdsFrom
        <4> QED
          BY <1>2, <2>3, <3>1, <4>1, <4>2
      <3>2. CASE lo # 1
        <4>1. lo - 1 \in 1..N /\ out.prev = chunks[lo - 1].path
          <5>1. lo - 1 \in 1..N
            BY <1>1, <1>2, <3>2
          <5>2. out.prev = i.chunks[lo - 1].path
            BY <3>2 DEF IsTheSection
          <5> QED
            BY <1>1, <5>1, <5>2
        <4>2. PICK a, b \in DOMAIN chunks : IsSection(chunks, chunks[lo - 1].path, a, b)
          BY <1>1, <4>1, OneStretch
        <4>3. a \in 1..N /\ b \in 1..N /\ a <= b /\ \A n \in 1..N : chunks[n].path = chunks[lo - 1].path <=> n \in a..b
          BY <1>1, <4>2 DEF IsSection
        <4>4. chunks[lo - 1].path # path
          <5>1. ~(lo - 1 \in lo..hi)
            BY <1>1, <1>2
          <5> QED
            BY <1>2, <4>1, <5>1
        <4>5. ~(lo \in a..b) /\ lo - 1 \in a..b
          BY <1>2, <4>1, <4>3, <4>4
        <4>6. b = lo - 1 /\ a <= lo
          BY <1>1, <1>2, <4>3, <4>5
        <4>7. IdsOf(chunks, out.prev) = IdsFrom(chunks, a, b)
          BY <4>1, <4>2, OwnChunks
        <4> QED
          BY <4>3, <4>6, <4>7
      <3> QED
        BY <3>1, <3>2
    <2>5. \E b \in 1..N : hi <= b /\ IdsOf(chunks, out.next) = IdsFrom(chunks, hi + 1, b)
      <3>1. CASE hi = N
        <4>1. out.next = NoSection
          BY <1>1, <3>1 DEF IsTheSection
        <4>2. IdsFrom(chunks, hi + 1, hi) = <<>>
          <5>1. hi - (hi + 1) + 1 = 0
            BY <1>1, <1>2
          <5> QED
            BY <5>1 DEF IdsFrom
        <4> QED
          BY <1>1, <1>2, <2>3, <3>1, <4>1, <4>2
      <3>2. CASE hi # N
        <4>1. hi + 1 \in 1..N /\ out.next = chunks[hi + 1].path
          <5>1. hi + 1 \in 1..N
            <6>1. hi \in 1..N /\ N \in Nat
              BY <1>1, <1>2
            <6> QED
              BY <3>2, <6>1
          <5>2. out.next = IF hi = Len(i.chunks) THEN NoSection ELSE i.chunks[hi + 1].path
            BY DEF IsTheSection
          <5>3. hi # Len(i.chunks)
            BY <1>1, <3>2
          <5>4. out.next = i.chunks[hi + 1].path
            BY <5>2, <5>3
          <5> QED
            BY <1>1, <5>1, <5>4
        <4>2. PICK a, b \in DOMAIN chunks : IsSection(chunks, chunks[hi + 1].path, a, b)
          BY <1>1, <4>1, OneStretch
        <4>3. a \in 1..N /\ b \in 1..N /\ a <= b /\ \A n \in 1..N : chunks[n].path = chunks[hi + 1].path <=> n \in a..b
          BY <1>1, <4>2 DEF IsSection
        <4>4. chunks[hi + 1].path # path
          <5>1. ~(hi + 1 \in lo..hi)
            BY <1>1, <1>2
          <5> QED
            BY <1>2, <4>1, <5>1
        <4>5. ~(hi \in a..b) /\ hi + 1 \in a..b
          <5>1. hi \in lo..hi
            BY <1>1, <1>2
          <5> QED
            BY <1>2, <4>1, <4>3, <4>4, <5>1
        <4>6. a = hi + 1 /\ hi <= b
          BY <1>1, <1>2, <4>3, <4>5
        <4>7. IdsOf(chunks, out.next) = IdsFrom(chunks, a, b)
          BY <4>1, <4>2, OwnChunks
        <4> QED
          BY <4>3, <4>6, <4>7
      <3> QED
        BY <3>1, <3>2
    <2>6. PICK a \in 1..N : a <= lo /\ IdsOf(chunks, out.prev) = IdsFrom(chunks, a, lo - 1)
      BY <2>4
    <2>7. PICK b \in 1..N : hi <= b /\ IdsOf(chunks, out.next) = IdsFrom(chunks, hi + 1, b)
      BY <2>5
    <2>8. IdsFrom(chunks, a, lo - 1) \o IdsFrom(chunks, lo, hi) = IdsFrom(chunks, a, hi)
      <3> DEFINE mid == lo - 1
      <3>1. a \in Nat \ {0} /\ mid \in Nat /\ hi \in Nat /\ a - 1 <= mid /\ mid <= hi /\ hi <= N /\ mid + 1 = lo
        BY <1>1, <1>2, <2>6
      <3> HIDE DEF mid
      <3>2. IdsFrom(chunks, a, mid) \o IdsFrom(chunks, mid + 1, hi) = IdsFrom(chunks, a, hi)
        BY <3>1, StretchesMeet
      <3> QED
        BY <3>1, <3>2 DEF mid
    <2>9. IdsFrom(chunks, a, hi) \o IdsFrom(chunks, hi + 1, b) = IdsFrom(chunks, a, b)
      <3>1. a \in Nat \ {0} /\ hi \in Nat /\ b \in Nat /\ a - 1 <= hi /\ hi <= b /\ b <= N
        BY <1>1, <1>2, <2>6, <2>7
      <3> QED
        BY <3>1, StretchesMeet
    <2>10. a <= b
      BY <1>1, <1>2, <2>6, <2>7
    <2> QED
      BY <1>1, <2>1, <2>6, <2>7, <2>8, <2>9, <2>10
  <1> QED
    BY <1>3, <1>4

\* The chunks a stretch of ids is of.
LEMMA StretchIsCounted ==
  ASSUME NEW chunks, IsADocument(chunks), NEW a \in DOMAIN chunks, NEW b \in DOMAIN chunks, a <= b
  PROVE  LET text == IdsFrom(chunks, a, b)
             stretch == {n \in DOMAIN chunks : chunks[n].id \in ToSet(text)}
         IN  Cardinality(stretch) = Len(text) /\ Max(stretch) - Min(stretch) + 1 = Len(text)
  <1> DEFINE text == IdsFrom(chunks, a, b)
             N == Len(chunks)
             stretch == {n \in DOMAIN chunks : chunks[n].id \in ToSet(text)}
             lowest == Min(stretch)
             highest == Max(stretch)
  <1>1. N \in Nat /\ DOMAIN chunks = 1..N /\ \A n \in 1..N : chunks[n].id \in Nat
    BY ChunksOfADocument
  <1>2. \A m, n \in 1..N : chunks[m].id = chunks[n].id => m = n
    BY <1>1 DEF IsADocument
  <1>3. text = [k \in 1..(b - a + 1) |-> chunks[a + k - 1].id]
    BY DEF IdsFrom
  <1>4. \A k \in 1..(b - a + 1) : a + k - 1 \in 1..N
    BY <1>1
  <1>5. ToSet(text) = {chunks[n].id : n \in a..b}
    <2>1. DOMAIN text = 1..(b - a + 1) /\ \A k \in 1..(b - a + 1) : text[k] = chunks[a + k - 1].id /\ a + k - 1 \in a..b
      BY <1>1, <1>3
    <2>2. \A n \in a..b : n - a + 1 \in 1..(b - a + 1) /\ a + (n - a + 1) - 1 = n
      BY <1>1
    <2>3. \A n \in a..b : text[n - a + 1] = chunks[n].id
      BY <2>1, <2>2
    <2> HIDE DEF text
    <2> QED
      BY <2>1, <2>2, <2>3 DEF ToSet
  <1>6. Len(text) = b - a + 1
    <2>1. b - a + 1 \in Nat
      BY <1>1
    <2> DEFINE r == b - a + 1
    <2>2. text = [k \in 1..r |-> chunks[a + k - 1].id] /\ \A k \in 1..r : chunks[a + k - 1].id \in Nat
      BY <1>1, <1>3, <1>4
    <2> HIDE DEF r, text
    <2>3. text \in [1..r -> Nat]
      BY <2>2
    <2>4. r \in Nat
      BY <2>1 DEF r
    <2>5. Len(text) = r
      BY <2>3, <2>4
    <2> QED
      BY <2>5 DEF r
  <1> HIDE DEF text
  <1>7. stretch = a..b
    <2>1. \A n \in a..b : n \in 1..N
      BY <1>1
    <2>2. \A n \in 1..N : chunks[n].id \in ToSet(text) <=> n \in a..b
      BY <1>2, <1>5, <2>1
    <2> QED
      BY <1>1, <2>1, <2>2
  <1> HIDE DEF stretch
  <1>8. stretch \in SUBSET Nat /\ stretch \in SUBSET (0..N) /\ a \in stretch /\ b \in stretch
    BY <1>1, <1>7
  <1>9. lowest \in stretch /\ \A x \in stretch : lowest <= x
    BY <1>8, MinIsLeast
  <1>10. highest \in stretch /\ \A x \in stretch : x <= highest
    BY <1>1, <1>8, MaxIsGreatest
  <1> HIDE DEF lowest, highest
  <1>11. lowest = a /\ highest = b
    BY <1>1, <1>7, <1>8, <1>9, <1>10
  <1>12. Cardinality(stretch) = b - a + 1
    BY <1>1, <1>7, FS_Interval
  <1> QED
    BY <1>6, <1>11, <1>12 DEF text, stretch, lowest, highest

\* Where the path that the selectors name comes from.
LEMMA NamedSection ==
  ASSUME NEW chunks, IsADocument(chunks), NEW i \in Selectors(chunks)
  PROVE  /\ SectionAt(i) # NoSection <=>
              IF i.chunk_id = NoChunk THEN \E n \in DOMAIN chunks : chunks[n].path = i.heading_path
              ELSE \E n \in DOMAIN chunks : chunks[n].id = i.chunk_id
         /\ SectionAt(i) # NoSection => \E n \in DOMAIN chunks : SectionAt(i) = chunks[n].path /\ (i.chunk_id # NoChunk => chunks[n].id = i.chunk_id)
  <1> DEFINE target == {n \in DOMAIN chunks : chunks[n].id = i.chunk_id}
             m == Min(target)
  <1>1. i.chunks = chunks
    BY DEF Selectors
  <1>2. Len(chunks) \in Nat /\ DOMAIN chunks = 1..Len(chunks) /\ \A n \in DOMAIN chunks : chunks[n].path # NoSection
    BY ChunksOfADocument
  <1>3. CASE i.chunk_id = NoChunk
    <2>1. SectionAt(i) = IF \E n \in DOMAIN chunks : chunks[n].path = i.heading_path THEN i.heading_path ELSE NoSection
      BY <1>1, <1>3 DEF SectionAt
    <2> QED
      BY <1>2, <1>3, <2>1
  <1>4. CASE i.chunk_id # NoChunk
    <2>1. SectionAt(i) = IF target = {} THEN NoSection ELSE chunks[m].path
      BY <1>1, <1>4 DEF SectionAt
    <2>2. target # {} => m \in target
      <3>1. target \in SUBSET Nat
        BY <1>2
      <3> HIDE DEF target
      <3> QED
        BY <3>1, MinIsLeast
    <2> HIDE DEF m
    <2>3. target # {} => SectionAt(i) = chunks[m].path /\ m \in DOMAIN chunks /\ chunks[m].id = i.chunk_id
      BY <2>1, <2>2
    <2> QED
      BY <1>2, <1>4, <2>1, <2>3
  <1> QED
    BY <1>3, <1>4

\* To ask for a section by its heading.
ByHeading(i, path) == [i EXCEPT !.chunk_id = NoChunk, !.heading_path = path]

LEMMA AskedByHeading ==
  ASSUME NEW chunks, IsADocument(chunks), NEW i \in Selectors(chunks), NEW n \in DOMAIN chunks
  PROVE  LET j == ByHeading(i, chunks[n].path)
         IN  /\ j \in Selectors(chunks) /\ j.chunks = chunks /\ SectionAt(j) = chunks[n].path
             /\ \E lo, hi \in DOMAIN chunks : IsSection(chunks, chunks[n].path, lo, hi) /\ IsTheSection(_section(j), j, chunks[n].path, lo, hi)
  <1> DEFINE path == chunks[n].path
             j == ByHeading(i, path)
  <1>1. path \in Headings /\ path # NoSection /\ path = chunks[n].path
    BY ChunksOfADocument
  <1> HIDE DEF path
  <1>2. /\ j \in Selectors(chunks) /\ j.chunks = chunks /\ j.chunk_id = NoChunk /\ j.heading_path = path
    BY <1>1 DEF Selectors, NoChunk, ByHeading
  <1> HIDE DEF j
  <1>3. SectionAt(j) = path
    BY <1>1, <1>2 DEF SectionAt
  <1>4. PICK lo, hi \in DOMAIN chunks : IsSection(chunks, path, lo, hi)
    BY <1>1, OneStretch
  <1>5. IsTheSection(_section(j), j, path, lo, hi)
    BY <1>1, <1>2, <1>3, <1>4, SectionIs
  <1> QED
    BY <1>2, <1>3, <1>4, <1>5 DEF j, path

(***************************************************************************)
(* In any document, of any sections in any order, a chunk id finds the     *)
(* section it is of whatever heading came with it; a section's text is its *)
(* own windows, with its neighbours' a stretch without a gap; going on and *)
(* back, or to a sibling and back, returns; and the sections' spans do not *)
(* overlap (get_policy_section._section).                                  *)
(***************************************************************************)
THEOREM SectionsInPlace ==
  ASSUME NEW chunks, IsADocument(chunks), NEW i \in Selectors(chunks)
  PROVE  SectionsAreInPlace(i)
  <1> DEFINE out == _section(i)
             path == SectionAt(i)
             bare == [i EXCEPT !.heading_path = NoSection]
             at(p) == _section(ByHeading(i, p))
             stretch == {n \in DOMAIN i.chunks : i.chunks[n].id \in ToSet(out.text)}
  <1>1. i.chunks = chunks /\ i.chunk_id \in Nat
    BY DEF Selectors
  <1>2. Len(chunks) \in Nat /\ DOMAIN chunks = 1..Len(chunks) /\ \A n \in 1..Len(chunks) : chunks[n].path \in Headings /\ chunks[n].path # NoSection
    BY ChunksOfADocument
  <1>3. ASSUME i.chunk_id # NoChunk PROVE _section(bare) = out
    <2>1. bare.chunks = i.chunks /\ bare.chunk_id = i.chunk_id /\ bare.include_neighbors = i.include_neighbors
      BY DEF Selectors
    <2> HIDE DEF bare
    <2>2. SectionAt(bare) = SectionAt(i)
      BY <1>3, <2>1 DEF SectionAt
    <2> QED
      BY <1>3, <2>1, <2>2 DEF _section, SectionIn
  <1>4. path = NoSection => out.status # "ok"
    <2> SUFFICES ASSUME path = NoSection PROVE out.status # "ok"
      OBVIOUS
    <2>1. out = [status |-> IF i.chunk_id = NoChunk /\ i.heading_path = NoSection THEN "invalid_arguments" ELSE "not_found"]
      BY DEF _section
    <2> HIDE DEF out
    <2> QED
      BY <2>1
  <1> HIDE DEF path
  <1>5. path # NoSection => \E lo, hi \in DOMAIN chunks : IsSection(chunks, path, lo, hi) /\ IsTheSection(out, i, path, lo, hi)
    <2> SUFFICES ASSUME path # NoSection
                 PROVE  \E lo, hi \in DOMAIN chunks : IsSection(chunks, path, lo, hi) /\ IsTheSection(out, i, path, lo, hi)
      OBVIOUS
    <2>1. PICK n \in DOMAIN chunks : path = chunks[n].path
      BY NamedSection DEF path
    <2>2. PICK lo, hi \in DOMAIN chunks : IsSection(chunks, path, lo, hi)
      BY <2>1, OneStretch
    <2>3. IsTheSection(_section(i), i, path, lo, hi)
      BY <2>2, SectionIs DEF path
    <2> QED
      BY <2>2, <2>3
  <1> HIDE DEF out, at
  <1>6. out.status = "ok" <=> path # NoSection
    BY <1>4, <1>5 DEF IsTheSection
  <1>7. out.status = "ok" <=> IF i.chunk_id = NoChunk THEN \E n \in DOMAIN i.chunks : i.chunks[n].path = i.heading_path
                              ELSE \E n \in DOMAIN i.chunks : i.chunks[n].id = i.chunk_id
    BY <1>1, <1>6, NamedSection DEF path
  <1>8. ASSUME out.status = "ok"
        PROVE  /\ i.chunk_id # NoChunk => i.chunk_id \in ToSet(out.chunk_ids)
               /\ Cardinality(stretch) = Len(out.text) /\ Max(stretch) - Min(stretch) + 1 = Len(out.text)
               /\ out.next # NoSection => at(out.next).prev = out.path /\ at(out.next).start >= out.end
               /\ out.prev # NoSection => at(out.prev).next = out.path
               /\ \A p \in ToSet(out.siblings) : out.path \in ToSet(at(p).siblings)
    <2>1. PICK lo, hi \in DOMAIN chunks : IsSection(chunks, path, lo, hi) /\ IsTheSection(out, i, path, lo, hi)
      BY <1>5, <1>6, <1>8
    <2>2. lo \in 1..Len(chunks) /\ hi \in 1..Len(chunks) /\ lo <= hi
      BY <1>2, <2>1 DEF IsSection
    <2>3. \A n \in 1..Len(chunks) : chunks[n].path = path <=> n \in lo..hi
      BY <1>2, <2>1 DEF IsSection
    <2>4. out.path = path /\ out.chunk_ids = IdsFrom(chunks, lo, hi)
      BY <1>1, <2>1 DEF IsTheSection
    <2>5. ASSUME i.chunk_id # NoChunk PROVE i.chunk_id \in ToSet(out.chunk_ids)
      <3>1. PICK n \in DOMAIN chunks : path = chunks[n].path /\ chunks[n].id = i.chunk_id
        BY <1>6, <1>8, <2>5, NamedSection DEF path
      <3>2. n \in lo..hi /\ n \in Int /\ lo \in Int /\ hi \in Int
        BY <1>2, <2>2, <2>3, <3>1
      <3> DEFINE k == n - lo + 1
      <3>3. k \in 1..(hi - lo + 1) /\ lo + k - 1 = n
        BY <3>2
      <3> HIDE DEF k
      <3>4. IdsFrom(chunks, lo, hi)[k] = i.chunk_id /\ k \in DOMAIN IdsFrom(chunks, lo, hi)
        BY <3>1, <3>3 DEF IdsFrom
      <3> QED
        BY <2>4, <3>4 DEF ToSet
    <2>6. Cardinality(stretch) = Len(out.text) /\ Max(stretch) - Min(stretch) + 1 = Len(out.text)
      <3>1. PICK a, b \in DOMAIN chunks : a <= b /\ out.text = IdsFrom(chunks, a, b)
        BY <2>1, TextIsAStretch
      <3>2. stretch = {n \in DOMAIN chunks : chunks[n].id \in ToSet(IdsFrom(chunks, a, b))}
        BY <1>1, <3>1
      <3> HIDE DEF stretch
      <3> QED
        BY <3>1, <3>2, StretchIsCounted
    <2>7. ASSUME out.next # NoSection PROVE at(out.next).prev = out.path /\ at(out.next).start >= out.end
      <3>1. hi # Len(chunks) /\ out.next = chunks[hi + 1].path
        <4>1. out.next = IF hi = Len(chunks) THEN NoSection ELSE chunks[hi + 1].path
          BY <1>1, <2>1 DEF IsTheSection
        <4> QED
          BY <2>7, <4>1
      <3> DEFINE n == hi + 1
                 next == chunks[n].path
                 j == ByHeading(i, chunks[n].path)
      <3>2. n \in 1..Len(chunks) /\ ~(n \in lo..hi) /\ hi \in lo..hi
        BY <1>2, <2>2, <3>1
      <3>3. next # path /\ chunks[hi].path = path /\ out.next = next
        BY <2>2, <2>3, <3>1, <3>2
      <3> HIDE DEF n
      <3>4. /\ j.chunks = chunks
            /\ \E a, b \in DOMAIN chunks : IsSection(chunks, chunks[n].path, a, b) /\ IsTheSection(_section(j), j, chunks[n].path, a, b)
        <4>1. n \in DOMAIN chunks
          BY <1>2, <3>2
        <4> QED
          BY <4>1, AskedByHeading
      <3>5. at(out.next) = _section(j)
        BY <3>3 DEF at
      <3> HIDE DEF j
      <3> DEFINE more == _section(j)
      <3>6. PICK a, b \in DOMAIN chunks : IsSection(chunks, next, a, b) /\ IsTheSection(more, j, next, a, b)
        BY <3>4
      <3> HIDE DEF next, more
      <3>7. a \in 1..Len(chunks) /\ b \in 1..Len(chunks) /\ a <= b
        BY <1>2, <3>6 DEF IsSection
      <3>8. \A m \in 1..Len(chunks) : chunks[m].path = next <=> m \in a..b
        BY <1>2, <3>6 DEF IsSection
      <3>9. n \in a..b /\ ~(hi \in a..b)
        BY <2>2, <3>2, <3>3, <3>8 DEF next
      <3>10. a = hi + 1 /\ a # 1
        BY <1>2, <2>2, <3>7, <3>9 DEF n
      <3>11. more.prev = path
        <4>1. more.prev = (IF a = 1 THEN NoSection ELSE chunks[a - 1].path)
          BY <3>4, <3>6 DEF IsTheSection
        <4>2. a - 1 = hi
          BY <2>2, <3>10
        <4> QED
          BY <3>3, <3>10, <4>1, <4>2
      <3>12. PICK x \in lo..hi : out.end = chunks[x].end
        BY <1>1, <2>1 DEF IsTheSection
      <3>13. PICK y \in a..b : more.start = chunks[y].start
        BY <3>4, <3>6 DEF IsTheSection
      <3>14. x \in 1..Len(chunks) /\ y \in 1..Len(chunks) /\ x < y
        BY <1>2, <2>2, <3>7, <3>10, <3>12, <3>13
      <3>15. chunks[x].path # chunks[y].path
        BY <2>3, <3>3, <3>8, <3>12, <3>13, <3>14
      <3>16. chunks[x].end <= chunks[y].start
        BY <1>2, <3>14, <3>15 DEF IsADocument
      <3>17. chunks[x].end \in Nat /\ chunks[y].start \in Nat
        BY <1>2, <3>14, SpansOfADocument
      <3>18. more.start >= out.end
        BY <3>12, <3>13, <3>16, <3>17
      <3> QED
        BY <2>4, <3>5, <3>11, <3>18 DEF more
    <2>8. ASSUME out.prev # NoSection PROVE at(out.prev).next = out.path
      <3>1. lo # 1 /\ out.prev = chunks[lo - 1].path
        <4>1. out.prev = IF lo = 1 THEN NoSection ELSE chunks[lo - 1].path
          BY <1>1, <2>1 DEF IsTheSection
        <4> QED
          BY <2>8, <4>1
      <3> DEFINE n == lo - 1
                 prev == chunks[n].path
                 j == ByHeading(i, chunks[n].path)
      <3>2. n \in 1..Len(chunks) /\ ~(n \in lo..hi) /\ lo \in lo..hi
        BY <1>2, <2>2, <3>1
      <3>3. prev # path /\ chunks[lo].path = path /\ out.prev = prev
        BY <2>2, <2>3, <3>1, <3>2
      <3> HIDE DEF n
      <3>4. /\ j.chunks = chunks
            /\ \E a, b \in DOMAIN chunks : IsSection(chunks, chunks[n].path, a, b) /\ IsTheSection(_section(j), j, chunks[n].path, a, b)
        <4>1. n \in DOMAIN chunks
          BY <1>2, <3>2
        <4> QED
          BY <4>1, AskedByHeading
      <3>5. at(out.prev) = _section(j)
        BY <3>3 DEF at
      <3> HIDE DEF j
      <3> DEFINE more == _section(j)
      <3>6. PICK a, b \in DOMAIN chunks : IsSection(chunks, prev, a, b) /\ IsTheSection(more, j, prev, a, b)
        BY <3>4
      <3> HIDE DEF prev, more
      <3>7. a \in 1..Len(chunks) /\ b \in 1..Len(chunks) /\ a <= b
        BY <1>2, <3>6 DEF IsSection
      <3>8. \A m \in 1..Len(chunks) : chunks[m].path = prev <=> m \in a..b
        BY <1>2, <3>6 DEF IsSection
      <3>9. n \in a..b /\ ~(lo \in a..b)
        BY <2>2, <3>2, <3>3, <3>8 DEF prev
      <3>10. b = lo - 1 /\ b # Len(chunks) /\ b + 1 = lo
        BY <1>2, <2>2, <3>7, <3>9 DEF n
      <3>11. more.next = (IF b = Len(chunks) THEN NoSection ELSE chunks[b + 1].path)
        BY <3>4, <3>6 DEF IsTheSection
      <3>12. more.next = path
        BY <3>3, <3>10, <3>11
      <3> QED
        BY <2>4, <3>5, <3>12 DEF more
    <2>9. ASSUME NEW p \in ToSet(out.siblings) PROVE out.path \in ToSet(at(p).siblings)
      <3>1. ToSet(out.siblings) = {q \in {chunks[n].path : n \in DOMAIN chunks} : q # path /\ ParentOf[q] = ParentOf[path]}
        BY <1>1, <2>1 DEF IsTheSection
      <3>2. PICK n \in DOMAIN chunks : p = chunks[n].path
        BY <2>9, <3>1
      <3>3. p # path /\ ParentOf[p] = ParentOf[path]
        BY <2>9, <3>1
      <3> DEFINE j == ByHeading(i, chunks[n].path)
      <3>4. /\ j.chunks = chunks
            /\ \E a, b \in DOMAIN chunks : IsSection(chunks, chunks[n].path, a, b) /\ IsTheSection(_section(j), j, chunks[n].path, a, b)
        BY AskedByHeading
      <3>5. at(p) = _section(j)
        BY <3>2 DEF at
      <3> HIDE DEF j
      <3>6. ToSet(_section(j).siblings) = {q \in {chunks[m].path : m \in DOMAIN chunks} : q # p /\ ParentOf[q] = ParentOf[p]}
        BY <3>2, <3>4 DEF IsTheSection
      <3>7. path \in {chunks[m].path : m \in DOMAIN chunks}
        BY <1>2, <2>2, <2>3
      <3> QED
        BY <2>4, <3>3, <3>5, <3>6, <3>7
    <2> QED
      BY <2>5, <2>6, <2>7, <2>8, <2>9
  <1>9. SectionsAreInPlace(i) <=>
            /\ i.chunk_id # NoChunk => _section(bare) = out
            /\ out.status = "ok" <=> IF i.chunk_id = NoChunk THEN \E n \in DOMAIN i.chunks : i.chunks[n].path = i.heading_path
                                     ELSE \E n \in DOMAIN i.chunks : i.chunks[n].id = i.chunk_id
            /\ out.status = "ok" =>
                  /\ i.chunk_id # NoChunk => i.chunk_id \in ToSet(out.chunk_ids)
                  /\ Cardinality(stretch) = Len(out.text) /\ Max(stretch) - Min(stretch) + 1 = Len(out.text)
                  /\ out.next # NoSection => at(out.next).prev = out.path /\ at(out.next).start >= out.end
                  /\ out.prev # NoSection => at(out.prev).next = out.path
                  /\ \A p \in ToSet(out.siblings) : out.path \in ToSet(at(p).siblings)
    BY DEF SectionsAreInPlace, ByHeading, out, at
  <1> HIDE DEF bare, stretch
  <1> QED
    BY <1>3, <1>7, <1>8, <1>9

\* The windows of the n-th section.
WindowsOf(outline, split, n) ==
    IF outline[n] = split
    THEN <<[path |-> outline[n], id |-> 2 * n, start |-> 10 * n, end |-> 10 * n + 5],
           [path |-> outline[n], id |-> 2 * n + 1, start |-> 10 * n + 4, end |-> 10 * n + 9]>>
    ELSE <<[path |-> outline[n], id |-> 2 * n, start |-> 10 * n, end |-> 10 * n + 9]>>

\* A chunk of one of the first m sections.
ChunkOf(outline, m, c) == \E n \in 1..m : /\ c.path = outline[n] /\ c.id \in {2 * n, 2 * n + 1}
                                          /\ 10 * n <= c.start /\ c.end <= 10 * n + 9

\* Chunks put together up to the m-th section.
UpToSection(outline, m, s) ==
    /\ s \in Seq(SectionChunks) /\ \A k \in 1..Len(s) : ChunkOf(outline, m, s[k])
    /\ \A j, k \in 1..Len(s) : j < k => s[j].id < s[k].id

LEMMA WindowsOfOne ==
  ASSUME NEW outline \in Seq(Headings), NEW split, NEW n \in 1..Len(outline)
  PROVE  LET w == WindowsOf(outline, split, n)
         IN  /\ w \in Seq(SectionChunks) /\ Len(w) \in 1..2
             /\ \A k \in 1..Len(w) : w[k].path = outline[n] /\ w[k].id = 2 * n + k - 1 /\ 10 * n <= w[k].start /\ w[k].end <= 10 * n + 9
  <1> DEFINE h == outline[n]
             a == [path |-> h, id |-> 2 * n, start |-> 10 * n, end |-> 10 * n + 5]
             b == [path |-> h, id |-> 2 * n + 1, start |-> 10 * n + 4, end |-> 10 * n + 9]
             c == [path |-> h, id |-> 2 * n, start |-> 10 * n, end |-> 10 * n + 9]
             w == WindowsOf(outline, split, n)
  <1>1. h \in Headings /\ n \in Nat /\ n # 0
    OBVIOUS
  <1>2. w = IF h = split THEN <<a, b>> ELSE <<c>>
    BY DEF WindowsOf
  <1> HIDE DEF h, w
  <1>3. a \in SectionChunks /\ b \in SectionChunks /\ c \in SectionChunks
    BY <1>1 DEF SectionChunks, NoChunk
  <1>4. /\ a.path = h /\ b.path = h /\ c.path = h /\ a.id = 2 * n /\ b.id = 2 * n + 1 /\ c.id = 2 * n
        /\ 10 * n <= a.start /\ 10 * n <= b.start /\ 10 * n <= c.start
        /\ a.end <= 10 * n + 9 /\ b.end <= 10 * n + 9 /\ c.end <= 10 * n + 9
    BY <1>1
  <1> HIDE DEF a, b, c
  <1>5. CASE h = split
    <2>1. w = <<a, b>>
      BY <1>2, <1>5
    <2>2. w \in Seq(SectionChunks) /\ Len(w) = 2 /\ w[1] = a /\ w[2] = b
      BY <1>3, <2>1
    <2>3. \A k \in 1..2 : k = 1 \/ k = 2
      OBVIOUS
    <2>4. 2 * n = 2 * n + 1 - 1 /\ 2 * n + 1 = 2 * n + 2 - 1
      BY <1>1
    <2> QED
      BY <1>4, <2>2, <2>3, <2>4 DEF h, w
  <1>6. CASE h # split
    <2>1. w = <<c>>
      BY <1>2, <1>6
    <2>2. w \in Seq(SectionChunks) /\ Len(w) = 1 /\ w[1] = c
      BY <1>3, <2>1
    <2>3. \A k \in 1..1 : k = 1
      OBVIOUS
    <2>4. 2 * n = 2 * n + 1 - 1
      BY <1>1
    <2> QED
      BY <1>4, <2>2, <2>3, <2>4 DEF h, w
  <1> QED
    BY <1>5, <1>6

LEMMA OneSectionMore ==
  ASSUME NEW outline \in Seq(Headings), NEW split, NEW n \in 1..Len(outline), NEW s, UpToSection(outline, n - 1, s)
  PROVE  UpToSection(outline, n, s \o WindowsOf(outline, split, n))
  <1> DEFINE w == WindowsOf(outline, split, n)
             out == s \o w
  <1>1. /\ w \in Seq(SectionChunks) /\ Len(w) \in 1..2
        /\ \A k \in 1..Len(w) : w[k].path = outline[n] /\ w[k].id = 2 * n + k - 1 /\ 10 * n <= w[k].start /\ w[k].end <= 10 * n + 9
    BY WindowsOfOne
  <1>2. s \in Seq(SectionChunks) /\ n \in Nat /\ n # 0
    BY DEF UpToSection
  <1> HIDE DEF w
  <1>3. /\ out \in Seq(SectionChunks) /\ Len(out) = Len(s) + Len(w)
        /\ \A k \in 1..(Len(s) + Len(w)) : out[k] = IF k <= Len(s) THEN s[k] ELSE w[k - Len(s)]
    BY <1>1, <1>2, ConcatProperties
  <1> HIDE DEF out
  <1>4. Len(s) \in Nat /\ Len(w) \in Nat /\ Len(out) \in Nat
    BY <1>1, <1>2, <1>3
  <1>5. \A k \in 1..Len(out) : (k \in 1..Len(s) /\ out[k] = s[k]) \/ (k > Len(s) /\ k - Len(s) \in 1..Len(w) /\ out[k] = w[k - Len(s)])
    BY <1>3, <1>4
  <1>10. \A k \in 1..Len(out) : k > Len(s) =>
              /\ k - Len(s) \in 1..2 /\ out[k].path = outline[n] /\ out[k].id = 2 * n + (k - Len(s)) - 1
              /\ 10 * n <= out[k].start /\ out[k].end <= 10 * n + 9
    <2> SUFFICES ASSUME NEW k \in 1..Len(out), k > Len(s)
                 PROVE  /\ k - Len(s) \in 1..2 /\ out[k].path = outline[n] /\ out[k].id = 2 * n + (k - Len(s)) - 1
                        /\ 10 * n <= out[k].start /\ out[k].end <= 10 * n + 9
      OBVIOUS
    <2> DEFINE d == k - Len(s)
    <2>1. d \in 1..Len(w) /\ out[k] = w[d]
      BY <1>4, <1>5
    <2> HIDE DEF d
    <2>2. d \in 1..2
      BY <1>1, <2>1
    <2>3. w[d].path = outline[n] /\ w[d].id = 2 * n + d - 1 /\ 10 * n <= w[d].start /\ w[d].end <= 10 * n + 9
      BY <1>1, <2>1
    <2> QED
      BY <2>1, <2>2, <2>3 DEF d
  <1>6. \A k \in 1..Len(s) : s[k].id < 2 * n /\ s[k].id \in Nat
    <2> SUFFICES ASSUME NEW k \in 1..Len(s) PROVE s[k].id < 2 * n /\ s[k].id \in Nat
      OBVIOUS
    <2> DEFINE id == s[k].id
    <2>1. PICK m \in 1..(n - 1) : id \in {2 * m, 2 * m + 1}
      BY DEF UpToSection, ChunkOf
    <2> HIDE DEF id
    <2>2. id < 2 * n /\ id \in Nat
      BY <1>2, <2>1
    <2> QED
      BY <2>2 DEF id
  <1>7. ASSUME NEW k \in 1..Len(out) PROVE ChunkOf(outline, n, out[k])
    <2>1. CASE k \in 1..Len(s) /\ out[k] = s[k]
      <3>1. ChunkOf(outline, n - 1, s[k])
        BY <2>1 DEF UpToSection
      <3>2. \A m \in 1..(n - 1) : m \in 1..n
        BY <1>2
      <3> QED
        BY <2>1, <3>1, <3>2 DEF ChunkOf
    <2>2. CASE k - Len(s) \in 1..Len(w) /\ out[k] = w[k - Len(s)]
      <3> DEFINE c == out[k]
                 d == k - Len(s)
      <3>1. d \in 1..2 /\ c.path = outline[n] /\ c.id = 2 * n + d - 1 /\ 10 * n <= c.start /\ c.end <= 10 * n + 9
        <4>1. k > Len(s)
          BY <1>4, <2>2
        <4> QED
          BY <1>10, <4>1
      <3>2. n \in 1..n
        BY <1>2
      <3> HIDE DEF c, d
      <3>3. 2 * n + d - 1 \in {2 * n, 2 * n + 1}
        BY <1>2, <3>1
      <3>4. ChunkOf(outline, n, c)
        BY <3>1, <3>2, <3>3 DEF ChunkOf
      <3> QED
        BY <3>4 DEF c
    <2> QED
      BY <1>5, <2>1, <2>2
  <1>8. ASSUME NEW j \in 1..Len(out), NEW k \in 1..Len(out), j < k PROVE out[j].id < out[k].id
    <2>1. CASE j \in 1..Len(s) /\ k \in 1..Len(s)
      <3>1. out[j] = s[j] /\ out[k] = s[k]
        BY <1>4, <1>5, <2>1
      <3> QED
        BY <1>8, <2>1, <3>1 DEF UpToSection
    <2>2. CASE j \in 1..Len(s) /\ ~(k \in 1..Len(s))
      <3>1. out[j] = s[j] /\ k - Len(s) \in 1..2 /\ out[k].id = 2 * n + (k - Len(s)) - 1
        <4>1. k > Len(s)
          BY <1>4, <2>2
        <4> QED
          BY <1>5, <1>4, <1>10, <2>2, <4>1
      <3> DEFINE x == out[j].id
                 y == out[k].id
                 d == k - Len(s)
      <3>2. x < 2 * n /\ x \in Nat /\ d \in 1..2 /\ y = 2 * n + d - 1
        BY <1>6, <2>2, <3>1
      <3> HIDE DEF x, y, d
      <3>3. x < y
        BY <1>2, <3>2
      <3> QED
        BY <3>3 DEF x, y
    <2>3. CASE ~(j \in 1..Len(s))
      <3>1. /\ k - Len(s) \in 1..2 /\ out[k].id = 2 * n + (k - Len(s)) - 1
            /\ j - Len(s) \in 1..2 /\ out[j].id = 2 * n + (j - Len(s)) - 1
        <4>1. k > Len(s) /\ j > Len(s)
          BY <1>4, <1>8, <2>3
        <4> QED
          BY <1>10, <4>1
      <3> DEFINE x == out[j].id
                 y == out[k].id
      <3>2. x = 2 * n + (j - Len(s)) - 1 /\ y = 2 * n + (k - Len(s)) - 1 /\ j \in Int /\ k \in Int
        BY <3>1
      <3> HIDE DEF x, y
      <3>3. x < y
        BY <1>2, <1>4, <1>8, <3>2
      <3> QED
        BY <3>3 DEF x, y
    <2> QED
      BY <2>1, <2>2, <2>3
  <1>9. UpToSection(outline, n, out)
    BY <1>3, <1>7, <1>8 DEF UpToSection
  <1> QED
    BY <1>9 DEF out, w

LEMMA SectionsPutTogether ==
  ASSUME NEW outline \in Seq(Headings), NEW split, NEW n \in Nat, n = Len(outline),
         NEW f \in [1..n -> Seq(SectionChunks)], \A k \in 1..n : f[k] = WindowsOf(outline, split, k)
  PROVE  UpToSection(outline, n, FlattenSeq(f))
  <1>1. PICK g \in [0..n -> Seq(SectionChunks)] : /\ g[0] = <<>>
                                                  /\ \A i \in 1..n : g[i] = g[i - 1] \o f[i]
                                                  /\ FlattenSeq(f) = g[n]
    BY FlattenIsALoop
  <1> DEFINE S == {k \in 0..n : UpToSection(outline, k, g[k])}
  <1>2. 0 \in S
    <2>1. UpToSection(outline, 0, <<>>)
      BY DEF UpToSection
    <2> QED
      BY <1>1, <2>1
  <1>3. \A k \in (0 + 1)..n : k - 1 \in S => k \in S
    <2> SUFFICES ASSUME NEW k \in 1..n, k - 1 \in S PROVE k \in S
      OBVIOUS
    <2>1. k \in 0..n /\ k \in 1..Len(outline)
      OBVIOUS
    <2>2. UpToSection(outline, k - 1, g[k - 1])
      OBVIOUS
    <2>3. UpToSection(outline, k, g[k - 1] \o WindowsOf(outline, split, k))
      BY <2>1, <2>2, OneSectionMore
    <2>4. UpToSection(outline, k, g[k])
      BY <1>1, <2>3
    <2> QED
      BY <2>1, <2>4
  <1> HIDE DEF S
  <1>4. \A k \in 0..n : k \in S
    <2>1. 0 \in Int /\ n \in Int
      OBVIOUS
    <2> QED
      BY <1>2, <1>3, <2>1, UpFromTheFirst
  <1>5. n \in S
    BY <1>4
  <1> QED
    BY <1>1, <1>5 DEF S

\* An outline that names no section twice is cut into a document.
LEMMA OutlineIsADocument ==
  ASSUME NEW outline \in Seq(Headings), NEW split,
         \A m, n \in DOMAIN outline : outline[m] = outline[n] => m = n
  PROVE  IsADocument(Chunks(outline, split))
  <1> DEFINE N == Len(outline)
             w == [n \in 1..N |-> WindowsOf(outline, split, n)]
             chunks == Chunks(outline, split)
  <1>1. N \in Nat /\ DOMAIN outline = 1..N
    OBVIOUS
  <1>2. chunks = FlattenSeq(w)
    BY <1>1 DEF Chunks, WindowsOf
  <1>3. w \in [1..N -> Seq(SectionChunks)]
    BY WindowsOfOne
  <1>4. \A n \in 1..N : w[n] = WindowsOf(outline, split, n)
    OBVIOUS
  <1> HIDE DEF w
  <1>5. PICK all, own : all = N /\ own = w
    OBVIOUS
  <1>6. all \in Nat /\ all = Len(outline) /\ own \in [1..all -> Seq(SectionChunks)]
        /\ \A k \in 1..all : own[k] = WindowsOf(outline, split, k)
    BY <1>1, <1>3, <1>4, <1>5
  <1>7. UpToSection(outline, all, FlattenSeq(own))
    BY <1>6, SectionsPutTogether
  <1> HIDE DEF chunks, N
  <1>9. UpToSection(outline, N, chunks)
    BY <1>2, <1>5, <1>7
  <1>10. /\ chunks \in Seq(SectionChunks) /\ DOMAIN chunks = 1..Len(chunks) /\ Len(chunks) \in Nat
         /\ \A k \in 1..Len(chunks) : chunks[k] \in SectionChunks
    BY <1>9 DEF UpToSection
  <1>11. \A j, k \in 1..Len(chunks) : j < k => chunks[j].id < chunks[k].id
    BY <1>9 DEF UpToSection
  <1>12. \A k \in 1..Len(chunks) : chunks[k].id \in Nat /\ chunks[k].start \in Nat /\ chunks[k].end \in Nat
    BY <1>10 DEF SectionChunks
  <1>13. \A k \in 1..Len(chunks) : \E n \in 1..N : /\ chunks[k].path = outline[n] /\ chunks[k].id \in {2 * n, 2 * n + 1}
                                                    /\ 10 * n <= chunks[k].start /\ chunks[k].end <= 10 * n + 9
    BY <1>9 DEF UpToSection, ChunkOf
  <1>14. \A n \in 1..N : n \in Nat
    BY <1>1
  <1>15. \A j, k \in 1..Len(chunks) : chunks[j].id = chunks[k].id => j = k
    <2> SUFFICES ASSUME NEW j \in 1..Len(chunks), NEW k \in 1..Len(chunks), j < k, chunks[j].id = chunks[k].id PROVE FALSE
      OBVIOUS
    <2> DEFINE x == chunks[j].id
    <2>1. x < x /\ x \in Nat
      BY <1>11, <1>12
    <2> HIDE DEF x
    <2> QED
      BY <2>1
  <1>16. \A j, k \in 1..Len(chunks) : (j < k /\ chunks[j].path # chunks[k].path) => chunks[j].end <= chunks[k].start
    <2> SUFFICES ASSUME NEW j \in 1..Len(chunks), NEW k \in 1..Len(chunks), j < k, chunks[j].path # chunks[k].path
                 PROVE  chunks[j].end <= chunks[k].start
      OBVIOUS
    <2> DEFINE x == chunks[j].id
               y == chunks[k].id
               e == chunks[j].end
               f == chunks[k].start
    <2>1. PICK m \in 1..N : chunks[j].path = outline[m] /\ x \in {2 * m, 2 * m + 1} /\ e <= 10 * m + 9
      BY <1>13
    <2>2. PICK n \in 1..N : chunks[k].path = outline[n] /\ y \in {2 * n, 2 * n + 1} /\ 10 * n <= f
      BY <1>13
    <2>3. x < y /\ m # n /\ x \in Nat /\ y \in Nat /\ e \in Nat /\ f \in Nat
      BY <1>11, <1>12, <2>1, <2>2
    <2> HIDE DEF x, y, e, f
    <2>4. m \in Nat /\ n \in Nat
      BY <1>14
    <2>5. m < n
      <3>1. n < m => 2 * n + 1 < 2 * m
        BY <2>4
      <3>2. n < m => y < x
        <4>1. x >= 2 * m
          BY <2>1, <2>4
        <4>2. y <= 2 * n + 1
          BY <2>2, <2>4
        <4> QED
          BY <2>3, <2>4, <3>1, <4>1, <4>2
      <3> QED
        BY <2>3, <2>4, <3>2
    <2>6. e <= f
      BY <2>1, <2>2, <2>3, <2>4, <2>5
    <2> QED
      BY <2>6 DEF e, f
  <1>17. \A l, m, n \in 1..Len(chunks) : (l <= m /\ m <= n /\ chunks[l].path = chunks[n].path) => chunks[m].path = chunks[l].path
    <2> SUFFICES ASSUME NEW l \in 1..Len(chunks), NEW m \in 1..Len(chunks), NEW n \in 1..Len(chunks),
                        l < m, m < n, chunks[l].path = chunks[n].path
                 PROVE  chunks[m].path = chunks[l].path
      BY <1>10
    <2> DEFINE x == chunks[l].id
               y == chunks[m].id
               z == chunks[n].id
    <2>1. PICK a \in 1..N : chunks[l].path = outline[a] /\ x \in {2 * a, 2 * a + 1}
      BY <1>13
    <2>2. PICK b \in 1..N : chunks[m].path = outline[b] /\ y \in {2 * b, 2 * b + 1}
      BY <1>13
    <2>3. PICK c \in 1..N : chunks[n].path = outline[c] /\ z \in {2 * c, 2 * c + 1}
      BY <1>13
    <2>4. a = c
      BY <1>1, <2>1, <2>3
    <2>5. x < y /\ y < z /\ x \in Nat /\ y \in Nat /\ z \in Nat
      BY <1>11, <1>12
    <2> HIDE DEF x, y, z
    <2>6. a = b
      <3>1. a \in Nat /\ b \in Nat
        BY <1>14
      <3> QED
        BY <2>1, <2>2, <2>3, <2>4, <2>5, <3>1
    <2> QED
      BY <2>1, <2>2, <2>6
  <1>18. \E length \in Nat : \A k \in DOMAIN chunks : chunks[k].end <= length
    <2> SUFFICES ASSUME NEW k \in DOMAIN chunks PROVE chunks[k].end <= 10 * N + 9 /\ 10 * N + 9 \in Nat
      BY <1>1
    <2> DEFINE e == chunks[k].end
    <2>1. PICK n \in 1..N : e <= 10 * n + 9
      BY <1>10, <1>13
    <2>2. e \in Nat /\ n <= N /\ n \in Nat
      BY <1>1, <1>10, <1>12, <1>14
    <2> HIDE DEF e
    <2>3. e <= 10 * N + 9
      BY <1>1, <2>1, <2>2
    <2> QED
      BY <1>1, <2>3 DEF e
  <1>19. IsADocument(chunks)
    BY <1>10, <1>15, <1>16, <1>17, <1>18 DEF IsADocument
  <1> QED
    BY <1>19 DEF chunks

\* So are the documents that are asked about.
LEMMA AskedForSection ==
  ASSUME NEW i \in SectionInputs
  PROVE  SectionsAreInPlace(i)
  <1>1. PICK outline \in Outlines, split \in Headings \cup {NoSection} : i.chunks = Chunks(outline, split)
    BY DEF SectionInputs
  <1>2. outline \in Seq(Headings) /\ \A m, n \in DOMAIN outline : outline[m] = outline[n] => m = n
    <2>1. Headings = {"A", "AB", "AC", "D"}
      BY DEF Headings, ParentOf
    <2>2. CASE outline = <<"A", "AB", "AC", "D">>
      BY <2>1, <2>2
    <2>3. CASE outline = <<"AB", "AC", "D">>
      BY <2>1, <2>3
    <2>4. CASE outline = <<"A", "D">>
      BY <2>1, <2>4
    <2>5. CASE outline = <<"D">>
      BY <2>1, <2>5
    <2> QED
      BY <2>2, <2>3, <2>4, <2>5 DEF Outlines
  <1>3. IsADocument(Chunks(outline, split))
    BY <1>2, OutlineIsADocument
  <1>4. i \in Selectors(i.chunks)
    BY DEF SectionInputs, Selectors
  <1> QED
    BY <1>1, <1>3, <1>4, SectionsInPlace
=============================================================================
