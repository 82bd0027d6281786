----------------------------- MODULE DataLemmas -------------------------------
(***************************************************************************)
(* Facts about numbers and sequences that the proofs of several components *)
(* need.  Whatever is true of every number is derived here from the least  *)
(* number principle, stated for sets: a set of naturals that is not empty  *)
(* has a least element.                                                    *)
(***************************************************************************)
EXTENDS Integers, SequencesExt, SequenceTheorems, WellFoundedInduction, TLAPS

\* The least number principle.
LEMMA Least ==
    ASSUME NEW S \in SUBSET Nat, S # {}
    PROVE  \E x \in S : \A y \in S : x <= y
  <1>1. PICK x \in S : \A y \in S : ~(<<y, x>> \in OpToRel(<, Nat))
    BY NatLessThanWellFounded, WFMin
  <1>2. \A y \in S : ~(y < x)
    BY <1>1 DEF OpToRel
  <1>3. \A y \in S : x <= y
    <2> TAKE y \in S
    <2>1. x \in Nat /\ y \in Nat /\ ~(y < x)
      BY <1>2
    <2> QED
      BY <2>1
  <1> QED
    BY <1>3

\* What holds of 0, and of a number's successor whenever it holds of the number,
\* holds up to any bound.
LEMMA UpTo ==
    ASSUME NEW n \in Nat, NEW S \in SUBSET (0..n), 0 \in S,
           \A k \in 0..(n - 1) : k \in S => k + 1 \in S
    PROVE  S = 0..n
  <1> SUFFICES ASSUME S # 0..n PROVE FALSE
    OBVIOUS
  <1> DEFINE Out == (0..n) \ S
  <1>1. Out \in SUBSET Nat /\ Out # {}
    <2>1. \A x \in 0..n : x \in Nat
      OBVIOUS
    <2>2. \E x \in 0..n : x \notin S
      OBVIOUS
    <2> QED
      BY <2>1, <2>2
  <1>2. PICK x \in Out : \A y \in Out : x <= y
    BY <1>1, Least
  <1>3. x \in 1..n /\ x - 1 \in 0..(n - 1)
    BY <1>2
  <1>4. x - 1 \in S
    <2>1. x - 1 \notin Out
      BY <1>2, <1>3
    <2> QED
      BY <1>3, <2>1
  <1>5. (x - 1) + 1 = x
    BY <1>3
  <1> QED
    BY <1>2, <1>3, <1>4, <1>5

\* Min and Max are what their names say.
LEMMA MinIsLeast ==
    ASSUME NEW S \in SUBSET Nat, S # {}
    PROVE  Min(S) \in S /\ \A y \in S : Min(S) <= y
  <1>1. \E x \in S : \A y \in S : x <= y
    BY Least
  <1> QED
    BY <1>1 DEF Min

LEMMA MaxIsGreatest ==
    ASSUME NEW n \in Nat, NEW S \in SUBSET (0..n), S # {}
    PROVE  Max(S) \in S /\ \A y \in S : Max(S) >= y
  <1> DEFINE T == {n - x : x \in S}
  <1>1. T \in SUBSET Nat /\ T # {}
    <2>1. \A x \in S : n - x \in Nat
      OBVIOUS
    <2> QED
      BY <2>1
  <1>2. PICK t \in T : \A y \in T : t <= y
    BY <1>1, Least
  <1>3. PICK x \in S : t = n - x
    BY <1>2
  <1>4. \A y \in S : x >= y
    <2> TAKE y \in S
    <2>1. n - x <= n - y
      BY <1>2, <1>3
    <2> QED
      BY <2>1
  <1> QED
    BY <1>4 DEF Max

LEMMA MaxIs ==
    ASSUME NEW n \in Nat, NEW S \in SUBSET (0..n), NEW v \in S, \A y \in S : y <= v
    PROVE  Max(S) = v
  <1>1. Max(S) \in S /\ \A y \in S : Max(S) >= y
    BY MaxIsGreatest
  <1>2. PICK m \in S : m = Max(S) /\ \A y \in S : m >= y
    BY <1>1
  <1>3. m <= v /\ m >= v
    BY <1>2
  <1> QED
    BY <1>2, <1>3

-----------------------------------------------------------------------------
(* Functions that are defined by recursion                                 *)

\* A function that begins with base and goes on by the steps.
IsIteration(f, n, V, base, step) ==
    /\ f \in [0..n -> V]
    /\ f[0] = base
    /\ \A k \in 1..n : f[k] = step[k][f[k - 1]]

\* From a first value and a step there is a function: what a recursive definition
\* over 0..n needs to be one.
LEMMA Iterates ==
    ASSUME NEW n \in Nat, NEW V, NEW base \in V, NEW step \in [1..n -> [V -> V]]
    PROVE  \E f : IsIteration(f, n, V, base, step)
  <1> DEFINE Good(m) == \E f \in [0..m -> V] :
                           /\ f[0] = base
                           /\ \A k \in 1..m : f[k] = step[k][f[k - 1]]
             S == {m \in 0..n : Good(m)}
  <1>1. Good(0)
    <2>1. WITNESS [m \in 0..0 |-> base] \in [0..0 -> V]
    <2> QED
      OBVIOUS
  <1>2. ASSUME NEW m \in 0..(n - 1), Good(m)
        PROVE  Good(m + 1)
    <2>1. PICK f \in [0..m -> V] : /\ f[0] = base
                                   /\ \A k \in 1..m : f[k] = step[k][f[k - 1]]
      BY <1>2
    <2> DEFINE g == [k \in 0..(m + 1) |-> IF k <= m THEN f[k] ELSE step[m + 1][f[m]]]
    <2>2. f[m] \in V /\ m + 1 \in 1..n
      OBVIOUS
    <2>3. step[m + 1][f[m]] \in V
      BY <2>2
    <2>4. \A k \in 0..(m + 1) : k <= m => k \in 0..m
      OBVIOUS
    <2>5. /\ g \in [0..(m + 1) -> V]
          /\ g[m + 1] = step[m + 1][f[m]]
          /\ \A k \in 0..m : g[k] = f[k]
      <3>1. \A k \in 0..(m + 1) : (IF k <= m THEN f[k] ELSE step[m + 1][f[m]]) \in V
        BY <2>3, <2>4
      <3>2. m + 1 \in 0..(m + 1) /\ ~(m + 1 <= m) /\ \A k \in 0..m : k <= m /\ k \in 0..(m + 1)
        OBVIOUS
      <3> QED
        BY <3>1, <3>2
    <2> HIDE DEF g
    <2>6. \A k \in 1..(m + 1) : g[k] = step[k][g[k - 1]]
      <3> TAKE k \in 1..(m + 1)
      <3>1. CASE k = m + 1
        <4>1. k - 1 = m /\ m \in 0..m
          BY <3>1
        <4> QED
          BY <2>5, <3>1, <4>1
      <3>2. CASE k # m + 1
        <4>1. k \in 1..m /\ k \in 0..m /\ k - 1 \in 0..m
          BY <3>2
        <4> QED
          BY <2>1, <2>5, <4>1
      <3> QED
        BY <3>1, <3>2
    <2> QED
      <3>1. 0 \in 0..m
        OBVIOUS
      <3>2. g[0] = base
        BY <2>1, <2>5, <3>1
      <3> QED
        BY <2>5, <2>6, <3>2
  <1>3. S \in SUBSET (0..n) /\ 0 \in S /\ \A k \in 0..(n - 1) : k \in S => k + 1 \in S
    <2>1. \A k \in 0..(n - 1) : k + 1 \in 0..n
      OBVIOUS
    <2> HIDE DEF Good
    <2> QED
      BY <1>1, <1>2, <2>1
  <1> HIDE DEF S
  <1>4. n \in S
    BY <1>3, UpTo
  <1> QED
    BY <1>4 DEF S, IsIteration

-----------------------------------------------------------------------------
(* Concatenation and FlattenSeq                                            *)

\* The sequence whole is x and then y.
IsConcat(whole, x, y) ==
    /\ Len(whole) = Len(x) + Len(y)
    /\ \A i \in 1..Len(x) : whole[i] = x[i]
    /\ \A j \in 1..Len(y) :
         Len(x) + j \in 1..(Len(x) + Len(y)) /\ whole[Len(x) + j] = y[j]

LEMMA ConcatAt ==
    ASSUME NEW T, NEW x \in Seq(T), NEW y \in Seq(T)
    PROVE  x \o y \in Seq(T) /\ IsConcat(x \o y, x, y)
  BY DEF IsConcat

\* Any function that concatenates one sequence after the other gives FlattenSeq.
LEMMA FlattenIs ==
    ASSUME NEW T, NEW ss \in Seq(Seq(T)), NEW f \in [0..Len(ss) -> Seq(T)],
           f[0] = <<>>,
           \A k \in 1..Len(ss) : f[k] = f[k - 1] \o ss[k]
    PROVE  FlattenSeq(ss) = f[Len(ss)]
  <1> DEFINE n == Len(ss)
             Eqn(g) == g = [i \in 1..n |-> IF i = 1 THEN ss[i] ELSE g[i - 1] \o ss[i]]
             F == CHOOSE g : Eqn(g)
  <1>1. n \in Nat /\ \A k \in 1..n : ss[k] \in Seq(T)
    OBVIOUS
  <1>2. FlattenSeq(ss) = IF n = 0 THEN ss ELSE F[n]
    BY DEF FlattenSeq
  <1>3. CASE n = 0
    BY <1>2, <1>3
  <1>4. CASE n # 0
    <2> DEFINE h == [i \in 1..n |-> f[i]]
    <2>1. Eqn(h)
      <3>1. ASSUME NEW i \in 1..n
            PROVE  h[i] = IF i = 1 THEN ss[i] ELSE h[i - 1] \o ss[i]
        <4>1. CASE i = 1
          <5>1. 1 \in 1..n /\ 1 - 1 = 0
            BY <1>1, <1>4
          <5>2. f[1] = <<>> \o ss[1] /\ ss[1] \in Seq(T)
            BY <1>1, <5>1
          <5>3. f[1] = ss[1]
            BY <5>2
          <5> QED
            BY <4>1, <5>1, <5>3
        <4>2. CASE i # 1
          <5>1. i - 1 \in 1..n
            BY <1>1, <4>2
          <5> QED
            BY <4>2, <5>1
        <4> QED
          BY <4>1, <4>2
      <3> QED
        BY <3>1
    <2>2. Eqn(F)
      BY <2>1
    <2>3. \A i \in 1..n : F[i] = IF i = 1 THEN ss[i] ELSE F[i - 1] \o ss[i]
      BY <2>2
    <2> HIDE DEF F
    <2> DEFINE S == {k \in 0..n : k = 0 \/ F[k] = f[k]}
    <2>4. ASSUME NEW k \in 0..(n - 1), k \in S
          PROVE  F[k + 1] = f[k + 1]
      <3>0. k + 1 \in 1..n /\ (k + 1) - 1 = k
        BY <1>1
      <3>1. f[k + 1] = f[k] \o ss[k + 1]
        BY <3>0
      <3>2. CASE k = 0
        <4>1. k + 1 = 1
          BY <3>2
        <4>2. F[1] = ss[1] /\ ss[1] \in Seq(T)
          BY <1>1, <2>3, <3>0, <4>1
        <4>3. f[1] = <<>> \o ss[1]
          BY <3>1, <3>2, <4>1
        <4>4. f[1] = ss[1]
          BY <4>2, <4>3
        <4> QED
          BY <4>1, <4>2, <4>4
      <3>3. CASE k # 0
        <4>1. F[k + 1] = F[(k + 1) - 1] \o ss[k + 1]
          <5>1. k + 1 # 1
            BY <3>3
          <5> QED
            BY <2>3, <3>0, <5>1
        <4> QED
          BY <2>4, <3>0, <3>1, <3>3, <4>1
      <3> QED
        BY <3>2, <3>3
    <2>5. S \in SUBSET (0..n) /\ 0 \in S /\ \A k \in 0..(n - 1) : k \in S => k + 1 \in S
      BY <1>1, <2>4
    <2> HIDE DEF S
    <2>6. n \in S
      BY <1>1, <2>5, UpTo
    <2> QED
      BY <1>2, <1>4, <2>6 DEF S
  <1> QED
    BY <1>3, <1>4

LEMMA FlattenEmpty == FlattenSeq(<<>>) = <<>>
  BY DEF FlattenSeq

LEMMA FlattenAppend ==
    ASSUME NEW T, NEW ss \in Seq(Seq(T)), NEW s \in Seq(T)
    PROVE  /\ FlattenSeq(ss) \in Seq(T)
           /\ FlattenSeq(Append(ss, s)) = FlattenSeq(ss) \o s
  <1> DEFINE n == Len(ss)
             longer == Append(ss, s)
             step == [k \in 1..(n + 1) |-> [x \in Seq(T) |-> x \o longer[k]]]
  <1>1. /\ n \in Nat /\ n + 1 \in Nat /\ longer \in Seq(Seq(T)) /\ Len(longer) = n + 1
        /\ \A k \in 1..n : longer[k] = ss[k]
        /\ longer[n + 1] = s
    OBVIOUS
  <1> HIDE DEF longer
  <1>2. \A k \in 1..(n + 1) : longer[k] \in Seq(T)
    BY <1>1
  <1>3. step \in [1..(n + 1) -> [Seq(T) -> Seq(T)]]
    BY <1>2
  <1>4. \A x \in Seq(T), k \in 1..(n + 1) : step[k][x] = x \o longer[k]
    OBVIOUS
  <1> HIDE DEF step
  <1>5. PICK f \in [0..(n + 1) -> Seq(T)] :
          /\ f[0] = <<>>
          /\ \A k \in 1..(n + 1) : f[k] = step[k][f[k - 1]]
    <2>1. <<>> \in Seq(T)
      OBVIOUS
    <2> DEFINE V == Seq(T)
               m == n + 1
    <2>2. m \in Nat /\ <<>> \in V /\ step \in [1..m -> [V -> V]]
      BY <1>1, <1>3, <2>1
    <2> HIDE DEF V, m
    <2>3. \E f : IsIteration(f, m, V, <<>>, step)
      BY <2>2, Iterates
    <2> QED
      BY <2>3 DEF V, m, IsIteration
  <1>6. \A k \in 1..(n + 1) : f[k] = f[k - 1] \o longer[k]
    <2> TAKE k \in 1..(n + 1)
    <2>1. k - 1 \in 0..(n + 1)
      BY <1>1
    <2> QED
      BY <1>4, <1>5, <2>1
  <1>7. FlattenSeq(longer) = f[n + 1]
    <2>1. f \in [0..Len(longer) -> Seq(T)] /\ \A k \in 1..Len(longer) : f[k] = f[k - 1] \o longer[k]
      BY <1>1, <1>5, <1>6
    <2>2. FlattenSeq(longer) = f[Len(longer)]
      BY <1>1, <1>5, <2>1, FlattenIs
    <2> QED
      BY <1>1, <2>2
  <1>8. FlattenSeq(ss) = f[n]
    <2> DEFINE g == [k \in 0..n |-> f[k]]
    <2>0. 0 \in 0..n /\ n \in 0..n /\ \A k \in 0..n : k \in 0..(n + 1)
      BY <1>1
    <2>1. g \in [0..n -> Seq(T)] /\ g[0] = <<>> /\ g[n] = f[n]
      <3>1. \A k \in 0..n : f[k] \in Seq(T)
        BY <1>5, <2>0
      <3> QED
        BY <1>5, <2>0, <3>1
    <2>2. \A k \in 1..n : g[k] = g[k - 1] \o ss[k]
      <3> TAKE k \in 1..n
      <3>1. k \in 0..n /\ k - 1 \in 0..n /\ k \in 1..(n + 1)
        BY <1>1
      <3> QED
        BY <1>1, <1>6, <3>1
    <2> HIDE DEF g
    <2> QED
      BY <2>1, <2>2, FlattenIs
  <1>9. n \in 0..(n + 1) /\ n + 1 \in 1..(n + 1) /\ (n + 1) - 1 = n
    BY <1>1
  <1> QED
    BY <1>1, <1>5, <1>6, <1>7, <1>8, <1>9 DEF longer

\* For each k the elements of the first k sequences.
AreCounted(ss, before) ==
    /\ before \in [0..Len(ss) -> Nat]
    /\ before[0] = 0
    /\ \A k \in 1..Len(ss) : before[k] = before[k - 1] + Len(ss[k])

\* The sequences lie one behind the other in the sequence whole.
LieIn(whole, ss, before) ==
    /\ Len(whole) = before[Len(ss)]
    /\ \A k \in 1..Len(ss) : \A j \in 1..Len(ss[k]) :
         /\ before[k - 1] + j \in 1..before[Len(ss)]
         /\ whole[before[k - 1] + j] = ss[k][j]

\* Where an element of one of the sequences stands in FlattenSeq.
LEMMA FlattenAt ==
    ASSUME NEW T, NEW ss \in Seq(Seq(T)), NEW before, AreCounted(ss, before)
    PROVE  FlattenSeq(ss) \in Seq(T) /\ LieIn(FlattenSeq(ss), ss, before)
  <1>0. /\ before \in [0..Len(ss) -> Nat]
        /\ before[0] = 0
        /\ \A k \in 1..Len(ss) : before[k] = before[k - 1] + Len(ss[k])
    BY DEF AreCounted
  <1> DEFINE n == Len(ss)
             V == Seq(T)
             step == [k \in 1..n |-> [x \in V |-> x \o ss[k]]]
  <1>1. n \in Nat /\ \A k \in 1..n : ss[k] \in V
    OBVIOUS
  <1>2. step \in [1..n -> [V -> V]] /\ <<>> \in V
    BY <1>1
  <1>3. \A x \in V, k \in 1..n : step[k][x] = x \o ss[k]
    OBVIOUS
  <1> HIDE DEF step, V
  <1>4. PICK f : IsIteration(f, n, V, <<>>, step)
    <2> HIDE DEF n
    <2> QED
      BY <1>1, <1>2, Iterates
  <1>5. /\ f \in [0..n -> V]
        /\ f[0] = <<>>
        /\ \A k \in 1..n : f[k] = f[k - 1] \o ss[k]
    <2>1. \A k \in 1..n : k - 1 \in 0..n
      BY <1>1
    <2> QED
      BY <1>3, <1>4, <2>1 DEF IsIteration
  <1>6. FlattenSeq(ss) = f[n]
    BY <1>5, FlattenIs DEF V
  <1> DEFINE At(m) == /\ Len(f[m]) = before[m]
                      /\ \A k \in 1..m : \A j \in 1..Len(ss[k]) :
                            /\ before[k - 1] + j \in 1..before[m]
                            /\ f[m][before[k - 1] + j] = ss[k][j]
             S == {m \in 0..n : At(m)}
  <1>7. At(0)
    BY <1>0, <1>5
  <1>8. ASSUME NEW m \in 0..(n - 1), At(m)
        PROVE  At(m + 1)
    <2>1. /\ m + 1 \in 1..n /\ (m + 1) - 1 = m /\ m \in 0..n /\ m + 1 \in 0..n
      BY <1>1
    <2>2. /\ f[m + 1] = f[m] \o ss[m + 1]
          /\ before[m + 1] = before[m] + Len(ss[m + 1])
          /\ f[m] \in Seq(T) /\ ss[m + 1] \in Seq(T)
          /\ before[m] \in Nat /\ Len(f[m]) = before[m]
      BY <1>0, <1>1, <1>5, <1>8, <2>1 DEF V
    <2>3. /\ Len(f[m + 1]) = before[m + 1]
          /\ \A i \in 1..before[m] : f[m + 1][i] = f[m][i]
          /\ \A j \in 1..Len(ss[m + 1]) :
                before[m] + j \in 1..before[m + 1] /\ f[m + 1][before[m] + j] = ss[m + 1][j]
      <3>2. PICK x \in Seq(T), y \in Seq(T) : x = f[m] /\ y = ss[m + 1]
        BY <2>2
      <3>3. f[m + 1] = x \o y /\ Len(x) = before[m] /\ Len(x) + Len(y) = before[m + 1]
        BY <2>2, <3>2
      <3>4. /\ Len(x \o y) = Len(x) + Len(y)
            /\ \A i \in 1..Len(x) : (x \o y)[i] = x[i]
            /\ \A j \in 1..Len(y) :
                Len(x) + j \in 1..(Len(x) + Len(y)) /\ (x \o y)[Len(x) + j] = y[j]
        BY ConcatAt DEF IsConcat
      <3>5. ASSUME NEW j \in 1..Len(ss[m + 1])
            PROVE  before[m] + j \in 1..before[m + 1] /\ f[m + 1][before[m] + j] = ss[m + 1][j]
        <4>1. j \in 1..Len(y)
          BY <3>2
        <4>2. before[m] + j = Len(x) + j
          BY <3>3
        <4> QED
          BY <3>2, <3>3, <3>4, <4>1, <4>2
      <3>6. Len(f[m + 1]) = before[m + 1]
        BY <3>3, <3>4
      <3>7. \A i \in 1..before[m] : f[m + 1][i] = f[m][i]
        BY <3>2, <3>3, <3>4
      <3> QED
        BY <3>5, <3>6, <3>7
    <2>4. ASSUME NEW k \in 1..(m + 1), NEW j \in 1..Len(ss[k])
          PROVE  /\ before[k - 1] + j \in 1..before[m + 1]
                 /\ f[m + 1][before[k - 1] + j] = ss[k][j]
      <3>1. CASE k = m + 1
        <4>1. k - 1 = m /\ j \in 1..Len(ss[m + 1]) /\ ss[k] = ss[m + 1] /\ before[k - 1] = before[m]
          BY <2>1, <3>1
        <4>2. before[m] + j \in 1..before[m + 1] /\ f[m + 1][before[m] + j] = ss[m + 1][j]
          BY <2>3, <4>1
        <4> QED
          BY <4>1, <4>2
      <3>2. CASE k # m + 1
        <4>1. k \in 1..m
          BY <3>2
        <4>2. /\ before[k - 1] + j \in 1..before[m]
              /\ f[m][before[k - 1] + j] = ss[k][j]
          BY <1>8, <4>1
        <4>3. before[k - 1] + j \in 1..before[m + 1]
          <5> DEFINE x == before[k - 1] + j
                     y == before[m]
                     z == before[m + 1]
          <5>1. x \in 1..y /\ y \in Nat /\ z = y + Len(ss[m + 1]) /\ Len(ss[m + 1]) \in Nat
            BY <2>2, <4>2
          <5> HIDE DEF x, y, z
          <5>2. x \in 1..z
            BY <5>1
          <5> QED
            BY <5>2 DEF x, z
        <4> QED
          BY <2>3, <4>2, <4>3
      <3> QED
        BY <3>1, <3>2
    <2> QED
      BY <2>3, <2>4
  <1>9. S \in SUBSET (0..n) /\ 0 \in S /\ \A k \in 0..(n - 1) : k \in S => k + 1 \in S
    <2>1. \A k \in 0..(n - 1) : k + 1 \in 0..n
      BY <1>1
    <2> HIDE DEF At, n
    <2> QED
      BY <1>1, <1>7, <1>8, <2>1
  <1> HIDE DEF S
  <1>10. At(n)
    <2>1. n \in S
      BY <1>1, <1>9, UpTo
    <2> QED
      BY <2>1 DEF S
  <1>11. f[n] \in Seq(T)
    BY <1>1, <1>5 DEF V
  <1> QED
    BY <1>6, <1>10, <1>11 DEF LieIn

\* The recursive definition of the sums of the first naturals of a sequence.
IsSum(f, n, size) ==
    f = [k \in 0..n |-> IF k = 0 THEN 0 ELSE f[k - 1] + size[k]]

\* There is a function so defined, and it grows with every summand.
LEMMA Sums ==
    ASSUME NEW n \in Nat, NEW size \in [1..n -> Nat]
    PROVE  /\ \E f : IsSum(f, n, size)
           /\ \A f : IsSum(f, n, size) =>
                /\ f \in [0..n -> Nat]
                /\ f[0] = 0
                /\ \A k \in 1..n : f[k] = f[k - 1] + size[k]
  <1> DEFINE step == [k \in 1..n |-> [x \in Nat |-> x + size[k]]]
  <1>1. step \in [1..n -> [Nat -> Nat]]
    OBVIOUS
  <1>2. \A x \in Nat, k \in 1..n : step[k][x] = x + size[k]
    OBVIOUS
  <1> HIDE DEF step
  <1>3. PICK g : IsIteration(g, n, Nat, 0, step)
    BY <1>1, Iterates
  <1>4. /\ g \in [0..n -> Nat] /\ g[0] = 0
        /\ \A k \in 1..n : g[k] = g[k - 1] + size[k]
    <2>1. \A k \in 1..n : k - 1 \in 0..n
      OBVIOUS
    <2> QED
      BY <1>2, <1>3, <2>1 DEF IsIteration
  <1>5. IsSum(g, n, size)
    <2>1. \A k \in 0..n : g[k] = IF k = 0 THEN 0 ELSE g[k - 1] + size[k]
      BY <1>4
    <2> QED
      BY <1>4, <2>1 DEF IsSum
  <1>6. ASSUME NEW f, IsSum(f, n, size)
        PROVE  f = g
    <2>1. \A k \in 0..n : f[k] = IF k = 0 THEN 0 ELSE f[k - 1] + size[k]
      BY <1>6 DEF IsSum
    <2>2. f = [k \in 0..n |-> f[k]] /\ f[0] = 0
      BY <1>6, <2>1 DEF IsSum
    <2> DEFINE S == {k \in 0..n : f[k] = g[k]}
    <2>3. \A k \in 0..(n - 1) : k \in S => k + 1 \in S
      <3> TAKE k \in 0..(n - 1)
      <3>1. k + 1 \in 1..n /\ k + 1 \in 0..n /\ k + 1 # 0 /\ (k + 1) - 1 = k
        OBVIOUS
      <3>2. f[k + 1] = f[k] + size[k + 1] /\ g[k + 1] = g[k] + size[k + 1]
        BY <1>4, <2>1, <3>1
      <3> QED
        BY <3>1, <3>2
    <2>4. S \in SUBSET (0..n) /\ 0 \in S
      BY <1>4, <2>2
    <2> HIDE DEF S
    <2>5. S = 0..n
      BY <2>3, <2>4, UpTo
    <2>6. \A k \in 0..n : f[k] = g[k]
      BY <2>5 DEF S
    <2> QED
      BY <1>4, <2>2, <2>6
  <1> QED
    BY <1>4, <1>5, <1>6

\* A list is made by appending.
LEMMA ListOf2 ==
    ASSUME NEW a, NEW b
    PROVE  Append(<<a>>, b) = <<a, b>>
  <1> DEFINE S == {a, b}
             s == Append(<<a>>, b)
             l == <<a, b>>
  <1>1. s \in Seq(S) /\ Len(s) = 2 /\ s[1] = a /\ s[2] = b
    OBVIOUS
  <1>2. l \in Seq(S) /\ Len(l) = 2 /\ l[1] = a /\ l[2] = b
    OBVIOUS
  <1> HIDE DEF s, l, S
  <1>3. \A i \in 1..2 : s[i] = l[i]
    BY <1>1, <1>2
  <1>4. s = l
    BY <1>1, <1>2, <1>3, SeqEqual
  <1> QED
    BY <1>4 DEF s, l

\* The same with three.
LEMMA ListOf3 ==
    ASSUME NEW a, NEW b, NEW c
    PROVE  Append(<<a, b>>, c) = <<a, b, c>>
  <1> DEFINE S == {a, b, c}
             s == Append(<<a, b>>, c)
             l == <<a, b, c>>
  <1>1. s \in Seq(S) /\ Len(s) = 3 /\ s[1] = a /\ s[2] = b /\ s[3] = c
    OBVIOUS
  <1>2. l \in Seq(S) /\ Len(l) = 3 /\ l[1] = a /\ l[2] = b /\ l[3] = c
    OBVIOUS
  <1> HIDE DEF s, l, S
  <1>3. \A i \in 1..3 : s[i] = l[i]
    BY <1>1, <1>2
  <1>4. s = l
    BY <1>1, <1>2, <1>3, SeqEqual
  <1> QED
    BY <1>4 DEF s, l

\* The same with four.
LEMMA ListOf4 ==
    ASSUME NEW a, NEW b, NEW c, NEW d
    PROVE  Append(<<a, b, c>>, d) = <<a, b, c, d>>
  <1> DEFINE S == {a, b, c, d}
             s == Append(<<a, b, c>>, d)
             l == <<a, b, c, d>>
  <1>1. s \in Seq(S) /\ Len(s) = 4 /\ s[1] = a /\ s[2] = b /\ s[3] = c /\ s[4] = d
    OBVIOUS
  <1>2. l \in Seq(S) /\ Len(l) = 4 /\ l[1] = a /\ l[2] = b /\ l[3] = c /\ l[4] = d
    OBVIOUS
  <1> HIDE DEF s, l, S
  <1>3. \A i \in 1..4 : s[i] = l[i]
    BY <1>1, <1>2
  <1>4. s = l
    BY <1>1, <1>2, <1>3, SeqEqual
  <1> QED
    BY <1>4 DEF s, l

\* The same with five.
LEMMA ListOf5 ==
    ASSUME NEW a, NEW b, NEW c, NEW d, NEW e
    PROVE  Append(<<a, b, c, d>>, e) = <<a, b, c, d, e>>
  <1> DEFINE S == {a, b, c, d, e}
             s == Append(<<a, b, c, d>>, e)
             l == <<a, b, c, d, e>>
  <1>1. s \in Seq(S) /\ Len(s) = 5 /\ s[1] = a /\ s[2] = b /\ s[3] = c /\ s[4] = d /\ s[5] = e
    OBVIOUS
  <1>2. l \in Seq(S) /\ Len(l) = 5 /\ l[1] = a /\ l[2] = b /\ l[3] = c /\ l[4] = d /\ l[5] = e
    OBVIOUS
  <1> HIDE DEF s, l, S
  <1>3. \A i \in 1..5 : s[i] = l[i]
    BY <1>1, <1>2
  <1>4. s = l
    BY <1>1, <1>2, <1>3, SeqEqual
  <1> QED
    BY <1>4 DEF s, l

\* The same with six.
LEMMA ListOf6 ==
    ASSUME NEW a, NEW b, NEW c, NEW d, NEW e, NEW f
    PROVE  Append(<<a, b, c, d, e>>, f) = <<a, b, c, d, e, f>>
  <1> DEFINE S == {a, b, c, d, e, f}
             s == Append(<<a, b, c, d, e>>, f)
             l == <<a, b, c, d, e, f>>
  <1>1. s \in Seq(S) /\ Len(s) = 6 /\ s[1] = a /\ s[2] = b /\ s[3] = c /\ s[4] = d /\ s[5] = e /\ s[6] = f
    OBVIOUS
  <1>2. l \in Seq(S) /\ Len(l) = 6 /\ l[1] = a /\ l[2] = b /\ l[3] = c /\ l[4] = d /\ l[5] = e /\ l[6] = f
    OBVIOUS
  <1> HIDE DEF s, l, S
  <1>3. \A i \in 1..6 : s[i] = l[i]
    BY <1>1, <1>2
  <1>4. s = l
    BY <1>1, <1>2, <1>3, SeqEqual
  <1> QED
    BY <1>4 DEF s, l

\* The next element of a sequence, and the next two.
LEMMA NextOnes ==
    ASSUME NEW S, NEW w \in Seq(S), NEW p \in 1..Len(w)
    PROVE  /\ SubSeq(w, p, p) = <<w[p]>>
           /\ p < Len(w) => SubSeq(w, p, p + 1) = <<w[p], w[p + 1]>>
           /\ SubSeq(w, p, p + 1)[1] = w[p]
  <1>0. w[p] \in S
    OBVIOUS
  <1>1. SubSeq(w, p, p) = <<w[p]>>
    <2>1. /\ SubSeq(w, p, p) \in Seq(S) /\ Len(SubSeq(w, p, p)) = 1
          /\ SubSeq(w, p, p)[1] = w[p]
      OBVIOUS
    <2>2. <<w[p]>> \in Seq(S) /\ Len(<<w[p]>>) = 1 /\ <<w[p]>>[1] = w[p]
      BY <1>0
    <2>3. \A i \in 1..1 : SubSeq(w, p, p)[i] = <<w[p]>>[i]
      BY <2>1, <2>2
    <2> QED
      BY <2>1, <2>2, <2>3, SeqEqual
  <1>2. ASSUME p < Len(w) PROVE SubSeq(w, p, p + 1) = <<w[p], w[p + 1]>>
    <2>1. /\ SubSeq(w, p, p + 1) \in Seq(S) /\ Len(SubSeq(w, p, p + 1)) = 2
          /\ SubSeq(w, p, p + 1)[1] = w[p] /\ SubSeq(w, p, p + 1)[2] = w[p + 1]
      <3> DEFINE o == p + 1
                 u == SubSeq(w, p, o)
      <3>1. p \in Int /\ o \in Int /\ p <= o /\ o - p + 1 = 2
        OBVIOUS
      <3>2. \A i \in p..o : w[i] \in S
        BY <1>2
      <3> HIDE DEF o
      <3>3. /\ u \in Seq(S) /\ Len(u) = IF p <= o THEN o - p + 1 ELSE 0
            /\ \A i \in 1..(o - p + 1) : u[i] = w[p + i - 1]
        BY <3>1, <3>2, SubSeqProperties
      <3> HIDE DEF u
      <3>4. Len(u) = 2 /\ \A i \in 1..2 : u[i] = w[p + i - 1]
        BY <3>1, <3>3
      <3>5. 1 \in 1..2 /\ 2 \in 1..2 /\ p + 1 - 1 = p /\ p + 2 - 1 = p + 1
        OBVIOUS
      <3>6. u[1] = w[p] /\ u[2] = w[p + 1]
        BY <3>4, <3>5
      <3> QED
        BY <3>3, <3>4, <3>6 DEF u, o
    <2> DEFINE two == <<w[p], w[p + 1]>>
    <2>2. two \in Seq(S) /\ Len(two) = 2 /\ two[1] = w[p] /\ two[2] = w[p + 1]
      BY <1>0, <1>2
    <2> HIDE DEF two
    <2>3. \A i \in 1..2 : SubSeq(w, p, p + 1)[i] = two[i]
      BY <2>1, <2>2
    <2> QED
      BY <2>1, <2>2, <2>3, SeqEqual DEF two
  <1>3. SubSeq(w, p, p + 1)[1] = w[p]
    OBVIOUS
  <1> QED
    BY <1>1, <1>2, <1>3
=============================================================================
