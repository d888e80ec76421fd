--------------------------- MODULE DataInduction ----------------------------
(***************************************************************************)
(* Induction over the data of the components: over numbers, and over the   *)
(* folds of the community modules.  The induction theorems of the library  *)
(* take an operator as a parameter; here the property to be proved is a    *)
(* set of numbers, and a number that is missing from it is refuted by the  *)
(* least one (WFMin).                                                      *)
(***************************************************************************)
EXTENDS SequencesExt, FiniteSetTheorems, SequenceTheorems, WellFoundedInduction, TLAPS

\* A set of numbers has a least one.
LEMMA LeastNumber ==
  ASSUME NEW T \in SUBSET Nat, T # {}
  PROVE  \E m \in T : \A k \in T : m <= k
<1> DEFINE U == {0..m : m \in T}
<1>1. U \subseteq FiniteSubsetsOf(Nat) /\ U # {}
  <2>1. ASSUME NEW m \in T PROVE 0..m \in FiniteSubsetsOf(Nat)
    BY FS_Interval DEF FiniteSubsetsOf
  <2> QED
    BY <2>1
<1>2. PICK x \in U : \A y \in U : ~(<<y, x>> \in StrictSubsetOrdering(Nat))
  <2> HIDE DEF U
  <2> QED
    BY <1>1, FS_StrictSubsetOrderingWellFounded, WFMin
<1>3. PICK m \in T : x = 0..m
  OBVIOUS
<1>4. ASSUME NEW k \in T PROVE m <= k
  <2>1. SUFFICES ASSUME k < m PROVE FALSE
    OBVIOUS
  <2>2. 0..k \subseteq 0..m /\ m \in 0..m /\ m \notin 0..k
    BY <2>1
  <2>3. 0..k \in SUBSET Nat /\ 0..m \in SUBSET Nat /\ 0..k # 0..m
    BY <2>2
  <2>4. <<0..k, 0..m>> \in StrictSubsetOrdering(Nat)
    BY <2>2, <2>3 DEF StrictSubsetOrdering
  <2> QED
    BY <2>4, <1>2, <1>3
<1> QED
  BY <1>4

\* A set of numbers with 0 and with the successor of each of its members holds them all.
LEMMA Induction ==
  ASSUME NEW T, 0 \in T, \A n \in Nat : n \in T => n + 1 \in T
  PROVE  Nat \subseteq T
<1> DEFINE U == Nat \ T
           L == OpToRel(<, Nat)
<1> SUFFICES ASSUME U # {} PROVE FALSE
  OBVIOUS
<1>1. PICK x \in U : \A y \in U : <<y, x>> \notin L
  <2> HIDE DEF U, L
  <2>1. IsWellFoundedOn(L, Nat)
    BY NatLessThanWellFounded DEF L
  <2>2. U \subseteq Nat
    BY DEF U
  <2> QED
    BY <2>1, <2>2, WFMin
<1>2. x \in Nat /\ x # 0 /\ x - 1 \in Nat /\ x - 1 < x
  OBVIOUS
<1>3. x - 1 \in U
  BY <1>2
<1>4. <<x - 1, x>> \in L
  BY <1>2 DEF OpToRel
<1> QED
  BY <1>1, <1>3, <1>4

\* Numbers up to a bound have a greatest one.
LEMMA Greatest ==
  ASSUME NEW n \in Nat, NEW S \in SUBSET (1..n), S # {}
  PROVE  Max(S) \in S /\ \A y \in S : y <= Max(S)
<1> DEFINE T == {k \in Nat : \A s \in SUBSET (1..k) : s # {} => \E x \in s : \A y \in s : x >= y}
<1>1. 0 \in T
  <2>1. 1..0 = {}
    OBVIOUS
  <2> QED
    BY <2>1
<1>2. ASSUME NEW k \in Nat, k \in T PROVE k + 1 \in T
  <2>1. ASSUME NEW s \in SUBSET (1..(k+1)), s # {} PROVE \E x \in s : \A y \in s : x >= y
    <3>1. CASE k + 1 \in s
      BY <3>1
    <3>2. CASE k + 1 \notin s
      <4>1. s \in SUBSET (1..k)
        BY <3>2
      <4> QED
        BY <4>1, <2>1, <1>2
    <3> QED
      BY <3>1, <3>2
  <2> QED
    BY <2>1
<1>3. Nat \subseteq T
  <2> HIDE DEF T
  <2> QED
    BY <1>1, <1>2, Induction
<1>4. \E x \in S : \A y \in S : x >= y
  BY <1>3
<1>5. Max(S) \in S /\ \A y \in S : Max(S) >= y
  BY <1>4 DEF Max
<1> QED
  BY <1>5

\* A fold over 1..n in a set X: the greatest number is folded in last.
IsFold(f, n, X, base, g) ==
  /\ f \in [SUBSET (1..n) -> X]
  /\ f[{}] = base
  /\ \A s \in SUBSET (1..n) : s # {} => f[s] = g[<<f[s \ {Max(s)}], Max(s)>>]

\* Such a fold exists, and with it the function that CHOOSE picks in the community modules.
LEMMA FoldExists ==
  ASSUME NEW n \in Nat, NEW X, NEW base \in X, NEW g \in [X \X (1..n) -> X]
  PROVE  \E f : IsFold(f, n, X, base, g)
<1> DEFINE Good(k, f) == IsFold(f, k, X, base, g)
           T == {k \in Nat : k <= n => \E f : Good(k, f)}
<1> USE DEF IsFold
<1>1. 0 \in T
  <2> DEFINE f == [s \in SUBSET (1..0) |-> base]
  <2>1. 1..0 = {}
    OBVIOUS
  <2>2. Good(0, f)
    BY <2>1
  <2> QED
    BY <2>2
<1>2. ASSUME NEW k \in Nat, k \in T PROVE k + 1 \in T
  <2> SUFFICES ASSUME k + 1 <= n PROVE \E h : Good(k + 1, h)
    <3> HIDE DEF Good
    <3> QED
      OBVIOUS
  <2>1. PICK f : Good(k, f)
    <3> HIDE DEF Good
    <3>1. k <= n
      OBVIOUS
    <3> QED
      BY <1>2, <3>1
  <2> DEFINE h == [s \in SUBSET (1..(k+1)) |->
                     IF k + 1 \in s THEN g[<<f[s \ {k + 1}], k + 1>>] ELSE f[s]]
  <2>2. ASSUME NEW s \in SUBSET (1..(k+1))
        PROVE  s \ {k + 1} \in SUBSET (1..k)
    OBVIOUS
  <2>3. h \in [SUBSET (1..(k+1)) -> X]
    <3>1. ASSUME NEW s \in SUBSET (1..(k+1)), k + 1 \in s PROVE h[s] \in X
      BY <3>1, <2>2, <2>1
    <3>2. ASSUME NEW s \in SUBSET (1..(k+1)), k + 1 \notin s PROVE h[s] \in X
      <4>1. s \in SUBSET (1..k)
        BY <3>2
      <4> QED
        BY <4>1, <3>2, <2>1
    <3> QED
      BY <3>1, <3>2
  <2>4. h[{}] = base
    BY <2>1
  <2>5. ASSUME NEW s \in SUBSET (1..(k+1)), s # {} PROVE h[s] = g[<<h[s \ {Max(s)}], Max(s)>>]
    <3>1. CASE k + 1 \in s
      <4>1. Max(s) = k + 1
        <5>1. Max(s) \in s /\ \A y \in s : y <= Max(s)
          <6>1. k + 1 \in Nat
            OBVIOUS
          <6> QED
            BY <6>1, <2>5, Greatest
        <5>2. Max(s) \in 1..(k+1)
          BY <5>1
        <5>3. k + 1 <= Max(s)
          BY <5>1, <3>1
        <5> HIDE DEF h
        <5> QED
          BY <5>2, <5>3
      <4>2. h[s \ {k + 1}] = f[s \ {k + 1}]
        <5>1. s \ {k + 1} \in SUBSET (1..(k+1)) /\ k + 1 \notin s \ {k + 1}
          OBVIOUS
        <5> QED
          BY <5>1
      <4>3. h[s] = g[<<f[s \ {k + 1}], k + 1>>]
        BY <3>1
      <4> HIDE DEF h
      <4> QED
        BY <4>1, <4>2, <4>3
    <3>2. CASE k + 1 \notin s
      <4>1. s \in SUBSET (1..k)
        BY <3>2
      <4>2. h[s \ {Max(s)}] = f[s \ {Max(s)}] /\ h[s] = f[s]
        BY <3>2
      <4> QED
        BY <4>1, <4>2, <2>1, <2>5
    <3> QED
      BY <3>1, <3>2
  <2>6. Good(k + 1, h)
    <3> HIDE DEF h
    <3> QED
      BY <2>3, <2>4, <2>5
  <2> QED
    BY <2>6
<1>3. Nat \subseteq T
  <2> HIDE DEF T
  <2> QED
    BY <1>1, <1>2, Induction
<1>4. PICK f : Good(n, f)
  <2> HIDE DEF Good
  <2>1. n \in T /\ n <= n
    BY <1>3
  <2> QED
    BY <2>1
<1> HIDE DEF IsFold
<1> QED
  BY <1>4

\* What a fold over 1..n passes through on its way, from the base to the result.
IsWay(h, n, X, base, g, end) ==
  /\ h \in [0..n -> X] /\ h[0] = base /\ h[n] = end
  /\ \A i \in 1..n : h[i] = g[<<h[i - 1], i>>]

\* A function that meets the equation of the fold where it stays in X.
Folds(it, n, X, base, g) ==
  /\ it[{}] = base
  /\ \A s \in SUBSET (1..n) : s # {} /\ it[s \ {Max(s)}] \in X =>
       it[s] = g[<<it[s \ {Max(s)}], Max(s)>>]

\* So the result of a fold is reached step by step, along values that all stay in X.
LEMMA FoldSteps ==
  ASSUME NEW n \in Nat, NEW X, NEW base \in X, NEW g \in [X \X (1..n) -> X], NEW it,
         Folds(it, n, X, base, g)
  PROVE  \E h : IsWay(h, n, X, base, g, it[1..n])
<1> DEFINE h == [i \in 0..n |-> it[1..i]]
<1> USE DEF Folds
<1>1. h[0] = base
  <2>1. 1..0 = {} /\ 0 \in 0..n
    OBVIOUS
  <2> QED
    BY <2>1
<1>2. ASSUME NEW i \in 1..n, h[i - 1] \in X PROVE h[i] = g[<<h[i - 1], i>>]
  <2>1. 1..i \in SUBSET (1..n) /\ 1..i # {} /\ i \in Nat /\ i - 1 \in 0..n /\ i \in 0..n
    OBVIOUS
  <2>2. Max(1..i) = i
    <3>1. Max(1..i) \in 1..i /\ \A y \in 1..i : y <= Max(1..i)
      BY <2>1, Greatest
    <3> QED
      BY <3>1, <2>1
  <2>3. (1..i) \ {i} = 1..(i - 1)
    BY <2>1
  <2> QED
    BY <1>2, <2>1, <2>2, <2>3
<1> DEFINE T == {k \in Nat : k <= n => h[k] \in X}
<1>3. 0 \in T
  BY <1>1
<1>4. ASSUME NEW k \in Nat, k \in T PROVE k + 1 \in T
  <2> SUFFICES ASSUME k + 1 <= n PROVE h[k + 1] \in X
    OBVIOUS
  <2>1. k + 1 \in 1..n /\ k <= n /\ (k + 1) - 1 = k
    OBVIOUS
  <2>2. h[k] \in X
    BY <1>4, <2>1
  <2>3. h[k + 1] = g[<<h[k], k + 1>>]
    <3> HIDE DEF h
    <3> QED
      BY <2>1, <2>2, <1>2
  <2> HIDE DEF h
  <2> QED
    BY <2>1, <2>2, <2>3
<1>5. Nat \subseteq T
  <2> HIDE DEF T
  <2> QED
    BY <1>3, <1>4, Induction
<1>6. \A i \in 0..n : h[i] \in X
  <2> HIDE DEF h
  <2> QED
    BY <1>5
<1>7. h \in [0..n -> X]
  <2>1. \A i \in 0..n : it[1..i] \in X
    BY <1>6
  <2> QED
    BY <2>1
<1>8. \A i \in 1..n : h[i] = g[<<h[i - 1], i>>]
  <2>1. \A i \in 1..n : i - 1 \in 0..n
    OBVIOUS
  <2> HIDE DEF h
  <2> QED
    BY <1>2, <1>6, <2>1
<1>9. it[1..n] = h[n]
  OBVIOUS
<1> HIDE DEF h
<1> QED
  BY <1>1, <1>7, <1>8, <1>9 DEF IsWay
=============================================================================
