----------------------------- MODULE FoldTheorems -----------------------------
(***************************************************************************)
(* What FoldLeft computes, for any operation that keeps to a set: the last *)
(* of the values that start with the base and go on with an element at a   *)
(* time.  A module instantiates this one for each of its folds; what it    *)
(* wants to know of the result follows along those values, by induction    *)
(* over the numbers.  The induction is stated for a set of numbers, since  *)
(* a theorem about all predicates has no instances for the provers.        *)
(***************************************************************************)
EXTENDS Integers, SequencesExt, WellFoundedInduction, TLAPS

CONSTANT Op(_, _)

-----------------------------------------------------------------------------
\* Induction over the numbers.
THEOREM NatSetInduction ==
  ASSUME NEW A \in SUBSET Nat, 0 \in A, \A n \in A : n + 1 \in A
  PROVE  \A n \in Nat : n \in A
<1> SUFFICES ASSUME Nat \ A # {} PROVE FALSE
  OBVIOUS
<1>1. PICK n \in Nat \ A : \A m \in Nat \ A : ~ (<<m, n>> \in OpToRel(<, Nat))
  BY NatLessThanWellFounded, WFMin
<1>2. \A m \in Nat \ A : ~ (m < n)
  BY <1>1 DEF OpToRel
<1>3. n # 0 /\ n - 1 \in Nat /\ n - 1 < n
  OBVIOUS
<1>4. n - 1 \in A
  BY <1>2, <1>3
<1> QED
  BY <1>4

\* The same up to a number.
THEOREM UpTo ==
  ASSUME NEW k \in Nat, NEW A, 0 \in A, \A n \in 0 .. k - 1 : n \in A => n + 1 \in A
  PROVE  \A n \in 0 .. k : n \in A
<1> DEFINE B == {n \in Nat : n <= k => n \in A}
<1>1. B \in SUBSET Nat /\ 0 \in B /\ \A n \in B : n + 1 \in B
  OBVIOUS
<1> HIDE DEF B
<1>2. \A n \in Nat : n \in B
  BY <1>1, NatSetInduction
<1> USE DEF B
<1> QED
  BY <1>2

\* Numbers with a bound have a largest or a smallest one among them.
THEOREM Largest ==
  ASSUME NEW S \in SUBSET Int, S # {}, NEW b \in Int, \A y \in S : y <= b
  PROVE  \E x \in S : \A y \in S : y <= x
<1> DEFINE T == {b - y : y \in S}
<1>1. T \in SUBSET Nat
  OBVIOUS
<1>2. T # {}
  OBVIOUS
<1> HIDE DEF T
<1>3. PICK n \in T : \A m \in T : ~ (<<m, n>> \in OpToRel(<, Nat))
  BY <1>1, <1>2, NatLessThanWellFounded, WFMin
<1>4. \A m \in T : ~ (m < n)
  BY <1>1, <1>3 DEF OpToRel
<1>5. \A m \in T : n <= m
  BY <1>1, <1>4
<1> USE DEF T
<1>6. PICK x \in S : n = b - x
  BY <1>3
<1>7. \A y \in S : x >= y
  BY <1>5, <1>6
<1> QED
  BY <1>7

\* The smallest one, likewise.
THEOREM Smallest ==
  ASSUME NEW S \in SUBSET Int, S # {}, NEW b \in Int, \A y \in S : b <= y
  PROVE  \E x \in S : \A y \in S : x <= y
<1> DEFINE T == {-y : y \in S}
<1>1. T \in SUBSET Int /\ -b \in Int
  OBVIOUS
<1>2. T # {}
  OBVIOUS
<1>3. \A y \in T : y <= -b
  OBVIOUS
<1> HIDE DEF T
<1>4. PICK z \in T : \A y \in T : y <= z
  BY <1>1, <1>2, <1>3, Largest
<1> USE DEF T
<1>5. PICK x \in S : z = -x
  BY <1>4
<1>6. \A y \in S : x <= y
  BY <1>4, <1>5
<1> QED
  BY <1>6

\* Max chooses the largest.
LEMMA MaxUnique ==
  ASSUME NEW S \in SUBSET Int, NEW x \in S, \A y \in S : y <= x PROVE Max(S) = x
<1>1. \A y \in S : x >= y
  OBVIOUS
<1>2. \A z \in S : (\A y \in S : z >= y) => z = x
  BY <1>1
<1> QED
  BY <1>1, <1>2 DEF Max

LEMMA MaxUpTo ==
  ASSUME NEW k \in Nat, NEW S \in SUBSET (1 .. k), S # {}
  PROVE  Max(S) \in S /\ \A y \in S : y <= Max(S)
<1>1. S \in SUBSET Int /\ k \in Int /\ \A y \in S : y <= k
  OBVIOUS
<1>2. PICK x \in S : \A y \in S : y <= x
  BY <1>1, Largest
<1>3. Max(S) = x
  BY <1>1, <1>2, MaxUnique
<1> QED
  BY <1>2, <1>3

-----------------------------------------------------------------------------
\* The function behind the fold exists: it is built up from its values on the
\* subsets of 1 .. k.
Built(it, n, base, s) ==
  \A S \in SUBSET (1 .. n) :
    it[S] = IF S = {} THEN base ELSE Op(it[S \ {Max(S)}], s[Max(S)])

LEMMA FoldExists ==
  ASSUME NEW n \in Nat, NEW A, NEW B, NEW base \in A, NEW s \in [1 .. n -> B],
         \A a \in A, b \in B : Op(a, b) \in A
  PROVE  \E it \in [SUBSET (1 .. n) -> A] : Built(it, n, base, s)
<1> USE DEF Built
<1> DEFINE Q(k, it) == Built(it, k, base, s)
           C == {k \in 0 .. n : \E it \in [SUBSET (1 .. k) -> A] : Q(k, it)}
<1>1. 0 \in C
  <2>1. \A S \in SUBSET (1 .. 0) : S = {}
    <3>1. 1 .. 0 = {}
      OBVIOUS
    <3> QED
      BY <3>1
  <2>2. [S \in SUBSET (1 .. 0) |-> base] \in [SUBSET (1 .. 0) -> A]
    OBVIOUS
  <2>3. Q(0, [S \in SUBSET (1 .. 0) |-> base])
    BY <2>1
  <2> HIDE DEF Q
  <2> QED
    BY <2>2, <2>3
<1>2. ASSUME NEW k \in 0 .. n - 1, k \in C PROVE k + 1 \in C
  <2>1. PICK it \in [SUBSET (1 .. k) -> A] : Q(k, it)
    BY <1>2
  <2> DEFINE jt == [S \in SUBSET (1 .. k + 1) |->
                      IF k + 1 \in S THEN Op(it[S \ {k + 1}], s[k + 1]) ELSE it[S]]
  <2>2. \A S \in SUBSET (1 .. k + 1) : S \ {k + 1} \in SUBSET (1 .. k)
    OBVIOUS
  <2>3. jt \in [SUBSET (1 .. k + 1) -> A]
    <3>1. s[k + 1] \in B
      OBVIOUS
    <3>2. ASSUME NEW S \in SUBSET (1 .. k + 1) PROVE Op(it[S \ {k + 1}], s[k + 1]) \in A
      <4>1. it[S \ {k + 1}] \in A
        BY <2>2
      <4> QED
        BY <3>1, <4>1
    <3>3. ASSUME NEW S \in SUBSET (1 .. k + 1), k + 1 \notin S PROVE it[S] \in A
      <4>1. S \in SUBSET (1 .. k)
        BY <3>3
      <4> QED
        BY <4>1
    <3> QED
      BY <3>2, <3>3
  <2>4. ASSUME NEW S \in SUBSET (1 .. k + 1)
        PROVE  jt[S] = IF S = {} THEN base ELSE Op(jt[S \ {Max(S)}], s[Max(S)])
    <3>1. CASE k + 1 \in S
      <4>1. Max(S) = k + 1
        <5>1. S \in SUBSET Int /\ \A y \in S : y <= k + 1
          OBVIOUS
        <5> QED
          BY <3>1, <5>1, MaxUnique
      <4>2. S \ {k + 1} \in SUBSET (1 .. k + 1) /\ k + 1 \notin S \ {k + 1}
        OBVIOUS
      <4>3. jt[S \ {k + 1}] = it[S \ {k + 1}]
        BY <4>2
      <4>4. jt[S] = Op(it[S \ {k + 1}], s[k + 1])
        BY <3>1
      <4> QED
        BY <3>1, <4>1, <4>3, <4>4
    <3>2. CASE k + 1 \notin S
      <4>1. S \in SUBSET (1 .. k)
        BY <3>2
      <4>2. jt[S] = it[S]
        BY <3>2
      <4>3. S \ {Max(S)} \in SUBSET (1 .. k + 1) /\ k + 1 \notin S \ {Max(S)}
        BY <3>2
      <4>4. jt[S \ {Max(S)}] = it[S \ {Max(S)}]
        BY <4>3
      <4>5. it[S] = IF S = {} THEN base ELSE Op(it[S \ {Max(S)}], s[Max(S)])
        BY <2>1, <4>1
      <4> QED
        BY <4>2, <4>4, <4>5
    <3> QED
      BY <3>1, <3>2
  <2>5. Q(k + 1, jt)
    BY <2>4
  <2> HIDE DEF jt, Q
  <2> QED
    BY <2>3, <2>5
<1> HIDE DEF C
<1>3. \A k \in 0 .. n - 1 : k \in C => k + 1 \in C
  BY <1>2
<1>4. \A k \in 0 .. n : k \in C
  BY <1>1, <1>3, UpTo
<1>5. n \in C
  BY <1>4
<1> QED
  BY <1>5 DEF C

\* The values along the sequence.
Along(f, base, s) ==
  f[0] = base /\ \A i \in 1 .. Len(s) : f[i] = Op(f[i - 1], s[i])

Folded(base, s) == FoldLeft(Op, base, s)

\* FoldLeft is the last of them.
THEOREM FoldLeftSteps ==
  ASSUME NEW A, NEW B, NEW base \in A, NEW s \in Seq(B), \A a \in A, b \in B : Op(a, b) \in A
  PROVE  \E f \in [0 .. Len(s) -> A] : Along(f, base, s) /\ Folded(base, s) = f[Len(s)]
<1> DEFINE n == Len(s)
           Q(it) == it = [S \in SUBSET DOMAIN s |->
                            IF S = {} THEN base ELSE Op(it[S \ {Max(S)}], s[Max(S)])]
           c == CHOOSE it : Q(it)
<1>1. n \in Nat /\ DOMAIN s = 1 .. n /\ s \in [1 .. n -> B]
  OBVIOUS
<1>2. PICK it \in [SUBSET (1 .. n) -> A] : Built(it, n, base, s)
  <2> HIDE DEF n
  <2> QED
    BY <1>1, FoldExists
<1>3. Q(it)
  BY <1>1, <1>2 DEF Built
<1>4. Q(c)
  BY <1>3
<1>5. Folded(base, s) = c[DOMAIN s]
  BY DEF Folded, FoldLeft, MapThenFoldSet
<1> HIDE DEF c
<1> DEFINE f == [i \in 0 .. n |-> c[1 .. i]]
<1>6. ASSUME NEW S \in SUBSET (1 .. n)
      PROVE  c[S] = IF S = {} THEN base ELSE Op(c[S \ {Max(S)}], s[Max(S)])
  BY <1>1, <1>4
<1>7. f[0] = base
  <2>1. 1 .. 0 = {} /\ {} \in SUBSET (1 .. n)
    OBVIOUS
  <2>2. f[0] = c[{}]
    BY <2>1, <1>1
  <2> QED
    BY <1>6, <2>1, <2>2
<1>8. ASSUME NEW i \in 1 .. n PROVE f[i] = Op(f[i - 1], s[i])
  <2> DEFINE S == 1 .. i
  <2>1. i \in Nat /\ n \in Nat /\ i <= n /\ 1 <= i
    BY <1>1
  <2>2. f[i] = c[S] /\ f[i - 1] = c[1 .. i - 1]
    BY <1>1
  <2> HIDE DEF f, n
  <2>3. S \in SUBSET Int /\ i \in S /\ \A y \in S : y <= i
    BY <2>1
  <2>4. S \in SUBSET (1 .. n) /\ S # {}
    <3>1. \A y \in S : y \in 1 .. n
      BY <2>1
    <3> HIDE DEF S
    <3> QED
      BY <2>3, <3>1
  <2>5. S \ {i} = 1 .. i - 1
    BY <2>1
  <2> HIDE DEF S
  <2>6. Max(S) = i
    BY <2>3, MaxUnique
  <2>7. c[S] = Op(c[S \ {i}], s[i])
    BY <1>6, <2>4, <2>6
  <2> QED
    BY <2>2, <2>5, <2>7
<1>9. f \in [0 .. n -> A]
  <2> DEFINE G == {i \in 0 .. n : f[i] \in A}
  <2>1. 0 \in G
    BY <1>1, <1>7
  <2>2. ASSUME NEW i \in 0 .. n - 1, i \in G PROVE i + 1 \in G
    <3>1. i + 1 \in 1 .. n /\ (i + 1) - 1 = i
      BY <1>1
    <3>2. f[i + 1] = Op(f[i], s[i + 1])
      BY <3>1, <1>8
    <3>3. s[i + 1] \in B
      BY <1>1, <3>1
    <3>4. f[i] \in A
      BY <2>2
    <3> HIDE DEF f
    <3>5. f[i + 1] \in A
      BY <3>2, <3>3, <3>4
    <3> QED
      BY <3>1, <3>5
  <2> HIDE DEF G, n
  <2>3. \A i \in 0 .. n - 1 : i \in G => i + 1 \in G
    BY <2>2
  <2>4. \A i \in 0 .. n : i \in G
    BY <1>1, <2>1, <2>3, UpTo
  <2> QED
    BY <2>4 DEF G
<1>10. Folded(base, s) = f[n]
  BY <1>1, <1>5
<1> HIDE DEF f
<1>11. Along(f, base, s)
  BY <1>7, <1>8 DEF Along
<1> QED
  BY <1>9, <1>10, <1>11

\* One more element is one more step.
THEOREM FoldedAppend ==
  ASSUME NEW A, NEW B, NEW base \in A, NEW s \in Seq(B), NEW e \in B,
         \A a \in A, b \in B : Op(a, b) \in A
  PROVE  /\ Folded(base, s) \in A
         /\ Folded(base, Append(s, e)) = Op(Folded(base, s), e)
<1> DEFINE n == Len(s)
           t == Append(s, e)
<1>1. n \in Nat /\ t \in Seq(B) /\ Len(t) = n + 1 /\ t[n + 1] = e /\ \A i \in 1 .. n : t[i] = s[i]
  OBVIOUS
<1> HIDE DEF t
<1>2. PICK f \in [0 .. Len(s) -> A] : Along(f, base, s) /\ Folded(base, s) = f[Len(s)]
  BY FoldLeftSteps
<1>3. PICK g \in [0 .. Len(t) -> A] : Along(g, base, t) /\ Folded(base, t) = g[Len(t)]
  BY <1>1, FoldLeftSteps
<1> DEFINE C == {i \in 0 .. n : g[i] = f[i]}
<1>4. 0 \in C
  BY <1>1, <1>2, <1>3 DEF Along
<1>5. \A i \in 0 .. n - 1 : i \in C => i + 1 \in C
  <2> SUFFICES ASSUME NEW i \in 0 .. n - 1, g[i] = f[i] PROVE g[i + 1] = f[i + 1]
    BY <1>1
  <2>1. i + 1 \in 1 .. n /\ i + 1 \in 1 .. n + 1 /\ (i + 1) - 1 = i
    BY <1>1
  <2>2. f[i + 1] = Op(f[i], s[i + 1])
    BY <1>2, <2>1 DEF Along
  <2>3. g[i + 1] = Op(g[i], t[i + 1])
    BY <1>1, <1>3, <2>1 DEF Along
  <2> QED
    BY <1>1, <2>1, <2>2, <2>3
<1>6. n \in C
  <2> HIDE DEF C, n
  <2>1. \A i \in 0 .. n : i \in C
    BY <1>1, <1>4, <1>5, UpTo
  <2> QED
    BY <1>1, <2>1
<1>7. n + 1 \in 1 .. n + 1 /\ (n + 1) - 1 = n /\ n \in 0 .. n
  BY <1>1
<1>8. g[n + 1] = Op(g[n], t[n + 1])
  BY <1>1, <1>3, <1>7 DEF Along
<1> QED
  BY <1>1, <1>2, <1>3, <1>6, <1>7, <1>8 DEF t
=============================================================================
