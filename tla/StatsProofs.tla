------------------------------ MODULE StatsProofs ------------------------------
(***************************************************************************)
(* What the web client computes out of the rows of a contact, and what it  *)
(* lists a page at a time, for any log, calendar, zone and page size.      *)
(*                                                                         *)
(* The order of the chapters: sums over finite sets, the ascending order   *)
(* of a set of numbers and the stable sort, concatenation, the calendar;   *)
(* the log and the timeline's days (DaysAreListed); the sidebar's pages    *)
(* (MorePagesContinue); how spans of time are cut into slices and added up *)
(* without losing or doubling a moment; the time online as such spans, the *)
(* charts (ChartsAreExact) and the server's sums, the heatmap and the      *)
(* longest pause (SumsAreExact); last the blocks a timeline draws, fold by *)
(* fold: rows into sessions (Paired), sessions merged over short pauses    *)
(* (MergedAfter), gaps put between them, events put in their places, the   *)
(* demo's copy of it all (BlocksAreFaithful), and the rows of one day among *)
(* those of the log (SectionsAreFaithful).                                 *)
(*                                                                         *)
(* One invariant carries all of it: LogOk, the log is in order.  The blocks *)
(* also need StatesOk, what a presence row may say.  The rest is about the *)
(* operators, so most lemmas here are about data.                          *)
(***************************************************************************)
EXTENDS StatsProperties, Sidebar, FiniteSetTheorems, TLAPS

\* The folds of the pages, and the inductions that come with them.
Placing    == INSTANCE FoldTheorems WITH Op <- Place
Restarting == INSTANCE FoldTheorems WITH Op <- Restart
Applying   == INSTANCE FoldTheorems WITH Op <- Apply

LEMMA PlaceFold == \A s : SortByAt(s) = Placing!Folded(<<>>, s)
  BY Zenon DEF SortByAt, Placing!Folded, Placing!FoldLeft, FoldLeft,
     Placing!MapThenFoldSet, MapThenFoldSet, Placing!Max, Max

-----------------------------------------------------------------------------
\* A largest element is Max, a smallest is Min.
LEMMA MaxUnique ==
  ASSUME NEW S \in SUBSET Int, NEW x \in S, \A y \in S : y <= x PROVE Max(S) = x
<1>1. \A y \in S : x >= y
  OBVIOUS
<1>2. \A z \in S : (\A y \in S : z >= y) => z = x
  BY <1>1
<1> QED
  BY <1>1, <1>2 DEF Max

LEMMA MinUnique ==
  ASSUME NEW S \in SUBSET Int, NEW x \in S, \A y \in S : x <= y PROVE Min(S) = x
<1>1. \A z \in S : (\A y \in S : z <= y) => z = x
  OBVIOUS
<1> QED
  BY <1>1 DEF Min

LEMMA MaxIs ==
  ASSUME NEW S \in SUBSET Int, S # {}, NEW b \in Int, \A y \in S : y <= b
  PROVE  Max(S) \in S /\ \A y \in S : y <= Max(S)
<1>1. PICK x \in S : \A y \in S : y <= x
  BY Placing!Largest
<1> QED
  BY <1>1, MaxUnique

LEMMA MinIs ==
  ASSUME NEW S \in SUBSET Int, S # {}, NEW b \in Int, \A y \in S : b <= y
  PROVE  Min(S) \in S /\ \A y \in S : Min(S) <= y
<1>1. PICK x \in S : \A y \in S : x <= y
  BY Placing!Smallest
<1> QED
  BY <1>1, MinUnique

\* Induction over the subsets of a finite set by their size.
LEMMA BySize ==
  ASSUME NEW K, IsFiniteSet(K), NEW A,
         \A S \in SUBSET K :
           (\A T \in SUBSET K : Cardinality(T) < Cardinality(S) => T \in A) => S \in A
  PROVE  \A S \in SUBSET K : S \in A
<1> DEFINE N == {n \in Nat : \A S \in SUBSET K : Cardinality(S) < n => S \in A}
<1>1. \A S \in SUBSET K : IsFiniteSet(S) /\ Cardinality(S) \in Nat
  BY FS_Subset, FS_CardinalityType
<1>2. N \in SUBSET Nat /\ 0 \in N
  BY <1>1
<1>3. \A n \in N : n + 1 \in N
  BY <1>1
<1>4. \A n \in Nat : n \in N
  <2> HIDE DEF N
  <2> QED
    BY <1>2, <1>3, Placing!NatSetInduction
<1>5. ASSUME NEW S \in SUBSET K PROVE S \in A
  <2>1. Cardinality(S) + 1 \in N
    BY <1>1, <1>4
  <2> QED
    BY <1>1, <2>1
<1> QED
  BY <1>5

\* A set without one of its elements is smaller.
LEMMA Without ==
  ASSUME NEW K, IsFiniteSet(K), NEW S \in SUBSET K, NEW x \in S
  PROVE  /\ S \ {x} \in SUBSET K
         /\ Cardinality(S \ {x}) = Cardinality(S) - 1
         /\ Cardinality(S) \in Nat /\ Cardinality(S \ {x}) < Cardinality(S)
<1>1. IsFiniteSet(S)
  BY FS_Subset
<1>2. Cardinality(S) \in Nat /\ Cardinality(S \ {x}) = Cardinality(S) - 1
  BY <1>1, FS_CardinalityType, FS_RemoveElement
<1> QED
  BY <1>2

\* A finite set of numbers has bounds.
LEMMA FiniteBounds ==
  ASSUME NEW K \in SUBSET Int, IsFiniteSet(K)
  PROVE  \E a, b \in Int : \A y \in K : a <= y /\ y <= b
<1> DEFINE A == {T \in SUBSET K : \E a, b \in Int : \A y \in T : a <= y /\ y <= b}
<1>1. ASSUME NEW S \in SUBSET K,
             \A T \in SUBSET K : Cardinality(T) < Cardinality(S) => T \in A
      PROVE  S \in A
  <2>1. CASE S = {}
    BY <2>1
  <2>2. CASE S # {}
    <3>1. PICK x \in S : TRUE
      BY <2>2
    <3>2. S \ {x} \in A
      BY <1>1, <3>1, Without
    <3>3. PICK a, b \in Int : \A y \in S \ {x} : a <= y /\ y <= b
      BY <3>2
    <3> DEFINE c == IF x < a THEN x ELSE a
               d == IF x > b THEN x ELSE b
    <3>4. x \in Int
      OBVIOUS
    <3>5. c \in Int /\ d \in Int /\ c <= x /\ x <= d /\ c <= a /\ b <= d
      BY <3>4
    <3> HIDE DEF c, d
    <3>6. \A y \in S : c <= y /\ y <= d
      BY <3>3, <3>4, <3>5
    <3> QED
      BY <3>5, <3>6
  <2> QED
    BY <2>1, <2>2
<1> HIDE DEF A
<1>2. \A S \in SUBSET K : S \in A
  BY <1>1, BySize
<1> QED
  BY <1>2 DEF A

-----------------------------------------------------------------------------
\* The function behind a sum exists, and so a sum is what is left after an
\* element is taken out, plus that element, whichever it is.
Chosen(S) == CHOOSE x \in S : TRUE

Summing(it, f, S) ==
  \A T \in SUBSET S : it[T] = IF T = {} THEN 0 ELSE f[Chosen(T)] + it[T \ {Chosen(T)}]

LEMMA SumExists ==
  ASSUME NEW K, IsFiniteSet(K), NEW f \in [K -> Int]
  PROVE  \E it \in [SUBSET K -> Int] : Summing(it, f, K)
<1> DEFINE Q(it, n) == \A T \in SUBSET K : Cardinality(T) <= n =>
             it[T] = IF T = {} THEN 0 ELSE f[Chosen(T)] + it[T \ {Chosen(T)}]
           N == {n \in Nat : \E it \in [SUBSET K -> Int] : Q(it, n)}
<1>1. \A S \in SUBSET K : IsFiniteSet(S) /\ Cardinality(S) \in Nat
  BY FS_Subset, FS_CardinalityType
<1>2. 0 \in N
  <2> DEFINE z == [S \in SUBSET K |-> 0]
  <2>1. z \in [SUBSET K -> Int]
    OBVIOUS
  <2>2. \A T \in SUBSET K : Cardinality(T) <= 0 => T = {} /\ z[T] = 0
    BY <1>1, FS_EmptySet
  <2>3. Q(z, 0)
    BY <2>2
  <2> HIDE DEF z, Q
  <2> QED
    BY <2>1, <2>3
<1>3. ASSUME NEW n \in N PROVE n + 1 \in N
  <2>1. PICK it \in [SUBSET K -> Int] : Q(it, n)
    OBVIOUS
  <2> DEFINE jt == [S \in SUBSET K |-> IF Cardinality(S) = n + 1
                                        THEN f[Chosen(S)] + it[S \ {Chosen(S)}] ELSE it[S]]
  <2>2. ASSUME NEW S \in SUBSET K, S # {}
        PROVE  /\ Chosen(S) \in S /\ S \ {Chosen(S)} \in SUBSET K
               /\ Cardinality(S \ {Chosen(S)}) = Cardinality(S) - 1
    <3>1. Chosen(S) \in S
      BY <2>2 DEF Chosen
    <3> QED
      BY <3>1, Without
  <2>3. ASSUME NEW S \in SUBSET K, Cardinality(S) = n + 1 PROVE S # {}
    <3>1. n \in Nat /\ n + 1 # 0
      OBVIOUS
    <3> HIDE DEF N, Q, jt
    <3> QED
      BY <2>3, <3>1, FS_EmptySet
  <2>4. jt \in [SUBSET K -> Int]
    <3>1. ASSUME NEW S \in SUBSET K, Cardinality(S) = n + 1
          PROVE  f[Chosen(S)] + it[S \ {Chosen(S)}] \in Int
      <4>1. f[Chosen(S)] \in Int /\ it[S \ {Chosen(S)}] \in Int
        BY <2>2, <2>3, <3>1
      <4> QED
        BY <4>1
    <3> QED
      BY <3>1
  <2>5. ASSUME NEW T \in SUBSET K, Cardinality(T) <= n + 1
        PROVE  jt[T] = IF T = {} THEN 0 ELSE f[Chosen(T)] + jt[T \ {Chosen(T)}]
    <3>1. CASE T = {}
      <4>1. Cardinality(T) = 0
        BY <3>1, FS_EmptySet
      <4>2. jt[T] = it[T]
        BY <4>1
      <4> QED
        BY <2>1, <3>1, <4>1, <4>2
    <3>2. CASE T # {}
      <4>1. T \ {Chosen(T)} \in SUBSET K /\ Cardinality(T \ {Chosen(T)}) = Cardinality(T) - 1
        BY <2>2, <3>2
      <4>2. Cardinality(T) \in Nat
        BY <1>1
      <4>3. jt[T \ {Chosen(T)}] = it[T \ {Chosen(T)}]
        BY <2>5, <4>1, <4>2
      <4>4. jt[T] = f[Chosen(T)] + it[T \ {Chosen(T)}]
        <5>1. CASE Cardinality(T) = n + 1
          BY <5>1
        <5>2. CASE Cardinality(T) # n + 1
          <6>1. Cardinality(T) <= n
            BY <2>5, <4>2, <5>2
          <6>2. jt[T] = it[T]
            BY <5>2
          <6> QED
            BY <2>1, <3>2, <6>1, <6>2
        <5> QED
          BY <5>1, <5>2
      <4> QED
        BY <3>2, <4>3, <4>4
    <3> QED
      BY <3>1, <3>2
  <2>6. Q(jt, n + 1)
    BY <2>5
  <2> HIDE DEF jt, Q
  <2> QED
    BY <2>4, <2>6
<1>4. \A n \in Nat : n \in N
  <2>1. N \in SUBSET Nat
    OBVIOUS
  <2> HIDE DEF N
  <2> QED
    BY <1>2, <1>3, <2>1, Placing!NatSetInduction
<1>5. PICK it \in [SUBSET K -> Int] : Q(it, Cardinality(K))
  BY <1>1, <1>4
<1>6. \A T \in SUBSET K : Cardinality(T) <= Cardinality(K)
  BY FS_Subset
<1> QED
  BY <1>5, <1>6 DEF Summing

\* There is only one such function, as far as its domain goes.
LEMMA SumAgrees ==
  ASSUME NEW K, IsFiniteSet(K), NEW L \in SUBSET K, NEW f, NEW it, NEW jt,
         Summing(it, f, K), Summing(jt, f, L)
  PROVE  \A T \in SUBSET L : it[T] = jt[T]
<1> DEFINE A == {T \in SUBSET L : it[T] = jt[T]}
<1>1. IsFiniteSet(L)
  BY FS_Subset
<1>2. ASSUME NEW S \in SUBSET L,
             \A T \in SUBSET L : Cardinality(T) < Cardinality(S) => T \in A
      PROVE  S \in A
  <2>1. CASE S = {}
    BY <2>1 DEF Summing
  <2>2. CASE S # {}
    <3>1. Chosen(S) \in S
      BY <2>2 DEF Chosen
    <3>2. S \ {Chosen(S)} \in A
      BY <1>1, <1>2, <3>1, Without
    <3>3. it[S] = f[Chosen(S)] + it[S \ {Chosen(S)}] /\ jt[S] = f[Chosen(S)] + jt[S \ {Chosen(S)}]
      BY <2>2 DEF Summing
    <3> QED
      BY <3>2, <3>3
  <2> QED
    BY <2>1, <2>2
<1> HIDE DEF A
<1>3. \A S \in SUBSET L : S \in A
  BY <1>1, <1>2, BySize
<1> QED
  BY <1>3 DEF A

LEMMA SumIs ==
  ASSUME NEW K, IsFiniteSet(K), NEW f, NEW it \in [SUBSET K -> Int], Summing(it, f, K)
  PROVE  SumOver(f, K) = it[K]
<1> DEFINE R(g) == g = [T \in SUBSET K |->
                          IF T = {} THEN 0 ELSE f[CHOOSE x \in T : TRUE] + g[T \ {CHOOSE x \in T : TRUE}]]
           c == CHOOSE g : R(g)
<1>1. R(it)
  BY DEF Summing, Chosen
<1>2. R(c)
  BY <1>1
<1>3. SumOver(f, K) = c[K]
  BY Zenon DEF SumOver, MapThenSumSet, MapThenFoldSet
<1> HIDE DEF c
<1>4. Summing(c, f, K)
  BY <1>2 DEF Summing, Chosen
<1>5. it[K] = c[K]
  BY <1>4, SumAgrees
<1> QED
  BY <1>3, <1>5

\* The sum of no numbers is 0; any element may be taken out.
LEMMA SumEmpty == \A f : SumOver(f, {}) = 0
<1> SUFFICES ASSUME NEW f PROVE SumOver(f, {}) = 0
  OBVIOUS
<1> DEFINE z == [S \in SUBSET {} |-> 0]
<1>1. z \in [SUBSET {} -> Int] /\ Summing(z, f, {}) /\ z[{}] = 0
  BY DEF Summing
<1> HIDE DEF z
<1> QED
  BY <1>1, SumIs, FS_EmptySet

LEMMA SumStep ==
  ASSUME NEW K, IsFiniteSet(K), NEW f \in [K -> Int]
  PROVE  \A S \in SUBSET K : /\ SumOver(f, S) \in Int
                            /\ \A x \in S : SumOver(f, S) = f[x] + SumOver(f, S \ {x})
<1>1. PICK it \in [SUBSET K -> Int] : Summing(it, f, K)
  BY SumExists
<1>2. ASSUME NEW S \in SUBSET K PROVE SumOver(f, S) = it[S]
  <2>1. IsFiniteSet(S)
    BY FS_Subset
  <2> DEFINE jt == [T \in SUBSET S |-> it[T]]
  <2>2. jt \in [SUBSET S -> Int] /\ jt[S] = it[S]
    OBVIOUS
  <2>3. Summing(jt, f, S)
    <3>1. ASSUME NEW T \in SUBSET S
          PROVE  jt[T] = IF T = {} THEN 0 ELSE f[Chosen(T)] + jt[T \ {Chosen(T)}]
      <4>1. T \in SUBSET K /\ T \ {Chosen(T)} \in SUBSET S
        OBVIOUS
      <4>2. jt[T] = it[T] /\ jt[T \ {Chosen(T)}] = it[T \ {Chosen(T)}]
        BY <4>1
      <4> HIDE DEF jt
      <4> QED
        BY <1>1, <4>1, <4>2 DEF Summing
    <3> HIDE DEF jt
    <3> QED
      BY <3>1 DEF Summing
  <2> HIDE DEF jt
  <2> QED
    BY <2>1, <2>2, <2>3, SumIs
<1> DEFINE A == {S \in SUBSET K : \A x \in S : it[S] = f[x] + it[S \ {x}]}
<1>3. ASSUME NEW S \in SUBSET K,
             \A T \in SUBSET K : Cardinality(T) < Cardinality(S) => T \in A
      PROVE  S \in A
  <2>1. ASSUME NEW x \in S PROVE it[S] = f[x] + it[S \ {x}]
    <3> DEFINE c == Chosen(S)
    <3>1. c \in S
      BY DEF Chosen
    <3>2. it[S] = f[c] + it[S \ {c}]
      BY <1>1 DEF Summing
    <3> HIDE DEF c
    <3>3. CASE x = c
      BY <3>2, <3>3
    <3>4. CASE x # c
      <4>1. S \ {c} \in A /\ S \ {x} \in A
        BY <1>3, <3>1, Without
      <4>2. it[S \ {c}] = f[x] + it[(S \ {c}) \ {x}]
        BY <3>4, <4>1
      <4>3. it[S \ {x}] = f[c] + it[(S \ {x}) \ {c}]
        BY <3>1, <3>4, <4>1
      <4>4. (S \ {c}) \ {x} = (S \ {x}) \ {c} /\ (S \ {c}) \ {x} \in SUBSET K
        OBVIOUS
      <4>5. f[x] \in Int /\ f[c] \in Int /\ it[(S \ {c}) \ {x}] \in Int
        BY <3>1, <4>4
      <4>6. it[(S \ {x}) \ {c}] = it[(S \ {c}) \ {x}]
        BY <4>4
      <4> HIDE DEF A
      <4> DEFINE w == it[(S \ {c}) \ {x}]
      <4>7. it[S \ {c}] = f[x] + w /\ it[S \ {x}] = f[c] + w /\ w \in Int
        BY <4>2, <4>3, <4>5, <4>6
      <4> HIDE DEF w
      <4> QED
        BY <3>2, <4>5, <4>7
    <3> QED
      BY <3>3, <3>4
  <2> QED
    BY <2>1
<1>4. \A S \in SUBSET K : S \in A
  <2> HIDE DEF A
  <2> QED
    BY <1>3, BySize
<1>5. ASSUME NEW S \in SUBSET K
      PROVE  /\ SumOver(f, S) \in Int
             /\ \A x \in S : SumOver(f, S) = f[x] + SumOver(f, S \ {x})
  <2>1. it[S] \in Int /\ SumOver(f, S) = it[S]
    BY <1>2
  <2>2. ASSUME NEW x \in S PROVE SumOver(f, S) = f[x] + SumOver(f, S \ {x})
    <3>1. S \ {x} \in SUBSET K
      OBVIOUS
    <3>2. SumOver(f, S \ {x}) = it[S \ {x}]
      BY <1>2, <3>1
    <3> QED
      BY <1>4, <2>1, <3>2
  <2> QED
    BY <2>1, <2>2
<1> QED
  BY <1>5

\* The sizes of sets that have nothing in common add up to that of their union.
Whole(part, K) == UNION {part[k] : k \in K}

LEMMA SumOfSizes ==
  ASSUME NEW K, IsFiniteSet(K), NEW part, NEW f,
         \A k \in K : IsFiniteSet(part[k]) /\ f[k] = Cardinality(part[k]),
         f \in [K -> Int],
         \A k, l \in K : k # l => part[k] \cap part[l] = {}
  PROVE  IsFiniteSet(Whole(part, K)) /\ SumOver(f, K) = Cardinality(Whole(part, K))
<1> DEFINE U(S) == UNION {part[k] : k \in S}
           A == {S \in SUBSET K : IsFiniteSet(U(S)) /\ SumOver(f, S) = Cardinality(U(S))}
<1>1. ASSUME NEW S \in SUBSET K,
             \A T \in SUBSET K : Cardinality(T) < Cardinality(S) => T \in A
      PROVE  S \in A
  <2>1. CASE S = {}
    <3>1. U({}) = {}
      OBVIOUS
    <3> HIDE DEF U
    <3> QED
      BY <2>1, <3>1, SumEmpty, FS_EmptySet
  <2>2. CASE S # {}
    <3>1. PICK x \in S : TRUE
      BY <2>2
    <3>2. S \ {x} \in A
      BY <1>1, <3>1, Without
    <3>3. U(S) = U(S \ {x}) \cup part[x]
      OBVIOUS
    <3>4. U(S \ {x}) \cap part[x] = {}
      OBVIOUS
    <3>5. IsFiniteSet(part[x]) /\ f[x] = Cardinality(part[x]) /\ f[x] \in Int
      OBVIOUS
    <3>6. IsFiniteSet(U(S \ {x})) /\ SumOver(f, S \ {x}) = Cardinality(U(S \ {x}))
      BY <3>2
    <3>7. SumOver(f, S) = f[x] + SumOver(f, S \ {x})
      BY SumStep
    <3> HIDE DEF U
    <3> DEFINE a == U(S \ {x})
               b == part[x]
    <3>8. /\ IsFiniteSet(a) /\ IsFiniteSet(b) /\ U(S) = a \cup b /\ Cardinality(a \cap b) = 0
          /\ Cardinality(a) \in Nat /\ Cardinality(b) \in Nat
      BY <3>3, <3>4, <3>5, <3>6, FS_EmptySet, FS_CardinalityType
    <3>9. SumOver(f, S) = Cardinality(b) + Cardinality(a)
      BY <3>5, <3>6, <3>7
    <3> HIDE DEF a, b
    <3>10. IsFiniteSet(a \cup b) /\ Cardinality(a \cup b) = Cardinality(a) + Cardinality(b) - 0
      BY <3>8, FS_Union
    <3>11. IsFiniteSet(U(S)) /\ SumOver(f, S) = Cardinality(U(S))
      BY <3>8, <3>9, <3>10
    <3> QED
      BY <3>11
  <2> QED
    BY <2>1, <2>2
<1>2. \A S \in SUBSET K : S \in A
  <2> HIDE DEF A
  <2> QED
    BY <1>1, BySize
<1>3. Whole(part, K) = U(K)
  BY DEF Whole
<1> HIDE DEF U
<1> QED
  BY <1>2, <1>3

-----------------------------------------------------------------------------
\* The numbers of a finite set in ascending order: each once, smaller ones first.
Rank(I, x) == Cardinality({y \in I : y < x})

LEMMA Ranks ==
  ASSUME NEW I \in SUBSET Int, IsFiniteSet(I)
  PROVE  /\ Cardinality(I) \in Nat
         /\ \A x \in I : Rank(I, x) \in 0 .. Cardinality(I) - 1
         /\ \A x, y \in I : x < y <=> Rank(I, x) < Rank(I, y)
         /\ \A k \in 0 .. Cardinality(I) - 1 : \E x \in I : Rank(I, x) = k
<1>1. \A T \in SUBSET I : IsFiniteSet(T) /\ Cardinality(T) \in Nat
  BY FS_Subset, FS_CardinalityType
<1>2. ASSUME NEW x \in I PROVE Rank(I, x) \in 0 .. Cardinality(I) - 1
  <2> DEFINE T == {y \in I : y < x}
  <2>1. T \in SUBSET I /\ T # I
    OBVIOUS
  <2>2. Cardinality(T) <= Cardinality(I) /\ Cardinality(T) # Cardinality(I)
    <3> HIDE DEF T
    <3> QED
      BY <2>1, FS_Subset
  <2> QED
    BY <1>1, <2>1, <2>2 DEF Rank
<1>3. ASSUME NEW x \in I, NEW y \in I, x < y PROVE Rank(I, x) < Rank(I, y)
  <2> DEFINE T == {z \in I : z < x}
             V == {z \in I : z < y}
  <2>1. T \in SUBSET V /\ V \in SUBSET I
    <3>1. ASSUME NEW z \in I, z < x PROVE z < y
      <4>1. x \in Int /\ y \in Int /\ z \in Int
        OBVIOUS
      <4> QED
        BY <1>3, <3>1, <4>1
    <3> QED
      BY <3>1
  <2>2. T # V
    <3>1. x \in Int /\ ~(x < x)
      OBVIOUS
    <3>2. x \notin T
      BY <3>1
    <3>3. x \in V
      BY <1>3
    <3> QED
      BY <3>2, <3>3
  <2>3. Cardinality(T) <= Cardinality(V) /\ Cardinality(T) # Cardinality(V)
    <3> HIDE DEF T, V
    <3> QED
      BY <1>1, <2>1, <2>2, FS_Subset
  <2>4. Cardinality(T) \in Nat /\ Cardinality(V) \in Nat
    BY <1>1
  <2> QED
    BY <2>3, <2>4 DEF Rank
<1>4. ASSUME NEW x \in I, NEW y \in I, Rank(I, x) < Rank(I, y) PROVE x < y
  <2>1. Rank(I, x) \in Int /\ Rank(I, y) \in Int
    BY <1>2
  <2>2. CASE y < x
    BY <1>3, <1>4, <2>1, <2>2
  <2>3. CASE x = y
    BY <1>4, <2>1, <2>3
  <2> QED
    BY <2>2, <2>3
<1>5. \A k \in 0 .. Cardinality(I) - 1 : \E x \in I : Rank(I, x) = k
  <2> DEFINE n == Cardinality(I)
             f == [x \in I |-> Rank(I, x)]
             R == 0 .. n - 1
  <2>1. n \in Nat
    BY <1>1
  <2>2. IsFiniteSet(R) /\ Cardinality(R) = n
    BY <2>1, FS_Interval
  <2>3. f \in [I -> R]
    BY <1>2
  <2>4. \A x, y \in I : f[x] = f[y] => x = y
    BY <1>2, <1>3
  <2> HIDE DEF f, R
  <2>5. f \in Injection(I, R)
    BY <2>3, <2>4 DEF Injection, IsInjective
  <2>6. f \in Surjection(I, R)
    BY <2>2, <2>5, FS_Injection DEF n
  <2>7. \A k \in R : \E x \in I : f[x] = k
    BY <2>6 DEF Surjection
  <2> QED
    BY <2>7 DEF f, R
<1>6. \A x \in I : Rank(I, x) \in 0 .. Cardinality(I) - 1
  BY <1>2
<1>7. \A x, y \in I : x < y <=> Rank(I, x) < Rank(I, y)
  BY <1>3, <1>4
<1> QED
  BY <1>1, <1>5, <1>6, <1>7

LEMMA AscendingIs ==
  ASSUME NEW I \in SUBSET Int, IsFiniteSet(I)
  PROVE  /\ Ascending(I) \in Seq(I) /\ Len(Ascending(I)) = Cardinality(I) /\ Cardinality(I) \in Nat
         /\ DOMAIN Ascending(I) = 1 .. Cardinality(I)
         /\ \A k \in 1 .. Cardinality(I) : Ascending(I)[k] \in I
         /\ \A k, l \in 1 .. Cardinality(I) : k < l => Ascending(I)[k] < Ascending(I)[l]
         /\ \A x \in I : \E k \in 1 .. Cardinality(I) : Ascending(I)[k] = x
<1> DEFINE a == Ascending(I)
           n == Cardinality(I)
<1>1. n \in Nat
  BY Ranks
<1>2. a = [k \in 1 .. n |-> CHOOSE x \in I : Rank(I, x) = k - 1]
  BY DEF Ascending, Rank
<1>3. ASSUME NEW k \in 1 .. n PROVE a[k] \in I /\ Rank(I, a[k]) = k - 1
  <2>1. k - 1 \in 0 .. n - 1
    BY <1>1
  <2>2. \E x \in I : Rank(I, x) = k - 1
    BY <2>1, Ranks
  <2>3. a[k] = CHOOSE x \in I : Rank(I, x) = k - 1
    BY <1>2
  <2> HIDE DEF a
  <2> QED
    BY <2>2, <2>3
<1> HIDE DEF a
<1>4. a \in Seq(I) /\ Len(a) = n /\ DOMAIN a = 1 .. n
  BY <1>1, <1>2, <1>3
<1>5. ASSUME NEW k \in 1 .. n, NEW l \in 1 .. n, k < l PROVE a[k] < a[l]
  <2>1. a[k] \in I /\ a[l] \in I /\ Rank(I, a[k]) < Rank(I, a[l])
    BY <1>1, <1>3, <1>5
  <2> QED
    BY <2>1, Ranks
<1>6. ASSUME NEW x \in I PROVE \E k \in 1 .. n : a[k] = x
  <2> DEFINE k == Rank(I, x) + 1
  <2>1. Rank(I, x) \in 0 .. n - 1
    BY Ranks
  <2>2. k \in 1 .. n /\ k - 1 = Rank(I, x)
    BY <1>1, <2>1
  <2>3. a[k] \in I /\ Rank(I, a[k]) = Rank(I, x)
    BY <1>3, <2>2
  <2> DEFINE y == a[k]
  <2> HIDE DEF k, y
  <2>4. y \in I /\ Rank(I, y) = Rank(I, x) /\ Rank(I, x) \in Int
    BY <2>1, <2>3 DEF y
  <2>5. ~(y < x) /\ ~(x < y)
    BY <2>4, Ranks
  <2>6. y \in Int /\ x \in Int
    BY <2>4
  <2>7. y = x
    BY <2>5, <2>6
  <2> QED
    BY <2>2, <2>7 DEF y
<1> QED
  BY <1>1, <1>3, <1>4, <1>5, <1>6 DEF a

\* The elements at some places of a sequence.
LEMMA OnlyIs ==
  ASSUME NEW B, NEW s \in Seq(B), NEW I \in SUBSET DOMAIN s
  PROVE  /\ Ascending(I) \in Seq(I)
         /\ \A k, l \in DOMAIN Ascending(I) : k < l => Ascending(I)[k] < Ascending(I)[l]
         /\ \A i \in I : \E k \in DOMAIN Ascending(I) : Ascending(I)[k] = i
         /\ Only(s, I) \in Seq(B) /\ DOMAIN Only(s, I) = DOMAIN Ascending(I)
         /\ Len(Only(s, I)) = Len(Ascending(I))
         /\ \A k \in DOMAIN Ascending(I) : Ascending(I)[k] \in I /\ Only(s, I)[k] = s[Ascending(I)[k]]
<1> DEFINE a == Ascending(I)
<1>1. Len(s) \in Nat /\ DOMAIN s = 1 .. Len(s) /\ IsFiniteSet(1 .. Len(s))
  BY FS_Interval
<1>2. I \in SUBSET Int /\ IsFiniteSet(I)
  BY <1>1, FS_Subset
<1>3. a \in Seq(I) /\ Len(a) \in Nat /\ DOMAIN a = 1 .. Len(a)
  BY <1>2, AscendingIs
<1>4. \A k, l \in DOMAIN a : k < l => a[k] < a[l]
  BY <1>2, AscendingIs
<1>5. \A i \in I : \E k \in DOMAIN a : a[k] = i
  BY <1>2, AscendingIs
<1>6. Only(s, I) = [k \in DOMAIN a |-> s[a[k]]]
  BY DEF Only
<1> HIDE DEF a
<1>7. \A k \in DOMAIN a : a[k] \in I /\ s[a[k]] \in B
  BY <1>3
<1>8. Only(s, I) \in Seq(B) /\ DOMAIN Only(s, I) = DOMAIN a /\ Len(Only(s, I)) = Len(a)
  BY <1>3, <1>6, <1>7
<1> QED
  BY <1>3, <1>4, <1>5, <1>6, <1>7, <1>8 DEF a

-----------------------------------------------------------------------------
\* A sequence in the order of its times is what sorting makes of it.
InOrder(s) == /\ \A i \in DOMAIN s : s[i].at \in Int
              /\ \A i, j \in DOMAIN s : i <= j => s[i].at <= s[j].at

LEMMA UpToSize == \A n \in Nat : IsFiniteSet(1 .. n) /\ Cardinality(1 .. n) = n
<1> SUFFICES ASSUME NEW n \in Nat PROVE IsFiniteSet(1 .. n) /\ Cardinality(1 .. n) = n
  OBVIOUS
<1> QED
  BY FS_Interval

LEMMA PlaceKeeps ==
  ASSUME NEW B PROVE \A a \in Seq(B), b \in B : Place(a, b) \in Seq(B)
<1> SUFFICES ASSUME NEW a \in Seq(B), NEW b \in B PROVE Place(a, b) \in Seq(B)
  OBVIOUS
<1> DEFINE I == {i \in DOMAIN a : a[i].at <= b.at}
           c == Cardinality(I)
<1>1. Len(a) \in Nat /\ DOMAIN a = 1 .. Len(a)
  OBVIOUS
<1>2. I \in SUBSET (1 .. Len(a))
  BY <1>1
<1>3. Place(a, b) = SubSeq(a, 1, (c + 1) - 1) \o <<b>> \o SubSeq(a, c + 1, Len(a))
  BY DEF Place, InsertAt
<1> HIDE DEF I
<1>4. c \in 0 .. Len(a)
  <2>1. IsFiniteSet(1 .. Len(a)) /\ Cardinality(1 .. Len(a)) = Len(a)
    BY <1>1, UpToSize
  <2>2. IsFiniteSet(I) /\ c <= Cardinality(1 .. Len(a))
    BY <1>2, <2>1, FS_Subset
  <2>3. c \in Nat
    BY <2>2, FS_CardinalityType
  <2> QED
    BY <1>1, <2>1, <2>2, <2>3
<1> HIDE DEF c
<1>5. SubSeq(a, 1, (c + 1) - 1) \in Seq(B)
  BY <1>1, <1>4
<1>6. SubSeq(a, c + 1, Len(a)) \in Seq(B)
  BY <1>1, <1>4
<1>7. <<b>> \in Seq(B)
  OBVIOUS
<1> QED
  BY <1>3, <1>5, <1>6, <1>7

LEMMA PlaceLast ==
  ASSUME NEW B, NEW s \in Seq(B), InOrder(s), NEW i \in 1 .. Len(s)
  PROVE  Place(SubSeq(s, 1, i - 1), s[i]) = SubSeq(s, 1, i)
<1> DEFINE t == SubSeq(s, 1, i - 1)
<1>1. Len(s) \in Nat /\ DOMAIN s = 1 .. Len(s) /\ i \in Nat
  OBVIOUS
<1>2. t \in Seq(B) /\ Len(t) = i - 1 /\ DOMAIN t = 1 .. i - 1 /\ \A j \in 1 .. i - 1 : t[j] = s[j]
  OBVIOUS
<1>3. {j \in DOMAIN t : t[j].at <= s[i].at} = 1 .. i - 1
  <2>1. \A j \in 1 .. i - 1 : t[j].at <= s[i].at
    BY <1>1, <1>2 DEF InOrder
  <2> HIDE DEF t
  <2> QED
    BY <1>2, <2>1
<1>4. Cardinality(1 .. i - 1) + 1 = i
  <2>1. i - 1 \in Nat
    BY <1>1
  <2>2. Cardinality(1 .. i - 1) = i - 1
    BY <2>1, UpToSize
  <2> QED
    BY <1>1, <2>2
<1> HIDE DEF t
<1>5. Place(t, s[i]) = SubSeq(t, 1, i - 1) \o <<s[i]>> \o SubSeq(t, i, i - 1)
  BY <1>2, <1>3, <1>4 DEF Place, InsertAt
<1>6. SubSeq(t, 1, i - 1) = t /\ SubSeq(t, i, i - 1) = <<>>
  BY <1>1, <1>2
<1>7. s[i] \in B
  BY <1>1
<1>8. t \o <<s[i]>> \o <<>> = SubSeq(s, 1, i)
  BY <1>1, <1>2, <1>7
<1> QED
  BY <1>5, <1>6, <1>8 DEF t

LEMMA SortedStays ==
  ASSUME NEW B, NEW s \in Seq(B), InOrder(s) PROVE SortByAt(s) = s
<1>1. Len(s) \in Nat /\ DOMAIN s = 1 .. Len(s) /\ <<>> \in Seq(B)
  OBVIOUS
<1>2. PICK f \in [0 .. Len(s) -> Seq(B)] : Placing!Along(f, <<>>, s) /\ Placing!Folded(<<>>, s) = f[Len(s)]
  <2> DEFINE T == Seq(B)
  <2>1. \A a \in T, b \in B : Place(a, b) \in T
    BY PlaceKeeps
  <2>2. <<>> \in T
    BY <1>1
  <2> HIDE DEF T
  <2>3. \E f \in [0 .. Len(s) -> T] : Placing!Along(f, <<>>, s) /\ Placing!Folded(<<>>, s) = f[Len(s)]
    BY <2>1, <2>2, Placing!FoldLeftSteps
  <2> QED
    BY <2>3 DEF T
<1> DEFINE A == {i \in 0 .. Len(s) : f[i] = SubSeq(s, 1, i)}
<1>3. 0 \in A
  <2>1. f[0] = <<>>
    BY <1>2 DEF Placing!Along
  <2>2. SubSeq(s, 1, 0) = <<>>
    OBVIOUS
  <2> QED
    BY <1>1, <2>1, <2>2
<1>4. \A i \in 0 .. Len(s) - 1 : i \in A => i + 1 \in A
  <2> SUFFICES ASSUME NEW i \in 0 .. Len(s) - 1, f[i] = SubSeq(s, 1, i)
               PROVE  f[i + 1] = SubSeq(s, 1, i + 1)
    BY <1>1
  <2>1. i + 1 \in 1 .. Len(s) /\ (i + 1) - 1 = i
    BY <1>1
  <2>2. f[i + 1] = Place(f[i], s[i + 1])
    BY <1>2, <2>1 DEF Placing!Along
  <2>3. Place(SubSeq(s, 1, i), s[i + 1]) = SubSeq(s, 1, i + 1)
    BY <2>1, PlaceLast
  <2> QED
    BY <2>2, <2>3
<1>5. \A i \in 0 .. Len(s) : i \in A
  <2> HIDE DEF A
  <2> QED
    BY <1>1, <1>3, <1>4, Placing!UpTo
<1>6. f[Len(s)] = SubSeq(s, 1, Len(s)) /\ SubSeq(s, 1, Len(s)) = s
  BY <1>1, <1>5
<1> QED
  BY <1>2, <1>6, PlaceFold

Join(a, b) == a \o b
Joining == INSTANCE FoldTheorems WITH Op <- Join

-----------------------------------------------------------------------------
\* Pages one after another: a further page comes at the end.
LEMMA FlattenIsJoined ==
  ASSUME NEW B, NEW s \in Seq(Seq(B)) PROVE FlattenSeq(s) = Joining!Folded(<<>>, s)
<1> DEFINE T == Seq(B)
           n == Len(s)
           R(g) == g = [i \in 1 .. n |-> IF i = 1 THEN s[i] ELSE g[i - 1] \o s[i]]
           c == CHOOSE g : R(g)
<1>1. n \in Nat /\ DOMAIN s = 1 .. n /\ \A i \in 1 .. n : s[i] \in T
  OBVIOUS
<1>2. PICK f \in [0 .. Len(s) -> T] : Joining!Along(f, <<>>, s) /\ Joining!Folded(<<>>, s) = f[Len(s)]
  <2>1. \A a \in T, b \in T : Join(a, b) \in T
    BY DEF Join
  <2>2. <<>> \in T /\ s \in Seq(T)
    OBVIOUS
  <2> HIDE DEF T
  <2> QED
    BY <2>1, <2>2, Joining!FoldLeftSteps
<1>3. f[0] = <<>> /\ \A i \in 1 .. n : f[i] = f[i - 1] \o s[i]
  BY <1>2 DEF Joining!Along, Join
<1> DEFINE h == [i \in 1 .. n |-> f[i]]
<1>4. R(h)
  <2>1. ASSUME NEW i \in 1 .. n PROVE h[i] = IF i = 1 THEN s[i] ELSE h[i - 1] \o s[i]
    <3>1. CASE i = 1
      <4>1. h[i] = <<>> \o s[i]
        <5>1. f[i] = f[i - 1] \o s[i] /\ h[i] = f[i]
          BY <1>3
        <5>2. i - 1 = 0
          BY <3>1
        <5> QED
          BY <1>3, <5>1, <5>2
      <4>2. <<>> \o s[i] = s[i]
        BY <1>1
      <4> QED
        BY <3>1, <4>1, <4>2
    <3>2. CASE i # 1
      <4>1. i - 1 \in 1 .. n
        BY <1>1, <3>2
      <4> HIDE DEF n
      <4>2. h[i] = f[i - 1] \o s[i] /\ h[i - 1] = f[i - 1]
        BY <1>3, <4>1
      <4> QED
        BY <3>2, <4>2
    <3> QED
      BY <3>1, <3>2
  <2>2. h = [i \in 1 .. n |-> h[i]]
    OBVIOUS
  <2> HIDE DEF h, n
  <2> QED
    BY <2>1, <2>2
<1>5. R(c)
  BY <1>4
<1> HIDE DEF c
<1> DEFINE C == {i \in 0 .. n : i = 0 \/ c[i] = f[i]}
<1>6. 0 \in C
  BY <1>1
<1>7. \A i \in 0 .. n - 1 : i \in C => i + 1 \in C
  <2> SUFFICES ASSUME NEW i \in 0 .. n - 1, i = 0 \/ c[i] = f[i] PROVE c[i + 1] = f[i + 1]
    BY <1>1
  <2>1. i \in Nat /\ i + 1 \in 1 .. n /\ (i + 1) - 1 = i
    BY <1>1
  <2>2. f[i + 1] = f[i] \o s[i + 1]
    BY <1>3, <2>1
  <2>3. c[i + 1] = IF i + 1 = 1 THEN s[i + 1] ELSE c[(i + 1) - 1] \o s[i + 1]
    BY <1>5, <2>1
  <2>4. CASE i = 0
    <3>1. f[i + 1] = <<>> \o s[i + 1]
      BY <1>3, <2>2, <2>4
    <3>2. <<>> \o s[i + 1] = s[i + 1]
      BY <1>1, <2>1
    <3> QED
      BY <2>3, <2>4, <3>1, <3>2
  <2>5. CASE i # 0
    <3>1. i + 1 # 1
      BY <2>1, <2>5
    <3> QED
      BY <2>1, <2>2, <2>3, <2>5, <3>1
  <2> QED
    BY <2>4, <2>5
<1>8. \A i \in 0 .. n : i \in C
  <2> HIDE DEF C, n
  <2> QED
    BY <1>1, <1>6, <1>7, Placing!UpTo
<1>9. CASE n = 0
  <2>1. s = <<>>
    BY <1>1, <1>9
  <2>2. FlattenSeq(s) = s
    BY <1>9 DEF FlattenSeq
  <2> QED
    BY <1>2, <1>3, <1>9, <2>1, <2>2
<1>10. CASE n # 0
  <2>1. FlattenSeq(s) = c[n]
    BY <1>10 DEF FlattenSeq, c
  <2>2. c[n] = f[n]
    BY <1>1, <1>8, <1>10
  <2> QED
    BY <1>2, <2>1, <2>2
<1> QED
  BY <1>9, <1>10

LEMMA FlattenAppend ==
  ASSUME NEW B, NEW s \in Seq(Seq(B)), NEW e \in Seq(B)
  PROVE  FlattenSeq(s) \in Seq(B) /\ FlattenSeq(Append(s, e)) = FlattenSeq(s) \o e
<1> DEFINE T == Seq(B)
<1>1. \A a \in T, b \in T : Join(a, b) \in T
  BY DEF Join
<1>2. <<>> \in T /\ s \in Seq(T) /\ e \in T /\ Append(s, e) \in Seq(T)
  OBVIOUS
<1>3. FlattenSeq(s) = Joining!Folded(<<>>, s) /\ FlattenSeq(Append(s, e)) = Joining!Folded(<<>>, Append(s, e))
  BY <1>2, FlattenIsJoined
<1> HIDE DEF T
<1>4. Joining!Folded(<<>>, s) \in T /\ Joining!Folded(<<>>, Append(s, e)) = Join(Joining!Folded(<<>>, s), e)
  BY <1>1, <1>2, Joining!FoldedAppend
<1> QED
  BY <1>3, <1>4 DEF T, Join

LEMMA FlattenOne ==
  ASSUME NEW B, NEW e \in Seq(B) PROVE FlattenSeq(<<e>>) = e
<1>1. <<>> \in Seq(Seq(B)) /\ Append(<<>>, e) = <<e>>
  OBVIOUS
<1>2. FlattenSeq(<<>>) = <<>>
  BY DEF FlattenSeq
<1>3. FlattenSeq(Append(<<>>, e)) = <<>> \o e
  BY <1>1, <1>2, FlattenAppend
<1> QED
  BY <1>1, <1>3

-----------------------------------------------------------------------------
\* Division by a positive number: quotient and remainder, and that there is only one pair.
LEMMA Product == ASSUME NEW a \in Int, NEW b \in Int PROVE a * b \in Int
  OBVIOUS

LEMMA Division ==
  ASSUME NEW x \in Int, NEW step \in Nat \ {0}
  PROVE  /\ x \div step \in Int /\ x % step \in 0 .. step - 1
         /\ x = step * (x \div step) + (x % step)
<1>1. x \div step \in Int /\ x % step \in 0 .. step - 1
  BY SMTT(20)
<1>2. ASSUME NEW k, k = x \div step, NEW l, l = x % step PROVE x = step * k + l
  BY <1>2, SMTT(20)
<1>3. \A k, l : k = x \div step /\ l = x % step => x = step * k + l
  BY <1>2
<1>4. x = step * (x \div step) + (x % step)
  BY ONLY <1>3, Zenon
<1> QED
  BY <1>1, <1>4, Zenon

LEMMA Quotient ==
  ASSUME NEW x \in Int, NEW step \in Nat \ {0}, NEW q \in Int, NEW r \in 0 .. step - 1,
         x = step * q + r
  PROVE  x \div step = q /\ x % step = r
  BY SMTT(20)

\* A quotient is a lower bound that is met before the next.
LEMMA Quotients ==
  ASSUME NEW x \in Int, NEW step \in Nat \ {0}, NEW q \in Int
  PROVE  x \div step = q <=> q * step <= x /\ x < (q + 1) * step
<1>1. /\ x \div step \in Int /\ x % step \in 0 .. step - 1
      /\ x = step * (x \div step) + (x % step)
  BY Division
<1>2. (q + 1) * step = q * step + step /\ q * step = step * q /\ q * step \in Int
  OBVIOUS
<1>3. ASSUME x \div step = q PROVE q * step <= x /\ x < (q + 1) * step
  <2> DEFINE r == x % step
             p == q * step
  <2>1. x = p + r /\ r \in 0 .. step - 1 /\ p \in Int /\ (q + 1) * step = p + step
    BY <1>1, <1>2, <1>3
  <2> HIDE DEF r, p
  <2>2. p <= x /\ x < p + step
    BY <2>1
  <2> QED
    BY <2>1, <2>2 DEF p
<1>4. ASSUME q * step <= x, x < (q + 1) * step PROVE x \div step = q
  <2> DEFINE p == q * step
             r == x - p
  <2>1. p \in Int /\ p <= x /\ x < p + step /\ p = step * q
    BY <1>2, <1>4
  <2> HIDE DEF p
  <2>2. r \in 0 .. step - 1 /\ x = p + r
    BY <2>1
  <2>3. r \in 0 .. step - 1 /\ x = step * q + r
    BY <2>1, <2>2
  <2> HIDE DEF r
  <2> QED
    BY <2>3, Quotient
<1> QED
  BY <1>3, <1>4

LEMMA Calendar ==
  /\ Hour \in Nat \ {0} /\ HoursPerDay \in Nat \ {0} /\ DaysPerWeek \in Nat \ {0}
  /\ HeatDays \in Nat \ {0} /\ Day \in Nat \ {0}
<1>1. Hour \in Nat \ {0} /\ HoursPerDay \in Nat \ {0} /\ DaysPerWeek \in Nat \ {0} /\ HeatDays \in Nat \ {0}
  BY CalendarAssumption
<1>2. ASSUME NEW a \in Nat \ {0}, NEW b \in Nat \ {0} PROVE a * b \in Nat \ {0}
  BY SMTT(20)
<1> QED
  BY <1>1, <1>2 DEF Day

LEMMA IsoDayIs ==
  ASSUME NEW t \in Int PROVE IsoDay(t) \in Int /\ \A d \in Int : IsoDay(t) = d <=> d * Day <= t /\ t < (d + 1) * Day
  BY Calendar, Division, Quotients DEF IsoDay

-----------------------------------------------------------------------------
\* One page of days: the largest ones, in descending order.
Descending(s) == \A i, j \in DOMAIN s : i < j => s[j] < s[i]

DayPage(S, limit) ==
  LET found == Reverse(Ascending(S))
  IN  SubSeq(found, 1, IF Len(found) < limit THEN Len(found) ELSE limit)

LEMMA PageIs ==
  ASSUME NEW S \in SUBSET Int, IsFiniteSet(S), NEW limit \in Nat \ {0}
  PROVE  /\ DayPage(S, limit) \in Seq(Int) /\ Len(DayPage(S, limit)) <= limit
         /\ DOMAIN DayPage(S, limit) = 1 .. Len(DayPage(S, limit))
         /\ Descending(DayPage(S, limit))
         /\ \A i \in DOMAIN DayPage(S, limit) : DayPage(S, limit)[i] \in S
         /\ \A d \in S : \/ \E i \in DOMAIN DayPage(S, limit) : DayPage(S, limit)[i] = d
                         \/ /\ Len(DayPage(S, limit)) = limit
                            /\ \A i \in DOMAIN DayPage(S, limit) : d < DayPage(S, limit)[i]
<1> DEFINE a == Ascending(S)
           n == Cardinality(S)
           m == IF n < limit THEN n ELSE limit
           p == DayPage(S, limit)
<1>1. /\ a \in Seq(S) /\ Len(a) = n /\ n \in Nat /\ DOMAIN a = 1 .. n
      /\ \A k \in 1 .. n : a[k] \in S
      /\ \A x \in S : \E k \in 1 .. n : a[k] = x
  BY AscendingIs
<1>2. \A k, l \in 1 .. n : k < l => a[k] < a[l]
  BY AscendingIs
<1>3. p = SubSeq([i \in 1 .. Len(a) |-> a[(Len(a) - i) + 1]], 1,
                 IF Len([i \in 1 .. Len(a) |-> a[(Len(a) - i) + 1]]) < limit
                   THEN Len([i \in 1 .. Len(a) |-> a[(Len(a) - i) + 1]]) ELSE limit)
  BY DEF DayPage, Reverse
<1> HIDE DEF a, n, p
<1> DEFINE r == [i \in 1 .. n |-> a[(n - i) + 1]]
<1>4. r \in Seq(S) /\ Len(r) = n
  BY <1>1
<1>5. p = SubSeq(r, 1, m) /\ m \in Nat /\ m <= n /\ m <= limit
  BY <1>1, <1>3, <1>4
<1>6. p \in Seq(S) /\ Len(p) = m /\ DOMAIN p = 1 .. m /\ \A i \in 1 .. m : p[i] = r[i]
  BY <1>1, <1>4, <1>5
<1>7. \A i \in 1 .. m : (n - i) + 1 \in 1 .. n /\ p[i] = a[(n - i) + 1]
  BY <1>1, <1>5, <1>6
<1> HIDE DEF r, m
<1>8. \A i \in 1 .. m : p[i] \in S
  BY <1>1, <1>7
<1>9. Descending(p)
  <2>1. ASSUME NEW i \in 1 .. m, NEW j \in 1 .. m, i < j PROVE p[j] < p[i]
    <3>1. (n - j) + 1 < (n - i) + 1
      BY <1>1, <1>5, <2>1
    <3> QED
      BY <1>2, <1>7, <3>1
  <2> QED
    BY <1>6, <2>1 DEF Descending
<1>10. ASSUME NEW d \in S
       PROVE  \/ \E i \in DOMAIN p : p[i] = d
              \/ Len(p) = limit /\ \A i \in DOMAIN p : d < p[i]
  <2>1. PICK k \in 1 .. n : a[k] = d
    BY <1>1
  <2> DEFINE i == (n - k) + 1
  <2>2. i \in 1 .. n /\ (n - i) + 1 = k
    BY <1>1
  <2>3. CASE i <= m
    <3>1. i \in 1 .. m
      BY <1>5, <2>2, <2>3
    <3> HIDE DEF i
    <3> QED
      BY <1>6, <1>7, <2>1, <2>2, <3>1
  <2>4. CASE m < i
    <3>1. m = limit
      BY <1>1, <1>5, <2>2, <2>4 DEF m
    <3>2. ASSUME NEW j \in 1 .. m PROVE d < p[j]
      <4>1. k < (n - j) + 1
        BY <1>1, <1>5, <2>2, <2>4
      <4> QED
        BY <1>2, <1>7, <2>1, <4>1
    <3> QED
      BY <1>6, <3>1, <3>2
  <2> QED
    BY <1>5, <2>2, <2>3, <2>4
<1>11. p \in Seq(Int)
  <2>1. \A i \in 1 .. Len(p) : p[i] \in Int
    BY <1>6, <1>8
  <2>2. p = [i \in 1 .. Len(p) |-> p[i]] /\ Len(p) \in Nat
    BY <1>6
  <2> QED
    BY <2>1, <2>2
<1> QED
  BY <1>5, <1>6, <1>8, <1>9, <1>10, <1>11 DEF p

-----------------------------------------------------------------------------
\* The log: rows in the order in which they came, none from the future.
Logged == [kind : {k.kind : k \in Kinds}, state : {k.state : k \in Kinds},
           at : Int, lastSeen : Int \cup {Null}]

LogOk == /\ rows \in Seq(Logged) /\ InOrder(rows)
         /\ \A i \in DOMAIN rows : Start <= rows[i].at /\ rows[i].at <= now
         /\ now \in Int /\ Start <= now /\ offset \in Zones

LEMMA Appended ==
  ASSUME NEW B, NEW s \in Seq(B), NEW e \in B
  PROVE  /\ Append(s, e) \in Seq(B) /\ Len(Append(s, e)) = Len(s) + 1 /\ Len(s) \in Nat
         /\ DOMAIN s = 1 .. Len(s) /\ DOMAIN Append(s, e) = 1 .. Len(s) + 1
         /\ \A i \in 1 .. Len(s) : Append(s, e)[i] = s[i]
         /\ Append(s, e)[Len(s) + 1] = e
  OBVIOUS

\* The rows of a contact are stored in the order of their times, none of them before
\* tracking started and none from the future (queries.go, InsertPresence,
\* InsertPicture, InsertAbout, with the time of the insertion).
THEOREM LogIsOrdered == Spec => []LogOk
<1>1. Init => LogOk
  <2> SUFFICES ASSUME Init PROVE LogOk
    OBVIOUS
  <2>1. rows = <<>> /\ now = Start /\ offset \in Zones
    BY DEF Init
  <2>2. rows \in Seq(Logged) /\ DOMAIN rows = {}
    BY <2>1
  <2>3. now \in Int /\ Start <= now
    BY <2>1, PagesAssumption
  <2> QED
    BY <2>1, <2>2, <2>3 DEF LogOk, InOrder
<1>2. LogOk /\ [Next]_vars => LogOk'
  <2> SUFFICES ASSUME LogOk, [Next]_vars PROVE LogOk'
    OBVIOUS
  <2>1. CASE Record
    <3>1. PICK k \in Kinds : rows' = Append(rows, [kind |-> k.kind, state |-> k.state, at |-> now,
                                                   lastSeen |-> IF k.seen THEN now ELSE Null])
      BY <2>1 DEF Record
    <3> DEFINE e == [kind |-> k.kind, state |-> k.state, at |-> now,
                     lastSeen |-> IF k.seen THEN now ELSE Null]
    <3>2. e \in Logged
      <4>1. now \in Int
        BY DEF LogOk
      <4>2. (IF k.seen THEN now ELSE Null) \in Int \cup {Null}
        BY <4>1
      <4> QED
        BY <4>1, <4>2 DEF Logged
    <3>3. e.at = now
      OBVIOUS
    <3>4. rows' = Append(rows, e)
      BY <3>1
    <3> HIDE DEF e
    <3>5. /\ rows' \in Seq(Logged) /\ DOMAIN rows = 1 .. Len(rows) /\ Len(rows) \in Nat
          /\ DOMAIN rows' = 1 .. Len(rows) + 1
          /\ \A i \in 1 .. Len(rows) : rows'[i] = rows[i]
          /\ rows'[Len(rows) + 1] = e
      <4>1. rows \in Seq(Logged)
        BY DEF LogOk
      <4> QED
        BY <3>2, <3>4, <4>1, Appended
    <3>6. UNCHANGED <<now, offset, days>>
      BY <2>1 DEF Record
    <3>7. ASSUME NEW i \in DOMAIN rows'
          PROVE  rows'[i].at \in Int /\ Start <= rows'[i].at /\ rows'[i].at <= now
      <4>1. i \in DOMAIN rows \/ i = Len(rows) + 1
        BY <3>5
      <4> QED
        BY <3>3, <3>5, <4>1 DEF LogOk, InOrder
    <3>8. ASSUME NEW i \in DOMAIN rows', NEW j \in DOMAIN rows', i <= j
          PROVE  rows'[i].at <= rows'[j].at
      <4>1. CASE j = Len(rows) + 1
        BY <3>3, <3>5, <3>7, <4>1
      <4>2. CASE j # Len(rows) + 1
        <5>1. i \in DOMAIN rows /\ j \in DOMAIN rows
          BY <3>5, <3>8, <4>2
        <5> QED
          BY <3>5, <3>8, <5>1 DEF LogOk, InOrder
      <4> QED
        BY <4>1, <4>2
    <3> QED
      BY <3>5, <3>6, <3>7, <3>8 DEF LogOk, InOrder
  <2>2. CASE Tick
    <3>1. rows' = rows /\ now' = now + 1 /\ offset' = offset
      BY <2>2 DEF Tick
    <3>2. now \in Int /\ Start <= now /\ Start \in Int
      BY PagesAssumption DEF LogOk
    <3>3. now' \in Int /\ Start <= now' /\ now <= now'
      BY <3>1, <3>2
    <3>4. ASSUME NEW i \in DOMAIN rows PROVE rows[i].at <= now'
      <4>1. rows[i].at \in Int /\ rows[i].at <= now
        BY DEF LogOk, InOrder
      <4> QED
        BY <3>1, <3>2, <4>1
    <3> QED
      BY <3>1, <3>3, <3>4 DEF LogOk, InOrder
  <2>3. CASE Mount
    BY <2>3 DEF LogOk, InOrder, Mount
  <2>4. CASE LoadMore
    BY <2>4 DEF LogOk, InOrder, LoadMore
  <2>5. CASE UNCHANGED vars
    BY <2>5 DEF LogOk, InOrder, vars
  <2> QED
    BY <2>1, <2>2, <2>3, <2>4, <2>5 DEF Next
<1> QED
  BY <1>1, <1>2, PTL DEF Spec

\* The days with a row before an instant.
Known(b) == {IsoDay(rows[i].at) : i \in {j \in DOMAIN rows : rows[j].at < b}}

LEMMA KnownIs ==
  ASSUME LogOk, NEW b \in Int
  PROVE  /\ Known(b) \in SUBSET Int /\ IsFiniteSet(Known(b))
         /\ \A d \in Int : d \in Known(b) <=>
              \E i \in DOMAIN rows : rows[i].at < b /\ d * Day <= rows[i].at /\ rows[i].at < (d + 1) * Day
         /\ PresenceDaysList(b, PageSize) = DayPage(Known(b), PageSize)
<1> DEFINE D == {j \in DOMAIN rows : rows[j].at < b}
           f == [i \in D |-> IsoDay(rows[i].at)]
<1>1. Len(rows) \in Nat /\ DOMAIN rows = 1 .. Len(rows) /\ \A i \in DOMAIN rows : rows[i].at \in Int
  BY DEF LogOk, InOrder
<1>2. \A i \in DOMAIN rows : /\ IsoDay(rows[i].at) \in Int
                             /\ \A d \in Int : IsoDay(rows[i].at) = d <=>
                                  d * Day <= rows[i].at /\ rows[i].at < (d + 1) * Day
  BY <1>1, IsoDayIs
<1>3. IsFiniteSet(D)
  BY <1>1, UpToSize, FS_Subset
<1>4. Known(b) = {f[i] : i \in D}
  BY DEF Known
<1>5. IsFiniteSet(Known(b))
  <2> DEFINE K == Known(b)
  <2>1. f \in [D -> K] /\ \A d \in K : \E i \in D : f[i] = d
    BY <1>4
  <2> HIDE DEF f, D, K
  <2>2. f \in Surjection(D, K)
    BY <2>1 DEF Surjection
  <2>3. IsFiniteSet(K)
    BY <1>3, <2>2, FS_Surjection
  <2> QED
    BY <2>3 DEF K
<1>6. Known(b) \in SUBSET Int
  BY <1>2 DEF Known
<1>7. \A d \in Int : d \in Known(b) <=>
              \E i \in DOMAIN rows : rows[i].at < b /\ d * Day <= rows[i].at /\ rows[i].at < (d + 1) * Day
  BY <1>2 DEF Known
<1>8. PresenceDaysList(b, PageSize) = DayPage(Known(b), PageSize)
  BY DEF PresenceDaysList, DayPage, Known
<1> QED
  BY <1>5, <1>6, <1>7, <1>8

\* What the timeline holds: days with a row, in descending order, and all those
\* that are not older than the last one of a full page.
PagesOk(d) ==
  LET all  == FlattenSeq(d.pages)
      last == Last(d.pages)
  IN  /\ d = [before |-> d.before, pages |-> d.pages]
      /\ d.before \in Int /\ d.before <= now
      /\ d.pages \in Seq(Seq(Int)) /\ d.pages # <<>>
      /\ Descending(all)
      /\ \A i \in DOMAIN all : all[i] \in Known(d.before)
      /\ Len(last) <= PageSize
      /\ Len(last) = PageSize => \A i \in DOMAIN all : Last(last) <= all[i]
      /\ Len(last) = PageSize => Last(last) \in Known(d.before)
      /\ \A k \in Known(d.before) : \/ \E i \in DOMAIN all : all[i] = k
                                    \/ Len(last) = PageSize /\ k < Last(last)

DaysOk == days # Null => PagesOk(days)

\* A page that was just read, after those that came before it.
LEMMA NextPage ==
  ASSUME LogOk, NEW b \in Int, b <= now, NEW all \in Seq(Int), Descending(all),
         \A i \in DOMAIN all : all[i] \in Known(b),
         NEW c \in Int, c <= b,
         \A k \in Known(b) : k \in Known(c) \/ \E i \in DOMAIN all : all[i] = k,
         \A k \in Known(c) : k \in Known(b) /\ \A i \in DOMAIN all : k < all[i]
  PROVE  LET p == PresenceDaysList(c, PageSize)
             a == all \o p
         IN  /\ p \in Seq(Int) /\ Len(p) <= PageSize
             /\ Descending(a)
             /\ \A i \in DOMAIN a : a[i] \in Known(b)
             /\ Len(p) = PageSize => \A i \in DOMAIN a : Last(p) <= a[i]
             /\ Len(p) = PageSize => Last(p) \in Known(b)
             /\ \A k \in Known(b) : \/ \E i \in DOMAIN a : a[i] = k
                                    \/ Len(p) = PageSize /\ k < Last(p)
<1> DEFINE p == PresenceDaysList(c, PageSize)
           a == all \o p
           K == Known(b)
           L == Known(c)
           m == Len(all)
           n == Len(p)
<1>1. K \in SUBSET Int /\ L \in SUBSET Int
  BY KnownIs
<1>2. /\ p \in Seq(Int) /\ n <= PageSize /\ DOMAIN p = 1 .. n /\ Descending(p)
      /\ \A i \in DOMAIN p : p[i] \in L
      /\ \A d \in L : \/ \E i \in DOMAIN p : p[i] = d
                      \/ n = PageSize /\ \A i \in DOMAIN p : d < p[i]
  <2>1. p = DayPage(L, PageSize) /\ L \in SUBSET Int /\ IsFiniteSet(L)
    BY KnownIs
  <2>2. PageSize \in Nat \ {0}
    BY PagesAssumption
  <2> HIDE DEF p, L
  <2> DEFINE q == DayPage(L, PageSize)
  <2>3. /\ q \in Seq(Int) /\ Len(q) <= PageSize /\ DOMAIN q = 1 .. Len(q)
        /\ Descending(q) /\ \A i \in DOMAIN q : q[i] \in L
        /\ \A d \in L : \/ \E i \in DOMAIN q : q[i] = d
                        \/ Len(q) = PageSize /\ \A i \in DOMAIN q : d < q[i]
    BY <2>1, <2>2, PageIs
  <2> HIDE DEF q
  <2>4. p = q
    BY <2>1 DEF q
  <2> QED
    BY <2>3, <2>4
<1>3. /\ \A k \in K : k \in L \/ \E i \in DOMAIN all : all[i] = k
      /\ \A k \in L : k \in K /\ \A i \in DOMAIN all : k < all[i]
      /\ \A i \in DOMAIN all : all[i] \in K
  OBVIOUS
<1> HIDE DEF p, K, L
<1>4. /\ m \in Nat /\ n \in Nat /\ DOMAIN all = 1 .. m /\ DOMAIN a = 1 .. m + n
      /\ \A i \in 1 .. m : a[i] = all[i]
      /\ \A i \in 1 .. n : a[m + i] = p[i]
      /\ a \in Seq(Int)
  BY <1>2
<1> HIDE DEF a, m, n
<1>5. ASSUME NEW i \in 1 .. m + n, ~(i <= m) PROVE i - m \in 1 .. n /\ a[i] = p[i - m]
  <2>1. i - m \in 1 .. n /\ m + (i - m) = i
    BY <1>4, <1>5
  <2> QED
    BY <1>4, <2>1
<1>6. ASSUME NEW i \in DOMAIN a, NEW j \in DOMAIN a, i < j PROVE a[j] < a[i]
  <2>1. CASE j <= m
    <3>1. i \in 1 .. m /\ j \in 1 .. m
      BY <1>4, <1>6, <2>1
    <3> QED
      BY <1>4, <1>6, <3>1 DEF Descending
  <2>2. CASE ~(j <= m) /\ i <= m
    <3>a. j \in 1 .. m + n /\ i \in 1 .. m
      BY <1>4, <2>2
    <3>1. j - m \in 1 .. n /\ a[j] = p[j - m] /\ a[j] \in L
      BY <1>2, <1>5, <2>2, <3>a
    <3>2. a[i] = all[i] /\ i \in DOMAIN all
      BY <1>4, <3>a
    <3> QED
      BY <1>3, <3>1, <3>2
  <2>3. CASE ~(i <= m)
    <3>1. ~(j <= m) /\ i \in Int /\ j \in Int /\ m \in Int
      BY <1>4, <1>6, <2>3
    <3>2. i - m \in 1 .. n /\ a[i] = p[i - m] /\ j - m \in 1 .. n /\ a[j] = p[j - m]
      BY <1>4, <1>5, <2>3, <3>1
    <3>3. i - m < j - m
      BY <1>6, <3>1
    <3> QED
      BY <1>2, <3>2, <3>3 DEF Descending
  <2> QED
    BY <1>4, <2>1, <2>2, <2>3
<1>7. ASSUME NEW i \in DOMAIN a PROVE a[i] \in K
  <2>1. CASE i <= m
    <3>1. i \in 1 .. m
      BY <1>4, <2>1
    <3> QED
      BY <1>3, <1>4, <3>1
  <2>2. CASE ~(i <= m)
    <3>1. a[i] \in L
      BY <1>2, <1>4, <1>5, <2>2
    <3> QED
      BY <1>3, <3>1
  <2> QED
    BY <2>1, <2>2
<1>8. ASSUME n = PageSize PROVE p[n] \in L /\ p[n] \in K /\ n \in 1 .. n
  <2>1. n \in 1 .. n
    BY <1>4, <1>8, PagesAssumption
  <2> QED
    BY <1>2, <1>3, <2>1
<1>9. ASSUME n = PageSize, NEW i \in DOMAIN a PROVE p[n] <= a[i]
  <2>1. DOMAIN a = 1 .. m + n /\ n = m + n - m /\ m + n \in Int /\ n \in 1 .. n
    BY <1>4, <1>8, <1>9
  <2>2. m + n \in DOMAIN a /\ ~(m + n <= m) /\ i <= m + n /\ i \in Int
    BY <1>4, <2>1
  <2>3. a[m + n] = p[n]
    BY <1>4, <2>1
  <2>4. a[i] \in Int /\ p[n] \in Int
    BY <1>1, <1>7, <1>8, <1>9
  <2>5. CASE i = m + n
    BY <2>3, <2>4, <2>5
  <2>6. CASE i < m + n
    BY <1>6, <2>2, <2>3, <2>4, <2>6
  <2> QED
    BY <2>1, <2>2, <2>5, <2>6
<1>10. ASSUME NEW k \in K
       PROVE  (\E i \in DOMAIN a : a[i] = k) \/ (n = PageSize /\ k < p[n])
  <2>1. CASE \E i \in DOMAIN all : all[i] = k
    <3>1. PICK i \in 1 .. m : all[i] = k
      BY <1>4, <2>1
    <3>2. i \in 1 .. m + n /\ a[i] = k
      BY <1>4, <3>1
    <3> QED
      BY <1>4, <3>2
  <2>2. CASE k \in L
    <3>1. CASE \E i \in DOMAIN p : p[i] = k
      <4>1. PICK i \in 1 .. n : p[i] = k
        BY <1>2, <3>1
      <4>2. m + i \in 1 .. m + n /\ a[m + i] = k
        BY <1>4, <4>1
      <4> QED
        BY <1>4, <4>2
    <3>2. CASE n = PageSize /\ \A i \in DOMAIN p : k < p[i]
      BY <1>2, <1>8, <3>2
    <3> QED
      BY <1>2, <2>2, <3>1, <3>2
  <2> QED
    BY <1>3, <2>1, <2>2
<1>11. Last(p) = p[n]
  BY DEF Last, n
<1>12. Descending(a)
  BY <1>6 DEF Descending
<1>13. /\ p \in Seq(Int) /\ n <= PageSize /\ Descending(a) /\ \A i \in DOMAIN a : a[i] \in K
       /\ n = PageSize => \A i \in DOMAIN a : Last(p) <= a[i]
       /\ n = PageSize => Last(p) \in K
       /\ \A k \in K : (\E i \in DOMAIN a : a[i] = k) \/ (n = PageSize /\ k < Last(p))
  BY <1>2, <1>7, <1>8, <1>9, <1>10, <1>11, <1>12
<1> QED
  BY <1>13, Zenon DEF a, p, n, K

\* Some of the rows of a log in order are in order as well.
LEMMA OnlySomeOf ==
  ASSUME NEW log \in Seq(Logged), InOrder(log), NEW I \in SUBSET DOMAIN log
  PROVE  /\ Only(log, I) \in Seq(Logged) /\ InOrder(Only(log, I))
         /\ SortByAt(Only(log, I)) = Only(log, I)
         /\ Ascending(I) \in Seq(I) /\ Len(Only(log, I)) = Len(Ascending(I))
         /\ \A k, l \in DOMAIN Only(log, I) : k < l => Ascending(I)[k] < Ascending(I)[l]
         /\ \A i \in I : \E k \in DOMAIN Only(log, I) : Ascending(I)[k] = i
         /\ \A k \in DOMAIN Only(log, I) : Ascending(I)[k] \in I /\ Only(log, I)[k] = log[Ascending(I)[k]]
<1> DEFINE s == Only(log, I)
           a == Ascending(I)
<1>1. log \in Seq(Logged) /\ InOrder(log)
  OBVIOUS
<1>4. /\ a \in Seq(I)
      /\ \A k, l \in DOMAIN a : k < l => a[k] < a[l]
      /\ \A i \in I : \E k \in DOMAIN a : a[k] = i
      /\ s \in Seq(Logged) /\ DOMAIN s = DOMAIN a /\ Len(s) = Len(a)
      /\ \A k \in DOMAIN a : a[k] \in I /\ s[k] = log[a[k]]
  BY <1>1, OnlyIs
<1> HIDE DEF a
<1> HIDE DEF s
<1>5. InOrder(s)
  <2>1. \A k \in DOMAIN s : s[k].at \in Int
    BY <1>1, <1>4 DEF InOrder
  <2>2. ASSUME NEW k \in DOMAIN s, NEW l \in DOMAIN s, k <= l PROVE s[k].at <= s[l].at
    <3>1. CASE k = l
      BY <2>1, <3>1
    <3>2. CASE k # l
      <4>1. k \in Int /\ l \in Int /\ k < l
        BY <1>4, <2>2, <3>2
      <4>2. a[k] \in DOMAIN log /\ a[l] \in DOMAIN log /\ a[k] < a[l]
        BY <1>1, <1>4, <4>1
      <4>3. log[a[k]].at <= log[a[l]].at
        <5> DEFINE i == a[k]
                   j == a[l]
        <5>1. i \in DOMAIN log /\ j \in DOMAIN log /\ i < j
          BY <4>2
        <5> HIDE DEF i, j
        <5>2. i \in Int /\ j \in Int
          BY <1>1, <5>1
        <5>3. log[i].at <= log[j].at
          BY <1>1, <5>1, <5>2 DEF InOrder
        <5> QED
          BY <5>3 DEF i, j
      <4> QED
        BY <1>4, <4>3
    <3> QED
      BY <3>1, <3>2
  <2> QED
    BY <2>1, <2>2 DEF InOrder
<1>6. SortByAt(s) = s
  BY <1>4, <1>5, SortedStays
<1> QED
  BY <1>4, <1>5, <1>6 DEF s, a

\* ... of the log the pages read.
LEMMA OnlySome ==
  ASSUME LogOk, NEW I \in SUBSET DOMAIN rows
  PROVE  /\ Only(rows, I) \in Seq(Logged) /\ InOrder(Only(rows, I))
         /\ SortByAt(Only(rows, I)) = Only(rows, I)
         /\ Ascending(I) \in Seq(I) /\ Len(Only(rows, I)) = Len(Ascending(I))
         /\ \A k, l \in DOMAIN Only(rows, I) : k < l => Ascending(I)[k] < Ascending(I)[l]
         /\ \A i \in I : \E k \in DOMAIN Only(rows, I) : Ascending(I)[k] = i
         /\ \A k \in DOMAIN Only(rows, I) : Ascending(I)[k] \in I /\ Only(rows, I)[k] = rows[Ascending(I)[k]]
<1>1. rows \in Seq(Logged) /\ InOrder(rows)
  BY DEF LogOk
<1> QED
  BY <1>1, OnlySomeOf

\* The rows of a day are those rows, in their order, and one of a day that the
\* timeline lists is drawn on that day only.
LEMMA DayRowsAre ==
  ASSUME LogOk, NEW d \in Int
  PROVE  \A i \in DOMAIN rows : Contains(DayRows(d), rows[i]) <=> IsoDay(rows[i].at) = d
<1> DEFINE I == {i \in DOMAIN rows : d * Day <= rows[i].at /\ rows[i].at < (d + 1) * Day}
           s == Only(rows, I)
<1>1. rows \in Seq(Logged) /\ InOrder(rows) /\ I \in SUBSET DOMAIN rows
  BY DEF LogOk
<1>2. \A i \in DOMAIN rows : i \in I <=> IsoDay(rows[i].at) = d
  BY <1>1, IsoDayIs DEF InOrder
<1>3. DayRows(d) = SortByAt(s)
  BY DEF DayRows
<1> DEFINE a == Ascending(I)
<1> HIDE DEF I
<1>4. /\ s \in Seq(Logged) /\ SortByAt(s) = s
      /\ \A i \in I : \E k \in DOMAIN s : a[k] = i
      /\ \A k \in DOMAIN s : a[k] \in I /\ s[k] = rows[a[k]]
  BY <1>1, OnlySome
<1> HIDE DEF a, s
<1>6. DayRows(d) = s
  BY <1>3, <1>4
<1>7. DOMAIN s = 1 .. Len(s)
  BY <1>4
<1>8. ASSUME NEW i \in DOMAIN rows, i \in I PROVE \E k \in 1 .. Len(s) : s[k] = rows[i]
  BY <1>4, <1>7, <1>8
<1>9. ASSUME NEW i \in DOMAIN rows, NEW k \in 1 .. Len(s), s[k] = rows[i] PROVE i \in I
  <2>1. a[k] \in I /\ s[k] = rows[a[k]] /\ a[k] \in DOMAIN rows
    BY <1>1, <1>4, <1>7
  <2>2. rows[a[k]] = rows[i]
    BY <1>9, <2>1
  <2> HIDE DEF I
  <2>3. IsoDay(rows[a[k]].at) = d
    BY <1>2, <2>1
  <2>4. IsoDay(rows[i].at) = d
    BY <2>2, <2>3
  <2> QED
    BY <1>2, <2>4
<1> QED
  BY <1>2, <1>6, <1>8, <1>9 DEF Contains

\* Page after page the timeline lists the days with a row, newest first, none
\* twice and none left out (ActivityTimeline.tsx, getNextPageParam; queries.go,
\* PresenceDaysList).
LEMMA PagesStay == LogOk /\ DaysOk /\ [Next]_vars /\ LogOk' => DaysOk'
<1> SUFFICES ASSUME LogOk, DaysOk, [Next]_vars, LogOk', days' # Null PROVE PagesOk(days)'
  BY DEF DaysOk
<1>1. \A i \in DOMAIN rows : rows[i].at \in Int /\ rows[i].at <= now
  BY DEF LogOk, InOrder
<1>2. now \in Int /\ PageSize \in Nat \ {0} /\ rows \in Seq(Logged)
  BY PagesAssumption DEF LogOk
<1>3. ASSUME Record \/ Tick \/ UNCHANGED vars PROVE PagesOk(days)'
  <2>1. days' = days /\ PagesOk(days) /\ now' \in Int /\ now <= now'
    BY <1>2, <1>3 DEF Record, Tick, vars, DaysOk
  <2>2. days.before \in Int /\ days.before <= now
    BY <2>1 DEF PagesOk
  <2>3. Known(days.before)' = Known(days.before)
    <3>1. CASE rows' = rows
      BY <2>1, <3>1 DEF Known
    <3>2. CASE Record
      <4>1. PICK e : rows' = Append(rows, e) /\ e.at = now
        BY <3>2 DEF Record
      <4>2. /\ Len(rows) \in Nat /\ DOMAIN rows = 1 .. Len(rows) /\ DOMAIN rows' = 1 .. Len(rows) + 1
            /\ \A i \in 1 .. Len(rows) : rows'[i] = rows[i]
            /\ rows'[Len(rows) + 1] = e
        BY <1>2, <4>1
      <4>3. {j \in DOMAIN rows' : rows'[j].at < days.before} = {j \in DOMAIN rows : rows[j].at < days.before}
        <5>1. ~(rows'[Len(rows) + 1].at < days.before)
          BY <1>2, <2>2, <4>1, <4>2
        <5>2. \A j \in DOMAIN rows' : j \in DOMAIN rows \/ j = Len(rows) + 1
          BY <4>2
        <5>3. \A j \in DOMAIN rows : j \in DOMAIN rows' /\ rows'[j] = rows[j]
          BY <4>2
        <5> QED
          BY <5>1, <5>2, <5>3
      <4>4. \A j \in DOMAIN rows : rows'[j] = rows[j]
        BY <4>2
      <4> QED
        BY <2>1, <4>3, <4>4 DEF Known
    <3> QED
      BY <1>3, <3>1, <3>2 DEF Tick, vars
  <2>4. days.before <= now'
    BY <1>2, <2>1, <2>2
  <2> QED
    BY <2>1, <2>3, <2>4 DEF PagesOk
<1>4. CASE Mount
  <2> DEFINE p == PresenceDaysList(now, PageSize)
             d == [before |-> now, pages |-> <<p>>]
  <2>1. days' = d /\ rows' = rows /\ now' = now
    BY <1>4 DEF Mount
  <2>2. /\ <<>> \in Seq(Int) /\ Descending(<<>>) /\ DOMAIN <<>> = {}
    BY DEF Descending
  <2>3. LET a == <<>> \o p
        IN  /\ p \in Seq(Int) /\ Len(p) <= PageSize
            /\ Descending(a)
            /\ \A i \in DOMAIN a : a[i] \in Known(now)
            /\ Len(p) = PageSize => \A i \in DOMAIN a : Last(p) <= a[i]
            /\ Len(p) = PageSize => Last(p) \in Known(now)
            /\ \A k \in Known(now) : (\E i \in DOMAIN a : a[i] = k) \/ (Len(p) = PageSize /\ k < Last(p))
    <3> DEFINE e == <<>>
    <3>1. e \in Seq(Int) /\ Descending(e) /\ DOMAIN e = {} /\ now <= now
      BY <1>2, <2>2
    <3> HIDE DEF e, p
    <3>2. /\ \A k \in Known(now) : k \in Known(now) \/ \E i \in DOMAIN e : e[i] = k
          /\ \A k \in Known(now) : k \in Known(now) /\ \A i \in DOMAIN e : k < e[i]
          /\ \A i \in DOMAIN e : e[i] \in Known(now)
      BY <3>1
    <3>3. LET q == PresenceDaysList(now, PageSize)
              a == e \o q
          IN  /\ q \in Seq(Int) /\ Len(q) <= PageSize
              /\ Descending(a)
              /\ \A i \in DOMAIN a : a[i] \in Known(now)
              /\ Len(q) = PageSize => \A i \in DOMAIN a : Last(q) <= a[i]
              /\ Len(q) = PageSize => Last(q) \in Known(now)
              /\ \A k \in Known(now) : (\E i \in DOMAIN a : a[i] = k) \/ (Len(q) = PageSize /\ k < Last(q))
      BY <1>2, <3>1, <3>2, NextPage
    <3> QED
      BY <3>3 DEF e, p
  <2> HIDE DEF p
  <2>4. <<>> \o p = p /\ FlattenSeq(<<p>>) = p /\ <<p>> \in Seq(Seq(Int)) /\ <<p>> # <<>>
    BY <2>3, FlattenOne
  <2>5. Last(<<p>>) = p
    BY DEF Last
  <2>6. d.before = now /\ d.pages = <<p>> /\ now <= now
    BY <1>2
  <2> HIDE DEF d
  <2>7. d = [before |-> d.before, pages |-> d.pages]
    BY <2>6 DEF d
  <2>8. PagesOk(d)
    BY <1>2, <2>3, <2>4, <2>5, <2>6, <2>7 DEF PagesOk
  <2>9. Known(days.before)' = Known(d.before)
    BY <2>1 DEF Known
  <2> QED
    BY <2>1, <2>8, <2>9 DEF PagesOk
<1>5. CASE LoadMore
  <2> DEFINE b == days.before
             all == FlattenSeq(days.pages)
             last == Last(days.pages)
             c == Last(last) * Day
             p == PresenceDaysList(c, PageSize)
             d == [before |-> b, pages |-> Append(days.pages, p)]
  <2>1. days # Null /\ PagesOk(days) /\ NextParam(last) # Null
    BY <1>5 DEF LoadMore, DaysOk
  <2>2. Len(last) = PageSize /\ NextParam(last) = c
    <3>1. last \in Seq(Int)
      <4>1. days.pages \in Seq(Seq(Int)) /\ days.pages # <<>>
        BY <2>1 DEF PagesOk
      <4> HIDE DEF last, all, c, p, d
      <4> DEFINE T == Seq(Int)
      <4> HIDE DEF T
      <4>2. days.pages \in Seq(T) /\ days.pages # <<>>
        BY <4>1 DEF T
      <4>3. Len(days.pages) \in DOMAIN days.pages
        BY <4>2
      <4>4. days.pages[Len(days.pages)] \in T
        BY <4>2, <4>3
      <4> QED
        BY <4>4 DEF T, last, Last
    <3>2. Len(last) <= PageSize /\ ~(Len(last) < PageSize)
      BY <2>1 DEF PagesOk, NextParam
    <3>3. Len(last) \in Nat
      BY <3>1
    <3> QED
      BY <1>2, <3>2, <3>3 DEF NextParam
  <2>3. rows' = rows /\ now' = now /\ days' = d
    <3>1. rows' = rows /\ now' = now /\ days' = [days EXCEPT !.pages = Append(@, PresenceDaysList(NextParam(last), PageSize))]
      BY <1>5 DEF LoadMore
    <3>2. days = [before |-> days.before, pages |-> days.pages]
      BY <2>1 DEF PagesOk
    <3>3. days' = [before |-> days.before, pages |-> Append(days.pages, PresenceDaysList(NextParam(last), PageSize))]
      BY <3>1, <3>2
    <3> QED
      BY <2>2, <3>1, <3>3
  <2>4. /\ b \in Int /\ b <= now /\ days.pages \in Seq(Seq(Int)) /\ days.pages # <<>>
        /\ Descending(all) /\ \A i \in DOMAIN all : all[i] \in Known(b)
        /\ \A i \in DOMAIN all : Last(last) <= all[i]
        /\ Last(last) \in Known(b)
        /\ \A k \in Known(b) : (\E i \in DOMAIN all : all[i] = k) \/ k < Last(last)
    BY <2>1, <2>2 DEF PagesOk
  <2>5. all \in Seq(Int)
    BY <2>4, FlattenAppend
  <2> DEFINE m == Last(last)
  <2>6. Known(b) \in SUBSET Int /\ m \in Int /\ Day \in Nat \ {0} /\ c \in Int
    <3>1. Known(b) \in SUBSET Int
      BY <2>4, KnownIs
    <3>2. m \in Int
      BY <2>4, <3>1
    <3> HIDE DEF m
    <3>3. Day \in Nat \ {0}
      BY Calendar
    <3>4. m * Day \in Int
      BY <3>2, <3>3, Product
    <3> QED
      BY <3>1, <3>2, <3>3, <3>4 DEF m
  <2>7. c < b
    <3>1. PICK i \in DOMAIN rows : rows[i].at < b /\ m * Day <= rows[i].at
      BY <2>4, <2>6, KnownIs
    <3>2. rows[i].at \in Int /\ c <= rows[i].at /\ c \in Int /\ b \in Int
      BY <1>1, <2>4, <2>6, <3>1
    <3> HIDE DEF c, b
    <3> QED
      BY <3>1, <3>2
  <2>8. ASSUME NEW k \in Int PROVE k \in Known(c) <=> k \in Known(b) /\ k < m
    <3> DEFINE lo == k * Day
               hi == (k + 1) * Day
    <3>1. lo \in Int /\ hi \in Int /\ (k < m => hi <= c) /\ (~(k < m) => c <= lo)
      <4>1. ASSUME NEW x \in Int, NEW y \in Int, x <= y, NEW z \in Nat \ {0} PROVE x * z <= y * z
        BY <4>1, SMTT(20)
      <4>2. Day \in Nat \ {0} /\ k + 1 \in Int /\ m \in Int
        BY <2>6
      <4> HIDE DEF m, c
      <4>3. lo \in Int /\ hi \in Int
        BY <4>2, Product
      <4>4. k < m => k + 1 <= m
        BY <4>2
      <4>5. ~(k < m) => m <= k
        BY <4>2
      <4>6. k < m => (k + 1) * Day <= m * Day
        BY <4>1, <4>2, <4>4
      <4>7. ~(k < m) => m * Day <= k * Day
        BY <4>1, <4>2, <4>5
      <4> QED
        BY <4>3, <4>6, <4>7 DEF c, m
    <3>2. k \in Known(c) <=> \E i \in DOMAIN rows : rows[i].at < c /\ lo <= rows[i].at /\ rows[i].at < hi
      BY <2>6, KnownIs
    <3>3. k \in Known(b) <=> \E i \in DOMAIN rows : rows[i].at < b /\ lo <= rows[i].at /\ rows[i].at < hi
      BY <2>4, KnownIs
    <3>4. c \in Int /\ b \in Int /\ \A i \in DOMAIN rows : rows[i].at \in Int
      BY <1>1, <2>4, <2>6
    <3> HIDE DEF lo, hi, c, b, m
    <3> QED
      BY <2>7, <3>1, <3>2, <3>3, <3>4
  <2>9. Known(c) \in SUBSET Int
    BY <2>6, KnownIs
  <2>10. LET q == PresenceDaysList(c, PageSize)
             a == all \o q
         IN  /\ q \in Seq(Int) /\ Len(q) <= PageSize
             /\ Descending(a)
             /\ \A i \in DOMAIN a : a[i] \in Known(b)
             /\ Len(q) = PageSize => \A i \in DOMAIN a : Last(q) <= a[i]
             /\ Len(q) = PageSize => Last(q) \in Known(b)
             /\ \A k \in Known(b) : (\E i \in DOMAIN a : a[i] = k) \/ (Len(q) = PageSize /\ k < Last(q))
    <3>1. c \in Int /\ b \in Int /\ b <= now /\ c <= b
      <4>1. c \in Int /\ b \in Int /\ c < b /\ b <= now
        BY <2>4, <2>6, <2>7
      <4> HIDE DEF c, b
      <4> QED
        BY <4>1
    <3>2. ASSUME NEW k \in Known(b) PROVE k \in Known(c) \/ \E i \in DOMAIN all : all[i] = k
      BY <2>4, <2>6, <2>8
    <3>3. ASSUME NEW k \in Known(c) PROVE k \in Known(b) /\ \A i \in DOMAIN all : k < all[i]
      <4>1. k \in Known(b) /\ k < m /\ k \in Int
        BY <2>8, <2>9
      <4>2. ASSUME NEW i \in DOMAIN all PROVE k < all[i]
        <5>1. m <= all[i] /\ all[i] \in Int /\ m \in Int
          BY <2>4, <2>6
        <5> HIDE DEF m, all
        <5> QED
          BY <4>1, <5>1
      <4> QED
        BY <4>1, <4>2
    <3>4. /\ \A k \in Known(b) : k \in Known(c) \/ \E i \in DOMAIN all : all[i] = k
          /\ \A k \in Known(c) : k \in Known(b) /\ \A i \in DOMAIN all : k < all[i]
      BY <3>2, <3>3
    <3>5. all \in Seq(Int) /\ Descending(all) /\ \A i \in DOMAIN all : all[i] \in Known(b)
      BY <2>4, <2>5
    <3> HIDE DEF c, b, all, last, m, p, d
    <3> QED
      BY <3>1, <3>4, <3>5, NextPage
  <2>11. Append(days.pages, p) \in Seq(Seq(Int)) /\ FlattenSeq(Append(days.pages, p)) = all \o p
         /\ Append(days.pages, p) # <<>> /\ Last(Append(days.pages, p)) = p
    <3>1. p \in Seq(Int)
      BY <2>10
    <3> HIDE DEF p
    <3>2. FlattenSeq(Append(days.pages, p)) = FlattenSeq(days.pages) \o p
      BY <2>4, <3>1, FlattenAppend
    <3> DEFINE T == Seq(Int)
               s == days.pages
    <3>3. s \in Seq(T) /\ p \in T
      BY <2>4, <3>1
    <3> HIDE DEF T, s, all
    <3>4. Append(s, p) \in Seq(T) /\ Append(s, p) # <<>> /\ Last(Append(s, p)) = p
      BY <3>3 DEF Last
    <3> QED
      BY <3>2, <3>4 DEF T, s, all
  <2>12. d.before = b /\ d.pages = Append(days.pages, p)
    OBVIOUS
  <2> HIDE DEF d
  <2>13. d = [before |-> d.before, pages |-> d.pages]
    BY <2>12 DEF d
  <2> HIDE DEF p, all, c, last, b
  <2>14. PagesOk(d)
    <3>1. LET q == p
              a == all \o q
          IN  /\ q \in Seq(Int) /\ Len(q) <= PageSize
              /\ Descending(a)
              /\ \A i \in DOMAIN a : a[i] \in Known(b)
              /\ Len(q) = PageSize => \A i \in DOMAIN a : Last(q) <= a[i]
              /\ Len(q) = PageSize => Last(q) \in Known(b)
              /\ \A k \in Known(b) : (\E i \in DOMAIN a : a[i] = k) \/ (Len(q) = PageSize /\ k < Last(q))
      BY <2>10 DEF p
    <3> QED
      BY <2>4, <2>11, <2>12, <2>13, <3>1 DEF PagesOk
  <2>15. Known(days.before)' = Known(d.before)
    BY <2>3 DEF Known
  <2> QED
    BY <2>3, <2>14, <2>15 DEF PagesOk
<1> QED
  BY <1>3, <1>4, <1>5 DEF Next

LEMMA PagesList == LogOk /\ DaysOk => DaysListed
<1> SUFFICES ASSUME LogOk, DaysOk, days # Null PROVE DaysListed
  BY DEF DaysListed
<1> DEFINE K == Known(days.before)
           last == Last(days.pages)
<1>1. /\ days.before \in Int /\ Descending(AllDays) /\ AllDays \in Seq(Int)
      /\ \A i \in DOMAIN AllDays : AllDays[i] \in K
      /\ Len(last) = PageSize => /\ \A i \in DOMAIN AllDays : Last(last) <= AllDays[i]
                                 /\ Last(last) \in K
      /\ \A k \in K : \/ \E i \in DOMAIN AllDays : AllDays[i] = k
                      \/ Len(last) = PageSize /\ k < Last(last)
  <2>1. PagesOk(days) /\ AllDays = FlattenSeq(days.pages)
    BY DEF DaysOk, AllDays
  <2>2. FlattenSeq(days.pages) \in Seq(Int)
    BY <2>1, FlattenAppend DEF PagesOk
  <2> QED
    BY <2>1, <2>2 DEF PagesOk
<1>2. K \in SUBSET Int
  BY <1>1, KnownIs
<1>3. K = {IsoDay(rows[i].at) : i \in {j \in DOMAIN rows : rows[j].at < days.before}}
  BY DEF Known
<1>4. PageSize \in Nat \ {0} /\ Day \in Nat \ {0}
  BY PagesAssumption, Calendar
<1>5. ASSUME Len(last) = PageSize PROVE NextParam(last) # Null
  <2>1. Last(last) \in Int
    BY <1>1, <1>2, <1>5
  <2>2. Last(last) * Day \in Int
    BY <1>4, <2>1, Product
  <2>3. NextParam(last) = Last(last) * Day
    BY <1>4, <1>5 DEF NextParam
  <2> QED
    BY <2>2, <2>3, NullAssumption
<1> HIDE DEF K, last
<1>6. ASSUME NEW i \in 2 .. Len(AllDays) PROVE AllDays[i] < AllDays[i - 1]
  <2>1. i - 1 \in DOMAIN AllDays /\ i \in DOMAIN AllDays /\ i - 1 < i
    BY <1>1
  <2> QED
    BY <1>1, <2>1 DEF Descending
<1>7. ToSet(AllDays) \subseteq K
  BY <1>1 DEF ToSet
<1>8. ASSUME NEW d \in K \ ToSet(AllDays)
      PROVE  NextParam(last) # Null /\ \A e \in ToSet(AllDays) : d < e
  <2>1. Len(last) = PageSize /\ d < Last(last)
    BY <1>1 DEF ToSet
  <2>2. d \in Int /\ Last(last) \in Int
    BY <1>1, <1>2, <2>1
  <2>3. ASSUME NEW e \in ToSet(AllDays) PROVE d < e
    <3>1. Last(last) <= e /\ e \in Int
      BY <1>1, <1>2, <2>1 DEF ToSet
    <3> QED
      BY <2>1, <2>2, <3>1
  <2> QED
    BY <1>5, <2>1, <2>3
<1>9. ASSUME NextParam(last) = Null, NEW i \in DOMAIN rows, rows[i].at < days.before
      PROVE  Cardinality({d \in ToSet(AllDays) : Contains(DayRows(d), rows[i])}) = 1
  <2> DEFINE k == IsoDay(rows[i].at)
             S == {d \in ToSet(AllDays) : Contains(DayRows(d), rows[i])}
  <2>1. k \in K
    BY <1>3, <1>9
  <2>2. k \in ToSet(AllDays)
    <3>1. Len(last) # PageSize
      BY <1>5, <1>9
    <3> HIDE DEF k
    <3> QED
      BY <1>1, <2>1, <3>1 DEF ToSet
  <2>3. ASSUME NEW d \in ToSet(AllDays) PROVE Contains(DayRows(d), rows[i]) <=> d = k
    <3>1. d \in Int
      BY <1>2, <1>7
    <3> QED
      BY <3>1, DayRowsAre
  <2> HIDE DEF k
  <2>4. S = {k}
    BY <2>2, <2>3
  <2> HIDE DEF S
  <2>5. Cardinality(S) = 1
    BY <2>4, FS_Singleton
  <2> QED
    BY <2>5 DEF S
<1> QED
  BY <1>3, <1>6, <1>7, <1>8, <1>9 DEF DaysListed, last

\* For any log, page size and number of pages: the timeline lists each day with a row
\* once, newest first and none left out, and its sections hold every row older than
\* the first request (ActivityTimeline.tsx, getNextPageParam; queries.go,
\* PresenceDaysList).
THEOREM DaysAreListed == Spec => []DaysListed
<1>1. Init => DaysOk
  BY DEF Init, DaysOk
<1>2. LogOk /\ DaysOk /\ [Next]_vars /\ LogOk' => DaysOk'
  BY PagesStay
<1>3. LogOk /\ DaysOk => DaysListed
  BY PagesList
<1> QED
  BY <1>1, <1>2, <1>3, LogIsOrdered, PTL DEF Spec

-----------------------------------------------------------------------------
(***************************************************************************)
(* The list of contacts in the sidebar.  What is asked for by the button   *)
(* is always the page after those that are there, and a page is cut out of *)
(* the server's order where the pages before it end.                       *)
(***************************************************************************)
\* The greatest numbers of a finite set first.
LEMMA NewestIs ==
  ASSUME NEW S \in SUBSET Nat, IsFiniteSet(S)
  PROVE  /\ Newest(S) \in Seq(S) /\ Len(Newest(S)) = Cardinality(S)
         /\ Cardinality(S) \in Nat
<1> DEFINE n == Cardinality(S)
           above(x) == {y \in S : y > x}
           below(x) == {y \in S : y < x}
<1>1. n \in Nat /\ \A T \in SUBSET S : IsFiniteSet(T) /\ Cardinality(T) \in Nat
  BY FS_Subset, FS_CardinalityType
<1>2. ASSUME NEW x \in S PROVE Cardinality(above(x)) = (n - 1) - Rank(S, x)
  <2> DEFINE A == above(x)
             B == below(x)
  <2>1. S \ {x} = A \cup B /\ A \cap B = {} /\ A \in SUBSET S /\ B \in SUBSET S
    <3>1. \A y \in S : y \in Int /\ (y # x <=> y > x \/ y < x) /\ ~(y > x /\ y < x)
      OBVIOUS
    <3>2. A \in SUBSET S /\ B \in SUBSET S
      OBVIOUS
    <3>3. A \cap B = {}
      BY <3>1
    <3>4. S \ {x} = A \cup B
      BY <3>1
    <3> QED
      BY <3>2, <3>3, <3>4
  <2>2. Rank(S, x) = Cardinality(B)
    BY DEF Rank
  <2> HIDE DEF A, B
  <2>3. IsFiniteSet(A) /\ IsFiniteSet(B) /\ Cardinality(A) \in Nat /\ Cardinality(B) \in Nat
    BY <1>1, <2>1
  <2>4. Cardinality(A \cup B) = Cardinality(A) + Cardinality(B) - Cardinality(A \cap B)
    BY <2>3, FS_Union
  <2>5. Cardinality(A \cap B) = 0
    BY <2>1, FS_EmptySet
  <2>6. Cardinality(S \ {x}) = n - 1
    BY FS_RemoveElement
  <2>7. n - 1 = Cardinality(A) + Cardinality(B)
    <3>1. Cardinality(A \cup B) = n - 1
      BY <2>1, <2>6, Zenon
    <3> DEFINE u == Cardinality(A \cup B)
               v == Cardinality(A \cap B)
    <3>2. u = n - 1 /\ v = 0 /\ u = Cardinality(A) + Cardinality(B) - v
      BY <2>4, <2>5, <3>1
    <3> HIDE DEF u, v
    <3> QED
      BY <1>1, <2>3, <3>2
  <2>8. Cardinality(A) = (n - 1) - Rank(S, x)
    BY <1>1, <2>2, <2>3, <2>7
  <2> QED
    BY <2>8 DEF A
<1>3. Newest(S) = [k \in 1 .. n |-> CHOOSE x \in S : Cardinality(above(x)) = k - 1]
  BY DEF Newest, Cardinality, Cardinality
<1> HIDE DEF above
<1>4. ASSUME NEW k \in 1 .. n PROVE \E x \in S : Cardinality(above(x)) = k - 1
  <2> DEFINE r == n - k
  <2>1. r \in 0 .. n - 1 /\ (n - 1) - r = k - 1
    BY <1>1
  <2>2. S \in SUBSET Int
    OBVIOUS
  <2> HIDE DEF r
  <2>3. PICK x \in S : Rank(S, x) = r
    BY <2>1, <2>2, Ranks
  <2> QED
    BY <1>2, <2>1, <2>3
<1> DEFINE g == Newest(S)
<1>5. ASSUME NEW k \in 1 .. n PROVE g[k] \in S
  <2>1. g[k] = CHOOSE x \in S : Cardinality(above(x)) = k - 1
    BY <1>3
  <2> HIDE DEF g
  <2> QED
    BY <1>4, <2>1
<1>6. g = [k \in 1 .. n |-> g[k]]
  BY <1>3
<1> HIDE DEF g, n
<1>7. g \in Seq(S) /\ Len(g) = n
  BY <1>1, <1>5, <1>6
<1> QED
  BY <1>1, <1>7 DEF g, n

BarOk ==
  /\ tracked \subseteq Ids /\ paused \subseteq Ids /\ tracked \cap paused = {}
  /\ pages \in Seq(Page)
  /\ fetch \in [pc : {"idle", "count", "list"}, kind : {"all", "next"}, page : Nat \ {0},
                total : Nat, built : Seq(Page), want : Nat]
  /\ fetch.kind = "next" => fetch.page = Len(pages) + 1

LEMMA OrderIs ==
  ASSUME BarOk
  PROVE  /\ Order \in Seq(Ids) /\ Len(Order) = Cardinality(tracked \cup paused)
         /\ Cardinality(tracked \cup paused) = Cardinality(tracked \cup paused)
         /\ Cardinality(tracked \cup paused) \in Nat
<1>1. IsFiniteSet(Ids) /\ Ids \subseteq Nat
  <2>1. IsFiniteSet(Ids) => IsFiniteSet(Ids)
    BY DEF IsFiniteSet, IsFiniteSet
  <2> QED
    BY <2>1, SidebarBounds
<1>2. tracked \in SUBSET Ids /\ paused \in SUBSET Ids
  BY DEF BarOk
<1>3. /\ IsFiniteSet(tracked) /\ IsFiniteSet(paused)
      /\ tracked \in SUBSET Nat /\ paused \in SUBSET Nat
  BY <1>1, <1>2, FS_Subset
<1>4. /\ Newest(tracked) \in Seq(tracked) /\ Len(Newest(tracked)) = Cardinality(tracked)
      /\ Cardinality(tracked) \in Nat
  BY <1>3, NewestIs
<1>5. /\ Newest(paused) \in Seq(paused) /\ Len(Newest(paused)) = Cardinality(paused)
      /\ Cardinality(paused) \in Nat
  BY <1>3, NewestIs
<1>6. Cardinality(tracked \cup paused) = Cardinality(tracked) + Cardinality(paused) - Cardinality(tracked \cap paused)
  BY <1>3, FS_Union
<1>7. Cardinality(tracked \cap paused) = 0
  BY FS_EmptySet DEF BarOk
<1>8. Cardinality(tracked \cup paused) = Cardinality(tracked) + Cardinality(paused)
  BY <1>4, <1>5, <1>6, <1>7
<1>9. ASSUME NEW a \in Seq(tracked), NEW b \in Seq(paused)
      PROVE  a \o b \in Seq(Ids) /\ Len(a \o b) = Len(a) + Len(b)
  <2>1. a \in Seq(Ids) /\ b \in Seq(Ids)
    <3>1. \A i \in 1 .. Len(a) : a[i] \in Ids
      <4>1. ASSUME NEW i \in 1 .. Len(a) PROVE a[i] \in Ids
        <5>1. a[i] \in tracked
          OBVIOUS
        <5> QED
          BY <1>2, <5>1
      <4> QED
        BY <4>1
    <3>2. \A i \in 1 .. Len(b) : b[i] \in Ids
      <4>1. ASSUME NEW i \in 1 .. Len(b) PROVE b[i] \in Ids
        <5>1. b[i] \in paused
          OBVIOUS
        <5> QED
          BY <1>2, <5>1
      <4> QED
        BY <4>1
    <3>3. a = [i \in 1 .. Len(a) |-> a[i]] /\ b = [i \in 1 .. Len(b) |-> b[i]]
      OBVIOUS
    <3>4. Len(a) \in Nat /\ Len(b) \in Nat
      OBVIOUS
    <3>5. a \in Seq(Ids)
      BY <3>1, <3>3, <3>4
    <3>6. b \in Seq(Ids)
      BY <3>2, <3>3, <3>4
    <3> QED
      BY <3>5, <3>6
  <2> QED
    BY <2>1
<1>10. Cardinality(tracked \cup paused) = Cardinality(tracked \cup paused)
  BY DEF Cardinality, Cardinality
<1>11. Order \in Seq(Ids) /\ Len(Order) = Cardinality(tracked) + Cardinality(paused)
  BY <1>4, <1>5, <1>9 DEF Order
<1>12. Cardinality(tracked \cup paused) \in Nat
  BY <1>4, <1>5, <1>8
<1> QED
  BY <1>8, <1>10, <1>11, <1>12

LEMMA ListContactsIs ==
  ASSUME BarOk, NEW n \in Nat, n # 0
  PROVE  LET N     == Cardinality(tracked \cup paused)
             first == (n - 1) * BarSize + 1
             last  == IF n * BarSize < N THEN n * BarSize ELSE N
         IN  /\ ListContacts(n) = SubSeq(Order, first, last)
             /\ ListContacts(n) \in Seq(Ids)
             /\ (n - 1) * BarSize \in Nat /\ n * BarSize = (n - 1) * BarSize + BarSize
             /\ BarSize \in Nat \ {0}
<1> DEFINE N == Cardinality(tracked \cup paused)
<1>1. BarSize \in Nat \ {0}
  BY SidebarBounds
<1>2. (n - 1) * BarSize \in Nat /\ n * BarSize = (n - 1) * BarSize + BarSize /\ n * BarSize \in Nat
  <2>1. ASSUME NEW a \in Nat, NEW b \in Nat PROVE a * b \in Nat /\ (a + 1) * b = a * b + b
    OBVIOUS
  <2>2. n - 1 \in Nat /\ (n - 1) + 1 = n
    OBVIOUS
  <2> DEFINE m == n - 1
  <2>3. m * BarSize \in Nat /\ (m + 1) * BarSize = m * BarSize + BarSize
    BY <1>1, <2>1, <2>2
  <2>4. n * BarSize = (m + 1) * BarSize
    BY <2>2
  <2> HIDE DEF m
  <2> DEFINE p == m * BarSize
             q == n * BarSize
  <2>5. p \in Nat /\ q = p + BarSize
    BY <2>3, <2>4
  <2> HIDE DEF p, q
  <2>6. q \in Nat
    BY <1>1, <2>5
  <2> QED
    BY <2>5, <2>6 DEF p, q, m
<1>3. Order \in Seq(Ids) /\ Len(Order) = N /\ N \in Nat
  BY OrderIs
<1> DEFINE first == (n - 1) * BarSize + 1
           last  == IF n * BarSize < N THEN n * BarSize ELSE N
<1>4. ListContacts(n) = SubSeq(Order, first, last)
  BY <1>3 DEF ListContacts
<1>5. first \in Nat /\ first >= 1 /\ last \in Nat /\ last <= N
  <2> DEFINE p == (n - 1) * BarSize
             q == n * BarSize
  <2>1. p \in Nat /\ q \in Nat /\ first = p + 1 /\ last = IF q < N THEN q ELSE N
    BY <1>2
  <2> HIDE DEF p, q, first, last, N
  <2> QED
    BY <1>3, <2>1
<1> HIDE DEF first, last, N
<1>6. SubSeq(Order, first, last) \in Seq(Ids)
  <2> DEFINE o == Order
  <2>1. o \in Seq(Ids) /\ Len(o) = N /\ N \in Nat
    BY <1>3
  <2> HIDE DEF o
  <2>2. \A i \in first .. last : i \in 1 .. Len(o)
    BY <1>5, <2>1
  <2>3. SubSeq(o, first, last) \in Seq(Ids)
    BY <1>5, <2>1, <2>2
  <2> QED
    BY <2>3 DEF o
<1> QED
  BY <1>1, <1>2, <1>4, <1>6 DEF first, last, N

LEMMA BarStarts == BarInit => BarOk
<1> SUFFICES ASSUME BarInit PROVE BarOk
  OBVIOUS
<1>1. /\ tracked \subseteq Ids /\ paused \subseteq Ids /\ tracked \cap paused = {}
      /\ pages = <<>> /\ fetch = [NoFetch EXCEPT !.pc = "count"]
  BY DEF BarInit
<1>2. pages \in Seq(Page)
  BY <1>1
<1>3. fetch \in [pc : {"idle", "count", "list"}, kind : {"all", "next"}, page : Nat \ {0},
                total : Nat, built : Seq(Page), want : Nat]
  <2> DEFINE P == Seq(Page)
  <2>1. <<>> \in P
    OBVIOUS
  <2>2. fetch = [pc |-> "count", kind |-> "all", page |-> 1, total |-> 0, built |-> <<>>, want |-> 1]
    BY <1>1 DEF NoFetch
  <2> HIDE DEF P
  <2>3. fetch \in [pc : {"idle", "count", "list"}, kind : {"all", "next"}, page : Nat \ {0},
                   total : Nat, built : P, want : Nat]
    BY <2>1, <2>2
  <2> QED
    BY <2>3 DEF P
<1>4. fetch.kind = "all"
  BY <1>1 DEF NoFetch
<1> QED
  BY <1>1, <1>2, <1>3, <1>4 DEF BarOk

LEMMA BarStays == BarOk /\ [BarNext]_barVars => BarOk'
<1> SUFFICES ASSUME BarOk, [BarNext]_barVars PROVE BarOk'
  OBVIOUS
<1> DEFINE P == Seq(Page)
           F == [pc : {"idle", "count", "list"}, kind : {"all", "next"}, page : Nat \ {0},
                total : Nat, built : P, want : Nat]
           T == tracked \subseteq Ids /\ paused \subseteq Ids /\ tracked \cap paused = {}
<1>1. T /\ pages \in P /\ fetch \in F /\ (fetch.kind = "next" => fetch.page = Len(pages) + 1)
  BY DEF BarOk
<1>2. ASSUME T', pages' \in P, fetch' \in F, fetch'.kind = "next" => fetch'.page = Len(pages') + 1
      PROVE  BarOk'
  BY <1>2 DEF BarOk
<1>3. <<>> \in P /\ Len(pages) \in Nat
  BY <1>1
<1>4. ASSUME NEW ps \in P, NEW page \in Page PROVE Append(ps, page) \in P
  OBVIOUS
<1> HIDE DEF P
<1>5. NoFetch \in F /\ NoFetch.kind = "all"
  BY <1>3 DEF NoFetch
<1>6. All \in F /\ All.kind = "all"
  <2> DEFINE w == IF pages = <<>> THEN 1 ELSE Len(pages)
  <2>1. w \in Nat
    BY <1>3
  <2>2. All = [NoFetch EXCEPT !.pc = "count", !.want = w]
    BY DEF All
  <2> HIDE DEF w
  <2>3. All = [pc |-> "count", kind |-> "all", page |-> 1, total |-> 0, built |-> <<>>, want |-> w]
    BY <2>2 DEF NoFetch
  <2> QED
    BY <1>3, <2>1, <2>3
<1>7. ASSUME NEW id \in Ids, Create(id) \/ SyncOne(id) \/ SetTracking(id) \/ DeleteContact(id)
      PROVE  BarOk'
  <2>1. pages' = pages /\ fetch' = fetch
    BY <1>7 DEF Create, SyncOne, SetTracking, DeleteContact
  <2>2. T'
    <3>1. CASE Create(id) \/ SyncOne(id)
      <4>1. \A c \in tracked \cup paused : c < id
        BY <3>1 DEF Create, SyncOne
      <4>2. id \in Nat
        BY SidebarBounds
      <4>3. id \notin tracked /\ id \notin paused
        <5>1. ~(id < id)
          BY <4>2
        <5> QED
          BY <4>1, <5>1
      <4> QED
        BY <1>1, <3>1, <4>3 DEF Create, SyncOne
    <3>2. CASE SetTracking(id)
      BY <1>1, <3>2 DEF SetTracking
    <3>3. CASE DeleteContact(id)
      BY <1>1, <3>3 DEF DeleteContact
    <3> QED
      BY <1>7, <3>1, <3>2, <3>3
  <2> QED
    BY <1>1, <1>2, <2>1, <2>2
<1>8. CASE Refetch \/ Invalidate
  <2>1. fetch' = All /\ pages' = pages /\ tracked' = tracked /\ paused' = paused
    BY <1>8 DEF Refetch, Invalidate
  <2> QED
    BY <1>1, <1>2, <1>6, <2>1
<1>9. CASE More
  <2>1. /\ fetch' = [NoFetch EXCEPT !.pc = "count", !.kind = "next", !.page = Len(pages) + 1]
        /\ pages' = pages /\ tracked' = tracked /\ paused' = paused
    BY <1>9 DEF More
  <2>2. fetch' \in F /\ fetch'.page = Len(pages) + 1
    <3> DEFINE n == Len(pages) + 1
    <3>1. n \in Nat \ {0}
      BY <1>3
    <3>2. fetch' = [pc |-> "count", kind |-> "next", page |-> n, total |-> 0, built |-> <<>>, want |-> 1]
      BY <2>1 DEF NoFetch
    <3> HIDE DEF n
    <3> QED
      BY <1>3, <3>1, <3>2 DEF n
  <2> QED
    BY <1>1, <1>2, <2>1, <2>2
<1>10. CASE Count
  <2>1. /\ fetch' = [fetch EXCEPT !.pc = "list", !.total = Cardinality(tracked \cup paused)]
        /\ pages' = pages /\ tracked' = tracked /\ paused' = paused
    BY <1>10 DEF Count
  <2>2. Cardinality(tracked \cup paused) \in Nat
    BY OrderIs
  <2>3. fetch' \in F /\ fetch'.page = fetch.page /\ fetch'.kind = fetch.kind
    BY <1>1, <2>1, <2>2
  <2> QED
    BY <1>1, <1>2, <2>1, <2>3
<1>11. CASE List
  <2> DEFINE page == [contacts |-> ListContacts(fetch.page), total |-> fetch.total]
             built == Append(fetch.built, page)
  <2>1. page \in Page
    <3>1. fetch.page \in Nat /\ fetch.page # 0 /\ fetch.total \in Nat
      BY <1>1
    <3>2. ListContacts(fetch.page) \in Seq(Ids)
      BY <3>1, ListContactsIs
    <3> QED
      BY <3>1, <3>2 DEF Page
  <2> HIDE DEF page
  <2>2. built \in P /\ Append(pages, page) \in P
    BY <1>1, <1>4, <2>1
  <2>3. tracked' = tracked /\ paused' = paused
    BY <1>11 DEF List
  <2> HIDE DEF built
  <2>4. \/ pages' = Append(pages, page) /\ fetch' = NoFetch
        \/ /\ fetch.kind # "next"
           /\ fetch' = [fetch EXCEPT !.pc = "count", !.page = @ + 1, !.built = built]
           /\ pages' = pages
        \/ pages' = built /\ fetch' = NoFetch
    BY <1>11 DEF List, page, built
  <2>5. ASSUME fetch.kind # "next", fetch' = [fetch EXCEPT !.pc = "count", !.page = @ + 1, !.built = built]
        PROVE  fetch' \in F /\ fetch'.kind # "next"
    <3>1. fetch.page + 1 \in Nat \ {0}
      BY <1>1
    <3> DEFINE n == fetch.page + 1
    <3> HIDE DEF n
    <3>2. fetch' = [fetch EXCEPT !.pc = "count", !.page = n, !.built = built] /\ n \in Nat \ {0}
      BY <2>5, <3>1 DEF n
    <3> QED
      BY <1>1, <2>2, <2>5, <3>2
  <2> QED
    BY <1>1, <1>2, <1>5, <2>2, <2>3, <2>4, <2>5
<1>12. CASE Fail
  BY <1>1, <1>2, <1>5, <1>12 DEF Fail
<1>13. CASE UNCHANGED barVars
  BY <1>1, <1>2, <1>13 DEF barVars
<1> QED
  BY <1>7, <1>8, <1>9, <1>10, <1>11, <1>12, <1>13 DEF BarNext

\* A page more is its contacts more.
LEMMA LoadedAppend ==
  ASSUME NEW ps \in Seq(Page), NEW page \in Page
  PROVE  /\ Loaded(ps) \in Seq(Ids)
         /\ Loaded(Append(ps, page)) = Loaded(ps) \o page.contacts
<1> DEFINE cut(s) == [i \in DOMAIN s |-> s[i].contacts]
           I == Seq(Ids)
<1>1. ASSUME NEW s PROVE Loaded(s) = FlattenSeq(cut(s))
  BY Zenon DEF Loaded, FlattenSeq, FlattenSeq
<1>2. page.contacts \in I /\ \A i \in DOMAIN ps : ps[i].contacts \in I
  <2> HIDE DEF I
  <2>1. ASSUME NEW p \in Page PROVE p.contacts \in I
    BY DEF Page, I
  <2>2. \A i \in DOMAIN ps : ps[i] \in Page
    OBVIOUS
  <2> QED
    BY <2>1, <2>2
<1>3. Len(ps) \in Nat /\ DOMAIN ps = 1 .. Len(ps)
  OBVIOUS
<1>4. cut(ps) \in Seq(I)
  <2> HIDE DEF I
  <2> QED
    BY <1>2, <1>3
<1>5. cut(Append(ps, page)) = Append(cut(ps), page.contacts)
  OBVIOUS
<1> DEFINE c == cut(ps)
           d == page.contacts
<1>6. c \in Seq(Seq(Ids)) /\ d \in Seq(Ids)
  BY <1>2, <1>4
<1>7. Loaded(ps) = FlattenSeq(c) /\ Loaded(Append(ps, page)) = FlattenSeq(Append(c, d))
  BY <1>1, <1>5
<1> HIDE DEF c, d
<1>8. FlattenSeq(c) \in Seq(Ids) /\ FlattenSeq(Append(c, d)) = FlattenSeq(c) \o d
  BY <1>6, FlattenAppend
<1> QED
  BY <1>7, <1>8 DEF d

LEMMA PrefixGrows ==
  \A B : \A o \in Seq(B) : \A a, b \in Nat :
    a <= b /\ b <= Len(o) => SubSeq(o, 1, a) \o SubSeq(o, a + 1, b) = SubSeq(o, 1, b)
<1> SUFFICES ASSUME NEW B, NEW o \in Seq(B), NEW a \in Nat, NEW b \in Nat, a <= b, b <= Len(o)
             PROVE  SubSeq(o, 1, a) \o SubSeq(o, a + 1, b) = SubSeq(o, 1, b)
  OBVIOUS
<1>1. Len(o) \in Nat /\ a \in Nat /\ b \in Nat /\ a <= b /\ b <= Len(o)
  OBVIOUS
<1> DEFINE p == SubSeq(o, 1, a)
           q == SubSeq(o, a + 1, b)
           r == SubSeq(o, 1, b)
<1>2. p \in Seq(B) /\ Len(p) = a /\ \A i \in 1 .. a : p[i] = o[i]
  BY <1>1
<1>3. q \in Seq(B) /\ Len(q) = b - a /\ \A i \in 1 .. b - a : q[i] = o[a + i]
  <2>1. Len(q) = b - a
    BY <1>1
  <2>2. ASSUME NEW i \in 1 .. b - a PROVE q[i] = o[a + i]
    BY <1>1
  <2>3. q \in Seq(B)
    BY <1>1
  <2> QED
    BY <2>1, <2>2, <2>3
<1>4. r \in Seq(B) /\ Len(r) = b /\ \A i \in 1 .. b : r[i] = o[i]
  BY <1>1
<1> HIDE DEF p, q, r
<1>5. p \o q \in Seq(B) /\ Len(p \o q) = b
  <2>1. p \in Seq(B) /\ q \in Seq(B)
    BY <1>2, <1>3
  <2>2. p \o q \in Seq(B) /\ Len(p \o q) = Len(p) + Len(q)
    BY ONLY <2>1
  <2>3. Len(p) + Len(q) = b
    BY <1>1, <1>2, <1>3
  <2> QED
    BY <2>2, <2>3
<1>6. ASSUME NEW i \in 1 .. b PROVE (p \o q)[i] = r[i]
  <2>1. CASE i <= a
    BY <1>1, <1>2, <1>3, <1>4, <2>1
  <2>2. CASE ~(i <= a)
    <3>1. i - a \in 1 .. b - a /\ a + (i - a) = i
      BY <1>1, <2>2
    <3>2. (p \o q)[i] = q[i - a]
      BY <1>1, <1>2, <1>3, <2>2
    <3>3. q[i - a] = o[a + (i - a)]
      BY <1>3, <3>1
    <3> QED
      BY <1>4, <3>1, <3>2, <3>3
  <2> QED
    BY <2>1, <2>2
<1>7. p \o q = r
  <2> DEFINE x == p \o q
  <2>1. x \in Seq(B) /\ Len(x) = b /\ r \in Seq(B) /\ Len(r) = b /\ \A i \in 1 .. b : x[i] = r[i]
    BY <1>4, <1>5, <1>6
  <2> HIDE DEF x
  <2>2. x = r
    BY <2>1
  <2> QED
    BY <2>2 DEF x
<1> QED
  BY <1>7 DEF p, q, r

LEMMA MoreIsExact ==
  ASSUME BarOk, Exact, fetch.kind = "next", fetch.pc # "idle"
  PROVE  LET page == [contacts |-> ListContacts(fetch.page), total |-> fetch.total]
             ps   == Append(pages, page)
             list == Loaded(ps)
             n    == Cardinality(tracked \cup paused)
         IN  /\ ps # <<>> /\ TotalOf(ps) = n
             /\ Len(list) = IF Len(ps) * BarSize < n THEN Len(ps) * BarSize ELSE n
             /\ list = SubSeq(Order, 1, Len(list))
<1> DEFINE N == Cardinality(tracked \cup paused)
           o == Order
           page == [contacts |-> ListContacts(fetch.page), total |-> fetch.total]
           ps == Append(pages, page)
           list == Loaded(pages)
           k == Len(pages)
           p == k * BarSize
           q == (k + 1) * BarSize
           last == IF q < N THEN q ELSE N
           rest == ListContacts(fetch.page)
<1>1. pages \in Seq(Page) /\ k \in Nat /\ fetch.page = k + 1 /\ fetch.total \in Nat
  BY DEF BarOk
<1>2. o \in Seq(Ids) /\ Len(o) = N /\ Cardinality(tracked \cup paused) = N /\ N \in Nat
  BY OrderIs
<1>3. /\ pages # <<>> /\ TotalOf(pages) = N
      /\ Len(list) = IF p < N THEN p ELSE N
      /\ list = SubSeq(o, 1, Len(list))
  BY <1>2 DEF Exact
<1>4. rest = SubSeq(o, p + 1, last) /\ rest \in Seq(Ids) /\ p \in Nat /\ q = p + BarSize /\ BarSize \in Nat \ {0}
  <2> DEFINE n == k + 1
  <2>1. n \in Nat /\ n # 0 /\ n - 1 = k /\ rest = ListContacts(n)
    BY <1>1
  <2> HIDE DEF n, rest, o, N, k
  <2>2. LET first == (n - 1) * BarSize + 1
            end   == IF n * BarSize < N THEN n * BarSize ELSE N
        IN  /\ ListContacts(n) = SubSeq(o, first, end)
            /\ ListContacts(n) \in Seq(Ids)
            /\ (n - 1) * BarSize \in Nat /\ n * BarSize = (n - 1) * BarSize + BarSize
            /\ BarSize \in Nat \ {0}
    BY <2>1, ListContactsIs DEF o, N
  <2>3. n * BarSize = q
    BY DEF n
  <2>4. (n - 1) * BarSize = p
    BY <2>1
  <2> HIDE DEF p, q
  <2> QED
    BY <2>1, <2>2, <2>3, <2>4
<1>5. page \in Page /\ page.contacts = rest
  BY <1>1, <1>4 DEF Page
<1>6. Loaded(ps) = list \o rest
  BY <1>1, <1>5, LoadedAppend
<1> HIDE DEF page
<1>7. ps # <<>> /\ Len(ps) = k + 1 /\ TotalOf(ps) = TotalOf(pages)
  BY <1>1, <1>3, <1>5 DEF TotalOf
<1> HIDE DEF ps, list, rest, o, N, k
<1>8. q \in Nat /\ p < q /\ last \in Nat /\ last <= N
  <2> HIDE DEF p, q
  <2> QED
    BY <1>2, <1>4
<1> HIDE DEF p, q
<1>9. list \o rest = SubSeq(o, 1, last)
  <2>1. CASE p < N
    <3>1. p \in Nat /\ last \in Nat /\ p <= last /\ last <= Len(o) /\ Len(list) = p
      BY <1>2, <1>3, <1>4, <1>8, <2>1
    <3> HIDE DEF last
    <3>2. SubSeq(o, 1, p) \o SubSeq(o, p + 1, last) = SubSeq(o, 1, last)
      <4>1. o \in Seq(Ids)
        BY <1>2
      <4> QED
        BY <3>1, <4>1, PrefixGrows, Zenon
    <3> QED
      BY <1>3, <1>4, <3>1, <3>2
  <2>2. CASE ~(p < N)
    <3>1. last = N /\ last < p + 1 /\ Len(list) = N
      BY <1>2, <1>3, <1>4, <1>8, <2>2
    <3> HIDE DEF last
    <3>2. rest = <<>>
      BY <1>2, <1>4, <3>1
    <3>3. SubSeq(o, 1, last) \in Seq(Ids)
      BY <1>2, <3>1
    <3>4. list = SubSeq(o, 1, last)
      BY <1>3, <3>1
    <3> QED
      BY <3>2, <3>3, <3>4
  <2> QED
    BY <2>1, <2>2
<1> HIDE DEF last
<1>10. Len(SubSeq(o, 1, last)) = last
  BY <1>2, <1>8
<1>11. last = IF (k + 1) * BarSize < N THEN (k + 1) * BarSize ELSE N
  BY DEF last, q
<1>12. /\ ps # <<>> /\ TotalOf(ps) = N
       /\ Len(Loaded(ps)) = last
       /\ last = IF Len(ps) * BarSize < N THEN Len(ps) * BarSize ELSE N
       /\ Loaded(ps) = SubSeq(o, 1, last)
  BY <1>3, <1>6, <1>7, <1>9, <1>10, <1>11
<1>13. /\ ps # <<>> /\ TotalOf(ps) = N
       /\ Len(Loaded(ps)) = IF Len(ps) * BarSize < N THEN Len(ps) * BarSize ELSE N
       /\ Loaded(ps) = SubSeq(o, 1, Len(Loaded(ps)))
  BY <1>12
<1> QED
  BY <1>2, <1>13 DEF ps, page, o

LEMMA MoreKept ==
  BarOk /\ [BarNext]_barVars =>
    [Exact /\ fetch.kind = "next" /\ UNCHANGED <<tracked, paused>> => Exact']_barVars
<1> SUFFICES ASSUME BarOk, BarNext, Exact, fetch.kind = "next", UNCHANGED <<tracked, paused>>
             PROVE  Exact'
  BY DEF barVars
<1>1. Order' = Order /\ Cardinality(tracked \cup paused)' = Cardinality(tracked \cup paused)
  BY DEF Order
<1>2. ASSUME pages' = pages PROVE Exact'
  BY <1>1, <1>2 DEF Exact
<1>3. ASSUME List PROVE Exact'
  <2> DEFINE page == [contacts |-> ListContacts(fetch.page), total |-> fetch.total]
             ps == Append(pages, page)
             n == Cardinality(tracked \cup paused)
  <2>1. pages' = ps /\ fetch.pc # "idle"
    BY <1>3 DEF List
  <2>2. /\ ps # <<>> /\ TotalOf(ps) = n
        /\ Len(Loaded(ps)) = IF Len(ps) * BarSize < n THEN Len(ps) * BarSize ELSE n
        /\ Loaded(ps) = SubSeq(Order, 1, Len(Loaded(ps)))
    BY <2>1, MoreIsExact
  <2> HIDE DEF ps
  <2>3. /\ pages' # <<>> /\ TotalOf(pages)' = n
        /\ Len(Loaded(pages)') = IF Len(pages') * BarSize < n THEN Len(pages') * BarSize ELSE n
        /\ Loaded(pages)' = SubSeq(Order, 1, Len(Loaded(pages)'))
    BY <2>1, <2>2
  <2> QED
    BY <1>1, <2>3 DEF Exact
<1>4. ASSUME ~List PROVE pages' = pages
  BY <1>4 DEF BarNext, Create, SyncOne, SetTracking, DeleteContact, Refetch,
     Invalidate, More, Count, Fail
<1> QED
  BY <1>2, <1>3, <1>4

\* For any contacts, page size and changes: as long as nothing changes, a page
\* more continues the list where it ended (AppSidebar.tsx, getNextPageParam;
\* contacts.go, List).
THEOREM MorePagesContinue ==
  BarSpec => MoreContinues
<1>1. BarInit => BarOk
  BY BarStarts
<1>2. BarOk /\ [BarNext]_barVars => BarOk'
  BY BarStays
<1>3. BarOk /\ [BarNext]_barVars =>
        [Exact /\ fetch.kind = "next" /\ UNCHANGED <<tracked, paused>> => Exact']_barVars
  BY MoreKept
<1> QED
  BY <1>1, <1>2, <1>3, PTL DEF BarSpec, MoreContinues

-----------------------------------------------------------------------------
\* Spans of time, the moments in them, and spans without a common moment.
Spans      == Int \X Int
Moments(s) == s[1] .. s[2] - 1
Cover(S)   == UNION {Moments(s) : s \in S}
Apart(S)   == \A s, u \in S : s # u => Moments(s) \cap Moments(u) = {}

\* The slices of one span.
End(span, step, shift, t) == Min({u \in Cuts(span, step, shift) : u > t} \cup {span[2]})
SpanSlices(span, step, shift) ==
  {<<t, End(span, step, shift, t)>> : t \in Cuts(span, step, shift)}

LEMMA SlicesAre ==
  \A spans, step, shift : Slices(spans, step, shift) = UNION {SpanSlices(s, step, shift) : s \in ToSet(spans)}
  BY DEF Slices, SpanSlices, End

LEMMA CutsAre ==
  ASSUME NEW span \in Spans, NEW step \in Nat \ {0}, NEW shift \in Int
  PROVE  /\ span[1] \in Int /\ span[2] \in Int
         /\ Cuts(span, step, shift) \in SUBSET Moments(span)
         /\ Moments(span) \in SUBSET Int
         /\ \A t \in Moments(span) : span[1] <= t /\ t < span[2] /\ span[1] \in Cuts(span, step, shift)
         /\ \A t \in Moments(span) : (t + shift) % step = 0 => t \in Cuts(span, step, shift)
<1>1. span[1] \in Int /\ span[2] \in Int
  BY DEF Spans
<1> DEFINE a == span[1]
           b == span[2]
<1>2. Cuts(span, step, shift) = {t \in a .. b - 1 : t = a \/ (t + shift) % step = 0}
  BY DEF Cuts
<1> HIDE DEF a, b
<1>3. a \in Int /\ b \in Int
  BY <1>1 DEF a, b
<1>4. ASSUME NEW t \in a .. b - 1 PROVE a <= t /\ t < b /\ a \in Cuts(span, step, shift)
  <2>1. a \in a .. b - 1
    BY <1>3
  <2> QED
    BY <1>2, <1>3, <2>1
<1>5. Cuts(span, step, shift) \in SUBSET (a .. b - 1) /\ a .. b - 1 \in SUBSET Int
  BY <1>2
<1>6. \A t \in a .. b - 1 : (t + shift) % step = 0 => t \in Cuts(span, step, shift)
  BY <1>2
<1> QED
  BY <1>1, <1>4, <1>5, <1>6 DEF Moments, a, b

LEMMA EndIs ==
  ASSUME NEW span \in Spans, NEW step \in Nat \ {0}, NEW shift \in Int,
         NEW t \in Cuts(span, step, shift)
  PROVE  LET e == End(span, step, shift, t)
         IN  /\ e \in Int /\ t < e /\ e <= span[2]
             /\ \A u \in Cuts(span, step, shift) : t < u => e <= u
             /\ e = span[2] \/ e \in Cuts(span, step, shift)
<1> DEFINE C == Cuts(span, step, shift)
           T == {u \in C : u > t} \cup {span[2]}
           e == Min(T)
<1>1. /\ C \in SUBSET Int /\ span[2] \in Int /\ t \in Int /\ t < span[2]
  BY CutsAre
<1>2. T \in SUBSET Int /\ T # {} /\ \A u \in T : t < u
  BY <1>1
<1>3. \A u \in T : t <= u
  BY <1>1, <1>2
<1> HIDE DEF e
<1>4. e \in T /\ \A u \in T : e <= u
  <2> HIDE DEF T
  <2> QED
    BY <1>1, <1>2, <1>3, MinIs DEF e
<1>5. e = End(span, step, shift, t)
  BY DEF End, e
<1> HIDE DEF C
<1>6. e \in Int /\ t < e /\ e <= span[2] /\ (\A u \in C : t < u => e <= u) /\ (e = span[2] \/ e \in C)
  BY <1>1, <1>2, <1>4
<1> QED
  BY <1>5, <1>6 DEF C

\* The slices of a span have no moment in common and cover the span, and the
\* clock does not pass a multiple of step within one.
LEMMA SpanSlicesAre ==
  ASSUME NEW span \in Spans, NEW step \in Nat \ {0}, NEW shift \in Int
  PROVE  /\ SpanSlices(span, step, shift) \in SUBSET Spans
         /\ \A s \in SpanSlices(span, step, shift) :
              /\ s[1] \in Moments(s) /\ Moments(s) \subseteq Moments(span)
              /\ span[1] <= s[1] /\ s[2] <= span[2]
         /\ Apart(SpanSlices(span, step, shift))
         /\ \A m \in Moments(span) : \E s \in SpanSlices(span, step, shift) : m \in Moments(s)
<1> DEFINE C == Cuts(span, step, shift)
           e(t) == End(span, step, shift, t)
           S == SpanSlices(span, step, shift)
           a == span[1]
           b == span[2]
<1>1. /\ a \in Int /\ b \in Int /\ C \in SUBSET Int
      /\ \A t \in C : a <= t /\ t < b
      /\ \A t \in Moments(span) : t \in Int /\ a <= t /\ t < b /\ a \in C
  <2>1. /\ a \in Int /\ b \in Int /\ C \in SUBSET Moments(span) /\ Moments(span) \in SUBSET Int
        /\ \A t \in Moments(span) : a <= t /\ t < b /\ a \in C
    BY CutsAre
  <2> QED
    BY <2>1
<1>2. \A t \in C : e(t) \in Int /\ t < e(t) /\ e(t) <= b /\ (\A u \in C : t < u => e(t) <= u)
  BY EndIs
<1>3. \A s : s \in S <=> \E t \in C : s = <<t, e(t)>>
  BY DEF SpanSlices
<1>4. \A m \in Int : m \in Moments(span) <=> a <= m /\ m < b
  BY <1>1 DEF Moments
<1> HIDE DEF C, e, S, a, b
<1>5. ASSUME NEW t \in C
      PROVE  /\ <<t, e(t)>> \in Spans /\ <<t, e(t)>>[1] = t /\ <<t, e(t)>>[2] = e(t)
             /\ Moments(<<t, e(t)>>) = t .. e(t) - 1
             /\ \A m \in Int : m \in Moments(<<t, e(t)>>) <=> t <= m /\ m < e(t)
  <2>1. t \in Int /\ e(t) \in Int
    BY <1>1, <1>2
  <2> QED
    BY <2>1 DEF Moments, Spans
<1>6. ASSUME NEW s \in S
      PROVE  /\ s \in Spans /\ s[1] \in Moments(s) /\ Moments(s) \subseteq Moments(span)
             /\ a <= s[1] /\ s[2] <= b
  <2>1. PICK t \in C : s = <<t, e(t)>>
    BY <1>3
  <2>2. t \in Int /\ t <= t /\ t < e(t) /\ e(t) <= b /\ a <= t /\ e(t) \in Int
    BY <1>1, <1>2
  <2>3. t \in Moments(s) /\ s \in Spans /\ s[1] = t /\ s[2] = e(t)
    BY <1>5, <2>1, <2>2
  <2>4. ASSUME NEW m \in Moments(s) PROVE m \in Moments(span)
    <3>1. m \in Int /\ t <= m /\ m < e(t)
      <4>1. m \in t .. e(t) - 1
        BY <1>5, <2>1
      <4> QED
        BY <2>2, <4>1
    <3>2. a <= m /\ m < b
      BY <1>1, <2>2, <3>1
    <3> QED
      BY <1>4, <3>1, <3>2
  <2> QED
    BY <2>2, <2>3, <2>4
<1>7. ASSUME NEW t \in C, NEW u \in C, t < u PROVE Moments(<<t, e(t)>>) \cap Moments(<<u, e(u)>>) = {}
  <2>1. e(t) <= u /\ e(t) \in Int /\ u \in Int /\ t \in Int
    BY <1>1, <1>2, <1>7
  <2>2. ASSUME NEW m \in Moments(<<t, e(t)>>), m \in Moments(<<u, e(u)>>) PROVE FALSE
    <3>1. m \in t .. e(t) - 1
      BY <1>5, <2>2
    <3>2. m \in Int /\ m < e(t)
      BY <2>1, <3>1
    <3>3. u <= m
      BY <1>5, <2>2, <3>2
    <3> QED
      BY <2>1, <3>2, <3>3
  <2> QED
    BY <2>2
<1>8. Apart(S)
  <2> SUFFICES ASSUME NEW s \in S, NEW r \in S, s # r PROVE Moments(s) \cap Moments(r) = {}
    BY DEF Apart
  <2>1. PICK t \in C : s = <<t, e(t)>>
    BY <1>3
  <2>2. PICK u \in C : r = <<u, e(u)>>
    BY <1>3
  <2>3. t # u /\ t \in Int /\ u \in Int
    BY <1>1, <2>1, <2>2
  <2>4. CASE t < u
    BY <1>7, <2>1, <2>2, <2>4
  <2>5. CASE u < t
    <3>1. Moments(r) \cap Moments(s) = {}
      BY <1>7, <2>1, <2>2, <2>5
    <3> QED
      BY <3>1
  <2> QED
    BY <2>3, <2>4, <2>5
<1>9. ASSUME NEW m \in Moments(span) PROVE \E s \in S : m \in Moments(s)
  <2> DEFINE T == {u \in C : u <= m}
  <2>1. T \in SUBSET Int /\ T # {} /\ m \in Int /\ m < b /\ \A u \in T : u <= m
    BY <1>1, <1>9
  <2> DEFINE t == Max(T)
  <2>2. t \in T /\ \A u \in T : u <= t
    <3> HIDE DEF T
    <3> QED
      BY <2>1, MaxIs
  <2> HIDE DEF t
  <2>3. t \in C /\ t <= m /\ t \in Int
    BY <1>1, <2>2
  <2>4. m < e(t)
    <3>1. e(t) \in Int /\ (e(t) = b \/ e(t) \in C) /\ t < e(t)
      BY <1>2, <2>3, EndIs DEF e, C, b
    <3>2. CASE e(t) = b
      BY <2>1, <3>2
    <3>3. CASE e(t) \in C
      <4>1. ~(e(t) <= m)
        <5>1. ASSUME e(t) <= m PROVE FALSE
          <6>1. e(t) \in T
            BY <3>3, <5>1
          <6>2. e(t) <= t
            BY <2>2, <6>1
          <6> QED
            BY <2>3, <3>1, <6>2
        <5> QED
          BY <5>1
      <4> QED
        BY <2>1, <3>1, <4>1
    <3> QED
      BY <3>1, <3>2, <3>3
  <2>5. <<t, e(t)>> \in S /\ m \in Moments(<<t, e(t)>>)
    BY <1>3, <1>5, <2>1, <2>3, <2>4
  <2> QED
    BY <2>5
<1> QED
  BY <1>6, <1>8, <1>9 DEF S, a, b

LEMMA ClockStands ==
  ASSUME NEW span \in Spans, NEW step \in Nat \ {0}, NEW shift \in Int,
         NEW s \in SpanSlices(span, step, shift), NEW m \in Moments(s)
  PROVE  (m + shift) \div step = (s[1] + shift) \div step
<1> DEFINE C == Cuts(span, step, shift)
           p == (s[1] + shift) \div step
           q == (m + shift) \div step
           u == q * step - shift
<1>1. PICK t \in C : s = <<t, End(span, step, shift, t)>>
  BY DEF SpanSlices
<1> DEFINE e == End(span, step, shift, t)
<1>2. e \in Int /\ t < e /\ e <= span[2] /\ \A v \in C : t < v => e <= v
  BY EndIs
<1>3. C \in SUBSET Int /\ t \in Int
  BY CutsAre
<1>4. s[1] = t /\ s[2] = e
  BY <1>1
<1> HIDE DEF e
<1>5. m \in Int /\ t <= m /\ m < e
  <2>1. m \in t .. e - 1
    BY <1>4 DEF Moments
  <2> QED
    BY <1>2, <1>3, <2>1
<1>6. p \in Int /\ q \in Int /\ (t + shift) \in Int /\ (m + shift) \in Int
  BY <1>3, <1>4, <1>5, Division
<1>7. p * step <= t + shift /\ t + shift < (p + 1) * step
  BY <1>4, <1>6, Quotients
<1>8. q * step <= m + shift /\ m + shift < (q + 1) * step
  BY <1>6, Quotients
<1> HIDE DEF p, q
<1>9. ASSUME NEW x \in Int, NEW y \in Int, x <= y PROVE x * step <= y * step
  <2>1. \A z \in Nat \ {0} : x * z <= y * z
    BY <1>9, SMTT(20)
  <2> QED
    BY <2>1
<1>10. p <= q
  <2>1. ASSUME q + 1 <= p PROVE FALSE
    <3>1. (q + 1) * step <= p * step
      BY <1>6, <1>9, <2>1
    <3>2. (q + 1) * step \in Int /\ p * step \in Int
      BY <1>6, Product
    <3> DEFINE a == (q + 1) * step
               b == p * step
    <3>3. a <= b /\ a \in Int /\ b \in Int /\ b <= t + shift /\ m + shift < a
      BY <1>7, <1>8, <3>1, <3>2
    <3> HIDE DEF a, b
    <3> QED
      BY <1>3, <1>5, <3>3
  <2> QED
    BY <1>6, <2>1
<1>11. ASSUME p < q PROVE FALSE
  <2>1. (p + 1) * step <= q * step
    BY <1>6, <1>9, <1>11
  <2>2. q * step \in Int /\ (p + 1) * step \in Int
    BY <1>6, Product
  <2> DEFINE b == q * step
             a == (p + 1) * step
  <2>3. u \in Int /\ t < u /\ u <= m /\ u + shift = b
    <3>1. a \in Int /\ b \in Int /\ a <= b /\ t + shift < a /\ b <= m + shift /\ u = b - shift
      BY <1>7, <1>8, <2>1, <2>2
    <3> HIDE DEF a, b, u
    <3> QED
      BY <1>3, <1>5, <3>1
  <2>4. u \in Moments(span)
    <3>1. span[1] <= t /\ t \in Moments(span) /\ span[1] \in Int /\ span[2] \in Int
      <4>1. t \in Moments(span)
        BY <1>1, CutsAre
      <4> QED
        BY <4>1, CutsAre
    <3> HIDE DEF u
    <3> QED
      BY <1>2, <1>3, <1>5, <2>3, <3>1 DEF Moments
  <2>5. (u + shift) % step = 0
    <3>1. b = step * q + 0 /\ 0 \in 0 .. step - 1
      BY <1>6
    <3>2. b % step = 0
      <4>1. b \in Int
        BY <2>2
      <4> HIDE DEF b
      <4> QED
        BY <1>6, <3>1, <4>1, Quotient
    <3> HIDE DEF b, u
    <3> QED
      BY <2>3, <3>2
  <2>6. u \in C
    BY <2>4, <2>5, CutsAre
  <2> HIDE DEF u
  <2> QED
    BY <1>2, <1>3, <1>5, <2>3, <2>6
<1> QED
  BY <1>6, <1>10, <1>11 DEF p, q

\* Spans without a common moment in some stretch of time, and their slices.
Tidy(S, lo, hi) == /\ S \in SUBSET Spans /\ Apart(S)
                   /\ \A s \in S : lo <= s[1] /\ s[2] <= hi

LEMMA TidySlices ==
  ASSUME NEW spans, NEW lo \in Int, NEW hi \in Int, Tidy(ToSet(spans), lo, hi),
         NEW step \in Nat \ {0}, NEW shift \in Int
  PROVE  /\ Tidy(Slices(spans, step, shift), lo, hi)
         /\ IsFiniteSet(Slices(spans, step, shift))
         /\ \A s \in Slices(spans, step, shift) : s[1] \in Moments(s)
         /\ Cover(Slices(spans, step, shift)) = Cover(ToSet(spans))
         /\ \A s \in Slices(spans, step, shift) : \A m \in Moments(s) :
              (m + shift) \div step = (s[1] + shift) \div step
<1> DEFINE S == ToSet(spans)
           L == Slices(spans, step, shift)
           part(x) == SpanSlices(x, step, shift)
<1>1. S \in SUBSET Spans /\ Apart(S) /\ \A s \in S : lo <= s[1] /\ s[2] <= hi
  BY DEF Tidy
<1>2. \A s : s \in L <=> \E x \in S : s \in part(x)
  BY SlicesAre
<1>3. \A x \in S : part(x) \in SUBSET Spans /\ Apart(part(x))
  BY <1>1, SpanSlicesAre
<1>4. \A x \in S : \A s \in part(x) :
        s[1] \in Moments(s) /\ Moments(s) \subseteq Moments(x) /\ x[1] <= s[1] /\ s[2] <= x[2]
  BY <1>1, SpanSlicesAre
<1>5. \A x \in S : \A m \in Moments(x) : \E s \in part(x) : m \in Moments(s)
  BY <1>1, SpanSlicesAre
<1>6. \A x \in S : \A s \in part(x) : \A m \in Moments(s) :
        (m + shift) \div step = (s[1] + shift) \div step
  BY <1>1, ClockStands
<1> HIDE DEF S, L, part
<1>7. L \in SUBSET Spans
  BY <1>2, <1>3
<1>8. ASSUME NEW s \in L PROVE lo <= s[1] /\ s[2] <= hi /\ s[1] \in Moments(s)
  <2>1. PICK x \in S : s \in part(x)
    BY <1>2
  <2>2. s \in Spans /\ x \in Spans
    BY <1>1, <1>7
  <2>3. s[1] \in Int /\ s[2] \in Int /\ x[1] \in Int /\ x[2] \in Int
    BY <2>2 DEF Spans
  <2>4. lo <= x[1] /\ x[2] <= hi /\ x[1] <= s[1] /\ s[2] <= x[2] /\ s[1] \in Moments(s)
    BY <1>1, <1>4, <2>1
  <2> QED
    BY <2>3, <2>4
<1>9. Apart(L)
  <2> SUFFICES ASSUME NEW s \in L, NEW r \in L, s # r PROVE Moments(s) \cap Moments(r) = {}
    BY DEF Apart
  <2>1. PICK x \in S : s \in part(x)
    BY <1>2
  <2>2. PICK y \in S : r \in part(y)
    BY <1>2
  <2>3. CASE x = y
    BY <1>3, <2>1, <2>2, <2>3 DEF Apart
  <2>4. CASE x # y
    <3>1. Moments(x) \cap Moments(y) = {}
      BY <1>1, <2>4 DEF Apart
    <3>2. Moments(s) \subseteq Moments(x) /\ Moments(r) \subseteq Moments(y)
      BY <1>4, <2>1, <2>2
    <3> QED
      BY <3>1, <3>2
  <2> QED
    BY <2>3, <2>4
<1>10. IsFiniteSet(L)
  <2> DEFINE T == (lo .. hi) \X (lo .. hi)
  <2>1. IsFiniteSet(lo .. hi)
    BY FS_Interval
  <2>2. IsFiniteSet(T)
    <3> DEFINE I == lo .. hi
    <3>1. IsFiniteSet(I)
      BY <2>1
    <3> HIDE DEF I
    <3>2. IsFiniteSet(I \X I)
      BY <3>1, FS_Product
    <3> QED
      BY <3>2 DEF I
  <2>3. ASSUME NEW s \in L PROVE s \in T
    <3>1. s \in Int \X Int /\ lo <= s[1] /\ s[2] <= hi /\ s[1] \in Moments(s)
      BY <1>7, <1>8 DEF Spans
    <3>2. s[1] \in Int /\ s[2] \in Int /\ s = <<s[1], s[2]>>
      BY <3>1
    <3>3. s[1] < s[2]
      BY <3>1, <3>2 DEF Moments
    <3>4. s[1] \in lo .. hi /\ s[2] \in lo .. hi
      BY <3>1, <3>2, <3>3
    <3> QED
      BY <3>2, <3>4
  <2>4. L \in SUBSET T
    BY <2>3
  <2> HIDE DEF T
  <2> QED
    BY <2>2, <2>4, FS_Subset
<1>11. Cover(L) = Cover(S)
  <2>1. ASSUME NEW m \in Cover(L) PROVE m \in Cover(S)
    <3>1. PICK s \in L : m \in Moments(s)
      BY DEF Cover
    <3>2. PICK x \in S : s \in part(x)
      BY <1>2
    <3> QED
      BY <1>4, <3>1, <3>2 DEF Cover
  <2>2. ASSUME NEW m \in Cover(S) PROVE m \in Cover(L)
    <3>1. PICK x \in S : m \in Moments(x)
      BY DEF Cover
    <3>2. PICK s \in part(x) : m \in Moments(s)
      BY <1>5, <3>1
    <3> QED
      BY <1>2, <3>2 DEF Cover
  <2> QED
    BY <2>1, <2>2
<1>12. \A s \in L : \A m \in Moments(s) : (m + shift) \div step = (s[1] + shift) \div step
  BY <1>2, <1>6
<1>13. Tidy(L, lo, hi)
  BY <1>7, <1>8, <1>9 DEF Tidy
<1> QED
  BY <1>8, <1>10, <1>11, <1>12, <1>13 DEF L, S

\* Slices of one stretch of time, none of them empty.
Sliced(L) == /\ IsFiniteSet(L) /\ L \in SUBSET Spans /\ Apart(L)
             /\ \A s \in L : s[1] \in Moments(s)

LEMMA MomentsOf ==
  ASSUME NEW s \in Spans, s[1] \in Moments(s)
  PROVE  IsFiniteSet(Moments(s)) /\ Cardinality(Moments(s)) = s[2] - s[1] /\ s[2] - s[1] \in Nat
<1>1. s[1] \in Int /\ s[2] \in Int
  BY DEF Spans
<1> DEFINE a == s[1]
           b == s[2]
<1>2. a \in Int /\ b - 1 \in Int /\ a <= b - 1
  BY <1>1 DEF Moments
<1>3. Moments(s) = a .. b - 1
  BY DEF Moments
<1>x. b \in Int
  BY <1>1
<1> HIDE DEF a, b
<1> DEFINE c == b - 1
<1>4. IsFiniteSet(a .. c) /\ Cardinality(a .. c) = IF a > c THEN 0 ELSE c - a + 1
  <2> HIDE DEF c
  <2> QED
    BY <1>2, FS_Interval DEF c
<1>5. Cardinality(a .. c) = b - a /\ b - a \in Nat
  BY <1>2, <1>x, <1>4
<1> QED
  BY <1>3, <1>4, <1>5 DEF a, b

\* The time of slices is the number of their moments.
LEMMA TimeOfIs ==
  ASSUME NEW L, Sliced(L)
  PROVE  TimeOf(L) = Cardinality(Cover(L)) /\ IsFiniteSet(Cover(L)) /\ TimeOf(L) \in Nat
<1> DEFINE f == [s \in L |-> s[2] - s[1]]
           part == [s \in L |-> Moments(s)]
<1>1. \A s \in L : IsFiniteSet(part[s]) /\ f[s] = Cardinality(part[s]) /\ f[s] \in Int
  BY MomentsOf DEF Sliced
<1>2. f \in [L -> Int]
  BY <1>1
<1>3. \A k, l \in L : k # l => part[k] \cap part[l] = {}
  BY DEF Sliced, Apart
<1>4. Cover(L) = Whole(part, L)
  BY DEF Cover, Whole
<1>5. TimeOf(L) = SumOver(f, L)
  BY DEF TimeOf
<1>6. IsFiniteSet(L)
  BY DEF Sliced
<1> HIDE DEF f, part
<1>7. IsFiniteSet(Whole(part, L)) /\ SumOver(f, L) = Cardinality(Whole(part, L))
  BY <1>1, <1>2, <1>3, <1>6, SumOfSizes
<1> QED
  BY <1>4, <1>5, <1>7, FS_CardinalityType

\* The slices with a key, and the moments with a key.
Keyed(L, key, d) == {s \in L : key[s[1]] = d}

LEMMA SlicedKeyed ==
  ASSUME NEW L, Sliced(L), NEW key, NEW d PROVE Sliced(Keyed(L, key, d))
<1>1. Keyed(L, key, d) \in SUBSET L
  BY DEF Keyed
<1>2. IsFiniteSet(Keyed(L, key, d))
  BY <1>1, FS_Subset DEF Sliced
<1> QED
  BY <1>1, <1>2 DEF Sliced, Apart

LEMMA BucketIs ==
  ASSUME NEW L, Sliced(L), NEW key, \A s \in L : \A m \in Moments(s) : key[m] = key[s[1]], NEW d
  PROVE  TimeOf(Keyed(L, key, d)) = Cardinality({t \in Cover(L) : key[t] = d})
<1>1. Cover(Keyed(L, key, d)) = {t \in Cover(L) : key[t] = d}
  <2>1. ASSUME NEW t \in Cover(Keyed(L, key, d)) PROVE t \in Cover(L) /\ key[t] = d
    BY DEF Cover, Keyed
  <2>2. ASSUME NEW t \in Cover(L), key[t] = d PROVE t \in Cover(Keyed(L, key, d))
    <3>1. PICK s \in L : t \in Moments(s)
      BY DEF Cover
    <3>2. s \in Keyed(L, key, d)
      BY <2>2, <3>1 DEF Keyed
    <3> QED
      BY <3>1, <3>2 DEF Cover
  <2> QED
    BY <2>1, <2>2
<1>2. Sliced(Keyed(L, key, d))
  BY SlicedKeyed
<1> DEFINE K == Keyed(L, key, d)
<1>3. Sliced(K)
  BY <1>2
<1> HIDE DEF K
<1>4. TimeOf(K) = Cardinality(Cover(K))
  BY <1>3, TimeOfIs
<1> QED
  BY <1>1, <1>4 DEF K

\* Buckets that every slice has a place in add up to the moments.
LEMMA BucketsAddUp ==
  ASSUME NEW L, Sliced(L), NEW key, NEW D, IsFiniteSet(D), \A s \in L : key[s[1]] \in D,
         NEW f, f = [d \in D |-> TimeOf(Keyed(L, key, d))]
  PROVE  SumOver(f, D) = Cardinality(Cover(L))
<1> DEFINE part == [d \in D |-> Cover(Keyed(L, key, d))]
<1>1. ASSUME NEW d \in D
      PROVE  IsFiniteSet(part[d]) /\ f[d] = Cardinality(part[d]) /\ f[d] \in Int
  <2> DEFINE K == Keyed(L, key, d)
  <2>1. Sliced(K)
    BY SlicedKeyed
  <2>2. part[d] = Cover(K) /\ f[d] = TimeOf(K)
    OBVIOUS
  <2> HIDE DEF K
  <2>3. TimeOf(K) = Cardinality(Cover(K)) /\ IsFiniteSet(Cover(K)) /\ TimeOf(K) \in Nat
    BY <2>1, TimeOfIs
  <2> QED
    BY <2>2, <2>3
<1>2. ASSUME NEW k \in D, NEW l \in D, k # l PROVE part[k] \cap part[l] = {}
  <2>1. part[k] = Cover(Keyed(L, key, k)) /\ part[l] = Cover(Keyed(L, key, l))
    OBVIOUS
  <2> HIDE DEF part
  <2>2. ASSUME NEW m, m \in part[k], m \in part[l] PROVE FALSE
    <3>1. PICK s \in Keyed(L, key, k) : m \in Moments(s)
      BY <2>1, <2>2 DEF Cover
    <3>2. PICK r \in Keyed(L, key, l) : m \in Moments(r)
      BY <2>1, <2>2 DEF Cover
    <3>3. s # r /\ s \in L /\ r \in L
      BY <1>2, <3>1, <3>2 DEF Keyed
    <3> QED
      BY <3>1, <3>2, <3>3 DEF Sliced, Apart
  <2> QED
    BY <2>2
<1>3. Cover(L) = Whole(part, D)
  <2>1. ASSUME NEW m \in Cover(L) PROVE m \in Whole(part, D)
    <3>1. PICK s \in L : m \in Moments(s)
      BY DEF Cover
    <3>2. s \in Keyed(L, key, key[s[1]]) /\ key[s[1]] \in D
      BY DEF Keyed
    <3>3. m \in part[key[s[1]]]
      BY <3>1, <3>2 DEF Cover
    <3> HIDE DEF part
    <3> QED
      BY <3>2, <3>3 DEF Whole
  <2>2. ASSUME NEW d \in D, NEW m \in part[d] PROVE m \in Cover(L)
    BY DEF Cover, Keyed
  <2> HIDE DEF part
  <2> QED
    BY <2>1, <2>2 DEF Whole
<1>4. f \in [D -> Int]
  BY <1>1
<1>5. \A k \in D : IsFiniteSet(part[k]) /\ f[k] = Cardinality(part[k])
  BY <1>1
<1>6. \A k, l \in D : k # l => part[k] \cap part[l] = {}
  BY <1>2
<1> HIDE DEF part
<1>7. SumOver(f, D) = Cardinality(Whole(part, D))
  <2>1. IsFiniteSet(D)
    OBVIOUS
  <2> DEFINE g == f
  <2>2. g \in [D -> Int] /\ \A k \in D : IsFiniteSet(part[k]) /\ g[k] = Cardinality(part[k])
    BY <1>4, <1>5
  <2> HIDE DEF g
  <2>3. SumOver(g, D) = Cardinality(Whole(part, D))
    BY ONLY <1>6, <2>1, <2>2, SumOfSizes
  <2> QED
    BY <2>3 DEF g
<1> QED
  BY <1>3, <1>7

-----------------------------------------------------------------------------
\* Rows in order, none before lo and none from the future, and what is drawn out of them.
Timed(p, lo) == /\ Len(p) \in Nat /\ DOMAIN p = 1 .. Len(p) /\ InOrder(p)
                /\ \A i \in DOMAIN p : lo <= p[i].at /\ p[i].at <= now

On(p, i)       == p[i].state = "available"
Until(p, i)    == IF i = Len(p) THEN now ELSE p[i + 1].at
OnlineSpans(p) == {<<p[i].at, Until(p, i)>> : i \in {j \in DOMAIN p : On(p, j)}}
Online(p, lo)  ==
  LET seen(t) == {i \in DOMAIN p : p[i].at <= t}
  IN  {t \in lo .. now - 1 : seen(t) # {} /\ On(p, Max(seen(t)))}

LEMMA PresenceIs ==
  ASSUME LogOk
  PROVE  LET I == {i \in DOMAIN rows : rows[i].kind \in {"presence"}}
         IN  /\ Presence(rows) = Only(rows, I) /\ Presence(rows) \in Seq(Logged)
             /\ Timed(Presence(rows), Start)
<1> DEFINE I == {i \in DOMAIN rows : rows[i].kind \in {"presence"}}
           s == Only(rows, I)
           a == Ascending(I)
<1>1. I \in SUBSET DOMAIN rows
  OBVIOUS
<1>2. Presence(rows) = SortByAt(s)
  BY DEF Presence, OfKind
<1>3. /\ s \in Seq(Logged) /\ InOrder(s) /\ SortByAt(s) = s
      /\ \A k \in DOMAIN s : a[k] \in I /\ s[k] = rows[a[k]]
  <2> HIDE DEF I
  <2> QED
    BY <1>1, OnlySome
<1>4. \A k \in DOMAIN s : s[k] = rows[a[k]] /\ a[k] \in DOMAIN rows
  BY <1>3
<1> HIDE DEF s, a, I
<1>5. Timed(s, Start)
  <2>1. Len(s) \in Nat /\ DOMAIN s = 1 .. Len(s)
    BY <1>3
  <2> QED
    BY <1>3, <1>4, <2>1 DEF Timed, LogOk
<1> QED
  BY <1>2, <1>3, <1>5 DEF s, I

LEMMA RowTimes ==
  ASSUME now \in Int, NEW lo \in Int, NEW p, Timed(p, lo)
  PROVE  /\ Len(p) \in Nat /\ DOMAIN p = 1 .. Len(p)
         /\ \A i \in 1 .. Len(p) : p[i].at \in Int /\ lo <= p[i].at /\ p[i].at <= now
         /\ \A i, j \in 1 .. Len(p) : i <= j => p[i].at <= p[j].at
         /\ \A i \in 1 .. Len(p) : Until(p, i) \in Int /\ p[i].at <= Until(p, i) /\ Until(p, i) <= now
<1>1. Len(p) \in Nat /\ DOMAIN p = 1 .. Len(p)
  BY DEF Timed
<1>3. \A i \in 1 .. Len(p) : p[i].at \in Int /\ lo <= p[i].at /\ p[i].at <= now
  BY <1>1 DEF Timed, InOrder
<1>4. \A i, j \in 1 .. Len(p) : i <= j => p[i].at <= p[j].at
  BY <1>1 DEF Timed, InOrder
<1>5. ASSUME NEW i \in 1 .. Len(p)
      PROVE  Until(p, i) \in Int /\ p[i].at <= Until(p, i) /\ Until(p, i) <= now
  <2>1. CASE i = Len(p)
    BY <1>3, <2>1 DEF Until
  <2>2. CASE i # Len(p)
    <3>1. i + 1 \in 1 .. Len(p) /\ i <= i + 1
      <4> DEFINE n == Len(p)
      <4>1. n \in Nat /\ i \in 1 .. n /\ i # n
        BY <1>1, <2>2
      <4> HIDE DEF n
      <4>2. i + 1 \in 1 .. n /\ i <= i + 1
        BY ONLY <4>1
      <4> QED
        BY <4>2 DEF n
    <3>2. Until(p, i) = p[i + 1].at
      BY <2>2 DEF Until
    <3> QED
      BY <1>3, <1>4, <3>1, <3>2
  <2> QED
    BY <2>1, <2>2
<1> QED
  BY <1>1, <1>3, <1>4, <1>5

LEMMA SpansTidy ==
  ASSUME now \in Int, NEW lo \in Int, NEW p, Timed(p, lo) PROVE Tidy(OnlineSpans(p), lo, now)
<1> DEFINE S == OnlineSpans(p)
           n == Len(p)
           u(i) == Until(p, i)
<1>1. /\ n \in Nat /\ DOMAIN p = 1 .. n
      /\ \A i \in 1 .. n : p[i].at \in Int /\ lo <= p[i].at /\ p[i].at <= now
      /\ \A i, j \in 1 .. n : i <= j => p[i].at <= p[j].at
      /\ \A i \in 1 .. n : u(i) \in Int /\ p[i].at <= u(i) /\ u(i) <= now
  BY RowTimes
<1>2. \A s \in S : \E i \in 1 .. n : s = <<p[i].at, u(i)>>
  BY <1>1 DEF OnlineSpans
<1>3. \A i \in 1 .. n : i # n => u(i) = p[i + 1].at
  BY DEF Until
<1> HIDE DEF S, n, u
<1>4. ASSUME NEW s \in S PROVE s \in Spans /\ lo <= s[1] /\ s[2] <= now
  <2>1. PICK i \in 1 .. n : s = <<p[i].at, u(i)>>
    BY <1>2
  <2>2. p[i].at \in Int /\ u(i) \in Int /\ lo <= p[i].at /\ u(i) <= now
    BY <1>1
  <2> QED
    BY <2>1, <2>2 DEF Spans
<1>5. ASSUME NEW i \in 1 .. n, NEW j \in 1 .. n, i < j,
             NEW m, m \in Moments(<<p[i].at, u(i)>>), m \in Moments(<<p[j].at, u(j)>>)
      PROVE  FALSE
  <2>1. /\ p[i].at \in Int /\ u(i) \in Int /\ p[j].at \in Int /\ u(j) \in Int
    BY <1>1
  <2>2. m \in Int /\ m < u(i) /\ p[j].at <= m
    <3> DEFINE a == p[i].at
               b == u(i)
               c == p[j].at
               d == u(j)
    <3>1. a \in Int /\ b \in Int /\ c \in Int /\ d \in Int /\ m \in Moments(<<a, b>>) /\ m \in Moments(<<c, d>>)
      BY <1>5, <2>1
    <3> HIDE DEF a, b, c, d
    <3>2. m \in a .. b - 1 /\ m \in c .. d - 1
      BY <3>1 DEF Moments
    <3>3. m \in Int /\ m < b /\ c <= m
      BY <3>1, <3>2
    <3> QED
      BY <3>3 DEF b, c
  <2>3. u(i) = p[i + 1].at /\ i + 1 \in 1 .. n /\ i + 1 <= j
    BY <1>1, <1>3, <1>5
  <2>4. p[i + 1].at <= p[j].at /\ p[i + 1].at \in Int
    BY <1>1, <2>3
  <2> DEFINE b == u(i)
             c == p[j].at
  <2>5. b <= c /\ b \in Int /\ c \in Int /\ m < b /\ c <= m /\ m \in Int
    BY <2>1, <2>2, <2>3, <2>4
  <2> HIDE DEF b, c
  <2> QED
    BY <2>5
<1>6. Apart(S)
  <2> SUFFICES ASSUME NEW s \in S, NEW r \in S, s # r, NEW m, m \in Moments(s), m \in Moments(r) PROVE FALSE
    BY DEF Apart
  <2>1. PICK i \in 1 .. n : s = <<p[i].at, u(i)>>
    BY <1>2
  <2>2. PICK j \in 1 .. n : r = <<p[j].at, u(j)>>
    BY <1>2
  <2>3. i # j /\ i \in Int /\ j \in Int
    BY <2>1, <2>2
  <2>4. CASE i < j
    BY <1>5, <2>1, <2>2, <2>4
  <2>5. CASE j < i
    BY <1>5, <2>1, <2>2, <2>5
  <2> QED
    BY <2>3, <2>4, <2>5
<1>7. S \in SUBSET Spans
  BY <1>4
<1> QED
  BY <1>4, <1>6, <1>7 DEF Tidy, S

\* The moments of the spans are the time online.
LEMMA SpansCover ==
  ASSUME now \in Int, NEW lo \in Int, NEW p, Timed(p, lo) PROVE Cover(OnlineSpans(p)) = Online(p, lo)
<1> DEFINE n == Len(p)
           u(i) == Until(p, i)
           seen(t) == {i \in DOMAIN p : p[i].at <= t}
<1>1. /\ n \in Nat /\ DOMAIN p = 1 .. n
      /\ \A i \in 1 .. n : p[i].at \in Int /\ lo <= p[i].at /\ p[i].at <= now
      /\ \A i, j \in 1 .. n : i <= j => p[i].at <= p[j].at
      /\ \A i \in 1 .. n : u(i) \in Int /\ p[i].at <= u(i) /\ u(i) <= now
  BY RowTimes
<1>2. \A t : t \in Online(p, lo) <=> t \in lo .. now - 1 /\ seen(t) # {} /\ On(p, Max(seen(t)))
  BY DEF Online
<1>3. \A i \in 1 .. n : u(i) = IF i = n THEN now ELSE p[i + 1].at
  BY DEF Until
<1>4. \A t : t \in Cover(OnlineSpans(p)) <=> \E i \in 1 .. n : On(p, i) /\ t \in p[i].at .. u(i) - 1
  <2>1. \A i : Moments(<<p[i].at, u(i)>>) = p[i].at .. u(i) - 1
    BY DEF Moments
  <2>2. \A s : s \in OnlineSpans(p) <=> \E i \in 1 .. n : On(p, i) /\ s = <<p[i].at, u(i)>>
    BY <1>1 DEF OnlineSpans
  <2> HIDE DEF u, n
  <2>3. ASSUME NEW t, NEW i \in 1 .. n, On(p, i), t \in p[i].at .. u(i) - 1
        PROVE  t \in Cover(OnlineSpans(p))
    <3> DEFINE s == <<p[i].at, u(i)>>
    <3>1. s \in OnlineSpans(p) /\ t \in Moments(s)
      BY <2>1, <2>2, <2>3
    <3> HIDE DEF s
    <3> QED
      BY <3>1 DEF Cover
  <2>4. ASSUME NEW t \in Cover(OnlineSpans(p))
        PROVE  \E i \in 1 .. n : On(p, i) /\ t \in p[i].at .. u(i) - 1
    <3>1. PICK s \in OnlineSpans(p) : t \in Moments(s)
      BY DEF Cover
    <3>2. PICK i \in 1 .. n : On(p, i) /\ s = <<p[i].at, u(i)>>
      BY <2>2
    <3> QED
      BY <2>1, <3>1, <3>2
  <2> QED
    BY <2>3, <2>4
<1>5. \A t, i : i \in seen(t) <=> i \in 1 .. n /\ p[i].at <= t
  BY <1>1
<1> HIDE DEF n, u, seen
<1>6. ASSUME NEW t \in Online(p, lo) PROVE t \in Cover(OnlineSpans(p))
  <2>1. t \in Int /\ lo <= t /\ t < now /\ seen(t) # {} /\ On(p, Max(seen(t)))
    BY <1>1, <1>2
  <2>2. seen(t) \in SUBSET Int /\ n \in Int /\ \A i \in seen(t) : i <= n
    BY <1>1, <1>5
  <2> DEFINE i == Max(seen(t))
  <2>3. i \in seen(t) /\ \A j \in seen(t) : j <= i
    BY <2>1, <2>2, MaxIs
  <2>4. On(p, i)
    BY <2>1
  <2> HIDE DEF i
  <2>5. i \in 1 .. n /\ p[i].at <= t /\ p[i].at \in Int /\ u(i) \in Int
    BY <1>1, <1>5, <2>3
  <2>6. t < u(i)
    <3>1. CASE i = n
      BY <1>3, <2>1, <2>5, <3>1
    <3>2. CASE i # n
      <4>1. i + 1 \in 1 .. n /\ ~(i + 1 <= i)
        BY <1>1, <2>5, <3>2
      <4>2. ~(p[i + 1].at <= t)
        BY <1>5, <2>3, <4>1
      <4>3. p[i + 1].at \in Int /\ u(i) = p[i + 1].at
        BY <1>1, <1>3, <2>5, <3>2, <4>1
      <4> QED
        BY <2>1, <4>2, <4>3
    <3> QED
      BY <3>1, <3>2
  <2>7. t \in p[i].at .. u(i) - 1
    BY <2>1, <2>5, <2>6
  <2> QED
    BY <1>4, <2>4, <2>5, <2>7
<1>7. ASSUME NEW t \in Cover(OnlineSpans(p)) PROVE t \in Online(p, lo)
  <2>1. PICK i \in 1 .. n : On(p, i) /\ t \in p[i].at .. u(i) - 1
    BY <1>4
  <2>2. p[i].at \in Int /\ u(i) \in Int /\ lo <= p[i].at /\ u(i) <= now
    BY <1>1
  <2>3. t \in Int /\ p[i].at <= t /\ t < u(i)
    BY <2>1, <2>2
  <2>4. t \in lo .. now - 1
    BY <1>1, <2>2, <2>3
  <2>5. i \in seen(t)
    BY <1>5, <2>3
  <2>6. ASSUME NEW j \in seen(t) PROVE j <= i
    <3>1. j \in 1 .. n /\ p[j].at <= t
      BY <1>5
    <3>2. ASSUME ~(j <= i) PROVE FALSE
      <4>1. i # n /\ i + 1 \in 1 .. n /\ i + 1 <= j
        BY <1>1, <3>1, <3>2
      <4>2. u(i) = p[i + 1].at /\ p[i + 1].at <= p[j].at /\ p[j].at \in Int
        BY <1>1, <1>3, <3>1, <4>1
      <4> QED
        BY <2>2, <2>3, <3>1, <4>2
    <3> QED
      BY <3>2
  <2>7. Max(seen(t)) = i
    <3>1. seen(t) \in SUBSET Int
      BY <1>1, <1>5
    <3> QED
      BY <2>5, <2>6, <3>1, MaxUnique
  <2> QED
    BY <1>2, <2>1, <2>4, <2>5, <2>7
<1> QED
  BY <1>6, <1>7

LEMMA OnlineTimeIs == OnlineTime = Online(Presence(rows), Start)
  BY DEF OnlineTime, Online, On

\* Where no row repeats the state of the one before, every available row opens a
\* session that the next row closes.
Alternates(p) == \A i \in 2 .. Len(p) : p[i].state # p[i - 1].state

NoSession == [onlineAt |-> Null, closed |-> <<>>]
Closing   == [onlineAt : Int \cup {Null}, closed : Seq(Spans)]

LEMMA LoggedAt == \A e \in Logged : e.at \in Int
  BY DEF Logged

LEMMA RestartFold == \A s : Parsed(s) = Restarting!Folded(NoSession, Presence(s))
  BY Zenon DEF Parsed, NoSession, Restarting!Folded, Restarting!FoldLeft, FoldLeft,
     Restarting!MapThenFoldSet, MapThenFoldSet, Restarting!Max, Max

LEMMA RestartKeeps ==
  \A acc \in Closing, e \in Logged :
    /\ Restart(acc, e) \in Closing
    /\ e.state = "available" =>
         Restart(acc, e).onlineAt = e.at /\ Restart(acc, e).closed = acc.closed
    /\ e.state # "available" =>
         /\ Restart(acc, e).onlineAt = Null
         /\ acc.onlineAt = Null => Restart(acc, e).closed = acc.closed
         /\ acc.onlineAt # Null => Restart(acc, e).closed = Append(acc.closed, <<acc.onlineAt, e.at>>)
<1> SUFFICES ASSUME NEW acc \in Closing, NEW e \in Logged
             PROVE  /\ Restart(acc, e) \in Closing
                    /\ e.state = "available" =>
                         Restart(acc, e).onlineAt = e.at /\ Restart(acc, e).closed = acc.closed
                    /\ e.state # "available" =>
                         /\ Restart(acc, e).onlineAt = Null
                         /\ acc.onlineAt = Null => Restart(acc, e).closed = acc.closed
                         /\ acc.onlineAt # Null => Restart(acc, e).closed = Append(acc.closed, <<acc.onlineAt, e.at>>)
  OBVIOUS
<1>1. e.at \in Int /\ acc.onlineAt \in Int \cup {Null} /\ acc.closed \in Seq(Spans)
      /\ acc = [onlineAt |-> acc.onlineAt, closed |-> acc.closed]
  BY DEF Logged, Closing
<1>2. CASE e.state = "available"
  BY <1>1, <1>2 DEF Restart, Closing
<1>3. CASE e.state # "available" /\ acc.onlineAt # Null
  <2>1. <<acc.onlineAt, e.at>> \in Spans
    BY <1>1, <1>3 DEF Spans
  <2>2. Append(acc.closed, <<acc.onlineAt, e.at>>) \in Seq(Spans)
    BY <1>1, <2>1
  <2> QED
    BY <1>3, <2>2 DEF Restart, Closing
<1>4. CASE e.state # "available" /\ acc.onlineAt = Null
  BY <1>1, <1>4 DEF Restart, Closing
<1> QED
  BY <1>2, <1>3, <1>4

LEMMA AppendedSet ==
  \A B : \A s \in Seq(B), e \in B : ToSet(Append(s, e)) = ToSet(s) \cup {e}
<1> SUFFICES ASSUME NEW B, NEW s \in Seq(B), NEW e \in B PROVE ToSet(Append(s, e)) = ToSet(s) \cup {e}
  OBVIOUS
<1>1. /\ Len(s) \in Nat /\ DOMAIN s = 1 .. Len(s) /\ DOMAIN Append(s, e) = 1 .. Len(s) + 1
      /\ \A i \in 1 .. Len(s) : Append(s, e)[i] = s[i]
      /\ Append(s, e)[Len(s) + 1] = e
  BY Appended
<1>2. \A x : x \in ToSet(Append(s, e)) <=> \E i \in 1 .. Len(s) + 1 : x = Append(s, e)[i]
  BY <1>1 DEF ToSet
<1>3. \A x : x \in ToSet(s) <=> \E i \in 1 .. Len(s) : x = s[i]
  BY <1>1 DEF ToSet
<1>4. \A i : i \in 1 .. Len(s) + 1 <=> i \in 1 .. Len(s) \/ i = Len(s) + 1
  BY <1>1
<1> QED
  BY <1>1, <1>2, <1>3, <1>4

LEMMA AppendedSpan == ASSUME NEW s, NEW x, s \in Seq(Spans), x \in Spans PROVE ToSet(Append(s, x)) = ToSet(s) \cup {x}
  BY AppendedSet

\* The sessions that the first rows close, and the one they leave open.
ClosedBy(p, i) == {<<p[k].at, p[k + 1].at>> : k \in {j \in 1 .. i - 1 : On(p, j)}}

LEMMA ClosedNext ==
  \A p : \A i \in Nat : ClosedBy(p, i + 1) =
    IF i > 0 /\ On(p, i) THEN ClosedBy(p, i) \cup {<<p[i].at, p[i + 1].at>>} ELSE ClosedBy(p, i)
<1> SUFFICES ASSUME NEW p, NEW i \in Nat
             PROVE  ClosedBy(p, i + 1) = IF i > 0 /\ On(p, i)
                                           THEN ClosedBy(p, i) \cup {<<p[i].at, p[i + 1].at>>}
                                           ELSE ClosedBy(p, i)
  OBVIOUS
<1>1. \A k : k \in 1 .. (i + 1) - 1 <=> k \in 1 .. i - 1 \/ (i > 0 /\ k = i)
  OBVIOUS
<1>2. ASSUME NEW x
      PROVE  x \in ClosedBy(p, i + 1) <=> x \in ClosedBy(p, i) \/ (i > 0 /\ On(p, i) /\ x = <<p[i].at, p[i + 1].at>>)
  BY <1>1 DEF ClosedBy
<1> QED
  BY <1>2

\* The time online: the sessions that the rows close, and the one still open.
LEMMA OnlineSpansAre ==
  ASSUME NEW p, NEW n, n = Len(p), n \in Nat, DOMAIN p = 1 .. n
  PROVE  \A x : x \in OnlineSpans(p) <=> x \in ClosedBy(p, n) \/ (n > 0 /\ On(p, n) /\ x = <<p[n].at, now>>)
<1>1. \A k : k \in 1 .. n <=> k \in 1 .. n - 1 \/ (n > 0 /\ k = n)
  OBVIOUS
<1>2. \A k \in 1 .. n - 1 : Until(p, k) = p[k + 1].at
  <2> SUFFICES ASSUME NEW k \in 1 .. n - 1 PROVE Until(p, k) = p[k + 1].at
    OBVIOUS
  <2>1. k # n
    OBVIOUS
  <2> QED
    BY <2>1 DEF Until
<1>3. Until(p, n) = now
  BY DEF Until
<1>4. \A x : x \in OnlineSpans(p) <=> \E k \in 1 .. n : On(p, k) /\ x = <<p[k].at, Until(p, k)>>
  BY DEF OnlineSpans
<1>5. \A x : x \in ClosedBy(p, n) <=> \E k \in 1 .. n - 1 : On(p, k) /\ x = <<p[k].at, Until(p, k)>>
  BY <1>2 DEF ClosedBy
<1> QED
  BY <1>1, <1>3, <1>4, <1>5

ParsedAfter(p, i, acc) ==
  /\ acc \in Closing
  /\ acc.onlineAt = (IF i > 0 /\ On(p, i) THEN p[i].at ELSE Null)
  /\ ToSet(acc.closed) = ClosedBy(p, i)

LEMMA ParsedStep ==
  ASSUME NEW p \in Seq(Logged), Alternates(p), NEW i \in 0 .. Len(p) - 1, NEW acc, ParsedAfter(p, i, acc)
  PROVE  ParsedAfter(p, i + 1, Restart(acc, p[i + 1]))
<1> DEFINE n == Len(p)
           e == p[i + 1]
           r == Restart(acc, e)
<1>1. n \in Nat /\ DOMAIN p = 1 .. n /\ i \in Nat /\ i + 1 \in 1 .. n /\ i \in 0 .. n - 1
  OBVIOUS
<1>2. \A k \in 1 .. n : p[k] \in Logged /\ p[k].at \in Int
  <2> SUFFICES ASSUME NEW k \in 1 .. n PROVE p[k] \in Logged /\ p[k].at \in Int
    OBVIOUS
  <2>1. p[k] \in Logged
    BY <1>1
  <2> QED
    BY <2>1, LoggedAt
<1>3. i > 0 => i \in 1 .. n /\ (On(p, i) => ~On(p, i + 1))
  <2> SUFFICES ASSUME i > 0 PROVE i \in 1 .. n /\ (On(p, i) => ~On(p, i + 1))
    OBVIOUS
  <2>1. i \in 1 .. n /\ i + 1 \in 2 .. n /\ (i + 1) - 1 = i
    BY <1>1
  <2>2. p[i + 1].state # p[i].state
    BY <2>1 DEF Alternates
  <2> QED
    BY <2>1, <2>2 DEF On
<1> HIDE DEF n
<1>4. e \in Logged /\ acc \in Closing /\ e.at = p[i + 1].at
  BY <1>1, <1>2 DEF ParsedAfter
<1>5. ClosedBy(p, i + 1) = IF i > 0 /\ On(p, i) THEN ClosedBy(p, i) \cup {<<p[i].at, p[i + 1].at>>} ELSE ClosedBy(p, i)
  BY <1>1, ClosedNext
<1> HIDE DEF e
<1>6. CASE On(p, i + 1)
  <2>1. e.state = "available" /\ ~(i > 0 /\ On(p, i))
    BY <1>3, <1>6 DEF On, e
  <2>2. r \in Closing /\ r.onlineAt = e.at /\ r.closed = acc.closed
    BY <1>4, <2>1, RestartKeeps
  <2>3. ClosedBy(p, i + 1) = ClosedBy(p, i)
    BY <1>5, <2>1
  <2>4. i + 1 > 0
    BY <1>1
  <2> HIDE DEF r
  <2> QED
    BY <1>4, <1>6, <2>2, <2>3, <2>4 DEF ParsedAfter, r, e
<1>7. CASE ~On(p, i + 1) /\ i > 0 /\ On(p, i)
  <2>1. e.state # "available" /\ acc.onlineAt = p[i].at /\ p[i].at \in Int
    BY <1>2, <1>3, <1>7 DEF On, e, ParsedAfter
  <2>2. acc.onlineAt # Null
    BY <2>1, NullAssumption
  <2>3. r \in Closing /\ r.onlineAt = Null /\ r.closed = Append(acc.closed, <<p[i].at, e.at>>)
    BY <1>4, <2>1, <2>2, RestartKeeps
  <2>4. <<p[i].at, e.at>> \in Spans /\ acc.closed \in Seq(Spans)
    BY <1>1, <1>2, <1>4, <2>1 DEF Spans, Closing
  <2> DEFINE x == <<p[i].at, e.at>>
  <2>5. ToSet(r.closed) = ToSet(acc.closed) \cup {x}
    <3>1. x \in Spans /\ r.closed = Append(acc.closed, x)
      BY <2>3, <2>4
    <3> DEFINE t == acc.closed
    <3>2. t \in Seq(Spans)
      BY <2>4
    <3> HIDE DEF x, r, t
    <3>3. ToSet(Append(t, x)) = ToSet(t) \cup {x}
      BY <3>1, <3>2, AppendedSpan
    <3> QED
      BY <3>1, <3>3 DEF t
  <2>6. ClosedBy(p, i + 1) = ClosedBy(p, i) \cup {x}
    BY <1>4, <1>5, <1>7
  <2> HIDE DEF r, x
  <2>7. ToSet(r.closed) = ClosedBy(p, i + 1)
    BY <2>5, <2>6 DEF ParsedAfter
  <2> QED
    BY <1>7, <2>3, <2>7 DEF ParsedAfter, r, e
<1>8. CASE ~On(p, i + 1) /\ ~(i > 0 /\ On(p, i))
  <2>1. e.state # "available" /\ acc.onlineAt = Null
    BY <1>8 DEF On, e, ParsedAfter
  <2>2. r \in Closing /\ r.onlineAt = Null /\ r.closed = acc.closed
    BY <1>4, <2>1, RestartKeeps
  <2>3. ClosedBy(p, i + 1) = ClosedBy(p, i)
    BY <1>5, <1>8
  <2> HIDE DEF r
  <2> QED
    BY <1>8, <2>2, <2>3 DEF ParsedAfter, r, e
<1> QED
  BY <1>6, <1>7, <1>8

LEMMA UpToNowIs ==
  ASSUME LogOk, Alternates(Presence(rows))
  PROVE  /\ ToSet(UpToNow(rows, Clock)) = OnlineSpans(Presence(rows))
         /\ ToSet(ParseSessions(rows)) = ClosedBy(Presence(rows), Len(Presence(rows)))
<1> DEFINE p == Presence(rows)
           n == Len(p)
<1>1. p \in Seq(Logged) /\ n \in Nat /\ DOMAIN p = 1 .. n
  BY PresenceIs DEF Timed
<1>a. Alternates(p)
  OBVIOUS
<1>b. \A i \in 1 .. n : p[i].at \in Int
  <2> SUFFICES ASSUME NEW i \in 1 .. n PROVE p[i].at \in Int
    OBVIOUS
  <2>1. p[i] \in Logged
    BY <1>1
  <2> QED
    BY <2>1, LoggedAt
<1>c. Parsed(rows) = Restarting!Folded(NoSession, p)
  BY RestartFold
<1>d. now \in Int
  BY DEF LogOk
<1> HIDE DEF p
<1>2. PICK f \in [0 .. Len(p) -> Closing] : Restarting!Along(f, NoSession, p) /\ Restarting!Folded(NoSession, p) = f[Len(p)]
  <2>1. \A a \in Closing, b \in Logged : Restart(a, b) \in Closing
    BY RestartKeeps
  <2>2. NoSession \in Closing
    BY DEF NoSession, Closing
  <2> QED
    BY <1>1, <2>1, <2>2, Restarting!FoldLeftSteps
<1> DEFINE G == {i \in 0 .. n : ParsedAfter(p, i, f[i])}
<1>3. 0 \in G
  <2>1. f[0] = NoSession /\ NoSession.closed = <<>> /\ NoSession.onlineAt = Null /\ NoSession \in Closing
    BY <1>2 DEF Restarting!Along, NoSession, Closing
  <2>2. ToSet(NoSession.closed) = {}
    BY <2>1 DEF ToSet
  <2>3. ClosedBy(p, 0) = {}
    <3>1. 1 .. 0 - 1 = {}
      OBVIOUS
    <3> QED
      BY <3>1 DEF ClosedBy
  <2>4. 0 \in 0 .. n
    BY <1>1
  <2>5. ParsedAfter(p, 0, NoSession)
    BY <2>1, <2>2, <2>3 DEF ParsedAfter
  <2> QED
    BY <2>1, <2>4, <2>5
<1>4. \A i \in 0 .. n - 1 : i \in G => i + 1 \in G
  <2> SUFFICES ASSUME NEW i \in 0 .. n - 1, ParsedAfter(p, i, f[i]) PROVE ParsedAfter(p, i + 1, f[i + 1])
    BY <1>1
  <2>1. i + 1 \in 1 .. n /\ (i + 1) - 1 = i
    BY <1>1
  <2>2. f[i + 1] = Restart(f[i], p[i + 1])
    BY <1>2, <2>1 DEF Restarting!Along
  <2> QED
    BY <1>1, <1>a, <2>2, ParsedStep
<1>5. n \in G
  <2> HIDE DEF G, n
  <2>1. \A i \in 0 .. n : i \in G
    BY <1>1, <1>3, <1>4, Placing!UpTo
  <2> QED
    BY <1>1, <2>1
<1> DEFINE acc == Parsed(rows)
<1>6. ParsedAfter(p, n, acc)
  BY <1>2, <1>5, <1>c
<1>7. ParseSessions(rows) = acc.closed
  BY DEF ParseSessions
<1>8. UpToNow(rows, Clock) = IF acc.onlineAt = Null THEN acc.closed ELSE Append(acc.closed, <<acc.onlineAt, now>>)
  BY DEF UpToNow, Clock
<1> HIDE DEF acc, n, G
<1>9. n > 0 => n \in 1 .. n
  BY <1>1
<1>10. \A x : x \in OnlineSpans(p) <=> x \in ClosedBy(p, n) \/ (n > 0 /\ On(p, n) /\ x = <<p[n].at, now>>)
  BY <1>1, OnlineSpansAre DEF n
<1>11. CASE n > 0 /\ On(p, n)
  <2>1. acc.onlineAt = p[n].at /\ p[n].at \in Int
    BY <1>6, <1>9, <1>11, <1>b DEF ParsedAfter
  <2>2. acc.onlineAt # Null
    BY <2>1, NullAssumption
  <2> DEFINE x == <<p[n].at, now>>
  <2>3. x \in Spans /\ acc.closed \in Seq(Spans)
    BY <1>6, <1>d, <2>1 DEF ParsedAfter, Closing, Spans
  <2>4. UpToNow(rows, Clock) = Append(acc.closed, x)
    BY <1>8, <2>1, <2>2
  <2>5. \A y : y \in OnlineSpans(p) <=> y \in ClosedBy(p, n) \/ y = x
    BY <1>10, <1>11
  <2> HIDE DEF x
  <2>6. ToSet(Append(acc.closed, x)) = ToSet(acc.closed) \cup {x}
    BY <2>3, AppendedSet
  <2>7. ToSet(acc.closed) = ClosedBy(p, n)
    BY <1>6 DEF ParsedAfter
  <2>8. ToSet(UpToNow(rows, Clock)) = OnlineSpans(p)
    BY <2>4, <2>5, <2>6, <2>7
  <2> QED
    BY <1>7, <2>7, <2>8 DEF p, n
<1>12. CASE ~(n > 0 /\ On(p, n))
  <2>1. acc.onlineAt = Null /\ ToSet(acc.closed) = ClosedBy(p, n)
    BY <1>6, <1>12 DEF ParsedAfter
  <2>2. UpToNow(rows, Clock) = acc.closed
    BY <1>8, <2>1
  <2>3. OnlineSpans(p) = ClosedBy(p, n)
    BY <1>10, <1>12
  <2> QED
    BY <1>7, <2>1, <2>2, <2>3 DEF p, n
<1> QED
  BY <1>11, <1>12

-----------------------------------------------------------------------------
\* The hours of the clock.
LEMMA HourOfDay ==
  ASSUME NEW x \in Int
  PROVE  (x % Day) \div Hour = (x \div Hour) % HoursPerDay /\ (x % Day) \div Hour \in 0 .. HoursPerDay - 1
<1> DEFINE q == x \div Hour
           r == x % Hour
           a == q \div HoursPerDay
           b == q % HoursPerDay
           y == Hour * b + r
<1>1. q \in Int /\ r \in 0 .. Hour - 1 /\ x = Hour * q + r /\ Hour \in Nat \ {0}
  BY Calendar, Division
<1>2. a \in Int /\ b \in 0 .. HoursPerDay - 1 /\ q = HoursPerDay * a + b /\ HoursPerDay \in Nat \ {0}
  <2> HIDE DEF q
  <2> QED
    BY <1>1, Calendar, Division
<1>3. Day = Hour * HoursPerDay /\ Day \in Nat \ {0}
  BY Calendar DEF Day
<1> HIDE DEF q, r, a, b
<1>4. y \in 0 .. Day - 1
  <2> DEFINE z == Hour * b
             w == Hour * (HoursPerDay - 1)
  <2>1. z \in Int /\ w \in Int /\ w = Day - Hour
    BY <1>1, <1>2, <1>3, SMTT(20)
  <2>2. 0 <= z /\ z <= w
    <3>1. \A k, l \in Int, h \in Nat : k <= l => h * k <= h * l
      BY SMTT(20)
    <3>2. 0 <= b /\ b <= HoursPerDay - 1 /\ b \in Int /\ HoursPerDay - 1 \in Int /\ Hour * 0 = 0
      BY <1>1, <1>2
    <3> QED
      BY <1>1, <3>1, <3>2
  <2> HIDE DEF z, w
  <2>3. z + r \in 0 .. Day - 1
    BY <1>1, <1>3, <2>1, <2>2
  <2> QED
    BY <2>3 DEF z
<1>5. x = Day * a + y
  <2>1. \A h, n, k, l, s \in Int : h * (n * k + l) + s = (h * n) * k + (h * l + s)
    BY SMTT(20)
  <2>2. b \in Int /\ r \in Int /\ Hour \in Int /\ HoursPerDay \in Int
    BY <1>1, <1>2
  <2>3. Hour * (HoursPerDay * a + b) + r = (Hour * HoursPerDay) * a + (Hour * b + r)
    BY <1>2, <2>1, <2>2
  <2> QED
    BY <1>1, <1>2, <1>3, <2>3
<1>6. y = Hour * b + r /\ b \in Int
  BY <1>2
<1> HIDE DEF y
<1>7. x % Day = y
  BY <1>2, <1>3, <1>4, <1>5, Quotient
<1>8. y \div Hour = b
  <2>1. y \in Int
    BY <1>4, <1>3
  <2> QED
    BY <1>1, <1>6, <2>1, Quotient
<1> QED
  BY <1>2, <1>7, <1>8 DEF b, q

LEMMA ShiftedQuotient ==
  ASSUME NEW x \in Int, NEW step \in Nat \ {0}, NEW shift \in Int, shift % step = 0
  PROVE  (x + shift) \div step = x \div step + shift \div step
<1> DEFINE q == x \div step
           r == x % step
           m == shift \div step
<1>1. q \in Int /\ r \in 0 .. step - 1 /\ x = step * q + r
  BY Division
<1>2. m \in Int /\ shift = step * m
  <2>1. m \in Int /\ shift = step * m + (shift % step) /\ step * m \in Int
    BY Division, Product
  <2> QED
    BY <2>1
<1> HIDE DEF q, r, m
<1>3. x + shift = step * (q + m) + r
  <2>1. \A s, k, l, t \in Int : (s * k + t) + s * l = s * (k + l) + t
    BY SMTT(20)
  <2>2. r \in Int /\ step \in Int
    BY <1>1
  <2>3. (step * q + r) + step * m = step * (q + m) + r
    BY <1>1, <1>2, <2>1, <2>2
  <2> QED
    BY <1>1, <1>2, <2>3
<1>4. (x + shift) \div step = q + m
  <2>1. x + shift \in Int /\ q + m \in Int
    BY <1>1, <1>2
  <2> QED
    BY <1>1, <1>3, <2>1, Quotient
<1> QED
  BY <1>4 DEF q, m

LEMMA LocalTimes ==
  ASSUME offset \in Int
  PROVE  /\ \A t \in Int : LocalHour(t, Clock) \in 0 .. HoursPerDay - 1
         /\ offset % Hour = 0 =>
              \A t, m \in Int : (m + 0) \div Hour = (t + 0) \div Hour => LocalHour(m, Clock) = LocalHour(t, Clock)
         /\ \A t, m \in Int : (m + offset) \div Day = (t + offset) \div Day =>
              LocalDay(m, Clock) = LocalDay(t, Clock) /\ Weekday(m, Clock) = Weekday(t, Clock)
<1>1. \A t : LocalHour(t, Clock) = ((t + offset) % Day) \div Hour /\ LocalDay(t, Clock) = (t + offset) \div Day
  BY DEF LocalHour, LocalDay, Clock
<1>2. ASSUME NEW t \in Int PROVE LocalHour(t, Clock) \in 0 .. HoursPerDay - 1
  <2>1. t + offset \in Int
    OBVIOUS
  <2> QED
    BY <1>1, <2>1, HourOfDay
<1>3. ASSUME offset % Hour = 0, NEW t \in Int, NEW m \in Int, (m + 0) \div Hour = (t + 0) \div Hour
      PROVE  LocalHour(m, Clock) = LocalHour(t, Clock)
  <2>1. m + offset \in Int /\ t + offset \in Int /\ m + 0 = m /\ t + 0 = t
    OBVIOUS
  <2>2. (m + offset) \div Hour = m \div Hour + offset \div Hour
    BY <1>3, Calendar, ShiftedQuotient
  <2>3. (t + offset) \div Hour = t \div Hour + offset \div Hour
    BY <1>3, Calendar, ShiftedQuotient
  <2>4. (m + offset) \div Hour = (t + offset) \div Hour
    BY <1>3, <2>1, <2>2, <2>3
  <2>5. /\ ((m + offset) % Day) \div Hour = ((m + offset) \div Hour) % HoursPerDay
        /\ ((t + offset) % Day) \div Hour = ((t + offset) \div Hour) % HoursPerDay
    BY <2>1, HourOfDay
  <2> QED
    BY <1>1, <2>4, <2>5
<1>4. ASSUME NEW t \in Int, NEW m \in Int, (m + offset) \div Day = (t + offset) \div Day
      PROVE  LocalDay(m, Clock) = LocalDay(t, Clock) /\ Weekday(m, Clock) = Weekday(t, Clock)
  BY <1>1, <1>4 DEF Weekday
<1> QED
  BY <1>2, <1>3, <1>4

\* The slices of the sessions up to now: what the charts add up.
LEMMA SlicedSessions ==
  ASSUME LogOk, Alternating, NEW step \in Nat \ {0}, NEW shift \in Int
  PROVE  LET L == Slices(UpToNow(rows, Clock), step, shift)
         IN  /\ Sliced(L) /\ Cover(L) = OnlineTime
             /\ \A s \in L : s[1] \in Int /\ Moments(s) \subseteq Int
             /\ \A s \in L : \A m \in Moments(s) : (m + shift) \div step = (s[1] + shift) \div step
<1> DEFINE p == Presence(rows)
           spans == UpToNow(rows, Clock)
           L == Slices(spans, step, shift)
<1>1. Timed(p, Start) /\ Start \in Int /\ now \in Int
  BY PresenceIs, PagesAssumption DEF LogOk
<1>2. Alternates(p)
  BY DEF Alternating, Alternates
<1>3. ToSet(spans) = OnlineSpans(p)
  BY <1>2, UpToNowIs
<1>4. Tidy(ToSet(spans), Start, now)
  BY <1>1, <1>3, SpansTidy
<1>5. Cover(ToSet(spans)) = OnlineTime
  BY <1>1, <1>3, SpansCover, OnlineTimeIs
<1> HIDE DEF p, spans
<1>6. /\ Tidy(L, Start, now) /\ IsFiniteSet(L)
      /\ \A s \in L : s[1] \in Moments(s)
      /\ Cover(L) = Cover(ToSet(spans))
      /\ \A s \in L : \A m \in Moments(s) : (m + shift) \div step = (s[1] + shift) \div step
  BY <1>1, <1>4, TidySlices
<1> HIDE DEF L
<1>7. Sliced(L)
  BY <1>6 DEF Sliced, Tidy
<1>8. \A s \in L : s[1] \in Int /\ Moments(s) \subseteq Int
  <2> SUFFICES ASSUME NEW s \in L PROVE s[1] \in Int /\ Moments(s) \subseteq Int
    OBVIOUS
  <2>1. s \in Spans
    BY <1>6 DEF Tidy
  <2>2. s[1] \in Int /\ s[2] \in Int
    BY <2>1 DEF Spans
  <2> QED
    BY <2>2 DEF Moments
<1> QED
  BY <1>5, <1>6, <1>7, <1>8 DEF L, spans

LEMMA HoursAreExact ==
  ASSUME LogOk, Alternating
  PROVE  LET hours == ComputePeakHours(rows, Clock)
         IN  /\ SumOver(hours, DOMAIN hours) = Cardinality(OnlineTime)
             /\ offset % Hour = 0 => \A h \in DOMAIN hours :
                  hours[h] = Cardinality({t \in OnlineTime : LocalHour(t, Clock) = h})
<1> DEFINE L == Slices(UpToNow(rows, Clock), Hour, 0)
           key == [t \in Int |-> LocalHour(t, Clock)]
           D == 0 .. HoursPerDay - 1
           hours == ComputePeakHours(rows, Clock)
<1>1. /\ Sliced(L) /\ Cover(L) = OnlineTime
      /\ \A s \in L : s[1] \in Int /\ Moments(s) \subseteq Int
      /\ \A s \in L : \A m \in Moments(s) : (m + 0) \div Hour = (s[1] + 0) \div Hour
  BY Calendar, SlicedSessions
<1>2. offset \in Int
  BY ZonesAssumption DEF LogOk
<1>3. hours = [h \in D |-> TimeOf({s \in L : LocalHour(s[1], Clock) = h})]
  BY DEF ComputePeakHours, DistributeToHours
<1>4. \A t \in Int : key[t] = LocalHour(t, Clock) /\ key[t] \in D
  BY <1>2, LocalTimes
<1> HIDE DEF L, key, D
<1>5. \A h : {s \in L : LocalHour(s[1], Clock) = h} = Keyed(L, key, h)
  BY <1>1, <1>4 DEF Keyed
<1> HIDE DEF hours
<1>6. hours = [h \in D |-> TimeOf(Keyed(L, key, h))]
  BY <1>3, <1>5
<1>7. IsFiniteSet(D)
  BY FS_Interval, Calendar DEF D
<1>8. SumOver(hours, DOMAIN hours) = Cardinality(OnlineTime)
  <2>1. \A s \in L : key[s[1]] \in D
    BY <1>1, <1>4
  <2>2. SumOver(hours, D) = Cardinality(Cover(L))
    BY <1>1, <1>6, <1>7, <2>1, BucketsAddUp
  <2> QED
    BY <1>1, <1>6, <2>2
<1>9. ASSUME offset % Hour = 0, NEW h \in DOMAIN hours
      PROVE  hours[h] = Cardinality({t \in OnlineTime : LocalHour(t, Clock) = h})
  <2>1. \A s \in L : \A m \in Moments(s) : key[m] = key[s[1]]
    <3> SUFFICES ASSUME NEW s \in L, NEW m \in Moments(s) PROVE key[m] = key[s[1]]
      OBVIOUS
    <3>1. s[1] \in Int /\ m \in Int /\ (m + 0) \div Hour = (s[1] + 0) \div Hour
      BY <1>1
    <3>2. LocalHour(m, Clock) = LocalHour(s[1], Clock)
      BY <1>2, <1>9, <3>1, LocalTimes
    <3> QED
      BY <1>4, <3>1, <3>2
  <2>2. TimeOf(Keyed(L, key, h)) = Cardinality({t \in Cover(L) : key[t] = h})
    BY <1>1, <2>1, BucketIs
  <2>3. hours[h] = TimeOf(Keyed(L, key, h))
    BY <1>6
  <2>4. OnlineTime \in SUBSET Int
    BY PagesAssumption DEF OnlineTime, LogOk
  <2>5. {t \in Cover(L) : key[t] = h} = {t \in OnlineTime : LocalHour(t, Clock) = h}
    BY <1>1, <1>4, <2>4
  <2> QED
    BY <2>2, <2>3, <2>5
<1> QED
  BY <1>8, <1>9 DEF hours

LEMMA WeekIsExact ==
  ASSUME LogOk, Alternating
  PROVE  LET week == ComputeWeekdayActivity(rows, Clock)
         IN  \A d \in DOMAIN week : week[d] = Cardinality({t \in OnlineTime : Weekday(t, Clock) = d})
<1> DEFINE L == Slices(UpToNow(rows, Clock), Day, offset)
           key == [t \in Int |-> Weekday(t, Clock)]
           D == 0 .. DaysPerWeek - 1
           week == ComputeWeekdayActivity(rows, Clock)
<1>2. offset \in Int
  BY ZonesAssumption DEF LogOk
<1>1. /\ Sliced(L) /\ Cover(L) = OnlineTime
      /\ \A s \in L : s[1] \in Int /\ Moments(s) \subseteq Int
      /\ \A s \in L : \A m \in Moments(s) : (m + offset) \div Day = (s[1] + offset) \div Day
  BY <1>2, Calendar, SlicedSessions
<1>3. week = [d \in D |-> TimeOf({s \in L : Weekday(s[1], Clock) = d})]
  BY DEF ComputeWeekdayActivity, DistributeToWeekdays, Clock
<1>4. \A t \in Int : key[t] = Weekday(t, Clock)
  OBVIOUS
<1> HIDE DEF L, key, D
<1>5. \A d : {s \in L : Weekday(s[1], Clock) = d} = Keyed(L, key, d)
  BY <1>1, <1>4 DEF Keyed
<1> HIDE DEF week
<1>6. week = [d \in D |-> TimeOf(Keyed(L, key, d))]
  BY <1>3, <1>5
<1>7. ASSUME NEW d \in DOMAIN week
      PROVE  week[d] = Cardinality({t \in OnlineTime : Weekday(t, Clock) = d})
  <2>1. \A s \in L : \A m \in Moments(s) : key[m] = key[s[1]]
    <3> SUFFICES ASSUME NEW s \in L, NEW m \in Moments(s) PROVE key[m] = key[s[1]]
      OBVIOUS
    <3>1. s[1] \in Int /\ m \in Int /\ (m + offset) \div Day = (s[1] + offset) \div Day
      BY <1>1
    <3>2. Weekday(m, Clock) = Weekday(s[1], Clock)
      BY <1>2, <3>1, LocalTimes
    <3> QED
      BY <1>4, <3>1, <3>2
  <2>2. TimeOf(Keyed(L, key, d)) = Cardinality({t \in Cover(L) : key[t] = d})
    BY <1>1, <2>1, BucketIs
  <2>3. week[d] = TimeOf(Keyed(L, key, d))
    BY <1>6
  <2>4. OnlineTime \in SUBSET Int
    BY PagesAssumption DEF OnlineTime, LogOk
  <2>5. {t \in Cover(L) : key[t] = d} = {t \in OnlineTime : Weekday(t, Clock) = d}
    BY <1>1, <1>4, <2>4
  <2> QED
    BY <2>2, <2>3, <2>5
<1> QED
  BY <1>7 DEF week

LEMMA DaysAddUp ==
  ASSUME LogOk, Alternating
  PROVE  LET byDay == BuildDailySeconds(rows, Clock)
         IN  SumOver(byDay, DOMAIN byDay) = Cardinality(OnlineTime)
<1> DEFINE L == Slices(UpToNow(rows, Clock), Day, offset)
           key == [t \in Int |-> IsoDay(t)]
           D == {IsoDay(s[1]) : s \in L}
           byDay == BuildDailySeconds(rows, Clock)
<1>2. offset \in Int
  BY ZonesAssumption DEF LogOk
<1>1. /\ Sliced(L) /\ Cover(L) = OnlineTime /\ \A s \in L : s[1] \in Int
  BY <1>2, Calendar, SlicedSessions
<1>3. byDay = [d \in D |-> TimeOf({s \in L : IsoDay(s[1]) = d})]
  BY DEF BuildDailySeconds, Clock
<1>4. \A t \in Int : key[t] = IsoDay(t)
  OBVIOUS
<1> HIDE DEF L, key
<1>7. IsFiniteSet(D)
  <2>1. IsFiniteSet(L)
    BY <1>1 DEF Sliced
  <2> DEFINE f == [s \in L |-> IsoDay(s[1])]
  <2>2. f \in Surjection(L, D)
    BY DEF Surjection
  <2> HIDE DEF D, f
  <2> QED
    BY <2>1, <2>2, FS_Surjection
<1>8. \A s \in L : key[s[1]] \in D
  BY <1>1, <1>4
<1> HIDE DEF D
<1>5. \A d : {s \in L : IsoDay(s[1]) = d} = Keyed(L, key, d)
  BY <1>1, <1>4 DEF Keyed
<1> HIDE DEF byDay
<1>6. byDay = [d \in D |-> TimeOf(Keyed(L, key, d))]
  BY <1>3, <1>5
<1>9. SumOver(byDay, D) = Cardinality(Cover(L))
  BY <1>1, <1>6, <1>7, <1>8, BucketsAddUp
<1>10. DOMAIN byDay = D
  BY <1>6
<1> QED
  BY <1>1, <1>9, <1>10 DEF byDay

-----------------------------------------------------------------------------
\* The demo's copies of the same code compute the same.
LEMMA DemoParsed == \A e : Demo!Web!Parsed(e) = Parsed(e)
  BY Zenon DEF Demo!Web!Parsed, Parsed, Demo!Web!Restart, Restart,
     Demo!Web!Presence, Presence, Demo!Web!OfKind, OfKind, Demo!Web!Only, Only,
     Demo!Web!Ascending, Ascending, Demo!Web!Cardinality, Cardinality,
     Demo!Web!IsFiniteSet, IsFiniteSet,
     Demo!Web!SortByAt, SortByAt, Demo!Web!Place, Place, Demo!Web!InsertAt, InsertAt,
     Demo!Web!FoldLeft, FoldLeft, Demo!Web!MapThenFoldSet, MapThenFoldSet, Demo!Web!Max, Max

LEMMA DemoTimes == \A t, c : /\ Demo!Web!LocalHour(t, c) = LocalHour(t, c)
                             /\ Demo!Web!Weekday(t, c) = Weekday(t, c)
                             /\ Demo!Web!Day = Day
  BY Zenon DEF Demo!Web!LocalHour, LocalHour, Demo!Web!Weekday, Weekday,
     Demo!Web!LocalDay, LocalDay, Demo!Web!Day, Day

LEMMA DemoSlices == \A s, a, b : Demo!Web!Slices(s, a, b) = Slices(s, a, b)
  BY Zenon DEF Demo!Web!Slices, Slices, Demo!Web!Cuts, Cuts, Demo!Web!Min, Min,
     Demo!Web!ToSet, ToSet

LEMMA DemoSums == \A L : Demo!Web!TimeOf(L) = TimeOf(L)
  BY Zenon DEF Demo!Web!TimeOf, TimeOf, Demo!Web!SumOver, SumOver,
     Demo!Web!MapThenSumSet, MapThenSumSet, Demo!Web!MapThenFoldSet, MapThenFoldSet

LEMMA DemoUpToNow == \A e, c : Demo!Web!UpToNow(e, c) = UpToNow(e, c)
  BY DemoParsed, Zenon DEF Demo!Web!UpToNow, UpToNow

LEMMA DemoIsTheSame ==
  \A e, c : Demo!activityCharts(e, c) =
              [hourly |-> ComputePeakHours(e, c), weekday |-> ComputeWeekdayActivity(e, c)]
<1> TAKE e, c
<1>1. \A spans : Demo!Web!DistributeToHours(spans, c) = DistributeToHours(spans, c)
  BY DemoSlices, DemoSums, DemoTimes, Zenon DEF Demo!Web!DistributeToHours, DistributeToHours
<1>2. \A spans : Demo!Web!DistributeToWeekdays(spans, c) = DistributeToWeekdays(spans, c)
  BY DemoSlices, DemoSums, DemoTimes, Zenon DEF Demo!Web!DistributeToWeekdays, DistributeToWeekdays
<1>3. Demo!computePeakHours(e, c) = ComputePeakHours(e, c)
  BY <1>1, DemoUpToNow, Zenon DEF Demo!computePeakHours, Demo!Web!ComputePeakHours, ComputePeakHours
<1>4. Demo!computeWeekdayActivity(e, c) = ComputeWeekdayActivity(e, c)
  BY <1>2, DemoUpToNow, Zenon DEF Demo!computeWeekdayActivity, Demo!Web!ComputeWeekdayActivity, ComputeWeekdayActivity
<1> QED
  BY <1>3, <1>4, Zenon DEF Demo!activityCharts

\* Whatever the zone, the calendar and the log, as long as no row repeats the
\* state of the one before: the hours, the weekdays and the days of the charts add
\* up to the time online, each moment counted on its local weekday and, in zones of
\* whole hours, in its local hour (presence-stats.ts, distributeToHours,
\* distributeToWeekdays, buildDailySeconds; in both applications).
THEOREM ChartsAreExact == Spec => []LocalClock
<1>1. LogOk => LocalClock
  BY HoursAreExact, WeekIsExact, DaysAddUp, DemoIsTheSame, Zenon DEF LocalClock
<1> QED
  BY <1>1, LogIsOrdered, PTL

-----------------------------------------------------------------------------
\* The server's loop: the same spans, from the rows of the range and a first row
\* that stands for the state before it.
Counting         == [cursor : Int, spans : Seq(Spans), on : BOOLEAN]
Counts(seed, ev) == FoldLeft(Apply, seed, ev)
Row(on, at)      == [state |-> IF on THEN "available" ELSE "unavailable", at |-> at]
Seeded(row, ev)  == [k \in 1 .. Len(ev) + 1 |-> IF k = 1 THEN row ELSE ev[k - 1]]

LEMMA CountsFold == \A b, s : Counts(b, s) = Applying!Folded(b, s)
  BY Zenon DEF Counts, Applying!Folded, Applying!FoldLeft, FoldLeft,
     Applying!MapThenFoldSet, MapThenFoldSet, Applying!Max, Max

LEMMA ElapseKeeps ==
  \A acc \in Counting, t \in Int :
    /\ Elapse(acc, t) \in Counting /\ Elapse(acc, t).cursor = t
    /\ acc.on  => Elapse(acc, t).spans = Append(acc.spans, <<acc.cursor, t>>)
    /\ ~acc.on => Elapse(acc, t).spans = acc.spans
    /\ acc.spans \in Seq(Spans) /\ <<acc.cursor, t>> \in Spans
<1> SUFFICES ASSUME NEW acc \in Counting, NEW t \in Int
             PROVE  /\ Elapse(acc, t) \in Counting /\ Elapse(acc, t).cursor = t
                    /\ acc.on  => Elapse(acc, t).spans = Append(acc.spans, <<acc.cursor, t>>)
                    /\ ~acc.on => Elapse(acc, t).spans = acc.spans
                    /\ acc.spans \in Seq(Spans) /\ <<acc.cursor, t>> \in Spans
  OBVIOUS
<1>1. acc.cursor \in Int /\ acc.spans \in Seq(Spans) /\ acc.on \in BOOLEAN
      /\ acc = [cursor |-> acc.cursor, spans |-> acc.spans, on |-> acc.on]
  BY DEF Counting
<1>2. <<acc.cursor, t>> \in Spans
  BY <1>1 DEF Spans
<1>3. Append(acc.spans, <<acc.cursor, t>>) \in Seq(Spans)
  BY <1>1, <1>2
<1>4. Elapse(acc, t) = [cursor |-> t, spans |-> IF acc.on THEN Append(acc.spans, <<acc.cursor, t>>) ELSE acc.spans,
                        on |-> acc.on]
  <2>1. CASE acc.on
    <3>1. Elapse(acc, t) = [acc EXCEPT !.cursor = t, !.spans = Append(@, <<acc.cursor, t>>)]
      BY <2>1 DEF Elapse
    <3> QED
      BY <1>1, <2>1, <3>1 DEF Counting
  <2>2. CASE ~acc.on
    <3>1. Elapse(acc, t) = [acc EXCEPT !.cursor = t, !.spans = @]
      BY <2>2 DEF Elapse
    <3> QED
      BY <1>1, <2>2, <3>1 DEF Counting
  <2> QED
    BY <2>1, <2>2
<1> QED
  BY <1>1, <1>2, <1>3, <1>4 DEF Counting

LEMMA ApplyKeeps ==
  \A acc \in Counting, e \in Logged :
    /\ Apply(acc, e) \in Counting /\ Apply(acc, e).cursor = e.at
    /\ Apply(acc, e).on <=> e.state = "available"
    /\ Apply(acc, e).spans = Elapse(acc, e.at).spans
<1> SUFFICES ASSUME NEW acc \in Counting, NEW e \in Logged
             PROVE  /\ Apply(acc, e) \in Counting /\ Apply(acc, e).cursor = e.at
                    /\ Apply(acc, e).on <=> e.state = "available"
                    /\ Apply(acc, e).spans = Elapse(acc, e.at).spans
  OBVIOUS
<1> DEFINE r == Elapse(acc, e.at)
<1>1. r \in Counting /\ r.cursor = e.at
  BY LoggedAt, ElapseKeeps
<1>2. Apply(acc, e) = [r EXCEPT !.on = (e.state = "available")]
  BY DEF Apply
<1> HIDE DEF r
<1> DEFINE b == (e.state = "available")
<1>3. b \in BOOLEAN /\ (b <=> e.state = "available")
  OBVIOUS
<1>4. Apply(acc, e) = [r EXCEPT !.on = b]
  BY <1>2
<1> HIDE DEF b
<1>5. Apply(acc, e) = [cursor |-> r.cursor, spans |-> r.spans, on |-> b]
  BY <1>1, <1>4 DEF Counting
<1>6. r.cursor \in Int /\ r.spans \in Seq(Spans)
  BY <1>1 DEF Counting
<1>7. Apply(acc, e) \in Counting /\ Apply(acc, e).on = b /\ Apply(acc, e).cursor = r.cursor
      /\ Apply(acc, e).spans = r.spans
  BY <1>3, <1>5, <1>6 DEF Counting
<1> QED
  BY <1>1, <1>3, <1>7 DEF r

CountedAfter(q, i, acc) ==
  /\ acc \in Counting /\ acc.cursor = q[i].at
  /\ acc.on <=> On(q, i)
  /\ ToSet(acc.spans) = ClosedBy(q, i)

\* The time until a moment closes a span if they were on.
LEMMA ElapseCounts ==
  ASSUME NEW q, NEW i \in Nat \ {0}, NEW acc, CountedAfter(q, i, acc), NEW t \in Int
  PROVE  ToSet(Elapse(acc, t).spans) = IF On(q, i) THEN ClosedBy(q, i) \cup {<<q[i].at, t>>} ELSE ClosedBy(q, i)
<1>1. acc \in Counting /\ acc.cursor = q[i].at /\ ToSet(acc.spans) = ClosedBy(q, i)
  BY DEF CountedAfter
<1> DEFINE s == acc.spans
           x == <<acc.cursor, t>>
<1>2. s \in Seq(Spans) /\ x \in Spans
  BY <1>1, ElapseKeeps
<1>3. CASE On(q, i)
  <2>1. acc.on
    BY <1>3 DEF CountedAfter
  <2>2. Elapse(acc, t).spans = Append(s, x)
    BY <1>1, <2>1, ElapseKeeps
  <2> HIDE DEF s, x
  <2>3. ToSet(Append(s, x)) = ToSet(s) \cup {x}
    BY <1>2, AppendedSpan
  <2> QED
    BY <1>1, <1>3, <2>2, <2>3 DEF s, x
<1>4. CASE ~On(q, i)
  <2>1. ~acc.on
    BY <1>4 DEF CountedAfter
  <2>2. Elapse(acc, t).spans = s
    BY <1>1, <2>1, ElapseKeeps
  <2> QED
    BY <1>1, <1>4, <2>2
<1> QED
  BY <1>3, <1>4

LEMMA CountedSpans ==
  ASSUME now \in Int, NEW begin \in Int, NEW on \in BOOLEAN, NEW ev \in Seq(Logged)
  PROVE  ToSet(Elapse(Counts([cursor |-> begin, spans |-> <<>>, on |-> on], ev), now).spans)
           = OnlineSpans(Seeded(Row(on, begin), ev))
<1> DEFINE seed == [cursor |-> begin, spans |-> <<>>, on |-> on]
           row == Row(on, begin)
           q == Seeded(row, ev)
           n == Len(ev)
<1>1. n \in Nat /\ DOMAIN ev = 1 .. n /\ \A k \in 1 .. n : ev[k] \in Logged
  OBVIOUS
<1>2. /\ DOMAIN q = 1 .. n + 1 /\ q[1] = row
      /\ \A k \in 1 .. n : q[k + 1] = ev[k]
  BY <1>1 DEF Seeded
<1>3. Len(q) = n + 1
  BY <1>1, <1>2 DEF Seeded
<1>4. row.at = begin /\ (row.state = "available" <=> on)
  BY DEF Row
<1> HIDE DEF n, q, row
<1>5. CountedAfter(q, 1, seed)
  <2>1. seed \in Counting /\ seed.cursor = begin /\ seed.on = on /\ seed.spans = <<>>
    BY DEF Counting
  <2>2. ToSet(seed.spans) = {}
    BY <2>1 DEF ToSet
  <2>3. ClosedBy(q, 1) = {}
    <3>1. 1 .. 1 - 1 = {}
      OBVIOUS
    <3> QED
      BY <3>1 DEF ClosedBy
  <2> HIDE DEF seed
  <2> QED
    BY <1>2, <1>4, <2>1, <2>2, <2>3 DEF CountedAfter, On
<1> HIDE DEF seed
<1>6. PICK f \in [0 .. Len(ev) -> Counting] : Applying!Along(f, seed, ev) /\ Applying!Folded(seed, ev) = f[Len(ev)]
  <2>1. \A a \in Counting, b \in Logged : Apply(a, b) \in Counting
    BY ApplyKeeps
  <2>2. seed \in Counting
    BY <1>5 DEF CountedAfter
  <2> QED
    BY <2>1, <2>2, Applying!FoldLeftSteps
<1> DEFINE G == {i \in 0 .. n : CountedAfter(q, i + 1, f[i])}
<1>7. 0 \in G
  <2>1. f[0] = seed /\ 0 \in 0 .. n /\ 0 + 1 = 1
    BY <1>1, <1>6 DEF Applying!Along
  <2> QED
    BY <1>5, <2>1
<1>8. \A i \in 0 .. n - 1 : i \in G => i + 1 \in G
  <2> SUFFICES ASSUME NEW i \in 0 .. n - 1, CountedAfter(q, i + 1, f[i]) PROVE CountedAfter(q, (i + 1) + 1, f[i + 1])
    BY <1>1
  <2> DEFINE e == ev[i + 1]
             acc == f[i]
             j == i + 1
  <2>1. j \in 1 .. n /\ j \in Nat \ {0} /\ (i + 1) - 1 = i /\ j > 0
    BY <1>1
  <2>2. f[j] = Apply(acc, e)
    BY <1>6, <2>1 DEF Applying!Along, n
  <2>3. e \in Logged /\ e.at \in Int /\ q[j + 1] = e
    BY <1>1, <1>2, <2>1, LoggedAt
  <2>4. CountedAfter(q, j, acc) /\ acc \in Counting
    BY DEF CountedAfter
  <2> HIDE DEF e, acc, j
  <2>5. /\ f[j] \in Counting /\ f[j].cursor = e.at /\ (f[j].on <=> e.state = "available")
        /\ f[j].spans = Elapse(acc, e.at).spans
    BY <2>2, <2>3, <2>4, ApplyKeeps
  <2>6. ToSet(f[j].spans) = IF On(q, j) THEN ClosedBy(q, j) \cup {<<q[j].at, e.at>>} ELSE ClosedBy(q, j)
    BY <2>1, <2>3, <2>4, <2>5, ElapseCounts
  <2>7. ClosedBy(q, j + 1) = IF j > 0 /\ On(q, j) THEN ClosedBy(q, j) \cup {<<q[j].at, q[j + 1].at>>} ELSE ClosedBy(q, j)
    BY <2>1, ClosedNext
  <2>8. ToSet(f[j].spans) = ClosedBy(q, j + 1)
    BY <2>1, <2>3, <2>6, <2>7
  <2>9. CountedAfter(q, j + 1, f[j])
    BY <2>3, <2>5, <2>8 DEF CountedAfter, On
  <2> QED
    BY <2>9 DEF j
<1>9. n \in G
  <2> HIDE DEF G
  <2>1. \A i \in 0 .. n : i \in G
    BY <1>1, <1>7, <1>8, Placing!UpTo
  <2> QED
    BY <1>1, <2>1
<1> DEFINE acc == Counts(seed, ev)
           m == n + 1
<1>10. acc = f[n]
  BY <1>6, CountsFold DEF n
<1>11. CountedAfter(q, m, acc)
  BY <1>9, <1>10
<1>12. m \in Nat \ {0} /\ m > 0 /\ DOMAIN q = 1 .. m /\ Len(q) = m
  BY <1>1, <1>2, <1>3
<1> HIDE DEF acc, m, G
<1>13. ToSet(Elapse(acc, now).spans) = IF On(q, m) THEN ClosedBy(q, m) \cup {<<q[m].at, now>>} ELSE ClosedBy(q, m)
  BY <1>11, <1>12, ElapseCounts
<1>14. \A x : x \in OnlineSpans(q) <=> x \in ClosedBy(q, m) \/ (m > 0 /\ On(q, m) /\ x = <<q[m].at, now>>)
  BY <1>12, OnlineSpansAre
<1>15. ToSet(Elapse(acc, now).spans) = OnlineSpans(q)
  <2>1. ASSUME NEW x PROVE x \in ToSet(Elapse(acc, now).spans) <=> x \in OnlineSpans(q)
    BY <1>12, <1>13, <1>14
  <2> DEFINE A == ToSet(Elapse(acc, now).spans)
             B == OnlineSpans(q)
  <2>2. \A x : x \in A <=> x \in B
    BY <2>1
  <2> HIDE DEF A, B
  <2>3. A = B
    BY <2>2
  <2> QED
    BY <2>3 DEF A, B
<1> QED
  BY <1>15 DEF acc, q, row, seed

-----------------------------------------------------------------------------
\* The latest of some rows at a moment.
Seen(I, t) == {i \in I : rows[i].at <= t}

LEMMA LatestSeen ==
  ASSUME LogOk, NEW I \in SUBSET DOMAIN rows, NEW p, p = Only(rows, I), NEW t
  PROVE  LET seen == {k \in DOMAIN p : p[k].at <= t}
         IN  /\ seen = {} <=> Seen(I, t) = {}
             /\ seen # {} => /\ Max(seen) \in DOMAIN p /\ Max(Seen(I, t)) \in Seen(I, t)
                             /\ p[Max(seen)] = rows[Max(Seen(I, t))]
<1> DEFINE seen == {k \in DOMAIN p : p[k].at <= t}
           a == Ascending(I)
           n == Len(p)
<1>1. /\ p \in Seq(Logged)
      /\ \A k, l \in DOMAIN p : k < l => a[k] < a[l]
      /\ \A i \in I : \E k \in DOMAIN p : a[k] = i
      /\ \A k \in DOMAIN p : a[k] \in I /\ p[k] = rows[a[k]]
  BY OnlySome
<1>2. n \in Nat /\ DOMAIN p = 1 .. n /\ I \in SUBSET Int
  BY <1>1 DEF LogOk
<1>3. \A k \in DOMAIN p : k \in seen <=> a[k] \in Seen(I, t)
  BY <1>1 DEF Seen
<1>4. \A i \in Seen(I, t) : \E k \in seen : a[k] = i
  <2> SUFFICES ASSUME NEW i \in Seen(I, t) PROVE \E k \in seen : a[k] = i
    OBVIOUS
  <2>1. i \in I
    BY DEF Seen
  <2>2. PICK k \in DOMAIN p : a[k] = i
    BY <1>1, <2>1
  <2> QED
    BY <1>3, <2>2
<1>5. seen \in SUBSET DOMAIN p /\ Seen(I, t) \in SUBSET I
  BY DEF Seen
<1> HIDE DEF seen, a, n
<1>6. seen = {} <=> Seen(I, t) = {}
  BY <1>3, <1>4, <1>5
<1>7. ASSUME seen # {}
      PROVE  /\ Max(seen) \in DOMAIN p /\ Max(Seen(I, t)) \in Seen(I, t)
             /\ p[Max(seen)] = rows[Max(Seen(I, t))]
  <2> DEFINE m == Max(seen)
  <2>1. m \in seen /\ \A k \in seen : k <= m
    <3>1. seen \in SUBSET Int /\ n \in Int /\ \A k \in seen : k <= n
      BY <1>2, <1>5
    <3> QED
      BY <1>7, <3>1, MaxIs
  <2> HIDE DEF m
  <2>2. a[m] \in Seen(I, t) /\ m \in DOMAIN p
    BY <1>3, <1>5, <2>1
  <2>3. ASSUME NEW i \in Seen(I, t) PROVE i <= a[m]
    <3>1. PICK k \in seen : a[k] = i
      BY <1>4
    <3>2. k \in DOMAIN p /\ k \in Int /\ m \in Int /\ k <= m
      BY <1>2, <1>5, <2>1
    <3>3. a[k] \in Int /\ a[m] \in Int
      BY <1>1, <1>2, <2>2, <3>2
    <3>4. k < m => a[k] < a[m]
      BY <1>1, <2>2, <3>2
    <3> QED
      BY <3>1, <3>2, <3>3, <3>4
  <2>4. Seen(I, t) \in SUBSET Int
    BY <1>2, <1>5
  <2>5. Max(Seen(I, t)) = a[m]
    BY <2>2, <2>3, <2>4, MaxUnique
  <2> QED
    BY <1>1, <2>2, <2>5 DEF m
<1> QED
  BY <1>6, <1>7 DEF seen

PresenceRows == {i \in DOMAIN rows : rows[i].kind = "presence"}

LEMMA OnlineTimeSeen ==
  ASSUME LogOk
  PROVE  \A t : t \in OnlineTime <=> /\ t \in Start .. now - 1 /\ Seen(PresenceRows, t) # {}
                                     /\ rows[Max(Seen(PresenceRows, t))].state = "available"
<1> DEFINE p == Presence(rows)
           I == PresenceRows
<1>1. p = Only(rows, I) /\ I \in SUBSET DOMAIN rows
  <2>1. I = {i \in DOMAIN rows : rows[i].kind \in {"presence"}}
    BY DEF PresenceRows
  <2> HIDE DEF I
  <2>2. I \in SUBSET DOMAIN rows
    BY <2>1
  <2> QED
    BY <2>1, <2>2, PresenceIs
<1> HIDE DEF p, I
<1> SUFFICES ASSUME NEW t
             PROVE  t \in OnlineTime <=> /\ t \in Start .. now - 1 /\ Seen(I, t) # {}
                                         /\ rows[Max(Seen(I, t))].state = "available"
  BY DEF I
<1> DEFINE seen == {k \in DOMAIN p : p[k].at <= t}
<1>2. t \in OnlineTime <=> t \in Start .. now - 1 /\ seen # {} /\ On(p, Max(seen))
  BY DEF OnlineTime, On, p
<1>3. /\ seen = {} <=> Seen(I, t) = {}
      /\ seen # {} => p[Max(seen)] = rows[Max(Seen(I, t))]
  BY <1>1, LatestSeen
<1> HIDE DEF seen
<1> QED
  BY <1>2, <1>3 DEF On

\* From some moment on: the rows since then, after one that tells the state before.
LEMMA SeededOnline ==
  ASSUME LogOk, NEW begin \in Int, begin <= now, NEW E, NEW prior, NEW on \in BOOLEAN, NEW q,
         E = {i \in DOMAIN rows : rows[i].kind = "presence" /\ begin <= rows[i].at /\ rows[i].at < now},
         prior = {i \in DOMAIN rows : rows[i].kind = "presence" /\ rows[i].at < begin},
         on <=> prior # {} /\ rows[Max(prior)].state = "available",
         q = Seeded(Row(on, begin), Only(rows, E))
  PROVE  Timed(q, begin) /\ \A t : t \in Online(q, begin) <=> t \in OnlineTime /\ begin <= t
<1> DEFINE p == Only(rows, E)
           n == Len(p)
           a == Ascending(E)
           P == PresenceRows
           row == Row(on, begin)
<1>1. E \in SUBSET DOMAIN rows /\ \A i \in E : begin <= rows[i].at /\ rows[i].at <= now
  BY DEF LogOk
<1>2. /\ p \in Seq(Logged) /\ InOrder(p)
      /\ \A k \in DOMAIN p : a[k] \in E /\ p[k] = rows[a[k]]
  BY <1>1, OnlySome
<1>3. n \in Nat /\ DOMAIN p = 1 .. n
  BY <1>2
<1>4. now \in Int /\ Start \in Int
  BY PagesAssumption DEF LogOk
<1>5. \A k \in 1 .. n : p[k].at \in Int /\ begin <= p[k].at /\ p[k].at <= now
  BY <1>1, <1>2, <1>3 DEF InOrder
<1>6. row.at = begin /\ (row.state = "available" <=> on)
  BY DEF Row
<1>7. /\ DOMAIN q = 1 .. n + 1 /\ q[1] = row
      /\ \A k \in 1 .. n : q[k + 1] = p[k]
  BY <1>3 DEF Seeded
<1>8. Len(q) = n + 1
  BY <1>3, <1>7 DEF Seeded
<1> HIDE DEF row, n
<1>9. \A k \in 2 .. n + 1 : k - 1 \in 1 .. n /\ q[k] = p[k - 1]
  BY <1>3, <1>7
<1>10. \A k \in 1 .. n + 1 : q[k].at \in Int /\ begin <= q[k].at /\ q[k].at <= now
  <2> SUFFICES ASSUME NEW k \in 1 .. n + 1 PROVE q[k].at \in Int /\ begin <= q[k].at /\ q[k].at <= now
    OBVIOUS
  <2>1. CASE k = 1
    BY <1>6, <1>7, <2>1
  <2>2. CASE k # 1
    <3>1. k \in 2 .. n + 1
      BY <1>3, <2>2
    <3> QED
      BY <1>5, <1>9, <3>1
  <2> QED
    BY <2>1, <2>2
<1>11. \A k, l \in 1 .. n + 1 : k <= l => q[k].at <= q[l].at
  <2> SUFFICES ASSUME NEW k \in 1 .. n + 1, NEW l \in 1 .. n + 1, k <= l PROVE q[k].at <= q[l].at
    OBVIOUS
  <2>1. CASE k = 1
    BY <1>6, <1>7, <1>10, <2>1
  <2>2. CASE k # 1
    <3>1. k \in 2 .. n + 1 /\ l \in 2 .. n + 1 /\ k - 1 <= l - 1
      BY <1>3, <2>2
    <3>2. p[k - 1].at <= p[l - 1].at
      BY <1>2, <1>3, <1>9, <3>1 DEF InOrder
    <3> QED
      BY <1>9, <3>1, <3>2
  <2> QED
    BY <2>1, <2>2
<1>12. Timed(q, begin)
  <2>0. DOMAIN q = 1 .. n + 1
    BY <1>7
  <2>1. Len(q) \in Nat /\ DOMAIN q = 1 .. Len(q)
    BY <1>3, <1>7, <1>8
  <2>2. \A i \in DOMAIN q : q[i].at \in Int /\ begin <= q[i].at /\ q[i].at <= now
    BY <1>7, <1>10
  <2>3. \A i, j \in DOMAIN q : i <= j => q[i].at <= q[j].at
    BY <2>0, <1>11
  <2> QED
    BY <2>1, <2>2, <2>3 DEF Timed, InOrder
<1> HIDE DEF p, a, P
<1>13. \A t : Seen(P, t) = {i \in DOMAIN rows : rows[i].kind = "presence" /\ rows[i].at <= t}
  BY DEF Seen, PresenceRows, P
<1>14. P \in SUBSET Int /\ \E b \in Int : \A i \in P : i <= b
  BY DEF PresenceRows, LogOk, P
<1>15. \A i, j \in DOMAIN rows : rows[i].at < rows[j].at => i < j
  <2> SUFFICES ASSUME NEW i \in DOMAIN rows, NEW j \in DOMAIN rows, rows[i].at < rows[j].at PROVE i < j
    OBVIOUS
  <2>1. i \in Int /\ j \in Int /\ rows[i].at \in Int /\ rows[j].at \in Int /\ (j <= i => rows[j].at <= rows[i].at)
    BY DEF LogOk, InOrder
  <2> QED
    BY <2>1
<1>16. ASSUME NEW t \in begin .. now - 1
       PROVE  t \in Online(q, begin) <=> Seen(P, t) # {} /\ rows[Max(Seen(P, t))].state = "available"
  <2> DEFINE seen == {k \in DOMAIN q : q[k].at <= t}
             own  == {k \in DOMAIN p : p[k].at <= t}
  <2>1. t \in Online(q, begin) <=> seen # {} /\ On(q, Max(seen))
    BY DEF Online
  <2>2. /\ own = {} <=> Seen(E, t) = {}
        /\ own # {} => /\ Max(own) \in DOMAIN p /\ Max(Seen(E, t)) \in Seen(E, t)
                       /\ p[Max(own)] = rows[Max(Seen(E, t))]
    BY <1>1, LatestSeen DEF p
  <2>3. t \in Int /\ begin <= t /\ t < now
    BY <1>4
  <2>4. 1 \in seen /\ seen \in SUBSET Int /\ own \in SUBSET Int
    <3>1. 1 \in DOMAIN q /\ q[1].at <= t
      BY <1>3, <1>6, <1>7, <2>3
    <3>2. seen \in SUBSET DOMAIN q /\ DOMAIN q \in SUBSET Int
      <4>1. DOMAIN q = 1 .. n + 1
        BY <1>7
      <4>2. \A k \in DOMAIN q : k \in Int
        BY <1>3, <4>1
      <4>3. \A k \in seen : k \in DOMAIN q
        OBVIOUS
      <4> HIDE DEF seen
      <4> QED
        BY <4>2, <4>3
    <3>3. own \in SUBSET DOMAIN p /\ DOMAIN p \in SUBSET Int
      <4>1. DOMAIN p = 1 .. n
        BY <1>3
      <4> QED
        BY <4>1
    <3> QED
      BY <3>1, <3>2, <3>3
  <2>5. \A k \in 1 .. n : k \in own <=> k + 1 \in seen
    <3> SUFFICES ASSUME NEW k \in 1 .. n PROVE k \in own <=> k + 1 \in seen
      OBVIOUS
    <3>1. k + 1 \in DOMAIN q /\ q[k + 1] = p[k]
      BY <1>3, <1>7
    <3>2. k \in DOMAIN p
      <4>1. DOMAIN p = 1 .. n
        BY <1>3
      <4> QED
        BY <4>1
    <3> QED
      BY <3>1, <3>2
  <2>6. \A k \in seen : k = 1 \/ (k - 1 \in own /\ k - 1 \in 1 .. n /\ (k - 1) + 1 = k)
    <3> SUFFICES ASSUME NEW k \in seen, k # 1 PROVE k - 1 \in own /\ k - 1 \in 1 .. n /\ (k - 1) + 1 = k
      OBVIOUS
    <3>1. k \in 2 .. n + 1 /\ k - 1 \in 1 .. n /\ (k - 1) + 1 = k /\ q[k].at <= t
      BY <1>3, <1>7
    <3> QED
      BY <1>3, <1>9, <3>1
  <2>7. own \in SUBSET (1 .. n)
    BY <1>3
  <2>8. \A i \in Seen(P, t) : i \in prior \/ i \in Seen(E, t)
    <3> SUFFICES ASSUME NEW i \in Seen(P, t) PROVE i \in prior \/ i \in Seen(E, t)
      OBVIOUS
    <3>1. i \in DOMAIN rows /\ rows[i].kind = "presence" /\ rows[i].at <= t /\ rows[i].at \in Int
      BY <1>13 DEF LogOk, InOrder
    <3>2. rows[i].at < begin \/ (begin <= rows[i].at /\ rows[i].at < now)
      BY <1>4, <2>3, <3>1
    <3> QED
      BY <3>1, <3>2 DEF Seen
  <2>9. \A i \in prior : i \in Seen(P, t)
    <3> SUFFICES ASSUME NEW i \in prior PROVE i \in Seen(P, t)
      OBVIOUS
    <3>1. i \in DOMAIN rows /\ rows[i].kind = "presence" /\ rows[i].at < begin /\ rows[i].at \in Int
      BY DEF LogOk, InOrder
    <3>2. rows[i].at <= t
      BY <2>3, <3>1
    <3> QED
      BY <1>13, <3>1, <3>2
  <2>10. \A i \in Seen(E, t) : i \in Seen(P, t) /\ i \in E
    BY <1>13 DEF Seen
  <2> HIDE DEF seen, own
  <2>11. CASE own = {}
    <3>1. \A k \in seen : k <= 1
      BY <2>4, <2>6, <2>11
    <3>2. Max(seen) = 1
      BY <2>4, <3>1, MaxUnique
    <3>3. On(q, 1) <=> on
      BY <1>6, <1>7 DEF On
    <3>4. Seen(P, t) = prior
      BY <2>2, <2>8, <2>9, <2>11
    <3> QED
      BY <2>1, <2>4, <3>2, <3>3, <3>4
  <2>12. CASE own # {}
    <3> DEFINE m == Max(own)
               j == Max(Seen(E, t))
    <3>1. m \in own /\ \A k \in own : k <= m
      <4>1. n \in Int /\ \A k \in own : k <= n
        BY <1>3, <2>7
      <4> QED
        BY <2>4, <2>12, <4>1, MaxIs
    <3>2. j \in Seen(E, t) /\ p[m] = rows[j]
      BY <2>2, <2>12
    <3> HIDE DEF m
    <3>3. Max(seen) = m + 1
      <4>1. m + 1 \in seen /\ m \in 1 .. n
        BY <2>5, <2>7, <3>1
      <4>2. ASSUME NEW k \in seen PROVE k <= m + 1
        <5>1. k \in Int /\ m \in Int /\ m >= 1
          BY <1>3, <2>4, <4>1
        <5>2. k = 1 \/ k - 1 <= m
          BY <2>6, <3>1
        <5> QED
          BY <5>1, <5>2
      <4> QED
        BY <2>4, <4>1, <4>2, MaxUnique
    <3>4. q[m + 1] = p[m]
      BY <1>7, <2>7, <3>1
    <3>5. j \in Seen(P, t) /\ j \in E
      BY <2>10, <3>2
    <3>6. \A i \in Seen(E, t) : i <= j
      <4>1. Seen(E, t) \in SUBSET Int /\ Seen(E, t) # {}
        BY <1>1, <2>2, <2>12 DEF Seen, LogOk
      <4>2. \E b \in Int : \A i \in Seen(E, t) : i <= b
        BY <1>14, <2>10, <1>13 DEF Seen
      <4> QED
        BY <4>1, <4>2, MaxIs
    <3> HIDE DEF j
    <3>7. ASSUME NEW i \in Seen(P, t) PROVE i <= j
      <4>1. CASE i \in Seen(E, t)
        BY <3>6, <4>1
      <4>2. CASE i \in prior
        <5>1. i \in DOMAIN rows /\ j \in DOMAIN rows /\ i \in Int /\ j \in Int
          BY <1>1, <3>5, <4>2 DEF LogOk
        <5>2. rows[i].at < begin /\ begin <= rows[j].at /\ rows[i].at \in Int /\ rows[j].at \in Int
          BY <1>1, <3>5, <4>2, <5>1 DEF LogOk, InOrder
        <5>3. rows[i].at < rows[j].at
          BY <5>2
        <5>4. i < j
          BY <1>15, <5>1, <5>3
        <5> QED
          BY <5>1, <5>4
      <4> QED
        BY <2>8, <4>1, <4>2
    <3>8. Max(Seen(P, t)) = j
      <4>1. Seen(P, t) \in SUBSET Int
        BY <1>14 DEF Seen
      <4> QED
        BY <3>5, <3>7, <4>1, MaxUnique
    <3>9. On(q, Max(seen)) <=> rows[j].state = "available"
      BY <3>2, <3>3, <3>4 DEF On, m
    <3> QED
      BY <2>1, <2>4, <3>5, <3>8, <3>9
  <2> QED
    BY <2>11, <2>12
<1>17. \A t : t \in OnlineTime <=> t \in Start .. now - 1 /\ Seen(P, t) # {} /\ rows[Max(Seen(P, t))].state = "available"
  BY OnlineTimeSeen DEF P
<1>18. \A t \in Int : Seen(P, t) # {} => Start <= t
  <2> SUFFICES ASSUME NEW t \in Int, NEW i \in Seen(P, t) PROVE Start <= t
    OBVIOUS
  <2>1. i \in DOMAIN rows /\ rows[i].at <= t
    BY <1>13
  <2>2. Start <= rows[i].at /\ rows[i].at \in Int
    BY <2>1 DEF LogOk, InOrder
  <2> QED
    BY <1>4, <2>1, <2>2
<1>19. ASSUME NEW t PROVE t \in Online(q, begin) <=> t \in OnlineTime /\ begin <= t
  <2>1. CASE t \in begin .. now - 1
    <3>1. t \in Int /\ begin <= t /\ (Start <= t => t \in Start .. now - 1)
      BY <1>4, <2>1
    <3> QED
      BY <1>16, <1>17, <1>18, <2>1, <3>1
  <2>2. CASE t \notin begin .. now - 1
    <3>1. t \notin Online(q, begin)
      BY <2>2 DEF Online
    <3>2. ~(t \in Start .. now - 1 /\ begin <= t)
      BY <1>4, <2>2
    <3> QED
      BY <1>17, <3>1, <3>2
  <2> QED
    BY <2>1, <2>2
<1> QED
  BY <1>12, <1>19

-----------------------------------------------------------------------------
\* The server's sums per day.
ComputeEvents(b) == {i \in DOMAIN rows : rows[i].kind = "presence" /\ b <= rows[i].at /\ rows[i].at < now}
ComputePrior(b)  == {i \in DOMAIN rows : rows[i].kind = "presence" /\ rows[i].at < b}
ComputeOn(b)     == ComputePrior(b) # {} /\ rows[Max(ComputePrior(b))].state = "available"
ComputeFirst(range) == LocalDay(now, Clock) - DaysBack[range]
ComputeSpans(b)  ==
  Elapse(Counts([cursor |-> b, spans |-> <<>>, on |-> ComputeOn(b)], SortByAt(Only(rows, ComputeEvents(b)))), now).spans

LEMMA ComputeParts ==
  \A range :
    Compute(range) =
      LET L == Slices(ComputeSpans(Midnight(ComputeFirst(range), Clock)), Day, offset)
      IN  [d \in ComputeFirst(range) .. LocalDay(now, Clock) |-> TimeOf({s \in L : LocalDay(s[1], Clock) = d})]
  BY Zenon DEF Compute, ComputeSpans, ComputeFirst, ComputeOn, ComputePrior, ComputeEvents, Counts,
     FoldLeft, MapThenFoldSet, Max

LEMMA SpansSince ==
  ASSUME LogOk, NEW b \in Int, b <= now
  PROVE  /\ Tidy(ToSet(ComputeSpans(b)), b, now)
         /\ \A t : t \in Cover(ToSet(ComputeSpans(b))) <=> t \in OnlineTime /\ b <= t
<1> DEFINE E == ComputeEvents(b)
           prior == ComputePrior(b)
           on == ComputeOn(b)
           ev == Only(rows, E)
           q == Seeded(Row(on, b), ev)
<1>1. /\ E = {i \in DOMAIN rows : rows[i].kind = "presence" /\ b <= rows[i].at /\ rows[i].at < now}
      /\ prior = {i \in DOMAIN rows : rows[i].kind = "presence" /\ rows[i].at < b}
  BY DEF ComputeEvents, ComputePrior
<1>2. on \in BOOLEAN /\ (on <=> prior # {} /\ rows[Max(prior)].state = "available")
  BY DEF ComputeOn
<1>3. E \in SUBSET DOMAIN rows
  BY <1>1
<1>4. now \in Int
  BY DEF LogOk
<1> HIDE DEF E, prior, on
<1>5. ev \in Seq(Logged) /\ SortByAt(ev) = ev
  BY <1>3, OnlySome
<1> HIDE DEF ev
<1>6. ComputeSpans(b) = Elapse(Counts([cursor |-> b, spans |-> <<>>, on |-> on], ev), now).spans
  BY <1>5 DEF ComputeSpans, on, ev, E
<1>7. ToSet(ComputeSpans(b)) = OnlineSpans(q)
  BY <1>2, <1>4, <1>5, <1>6, CountedSpans
<1> HIDE DEF q
<1>8. q = Seeded(Row(on, b), Only(rows, E))
  BY DEF q, ev
<1>9. Timed(q, b) /\ \A t : t \in Online(q, b) <=> t \in OnlineTime /\ b <= t
  BY <1>1, <1>2, <1>8, SeededOnline
<1>10. Tidy(OnlineSpans(q), b, now) /\ Cover(OnlineSpans(q)) = Online(q, b)
  BY <1>4, <1>9, SpansTidy, SpansCover
<1> QED
  BY <1>7, <1>9, <1>10

\* A local day starts at its midnight.
LEMMA Midnights ==
  ASSUME LogOk, NEW d \in Int
  PROVE  /\ LocalDay(now, Clock) \in Int /\ Midnight(d, Clock) \in Int
         /\ d <= LocalDay(now, Clock) => Midnight(d, Clock) <= now
         /\ \A t \in Int : LocalDay(t, Clock) \in Int /\ (d <= LocalDay(t, Clock) => Midnight(d, Clock) <= t)
<1>1. offset \in Int /\ now \in Int /\ Day \in Nat \ {0}
  BY ZonesAssumption, Calendar DEF LogOk
<1>2. ASSUME NEW t \in Int
      PROVE  LocalDay(t, Clock) \in Int /\ (d <= LocalDay(t, Clock) => Midnight(d, Clock) <= t)
  <2> DEFINE x == t + offset
             e == x \div Day
             u == d * Day
             v == e * Day
  <2>1. LocalDay(t, Clock) = e /\ Midnight(d, Clock) = u - offset
    BY DEF LocalDay, Midnight, Clock
  <2>2. x \in Int
    BY <1>1
  <2>3. e \in Int /\ v <= x
    <3> HIDE DEF x
    <3>1. e \in Int
      BY <1>1, <2>2, Division
    <3> QED
      BY <1>1, <2>2, <3>1, Quotients
  <2> HIDE DEF e
  <2>4. u \in Int /\ v \in Int /\ (d <= e => u <= v)
    BY <1>1, <2>3, SMTT(20)
  <2> HIDE DEF u, v
  <2>5. d <= e => u - offset <= t
    BY <1>1, <2>3, <2>4
  <2> QED
    BY <2>1, <2>3, <2>5
<1>3. Midnight(d, Clock) \in Int
  <2>1. Midnight(d, Clock) = d * Day - offset
    BY DEF Midnight, Clock
  <2>2. d * Day \in Int
    BY <1>1, Product
  <2> QED
    BY <1>1, <2>1, <2>2
<1> QED
  BY <1>1, <1>2, <1>3

LEMMA ComputeIsExact ==
  ASSUME LogOk, NEW range \in DOMAIN DaysBack
  PROVE  LET sums == Compute(range)
         IN  \A d \in DOMAIN sums : sums[d] = Cardinality({t \in OnlineTime : LocalDay(t, Clock) = d})
<1> DEFINE back == DaysBack[range]
           today == LocalDay(now, Clock)
           first == ComputeFirst(range)
           begin == Midnight(first, Clock)
           spans == ComputeSpans(begin)
           L == Slices(spans, Day, offset)
           key == [t \in Int |-> LocalDay(t, Clock)]
           sums == Compute(range)
<1>1. back \in Nat
  BY Calendar, MonthAssumption DEF DaysBack
<1>2. today \in Int /\ offset \in Int /\ now \in Int
  BY Midnights, ZonesAssumption DEF LogOk
<1>3. first = today - back
  BY DEF ComputeFirst
<1> HIDE DEF back
<1>4. first \in Int /\ first <= today
  BY <1>1, <1>2, <1>3
<1>5. sums = [d \in first .. today |-> TimeOf({s \in L : LocalDay(s[1], Clock) = d})]
  BY ComputeParts
<1> HIDE DEF first, sums
<1>6. begin \in Int /\ begin <= now
  BY <1>4, Midnights
<1>7. \A d \in Int, t \in Int : d >= first /\ LocalDay(t, Clock) = d => begin <= t
  BY <1>4, Midnights
<1> HIDE DEF begin
<1>8. Tidy(ToSet(spans), begin, now) /\ \A t : t \in Cover(ToSet(spans)) <=> t \in OnlineTime /\ begin <= t
  BY <1>6, SpansSince
<1> HIDE DEF spans
<1>9. /\ Tidy(L, begin, now) /\ IsFiniteSet(L)
      /\ \A s \in L : s[1] \in Moments(s)
      /\ Cover(L) = Cover(ToSet(spans))
      /\ \A s \in L : \A m \in Moments(s) : (m + offset) \div Day = (s[1] + offset) \div Day
  BY <1>2, <1>6, <1>8, Calendar, TidySlices
<1> HIDE DEF L
<1>10. Sliced(L)
  BY <1>9 DEF Sliced, Tidy
<1>11. \A s \in L : s[1] \in Int /\ Moments(s) \subseteq Int
  <2> SUFFICES ASSUME NEW s \in L PROVE s[1] \in Int /\ Moments(s) \subseteq Int
    OBVIOUS
  <2>1. s \in Spans
    BY <1>9 DEF Tidy
  <2>2. s[1] \in Int /\ s[2] \in Int
    BY <2>1 DEF Spans
  <2> QED
    BY <2>2 DEF Moments
<1>12. \A t \in Int : key[t] = LocalDay(t, Clock)
  OBVIOUS
<1> HIDE DEF key
<1>13. \A s \in L : \A m \in Moments(s) : key[m] = key[s[1]]
  <2> SUFFICES ASSUME NEW s \in L, NEW m \in Moments(s) PROVE key[m] = key[s[1]]
    OBVIOUS
  <2>1. s[1] \in Int /\ m \in Int /\ (m + offset) \div Day = (s[1] + offset) \div Day
    BY <1>9, <1>11
  <2>2. LocalDay(m, Clock) = LocalDay(s[1], Clock)
    BY <1>2, <2>1, LocalTimes
  <2> QED
    BY <1>12, <2>1, <2>2
<1>14. \A d : {s \in L : LocalDay(s[1], Clock) = d} = Keyed(L, key, d)
  BY <1>11, <1>12 DEF Keyed
<1>15. ASSUME NEW d \in first .. today
       PROVE  sums[d] = Cardinality({t \in OnlineTime : LocalDay(t, Clock) = d})
  <2>1. TimeOf(Keyed(L, key, d)) = Cardinality({t \in Cover(L) : key[t] = d})
    BY <1>10, <1>13, BucketIs
  <2>2. sums[d] = TimeOf(Keyed(L, key, d))
    BY <1>5, <1>14
  <2>3. d \in Int /\ d >= first
    BY <1>2, <1>4
  <2>4. \A t \in OnlineTime : t \in Int
    BY <1>2, PagesAssumption DEF OnlineTime
  <2>5. ASSUME NEW t PROVE t \in Cover(L) /\ key[t] = d <=> t \in OnlineTime /\ LocalDay(t, Clock) = d
    BY <1>7, <1>8, <1>9, <1>12, <2>3, <2>4
  <2>6. {t \in Cover(L) : key[t] = d} = {t \in OnlineTime : LocalDay(t, Clock) = d}
    BY <2>5
  <2> QED
    BY <2>1, <2>2, <2>6
<1>16. DOMAIN sums = first .. today
  BY <1>5
<1> QED
  BY <1>15, <1>16 DEF sums

-----------------------------------------------------------------------------
\* In UTC the browser's days are the calendar's.
OnDay(d) == Cardinality({t \in OnlineTime : LocalDay(t, Clock) = d})
ByDay(d) == LET byDay == BuildDailySeconds(rows, Clock)
            IN  IF d \in DOMAIN byDay THEN byDay[d] ELSE 0

LEMMA UtcDays ==
  ASSUME LogOk, offset = 0
  PROVE  /\ \A t \in Int : LocalDay(t, Clock) = IsoDay(t)
         /\ \A d \in Int : IsoDay(Midnight(d, Clock)) = d
<1>1. offset = 0 /\ Day \in Nat \ {0}
  BY Calendar
<1>2. ASSUME NEW t \in Int PROVE LocalDay(t, Clock) = IsoDay(t)
  <2>1. LocalDay(t, Clock) = (t + offset) \div Day
    BY DEF LocalDay, Clock
  <2>2. t + offset = t
    BY <1>1
  <2> QED
    BY <2>1, <2>2 DEF IsoDay
<1>3. ASSUME NEW d \in Int PROVE IsoDay(Midnight(d, Clock)) = d
  <2> DEFINE u == d * Day
  <2>1. u \in Int
    BY <1>1, Product
  <2>2. Midnight(d, Clock) = u
    <3>1. Midnight(d, Clock) = u - offset
      BY DEF Midnight, Clock
    <3> HIDE DEF u
    <3> QED
      BY <1>1, <2>1, <3>1
  <2>3. u = Day * d + 0 /\ 0 \in 0 .. Day - 1
    BY <1>1
  <2> HIDE DEF u
  <2>4. u \div Day = d
    BY <1>1, <2>1, <2>3, Quotient
  <2> QED
    BY <2>2, <2>4 DEF IsoDay
<1> QED
  BY <1>2, <1>3

LEMMA ByDayIs ==
  ASSUME LogOk, Alternating, offset = 0, NEW d \in Int
  PROVE  ByDay(d) = OnDay(d)
<1> DEFINE L == Slices(UpToNow(rows, Clock), Day, offset)
           key == [t \in Int |-> IsoDay(t)]
           D == {IsoDay(s[1]) : s \in L}
           byDay == BuildDailySeconds(rows, Clock)
<1>2. offset \in Int
  OBVIOUS
<1>1. /\ Sliced(L) /\ Cover(L) = OnlineTime
      /\ \A s \in L : s[1] \in Int /\ Moments(s) \subseteq Int
      /\ \A s \in L : \A m \in Moments(s) : (m + offset) \div Day = (s[1] + offset) \div Day
  BY <1>2, Calendar, SlicedSessions
<1>3. byDay = [e \in D |-> TimeOf({s \in L : IsoDay(s[1]) = e})]
  BY DEF BuildDailySeconds, Clock
<1>4. \A t \in Int : key[t] = IsoDay(t)
  OBVIOUS
<1>5. \A e : e \in D <=> \E s \in L : e = IsoDay(s[1])
  OBVIOUS
<1> HIDE DEF L, key, D, byDay
<1>6. \A e : {s \in L : IsoDay(s[1]) = e} = Keyed(L, key, e)
  BY <1>1, <1>4 DEF Keyed
<1>7. ASSUME NEW s \in L, NEW m \in Moments(s)
      PROVE  m \in Int /\ s[1] \in Int /\ LocalDay(m, Clock) = IsoDay(s[1]) /\ IsoDay(m) = IsoDay(s[1])
  <2>1. s[1] \in Int /\ m \in Int /\ (m + offset) \div Day = (s[1] + offset) \div Day
    BY <1>1
  <2>2. LocalDay(m, Clock) = LocalDay(s[1], Clock)
    BY <1>2, <2>1, LocalTimes
  <2> QED
    BY <2>1, <2>2, UtcDays
<1>8. \A s \in L : \A m \in Moments(s) : key[m] = key[s[1]]
  BY <1>4, <1>7
<1>9. \A t : t \in Cover(L) <=> \E s \in L : t \in Moments(s)
  BY DEF Cover
<1>10. CASE d \in D
  <2>1. TimeOf(Keyed(L, key, d)) = Cardinality({t \in Cover(L) : key[t] = d})
    BY <1>1, <1>8, BucketIs
  <2>2. byDay[d] = TimeOf(Keyed(L, key, d)) /\ DOMAIN byDay = D
    BY <1>3, <1>6, <1>10
  <2>3. \A t \in OnlineTime : t \in Int /\ LocalDay(t, Clock) = key[t]
    BY <1>1, <1>4, <1>7, <1>9
  <2>4. {t \in Cover(L) : key[t] = d} = {t \in OnlineTime : LocalDay(t, Clock) = d}
    BY <1>1, <2>3
  <2> QED
    BY <1>10, <2>1, <2>2, <2>4 DEF ByDay, OnDay, byDay
<1>11. CASE d \notin D
  <2>1. \A t \in OnlineTime : LocalDay(t, Clock) # d
    BY <1>1, <1>5, <1>7, <1>9, <1>11
  <2>2. {t \in OnlineTime : LocalDay(t, Clock) = d} = {}
    BY <2>1
  <2>3. Cardinality({}) = 0
    BY FS_EmptySet
  <2>4. DOMAIN byDay = D
    BY <1>3
  <2> QED
    BY <1>11, <2>2, <2>3, <2>4 DEF ByDay, OnDay, byDay
<1> QED
  BY <1>10, <1>11

LEMMA CellsAre ==
  ASSUME LogOk, Alternating, offset = 0
  PROVE  LET cells == ComputeHeatmap(rows, Clock)
         IN  /\ DOMAIN cells = 1 .. HeatDays /\ Len(cells) = HeatDays
             /\ \A k \in 1 .. HeatDays : /\ cells[k].date = LocalDay(now, Clock) - (HeatDays - k)
                                         /\ cells[k].seconds = OnDay(cells[k].date)
<1> DEFINE cells == ComputeHeatmap(rows, Clock)
           today == LocalDay(now, Clock)
<1>1. HeatDays \in Nat \ {0} /\ today \in Int
  BY Calendar, Midnights
<1>2. cells = [k \in 1 .. HeatDays |-> [date |-> DayKey(HeatDays - k, Clock), seconds |-> ByDay(DayKey(HeatDays - k, Clock))]]
  BY Zenon DEF ComputeHeatmap, LastDays, ByDay
<1>3. ASSUME NEW k \in 1 .. HeatDays
      PROVE  DayKey(HeatDays - k, Clock) = today - (HeatDays - k) /\ today - (HeatDays - k) \in Int
  <2>1. today - (HeatDays - k) \in Int
    BY <1>1
  <2>2. DayKey(HeatDays - k, Clock) = IsoDay(Midnight(today - (HeatDays - k), Clock))
    BY DEF DayKey, Clock
  <2> QED
    BY <2>1, <2>2, UtcDays
<1> HIDE DEF cells, today
<1>4. DOMAIN cells = 1 .. HeatDays
  BY <1>2
<1>5. Len(cells) = HeatDays
  BY <1>1, <1>2
<1>6. ASSUME NEW k \in 1 .. HeatDays
      PROVE  cells[k].date = today - (HeatDays - k) /\ cells[k].seconds = OnDay(cells[k].date)
  <2>1. cells[k].date = DayKey(HeatDays - k, Clock) /\ cells[k].seconds = ByDay(DayKey(HeatDays - k, Clock))
    BY <1>2
  <2> QED
    BY <1>3, <2>1, ByDayIs
<1> QED
  BY <1>4, <1>5, <1>6 DEF cells, today

\* The cells stand in the columns of their weeks and the rows of their weekdays.
LEMMA GridIs ==
  ASSUME NEW cells, NEW n \in Nat \ {0}, NEW first \in Int, Len(cells) = n, DOMAIN cells = 1 .. n,
         \A k \in 1 .. n : cells[k].date = first + (k - 1),
         NEW week \in DOMAIN Heatmap(cells), NEW day \in DOMAIN Heatmap(cells)[week]
  PROVE  \E k \in 1 .. n : Heatmap(cells)[week][day] = cells[k] /\ cells[k].date % DaysPerWeek = day
<1> DEFINE w == DaysPerWeek
           pad == cells[1].date % w
           a == cells[1].date \div w
           row(k) == pad + k - 1
           K(v) == {j \in 1 .. n : row(j) \div w = v}
           grid == Heatmap(cells)
<1>1. w \in Nat \ {0}
  BY Calendar
<1>2. cells[1].date = first
  BY 1 \in 1 .. n
<1>3. a \in Int /\ pad \in 0 .. w - 1 /\ first = w * a + pad
  <2> HIDE DEF w
  <2> QED
    BY <1>1, <1>2, Division
<1>4. grid = [v \in 0 .. row(n) \div w |->
               [e \in {row(k) % w : k \in K(v)} |-> cells[v * w + e - pad + 1]]]
  BY DEF Heatmap
<1> HIDE DEF grid, pad, a, w
<1>5. week \in 0 .. row(n) \div w
  BY <1>4 DEF grid
<1>6. grid[week] = [e \in {row(k) % w : k \in K(week)} |-> cells[week * w + e - pad + 1]]
  BY <1>4, <1>5
<1>7. day \in {row(k) % w : k \in K(week)} /\ grid[week][day] = cells[week * w + day - pad + 1]
  BY <1>6 DEF grid
<1>8. PICK k \in 1 .. n : row(k) \div w = week /\ row(k) % w = day
  BY <1>7
<1> DEFINE x == row(k)
<1>9. x \in Int /\ k \in Int /\ pad \in Int /\ x = pad + k - 1
  BY <1>1, <1>3
<1> HIDE DEF x
<1>10. week \in Int /\ day \in 0 .. w - 1 /\ x = w * week + day
  <2>1. week = x \div w /\ day = x % w
    BY <1>8 DEF x
  <2> QED
    BY <1>1, <1>9, <2>1, Division
<1>11. week * w + day - pad + 1 = k
  <2> DEFINE u == w * week
  <2>1. u \in Int /\ week * w = u
    BY <1>1, <1>10
  <2> HIDE DEF u
  <2>2. x = u + day /\ day \in Int
    BY <1>1, <1>10 DEF u
  <2>3. u + day - pad + 1 = k
    BY <1>9, <2>1, <2>2
  <2> QED
    BY <2>1, <2>3
<1>12. cells[k].date = w * (a + week) + day
  <2> DEFINE u == w * week
             v == w * a
  <2>1. u \in Int /\ v \in Int /\ w * (a + week) = v + u
    BY <1>1, <1>3, <1>10, SMTT(20)
  <2>2. x = u + day /\ day \in Int /\ first = v + pad
    BY <1>1, <1>3, <1>10
  <2>3. cells[k].date = first + (k - 1)
    OBVIOUS
  <2> HIDE DEF u, v
  <2>4. first + (k - 1) = (v + u) + day
    BY <1>9, <2>1, <2>2
  <2> QED
    BY <2>1, <2>3, <2>4
<1>13. cells[k].date % w = day
  <2>1. a + week \in Int /\ cells[k].date \in Int
    BY <1>3, <1>9, <1>10
  <2> QED
    BY <1>1, <1>10, <1>12, <2>1, Quotient
<1> QED
  BY <1>7, <1>11, <1>13 DEF grid, w

LEMMA HeatmapIsExact ==
  ASSUME LogOk, Alternating, offset = 0
  PROVE  LET grid == Heatmap(ComputeHeatmap(rows, Clock))
         IN  \A week \in DOMAIN grid : \A day \in DOMAIN grid[week] :
               /\ grid[week][day].date % DaysPerWeek = day
               /\ grid[week][day].seconds = OnDay(grid[week][day].date)
<1> DEFINE cells == ComputeHeatmap(rows, Clock)
           today == LocalDay(now, Clock)
           first == today - (HeatDays - 1)
<1>1. HeatDays \in Nat \ {0} /\ today \in Int
  BY Calendar, Midnights
<1>2. /\ DOMAIN cells = 1 .. HeatDays /\ Len(cells) = HeatDays
      /\ \A k \in 1 .. HeatDays : cells[k].date = today - (HeatDays - k) /\ cells[k].seconds = OnDay(cells[k].date)
  BY CellsAre
<1> HIDE DEF cells, today
<1>3. first \in Int
  BY <1>1
<1>4. \A k \in 1 .. HeatDays : today - (HeatDays - k) = first + (k - 1)
  BY <1>1
<1> HIDE DEF first
<1>5. \A k \in 1 .. HeatDays : cells[k].date = first + (k - 1)
  BY <1>2, <1>4
<1> SUFFICES ASSUME NEW week \in DOMAIN Heatmap(cells), NEW day \in DOMAIN Heatmap(cells)[week]
             PROVE  /\ Heatmap(cells)[week][day].date % DaysPerWeek = day
                    /\ Heatmap(cells)[week][day].seconds = OnDay(Heatmap(cells)[week][day].date)
  BY DEF cells
<1>6. \E k \in 1 .. HeatDays : Heatmap(cells)[week][day] = cells[k] /\ cells[k].date % DaysPerWeek = day
  BY <1>1, <1>2, <1>3, <1>5, GridIs
<1> QED
  BY <1>2, <1>6

-----------------------------------------------------------------------------
\* The longest pause between two days on which a session that has ended began.
LEMMA ActiveDaysAre ==
  ASSUME LogOk, Alternating PROVE ActiveDays(rows) \in SUBSET Int /\ IsFiniteSet(ActiveDays(rows))
<1> DEFINE p == Presence(rows)
           n == Len(p)
           K == {j \in 1 .. n - 1 : On(p, j)}
           A == ActiveDays(rows)
           f == [k \in K |-> IsoDay(p[k].at)]
<1>1. Timed(p, Start) /\ n \in Nat
  BY PresenceIs DEF Timed
<1>2. Alternates(p)
  BY DEF Alternating, Alternates
<1>3. ToSet(ParseSessions(rows)) = ClosedBy(p, n)
  BY <1>2, UpToNowIs
<1>4. \A k \in K : IsoDay(p[k].at) \in Int
  <2> SUFFICES ASSUME NEW k \in K PROVE IsoDay(p[k].at) \in Int
    OBVIOUS
  <2>1. k \in DOMAIN p
    <3>1. k \in 1 .. n /\ DOMAIN p = 1 .. n
      BY <1>1 DEF Timed
    <3> QED
      BY <3>1
  <2>2. p[k].at \in Int
    BY <1>1, <2>1 DEF Timed, InOrder
  <2> QED
    BY <2>2, IsoDayIs
<1>5. \A d : d \in A <=> \E k \in K : d = IsoDay(p[k].at)
  <2>1. \A d : d \in A <=> \E s \in ClosedBy(p, n) : d = IsoDay(s[1])
    BY <1>3 DEF ActiveDays
  <2>2. \A s : s \in ClosedBy(p, n) <=> \E k \in K : s = <<p[k].at, p[k + 1].at>>
    BY DEF ClosedBy
  <2> HIDE DEF K, p, A
  <2>3. ASSUME NEW k \in K PROVE IsoDay(p[k].at) \in A
    <3> DEFINE s == <<p[k].at, p[k + 1].at>>
    <3>1. s \in ClosedBy(p, n) /\ s[1] = p[k].at
      BY <2>2
    <3> HIDE DEF s
    <3> QED
      BY <2>1, <3>1
  <2>4. ASSUME NEW d \in A PROVE \E k \in K : d = IsoDay(p[k].at)
    <3>1. PICK s \in ClosedBy(p, n) : d = IsoDay(s[1])
      BY <2>1
    <3>2. PICK k \in K : s = <<p[k].at, p[k + 1].at>>
      BY <2>2
    <3>3. s[1] = p[k].at
      BY <3>2
    <3> QED
      BY <3>1, <3>3
  <2> QED
    BY <2>3, <2>4
<1>6. IsFiniteSet(K)
  <2>1. IsFiniteSet(1 .. n - 1)
    <3>1. n - 1 \in Int /\ 1 \in Int
      BY <1>1
    <3> QED
      BY <3>1, FS_Interval
  <2>2. K \in SUBSET (1 .. n - 1)
    OBVIOUS
  <2> QED
    BY <2>1, <2>2, FS_Subset
<1> HIDE DEF K, A, p
<1>7. f \in Surjection(K, A)
  BY <1>5 DEF Surjection
<1> HIDE DEF f
<1>8. IsFiniteSet(A)
  BY <1>6, <1>7, FS_Surjection
<1>9. A \in SUBSET Int
  BY <1>4, <1>5
<1> QED
  BY <1>8, <1>9 DEF A

Pauses(A) == {x[2] - x[1] - 1 : x \in {y \in A \X A : y[1] < y[2] /\ \A f \in A : f <= y[1] \/ f >= y[2]}}

Pause(A, a, b, x) == a < b /\ (\A f \in A : f <= a \/ f >= b) /\ x = b - a - 1

LEMMA PausesAre == \A A : \A x : x \in Pauses(A) <=> \E a, b \in A : Pause(A, a, b, x)
<1> SUFFICES ASSUME NEW A, NEW x PROVE x \in Pauses(A) <=> \E a, b \in A : Pause(A, a, b, x)
  OBVIOUS
<1>1. ASSUME x \in Pauses(A) PROVE \E a, b \in A : Pause(A, a, b, x)
  <2>1. PICK y \in A \X A : y[1] < y[2] /\ (\A f \in A : f <= y[1] \/ f >= y[2]) /\ x = y[2] - y[1] - 1
    BY <1>1 DEF Pauses
  <2>2. y[1] \in A /\ y[2] \in A /\ Pause(A, y[1], y[2], x)
    BY <2>1 DEF Pause
  <2> QED
    BY <2>2
<1>2. ASSUME NEW a \in A, NEW b \in A, Pause(A, a, b, x) PROVE x \in Pauses(A)
  <2> DEFINE y == <<a, b>>
  <2>1. y \in A \X A /\ y[1] = a /\ y[2] = b
    OBVIOUS
  <2> HIDE DEF y
  <2>2. y[1] < y[2] /\ (\A f \in A : f <= y[1] \/ f >= y[2]) /\ x = y[2] - y[1] - 1
    BY <1>2, <2>1 DEF Pause
  <2> QED
    BY <2>1, <2>2 DEF Pauses
<1> QED
  BY <1>1, <1>2

\* The days of the loop before one, and the gaps it finds, in UTC.
DaysBefore(A, d) == {e \in Min(A) .. Max(A) : e < d /\ IsoDay(Midnight(e, Clock)) \in A}
GapOf(A, d) == d - 1 - (IF DaysBefore(A, d) = {} THEN Min(A) - 1 ELSE Max(DaysBefore(A, d)))
GapsOf(A) == {GapOf(A, d) : d \in {e \in Min(A) .. Max(A) : IsoDay(Midnight(e, Clock)) \in A}} \cup {0}

LEMMA LongestParts ==
  ComputeLongestOfflineStreak(rows, Clock) =
    LET A == ActiveDays(rows) IN IF A = {} \/ Max(GapsOf(A)) = 0 THEN Null ELSE Max(GapsOf(A))
  BY Zenon DEF ComputeLongestOfflineStreak, GapsOf, GapOf, DaysBefore

LEMMA GapsArePauses ==
  ASSUME LogOk, offset = 0, NEW A \in SUBSET Int, IsFiniteSet(A), A # {}
  PROVE  /\ \A x : x \in GapsOf(A) <=> x \in Pauses(A) \cup {0}
         /\ Max(GapsOf(A)) \in Int
<1> DEFINE lo == Min(A)
           hi == Max(A)
           before(d) == DaysBefore(A, d)
<1>1. lo \in A /\ hi \in A /\ lo \in Int /\ hi \in Int /\ \A d \in A : lo <= d /\ d <= hi
  <2>1. PICK a \in Int, b \in Int : \A y \in A : a <= y /\ y <= b
    BY FiniteBounds
  <2>2. lo \in A /\ \A d \in A : lo <= d
    BY <2>1, MinIs
  <2>3. hi \in A /\ \A d \in A : d <= hi
    BY <2>1, MaxIs
  <2> HIDE DEF lo, hi
  <2> QED
    BY <2>2, <2>3
<1>2. \A e \in lo .. hi : IsoDay(Midnight(e, Clock)) = e
  <2> SUFFICES ASSUME NEW e \in lo .. hi PROVE IsoDay(Midnight(e, Clock)) = e
    OBVIOUS
  <2> HIDE DEF lo, hi
  <2>1. e \in Int
    BY <1>1
  <2> QED
    BY <2>1, UtcDays
<1>3. \A d, e : e \in before(d) <=> e \in A /\ e < d
  <2>1. \A d, e : e \in before(d) <=> e \in lo .. hi /\ e < d /\ IsoDay(Midnight(e, Clock)) \in A
    BY DEF DaysBefore
  <2> HIDE DEF lo, hi, before
  <2>2. \A e \in A : e \in lo .. hi
    BY <1>1
  <2> QED
    BY <1>2, <2>1, <2>2
<1>4. \A x : x \in GapsOf(A) <=> x = 0 \/ \E d \in A : x = GapOf(A, d)
  <2>1. \A x : x \in GapsOf(A) <=> x = 0 \/ \E d \in lo .. hi : IsoDay(Midnight(d, Clock)) \in A /\ x = GapOf(A, d)
    BY DEF GapsOf
  <2> HIDE DEF lo, hi
  <2>2. \A e \in A : e \in lo .. hi
    BY <1>1
  <2> QED
    BY <1>2, <2>1, <2>2
<1>5. \A d : GapOf(A, d) = d - 1 - (IF before(d) = {} THEN lo - 1 ELSE Max(before(d)))
  BY DEF GapOf
<1> HIDE DEF lo, hi, before
<1>6. ASSUME NEW d \in A
      PROVE  GapOf(A, d) = 0 \/ GapOf(A, d) \in Pauses(A)
  <2>1. CASE before(d) = {}
    <3>1. ~(lo < d) /\ lo <= d /\ d \in Int
      BY <1>1, <1>3, <2>1
    <3>2. GapOf(A, d) = d - 1 - (lo - 1)
      BY <1>5, <2>1
    <3> QED
      BY <1>1, <3>1, <3>2
  <2>2. CASE before(d) # {}
    <3> DEFINE a == Max(before(d))
    <3>1. a \in before(d) /\ \A e \in before(d) : e <= a
      <4>1. before(d) \in SUBSET Int /\ \A e \in before(d) : e <= hi
        BY <1>1, <1>3
      <4> QED
        BY <1>1, <2>2, <4>1, MaxIs
    <3>2. GapOf(A, d) = d - 1 - a
      BY <1>5, <2>2
    <3> HIDE DEF a
    <3>3. a \in A /\ a < d /\ a \in Int /\ d \in Int
      BY <1>3, <3>1
    <3>4. \A f \in A : f <= a \/ f >= d
      <4> SUFFICES ASSUME NEW f \in A PROVE f <= a \/ f >= d
        OBVIOUS
      <4>1. f \in Int /\ (f < d => f <= a)
        BY <1>3, <3>1
      <4> QED
        BY <3>3, <4>1
    <3>5. GapOf(A, d) = d - a - 1
      BY <3>2, <3>3
    <3>6. Pause(A, a, d, GapOf(A, d))
      BY <3>3, <3>4, <3>5 DEF Pause
    <3> QED
      BY <3>3, <3>6, PausesAre
  <2> QED
    BY <2>1, <2>2
<1>7. ASSUME NEW a \in A, NEW b \in A, a < b, \A f \in A : f <= a \/ f >= b
      PROVE  GapOf(A, b) = b - a - 1
  <2>1. a \in before(b)
    BY <1>3, <1>7
  <2>2. \A e \in before(b) : e <= a
    <3> SUFFICES ASSUME NEW e \in before(b) PROVE e <= a
      OBVIOUS
    <3>1. e \in A /\ e < b /\ e \in Int /\ b \in Int
      BY <1>3
    <3> QED
      BY <1>7, <3>1
  <2>3. before(b) \in SUBSET Int
    BY <1>3
  <2>4. Max(before(b)) = a
    BY <2>1, <2>2, <2>3, MaxUnique
  <2>5. GapOf(A, b) = b - 1 - a
    BY <1>5, <2>1, <2>4
  <2>6. a \in Int /\ b \in Int
    OBVIOUS
  <2> QED
    BY <2>5, <2>6
<1>8. ASSUME NEW x PROVE x \in GapsOf(A) <=> x \in Pauses(A) \cup {0}
  <2>1. x \in GapsOf(A) => x = 0 \/ x \in Pauses(A)
    BY <1>4, <1>6
  <2>2. x \in Pauses(A) => x \in GapsOf(A)
    <3> SUFFICES ASSUME x \in Pauses(A) PROVE x \in GapsOf(A)
      OBVIOUS
    <3>0. PICK a \in A, b \in A : Pause(A, a, b, x)
      BY PausesAre
    <3>1. a < b /\ (\A f \in A : f <= a \/ f >= b) /\ x = b - a - 1
      BY <3>0 DEF Pause
    <3>2. x = GapOf(A, b)
      BY <1>7, <3>1
    <3> QED
      BY <1>4, <3>2
  <2>3. 0 \in GapsOf(A)
    BY <1>4
  <2> QED
    BY <2>1, <2>2, <2>3
<1>9. Max(GapsOf(A)) \in Int
  <2>1. ASSUME NEW x \in GapsOf(A) PROVE x \in Int /\ x <= hi - lo
    <3>1. CASE x = 0
      BY <1>1, <3>1
    <3>2. CASE x \in Pauses(A)
      <4>1. PICK a \in A, b \in A : Pause(A, a, b, x)
        BY <3>2, PausesAre
      <4>3. x = b - a - 1
        BY <4>1 DEF Pause
      <4>2. a \in Int /\ b \in Int /\ lo <= a /\ b <= hi
        BY <1>1
      <4> QED
        BY <1>1, <4>2, <4>3
    <3> QED
      BY <1>8, <3>1, <3>2
  <2>2. GapsOf(A) \in SUBSET Int /\ GapsOf(A) # {} /\ hi - lo \in Int
    BY <1>1, <1>4, <2>1
  <2>3. Max(GapsOf(A)) \in GapsOf(A)
    BY <2>1, <2>2, MaxIs
  <2> QED
    BY <2>1, <2>3
<1> QED
  BY <1>8, <1>9

LEMMA LongestIsExact ==
  ASSUME LogOk, Alternating, offset = 0
  PROVE  LET longest == ComputeLongestOfflineStreak(rows, Clock)
         IN  (IF longest = Null THEN 0 ELSE longest) = Max(Pauses(ActiveDays(rows)) \cup {0})
<1> DEFINE A == ActiveDays(rows)
           G == GapsOf(A)
           P == Pauses(A) \cup {0}
           longest == ComputeLongestOfflineStreak(rows, Clock)
<1>1. A \in SUBSET Int /\ IsFiniteSet(A)
  BY ActiveDaysAre
<1>2. longest = IF A = {} \/ Max(G) = 0 THEN Null ELSE Max(G)
  BY LongestParts
<1>3. ASSUME A # {} PROVE (\A x : x \in G <=> x \in P) /\ Max(G) \in Int
  <2> HIDE DEF A
  <2> QED
    BY <1>1, <1>3, GapsArePauses
<1>4. ASSUME A = {} PROVE P = {0}
  <2>1. \A x : x \notin Pauses(A)
    BY <1>4, PausesAre
  <2> QED
    BY <2>1
<1> HIDE DEF A, G, P, longest
<1>5. CASE A = {}
  <2>1. {0} \in SUBSET Int /\ 0 \in {0} /\ \A y \in {0} : y <= 0
    OBVIOUS
  <2>2. Max({0}) = 0
    BY <2>1, MaxUnique
  <2> QED
    BY <1>2, <1>4, <1>5, <2>2 DEF longest, A, P
<1>6. CASE A # {}
  <2>1. G = P
    BY <1>3, <1>6
  <2>2. Max(G) # Null
    BY <1>3, <1>6, NullAssumption
  <2>3. (IF longest = Null THEN 0 ELSE longest) = Max(P)
    BY <1>2, <1>6, <2>1, <2>2
  <2> QED
    BY <2>3 DEF longest, A, P
<1> QED
  BY <1>5, <1>6

\* Whatever the zone, the range and the log, the server's sum for a day is the time
\* online on it; in UTC the heatmap says the same in the row of the weekday, and the
\* longest pause is the one between two days with a session (stats.go, Compute;
\* presence-stats.ts, computeHeatmap, computeLongestOfflineStreak; Heatmap.tsx).
THEOREM SumsAreExact == Spec => []DaysAreExact
<1>1. ASSUME LogOk PROVE DaysAreExact
  <2>1. \A range \in DOMAIN DaysBack : \A d \in DOMAIN Compute(range) : Compute(range)[d] = OnDay(d)
    BY <1>1, ComputeIsExact DEF OnDay
  <2>2. ASSUME offset = 0, Alternating
        PROVE  LET grid    == Heatmap(ComputeHeatmap(rows, Clock))
                   longest == ComputeLongestOfflineStreak(rows, Clock)
               IN  /\ \A week \in DOMAIN grid : \A day \in DOMAIN grid[week] :
                        /\ grid[week][day].date % DaysPerWeek = day
                        /\ grid[week][day].seconds = OnDay(grid[week][day].date)
                   /\ (IF longest = Null THEN 0 ELSE longest) = Max(Pauses(ActiveDays(rows)) \cup {0})
    BY <1>1, <2>2, HeatmapIsExact, LongestIsExact
  <2> QED
    BY <2>1, <2>2, Zenon DEF DaysAreExact, OnDay, Pauses
<1> QED
  BY <1>1, LogIsOrdered, PTL

-----------------------------------------------------------------------------
\* How many elements of a sequence are in a set.
Tally(b, Q) == Cardinality({i \in DOMAIN b : b[i] \in Q})

LEMMA TallyType ==
  ASSUME NEW X, NEW b \in Seq(X), NEW Q
  PROVE  IsFiniteSet({i \in DOMAIN b : b[i] \in Q}) /\ Tally(b, Q) \in Nat
<1>1. Len(b) \in Nat /\ DOMAIN b = 1 .. Len(b)
  OBVIOUS
<1>2. IsFiniteSet(1 .. Len(b))
  BY <1>1, UpToSize
<1> DEFINE S == {i \in DOMAIN b : b[i] \in Q}
<1>3. S \in SUBSET (1 .. Len(b))
  BY <1>1
<1> HIDE DEF S
<1> QED
  BY <1>2, <1>3, FS_Subset, FS_CardinalityType DEF Tally, S

LEMMA TallyOfEmpty == \A Q : Tally(<<>>, Q) = 0
<1> SUFFICES ASSUME NEW Q PROVE Tally(<<>>, Q) = 0
  OBVIOUS
<1>1. {i \in DOMAIN <<>> : <<>>[i] \in Q} = {}
  OBVIOUS
<1> QED
  BY <1>1, FS_EmptySet DEF Tally

LEMMA TallyConcat ==
  ASSUME NEW X, NEW a \in Seq(X), NEW b \in Seq(X), NEW Q
  PROVE  Tally(a \o b, Q) = Tally(a, Q) + Tally(b, Q)
<1> DEFINE c == a \o b
           m == Len(a)
           n == Len(b)
           A == {i \in DOMAIN a : a[i] \in Q}
           B == {i \in DOMAIN b : b[i] \in Q}
           C == {i \in DOMAIN c : c[i] \in Q}
           D == {i \in (m + 1) .. (m + n) : c[i] \in Q}
           f == [i \in B |-> m + i]
<1>1. /\ m \in Nat /\ n \in Nat /\ DOMAIN a = 1 .. m /\ DOMAIN b = 1 .. n
      /\ DOMAIN c = 1 .. m + n /\ \A i \in 1 .. m : c[i] = a[i]
      /\ \A i \in 1 .. n : c[m + i] = b[i]
  OBVIOUS
<1> HIDE DEF c, m, n
<1>2. \A x : x \in C <=> x \in A \/ x \in D
  BY <1>1
<1>3. \A x : ~(x \in A /\ x \in D)
  BY <1>1
<1>4. f \in [B -> D]
  <2>1. ASSUME NEW i \in B PROVE m + i \in D
    <3>1. i \in 1 .. n /\ b[i] \in Q
      BY <1>1
    <3>2. m + i \in (m + 1) .. (m + n) /\ c[m + i] = b[i]
      BY <1>1, <3>1
    <3> QED
      BY <3>1, <3>2
  <2> QED
    BY <2>1
<1>5. \A i, j \in B : f[i] = f[j] => i = j
  BY <1>1
<1>6. \A x \in D : \E i \in B : f[i] = x
  <2> SUFFICES ASSUME NEW x \in D PROVE \E i \in B : f[i] = x
    OBVIOUS
  <2>1. x - m \in 1 .. n /\ m + (x - m) = x
    BY <1>1
  <2>2. x - m \in B
    BY <1>1, <2>1
  <2> QED
    BY <2>1, <2>2
<1>7. IsFiniteSet(A) /\ IsFiniteSet(B) /\ Cardinality(A) \in Nat /\ Cardinality(B) \in Nat
  BY TallyType DEF Tally
<1> HIDE DEF A, B, C, D, f
<1>8. f \in Bijection(B, D)
  BY <1>4, <1>5, <1>6 DEF Bijection, Injection, Surjection, IsInjective
<1>9. IsFiniteSet(D) /\ Cardinality(D) = Cardinality(B)
  <2>1. ExistsBijection(B, D)
    BY <1>8 DEF ExistsBijection
  <2> QED
    BY <1>7, <2>1, FS_Bijection
<1>10. C = A \cup D /\ A \cap D = {}
  BY <1>2, <1>3
<1>11. Cardinality(C) = Cardinality(A) + Cardinality(D) - Cardinality(A \cap D)
  BY <1>7, <1>9, <1>10, FS_Union
<1>12. Cardinality(A \cap D) = 0
  BY <1>10, FS_EmptySet
<1>13. Cardinality(C) = Cardinality(A) + Cardinality(B)
  BY <1>7, <1>9, <1>11, <1>12
<1> QED
  BY <1>13 DEF Tally, A, B, C, c

LEMMA TallyAppend ==
  ASSUME NEW X, NEW b \in Seq(X), NEW e \in X, NEW Q
  PROVE  Tally(Append(b, e), Q) = Tally(b, Q) + (IF e \in Q THEN 1 ELSE 0)
<1>1. Append(b, e) = b \o <<e>> /\ <<e>> \in Seq(X)
  OBVIOUS
<1>2. Tally(Append(b, e), Q) = Tally(b, Q) + Tally(<<e>>, Q)
  BY <1>1, TallyConcat
<1>3. {i \in DOMAIN <<e>> : <<e>>[i] \in Q} = IF e \in Q THEN {1} ELSE {}
  OBVIOUS
<1>4. Tally(<<e>>, Q) = IF e \in Q THEN 1 ELSE 0
  BY <1>3, FS_EmptySet, FS_Singleton DEF Tally
<1> QED
  BY <1>2, <1>4

\* Reversing keeps them.
LEMMA Reversed ==
  ASSUME NEW X, NEW b \in Seq(X)
  PROVE  /\ Reverse(b) \in Seq(X) /\ Len(Reverse(b)) = Len(b) /\ Len(b) \in Nat
         /\ DOMAIN b = 1 .. Len(b) /\ DOMAIN Reverse(b) = 1 .. Len(b)
         /\ \A i \in 1 .. Len(b) : Len(b) + 1 - i \in 1 .. Len(b) /\ Reverse(b)[i] = b[Len(b) + 1 - i]
<1> DEFINE n == Len(b)
<1>1. n \in Nat /\ DOMAIN b = 1 .. n /\ \A i \in 1 .. n : b[i] \in X
  OBVIOUS
<1>2. Reverse(b) = [i \in 1 .. n |-> b[(n - i) + 1]]
  BY DEF Reverse
<1>3. \A i \in 1 .. n : n + 1 - i \in 1 .. n /\ (n - i) + 1 = n + 1 - i
  BY <1>1
<1>4. \A i \in 1 .. n : Reverse(b)[i] = b[n + 1 - i] /\ b[n + 1 - i] \in X
  BY <1>1, <1>2, <1>3
<1> DEFINE r == Reverse(b)
<1>5. r = [i \in 1 .. n |-> r[i]]
  BY <1>2
<1> HIDE DEF r
<1>6. \A i \in 1 .. n : r[i] \in X
  BY <1>4 DEF r
<1>7. r \in Seq(X) /\ Len(r) = n /\ DOMAIN r = 1 .. n
  BY <1>1, <1>5, <1>6
<1> QED
  BY <1>1, <1>3, <1>4, <1>7 DEF r

LEMMA TallyReverse ==
  ASSUME NEW X, NEW b \in Seq(X), NEW Q
  PROVE  Tally(Reverse(b), Q) = Tally(b, Q)
<1> DEFINE n == Len(b)
           r == Reverse(b)
           B == {i \in DOMAIN b : b[i] \in Q}
           R == {i \in DOMAIN r : r[i] \in Q}
           f == [i \in B |-> n + 1 - i]
<1>1. /\ n \in Nat /\ DOMAIN b = 1 .. n /\ DOMAIN r = 1 .. n
      /\ \A i \in 1 .. n : n + 1 - i \in 1 .. n /\ r[i] = b[n + 1 - i]
  BY Reversed
<1> HIDE DEF r, n
<1>2. \A i \in 1 .. n : i \in Int /\ n + 1 - (n + 1 - i) = i
  BY <1>1
<1>3. \A i \in 1 .. n : r[n + 1 - i] = b[i]
  BY <1>1, <1>2
<1>4. \A i \in B : n + 1 - i \in R
  BY <1>1, <1>3
<1>5. f \in [B -> R]
  BY <1>4
<1>6. \A i, j \in B : f[i] = f[j] => i = j
  BY <1>1
<1>7. \A x \in R : \E i \in B : f[i] = x
  <2> SUFFICES ASSUME NEW x \in R PROVE \E i \in B : f[i] = x
    OBVIOUS
  <2>1. n + 1 - x \in B
    BY <1>1
  <2>2. f[n + 1 - x] = x
    BY <1>1, <1>2, <2>1
  <2> QED
    BY <2>1, <2>2
<1>8. IsFiniteSet(B)
  BY TallyType
<1> HIDE DEF B, R, f
<1>9. f \in Bijection(B, R)
  BY <1>5, <1>6, <1>7 DEF Bijection, Injection, Surjection, IsInjective
<1>10. Cardinality(R) = Cardinality(B)
  <2>1. ExistsBijection(B, R)
    BY <1>9 DEF ExistsBijection
  <2> QED
    BY <1>8, <2>1, FS_Bijection
<1> QED
  BY <1>10 DEF Tally, B, R, r

-----------------------------------------------------------------------------
\* Numbers that ascend and are all of a set are that set in ascending order.
Ascends(I, n, pos) ==
  /\ pos \in [1 .. n -> I]
  /\ \A k, l \in 1 .. n : k < l => pos[k] < pos[l]
  /\ \A i \in I : \E k \in 1 .. n : pos[k] = i

LEMMA AscendingUnique ==
  ASSUME NEW I \in SUBSET Int, IsFiniteSet(I), NEW n \in Nat, NEW pos, Ascends(I, n, pos)
  PROVE  Ascending(I) = pos
<1>1. \A k \in 1 .. n : pos[k] \in I /\ pos[k] \in Int
  BY DEF Ascends
<1>2. \A k, l \in 1 .. n : k < l => pos[k] < pos[l]
  BY DEF Ascends
<1>3. \A k, l \in 1 .. n : k < l <=> pos[k] < pos[l]
  <2> SUFFICES ASSUME NEW k \in 1 .. n, NEW l \in 1 .. n, pos[k] < pos[l] PROVE k < l
    BY <1>2
  <2>1. ~(l < k) /\ l # k
    BY <1>1, <1>2
  <2> QED
    BY <2>1
<1>4. \A i \in I : \E k \in 1 .. n : pos[k] = i
  BY DEF Ascends
<1>5. Cardinality(I) = n
  <2> DEFINE K == 1 .. n
  <2>1. IsFiniteSet(K) /\ Cardinality(K) = n
    BY UpToSize
  <2>2. pos \in [K -> I] /\ \A k, l \in K : pos[k] = pos[l] => k = l
    BY <1>1, <1>3 DEF Ascends
  <2> HIDE DEF K
  <2>3. pos \in Bijection(K, I)
    BY <1>4, <2>2 DEF Bijection, Injection, Surjection, IsInjective, K
  <2>4. ExistsBijection(K, I)
    BY <2>3 DEF ExistsBijection
  <2> QED
    BY <2>1, <2>4, FS_Bijection
<1>6. ASSUME NEW k \in 1 .. n PROVE Rank(I, pos[k]) = k - 1
  <2> DEFINE K == 1 .. k - 1
             S == {y \in I : y < pos[k]}
             f == [j \in K |-> pos[j]]
  <2>1. k - 1 \in Nat /\ \A j : j \in K <=> j \in 1 .. n /\ j < k
    OBVIOUS
  <2>2. IsFiniteSet(K) /\ Cardinality(K) = k - 1
    BY <2>1, UpToSize
  <2>3. f \in [K -> S]
    BY <1>1, <1>2, <2>1
  <2>4. \A i, j \in K : f[i] = f[j] => i = j
    <3> SUFFICES ASSUME NEW i \in K, NEW j \in K, pos[i] = pos[j] PROVE i = j
      OBVIOUS
    <3>1. i \in 1 .. n /\ j \in 1 .. n /\ pos[i] \in Int /\ pos[j] \in Int
      BY <1>1, <2>1
    <3>2. ~(i < j) /\ ~(j < i)
      BY <1>2, <3>1
    <3> QED
      BY <3>1, <3>2
  <2>5. \A y \in S : \E j \in K : f[j] = y
    <3> SUFFICES ASSUME NEW y \in I, y < pos[k] PROVE \E j \in K : f[j] = y
      OBVIOUS
    <3>1. PICK j \in 1 .. n : pos[j] = y
      BY <1>4
    <3>2. j < k
      BY <1>3, <3>1
    <3>3. j \in K
      BY <2>1, <3>2
    <3> QED
      BY <3>1, <3>3
  <2> HIDE DEF K, S, f
  <2>6. f \in Bijection(K, S)
    BY <2>3, <2>4, <2>5 DEF Bijection, Injection, Surjection, IsInjective
  <2>7. ExistsBijection(K, S)
    BY <2>6 DEF ExistsBijection
  <2>8. Cardinality(S) = k - 1
    BY <2>2, <2>7, FS_Bijection
  <2> QED
    BY <2>8 DEF Rank, S
<1> DEFINE a == Ascending(I)
<1>7. a \in [1 .. n -> Int] /\ a = [k \in 1 .. n |-> CHOOSE x \in I : Rank(I, x) = k - 1]
  <2>1. a \in Seq(I) /\ DOMAIN a = 1 .. n
    BY <1>5, AscendingIs
  <2>2. a = [k \in 1 .. n |-> CHOOSE x \in I : Rank(I, x) = k - 1]
    BY <1>5 DEF Ascending, Rank
  <2> HIDE DEF a
  <2>3. ASSUME NEW k \in 1 .. n PROVE a[k] \in Int
    <3>1. a[k] \in I
      BY <2>1
    <3> QED
      BY <3>1
  <2> QED
    BY <2>2, <2>3
<1> HIDE DEF a
<1>8. ASSUME NEW k \in 1 .. n PROVE a[k] = pos[k]
  <2>1. a[k] = CHOOSE x \in I : Rank(I, x) = k - 1
    BY <1>7
  <2>2. pos[k] \in I /\ Rank(I, pos[k]) = k - 1
    BY <1>1, <1>6
  <2>3. \A x \in I : Rank(I, x) = k - 1 => x = pos[k]
    <3> SUFFICES ASSUME NEW x \in I, Rank(I, x) = k - 1 PROVE x = pos[k]
      OBVIOUS
    <3>1. PICK j \in 1 .. n : pos[j] = x
      BY <1>4
    <3>2. j - 1 = k - 1
      BY <1>6, <3>1
    <3>3. j = k
      BY <3>2
    <3> QED
      BY <3>1, <3>3
  <2> QED
    BY <2>1, <2>2, <2>3
<1>9. pos = [k \in 1 .. n |-> pos[k]]
  BY DEF Ascends
<1>10. a = [k \in 1 .. n |-> a[k]]
  BY <1>7
<1> QED
  BY <1>8, <1>9, <1>10 DEF a

\* The elements of a sequence that are in a set, in their order.
Listed(b, Q, list) ==
  \E pos \in [1 .. Len(list) -> 1 .. Len(b)] :
    /\ \A k, l \in 1 .. Len(list) : k < l => pos[k] < pos[l]
    /\ \A k \in 1 .. Len(list) : b[pos[k]] = list[k]
    /\ \A i \in 1 .. Len(b) : b[i] \in Q <=> \E k \in 1 .. Len(list) : pos[k] = i

LEMMA ListedIs ==
  ASSUME NEW X, NEW b \in Seq(X), NEW Y, NEW list \in Seq(Y), NEW Q, Listed(b, Q, list)
  PROVE  Only(b, {i \in DOMAIN b : b[i] \in Q}) = list
<1> DEFINE I == {i \in DOMAIN b : b[i] \in Q}
           n == Len(list)
<1>1. n \in Nat /\ DOMAIN list = 1 .. n /\ Len(b) \in Nat /\ DOMAIN b = 1 .. Len(b)
  OBVIOUS
<1>2. PICK pos \in [1 .. n -> 1 .. Len(b)] :
        /\ \A k, l \in 1 .. n : k < l => pos[k] < pos[l]
        /\ \A k \in 1 .. n : b[pos[k]] = list[k]
        /\ \A i \in 1 .. Len(b) : b[i] \in Q <=> \E k \in 1 .. n : pos[k] = i
  BY DEF Listed
<1>3. \A k \in 1 .. n : pos[k] \in I
  BY <1>1, <1>2
<1>4. Ascends(I, n, pos)
  BY <1>1, <1>2, <1>3 DEF Ascends
<1>5. I \in SUBSET Int /\ IsFiniteSet(I)
  <2>1. I \in SUBSET Int
    BY <1>1
  <2> QED
    BY <2>1, TallyType
<1> HIDE DEF I, n
<1>6. Ascending(I) = pos
  BY <1>1, <1>4, <1>5, AscendingUnique
<1>7. Only(b, I) = [k \in 1 .. n |-> b[pos[k]]]
  BY <1>2, <1>6 DEF Only
<1>8. list = [k \in 1 .. n |-> list[k]]
  BY <1>1
<1> QED
  BY <1>2, <1>7, <1>8 DEF I

LEMMA ListedNone ==
  ASSUME NEW X, NEW b \in Seq(X), NEW Q, \A i \in DOMAIN b : b[i] \notin Q
  PROVE  Listed(b, Q, <<>>)
<1> DEFINE pos == [k \in {} |-> 1]
<1>1. Len(<<>>) = 0 /\ 1 .. 0 = {} /\ DOMAIN b = 1 .. Len(b)
  OBVIOUS
<1>2. pos \in [1 .. 0 -> 1 .. Len(b)]
  BY <1>1
<1> QED
  BY <1>1, <1>2 DEF Listed

LEMMA ListedAppend ==
  ASSUME NEW X, NEW b \in Seq(X), NEW e \in X, NEW Y, NEW list \in Seq(Y), NEW Q,
         Listed(b, Q, list), e \in Q, e \in Y
  PROVE  Listed(Append(b, e), Q, Append(list, e))
<1> DEFINE n == Len(list)
           m == Len(b)
           c == Append(b, e)
           more == Append(list, e)
<1>1. PICK pos \in [1 .. n -> 1 .. m] :
        /\ \A k, l \in 1 .. n : k < l => pos[k] < pos[l]
        /\ \A k \in 1 .. n : b[pos[k]] = list[k]
        /\ \A i \in 1 .. m : b[i] \in Q <=> \E k \in 1 .. n : pos[k] = i
  BY DEF Listed
<1>2. n \in Nat /\ Len(more) = n + 1 /\ more[n + 1] = e /\ \A k \in 1 .. n : more[k] = list[k]
  BY Appended
<1>3. m \in Nat /\ Len(c) = m + 1 /\ c[m + 1] = e /\ \A i \in 1 .. m : c[i] = b[i]
  BY Appended
<1> HIDE DEF n, m, c, more
<1> DEFINE q == [k \in 1 .. n + 1 |-> IF k = n + 1 THEN m + 1 ELSE pos[k]]
<1>4. \A k : k \in 1 .. n + 1 <=> k \in 1 .. n \/ k = n + 1
  BY <1>2
<1>5. \A i : i \in 1 .. m + 1 <=> i \in 1 .. m \/ i = m + 1
  BY <1>3
<1>6. \A k \in 1 .. n : q[k] = pos[k] /\ pos[k] \in 1 .. m /\ k # n + 1
  BY <1>2
<1>7. q[n + 1] = m + 1 /\ n + 1 \in 1 .. n + 1
  BY <1>2
<1>8. q \in [1 .. n + 1 -> 1 .. m + 1]
  BY <1>4, <1>5, <1>6, <1>7
<1> HIDE DEF q
<1>9. \A k, l \in 1 .. n + 1 : k < l => q[k] < q[l]
  <2> SUFFICES ASSUME NEW k \in 1 .. n + 1, NEW l \in 1 .. n + 1, k < l PROVE q[k] < q[l]
    OBVIOUS
  <2>1. k \in 1 .. n
    BY <1>2
  <2>2. CASE l \in 1 .. n
    BY <1>1, <1>6, <2>1, <2>2
  <2>3. CASE l = n + 1
    BY <1>3, <1>6, <1>7, <2>1, <2>3
  <2> QED
    BY <1>4, <2>2, <2>3
<1>10. \A k \in 1 .. n + 1 : c[q[k]] = more[k]
  BY <1>1, <1>2, <1>3, <1>4, <1>6, <1>7
<1>11. \A i \in 1 .. m + 1 : c[i] \in Q <=> \E k \in 1 .. n + 1 : q[k] = i
  <2>1. ASSUME NEW i \in 1 .. m PROVE c[i] \in Q <=> \E k \in 1 .. n + 1 : q[k] = i
    <3>1. q[n + 1] # i
      BY <1>3, <1>7
    <3> QED
      BY <1>1, <1>3, <1>4, <1>6, <3>1
  <2>2. c[m + 1] \in Q /\ \E k \in 1 .. n + 1 : q[k] = m + 1
    BY <1>3, <1>7
  <2> QED
    BY <1>5, <2>1, <2>2
<1>12. Listed(c, Q, more)
  <2>1. q \in [1 .. Len(more) -> 1 .. Len(c)]
    BY <1>2, <1>3, <1>8
  <2>2. \A k, l \in 1 .. Len(more) : k < l => q[k] < q[l]
    BY <1>2, <1>9
  <2>3. \A k \in 1 .. Len(more) : c[q[k]] = more[k]
    BY <1>2, <1>10
  <2>4. \A i \in 1 .. Len(c) : c[i] \in Q <=> \E k \in 1 .. Len(more) : q[k] = i
    BY <1>2, <1>3, <1>11
  <2> QED
    BY <2>1, <2>2, <2>3, <2>4 DEF Listed
<1> QED
  BY <1>12 DEF c, more

LEMMA ListedSkip ==
  ASSUME NEW X, NEW b \in Seq(X), NEW c \in Seq(X), NEW Y, NEW list \in Seq(Y), NEW Q,
         Listed(b, Q, list), \A i \in DOMAIN c : c[i] \notin Q
  PROVE  Listed(b \o c, Q, list)
<1> DEFINE n == Len(list)
           m == Len(b)
           d == b \o c
<1>1. PICK pos \in [1 .. n -> 1 .. m] :
        /\ \A k, l \in 1 .. n : k < l => pos[k] < pos[l]
        /\ \A k \in 1 .. n : b[pos[k]] = list[k]
        /\ \A i \in 1 .. m : b[i] \in Q <=> \E k \in 1 .. n : pos[k] = i
  BY DEF Listed
<1>2. m \in Nat /\ n \in Nat /\ Len(c) \in Nat /\ Len(d) = m + Len(c) /\ DOMAIN c = 1 .. Len(c)
  OBVIOUS
<1>3. \A i \in 1 .. m : d[i] = b[i]
  OBVIOUS
<1>4. \A i \in 1 .. Len(c) : d[m + i] = c[i]
  OBVIOUS
<1> HIDE DEF n, m, d
<1>5. pos \in [1 .. n -> 1 .. Len(d)]
  BY <1>2
<1>6. ASSUME NEW i \in 1 .. Len(d) PROVE d[i] \in Q <=> \E k \in 1 .. n : pos[k] = i
  <2>1. CASE i \in 1 .. m
    BY <1>1, <1>3, <2>1
  <2>2. CASE i \notin 1 .. m
    <3>1. i - m \in 1 .. Len(c) /\ m + (i - m) = i
      BY <1>2, <2>2
    <3>2. d[i] = c[i - m] /\ c[i - m] \notin Q
      BY <1>2, <1>4, <3>1
    <3> QED
      BY <2>2, <3>2
  <2> QED
    BY <2>1, <2>2
<1>7. \A k \in 1 .. n : d[pos[k]] = list[k]
  BY <1>1, <1>3
<1> QED
  BY <1>1, <1>5, <1>6, <1>7 DEF Listed, n, d

LEMMA ListedBehind ==
  ASSUME NEW X, NEW b \in Seq(X), NEW e \in X, NEW Y, NEW list \in Seq(Y), NEW Q,
         Listed(b, Q, list), e \notin Q
  PROVE  Listed(<<e>> \o b, Q, list)
<1> DEFINE n == Len(list)
           m == Len(b)
           d == <<e>> \o b
<1>1. PICK pos \in [1 .. n -> 1 .. m] :
        /\ \A k, l \in 1 .. n : k < l => pos[k] < pos[l]
        /\ \A k \in 1 .. n : b[pos[k]] = list[k]
        /\ \A i \in 1 .. m : b[i] \in Q <=> \E k \in 1 .. n : pos[k] = i
  BY DEF Listed
<1>2. m \in Nat /\ n \in Nat /\ Len(d) = m + 1 /\ d[1] = e
  OBVIOUS
<1>3. \A i \in 1 .. m : d[1 + i] = b[i]
  OBVIOUS
<1> HIDE DEF n, m, d
<1> DEFINE q == [k \in 1 .. n |-> 1 + pos[k]]
<1>4. \A k \in 1 .. n : pos[k] \in 1 .. m /\ q[k] = 1 + pos[k]
  OBVIOUS
<1>5. q \in [1 .. n -> 1 .. m + 1]
  BY <1>2, <1>4
<1> HIDE DEF q
<1>6. \A k, l \in 1 .. n : k < l => q[k] < q[l]
  BY <1>1, <1>2, <1>4
<1>7. \A k \in 1 .. n : d[q[k]] = list[k]
  BY <1>1, <1>3, <1>4
<1>8. ASSUME NEW i \in 1 .. m + 1 PROVE d[i] \in Q <=> \E k \in 1 .. n : q[k] = i
  <2>1. CASE i = 1
    <3>1. ASSUME NEW k \in 1 .. n PROVE q[k] # 1
      <4>1. pos[k] \in Int /\ pos[k] >= 1 /\ q[k] = 1 + pos[k]
        BY <1>2, <1>4
      <4> QED
        BY <4>1
    <3> QED
      BY <1>2, <2>1, <3>1
  <2>2. CASE i # 1
    <3>1. i - 1 \in 1 .. m /\ 1 + (i - 1) = i
      BY <1>2, <2>2
    <3>2. d[i] = b[i - 1]
      BY <1>3, <3>1
    <3>3. ASSUME NEW k \in 1 .. n PROVE q[k] = i <=> pos[k] = i - 1
      <4>1. pos[k] \in Int /\ q[k] = 1 + pos[k] /\ i \in Int
        BY <1>2, <1>4
      <4> DEFINE x == pos[k]
                 y == q[k]
      <4> HIDE DEF x, y
      <4>2. x \in Int /\ y = 1 + x
        BY <4>1 DEF x, y
      <4>3. y = i <=> x = i - 1
        BY <4>1, <4>2
      <4> QED
        BY <4>3 DEF x, y
    <3> QED
      BY <1>1, <3>1, <3>2, <3>3
  <2> QED
    BY <2>1, <2>2
<1>9. Listed(d, Q, list)
  <2>1. q \in [1 .. Len(list) -> 1 .. Len(d)]
    BY <1>2, <1>5 DEF n
  <2>2. \A k, l \in 1 .. Len(list) : k < l => q[k] < q[l]
    BY <1>6 DEF n
  <2>3. \A k \in 1 .. Len(list) : d[q[k]] = list[k]
    BY <1>7 DEF n
  <2>4. \A i \in 1 .. Len(d) : d[i] \in Q <=> \E k \in 1 .. Len(list) : q[k] = i
    BY <1>2, <1>8 DEF n
  <2> QED
    BY <2>1, <2>2, <2>3, <2>4 DEF Listed
<1> QED
  BY <1>9 DEF d

LEMMA ListedReverse ==
  ASSUME NEW X, NEW b \in Seq(X), NEW Y, NEW list \in Seq(Y), NEW Q, Listed(b, Q, list)
  PROVE  Listed(Reverse(b), Q, Reverse(list))
<1> DEFINE n == Len(list)
           m == Len(b)
           r == Reverse(b)
           back == Reverse(list)
<1>1. PICK pos \in [1 .. n -> 1 .. m] :
        /\ \A k, l \in 1 .. n : k < l => pos[k] < pos[l]
        /\ \A k \in 1 .. n : b[pos[k]] = list[k]
        /\ \A i \in 1 .. m : b[i] \in Q <=> \E k \in 1 .. n : pos[k] = i
  BY DEF Listed
<1>2. /\ m \in Nat /\ Len(r) = m
      /\ \A i \in 1 .. m : m + 1 - i \in 1 .. m /\ r[i] = b[m + 1 - i]
  BY Reversed
<1>3. /\ n \in Nat /\ Len(back) = n
      /\ \A k \in 1 .. n : n + 1 - k \in 1 .. n /\ back[k] = list[n + 1 - k]
  BY Reversed
<1> HIDE DEF n, m, r, back
<1> DEFINE q == [k \in 1 .. n |-> m + 1 - pos[n + 1 - k]]
<1>4. \A k \in 1 .. n : pos[k] \in 1 .. m /\ n + 1 - (n + 1 - k) = k
  BY <1>3
<1>5. \A i \in 1 .. m : m + 1 - (m + 1 - i) = i
  BY <1>2
<1>6. \A k \in 1 .. n : /\ q[k] = m + 1 - pos[n + 1 - k] /\ pos[n + 1 - k] \in 1 .. m
                        /\ q[k] \in 1 .. m /\ m + 1 - q[k] = pos[n + 1 - k]
  BY <1>2, <1>3, <1>4, <1>5
<1>7. q \in [1 .. n -> 1 .. m]
  BY <1>6
<1> HIDE DEF q
<1>8. \A k, l \in 1 .. n : k < l => q[k] < q[l]
  <2> SUFFICES ASSUME NEW k \in 1 .. n, NEW l \in 1 .. n, k < l PROVE q[k] < q[l]
    OBVIOUS
  <2>1. n + 1 - l < n + 1 - k
    BY <1>3
  <2>2. pos[n + 1 - l] < pos[n + 1 - k]
    BY <1>1, <1>3, <2>1
  <2> QED
    BY <1>2, <1>6, <2>2
<1>9. ASSUME NEW k \in 1 .. n PROVE r[q[k]] = back[k]
  <2>1. r[q[k]] = b[pos[n + 1 - k]]
    BY <1>2, <1>6
  <2>2. n + 1 - k \in 1 .. n /\ back[k] = list[n + 1 - k]
    BY <1>3
  <2>3. b[pos[n + 1 - k]] = list[n + 1 - k]
    BY <1>1, <2>2
  <2> QED
    BY <2>1, <2>2, <2>3
<1>10. ASSUME NEW i \in 1 .. m PROVE r[i] \in Q <=> \E k \in 1 .. n : q[k] = i
  <2>1. ASSUME NEW k \in 1 .. n, pos[k] = m + 1 - i PROVE q[n + 1 - k] = i /\ n + 1 - k \in 1 .. n
    BY <1>2, <1>3, <1>4, <1>5, <1>6, <2>1
  <2>2. ASSUME NEW k \in 1 .. n, q[k] = i PROVE pos[n + 1 - k] = m + 1 - i /\ n + 1 - k \in 1 .. n
    BY <1>3, <1>6, <2>2
  <2>3. r[i] \in Q <=> \E k \in 1 .. n : pos[k] = m + 1 - i
    BY <1>1, <1>2
  <2> QED
    BY <2>1, <2>2, <2>3
<1> QED
  BY <1>2, <1>3, <1>7, <1>8, <1>9, <1>10 DEF Listed, r, back

-----------------------------------------------------------------------------
\* The runs of available rows among the first n: the k-th is from open[k] to just
\* before close[k], which is n + 1 when nothing closes it.
Runs(p, n, m, open, close) ==
  /\ open \in [1 .. m -> 1 .. n] /\ close \in [1 .. m -> 1 .. n + 1]
  /\ \A k \in 1 .. m : open[k] < close[k]
  /\ \A k, l \in 1 .. m : k < l => close[k] < open[l]
  /\ \A i \in 1 .. n : On(p, i) <=> \E k \in 1 .. m : open[k] <= i /\ i < close[k]

LEMMA RunOpens ==
  ASSUME NEW p, NEW n \in Nat, NEW m \in Nat, NEW open, NEW close, Runs(p, n, m, open, close),
         \A k \in 1 .. m : close[k] <= n, On(p, n + 1)
  PROVE  Runs(p, n + 1, m + 1, [k \in 1 .. m + 1 |-> IF k = m + 1 THEN n + 1 ELSE open[k]],
                               [k \in 1 .. m + 1 |-> IF k = m + 1 THEN n + 2 ELSE close[k]])
<1> DEFINE o == [k \in 1 .. m + 1 |-> IF k = m + 1 THEN n + 1 ELSE open[k]]
           c == [k \in 1 .. m + 1 |-> IF k = m + 1 THEN n + 2 ELSE close[k]]
<1>1. \A k : k \in 1 .. m + 1 <=> k \in 1 .. m \/ k = m + 1
  OBVIOUS
<1>2. \A k \in 1 .. m : /\ k # m + 1 /\ o[k] = open[k] /\ c[k] = close[k]
                        /\ open[k] \in 1 .. n /\ close[k] \in 1 .. n /\ open[k] < close[k]
  BY <1>1 DEF Runs
<1>3. o[m + 1] = n + 1 /\ c[m + 1] = n + 2 /\ m + 1 \in 1 .. m + 1
  OBVIOUS
<1>4. \A k \in 1 .. m + 1 : o[k] \in 1 .. n + 1 /\ c[k] \in 1 .. (n + 1) + 1 /\ o[k] < c[k]
  <2>1. ASSUME NEW k \in 1 .. m PROVE o[k] \in 1 .. n + 1 /\ c[k] \in 1 .. (n + 1) + 1 /\ o[k] < c[k]
    <3>1. o[k] = open[k] /\ c[k] = close[k] /\ open[k] \in 1 .. n /\ close[k] \in 1 .. n /\ open[k] < close[k]
      BY <1>2
    <3> HIDE DEF o, c
    <3> QED
      BY <3>1
  <2>2. n + 1 \in 1 .. n + 1 /\ n + 2 \in 1 .. (n + 1) + 1 /\ n + 1 < n + 2
    OBVIOUS
  <2> HIDE DEF o, c
  <2> QED
    BY <1>1, <1>3, <2>1, <2>2
<1>5. o \in [1 .. m + 1 -> 1 .. n + 1] /\ c \in [1 .. m + 1 -> 1 .. (n + 1) + 1]
  BY <1>4
<1> HIDE DEF o, c
<1>6. \A k, l \in 1 .. m + 1 : k < l => c[k] < o[l]
  <2> SUFFICES ASSUME NEW k \in 1 .. m + 1, NEW l \in 1 .. m + 1, k < l PROVE c[k] < o[l]
    OBVIOUS
  <2>1. k \in 1 .. m
    OBVIOUS
  <2>2. CASE l \in 1 .. m
    BY <1>2, <2>1, <2>2 DEF Runs
  <2>3. CASE l = m + 1
    BY <1>2, <1>3, <2>1, <2>3
  <2> QED
    BY <1>1, <2>2, <2>3
<1>7. ASSUME NEW i \in 1 .. n + 1 PROVE On(p, i) <=> \E k \in 1 .. m + 1 : o[k] <= i /\ i < c[k]
  <2>1. CASE i \in 1 .. n
    <3>1. ~(o[m + 1] <= i)
      BY <1>3, <2>1
    <3>2. On(p, i) <=> \E k \in 1 .. m : open[k] <= i /\ i < close[k]
      BY <2>1 DEF Runs
    <3> QED
      BY <1>1, <1>2, <3>1, <3>2
  <2>2. CASE i = n + 1
    <3>1. o[m + 1] <= i /\ i < c[m + 1]
      BY <1>3, <2>2
    <3> QED
      BY <1>3, <2>2, <3>1
  <2> QED
    BY <2>1, <2>2
<1>8. Runs(p, n + 1, m + 1, o, c)
  BY <1>4, <1>5, <1>6, <1>7 DEF Runs
<1> QED
  BY <1>8 DEF o, c

LEMMA RunGoesOn ==
  ASSUME NEW p, NEW n \in Nat, NEW m \in Nat \ {0}, NEW open, NEW close, Runs(p, n, m, open, close),
         close[m] = n + 1, On(p, n + 1)
  PROVE  Runs(p, n + 1, m, open, [k \in 1 .. m |-> IF k = m THEN n + 2 ELSE close[k]])
<1> DEFINE c == [k \in 1 .. m |-> IF k = m THEN n + 2 ELSE close[k]]
<1>1. c[m] = n + 2 /\ m \in 1 .. m
  OBVIOUS
<1>2. \A k \in 1 .. m : k # m => c[k] = close[k] /\ k < m
  OBVIOUS
<1>3. \A k \in 1 .. m : open[k] \in 1 .. n /\ close[k] \in 1 .. n + 1 /\ open[k] < close[k]
  BY DEF Runs
<1>4. ASSUME NEW k \in 1 .. m
      PROVE  open[k] \in 1 .. n + 1 /\ c[k] \in 1 .. (n + 1) + 1 /\ open[k] < c[k]
  <2>1. n + 2 \in 1 .. (n + 1) + 1
    OBVIOUS
  <2> HIDE DEF c
  <2> QED
    BY <1>1, <1>2, <1>3, <2>1
<1>5. open \in [1 .. m -> 1 .. n + 1] /\ c \in [1 .. m -> 1 .. (n + 1) + 1]
  <2>1. open = [k \in 1 .. m |-> open[k]]
    BY DEF Runs
  <2> QED
    BY <1>4, <2>1
<1> HIDE DEF c
<1>6. \A k, l \in 1 .. m : k < l => c[k] < open[l]
  <2> SUFFICES ASSUME NEW k \in 1 .. m, NEW l \in 1 .. m, k < l PROVE c[k] < open[l]
    OBVIOUS
  <2>1. k # m
    OBVIOUS
  <2> QED
    BY <1>2, <2>1 DEF Runs
<1>7. ASSUME NEW i \in 1 .. n + 1 PROVE On(p, i) <=> \E k \in 1 .. m : open[k] <= i /\ i < c[k]
  <2>1. CASE i \in 1 .. n
    <3>1. \A k \in 1 .. m : i < close[k] <=> i < c[k]
      BY <1>1, <1>2, <2>1
    <3>2. On(p, i) <=> \E k \in 1 .. m : open[k] <= i /\ i < close[k]
      BY <2>1 DEF Runs
    <3> QED
      BY <3>1, <3>2
  <2>2. CASE i = n + 1
    <3>1. open[m] <= i /\ i < c[m]
      BY <1>1, <1>3, <2>2
    <3> QED
      BY <1>1, <2>2, <3>1
  <2> QED
    BY <2>1, <2>2
<1>8. Runs(p, n + 1, m, open, c)
  BY <1>4, <1>5, <1>6, <1>7 DEF Runs
<1> QED
  BY <1>8 DEF c

LEMMA RunsStay ==
  ASSUME NEW p, NEW n \in Nat, NEW m \in Nat, NEW open, NEW close, Runs(p, n, m, open, close), ~On(p, n + 1)
  PROVE  Runs(p, n + 1, m, open, close)
<1>1. \A k \in 1 .. m : open[k] \in 1 .. n /\ close[k] \in 1 .. n + 1 /\ open[k] < close[k]
  BY DEF Runs
<1>2. \A k \in 1 .. m : open[k] \in 1 .. n + 1 /\ close[k] \in 1 .. (n + 1) + 1
  BY <1>1
<1>3. open \in [1 .. m -> 1 .. n + 1] /\ close \in [1 .. m -> 1 .. (n + 1) + 1]
  <2>1. open = [k \in 1 .. m |-> open[k]] /\ close = [k \in 1 .. m |-> close[k]]
    BY DEF Runs
  <2> QED
    BY <1>2, <2>1
<1>4. ASSUME NEW i \in 1 .. n + 1 PROVE On(p, i) <=> \E k \in 1 .. m : open[k] <= i /\ i < close[k]
  <2>1. CASE i \in 1 .. n
    BY <2>1 DEF Runs
  <2>2. CASE i = n + 1
    BY <1>1, <2>2
  <2> QED
    BY <2>1, <2>2
<1>5. \A k, l \in 1 .. m : k < l => close[k] < open[l]
  BY DEF Runs
<1> QED
  BY <1>1, <1>3, <1>4, <1>5 DEF Runs

-----------------------------------------------------------------------------
PairingUp == INSTANCE FoldTheorems WITH Op <- Pair

Closed == [type : {"session"}, startAt : Int, endAt : Int, lastSeen : Int \cup {Null}]
Sess   == [type : {"session"}, startAt : Int, endAt : Int \cup {Null}, lastSeen : Int \cup {Null}]
Pairs  == [start : Int \cup {Null}, off : Int \cup {Null}, sessions : Seq(Closed)]

NoPairs == [start |-> Null, off |-> Null, sessions |-> <<>>]

\* The sessions with the one that is open.
Opened(acc) ==
  IF acc.start = Null THEN acc.sessions ELSE Append(acc.sessions, Session(acc.start, Null, Null))

LEMMA PairFold ==
  \A s : Paired(s) = LET acc == PairingUp!Folded(NoPairs, Presence(s))
                     IN  IF acc.start = Null THEN acc
                         ELSE [acc EXCEPT !.off = Null, !.sessions = Append(@, Session(acc.start, Null, Null))]
  BY Zenon DEF Paired, NoPairs, PairingUp!Folded, PairingUp!FoldLeft, FoldLeft,
     PairingUp!MapThenFoldSet, MapThenFoldSet, PairingUp!Max, Max

LEMMA PairIs ==
  ASSUME NEW acc \in Pairs, NEW e \in Logged
  PROVE  /\ Pair(acc, e) \in Pairs
         /\ e.state = "available" /\ acc.start = Null =>
              Pair(acc, e).start = e.at /\ Pair(acc, e).sessions = acc.sessions
         /\ e.state = "available" /\ acc.start # Null => Pair(acc, e) = acc
         /\ e.state # "available" =>
              /\ Pair(acc, e).start = Null /\ Pair(acc, e).off = e.at
              /\ acc.start = Null => Pair(acc, e).sessions = acc.sessions
              /\ acc.start # Null =>
                   /\ Session(acc.start, e.at, e.lastSeen) \in Closed
                   /\ Pair(acc, e).sessions = Append(acc.sessions, Session(acc.start, e.at, e.lastSeen))
<1>1. /\ e.at \in Int /\ e.lastSeen \in Int \cup {Null}
      /\ acc.start \in Int \cup {Null} /\ acc.off \in Int \cup {Null} /\ acc.sessions \in Seq(Closed)
      /\ acc = [start |-> acc.start, off |-> acc.off, sessions |-> acc.sessions]
  BY DEF Logged, Pairs
<1>2. CASE e.state = "available" /\ acc.start = Null
  BY <1>1, <1>2 DEF Pair, Pairs
<1>3. CASE e.state = "available" /\ acc.start # Null
  BY <1>1, <1>3 DEF Pair, Pairs
<1>4. CASE e.state # "available" /\ acc.start # Null
  <2>1. Session(acc.start, e.at, e.lastSeen) \in Closed
    BY <1>1, <1>4 DEF Session, Closed
  <2>2. Append(acc.sessions, Session(acc.start, e.at, e.lastSeen)) \in Seq(Closed)
    BY <1>1, <2>1
  <2>3. Pair(acc, e) = [start |-> Null, off |-> e.at,
                        sessions |-> Append(acc.sessions, Session(acc.start, e.at, e.lastSeen))]
    BY <1>4 DEF Pair
  <2> QED
    BY <1>1, <1>4, <2>1, <2>2, <2>3 DEF Pairs
<1>5. CASE e.state # "available" /\ acc.start = Null
  BY <1>1, <1>5 DEF Pair, Pairs
<1> QED
  BY <1>2, <1>3, <1>4, <1>5

\* The sessions are the runs: when they start and when they end.
Times(p, n, S, open, close) ==
  \A k \in 1 .. Len(S) :
    /\ S[k].startAt = p[open[k]].at
    /\ S[k].endAt = IF close[k] <= n THEN p[close[k]].at ELSE Null

PairedAfter(p, n, acc) ==
  /\ acc \in Pairs
  /\ acc.start = Null => acc.off = IF n = 0 THEN Null ELSE p[n].at
  /\ \E open, close :
       /\ Runs(p, n, Len(Opened(acc)), open, close)
       /\ Times(p, n, Opened(acc), open, close)
       /\ acc.start = Null => \A k \in 1 .. Len(Opened(acc)) : close[k] <= n
       /\ acc.start # Null => close[Len(Opened(acc))] = n + 1

LEMMA OpenedIs ==
  ASSUME NEW acc \in Pairs
  PROVE  /\ Len(acc.sessions) \in Nat /\ Opened(acc) \in Seq(Sess) /\ acc.sessions \in Seq(Sess)
         /\ acc.start = Null => Opened(acc) = acc.sessions
         /\ acc.start # Null =>
              /\ Len(Opened(acc)) = Len(acc.sessions) + 1
              /\ Opened(acc)[Len(acc.sessions) + 1] = Session(acc.start, Null, Null)
              /\ \A k \in 1 .. Len(acc.sessions) : Opened(acc)[k] = acc.sessions[k]
<1>1. acc.start \in Int \cup {Null} /\ acc.sessions \in Seq(Closed)
  BY DEF Pairs
<1>2. acc.sessions \in Seq(Sess)
  <2>1. Closed \subseteq Sess
    BY DEF Closed, Sess
  <2> QED
    BY <1>1, <2>1
<1>3. CASE acc.start = Null
  BY <1>1, <1>2, <1>3 DEF Opened
<1>4. CASE acc.start # Null
  <2> DEFINE s == Session(acc.start, Null, Null)
             S == acc.sessions
  <2>1. s \in Sess
    BY <1>1, <1>4 DEF Session, Sess
  <2>2. S \in Seq(Sess)
    BY <1>2
  <2>3. Opened(acc) = Append(S, s)
    BY <1>4 DEF Opened
  <2> HIDE DEF s, S
  <2>4. /\ Append(S, s) \in Seq(Sess) /\ Len(Append(S, s)) = Len(S) + 1 /\ Len(S) \in Nat
        /\ \A i \in 1 .. Len(S) : Append(S, s)[i] = S[i]
        /\ Append(S, s)[Len(S) + 1] = s
    BY <2>1, <2>2, Appended
  <2> QED
    BY <1>4, <2>2, <2>3, <2>4 DEF s, S
<1> QED
  BY <1>3, <1>4

LEMMA PairStep ==
  ASSUME NEW p \in Seq(Logged), NEW i \in 0 .. Len(p) - 1, NEW acc, PairedAfter(p, i, acc)
  PROVE  PairedAfter(p, i + 1, Pair(acc, p[i + 1]))
<1> DEFINE e == p[i + 1]
           r == Pair(acc, e)
           S == Opened(acc)
           m == Len(S)
<1>1. acc \in Pairs /\ i \in Nat /\ i + 1 # 0
  BY DEF PairedAfter
<1>2. e \in Logged
  OBVIOUS
<1>3. PICK open, close :
        /\ Runs(p, i, m, open, close)
        /\ Times(p, i, S, open, close)
        /\ acc.start = Null => \A k \in 1 .. m : close[k] <= i
        /\ acc.start # Null => close[m] = i + 1
  BY DEF PairedAfter
<1>4. S \in Seq(Sess) /\ m \in Nat
  BY <1>1, OpenedIs
<1>5. \A k \in 1 .. m : open[k] \in 1 .. i /\ close[k] \in 1 .. i + 1
  BY <1>3 DEF Runs
<1>6. \A k \in 1 .. m : S[k].startAt = p[open[k]].at /\ (close[k] <= i => S[k].endAt = p[close[k]].at)
                        /\ (~(close[k] <= i) => S[k].endAt = Null)
  BY <1>3 DEF Times
<1>7. e.at \in Int /\ p[i + 1].at = e.at
  BY <1>2, LoggedAt
<1>8. On(p, i + 1) <=> e.state = "available"
  BY DEF On
<1> HIDE DEF e, S, m
<1>9. CASE On(p, i + 1) /\ acc.start = Null
  <2> DEFINE o == [k \in 1 .. m + 1 |-> IF k = m + 1 THEN i + 1 ELSE open[k]]
             c == [k \in 1 .. m + 1 |-> IF k = m + 1 THEN i + 2 ELSE close[k]]
  <2>1. Runs(p, i + 1, m + 1, o, c)
    BY <1>1, <1>3, <1>4, <1>9, RunOpens
  <2>2. r \in Pairs /\ r.start = e.at /\ r.sessions = acc.sessions
    BY <1>1, <1>2, <1>8, <1>9, PairIs
  <2>3. r.start # Null
    BY <1>7, <2>2, NullAssumption
  <2>4. acc.sessions = S
    BY <1>1, <1>9, OpenedIs DEF S
  <2> HIDE DEF r
  <2> DEFINE T == Opened(r)
  <2>5. Len(T) = m + 1 /\ T[m + 1] = Session(e.at, Null, Null) /\ \A k \in 1 .. m : T[k] = S[k]
    BY <2>2, <2>3, <2>4, OpenedIs DEF m
  <2> HIDE DEF T
  <2>6. Times(p, i + 1, T, o, c)
    <3>1. ASSUME NEW k \in 1 .. m
          PROVE  T[k].startAt = p[o[k]].at /\ T[k].endAt = (IF c[k] <= i + 1 THEN p[c[k]].at ELSE Null)
      <4>1. o[k] = open[k] /\ c[k] = close[k] /\ close[k] <= i
        BY <1>3, <1>4, <1>9
      <4>2. c[k] <= i + 1
        BY <1>1, <1>5, <4>1
      <4> QED
        BY <1>6, <2>5, <4>1, <4>2
    <3>2. T[m + 1].startAt = p[o[m + 1]].at /\ T[m + 1].endAt = (IF c[m + 1] <= i + 1 THEN p[c[m + 1]].at ELSE Null)
      <4>1. o[m + 1] = i + 1 /\ c[m + 1] = i + 2 /\ ~(i + 2 <= i + 1)
        BY <1>1, <1>4
      <4> QED
        BY <1>7, <2>5, <4>1 DEF Session
    <3> HIDE DEF o, c
    <3>3. \A k : k \in 1 .. m + 1 => k \in 1 .. m \/ k = m + 1
      BY <1>4
    <3> QED
      BY <2>5, <3>1, <3>2, <3>3 DEF Times
  <2>7. c[m + 1] = (i + 1) + 1
    BY <1>1, <1>4
  <2> HIDE DEF o, c
  <2> QED
    BY <2>1, <2>2, <2>3, <2>5, <2>6, <2>7 DEF PairedAfter, T, r, e
<1>10. CASE On(p, i + 1) /\ acc.start # Null
  <2>1. r = acc
    BY <1>1, <1>2, <1>8, <1>10, PairIs
  <2>2. m \in Nat \ {0} /\ m \in 1 .. m
    <3>1. m = Len(acc.sessions) + 1 /\ Len(acc.sessions) \in Nat
      BY <1>1, <1>10, OpenedIs DEF m, S
    <3> QED
      BY <3>1
  <2> DEFINE c == [k \in 1 .. m |-> IF k = m THEN i + 2 ELSE close[k]]
  <2>3. Runs(p, i + 1, m, open, c)
    BY <1>1, <1>3, <1>10, <2>2, RunGoesOn
  <2>4. c[m] = i + 2 /\ i + 2 = (i + 1) + 1 /\ close[m] = i + 1
    BY <1>1, <1>3, <1>10, <2>2
  <2>5. ASSUME NEW k \in 1 .. m
        PROVE  S[k].startAt = p[open[k]].at /\ S[k].endAt = (IF c[k] <= i + 1 THEN p[c[k]].at ELSE Null)
    <3>1. CASE k = m
      <4>1. ~(c[k] <= i + 1) /\ ~(close[k] <= i)
        BY <1>1, <2>4, <3>1
      <4> QED
        BY <1>6, <4>1
    <3>2. CASE k # m
      <4>1. c[k] = close[k] /\ k < m
        BY <2>2, <3>2
      <4>2. close[k] < open[m] /\ open[m] \in 1 .. i /\ close[k] \in 1 .. i + 1
        BY <1>3, <1>5, <2>2, <4>1 DEF Runs
      <4>3. close[k] <= i /\ close[k] <= i + 1
        BY <1>1, <4>2
      <4> HIDE DEF c
      <4> QED
        BY <1>6, <4>1, <4>3
    <3> QED
      BY <3>1, <3>2
  <2> HIDE DEF c
  <2>6. Times(p, i + 1, S, open, c)
    BY <2>5 DEF Times, m
  <2>7. PairedAfter(p, i + 1, acc)
    BY <1>1, <1>10, <2>3, <2>4, <2>6 DEF PairedAfter, S, m
  <2> QED
    BY <2>1, <2>7 DEF r, e
<1>11. CASE ~On(p, i + 1)
  <2>1. Runs(p, i + 1, m, open, close)
    BY <1>1, <1>3, <1>4, <1>11, RunsStay
  <2>2. r \in Pairs /\ r.start = Null /\ r.off = e.at
    BY <1>1, <1>2, <1>8, <1>11, PairIs
  <2>3. Opened(r) = r.sessions
    BY <2>2, OpenedIs
  <2> DEFINE T == r.sessions
  <2>4. /\ Len(T) = m
        /\ \A k \in 1 .. m : /\ T[k].startAt = S[k].startAt
                             /\ close[k] <= i => T[k].endAt = S[k].endAt
                             /\ ~(close[k] <= i) => T[k].endAt = e.at /\ close[k] = i + 1
    <3>1. CASE acc.start = Null
      <4>1. T = S
        BY <1>1, <1>2, <1>8, <1>11, <3>1, PairIs, OpenedIs DEF S
      <4> QED
        BY <1>3, <3>1, <4>1 DEF m
    <3>2. CASE acc.start # Null
      <4> DEFINE s == Session(acc.start, e.at, e.lastSeen)
                 U == acc.sessions
      <4>1. T = Append(U, s) /\ s \in Closed /\ U \in Seq(Closed)
        BY <1>1, <1>2, <1>8, <1>11, <3>2, PairIs DEF Pairs
      <4>2. /\ m = Len(U) + 1 /\ S[m] = Session(acc.start, Null, Null) /\ Len(U) \in Nat
            /\ \A k \in 1 .. Len(U) : S[k] = U[k]
        BY <1>1, <3>2, OpenedIs DEF S, m
      <4>3. s.startAt = acc.start /\ s.endAt = e.at /\ S[m].startAt = acc.start
        BY <4>2 DEF Session
      <4> HIDE DEF s, U, r
      <4>4. Len(T) = Len(U) + 1 /\ T[Len(U) + 1] = s /\ \A k \in 1 .. Len(U) : T[k] = U[k]
        BY <4>1, Appended
      <4>5. ASSUME NEW k \in 1 .. m
            PROVE  /\ T[k].startAt = S[k].startAt
                   /\ close[k] <= i => T[k].endAt = S[k].endAt
                   /\ ~(close[k] <= i) => T[k].endAt = e.at /\ close[k] = i + 1
        <5>1. CASE k = m
          <6>1. close[k] = i + 1 /\ ~(close[k] <= i)
            BY <1>1, <1>3, <3>2, <5>1
          <6> QED
            BY <4>2, <4>3, <4>4, <5>1, <6>1
        <5>2. CASE k # m
          <6>1. k \in 1 .. Len(U) /\ k < m /\ m \in 1 .. m
            BY <4>2, <5>2
          <6>2. close[k] < open[m] /\ open[m] \in 1 .. i /\ close[k] \in 1 .. i + 1
            BY <1>3, <1>5, <6>1 DEF Runs
          <6>3. close[k] <= i
            BY <1>1, <6>2
          <6> QED
            BY <4>2, <4>4, <6>1, <6>3
        <5> QED
          BY <5>1, <5>2
      <4> QED
        BY <4>2, <4>4, <4>5
    <3> QED
      BY <3>1, <3>2
  <2> HIDE DEF T
  <2>5. Times(p, i + 1, T, open, close)
    <3>1. ASSUME NEW k \in 1 .. m
          PROVE  T[k].startAt = p[open[k]].at /\ T[k].endAt = (IF close[k] <= i + 1 THEN p[close[k]].at ELSE Null)
      <4>1. close[k] <= i + 1
        BY <1>1, <1>5
      <4> QED
        BY <1>6, <1>7, <2>4, <4>1
    <3> QED
      BY <2>4, <3>1 DEF Times
  <2>6. \A k \in 1 .. m : close[k] <= i + 1
    BY <1>1, <1>5
  <2> HIDE DEF r
  <2>7. PairedAfter(p, i + 1, r)
    BY <1>1, <1>7, <2>1, <2>2, <2>3, <2>4, <2>5, <2>6 DEF PairedAfter, T
  <2> QED
    BY <2>7 DEF r, e
<1> QED
  BY <1>9, <1>10, <1>11

-----------------------------------------------------------------------------
\* What buildBlocks makes of the rows: a session for each run, and since when
\* they are off.
LEMMA PairedIs ==
  ASSUME NEW entries, NEW p \in Seq(Logged), p = Presence(entries), NEW n, n = Len(p)
  PROVE  /\ Paired(entries).sessions \in Seq(Sess)
         /\ \E open, close : /\ Runs(p, n, Len(Paired(entries).sessions), open, close)
                             /\ Times(p, n, Paired(entries).sessions, open, close)
         /\ Paired(entries).off # Null => n > 0 /\ ~On(p, n) /\ Paired(entries).off = p[n].at
<1> DEFINE F(s) == PairingUp!Folded(NoPairs, s)
           acc == F(p)
<1>1. n \in Nat /\ DOMAIN p = 1 .. n
  OBVIOUS
<1>2. NoPairs \in Pairs
  BY DEF NoPairs, Pairs
<1>3. \A a \in Pairs, e \in Logged : Pair(a, e) \in Pairs
  BY PairIs
<1>4. PICK f \in [0 .. n -> Pairs] : PairingUp!Along(f, NoPairs, p) /\ acc = f[n]
  BY <1>2, <1>3, PairingUp!FoldLeftSteps
<1> HIDE DEF acc
<1>5. f[0] = NoPairs /\ \A i \in 1 .. n : f[i] = Pair(f[i - 1], p[i])
  BY <1>4 DEF PairingUp!Along
<1> DEFINE A == {i \in 0 .. n : PairedAfter(p, i, f[i])}
<1>6. 0 \in A
  <2> DEFINE o == [k \in {} |-> 1]
  <2>1. Opened(NoPairs) = <<>> /\ Len(<<>>) = 0 /\ NoPairs.start = Null /\ NoPairs.off = Null
    BY DEF Opened, NoPairs
  <2>2. 1 .. 0 = {}
    OBVIOUS
  <2>3. Runs(p, 0, 0, o, o)
    BY <2>2 DEF Runs
  <2>4. Times(p, 0, <<>>, o, o)
    BY <2>1, <2>2 DEF Times
  <2>5. PairedAfter(p, 0, NoPairs)
    BY <1>2, <2>1, <2>2, <2>3, <2>4 DEF PairedAfter
  <2> QED
    BY <1>1, <1>5, <2>5
<1>7. ASSUME NEW i \in 0 .. n - 1, i \in A PROVE i + 1 \in A
  <2>1. i + 1 \in 1 .. n /\ i + 1 \in 0 .. n /\ (i + 1) - 1 = i
    BY <1>1
  <2>2. f[i + 1] = Pair(f[i], p[i + 1])
    BY <1>5, <2>1
  <2>3. PairedAfter(p, i + 1, Pair(f[i], p[i + 1]))
    BY <1>7, PairStep
  <2> QED
    BY <2>1, <2>2, <2>3
<1> HIDE DEF A
<1>8. \A i \in 0 .. n : i \in A
  BY <1>1, <1>6, <1>7, PairingUp!UpTo
<1>9. PairedAfter(p, n, acc)
  BY <1>1, <1>4, <1>8 DEF A
<1>10. acc \in Pairs
  BY <1>9 DEF PairedAfter
<1> DEFINE r == Paired(entries)
<1>11. /\ acc.start = Null => r = acc
       /\ acc.start # Null => r.off = Null /\ r.sessions = Append(acc.sessions, Session(acc.start, Null, Null))
  BY <1>10, PairFold DEF acc, Pairs
<1> HIDE DEF r
<1>12. r.sessions = Opened(acc)
  BY <1>11 DEF Opened
<1>13. PICK open, close :
         /\ Runs(p, n, Len(Opened(acc)), open, close)
         /\ Times(p, n, Opened(acc), open, close)
         /\ acc.start = Null => \A k \in 1 .. Len(Opened(acc)) : close[k] <= n
  BY <1>9 DEF PairedAfter
<1>14. r.off # Null => n > 0 /\ ~On(p, n) /\ r.off = p[n].at
  <2> SUFFICES ASSUME r.off # Null PROVE n > 0 /\ ~On(p, n) /\ r.off = p[n].at
    OBVIOUS
  <2>1. acc.start = Null /\ r.off = acc.off
    BY <1>11
  <2>2. r.off = IF n = 0 THEN Null ELSE p[n].at
    BY <1>9, <2>1 DEF PairedAfter
  <2>3. n # 0 /\ n \in 1 .. n
    BY <1>1, <2>2
  <2>4. ~On(p, n)
    <3> DEFINE m == Len(Opened(acc))
    <3>1. \A k \in 1 .. m : close[k] \in 1 .. n + 1 /\ close[k] <= n
      BY <1>13, <2>1 DEF Runs
    <3>2. On(p, n) => \E k \in 1 .. m : n < close[k]
      BY <1>13, <2>3 DEF Runs
    <3> HIDE DEF m
    <3> QED
      BY <1>1, <3>1, <3>2
  <2> QED
    BY <1>1, <2>2, <2>3, <2>4
<1>15. Opened(acc) \in Seq(Sess)
  BY <1>10, OpenedIs
<1> QED
  BY <1>12, <1>13, <1>14, <1>15 DEF r

-----------------------------------------------------------------------------
\* Sessions one after the other, of which only the last may still be open.
InTurn(S) ==
  /\ \A k \in 1 .. Len(S) : S[k].endAt # Null => S[k].startAt <= S[k].endAt
  /\ \A j, k \in 1 .. Len(S) : j < k => S[j].endAt # Null /\ S[j].endAt <= S[k].startAt

\* Whether the pause after the k-th session does not count.
Joined(S, k) == S[k].endAt # Null /\ S[k + 1].startAt - S[k].endAt <= MergeGap

\* A moment of the k-th of the first i sessions, or of the short pause after it.
Covers(S, k, i, t) ==
  /\ S[k].startAt <= t
  /\ S[k].endAt = Null \/ t < S[k].endAt \/ (k < i /\ Joined(S, k) /\ t < S[k + 1].startAt)

Shown(M, t) == \E j \in 1 .. Len(M) : Drawn(M[j], t)

LEMMA SessIs ==
  ASSUME NEW s \in Sess
  PROVE  /\ s.type = "session" /\ s.startAt \in Int /\ s.endAt \in Int \cup {Null} /\ s.lastSeen \in Int \cup {Null}
         /\ s.endAt # Null => s.endAt \in Int
         /\ \A t : Drawn(s, t) <=> s.startAt <= t /\ (s.endAt = Null \/ t < s.endAt)
  BY DEF Sess, Drawn

LEMMA CoversNext ==
  ASSUME NEW S \in Seq(Sess), NEW i \in 0 .. Len(S) - 1, NEW t \in Int
  PROVE  (\E k \in 1 .. i + 1 : Covers(S, k, i + 1, t)) <=>
           \/ \E k \in 1 .. i : Covers(S, k, i, t)
           \/ i > 0 /\ S[i].startAt <= t /\ Joined(S, i) /\ t < S[i + 1].startAt
           \/ Drawn(S[i + 1], t)
<1>1. i + 1 \in 1 .. Len(S) /\ i \in Nat
  OBVIOUS
<1>2. S[i + 1] \in Sess
  BY <1>1
<1>3. Covers(S, i + 1, i + 1, t) <=> Drawn(S[i + 1], t)
  <2>1. ~(i + 1 < i + 1)
    BY <1>1
  <2> QED
    BY <1>2, <2>1, SessIs DEF Covers
<1>4. \A k \in 1 .. i : k < i => (Covers(S, k, i + 1, t) <=> Covers(S, k, i, t))
  <2> SUFFICES ASSUME NEW k \in 1 .. i, k < i PROVE Covers(S, k, i + 1, t) <=> Covers(S, k, i, t)
    OBVIOUS
  <2>1. k < i + 1
    BY <1>1
  <2> QED
    BY <2>1 DEF Covers
<1>5. i > 0 => (Covers(S, i, i + 1, t) <=> \/ Covers(S, i, i, t)
                                           \/ S[i].startAt <= t /\ Joined(S, i) /\ t < S[i + 1].startAt)
  <2>1. i < i + 1 /\ ~(i < i)
    BY <1>1
  <2> QED
    BY <2>1 DEF Covers
<1>6. \A k : k \in 1 .. i + 1 <=> (k \in 1 .. i /\ k < i) \/ (i > 0 /\ k = i) \/ k = i + 1
  BY <1>1
<1>7. \A k : k \in 1 .. i <=> (k \in 1 .. i /\ k < i) \/ (i > 0 /\ k = i)
  BY <1>1
<1> HIDE DEF Covers
<1> QED
  BY <1>3, <1>4, <1>5, <1>6, <1>7

Merging == INSTANCE FoldTheorems WITH Op <- Merge

LEMMA MergeFold == \A s : Merged(s) = Merging!Folded(<<>>, s)
  BY Zenon DEF Merged, Merging!Folded, Merging!FoldLeft, FoldLeft,
     Merging!MapThenFoldSet, MapThenFoldSet, Merging!Max, Max

\* What one session does to those merged so far.
LEMMA MergeIs ==
  ASSUME NEW M \in Seq(Sess), NEW s \in Sess
  PROVE  LET n == Len(M)
             joins == n > 0 /\ M[n].endAt # Null /\ s.startAt - M[n].endAt <= MergeGap
         IN  /\ Merge(M, s) \in Seq(Sess)
             /\ joins => /\ Len(Merge(M, s)) = n
                         /\ \A j \in 1 .. n : j # n => Merge(M, s)[j] = M[j]
                         /\ Merge(M, s)[n].startAt = M[n].startAt /\ Merge(M, s)[n].endAt = s.endAt
             /\ ~joins => Merge(M, s) = Append(M, s)
<1> DEFINE n == Len(M)
           joins == n > 0 /\ M[n].endAt # Null /\ s.startAt - M[n].endAt <= MergeGap
<1>1. n \in Nat /\ DOMAIN M = 1 .. n /\ M \in [1 .. n -> Sess]
  OBVIOUS
<1>2. Last(M) = M[n] /\ (M # <<>> <=> n > 0)
  BY DEF Last
<1>3. CASE ~joins
  <2>1. Merge(M, s) = Append(M, s)
    BY <1>2, <1>3 DEF Merge
  <2> QED
    BY <1>3, <2>1
<1>4. CASE joins
  <2> DEFINE seen == IF s.lastSeen # Null THEN s.lastSeen ELSE M[n].lastSeen
             e == [M[n] EXCEPT !.endAt = s.endAt, !.lastSeen = IF s.lastSeen # Null THEN s.lastSeen ELSE @]
             q == Merge(M, s)
  <2>1. n \in 1 .. n /\ M[n] \in Sess
    BY <1>1, <1>4
  <2>2. s.endAt \in Int \cup {Null} /\ seen \in Int \cup {Null}
    BY <2>1, SessIs
  <2>3. e = [M[n] EXCEPT !.endAt = s.endAt, !.lastSeen = seen]
    BY <2>1 DEF Sess
  <2>4. q = [M EXCEPT ![n].endAt = s.endAt, ![n].lastSeen = IF s.lastSeen # Null THEN s.lastSeen ELSE @]
    BY <1>2, <1>4 DEF Merge
  <2>5. q = [M EXCEPT ![n] = e]
    <3> HIDE DEF q
    <3> QED
      BY <1>1, <2>1, <2>4
  <2> HIDE DEF e, q, n, seen
  <2>6. e \in Sess /\ e.startAt = M[n].startAt /\ e.endAt = s.endAt
    <3> DEFINE r == M[n]
               x == s.endAt
    <3>1. r \in Sess /\ x \in Int \cup {Null} /\ e = [r EXCEPT !.endAt = x, !.lastSeen = seen]
      BY <2>1, <2>2, <2>3
    <3> HIDE DEF r, x
    <3>2. e \in Sess /\ e.startAt = r.startAt /\ e.endAt = x
      BY <2>2, <3>1 DEF Sess
    <3> QED
      BY <3>2 DEF r, x
  <2>7. q \in [1 .. n -> Sess] /\ q[n] = e /\ \A j \in 1 .. n : j # n => q[j] = M[j]
    BY <1>1, <2>1, <2>5, <2>6
  <2>8. q \in Seq(Sess) /\ Len(q) = n
    BY <1>1, <2>7
  <2> QED
    BY <1>4, <2>6, <2>7, <2>8 DEF q, n
<1> QED
  BY <1>3, <1>4

-----------------------------------------------------------------------------
\* What the first i sessions come to when those that continue each other are one.
MergedAfter(S, i, M) ==
  /\ M \in Seq(Sess) /\ InTurn(M)
  /\ i = 0 => M = <<>>
  /\ i > 0 => Len(M) > 0 /\ M[Len(M)].endAt = S[i].endAt /\ M[Len(M)].startAt <= S[i].startAt
  /\ \A j, k \in 1 .. Len(M) : k = j + 1 => M[k].startAt - M[j].endAt > MergeGap
  /\ \A t \in Int : Shown(M, t) <=> \E k \in 1 .. i : Covers(S, k, i, t)
  /\ \A j \in 1 .. Len(M) : \E k \in 1 .. i : M[j].startAt = S[k].startAt

LEMMA MergeStep ==
  ASSUME NEW S \in Seq(Sess), InTurn(S), NEW i \in 0 .. Len(S) - 1, NEW M, MergedAfter(S, i, M)
  PROVE  MergedAfter(S, i + 1, Merge(M, S[i + 1]))
<1> DEFINE s == S[i + 1]
           n == Len(M)
           q == Merge(M, s)
           joins == n > 0 /\ M[n].endAt # Null /\ s.startAt - M[n].endAt <= MergeGap
<1>1. i \in Nat /\ i + 1 \in 1 .. Len(S) /\ i + 1 # 0 /\ (i # 0 => i \in 1 .. Len(S) /\ i < i + 1)
  OBVIOUS
<1>2. M \in Seq(Sess) /\ n \in Nat /\ \A j \in 1 .. n : M[j] \in Sess
  BY DEF MergedAfter
<1>3. s \in Sess
  BY <1>1
<1>4. /\ s.startAt \in Int /\ s.endAt \in Int \cup {Null}
      /\ \A t : Drawn(s, t) <=> s.startAt <= t /\ (s.endAt = Null \/ t < s.endAt)
      /\ s.endAt # Null => s.endAt \in Int /\ s.startAt <= s.endAt
  BY <1>1, <1>3, SessIs DEF InTurn
<1>5. \A j \in 1 .. n : /\ M[j].startAt \in Int /\ (M[j].endAt # Null => M[j].endAt \in Int /\ M[j].startAt <= M[j].endAt)
                        /\ \A t : Drawn(M[j], t) <=> M[j].startAt <= t /\ (M[j].endAt = Null \/ t < M[j].endAt)
  <2> SUFFICES ASSUME NEW j \in 1 .. n
               PROVE  /\ M[j].startAt \in Int /\ (M[j].endAt # Null => M[j].endAt \in Int /\ M[j].startAt <= M[j].endAt)
                      /\ \A t : Drawn(M[j], t) <=> M[j].startAt <= t /\ (M[j].endAt = Null \/ t < M[j].endAt)
    OBVIOUS
  <2>1. M[j] \in Sess /\ (M[j].endAt # Null => M[j].startAt <= M[j].endAt)
    BY <1>2 DEF MergedAfter, InTurn
  <2> QED
    BY <2>1, SessIs
<1>6. \A j, k \in 1 .. n : j < k => M[j].endAt # Null /\ M[j].endAt <= M[k].startAt
  BY DEF MergedAfter, InTurn
<1>7. \A j, k \in 1 .. n : k = j + 1 => M[k].startAt - M[j].endAt > MergeGap
  BY DEF MergedAfter
<1>8. i > 0 => /\ n > 0 /\ n \in 1 .. n /\ M[n].endAt = S[i].endAt /\ M[n].startAt <= S[i].startAt
               /\ S[i].endAt # Null /\ S[i].endAt \in Int /\ S[i].startAt \in Int
               /\ S[i].endAt <= s.startAt /\ S[i].startAt <= S[i].endAt
  <2> SUFFICES ASSUME i > 0
               PROVE  /\ n > 0 /\ n \in 1 .. n /\ M[n].endAt = S[i].endAt /\ M[n].startAt <= S[i].startAt
                      /\ S[i].endAt # Null /\ S[i].endAt \in Int /\ S[i].startAt \in Int
                      /\ S[i].endAt <= s.startAt /\ S[i].startAt <= S[i].endAt
    OBVIOUS
  <2>1. i \in 1 .. Len(S) /\ i < i + 1 /\ S[i] \in Sess
    BY <1>1
  <2>2. n > 0 /\ n \in 1 .. n /\ M[n].endAt = S[i].endAt /\ M[n].startAt <= S[i].startAt
    BY <1>2 DEF MergedAfter
  <2>3. S[i].endAt # Null /\ S[i].endAt <= s.startAt /\ S[i].startAt <= S[i].endAt
    BY <1>1, <2>1 DEF InTurn
  <2> QED
    BY <2>1, <2>2, <2>3, SessIs
<1>9. i = 0 => n = 0
  BY DEF MergedAfter
<1>10. i > 0 => (joins <=> Joined(S, i))
  BY <1>8 DEF Joined
<1>11. \A t \in Int : Shown(M, t) <=> \E k \in 1 .. i : Covers(S, k, i, t)
  BY DEF MergedAfter
<1>12. \A t \in Int : (\E k \in 1 .. i + 1 : Covers(S, k, i + 1, t)) <=>
           \/ \E k \in 1 .. i : Covers(S, k, i, t)
           \/ i > 0 /\ S[i].startAt <= t /\ Joined(S, i) /\ t < S[i + 1].startAt
           \/ Drawn(S[i + 1], t)
  BY CoversNext
<1>13. /\ q \in Seq(Sess)
       /\ joins => /\ Len(q) = n
                   /\ \A j \in 1 .. n : j # n => q[j] = M[j]
                   /\ q[n].startAt = M[n].startAt /\ q[n].endAt = s.endAt
       /\ ~joins => q = Append(M, s)
  BY <1>2, <1>3, MergeIs
<1>14. S[i + 1] = s
  OBVIOUS
<1>17. \A j \in 1 .. n : \E k \in 1 .. i + 1 : M[j].startAt = S[k].startAt
  <2>1. \A j \in 1 .. n : \E k \in 1 .. i : M[j].startAt = S[k].startAt
    BY DEF MergedAfter
  <2>2. \A k \in 1 .. i : k \in 1 .. i + 1
    BY <1>1
  <2> QED
    BY <2>1, <2>2
<1> HIDE DEF s, q, n, joins
<1>15. CASE joins
  <2>1. i > 0 /\ n \in 1 .. n /\ n > 0
    BY <1>1, <1>2, <1>8, <1>9, <1>15 DEF joins
  <2>2. Len(q) = n /\ (\A j \in 1 .. n : j # n => q[j] = M[j]) /\ q[n].startAt = M[n].startAt /\ q[n].endAt = s.endAt
    BY <1>13, <1>15
  <2>3. M[n].startAt <= s.startAt /\ M[n].startAt \in Int
    BY <1>4, <1>5, <1>8, <2>1
  <2>4. InTurn(q)
    <3>1. ASSUME NEW k \in 1 .. n, q[k].endAt # Null PROVE q[k].startAt <= q[k].endAt
      <4>1. CASE k = n
        BY <1>4, <2>2, <2>3, <3>1, <4>1
      <4>2. CASE k # n
        BY <1>5, <2>2, <3>1, <4>2
      <4> QED
        BY <4>1, <4>2
    <3>2. ASSUME NEW j \in 1 .. n, NEW k \in 1 .. n, j < k PROVE q[j].endAt # Null /\ q[j].endAt <= q[k].startAt
      <4>1. j # n
        BY <1>2, <3>2
      <4>2. q[j] = M[j] /\ q[k].startAt = M[k].startAt
        BY <2>2, <4>1
      <4> QED
        BY <1>6, <3>2, <4>2
    <3> QED
      BY <2>2, <3>1, <3>2 DEF InTurn
  <2>5. ASSUME NEW j \in 1 .. n, NEW k \in 1 .. n, k = j + 1 PROVE q[k].startAt - q[j].endAt > MergeGap
    <3>1. j # n
      BY <1>2, <2>5
    <3>2. q[j] = M[j] /\ q[k].startAt = M[k].startAt
      BY <2>2, <3>1
    <3> QED
      BY <1>7, <2>5, <3>2
  <2>6. ASSUME NEW t \in Int PROVE Shown(q, t) <=> \E k \in 1 .. i + 1 : Covers(S, k, i + 1, t)
    <3>1. q[n] \in Sess
      BY <1>13, <2>1, <2>2
    <3>2. Drawn(q[n], t) <=> M[n].startAt <= t /\ (s.endAt = Null \/ t < s.endAt)
      BY <2>2, <3>1, SessIs
    <3>3. Drawn(M[n], t) <=> M[n].startAt <= t /\ t < S[i].endAt
      BY <1>5, <1>8, <2>1
    <3>4. Drawn(s, t) <=> s.startAt <= t /\ (s.endAt = Null \/ t < s.endAt)
      BY <1>4
    <3>5. Drawn(q[n], t) <=> \/ Drawn(M[n], t)
                             \/ S[i].startAt <= t /\ t < s.startAt
                             \/ Drawn(s, t)
      BY <1>4, <1>8, <2>1, <2>3, <3>2, <3>3, <3>4
    <3>6. \A j \in 1 .. n : j # n => (Drawn(q[j], t) <=> Drawn(M[j], t))
      BY <2>2
    <3>7. Shown(q, t) <=> Shown(M, t) \/ (S[i].startAt <= t /\ t < s.startAt) \/ Drawn(s, t)
      BY <2>1, <2>2, <3>5, <3>6 DEF Shown, n
    <3> QED
      BY <1>10, <1>11, <1>12, <1>14, <1>15, <2>1, <3>7
  <2>7. q[n].endAt = S[i + 1].endAt /\ q[n].startAt <= S[i + 1].startAt
    BY <1>14, <2>2, <2>3
  <2>8. MergedAfter(S, i + 1, q)
    <3>1. Len(q) > 0 /\ q[Len(q)].endAt = S[i + 1].endAt /\ q[Len(q)].startAt <= S[i + 1].startAt
      BY <2>1, <2>2, <2>7
    <3>2. \A j, k \in 1 .. Len(q) : k = j + 1 => q[k].startAt - q[j].endAt > MergeGap
      BY <2>2, <2>5
    <3>3. \A j \in 1 .. Len(q) : \E k \in 1 .. i + 1 : q[j].startAt = S[k].startAt
      <4>1. \A j \in 1 .. n : \E k \in 1 .. i + 1 : M[j].startAt = S[k].startAt
        BY <1>17
      <4> QED
        BY <2>2, <4>1
    <3> QED
      BY <1>1, <1>13, <2>4, <2>6, <3>1, <3>2, <3>3 DEF MergedAfter
  <2> QED
    BY <2>8 DEF q, s
<1>16. CASE ~joins
  <2>1. q = Append(M, s)
    BY <1>13, <1>16
  <2>2. Len(q) = n + 1 /\ q[n + 1] = s /\ \A j \in 1 .. n : q[j] = M[j]
    BY <1>2, <1>3, <2>1, Appended DEF n
  <2>3. \A j : j \in 1 .. n + 1 <=> j \in 1 .. n \/ j = n + 1
    BY <1>2
  <2>4. n > 0 => i > 0
    BY <1>1, <1>9
  <2>5. \A j \in 1 .. n : M[j].endAt # Null /\ M[j].endAt <= s.startAt
    <3> SUFFICES ASSUME NEW j \in 1 .. n PROVE M[j].endAt # Null /\ M[j].endAt <= s.startAt
      OBVIOUS
    <3>1. n > 0 /\ i > 0 /\ n \in 1 .. n
      BY <1>2, <2>4
    <3>2. CASE j = n
      BY <1>8, <3>1, <3>2
    <3>3. CASE j # n
      <4>1. j < n
        BY <1>2, <3>3
      <4>2. M[j].endAt # Null /\ M[j].endAt <= M[n].startAt
        BY <1>6, <3>1, <4>1
      <4>3. M[j].endAt \in Int /\ M[n].startAt \in Int
        BY <1>5, <3>1, <4>2
      <4> QED
        BY <1>4, <1>8, <3>1, <4>2, <4>3
    <3> QED
      BY <3>2, <3>3
  <2>6. InTurn(q)
    <3>1. ASSUME NEW k \in 1 .. n + 1, q[k].endAt # Null PROVE q[k].startAt <= q[k].endAt
      <4>1. CASE k = n + 1
        BY <1>4, <2>2, <3>1, <4>1
      <4>2. CASE k \in 1 .. n
        BY <1>5, <2>2, <3>1, <4>2
      <4> QED
        BY <2>3, <4>1, <4>2
    <3>2. ASSUME NEW j \in 1 .. n + 1, NEW k \in 1 .. n + 1, j < k PROVE q[j].endAt # Null /\ q[j].endAt <= q[k].startAt
      <4>1. j \in 1 .. n
        BY <1>2, <3>2
      <4>2. CASE k = n + 1
        BY <2>2, <2>5, <4>1, <4>2
      <4>3. CASE k \in 1 .. n
        BY <1>6, <2>2, <3>2, <4>1, <4>3
      <4> QED
        BY <2>3, <4>2, <4>3
    <3> QED
      BY <2>2, <3>1, <3>2 DEF InTurn
  <2>7. ASSUME NEW j \in 1 .. n + 1, NEW k \in 1 .. n + 1, k = j + 1 PROVE q[k].startAt - q[j].endAt > MergeGap
    <3>1. j \in 1 .. n
      BY <1>2, <2>7
    <3>2. CASE k \in 1 .. n
      BY <1>7, <2>2, <2>7, <3>1, <3>2
    <3>3. CASE k = n + 1
      <4>1. j = n /\ n > 0 /\ i > 0
        BY <1>2, <2>4, <2>7, <3>1, <3>3
      <4>2. ~(s.startAt - M[n].endAt <= MergeGap)
        BY <1>8, <1>16, <4>1 DEF joins
      <4>3. s.startAt \in Int /\ M[n].endAt \in Int /\ MergeGap \in Int
        BY <1>4, <1>8, <4>1, GapsAssumption
      <4> QED
        BY <2>2, <3>1, <3>3, <4>1, <4>2, <4>3
    <3> QED
      BY <2>3, <3>2, <3>3
  <2>8. ASSUME NEW t \in Int PROVE Shown(q, t) <=> \E k \in 1 .. i + 1 : Covers(S, k, i + 1, t)
    <3>1. Shown(q, t) <=> Shown(M, t) \/ Drawn(s, t)
      BY <2>2, <2>3 DEF Shown, n
    <3>2. i > 0 => ~Joined(S, i)
      BY <1>10, <1>16
    <3> QED
      BY <1>11, <1>12, <1>14, <3>1, <3>2
  <2>9. MergedAfter(S, i + 1, q)
    <3>1. Len(q) > 0 /\ q[Len(q)].endAt = S[i + 1].endAt /\ q[Len(q)].startAt <= S[i + 1].startAt
      BY <1>2, <1>4, <1>14, <2>2
    <3>2. \A j, k \in 1 .. Len(q) : k = j + 1 => q[k].startAt - q[j].endAt > MergeGap
      BY <2>2, <2>7
    <3>3. \A j \in 1 .. Len(q) : \E k \in 1 .. i + 1 : q[j].startAt = S[k].startAt
      <4>1. \A j \in 1 .. n : \E k \in 1 .. i + 1 : M[j].startAt = S[k].startAt
        BY <1>17
      <4>2. i + 1 \in 1 .. i + 1
        BY <1>1
      <4> QED
        BY <1>14, <2>2, <2>3, <4>1, <4>2
    <3> QED
      BY <1>1, <1>13, <2>6, <2>8, <3>1, <3>2, <3>3 DEF MergedAfter
  <2> QED
    BY <2>9 DEF q, s
<1> QED
  BY <1>15, <1>16

\* Merging draws the sessions and the short pauses, and leaves only long ones.
LEMMA MergedIs ==
  ASSUME NEW S \in Seq(Sess), InTurn(S)
  PROVE  MergedAfter(S, Len(S), Merged(S))
<1> DEFINE n == Len(S)
           F(s) == Merging!Folded(<<>>, s)
           M == F(S)
           T == Seq(Sess)
<1>1. n \in Nat /\ <<>> \in T
  OBVIOUS
<1>2. \A a \in T, e \in Sess : Merge(a, e) \in T
  BY MergeIs
<1> HIDE DEF T
<1>3. PICK f \in [0 .. n -> T] : Merging!Along(f, <<>>, S) /\ M = f[n]
  BY <1>1, <1>2, Merging!FoldLeftSteps
<1>4. M = Merged(S)
  BY MergeFold
<1> HIDE DEF M
<1>5. f[0] = <<>> /\ \A i \in 1 .. n : f[i] = Merge(f[i - 1], S[i])
  BY <1>3 DEF Merging!Along
<1> DEFINE A == {i \in 0 .. n : MergedAfter(S, i, f[i])}
<1>6. 0 \in A
  <2>1. Len(<<>>) = 0 /\ 1 .. 0 = {} /\ <<>> \in Seq(Sess) /\ ~(0 > 0)
    OBVIOUS
  <2>2. MergedAfter(S, 0, <<>>)
    BY <2>1 DEF MergedAfter, InTurn, Shown
  <2> QED
    BY <1>1, <1>5, <2>2
<1>7. ASSUME NEW i \in 0 .. n - 1, i \in A PROVE i + 1 \in A
  <2>1. i + 1 \in 1 .. n /\ i + 1 \in 0 .. n /\ (i + 1) - 1 = i
    BY <1>1
  <2>2. f[i + 1] = Merge(f[i], S[i + 1])
    BY <1>5, <2>1
  <2>3. MergedAfter(S, i + 1, Merge(f[i], S[i + 1]))
    BY <1>7, MergeStep
  <2> QED
    BY <2>1, <2>2, <2>3
<1> HIDE DEF A
<1>8. \A i \in 0 .. n : i \in A
  BY <1>1, <1>6, <1>7, Merging!UpTo
<1> QED
  BY <1>1, <1>3, <1>4, <1>8 DEF A

-----------------------------------------------------------------------------
\* Sessions that are the runs of the rows.
RunsOf(p, S, open, close) ==
  /\ p \in Seq(Logged) /\ InOrder(p) /\ S \in Seq(Sess)
  /\ \A i \in DOMAIN p : p[i].state \in {"available", "unavailable"}
  /\ Runs(p, Len(p), Len(S), open, close) /\ Times(p, Len(p), S, open, close)

LEMMA RunFacts ==
  ASSUME NEW p, NEW S, NEW open, NEW close, RunsOf(p, S, open, close),
         NEW n, n = Len(p), NEW m, m = Len(S)
  PROVE  /\ n \in Nat /\ m \in Nat /\ DOMAIN p = 1 .. n
         /\ \A i \in 1 .. n : p[i].at \in Int /\ (p[i].state = "unavailable" <=> ~On(p, i))
         /\ \A i, j \in 1 .. n : i <= j => p[i].at <= p[j].at
         /\ \A k \in 1 .. m : /\ open[k] \in 1 .. n /\ close[k] \in 1 .. n + 1 /\ open[k] < close[k]
                              /\ S[k].startAt = p[open[k]].at
                              /\ close[k] <= n => S[k].endAt = p[close[k]].at /\ S[k].endAt # Null
                              /\ ~(close[k] <= n) => S[k].endAt = Null
         /\ \A k, l \in 1 .. m : k < l => close[k] < open[l]
         /\ \A i \in 1 .. n : On(p, i) <=> \E k \in 1 .. m : open[k] <= i /\ i < close[k]
<1>1. n \in Nat /\ m \in Nat /\ DOMAIN p = 1 .. n
  BY DEF RunsOf
<1>2. ASSUME NEW i \in 1 .. n PROVE p[i].at \in Int /\ (p[i].state = "unavailable" <=> ~On(p, i))
  <2>1. p[i] \in Logged /\ p[i].state \in {"available", "unavailable"}
    BY <1>1 DEF RunsOf
  <2>2. p[i].at \in Int
    BY <2>1, LoggedAt
  <2> QED
    BY <2>1, <2>2 DEF On
<1>3. \A i, j \in 1 .. n : i <= j => p[i].at <= p[j].at
  BY <1>1 DEF RunsOf, InOrder
<1>4. /\ \A k \in 1 .. m : open[k] \in 1 .. n /\ close[k] \in 1 .. n + 1 /\ open[k] < close[k]
      /\ \A k, l \in 1 .. m : k < l => close[k] < open[l]
      /\ \A i \in 1 .. n : On(p, i) <=> \E k \in 1 .. m : open[k] <= i /\ i < close[k]
  BY DEF RunsOf, Runs
<1>5. ASSUME NEW k \in 1 .. m
      PROVE  /\ S[k].startAt = p[open[k]].at
             /\ close[k] <= n => S[k].endAt = p[close[k]].at /\ S[k].endAt # Null
             /\ ~(close[k] <= n) => S[k].endAt = Null
  <2>1. S[k].startAt = p[open[k]].at /\ S[k].endAt = IF close[k] <= n THEN p[close[k]].at ELSE Null
    BY DEF RunsOf, Times
  <2>2. close[k] <= n => close[k] \in 1 .. n
    BY <1>1, <1>4
  <2>3. close[k] <= n => p[close[k]].at # Null
    BY <1>2, <2>2, NullAssumption
  <2> QED
    BY <2>1, <2>3
<1> QED
  BY <1>1, <1>2, <1>3, <1>4, <1>5

LEMMA RunsRow ==
  ASSUME NEW p, NEW S, NEW open, NEW close, RunsOf(p, S, open, close) PROVE InTurn(S)
<1> DEFINE n == Len(p)
           m == Len(S)
<1>1. /\ n \in Nat /\ m \in Nat
      /\ \A i, j \in 1 .. n : i <= j => p[i].at <= p[j].at
      /\ \A k \in 1 .. m : /\ open[k] \in 1 .. n /\ close[k] \in 1 .. n + 1 /\ open[k] < close[k]
                           /\ S[k].startAt = p[open[k]].at
                           /\ close[k] <= n => S[k].endAt = p[close[k]].at /\ S[k].endAt # Null
                           /\ ~(close[k] <= n) => S[k].endAt = Null
      /\ \A k, l \in 1 .. m : k < l => close[k] < open[l]
  BY ONLY RunsOf(p, S, open, close), RunFacts
<1>2. ASSUME NEW k \in 1 .. m, S[k].endAt # Null PROVE S[k].startAt <= S[k].endAt
  <2>1. close[k] <= n /\ open[k] \in 1 .. n /\ close[k] \in 1 .. n + 1 /\ open[k] < close[k]
    BY <1>1, <1>2
  <2>2. close[k] \in 1 .. n /\ open[k] <= close[k]
    BY <1>1, <2>1
  <2>3. p[open[k]].at <= p[close[k]].at
    BY <1>1, <2>1, <2>2
  <2> QED
    BY <1>1, <2>1, <2>3
<1>3. ASSUME NEW j \in 1 .. m, NEW k \in 1 .. m, j < k PROVE S[j].endAt # Null /\ S[j].endAt <= S[k].startAt
  <2>1. close[j] < open[k] /\ open[k] \in 1 .. n /\ close[j] \in 1 .. n + 1
    BY <1>1, <1>3
  <2>2. close[j] \in 1 .. n /\ close[j] <= open[k] /\ close[j] <= n
    BY <1>1, <2>1
  <2>3. p[close[j]].at <= p[open[k]].at
    BY <1>1, <2>1, <2>2
  <2> QED
    BY <1>1, <2>2, <2>3
<1> QED
  BY <1>2, <1>3 DEF InTurn

\* In a run, the next unavailable row is the one that closes it.
LEMMA NextOff ==
  ASSUME NEW p, NEW S, NEW open, NEW close, RunsOf(p, S, open, close),
         NEW k \in 1 .. Len(S), NEW a \in 1 .. Len(p), open[k] <= a, a < close[k],
         NEW off, off = {j \in DOMAIN p : j > a /\ p[j].state = "unavailable"}
  PROVE  /\ ~(close[k] <= Len(p)) => off = {}
         /\ close[k] <= Len(p) => off # {} /\ Min(off) = close[k] /\ ~On(p, close[k])
<1> DEFINE n == Len(p)
           m == Len(S)
<1>1. /\ n \in Nat /\ m \in Nat /\ DOMAIN p = 1 .. n
      /\ \A i \in 1 .. n : p[i].at \in Int /\ (p[i].state = "unavailable" <=> ~On(p, i))
      /\ \A l \in 1 .. m : open[l] \in 1 .. n /\ close[l] \in 1 .. n + 1 /\ open[l] < close[l]
      /\ \A l, j \in 1 .. m : l < j => close[l] < open[j]
      /\ \A i \in 1 .. n : On(p, i) <=> \E l \in 1 .. m : open[l] <= i /\ i < close[l]
  BY ONLY RunsOf(p, S, open, close), RunFacts
<1> HIDE DEF n, m
<1>2. k \in 1 .. m /\ a \in 1 .. n
  BY DEF n, m
<1>3. ASSUME NEW j \in off PROVE j \in 1 .. n /\ close[k] <= j
  <2>1. j \in 1 .. n /\ j > a /\ ~On(p, j)
    BY <1>1
  <2>2. ~(open[k] <= j /\ j < close[k])
    BY <1>1, <1>2, <2>1
  <2>3. open[k] \in Int /\ close[k] \in Int /\ a \in Int /\ j \in Int
    BY <1>1, <1>2, <2>1
  <2> QED
    BY <2>1, <2>2, <2>3
<1>4. CASE ~(close[k] <= n)
  <2>1. off = {}
    <3> SUFFICES ASSUME NEW j \in off PROVE FALSE
      OBVIOUS
    <3>1. j \in 1 .. n /\ close[k] <= j /\ close[k] \in Int
      BY <1>1, <1>2, <1>3
    <3> QED
      BY <1>1, <1>4, <3>1
  <2> QED
    BY <1>4, <2>1 DEF n
<1>5. CASE close[k] <= n
  <2>1. close[k] \in 1 .. n
    BY <1>1, <1>2, <1>5
  <2>2. ~On(p, close[k])
    <3> SUFFICES ASSUME NEW l \in 1 .. m, open[l] <= close[k], close[k] < close[l] PROVE FALSE
      BY <1>1, <2>1
    <3>1. l # k /\ open[l] \in Int /\ close[l] \in Int /\ open[k] \in Int /\ close[k] \in Int /\ open[k] < close[k]
      BY <1>1, <1>2
    <3>2. CASE l < k
      <4>1. close[l] < open[k]
        BY <1>1, <1>2, <3>2
      <4> QED
        BY <3>1, <4>1
    <3>3. CASE k < l
      <4>1. close[k] < open[l]
        BY <1>1, <1>2, <3>3
      <4> QED
        BY <3>1, <4>1
    <3> QED
      BY <1>1, <1>2, <3>1, <3>2, <3>3
  <2>3. close[k] \in off
    BY <1>1, <2>1, <2>2
  <2>4. off \in SUBSET Int /\ \A y \in off : close[k] <= y
    BY <1>1, <1>3
  <2>5. Min(off) = close[k]
    BY <2>3, <2>4, MinUnique
  <2> QED
    BY <1>5, <2>2, <2>3, <2>5 DEF n
<1> QED
  BY <1>4, <1>5

\* After a run, the next available row opens the next one.
LEMMA NextOn ==
  ASSUME NEW p, NEW S, NEW open, NEW close, RunsOf(p, S, open, close),
         NEW k \in 1 .. Len(S), close[k] <= Len(p),
         NEW back, back = {j \in DOMAIN p : j > close[k] /\ p[j].state = "available"}
  PROVE  /\ k = Len(S) => back = {}
         /\ k < Len(S) => back # {} /\ Min(back) = open[k + 1]
<1> DEFINE n == Len(p)
           m == Len(S)
<1>1. /\ n \in Nat /\ m \in Nat /\ DOMAIN p = 1 .. n
      /\ \A l \in 1 .. m : open[l] \in 1 .. n /\ close[l] \in 1 .. n + 1 /\ open[l] < close[l]
      /\ \A l, j \in 1 .. m : l < j => close[l] < open[j]
      /\ \A i \in 1 .. n : On(p, i) <=> \E l \in 1 .. m : open[l] <= i /\ i < close[l]
  BY ONLY RunsOf(p, S, open, close), RunFacts
<1> HIDE DEF n, m
<1>2. k \in 1 .. m
  BY DEF m
<1>3. ASSUME NEW j \in back PROVE j \in 1 .. n /\ \E l \in 1 .. m : k < l /\ open[l] <= j
  <2>1. j \in 1 .. n /\ j > close[k] /\ On(p, j)
    BY <1>1 DEF On
  <2>2. PICK l \in 1 .. m : open[l] <= j /\ j < close[l]
    BY <1>1, <2>1
  <2>3. close[k] \in Int /\ close[l] \in Int /\ open[l] \in Int /\ open[k] \in Int /\ j \in Int /\ open[k] < close[k]
    BY <1>1, <1>2, <2>1
  <2>4. ~(l < k) /\ l # k
    <3>1. l < k => close[l] < open[k]
      BY <1>1, <1>2
    <3> QED
      BY <2>1, <2>2, <2>3, <3>1
  <2> QED
    BY <1>1, <1>2, <2>1, <2>2, <2>4
<1>4. CASE k = m
  <2>1. back = {}
    BY <1>1, <1>3, <1>4
  <2> QED
    BY <1>1, <1>4, <2>1 DEF m
<1>5. CASE k < m
  <2>1. k + 1 \in 1 .. m /\ k < k + 1
    BY <1>1, <1>2, <1>5
  <2>2. open[k + 1] \in 1 .. n /\ close[k] < open[k + 1] /\ open[k + 1] < close[k + 1]
    BY <1>1, <1>2, <2>1
  <2>3. open[k + 1] \in back
    <3>1. On(p, open[k + 1])
      <4>1. open[k + 1] <= open[k + 1]
        BY <2>2
      <4> QED
        BY <1>1, <2>1, <2>2, <4>1
    <3>2. open[k + 1] > close[k]
      BY <1>1, <1>2, <2>2
    <3> QED
      BY <1>1, <2>2, <3>1, <3>2 DEF On
  <2>4. ASSUME NEW j \in back PROVE open[k + 1] <= j
    <3>1. PICK l \in 1 .. m : k < l /\ open[l] <= j
      BY <1>3
    <3>2. j \in Int /\ open[l] \in Int /\ open[k + 1] \in Int /\ close[k + 1] \in Int /\ open[k + 1] < close[k + 1]
      BY <1>1, <1>3, <2>1
    <3>3. l = k + 1 \/ k + 1 < l
      BY <1>1, <1>2, <3>1
    <3>4. k + 1 < l => close[k + 1] < open[l]
      BY <1>1, <2>1
    <3> QED
      BY <3>1, <3>2, <3>3, <3>4
  <2>5. back \in SUBSET Int
    BY <1>1
  <2>6. Min(back) = open[k + 1]
    BY <2>3, <2>4, <2>5, MinUnique
  <2> QED
    BY <1>5, <2>3, <2>6 DEF m
<1> QED
  BY <1>1, <1>2, <1>4, <1>5 DEF m

-----------------------------------------------------------------------------
\* A moment belongs to a session when it is of a run or of the short pause after it.
LEMMA InSessionIs ==
  ASSUME NEW p, NEW S, NEW open, NEW close, RunsOf(p, S, open, close), NEW t \in Int
  PROVE  InSession(p, t) <=> \E k \in 1 .. Len(S) : Covers(S, k, Len(S), t)
<1> DEFINE n == Len(p)
           m == Len(S)
           on == {i \in DOMAIN p : p[i].state = "available" /\ p[i].at <= t}
           a == Max(on)
           off == {j \in DOMAIN p : j > a /\ p[j].state = "unavailable"}
           back == {k \in DOMAIN p : k > Min(off) /\ p[k].state = "available"}
           inside == \/ off = {} \/ p[Min(off)].at > t
                     \/ back # {} /\ p[Min(back)].at - p[Min(off)].at <= MergeGap
<1>1. /\ n \in Nat /\ m \in Nat /\ DOMAIN p = 1 .. n
      /\ \A i \in 1 .. n : p[i].at \in Int
      /\ \A i, j \in 1 .. n : i <= j => p[i].at <= p[j].at
      /\ \A k \in 1 .. m : /\ open[k] \in 1 .. n /\ close[k] \in 1 .. n + 1 /\ open[k] < close[k]
                           /\ S[k].startAt = p[open[k]].at
                           /\ close[k] <= n => S[k].endAt = p[close[k]].at /\ S[k].endAt # Null
                           /\ ~(close[k] <= n) => S[k].endAt = Null
      /\ \A k, l \in 1 .. m : k < l => close[k] < open[l]
      /\ \A i \in 1 .. n : On(p, i) <=> \E k \in 1 .. m : open[k] <= i /\ i < close[k]
  BY ONLY RunsOf(p, S, open, close), RunFacts
<1>2. InSession(p, t) <=> on # {} /\ inside
  BY Zenon DEF InSession
<1>3. \A i : i \in on <=> i \in 1 .. n /\ On(p, i) /\ p[i].at <= t
  BY <1>1 DEF On
<1>4. on # {} => a \in on /\ \A i \in on : i <= a
  <2>1. on \in SUBSET Int /\ n \in Int /\ \A i \in on : i <= n
    BY <1>1, <1>3
  <2> HIDE DEF on, n
  <2> QED
    BY <2>1, MaxIs
<1> HIDE DEF on, a, n, m
<1>5. ASSUME NEW k \in 1 .. m, NEW i \in 1 .. n, open[k] <= i, i < close[k]
      PROVE  \A l \in 1 .. m : open[l] <= i /\ i < close[l] => l = k
  <2> SUFFICES ASSUME NEW l \in 1 .. m, open[l] <= i, i < close[l], l # k PROVE FALSE
    OBVIOUS
  <2>1. open[l] \in Int /\ close[l] \in Int /\ open[k] \in Int /\ close[k] \in Int /\ i \in Int
    BY <1>1
  <2>2. l < k => close[l] < open[k]
    BY <1>1
  <2>3. k < l => close[k] < open[l]
    BY <1>1
  <2>4. l < k \/ k < l
    BY <1>1
  <2> QED
    BY <1>5, <2>1, <2>2, <2>3, <2>4
\* In the run of the latest available row, what InSession chooses comes to this.
<1>6. ASSUME NEW k \in 1 .. m, a \in 1 .. n, open[k] <= a, a < close[k], on # {}
      PROVE  inside <=> \/ S[k].endAt = Null \/ t < S[k].endAt
                        \/ k < m /\ Joined(S, k)
  <2>1. /\ ~(close[k] <= n) => off = {}
        /\ close[k] <= n => off # {} /\ Min(off) = close[k]
    <3>1. /\ k \in 1 .. Len(S) /\ a \in 1 .. Len(p) /\ open[k] <= a /\ a < close[k]
          /\ off = {j \in DOMAIN p : j > a /\ p[j].state = "unavailable"}
      BY <1>6 DEF n, m
    <3> HIDE DEF off
    <3>2. /\ ~(close[k] <= Len(p)) => off = {}
          /\ close[k] <= Len(p) => off # {} /\ Min(off) = close[k]
      BY ONLY RunsOf(p, S, open, close), <3>1, NextOff
    <3> QED
      BY <3>2 DEF n
  <2>2. CASE ~(close[k] <= n)
    BY <1>1, <2>1, <2>2
  <2>3. CASE close[k] <= n
    <3>1. S[k].endAt = p[close[k]].at /\ S[k].endAt # Null /\ S[k].endAt \in Int /\ close[k] \in 1 .. n
      BY <1>1, <2>3
    <3>2. off # {} /\ Min(off) = close[k]
      BY <2>1, <2>3
    <3>3. back = {j \in DOMAIN p : j > close[k] /\ p[j].state = "available"}
      BY <3>2
    <3> HIDE DEF off, back
    <3>4. /\ k = m => back = {}
          /\ k < m => back # {} /\ Min(back) = open[k + 1]
      BY <1>6, <2>3, <3>3, NextOn DEF n, m
    <3>5. CASE k = m
      BY <1>1, <3>1, <3>2, <3>4, <3>5
    <3>6. CASE k # m
      <4>1. k < m /\ k + 1 \in 1 .. m
        BY <1>1, <3>6
      <4>2. S[k + 1].startAt = p[open[k + 1]].at
        BY <1>1, <4>1
      <4>3. Joined(S, k) <=> p[Min(back)].at - p[Min(off)].at <= MergeGap
        BY <3>1, <3>2, <3>4, <4>1, <4>2 DEF Joined
      <4> QED
        BY <3>1, <3>2, <3>4, <4>1, <4>3
    <3> QED
      BY <3>5, <3>6
  <2> QED
    BY <2>2, <2>3
<1> HIDE DEF inside
<1>7. ASSUME on # {}, inside PROVE \E k \in 1 .. m : Covers(S, k, m, t)
  <2>1. a \in 1 .. n /\ On(p, a) /\ p[a].at <= t
    BY <1>3, <1>4, <1>7
  <2>2. PICK k \in 1 .. m : open[k] <= a /\ a < close[k]
    BY <1>1, <2>1
  <2>3. S[k].startAt <= t
    <3>1. open[k] \in 1 .. n /\ S[k].startAt = p[open[k]].at
      BY <1>1
    <3>2. p[open[k]].at <= p[a].at /\ p[open[k]].at \in Int /\ p[a].at \in Int
      BY <1>1, <2>1, <2>2, <3>1
    <3> QED
      BY <2>1, <3>1, <3>2
  <2>4. k < m => t < S[k + 1].startAt
    <3> SUFFICES ASSUME k < m PROVE t < S[k + 1].startAt
      OBVIOUS
    <3>1. k + 1 \in 1 .. m /\ k < k + 1
      BY <1>1
    <3>2. /\ open[k + 1] \in 1 .. n /\ S[k + 1].startAt = p[open[k + 1]].at /\ p[open[k + 1]].at \in Int
          /\ close[k] < open[k + 1] /\ open[k + 1] < close[k + 1] /\ close[k] \in Int
      BY <1>1, <3>1
    <3>3. On(p, open[k + 1])
      <4>1. open[k + 1] <= open[k + 1]
        BY <3>2
      <4> QED
        BY <1>1, <3>1, <3>2, <4>1
    <3>4. ~(open[k + 1] <= a)
      BY <1>1, <2>1, <2>2, <3>2
    <3>5. open[k + 1] \notin on
      BY <1>4, <1>7, <3>4
    <3>6. ~(p[open[k + 1]].at <= t)
      BY <1>3, <3>2, <3>3, <3>5
    <3> QED
      BY <3>2, <3>6
  <2>5. inside <=> S[k].endAt = Null \/ t < S[k].endAt \/ (k < m /\ Joined(S, k))
    BY <1>6, <1>7, <2>1, <2>2
  <2> QED
    BY <1>7, <2>3, <2>4, <2>5 DEF Covers
<1>8. ASSUME NEW k \in 1 .. m, Covers(S, k, m, t) PROVE on # {} /\ inside
  <2>1. /\ open[k] \in 1 .. n /\ close[k] \in 1 .. n + 1 /\ open[k] < close[k]
        /\ S[k].startAt = p[open[k]].at /\ p[open[k]].at \in Int
    BY <1>1
  <2>2. On(p, open[k])
    <3>1. open[k] <= open[k]
      BY <2>1
    <3> QED
      BY <1>1, <2>1, <3>1
  <2>3. open[k] \in on
    BY <1>3, <1>8, <2>1, <2>2 DEF Covers
  <2>4. a \in 1 .. n /\ On(p, a) /\ p[a].at <= t /\ open[k] <= a /\ p[a].at \in Int
    BY <1>1, <1>3, <1>4, <2>3
  <2>5. PICK l \in 1 .. m : open[l] <= a /\ a < close[l]
    BY <1>1, <2>4
  <2>6. k < m /\ t < S[k + 1].startAt => a < close[k]
    <3> SUFFICES ASSUME k < m, t < S[k + 1].startAt PROVE a < close[k]
      OBVIOUS
    <3>1. k + 1 \in 1 .. m
      BY <1>1
    <3>2. open[k + 1] \in 1 .. n /\ S[k + 1].startAt = p[open[k + 1]].at /\ p[open[k + 1]].at \in Int
          /\ close[k + 1] \in Int /\ open[k + 1] < close[k + 1]
      BY <1>1, <3>1
    <3>3. ~(open[k + 1] <= a)
      <4> SUFFICES ASSUME open[k + 1] <= a PROVE FALSE
        OBVIOUS
      <4>1. p[open[k + 1]].at <= p[a].at
        BY <1>1, <2>4, <3>2
      <4> QED
        BY <2>4, <3>2, <4>1
    <3>4. open[l] \in Int /\ close[l] \in Int /\ open[l] < close[l] /\ a \in Int
      BY <1>1, <2>4
    <3>5. l = k
      <4>1. ~(k + 1 < l)
        <5>1. k + 1 < l => close[k + 1] < open[l]
          BY <1>1, <3>1
        <5> QED
          BY <2>5, <3>2, <3>3, <3>4, <5>1
      <4>2. l # k + 1
        BY <2>5, <3>3
      <4>3. ~(l < k)
        <5>1. l < k => close[l] < open[k]
          BY <1>1
        <5> QED
          BY <2>1, <2>4, <2>5, <3>4, <5>1
      <4> QED
        BY <1>1, <4>1, <4>2, <4>3
    <3> QED
      BY <2>5, <3>5
  <2>7. a < close[k]
    <3>1. CASE S[k].endAt = Null
      <4>1. ~(close[k] <= n)
        BY <1>1, <3>1
      <4> QED
        BY <1>1, <2>1, <2>4, <4>1
    <3>2. CASE S[k].endAt # Null /\ t < S[k].endAt
      <4>1. close[k] <= n /\ close[k] \in 1 .. n /\ S[k].endAt = p[close[k]].at /\ p[close[k]].at \in Int
        BY <1>1, <2>1, <3>2
      <4>2. ~(close[k] <= a)
        <5> SUFFICES ASSUME close[k] <= a PROVE FALSE
          OBVIOUS
        <5>1. p[close[k]].at <= p[a].at
          BY <1>1, <2>4, <4>1
        <5> QED
          BY <2>4, <3>2, <4>1, <5>1
      <4> QED
        BY <1>1, <2>4, <4>1, <4>2
    <3> QED
      BY <1>8, <2>6, <3>1, <3>2 DEF Covers
  <2>8. on # {}
    BY <2>3
  <2>9. inside <=> S[k].endAt = Null \/ t < S[k].endAt \/ (k < m /\ Joined(S, k))
    BY <1>6, <2>4, <2>7, <2>8
  <2> QED
    BY <1>8, <2>8, <2>9 DEF Covers
<1> QED
  BY <1>2, <1>7, <1>8 DEF m

-----------------------------------------------------------------------------
\* The blocks of a timeline of the rows p: sessions, gaps in which nothing of M is
\* drawn and which are after some row, events.
Clear(M, p) == {b \in [type : {"offline-gap"}, fromAt : Int, toAt : Int] :
                  \A t \in Int : Drawn(b, t) => ~Shown(M, t) /\ Begun(p, t)}
Events    == [type : {"event"}, ev : Logged]
Drawns(t) == {b \in Sess : Drawn(b, t)}
Sorted(b) == \A i, j \in 1 .. Len(b) : i < j => BlockAt(b[i]) <= BlockAt(b[j])

LEMMA BlockIs ==
  /\ \A s \in Sess : s.type = "session" /\ BlockAt(s) = s.startAt /\ BlockAt(s) \in Int
  /\ \A M, p : \A g \in Clear(M, p) : /\ g.type = "offline-gap" /\ BlockAt(g) = g.fromAt /\ BlockAt(g) \in Int
                                   /\ g \notin Sess /\ g \notin Events
  /\ \A e \in Events : /\ e.type = "event" /\ e.ev \in Logged /\ BlockAt(e) = e.ev.at /\ BlockAt(e) \in Int
                       /\ e \notin Sess
  /\ \A s \in Sess : s \notin Events
<1>1. ASSUME NEW s \in Sess PROVE s.type = "session" /\ BlockAt(s) = s.startAt /\ BlockAt(s) \in Int
  BY DEF Sess, BlockAt
<1>2. ASSUME NEW M, NEW p, NEW g \in Clear(M, p)
      PROVE  g.type = "offline-gap" /\ BlockAt(g) = g.fromAt /\ BlockAt(g) \in Int
  BY DEF Clear, BlockAt
<1>3. ASSUME NEW e \in Events
      PROVE  e.type = "event" /\ e.ev \in Logged /\ BlockAt(e) = e.ev.at /\ BlockAt(e) \in Int
  <2>1. e.type = "event" /\ e.ev \in Logged
    BY DEF Events
  <2>2. e.ev.at \in Int
    BY <2>1, LoggedAt
  <2> QED
    BY <2>1, <2>2 DEF BlockAt
<1> QED
  BY <1>1, <1>2, <1>3

LEMMA SortedAppend ==
  ASSUME NEW X, NEW b \in Seq(X), NEW e \in X, Sorted(b),
         \A k \in 1 .. Len(b) : BlockAt(b[k]) <= BlockAt(e)
  PROVE  Sorted(Append(b, e))
<1> DEFINE n == Len(b)
           c == Append(b, e)
<1>1. n \in Nat /\ Len(c) = n + 1 /\ c[n + 1] = e /\ \A i \in 1 .. n : c[i] = b[i]
  BY Appended
<1>2. \A i, j \in 1 .. n : i < j => BlockAt(b[i]) <= BlockAt(b[j])
  BY DEF Sorted
<1>3. \A k \in 1 .. n : BlockAt(b[k]) <= BlockAt(e)
  OBVIOUS
<1> HIDE DEF n, c
<1>4. ASSUME NEW i \in 1 .. n + 1, NEW j \in 1 .. n + 1, i < j PROVE BlockAt(c[i]) <= BlockAt(c[j])
  <2>1. i \in 1 .. n /\ (j \in 1 .. n \/ j = n + 1)
    BY <1>1, <1>4
  <2>2. CASE j \in 1 .. n
    BY <1>1, <1>2, <1>4, <2>1, <2>2
  <2>3. CASE j = n + 1
    BY <1>1, <1>3, <2>1, <2>3
  <2> QED
    BY <2>1, <2>2, <2>3
<1>5. Sorted(c)
  BY <1>1, <1>4 DEF Sorted
<1> QED
  BY <1>5 DEF c

SpacedAfter(M, p, i, B) ==
  /\ B \in Seq(Sess \cup Clear(M, p)) /\ Sorted(B)
  /\ i = 0 => B = <<>>
  /\ i > 0 => Len(B) > 0 /\ B[Len(B)] = M[i]
  /\ \A t \in Int : Tally(B, Drawns(t)) = IF \E j \in 1 .. i : Drawn(M[j], t) THEN 1 ELSE 0

Spacing == INSTANCE FoldTheorems WITH Op <- Space

LEMMA SpaceFold == \A s : WithGaps(s) = Spacing!Folded(<<>>, s)
  BY Zenon DEF WithGaps, Spacing!Folded, Spacing!FoldLeft, FoldLeft,
     Spacing!MapThenFoldSet, MapThenFoldSet, Spacing!Max, Max

\* What a moment is drawn as: at most one session of a row.
LEMMA DrawnNext ==
  ASSUME NEW M \in Seq(Sess), InTurn(M), NEW i \in 0 .. Len(M) - 1, NEW t \in Int
  PROVE  (IF \E j \in 1 .. i + 1 : Drawn(M[j], t) THEN 1 ELSE 0)
           = (IF \E j \in 1 .. i : Drawn(M[j], t) THEN 1 ELSE 0) + (IF Drawn(M[i + 1], t) THEN 1 ELSE 0)
<1>1. i + 1 \in 1 .. Len(M) /\ \A j : j \in 1 .. i + 1 <=> j \in 1 .. i \/ j = i + 1
  OBVIOUS
<1>2. ASSUME NEW j \in 1 .. i, Drawn(M[j], t) PROVE ~Drawn(M[i + 1], t)
  <2>1. j \in 1 .. Len(M) /\ j < i + 1 /\ M[j] \in Sess /\ M[i + 1] \in Sess
    BY <1>1
  <2>2. M[j].endAt # Null /\ M[j].endAt <= M[i + 1].startAt
    BY <1>1, <2>1 DEF InTurn
  <2>3. t < M[j].endAt /\ M[j].endAt \in Int /\ M[i + 1].startAt \in Int
    BY <1>2, <2>1, <2>2, SessIs
  <2>4. Drawn(M[i + 1], t) => M[i + 1].startAt <= t
    BY <2>1, SessIs
  <2> QED
    BY <2>2, <2>3, <2>4
<1> QED
  BY <1>1, <1>2

\* Sessions of a timeline of the rows p start at rows.
After(M, p) == /\ \A i \in DOMAIN p : p[i].at \in Int
               /\ \A j \in 1 .. Len(M) : Begun(p, M[j].startAt)

\* Between two sessions nothing is drawn.
LEMMA BetweenIsClear ==
  ASSUME NEW M \in Seq(Sess), InTurn(M), NEW p, After(M, p), NEW i \in 1 .. Len(M) - 1
  PROVE  Gap(M[i].endAt, M[i + 1].startAt) \in Clear(M, p)
<1> DEFINE g == Gap(M[i].endAt, M[i + 1].startAt)
<1>1. i \in 1 .. Len(M) /\ i + 1 \in 1 .. Len(M) /\ i < i + 1 /\ M[i] \in Sess /\ M[i + 1] \in Sess
  OBVIOUS
<1>2. /\ M[i].endAt # Null /\ M[i].endAt \in Int /\ M[i + 1].startAt \in Int /\ M[i].startAt \in Int
      /\ M[i].startAt <= M[i].endAt
      /\ M[i + 1].endAt # Null => M[i + 1].endAt \in Int /\ M[i + 1].startAt <= M[i + 1].endAt
  BY <1>1, SessIs DEF InTurn
<1>3. g \in [type : {"offline-gap"}, fromAt : Int, toAt : Int]
  BY <1>2 DEF Gap
<1>4. \A t \in Int : Drawn(g, t) <=> M[i].endAt <= t /\ t < M[i + 1].startAt
  BY DEF Gap, Drawn
<1>5. ASSUME NEW t \in Int, Drawn(g, t), NEW j \in 1 .. Len(M), Drawn(M[j], t) PROVE FALSE
  <2>1. M[i].endAt <= t /\ t < M[i + 1].startAt
    BY <1>4, <1>5
  <2>2. M[j] \in Sess /\ M[j].startAt \in Int /\ M[j].startAt <= t /\ (M[j].endAt = Null \/ t < M[j].endAt)
        /\ (M[j].endAt # Null => M[j].endAt \in Int)
    BY <1>5, SessIs
  <2>3. CASE j <= i
    <3>1. M[j].endAt # Null /\ M[j].endAt <= M[i].endAt
      <4>1. CASE j = i
        BY <1>2, <4>1
      <4>2. CASE j < i
        <5>1. M[j].endAt # Null /\ M[j].endAt <= M[i].startAt
          BY <1>1, <4>2 DEF InTurn
        <5> QED
          BY <1>2, <2>2, <5>1
      <4> QED
        BY <2>3, <4>1, <4>2
    <3> QED
      BY <1>2, <2>1, <2>2, <3>1
  <2>4. CASE j > i
    <3>1. M[i + 1].startAt <= M[j].startAt
      <4>1. CASE j = i + 1
        BY <1>2, <4>1
      <4>2. CASE i + 1 < j
        <5>1. M[i + 1].endAt # Null /\ M[i + 1].endAt <= M[j].startAt
          BY <1>1, <4>2 DEF InTurn
        <5> QED
          BY <1>2, <2>2, <5>1
      <4> QED
        BY <2>4, <4>1, <4>2
    <3> QED
      BY <1>2, <2>1, <2>2, <3>1
  <2> QED
    BY <2>3, <2>4
<1>7. ASSUME NEW t \in Int, Drawn(g, t) PROVE Begun(p, t)
  <2>1. M[i].startAt <= t
    BY <1>2, <1>4, <1>7
  <2>2. PICK j \in DOMAIN p : p[j].at <= M[i].startAt
    BY <1>1 DEF After, Begun
  <2>3. p[j].at \in Int
    BY DEF After
  <2>4. p[j].at <= t
    BY <1>2, <2>1, <2>2, <2>3
  <2> QED
    BY <2>4 DEF Begun
<1> HIDE DEF g
<1>6. g \in Clear(M, p)
  BY <1>3, <1>5, <1>7 DEF Clear, Shown
<1> QED
  BY <1>6 DEF g

-----------------------------------------------------------------------------
LEMMA SpaceStep ==
  ASSUME NEW M \in Seq(Sess), InTurn(M), \A j, k \in 1 .. Len(M) : k = j + 1 => M[k].startAt - M[j].endAt > MergeGap,
         NEW p, After(M, p), NEW i \in 0 .. Len(M) - 1, NEW B, SpacedAfter(M, p, i, B)
  PROVE  SpacedAfter(M, p, i + 1, Space(B, M[i + 1]))
<1> DEFINE X == Sess \cup Clear(M, p)
           s == M[i + 1]
           g == Gap(M[i].endAt, s.startAt)
           n == Len(B)
           drawn(k, t) == IF \E j \in 1 .. k : Drawn(M[j], t) THEN 1 ELSE 0
<1>1. i \in Nat /\ i + 1 \in 1 .. Len(M) /\ i + 1 # 0 /\ i + 1 > 0 /\ (i # 0 => i > 0 /\ i \in 1 .. Len(M) /\ i < i + 1)
  OBVIOUS
<1>2. B \in Seq(X) /\ Sorted(B) /\ n \in Nat
  BY DEF SpacedAfter
<1>3. s \in Sess /\ s \in X /\ BlockAt(s) = s.startAt /\ s.startAt \in Int
  BY <1>1, BlockIs
<1>4. \A t \in Int : Tally(B, Drawns(t)) = drawn(i, t)
  BY DEF SpacedAfter
<1>5. \A t \in Int : drawn(i + 1, t) = drawn(i, t) + (IF s \in Drawns(t) THEN 1 ELSE 0)
  <2> SUFFICES ASSUME NEW t \in Int PROVE drawn(i + 1, t) = drawn(i, t) + (IF s \in Drawns(t) THEN 1 ELSE 0)
    OBVIOUS
  <2>1. s \in Drawns(t) <=> Drawn(s, t)
    BY <1>3 DEF Drawns
  <2>2. drawn(i + 1, t) = drawn(i, t) + (IF Drawn(s, t) THEN 1 ELSE 0)
    BY DrawnNext
  <2> HIDE DEF drawn, s
  <2> QED
    BY <2>1, <2>2
<1> HIDE DEF X
<1>6. CASE i = 0
  <2>1. B = <<>>
    BY <1>6 DEF SpacedAfter
  <2> DEFINE r == Append(B, s)
  <2>2. Space(B, s) = r
    BY <2>1 DEF Space
  <2>3. r \in Seq(X) /\ Len(r) = n + 1 /\ r[n + 1] = s
    BY <1>2, <1>3, Appended
  <2>4. Sorted(r)
    <3>1. \A k \in 1 .. n : BlockAt(B[k]) <= BlockAt(s)
      BY <2>1
    <3> HIDE DEF s, r, n
    <3> QED
      BY <1>2, <1>3, <3>1, SortedAppend DEF r, n
  <2>5. ASSUME NEW t \in Int PROVE Tally(r, Drawns(t)) = drawn(i + 1, t)
    <3>1. Tally(r, Drawns(t)) = Tally(B, Drawns(t)) + (IF s \in Drawns(t) THEN 1 ELSE 0)
      BY <1>2, <1>3, TallyAppend
    <3> HIDE DEF drawn, s, r
    <3> QED
      BY <1>4, <1>5, <3>1
  <2>6. Len(r) > 0 /\ r[Len(r)] = M[i + 1]
    BY <1>2, <2>3
  <2> HIDE DEF r
  <2>7. SpacedAfter(M, p, i + 1, r)
    BY <1>1, <2>3, <2>4, <2>5, <2>6 DEF SpacedAfter, X
  <2> QED
    BY <2>2, <2>7
<1>7. CASE i # 0
  <2>1. i > 0 /\ i \in 1 .. Len(M) /\ i < i + 1
    BY <1>1, <1>7
  <2>2. n > 0 /\ B[n] = M[i] /\ n \in 1 .. n
    BY <1>2, <2>1 DEF SpacedAfter
  <2>3. /\ M[i] \in Sess /\ M[i].endAt # Null /\ M[i].endAt \in Int /\ M[i].startAt \in Int
        /\ M[i].startAt <= M[i].endAt /\ M[i].endAt <= s.startAt
    BY <1>1, <2>1, SessIs DEF InTurn
  <2>4. g \in Clear(M, p) /\ g \in X
    <3>1. i \in 1 .. Len(M) - 1
      BY <1>1, <2>1
    <3> QED
      BY <3>1, BetweenIsClear DEF X
  <2>5. BlockAt(g) = M[i].endAt
    BY DEF Gap, BlockAt
  <2>6. s.startAt - M[i].endAt > ShownGap
    <3>1. s.startAt - M[i].endAt > MergeGap
      BY <1>1, <2>1
    <3> HIDE DEF s
    <3> QED
      BY <1>3, <2>3, <3>1, GapsAssumption
  <2>7. Last(B) = M[i] /\ B # <<>>
    BY <2>2 DEF Last
  <2>8. Space(B, s) = B \o <<g, s>>
    BY <2>3, <2>6, <2>7 DEF Space
  <2> HIDE DEF g, s
  <2> DEFINE q == Append(B, g)
             r == Append(q, s)
  <2>9. B \o <<g, s>> = r
    BY <1>2, <1>3, <2>4
  <2>10. q \in Seq(X) /\ Len(q) = n + 1 /\ q[n + 1] = g /\ \A k \in 1 .. n : q[k] = B[k]
    BY <1>2, <2>4, Appended
  <2>11. ASSUME NEW k \in 1 .. n PROVE BlockAt(B[k]) <= M[i].startAt /\ BlockAt(B[k]) \in Int
    <3>1. B[k] \in X
      BY <1>2
    <3>2. BlockAt(B[k]) \in Int
      BY <3>1, BlockIs DEF X
    <3>3. BlockAt(B[n]) = M[i].startAt
      BY <2>2, <2>3, BlockIs
    <3>4. k < n => BlockAt(B[k]) <= BlockAt(B[n])
      BY <1>2, <2>2 DEF Sorted
    <3>5. k < n \/ k = n
      BY <1>2
    <3> QED
      BY <2>3, <3>2, <3>3, <3>4, <3>5
  <2>12. Sorted(q)
    <3>1. \A k \in 1 .. n : BlockAt(B[k]) <= BlockAt(g)
      BY <2>3, <2>5, <2>11
    <3> HIDE DEF q, n
    <3> QED
      BY <1>2, <2>4, <3>1, SortedAppend DEF q, n
  <2>13. \A k \in 1 .. Len(q) : BlockAt(q[k]) <= BlockAt(s)
    <3> SUFFICES ASSUME NEW k \in 1 .. n + 1 PROVE BlockAt(q[k]) <= BlockAt(s)
      BY <2>10
    <3>1. CASE k = n + 1
      BY <1>3, <2>3, <2>5, <2>10, <3>1
    <3>2. CASE k \in 1 .. n
      <4>1. q[k] = B[k] /\ BlockAt(B[k]) <= M[i].startAt /\ BlockAt(B[k]) \in Int
        BY <2>10, <2>11, <3>2
      <4> QED
        BY <1>3, <2>3, <4>1
    <3> QED
      BY <1>2, <3>1, <3>2
  <2> HIDE DEF q
  <2>14. Sorted(r)
    BY <1>3, <2>10, <2>12, <2>13, SortedAppend
  <2>15. r \in Seq(X) /\ Len(r) = n + 2 /\ r[n + 2] = s
    <3>1. r \in Seq(X) /\ Len(r) = Len(q) + 1 /\ r[Len(q) + 1] = s
      BY <1>3, <2>10, Appended
    <3> HIDE DEF r
    <3>2. Len(q) + 1 = n + 2
      BY <1>2, <2>10
    <3> QED
      BY <3>1, <3>2
  <2>16. ASSUME NEW t \in Int PROVE Tally(r, Drawns(t)) = drawn(i + 1, t)
    <3>1. Tally(r, Drawns(t)) = Tally(q, Drawns(t)) + (IF s \in Drawns(t) THEN 1 ELSE 0)
      BY <1>3, <2>10, TallyAppend
    <3>2. Tally(q, Drawns(t)) = Tally(B, Drawns(t)) + (IF g \in Drawns(t) THEN 1 ELSE 0)
      BY <1>2, <2>4, TallyAppend DEF q
    <3>3. g \notin Drawns(t)
      BY <2>4, BlockIs DEF Drawns
    <3>4. Tally(B, Drawns(t)) \in Nat
      BY <1>2, TallyType
    <3>5. Tally(q, Drawns(t)) = Tally(B, Drawns(t))
      BY ONLY <3>2, <3>3, <3>4
    <3> HIDE DEF drawn, r
    <3> QED
      BY <1>4, <1>5, <3>1, <3>5
  <2> HIDE DEF r
  <2>17. Len(r) > 0 /\ r[Len(r)] = M[i + 1]
    BY <1>2, <2>15 DEF s
  <2>18. SpacedAfter(M, p, i + 1, r)
    BY <1>1, <2>14, <2>15, <2>16, <2>17 DEF SpacedAfter, X
  <2> QED
    BY <2>8, <2>9, <2>18 DEF s
<1> QED
  BY <1>6, <1>7

Gaps     == [type : {"offline-gap"}, fromAt : Int, toAt : Int]
Drawable == {b \in Seq(Sess \cup Gaps) : b = <<>> \/ b[Len(b)] \in Sess}

LEMMA SpaceKeeps == \A b \in Drawable, s \in Sess : Space(b, s) \in Drawable
<1> SUFFICES ASSUME NEW b \in Drawable, NEW s \in Sess PROVE Space(b, s) \in Drawable
  OBVIOUS
<1> DEFINE X == Sess \cup Gaps
           n == Len(b)
           spaced == b # <<>> /\ Last(b).endAt # Null /\ s.startAt - Last(b).endAt > ShownGap
           g == Gap(Last(b).endAt, s.startAt)
<1>1. b \in Seq(X) /\ (b = <<>> \/ b[n] \in Sess) /\ n \in Nat /\ s \in X
  BY DEF Drawable
<1>2. CASE spaced
  <2>1. Last(b) \in Sess
    BY <1>1, <1>2 DEF Last
  <2>2. g \in X
    BY <1>2, <2>1, SessIs DEF Gap, Gaps
  <2>3. Space(b, s) = b \o <<g, s>>
    BY <1>2 DEF Space
  <2> HIDE DEF X, g
  <2> DEFINE r == b \o <<g, s>>
  <2>4. r \in Seq(X) /\ Len(r) = n + 2 /\ r[n + 2] = s
    BY <1>1, <2>2
  <2> HIDE DEF r
  <2>5. r[Len(r)] = s
    BY <1>1, <2>4
  <2> QED
    BY <2>3, <2>4, <2>5 DEF Drawable, X, r
<1>3. CASE ~spaced
  <2>1. Space(b, s) = Append(b, s)
    BY <1>3 DEF Space
  <2> HIDE DEF X
  <2> DEFINE r == Append(b, s)
  <2>2. r \in Seq(X) /\ Len(r) = n + 1 /\ r[n + 1] = s
    BY <1>1, Appended
  <2> HIDE DEF r
  <2>3. r[Len(r)] = s
    BY <1>1, <2>2
  <2> QED
    BY <2>1, <2>2, <2>3 DEF Drawable, X, r
<1> QED
  BY <1>2, <1>3

\* The gaps between merged sessions are all long enough, and nothing is drawn in them.
LEMMA SpacedIs ==
  ASSUME NEW M \in Seq(Sess), InTurn(M), NEW p, After(M, p),
         \A j, k \in 1 .. Len(M) : k = j + 1 => M[k].startAt - M[j].endAt > MergeGap
  PROVE  SpacedAfter(M, p, Len(M), WithGaps(M))
<1> DEFINE n == Len(M)
           F(s) == Spacing!Folded(<<>>, s)
           B == F(M)
<1>1. n \in Nat
  OBVIOUS
<1>2. <<>> \in Drawable
  BY DEF Drawable
<1>3. PICK f \in [0 .. n -> Drawable] : Spacing!Along(f, <<>>, M) /\ B = f[n]
  BY <1>2, SpaceKeeps, Spacing!FoldLeftSteps
<1>4. B = WithGaps(M)
  BY SpaceFold
<1> HIDE DEF B
<1>5. f[0] = <<>> /\ \A i \in 1 .. n : f[i] = Space(f[i - 1], M[i])
  BY <1>3 DEF Spacing!Along
<1> DEFINE A == {i \in 0 .. n : SpacedAfter(M, p, i, f[i])}
<1>6. 0 \in A
  <2>1. Len(<<>>) = 0 /\ 1 .. 0 = {} /\ <<>> \in Seq(Sess \cup Clear(M, p)) /\ ~(0 > 0)
    OBVIOUS
  <2>2. Sorted(<<>>)
    BY <2>1 DEF Sorted
  <2>3. SpacedAfter(M, p, 0, <<>>)
    BY <2>1, <2>2, TallyOfEmpty DEF SpacedAfter
  <2> QED
    BY <1>1, <1>5, <2>3
<1>7. ASSUME NEW i \in 0 .. n - 1, i \in A PROVE i + 1 \in A
  <2>1. i + 1 \in 1 .. n /\ i + 1 \in 0 .. n /\ (i + 1) - 1 = i
    BY <1>1
  <2>2. f[i + 1] = Space(f[i], M[i + 1])
    BY <1>5, <2>1
  <2>3. SpacedAfter(M, p, i + 1, Space(f[i], M[i + 1]))
    BY <1>7, SpaceStep
  <2> QED
    BY <2>1, <2>2, <2>3
<1> HIDE DEF A
<1>8. \A i \in 0 .. n : i \in A
  BY <1>1, <1>6, <1>7, Spacing!UpTo
<1> QED
  BY <1>1, <1>3, <1>4, <1>8 DEF A

-----------------------------------------------------------------------------
\* Where an event goes: after the blocks that start no later than it.
Due(rest, at) ==
  LET later == {i \in DOMAIN rest : BlockAt(rest[i]) > at}
  IN  IF later = {} THEN Len(rest) ELSE Min(later) - 1

LEMMA DueIs ==
  ASSUME NEW X, \A b \in X : BlockAt(b) \in Int, NEW rest \in Seq(X), NEW at \in Int
  PROVE  /\ Due(rest, at) \in 0 .. Len(rest)
         /\ \A k \in 1 .. Due(rest, at) : BlockAt(rest[k]) <= at
         /\ Sorted(rest) => \A k \in Due(rest, at) + 1 .. Len(rest) : at < BlockAt(rest[k])
<1> DEFINE n == Len(rest)
           later == {i \in DOMAIN rest : BlockAt(rest[i]) > at}
           d == Min(later)
<1>1. n \in Nat /\ DOMAIN rest = 1 .. n
  OBVIOUS
<1>2. \A k \in 1 .. n : BlockAt(rest[k]) \in Int
  <2> SUFFICES ASSUME NEW k \in 1 .. n PROVE BlockAt(rest[k]) \in Int
    OBVIOUS
  <2>1. rest[k] \in X
    OBVIOUS
  <2> QED
    BY <2>1
<1>3. \A k : k \in later <=> k \in 1 .. n /\ BlockAt(rest[k]) > at
  BY <1>1
<1>4. CASE later = {}
  <2>1. Due(rest, at) = n
    BY <1>4 DEF Due
  <2>2. \A k \in 1 .. n : BlockAt(rest[k]) <= at
    BY <1>2, <1>3, <1>4
  <2> HIDE DEF n
  <2>3. n + 1 .. n = {}
    BY <1>1
  <2> QED
    BY <1>1, <2>1, <2>2, <2>3 DEF n
<1>5. CASE later # {}
  <2>1. Due(rest, at) = d - 1
    BY <1>5 DEF Due
  <2>2. d \in later /\ \A y \in later : d <= y
    <3>1. later \in SUBSET Int /\ 1 \in Int /\ \A y \in later : 1 <= y
      BY <1>1
    <3> HIDE DEF later
    <3> QED
      BY <1>5, <3>1, MinIs
  <2> HIDE DEF later, d, n
  <2>3. d \in 1 .. n /\ BlockAt(rest[d]) > at
    BY <1>3, <2>2
  <2>4. d - 1 \in 0 .. n
    BY <1>1, <2>3
  <2>5. ASSUME NEW k \in 1 .. d - 1 PROVE BlockAt(rest[k]) <= at
    <3>1. k \in 1 .. n /\ ~(d <= k)
      BY <1>1, <2>3
    <3>2. k \notin later
      BY <2>2, <3>1
    <3> QED
      BY <1>2, <1>3, <3>1, <3>2
  <2>6. ASSUME Sorted(rest), NEW k \in (d - 1) + 1 .. n PROVE at < BlockAt(rest[k])
    <3>1. k \in 1 .. n /\ (k = d \/ d < k)
      BY <1>1, <2>3
    <3>2. d < k => BlockAt(rest[d]) <= BlockAt(rest[k])
      BY <2>3, <2>6, <3>1 DEF Sorted, n
    <3> QED
      BY <1>2, <2>3, <3>1, <3>2
  <2> QED
    BY <2>1, <2>4, <2>5, <2>6 DEF n
<1> QED
  BY <1>4, <1>5

\* A sequence in two parts.
LEMMA Cut ==
  ASSUME NEW X, NEW s \in Seq(X), NEW d \in 0 .. Len(s)
  PROVE  /\ SubSeq(s, 1, d) \in Seq(X) /\ Len(SubSeq(s, 1, d)) = d
         /\ \A k \in 1 .. d : SubSeq(s, 1, d)[k] = s[k] /\ k \in 1 .. Len(s)
         /\ SubSeq(s, d + 1, Len(s)) \in Seq(X) /\ Len(SubSeq(s, d + 1, Len(s))) = Len(s) - d
         /\ \A k \in 1 .. Len(s) - d : SubSeq(s, d + 1, Len(s))[k] = s[d + k] /\ d + k \in d + 1 .. Len(s)
         /\ SubSeq(s, 1, d) \o SubSeq(s, d + 1, Len(s)) = s
<1>1. Len(s) \in Nat /\ d \in Nat /\ d <= Len(s)
  OBVIOUS
<1>2. SubSeq(s, 1, d) \in Seq(X) /\ Len(SubSeq(s, 1, d)) = d
  BY <1>1
<1>3. \A k \in 1 .. d : SubSeq(s, 1, d)[k] = s[k] /\ k \in 1 .. Len(s)
  BY <1>1
<1>4. SubSeq(s, d + 1, Len(s)) \in Seq(X) /\ Len(SubSeq(s, d + 1, Len(s))) = Len(s) - d
  BY <1>1
<1>5. \A k \in 1 .. Len(s) - d : SubSeq(s, d + 1, Len(s))[k] = s[d + k] /\ d + k \in d + 1 .. Len(s)
  BY <1>1
<1>6. SubSeq(s, 1, d) \o SubSeq(s, d + 1, Len(s)) = s
  <2> DEFINE a == SubSeq(s, 1, d)
             b == SubSeq(s, d + 1, Len(s))
             n == Len(s)
  <2>1. /\ a \in Seq(X) /\ Len(a) = d /\ \A k \in 1 .. d : a[k] = s[k]
        /\ b \in Seq(X) /\ Len(b) = n - d /\ \A k \in 1 .. n - d : b[k] = s[d + k]
    BY <1>2, <1>3, <1>4, <1>5
  <2>2. n \in Nat /\ d \in Nat /\ d <= n /\ s = [k \in 1 .. n |-> s[k]]
    BY <1>1
  <2> HIDE DEF a, b, n
  <2> DEFINE c == a \o b
  <2>3. Len(c) = n /\ c \in Seq(X)
    BY <2>1, <2>2
  <2>7. /\ \A k \in 1 .. Len(a) : c[k] = a[k]
        /\ \A k \in 1 .. Len(b) : c[Len(a) + k] = b[k]
    BY <2>1
  <2> HIDE DEF c
  <2>4. ASSUME NEW k \in 1 .. n PROVE c[k] = s[k]
    <3>1. CASE k \in 1 .. d
      BY <2>1, <2>7, <3>1
    <3>2. CASE k \notin 1 .. d
      <4>1. k - d \in 1 .. n - d /\ d + (k - d) = k
        BY <2>2, <3>2
      <4>2. c[d + (k - d)] = b[k - d]
        BY <2>1, <2>7, <4>1
      <4> QED
        BY <2>1, <4>1, <4>2
    <3> QED
      BY <3>1, <3>2
  <2>5. c = [k \in 1 .. n |-> c[k]]
    BY <2>3
  <2>6. c = s
    BY <2>2, <2>4, <2>5
  <2> QED
    BY <2>6 DEF c, a, b, n
<1> QED
  BY <1>2, <1>3, <1>4, <1>5, <1>6

LEMMA SortedConcat ==
  ASSUME NEW X, NEW a \in Seq(X), NEW b \in Seq(X), Sorted(a), Sorted(b),
         \A i \in 1 .. Len(a), j \in 1 .. Len(b) : BlockAt(a[i]) <= BlockAt(b[j])
  PROVE  Sorted(a \o b)
<1> DEFINE m == Len(a)
           n == Len(b)
           c == a \o b
<1>1. m \in Nat /\ n \in Nat /\ Len(c) = m + n
  OBVIOUS
<1>2. \A i \in 1 .. m : c[i] = a[i]
  OBVIOUS
<1>3. \A i \in 1 .. n : c[m + i] = b[i]
  OBVIOUS
<1>4. \A i, j \in 1 .. m : i < j => BlockAt(a[i]) <= BlockAt(a[j])
  BY DEF Sorted
<1>5. \A i, j \in 1 .. n : i < j => BlockAt(b[i]) <= BlockAt(b[j])
  BY DEF Sorted
<1>6. \A i \in 1 .. m, j \in 1 .. n : BlockAt(a[i]) <= BlockAt(b[j])
  OBVIOUS
<1> HIDE DEF m, n, c
<1>7. ASSUME NEW i \in 1 .. m + n, i \notin 1 .. m PROVE i - m \in 1 .. n /\ c[i] = b[i - m]
  <2>1. i - m \in 1 .. n /\ m + (i - m) = i
    BY <1>1, <1>7
  <2>2. c[m + (i - m)] = b[i - m]
    BY <1>3, <2>1
  <2> QED
    BY <2>1, <2>2
<1>8. ASSUME NEW i \in 1 .. m + n, NEW j \in 1 .. m + n, i < j PROVE BlockAt(c[i]) <= BlockAt(c[j])
  <2>1. CASE j \in 1 .. m
    <3>1. i \in 1 .. m
      BY <1>1, <1>8, <2>1
    <3> QED
      BY <1>2, <1>4, <1>8, <2>1, <3>1
  <2>2. CASE i \in 1 .. m /\ j \notin 1 .. m
    BY <1>2, <1>6, <1>7, <2>2
  <2>3. CASE i \notin 1 .. m
    <3>1. j \notin 1 .. m /\ i - m < j - m
      BY <1>1, <1>8, <2>3
    <3> QED
      BY <1>5, <1>7, <2>3, <3>1
  <2> QED
    BY <2>1, <2>2, <2>3
<1> QED
  BY <1>1, <1>8 DEF Sorted, c

-----------------------------------------------------------------------------
\* The events as blocks.
Marks(E, i) == [k \in 1 .. i |-> EventBlock(E[k])]

\* The blocks X that are no events, and where they stand.
Timeless(X) == \A b \in X : BlockAt(b) \in Int /\ b \notin Events

PutAfter(X, B, E, i, acc) ==
  /\ acc.mixed \in Seq(X \cup Events) /\ acc.rest \in Seq(X) /\ Sorted(acc.mixed) /\ Sorted(acc.rest)
  /\ i = 0 => acc.mixed = <<>>
  /\ i > 0 => /\ \A k \in 1 .. Len(acc.mixed) : BlockAt(acc.mixed[k]) <= E[i].at
              /\ \A k \in 1 .. Len(acc.rest) : E[i].at < BlockAt(acc.rest[k])
  /\ \A Q : (\A e \in Events : e \notin Q) => Tally(acc.mixed, Q) + Tally(acc.rest, Q) = Tally(B, Q)
  /\ Listed(acc.mixed, Events, Marks(E, i))

LEMMA PutIs ==
  \A acc, ev : /\ Put(acc, ev).rest = SubSeq(acc.rest, Due(acc.rest, ev.at) + 1, Len(acc.rest))
               /\ Put(acc, ev).mixed = acc.mixed \o SubSeq(acc.rest, 1, Due(acc.rest, ev.at)) \o <<EventBlock(ev)>>
               /\ Put(acc, ev) = [rest |-> Put(acc, ev).rest, mixed |-> Put(acc, ev).mixed]
  BY DEF Put, Due

Putting == INSTANCE FoldTheorems WITH Op <- Put

LEMMA PutFold ==
  \A b, e : Interleaved(b, e) = LET end == Putting!Folded([rest |-> b, mixed |-> <<>>], e) IN end.mixed \o end.rest
  BY Zenon DEF Interleaved, Putting!Folded, Putting!FoldLeft, FoldLeft,
     Putting!MapThenFoldSet, MapThenFoldSet, Putting!Max, Max

LEMMA EventIs == \A e \in Logged : /\ EventBlock(e) \in Events /\ EventBlock(e).ev = e
                                   /\ BlockAt(EventBlock(e)) = e.at /\ e.at \in Int
<1> SUFFICES ASSUME NEW e \in Logged
             PROVE  /\ EventBlock(e) \in Events /\ EventBlock(e).ev = e
                    /\ BlockAt(EventBlock(e)) = e.at /\ e.at \in Int
  OBVIOUS
<1>1. e.at \in Int
  BY LoggedAt
<1> QED
  BY <1>1 DEF EventBlock, Events, BlockAt

LEMMA MarksNext ==
  ASSUME NEW E \in Seq(Logged), NEW i \in 0 .. Len(E) - 1
  PROVE  /\ Marks(E, i) \in Seq(Events) /\ Len(Marks(E, i)) = i
         /\ Marks(E, i + 1) = Append(Marks(E, i), EventBlock(E[i + 1]))
<1> DEFINE m == Marks(E, i)
           e == EventBlock(E[i + 1])
           c == Append(m, e)
           q == Marks(E, i + 1)
<1>1. i \in Nat /\ i + 1 \in 1 .. Len(E) /\ \A k \in 1 .. i + 1 : k \in 1 .. Len(E)
  OBVIOUS
<1>2. \A k \in 1 .. i + 1 : EventBlock(E[k]) \in Events
  <2> SUFFICES ASSUME NEW k \in 1 .. i + 1 PROVE EventBlock(E[k]) \in Events
    OBVIOUS
  <2>1. E[k] \in Logged
    BY <1>1
  <2> QED
    BY <2>1, EventIs
<1>3. m \in Seq(Events) /\ Len(m) = i /\ \A k \in 1 .. i : m[k] = EventBlock(E[k])
  BY <1>1, <1>2 DEF Marks
<1>4. e \in Events
  BY <1>1, <1>2
<1>5. q = [k \in 1 .. i + 1 |-> EventBlock(E[k])]
  BY DEF Marks
<1> HIDE DEF m, q
<1>6. c \in Seq(Events) /\ Len(c) = i + 1 /\ c[i + 1] = e /\ \A k \in 1 .. i : c[k] = m[k]
  BY <1>3, <1>4, Appended
<1> HIDE DEF c
<1>7. c = [k \in 1 .. i + 1 |-> c[k]]
  BY <1>6
<1>8. \A k \in 1 .. i + 1 : c[k] = EventBlock(E[k])
  <2>1. \A k \in 1 .. i + 1 : k \in 1 .. i \/ k = i + 1
    BY <1>1
  <2> QED
    BY <1>3, <1>6, <2>1
<1>9. c = q
  BY <1>5, <1>7, <1>8
<1> QED
  BY <1>3, <1>9 DEF c, m, q

LEMMA PutStep ==
  ASSUME NEW X, Timeless(X), NEW B, NEW E \in Seq(Logged), InOrder(E),
         NEW i \in 0 .. Len(E) - 1, NEW acc, PutAfter(X, B, E, i, acc)
  PROVE  PutAfter(X, B, E, i + 1, Put(acc, E[i + 1]))
<1> DEFINE Y == X \cup Events
           ev == E[i + 1]
           rest == acc.rest
           mixed == acc.mixed
           d == Due(rest, ev.at)
           a == SubSeq(rest, 1, d)
           c == SubSeq(rest, d + 1, Len(rest))
           e == EventBlock(ev)
           u == mixed \o a
           r == Append(u, e)
<1>1. i \in Nat /\ i + 1 \in 1 .. Len(E) /\ i + 1 # 0 /\ i + 1 > 0 /\ (i # 0 => i > 0 /\ i \in 1 .. Len(E) /\ i <= i + 1)
  OBVIOUS
<1>2. ev \in Logged /\ e \in Events /\ BlockAt(e) = ev.at /\ ev.at \in Int
  BY <1>1, EventIs
<1>3. /\ mixed \in Seq(Y) /\ rest \in Seq(X) /\ Sorted(mixed) /\ Sorted(rest)
      /\ \A Q : (\A z \in Events : z \notin Q) => Tally(mixed, Q) + Tally(rest, Q) = Tally(B, Q)
      /\ Listed(mixed, Events, Marks(E, i))
  BY DEF PutAfter
<1>4. \A b \in X : BlockAt(b) \in Int /\ b \notin Events /\ b \in Y
  BY DEF Timeless
<1>5. /\ d \in 0 .. Len(rest) /\ (\A k \in 1 .. d : BlockAt(rest[k]) <= ev.at)
      /\ \A k \in d + 1 .. Len(rest) : ev.at < BlockAt(rest[k])
  BY <1>2, <1>3, <1>4, DueIs
<1>6. /\ Put(acc, ev).rest = c
      /\ Put(acc, ev).mixed = mixed \o a \o <<e>>
  BY PutIs
<1>7. /\ i > 0 => /\ \A k \in 1 .. Len(mixed) : BlockAt(mixed[k]) <= E[i].at
                  /\ \A k \in 1 .. Len(rest) : E[i].at < BlockAt(rest[k])
      /\ i = 0 => mixed = <<>>
  BY DEF PutAfter
<1>8. i > 0 => E[i].at <= ev.at /\ E[i].at \in Int
  <2>1. i > 0 => i \in DOMAIN E /\ i + 1 \in DOMAIN E /\ i <= i + 1
    BY <1>1
  <2> QED
    BY <2>1 DEF InOrder
<1>9. e \in Y
  BY <1>2
<1> HIDE DEF rest, mixed, d, e, ev, Y
<1>10. /\ a \in Seq(X) /\ Len(a) = d
       /\ \A k \in 1 .. d : a[k] = rest[k] /\ k \in 1 .. Len(rest)
       /\ c \in Seq(X) /\ Len(c) = Len(rest) - d
       /\ \A k \in 1 .. Len(rest) - d : c[k] = rest[d + k] /\ d + k \in d + 1 .. Len(rest)
       /\ a \o c = rest
  BY <1>3, <1>5, Cut
<1>11. Len(rest) \in Nat /\ d \in Nat /\ d <= Len(rest) /\ Len(mixed) \in Nat
  BY <1>3, <1>5
<1> HIDE DEF a, c
<1>12. a \in Seq(Y) /\ c \in Seq(Y) /\ rest \in Seq(Y)
  <2>1. X \subseteq Y
    BY <1>4
  <2> QED
    BY <1>3, <1>10, <2>1
<1>13. mixed \o a \o <<e>> = r
  BY <1>3, <1>9, <1>12
<1>14. Sorted(a)
  <2>1. \A k, l \in 1 .. d : k < l => BlockAt(rest[k]) <= BlockAt(rest[l])
    BY <1>3, <1>10 DEF Sorted
  <2> QED
    BY <1>10, <2>1 DEF Sorted
<1>15. Sorted(c)
  <2> SUFFICES ASSUME NEW k \in 1 .. Len(rest) - d, NEW l \in 1 .. Len(rest) - d, k < l
               PROVE  BlockAt(c[k]) <= BlockAt(c[l])
    BY <1>10 DEF Sorted
  <2>1. d + k \in 1 .. Len(rest) /\ d + l \in 1 .. Len(rest) /\ d + k < d + l
    BY <1>11
  <2>2. BlockAt(rest[d + k]) <= BlockAt(rest[d + l])
    BY <1>3, <2>1 DEF Sorted
  <2> QED
    BY <1>10, <2>2
<1>16. u \in Seq(Y)
  BY <1>3, <1>12
<1>17. Sorted(u)
  <2>1. ASSUME NEW k \in 1 .. Len(mixed), NEW l \in 1 .. Len(a) PROVE BlockAt(mixed[k]) <= BlockAt(a[l])
    <3>1. i # 0
      <4>1. Len(<<>>) = 0 /\ 1 .. 0 = {}
        OBVIOUS
      <4> QED
        BY <1>7, <2>1, <4>1
    <3>2. i > 0 /\ l \in 1 .. d
      BY <1>1, <1>10, <3>1
    <3>3. a[l] = rest[l] /\ l \in 1 .. Len(rest) /\ E[i].at < BlockAt(rest[l])
      BY <1>7, <1>10, <3>2
    <3>4. BlockAt(mixed[k]) <= E[i].at /\ BlockAt(mixed[k]) \in Int
      <4>1. mixed[k] \in X \cup Events
        BY <1>3 DEF Y
      <4> QED
        BY <1>4, <1>7, <3>2, <4>1, BlockIs
    <3>5. BlockAt(rest[l]) \in Int
      <4>1. rest[l] \in X
        BY <1>3, <3>3
      <4> QED
        BY <1>4, <4>1
    <3> QED
      BY <1>8, <3>2, <3>3, <3>4, <3>5
  <2> QED
    BY <1>3, <1>12, <1>14, <2>1, SortedConcat
<1>18. \A k \in 1 .. Len(u) : BlockAt(u[k]) <= BlockAt(e)
  <2> SUFFICES ASSUME NEW k \in 1 .. Len(u) PROVE BlockAt(u[k]) <= BlockAt(e)
    OBVIOUS
  <2>1. Len(u) = Len(mixed) + d
    <3>1. Len(u) = Len(mixed) + Len(a)
      BY <1>3, <1>12
    <3>2. Len(a) = d
      BY <1>10
    <3> HIDE DEF u
    <3> QED
      BY <3>1, <3>2
  <2>2. CASE k \in 1 .. Len(mixed)
    <3>1. u[k] = mixed[k]
      BY <1>3, <1>12, <2>2
    <3>2. i # 0
      <4>1. Len(<<>>) = 0 /\ 1 .. 0 = {}
        OBVIOUS
      <4> QED
        BY <1>7, <2>2, <4>1
    <3>3. i > 0
      BY <1>1, <3>2
    <3>4. BlockAt(mixed[k]) <= E[i].at /\ BlockAt(mixed[k]) \in Int
      <4>1. mixed[k] \in X \cup Events
        BY <1>3, <2>2 DEF Y
      <4> QED
        BY <1>4, <1>7, <2>2, <3>3, <4>1, BlockIs
    <3> QED
      BY <1>2, <1>8, <3>1, <3>3, <3>4
  <2>3. CASE k \notin 1 .. Len(mixed)
    <3>1. k - Len(mixed) \in 1 .. d
      BY <1>11, <2>1, <2>3
    <3>2. u[k] = a[k - Len(mixed)]
      BY <1>3, <1>10, <1>11, <1>12, <2>1, <2>3, <3>1
    <3> QED
      BY <1>2, <1>5, <1>10, <3>1, <3>2
  <2> QED
    BY <2>2, <2>3
<1> HIDE DEF u
<1>19. r \in Seq(Y) /\ Len(r) = Len(u) + 1 /\ r[Len(u) + 1] = e /\ \A k \in 1 .. Len(u) : r[k] = u[k]
  BY <1>9, <1>16, Appended
<1>20. Sorted(r)
  BY <1>9, <1>16, <1>17, <1>18, SortedAppend
<1>21. Listed(r, Events, Marks(E, i + 1))
  <2>1. Marks(E, i) \in Seq(Events) /\ Marks(E, i + 1) = Append(Marks(E, i), e)
    BY MarksNext DEF e, ev
  <2>2. \A k \in DOMAIN a : a[k] \notin Events
    <3> SUFFICES ASSUME NEW k \in DOMAIN a PROVE a[k] \notin Events
      OBVIOUS
    <3>1. a[k] \in X
      BY <1>10
    <3> QED
      BY <1>4, <3>1
  <2>3. Listed(u, Events, Marks(E, i))
    BY <1>3, <1>12, <2>1, <2>2, ListedSkip DEF u
  <2>4. Listed(Append(u, e), Events, Append(Marks(E, i), e))
    BY <1>2, <1>9, <1>16, <2>1, <2>3, ListedAppend
  <2> QED
    BY <2>1, <2>4
<1>22. ASSUME NEW Q, \A z \in Events : z \notin Q PROVE Tally(r, Q) + Tally(c, Q) = Tally(B, Q)
  <2>1. Tally(r, Q) = Tally(u, Q) + (IF e \in Q THEN 1 ELSE 0)
    BY <1>9, <1>16, TallyAppend
  <2>2. e \notin Q
    BY <1>2, <1>22
  <2>3. Tally(u, Q) = Tally(mixed, Q) + Tally(a, Q)
    BY <1>3, <1>12, TallyConcat DEF u
  <2>4. Tally(rest, Q) = Tally(a, Q) + Tally(c, Q)
    BY <1>10, TallyConcat
  <2>5. Tally(mixed, Q) + Tally(rest, Q) = Tally(B, Q)
    BY <1>3, <1>22
  <2>6. Tally(mixed, Q) \in Nat
    BY <1>3, TallyType
  <2>7. Tally(a, Q) \in Nat /\ Tally(c, Q) \in Nat
    BY <1>10, TallyType
  <2> QED
    BY ONLY <2>1, <2>2, <2>3, <2>4, <2>5, <2>6, <2>7
<1>23. \A k \in 1 .. Len(r) : BlockAt(r[k]) <= ev.at
  <2> SUFFICES ASSUME NEW k \in 1 .. Len(r) PROVE BlockAt(r[k]) <= ev.at
    OBVIOUS
  <2>1. Len(u) \in Nat
    BY <1>16
  <2>2. k \in 1 .. Len(u) \/ k = Len(u) + 1
    BY <1>19, <2>1
  <2>3. ev.at <= ev.at
    BY <1>2
  <2> QED
    BY <1>2, <1>18, <1>19, <2>2, <2>3
<1>24. \A k \in 1 .. Len(c) : ev.at < BlockAt(c[k])
  BY <1>5, <1>10
<1> DEFINE new == Put(acc, ev)
<1>25. new.mixed = r /\ new.rest = c
  BY <1>6, <1>13
<1> HIDE DEF r, new
<1>26. PutAfter(X, B, E, i + 1, new)
  <2>1. E[i + 1] = ev
    BY DEF ev
  <2> QED
    BY <1>1, <1>10, <1>15, <1>19, <1>20, <1>21, <1>22, <1>23, <1>24, <1>25, <2>1 DEF PutAfter, Y
<1> QED
  BY <1>26 DEF new, ev

\* The end of the list and what is left of the blocks, as one.
LEMMA InterleavedIs ==
  ASSUME NEW X, Timeless(X), NEW B \in Seq(X), Sorted(B), NEW E \in Seq(Logged), InOrder(E)
  PROVE  LET r == Interleaved(B, E)
         IN  /\ r \in Seq(X \cup Events) /\ Sorted(r)
             /\ \A Q : (\A e \in Events : e \notin Q) => Tally(r, Q) = Tally(B, Q)
             /\ Marks(E, Len(E)) \in Seq(Events) /\ Listed(r, Events, Marks(E, Len(E)))
<1> DEFINE Y == X \cup Events
           n == Len(E)
           base == [rest |-> B, mixed |-> <<>>]
           T == [rest : Seq(X), mixed : Seq(Y)]
           F(s) == Putting!Folded(base, s)
           acc == F(E)
           r == Interleaved(B, E)
<1>1. n \in Nat /\ base \in T /\ base.rest = B /\ base.mixed = <<>>
  OBVIOUS
<1>2. ASSUME NEW z \in T, NEW ev \in Logged PROVE Put(z, ev) \in T
  <2> DEFINE rest == z.rest
             mixed == z.mixed
             d == Due(rest, ev.at)
             a == SubSeq(rest, 1, d)
             c == SubSeq(rest, d + 1, Len(rest))
             e == EventBlock(ev)
             p == Put(z, ev)
  <2>1. rest \in Seq(X) /\ mixed \in Seq(Y)
    OBVIOUS
  <2>2. e \in Events /\ ev.at \in Int
    BY EventIs
  <2>3. \A b \in X : BlockAt(b) \in Int
    BY DEF Timeless
  <2>4. p = [rest |-> p.rest, mixed |-> p.mixed] /\ p.rest = c /\ p.mixed = mixed \o a \o <<e>>
    BY PutIs
  <2>5. e \in Y /\ X \subseteq Y
    BY <2>2
  <2> HIDE DEF rest, mixed, e, Y, T, p, d
  <2>6. d \in 0 .. Len(rest)
    BY <2>1, <2>2, <2>3, DueIs DEF d
  <2>7. a \in Seq(X) /\ c \in Seq(X)
    BY <2>1, <2>6, Cut
  <2> HIDE DEF a, c
  <2>8. a \in Seq(Y)
    BY <2>5, <2>7
  <2>9. mixed \o a \o <<e>> \in Seq(Y)
    BY <2>1, <2>5, <2>8
  <2>10. p \in T
    BY <2>4, <2>7, <2>9 DEF T
  <2> QED
    BY <2>10 DEF p
<1> HIDE DEF T, base
<1>3. PICK f \in [0 .. n -> T] : Putting!Along(f, base, E) /\ acc = f[n]
  BY <1>1, <1>2, Putting!FoldLeftSteps
<1>4. r = acc.mixed \o acc.rest
  BY PutFold DEF base
<1> HIDE DEF acc, r
<1>5. f[0] = base /\ \A i \in 1 .. n : f[i] = Put(f[i - 1], E[i])
  BY <1>3 DEF Putting!Along
<1> DEFINE A == {i \in 0 .. n : PutAfter(X, B, E, i, f[i])}
<1>6. 0 \in A
  <2>1. Len(<<>>) = 0 /\ 1 .. 0 = {} /\ <<>> \in Seq(X \cup Events) /\ ~(0 > 0) /\ DOMAIN <<>> = {}
    OBVIOUS
  <2>2. Sorted(<<>>)
    BY <2>1 DEF Sorted
  <2>3. Marks(E, 0) = <<>>
    BY <2>1 DEF Marks
  <2>4. Listed(<<>>, Events, <<>>)
    BY <2>1, ListedNone
  <2>5. ASSUME NEW Q PROVE Tally(<<>>, Q) + Tally(B, Q) = Tally(B, Q)
    <3>1. Tally(<<>>, Q) = 0 /\ Tally(B, Q) \in Nat
      BY TallyOfEmpty, TallyType
    <3> QED
      BY ONLY <3>1
  <2>6. PutAfter(X, B, E, 0, base)
    BY <1>1, <2>1, <2>2, <2>3, <2>4, <2>5 DEF PutAfter
  <2> QED
    BY <1>1, <1>5, <2>6
<1>7. ASSUME NEW i \in 0 .. n - 1, i \in A PROVE i + 1 \in A
  <2>1. i + 1 \in 1 .. n /\ i + 1 \in 0 .. n /\ (i + 1) - 1 = i
    BY <1>1
  <2>2. f[i + 1] = Put(f[i], E[i + 1])
    BY <1>5, <2>1
  <2>3. PutAfter(X, B, E, i + 1, Put(f[i], E[i + 1]))
    BY <1>7, PutStep
  <2> QED
    BY <2>1, <2>2, <2>3
<1> HIDE DEF A
<1>8. \A i \in 0 .. n : i \in A
  BY <1>1, <1>6, <1>7, Putting!UpTo
<1>9. PutAfter(X, B, E, n, acc)
  BY <1>1, <1>3, <1>8 DEF A
<1> DEFINE u == acc.mixed
           v == acc.rest
           marks == Marks(E, n)
<1>10. /\ u \in Seq(Y) /\ v \in Seq(X) /\ Sorted(u) /\ Sorted(v)
       /\ n = 0 => u = <<>>
       /\ n > 0 => /\ \A k \in 1 .. Len(u) : BlockAt(u[k]) <= E[n].at
                   /\ \A k \in 1 .. Len(v) : E[n].at < BlockAt(v[k])
       /\ \A Q : (\A e \in Events : e \notin Q) => Tally(u, Q) + Tally(v, Q) = Tally(B, Q)
       /\ Listed(u, Events, marks)
  BY <1>9 DEF PutAfter
<1>11. \A b \in X : BlockAt(b) \in Int /\ b \notin Events /\ b \in Y
  BY DEF Timeless
<1>12. \A b \in Y : BlockAt(b) \in Int
  BY <1>11, BlockIs
<1>13. marks \in Seq(Events)
  <2>1. CASE n = 0
    <3>1. 1 .. 0 = {}
      OBVIOUS
    <3>2. marks = <<>>
      BY <2>1, <3>1 DEF Marks
    <3> QED
      BY <3>2
  <2>2. CASE n # 0
    <3>1. \A k \in 1 .. n : EventBlock(E[k]) \in Events
      <4> SUFFICES ASSUME NEW k \in 1 .. n PROVE EventBlock(E[k]) \in Events
        OBVIOUS
      <4>1. E[k] \in Logged
        OBVIOUS
      <4> QED
        BY <4>1, EventIs
    <3> QED
      BY <1>1, <3>1 DEF Marks
  <2> QED
    BY <2>1, <2>2
<1> HIDE DEF u, v, marks, Y
<1>14. v \in Seq(Y)
  <2>1. X \subseteq Y
    BY <1>11
  <2> QED
    BY <1>10, <2>1
<1>15. r = u \o v
  BY <1>4 DEF u, v
<1>16. r \in Seq(Y)
  BY <1>10, <1>14, <1>15
<1>17. Sorted(r)
  <2>1. ASSUME NEW i \in 1 .. Len(u), NEW j \in 1 .. Len(v) PROVE BlockAt(u[i]) <= BlockAt(v[j])
    <3>1. n # 0
      <4>1. Len(<<>>) = 0 /\ 1 .. 0 = {}
        OBVIOUS
      <4> QED
        BY <1>10, <2>1, <4>1
    <3>2. n > 0 /\ n \in 1 .. n
      BY <1>1, <3>1
    <3>3. E[n].at \in Int
      BY <3>2 DEF InOrder
    <3>4. u[i] \in Y /\ v[j] \in Y
      BY <1>10, <1>14
    <3>5. BlockAt(u[i]) \in Int /\ BlockAt(v[j]) \in Int
      BY <1>12, <3>4
    <3>6. BlockAt(u[i]) <= E[n].at /\ E[n].at < BlockAt(v[j])
      BY <1>10, <3>2
    <3> QED
      BY ONLY <3>3, <3>5, <3>6
  <2> QED
    BY <1>10, <1>14, <1>15, <2>1, SortedConcat
<1>18. ASSUME NEW Q, \A e \in Events : e \notin Q PROVE Tally(r, Q) = Tally(B, Q)
  <2>1. Tally(r, Q) = Tally(u, Q) + Tally(v, Q)
    BY <1>10, <1>14, <1>15, TallyConcat
  <2> QED
    BY <1>10, <1>18, <2>1
<1>19. Listed(r, Events, marks)
  <2>1. \A k \in DOMAIN v : v[k] \notin Events
    <3> SUFFICES ASSUME NEW k \in DOMAIN v PROVE v[k] \notin Events
      OBVIOUS
    <3>1. v[k] \in X
      BY <1>10
    <3> QED
      BY <1>11, <3>1
  <2> QED
    BY <1>10, <1>13, <1>14, <1>15, <2>1, ListedSkip
<1> QED
  BY <1>13, <1>16, <1>17, <1>18, <1>19 DEF r, Y, marks

-----------------------------------------------------------------------------
LEMMA DemoNonPresence == \A e : Demo!Web!NonPresence(e) = NonPresence(e)
  BY Zenon DEF Demo!Web!NonPresence, NonPresence, Demo!Web!OfKind, OfKind, Demo!Web!Only, Only,
     Demo!Web!Ascending, Ascending, Demo!Web!Cardinality, Cardinality,
     Demo!Web!IsFiniteSet, IsFiniteSet,
     Demo!Web!SortByAt, SortByAt, Demo!Web!Place, Place, Demo!Web!InsertAt, InsertAt,
     Demo!Web!FoldLeft, FoldLeft, Demo!Web!MapThenFoldSet, MapThenFoldSet, Demo!Web!Max, Max

LEMMA DemoPresence == \A e : Demo!Web!Presence(e) = Presence(e)
  BY Zenon DEF Demo!Web!Presence, Presence, Demo!Web!OfKind, OfKind, Demo!Web!Only, Only,
     Demo!Web!Ascending, Ascending, Demo!Web!Cardinality, Cardinality,
     Demo!Web!IsFiniteSet, IsFiniteSet,
     Demo!Web!SortByAt, SortByAt, Demo!Web!Place, Place, Demo!Web!InsertAt, InsertAt,
     Demo!Web!FoldLeft, FoldLeft, Demo!Web!MapThenFoldSet, MapThenFoldSet, Demo!Web!Max, Max

LEMMA DemoPairFold ==
  \A s : Demo!Web!Paired(s) = LET acc == PairingUp!Folded(NoPairs, Demo!Web!Presence(s))
                              IN  IF acc.start = Null THEN acc
                                  ELSE [acc EXCEPT !.off = Null, !.sessions = Append(@, Session(acc.start, Null, Null))]
  BY Zenon DEF Demo!Web!Paired, NoPairs, Demo!Web!Pair, Pair, Demo!Web!Session, Session,
     Demo!Web!FoldLeft, Demo!Web!MapThenFoldSet, Demo!Web!Max,
     PairingUp!Folded, PairingUp!FoldLeft, PairingUp!MapThenFoldSet, PairingUp!Max

LEMMA DemoPaired == \A e : Demo!Web!Paired(e) = Paired(e)
  BY DemoPresence, DemoPairFold, PairFold, Zenon

LEMMA DemoMerged == \A s : Demo!Web!Merged(s) = Merged(s)
  BY Zenon DEF Demo!Web!Merged, Merged, Demo!Web!Merge, Merge, Demo!Web!Last, Last,
     Demo!Web!FoldLeft, FoldLeft, Demo!Web!MapThenFoldSet, MapThenFoldSet, Demo!Web!Max, Max

LEMMA DemoSpaced == \A s : Demo!Web!WithGaps(s) = WithGaps(s)
  BY Zenon DEF Demo!Web!WithGaps, WithGaps, Demo!Web!Space, Space, Demo!Web!Gap, Gap, Demo!Web!Last, Last,
     Demo!Web!FoldLeft, FoldLeft, Demo!Web!MapThenFoldSet, MapThenFoldSet, Demo!Web!Max, Max

LEMMA DemoInterleaved == \A b, e : Demo!Web!Interleaved(b, e) = Interleaved(b, e)
  BY Zenon DEF Demo!Web!Interleaved, Interleaved, Demo!Web!Put, Put, Demo!Web!EventBlock, EventBlock,
     Demo!Web!BlockAt, BlockAt, Demo!Web!Min, Min,
     Demo!Web!FoldLeft, FoldLeft, Demo!Web!MapThenFoldSet, MapThenFoldSet, Demo!Web!Max, Max

LEMMA DemoBlocks == \A e, t : Demo!buildBlocks(e, t) = BuildBlocks(e, t)
<1> TAKE e, t
<1>1. Demo!Web!BuildBlocks(e, t) = BuildBlocks(e, t)
  BY DemoPaired, DemoMerged, DemoSpaced, DemoInterleaved, DemoNonPresence, Zenon
     DEF Demo!Web!BuildBlocks, BuildBlocks, Demo!Web!Reverse, Reverse, Demo!Web!Gap, Gap
<1> QED
  BY <1>1, Zenon DEF Demo!buildBlocks

-----------------------------------------------------------------------------
\* A presence row says available or unavailable.
StatesOk == \A i \in DOMAIN rows : rows[i].kind = "presence" => rows[i].state \in {"available", "unavailable"}

LEMMA StatesStart == Init => StatesOk
<1> SUFFICES ASSUME Init PROVE StatesOk
  OBVIOUS
<1>1. rows = <<>> /\ DOMAIN <<>> = {}
  BY DEF Init
<1> QED
  BY <1>1 DEF StatesOk

LEMMA StatesStay == LogOk /\ StatesOk /\ [Next]_vars => StatesOk'
<1> SUFFICES ASSUME LogOk, StatesOk, [Next]_vars PROVE StatesOk'
  OBVIOUS
<1>1. CASE Record
  <2>1. PICK k \in Kinds : rows' = Append(rows, [kind |-> k.kind, state |-> k.state, at |-> now,
                                                 lastSeen |-> IF k.seen THEN now ELSE Null])
    BY <1>1 DEF Record
  <2> DEFINE e == [kind |-> k.kind, state |-> k.state, at |-> now,
                   lastSeen |-> IF k.seen THEN now ELSE Null]
  <2>2. e.kind = k.kind /\ e.state = k.state /\ rows' = Append(rows, e)
    BY <2>1
  <2>3. rows \in Seq(Logged)
    BY DEF LogOk
  <2> HIDE DEF e
  <2>4. /\ DOMAIN rows = 1 .. Len(rows) /\ Len(rows) \in Nat /\ DOMAIN rows' = 1 .. Len(rows) + 1
        /\ \A i \in 1 .. Len(rows) : rows'[i] = rows[i]
        /\ rows'[Len(rows) + 1] = e
    BY <2>2, <2>3
  <2>5. ASSUME NEW i \in DOMAIN rows', rows'[i].kind = "presence"
        PROVE  rows'[i].state \in {"available", "unavailable"}
    <3>1. i \in DOMAIN rows \/ i = Len(rows) + 1
      BY <2>4
    <3>2. CASE i \in DOMAIN rows
      BY <2>4, <2>5, <3>2 DEF StatesOk
    <3>3. CASE i = Len(rows) + 1
      BY <2>2, <2>4, <2>5, <3>3, KindsAssumption
    <3> QED
      BY <3>1, <3>2, <3>3
  <2> QED
    BY <2>5 DEF StatesOk
<1>2. CASE UNCHANGED rows
  BY <1>2 DEF StatesOk
<1> QED
  BY <1>1, <1>2 DEF Next, Tick, Mount, LoadMore, vars

\* The rows a timeline is made of.
TimelineRows(entries) ==
  LET p == Presence(entries)
      E == NonPresence(entries)
  IN  /\ p \in Seq(Logged) /\ InOrder(p) /\ (\A i \in DOMAIN p : p[i].state \in {"available", "unavailable"})
      /\ E \in Seq(Logged) /\ InOrder(E)

\* Where the presence rows of a log in order come from.
LEMMA PresenceOf ==
  ASSUME NEW log \in Seq(Logged), InOrder(log)
  PROVE  LET I == {i \in DOMAIN log : log[i].kind \in {"presence"}}
             p == Presence(log)
             a == Ascending(I)
         IN  /\ p = Only(log, I) /\ p \in Seq(Logged) /\ InOrder(p)
             /\ \A k, l \in DOMAIN p : k < l => a[k] < a[l]
             /\ \A i \in I : \E k \in DOMAIN p : a[k] = i
             /\ \A k \in DOMAIN p : a[k] \in I /\ p[k] = log[a[k]]
<1> DEFINE I == {i \in DOMAIN log : log[i].kind \in {"presence"}}
<1>1. I \in SUBSET DOMAIN log /\ Presence(log) = SortByAt(Only(log, I))
  BY DEF Presence, OfKind
<1> HIDE DEF I
<1>2. /\ Presence(log) = Only(log, I) /\ Presence(log) \in Seq(Logged) /\ InOrder(Presence(log))
      /\ \A k, l \in DOMAIN Presence(log) : k < l => Ascending(I)[k] < Ascending(I)[l]
      /\ \A i \in I : \E k \in DOMAIN Presence(log) : Ascending(I)[k] = i
      /\ \A k \in DOMAIN Presence(log) : Ascending(I)[k] \in I /\ Presence(log)[k] = log[Ascending(I)[k]]
  BY <1>1, OnlySomeOf
<1> QED
  BY <1>2, Zenon DEF I

LEMMA TimelineRowsAre ==
  ASSUME NEW log \in Seq(Logged), InOrder(log),
         \A i \in DOMAIN log : log[i].kind = "presence" => log[i].state \in {"available", "unavailable"}
  PROVE  TimelineRows(log)
<1> DEFINE I == {i \in DOMAIN log : log[i].kind \in {"presence"}}
           J == {i \in DOMAIN log : log[i].kind \in {"picture", "about"}}
           p == Presence(log)
           E == NonPresence(log)
           a == Ascending(I)
<1>1. /\ p \in Seq(Logged) /\ InOrder(p)
      /\ \A k \in DOMAIN p : a[k] \in I /\ p[k] = log[a[k]]
  BY PresenceOf
<1>3. \A i \in DOMAIN p : p[i].state \in {"available", "unavailable"}
  BY <1>1
<1>4. J \in SUBSET DOMAIN log /\ E = SortByAt(Only(log, J))
  BY DEF NonPresence, OfKind
<1> HIDE DEF J
<1>5. E \in Seq(Logged) /\ InOrder(E)
  BY <1>4, OnlySomeOf
<1> QED
  BY <1>1, <1>3, <1>5 DEF TimelineRows

\* Newest first.
Falls(b) == \A i, j \in 1 .. Len(b) : i < j => BlockAt(b[j]) <= BlockAt(b[i])

LEMMA ReverseFalls ==
  ASSUME NEW X, NEW b \in Seq(X), Sorted(b) PROVE Falls(Reverse(b))
<1> DEFINE n == Len(b)
           r == Reverse(b)
<1>1. n \in Nat /\ Len(r) = n /\ \A i \in 1 .. n : n + 1 - i \in 1 .. n /\ r[i] = b[n + 1 - i]
  BY Reversed
<1>2. \A i, j \in 1 .. n : i < j => BlockAt(b[i]) <= BlockAt(b[j])
  BY DEF Sorted
<1> HIDE DEF n, r
<1>3. ASSUME NEW i \in 1 .. n, NEW j \in 1 .. n, i < j PROVE BlockAt(r[j]) <= BlockAt(r[i])
  <2>1. n + 1 - j \in 1 .. n /\ n + 1 - i \in 1 .. n /\ n + 1 - j < n + 1 - i
    BY <1>1, <1>3
  <2> QED
    BY <1>1, <1>2, <2>1
<1> QED
  BY <1>1, <1>3 DEF Falls, r

LEMMA TailFalls ==
  ASSUME NEW X, NEW b \in Seq(X), b # <<>>, Falls(b) PROVE Falls(Tail(b))
<1> DEFINE n == Len(b)
           c == Tail(b)
<1>1. n \in Nat /\ n > 0 /\ Len(c) = n - 1 /\ \A i \in 1 .. n - 1 : c[i] = b[i + 1]
  OBVIOUS
<1>2. \A i, j \in 1 .. n : i < j => BlockAt(b[j]) <= BlockAt(b[i])
  BY DEF Falls
<1> HIDE DEF n, c
<1>3. ASSUME NEW i \in 1 .. n - 1, NEW j \in 1 .. n - 1, i < j PROVE BlockAt(c[j]) <= BlockAt(c[i])
  <2>1. i + 1 \in 1 .. n /\ j + 1 \in 1 .. n /\ i + 1 < j + 1
    BY <1>1, <1>3
  <2> QED
    BY <1>1, <1>2, <2>1
<1> QED
  BY <1>1, <1>3 DEF Falls, c

-----------------------------------------------------------------------------
\* What is below the gap that lasts until now.
Below(b) == IF b # <<>> /\ b[1].type = "offline-gap" THEN Tail(b) ELSE b

\* A timeline of the rows p and the events E, whose sessions are those of M.
TimelineOf(p, E, M, b) ==
  /\ b \in Seq((Sess \cup Clear(M, p)) \cup Events)
  /\ \A t \in Int : /\ Shown(M, t) <=> InSession(p, t)
                    /\ Tally(b, Drawns(t)) = IF Shown(M, t) THEN 1 ELSE 0
  /\ Marks(E, Len(E)) \in Seq(Events) /\ Listed(b, Events, Reverse(Marks(E, Len(E))))
  /\ Falls(Below(b))

LEMMA BuiltIs ==
  ASSUME NEW entries, TimelineRows(entries), now \in Int
  PROVE  \E M : TimelineOf(Presence(entries), NonPresence(entries), M, BuildBlocks(entries, now))
<1> DEFINE p == Presence(entries)
           E == NonPresence(entries)
           n == Len(p)
           pair == Paired(entries)
           S == pair.sessions
           M == Merged(S)
           X == Sess \cup Clear(M, p)
           Y == X \cup Events
           B == WithGaps(M)
           c == Interleaved(B, E)
           r == Reverse(c)
           g == Gap(pair.off, now)
           b == BuildBlocks(entries, now)
           marks == Marks(E, Len(E))
<1>1. /\ p \in Seq(Logged) /\ InOrder(p) /\ (\A i \in DOMAIN p : p[i].state \in {"available", "unavailable"})
      /\ E \in Seq(Logged) /\ InOrder(E)
  BY DEF TimelineRows
<1>2. now \in Int
  OBVIOUS
<1>3. b = IF pair.off # Null /\ now - pair.off > ShownGap THEN <<g>> \o r ELSE r
  BY DEF BuildBlocks
<1>4. /\ S \in Seq(Sess)
      /\ \E open, close : Runs(p, n, Len(S), open, close) /\ Times(p, n, S, open, close)
      /\ pair.off # Null => n > 0 /\ ~On(p, n) /\ pair.off = p[n].at
  <2> HIDE DEF p
  <2>1. p = Presence(entries)
    BY DEF p
  <2> QED
    BY <1>1, <2>1, PairedIs
<1> HIDE DEF p, E, pair, b
<1>5. PICK open, close : RunsOf(p, S, open, close)
  BY <1>1, <1>4 DEF RunsOf
<1> HIDE DEF S
<1>6. InTurn(S)
  BY <1>5, RunsRow
<1>7. MergedAfter(S, Len(S), M)
  BY <1>4, <1>6, MergedIs
<1> HIDE DEF M
<1>8. /\ M \in Seq(Sess) /\ InTurn(M) /\ \A j, k \in 1 .. Len(M) : k = j + 1 => M[k].startAt - M[j].endAt > MergeGap
      /\ \A t \in Int : Shown(M, t) <=> \E k \in 1 .. Len(S) : Covers(S, k, Len(S), t)
      /\ \A j \in 1 .. Len(M) : \E k \in 1 .. Len(S) : M[j].startAt = S[k].startAt
  BY <1>7 DEF MergedAfter
<1>9. \A t \in Int : Shown(M, t) <=> InSession(p, t)
  BY <1>5, <1>8, InSessionIs
<1>17. After(M, p)
  <2>3. /\ n \in Nat
        /\ \A i \in 1 .. n : p[i].at \in Int
        /\ \A l \in 1 .. Len(S) : /\ open[l] \in 1 .. n /\ close[l] \in 1 .. n + 1 /\ open[l] < close[l]
                                  /\ S[l].startAt = p[open[l]].at
                                  /\ close[l] <= n => S[l].endAt = p[close[l]].at /\ S[l].endAt # Null
    BY ONLY <1>5, RunFacts
  <2>1. /\ DOMAIN p = 1 .. n
        /\ \A i \in 1 .. n : p[i].at \in Int
        /\ \A k \in 1 .. Len(S) : open[k] \in 1 .. n /\ S[k].startAt = p[open[k]].at
    BY <1>1, <2>3
  <2>2. ASSUME NEW j \in 1 .. Len(M) PROVE Begun(p, M[j].startAt)
    <3>1. PICK k \in 1 .. Len(S) : M[j].startAt = S[k].startAt
      BY <1>8
    <3>2. open[k] \in DOMAIN p /\ p[open[k]].at = M[j].startAt /\ M[j].startAt \in Int
      BY <2>1, <3>1
    <3>3. p[open[k]].at <= M[j].startAt
      BY <3>2
    <3> QED
      BY <3>2, <3>3 DEF Begun
  <2> QED
    BY <2>1, <2>2 DEF After
<1>10. SpacedAfter(M, p, Len(M), B)
  BY <1>8, <1>17, SpacedIs
<1> HIDE DEF B
<1>11. /\ B \in Seq(X) /\ Sorted(B)
       /\ \A t \in Int : Tally(B, Drawns(t)) = IF Shown(M, t) THEN 1 ELSE 0
  BY <1>10 DEF SpacedAfter, Shown
<1>12. Timeless(X)
  BY BlockIs DEF Timeless
<1> HIDE DEF X
<1>13. /\ c \in Seq(Y) /\ Sorted(c)
       /\ \A Q : (\A e \in Events : e \notin Q) => Tally(c, Q) = Tally(B, Q)
       /\ marks \in Seq(Events) /\ Listed(c, Events, marks)
  BY <1>1, <1>11, <1>12, InterleavedIs
<1> HIDE DEF c, marks, Y
<1>14. /\ r \in Seq(Y) /\ Falls(r) /\ Listed(r, Events, Reverse(marks))
       /\ \A t \in Int : Tally(r, Drawns(t)) = IF Shown(M, t) THEN 1 ELSE 0
  <2>1. r \in Seq(Y)
    BY <1>13, Reversed
  <2>2. Falls(r)
    BY <1>13, ReverseFalls
  <2>3. Listed(r, Events, Reverse(marks))
    BY <1>13, ListedReverse
  <2>4. ASSUME NEW t \in Int PROVE Tally(r, Drawns(t)) = IF Shown(M, t) THEN 1 ELSE 0
    <3>1. Tally(r, Drawns(t)) = Tally(c, Drawns(t))
      BY <1>13, TallyReverse
    <3>2. \A e \in Events : e \notin Drawns(t)
      BY BlockIs DEF Drawns
    <3>3. Tally(c, Drawns(t)) = Tally(B, Drawns(t))
      BY <1>13, <3>2
    <3> QED
      BY <1>11, <3>1, <3>3
  <2> QED
    BY <2>1, <2>2, <2>3, <2>4
<1> HIDE DEF r
<1>15. CASE pair.off # Null /\ now - pair.off > ShownGap
  <2>1. n > 0 /\ ~On(p, n) /\ pair.off = p[n].at /\ n \in 1 .. n
    BY <1>1, <1>4, <1>15
  <2>2. p[n].at \in Int /\ pair.off \in Int
    BY <1>1, <2>1 DEF InOrder
  <2>3. \A t : Drawn(g, t) <=> pair.off <= t /\ t < now
    BY DEF Gap, Drawn
  <2>4. ASSUME NEW t \in Int, Drawn(g, t), Shown(M, t) PROVE FALSE
    <3>1. PICK k \in 1 .. Len(S) : Covers(S, k, Len(S), t)
      BY <1>8, <2>4
    <3>2. /\ n \in Nat
          /\ \A i \in 1 .. n : p[i].at \in Int
          /\ \A i, j \in 1 .. n : i <= j => p[i].at <= p[j].at
          /\ \A l \in 1 .. Len(S) : /\ open[l] \in 1 .. n /\ close[l] \in 1 .. n + 1 /\ open[l] < close[l]
                                    /\ S[l].startAt = p[open[l]].at
                                    /\ close[l] <= n => S[l].endAt = p[close[l]].at /\ S[l].endAt # Null
          /\ \A i \in 1 .. n : On(p, i) <=> \E l \in 1 .. Len(S) : open[l] <= i /\ i < close[l]
      <4>1. /\ n \in Nat
            /\ \A i \in 1 .. n : p[i].at \in Int
            /\ \A l \in 1 .. Len(S) : /\ open[l] \in 1 .. n /\ close[l] \in 1 .. n + 1 /\ open[l] < close[l]
                                      /\ S[l].startAt = p[open[l]].at
                                      /\ close[l] <= n => S[l].endAt = p[close[l]].at /\ S[l].endAt # Null
        BY ONLY <1>5, RunFacts
      <4>2. \A i, j \in 1 .. n : i <= j => p[i].at <= p[j].at
        BY ONLY <1>5, RunFacts
      <4>3. \A i \in 1 .. n : On(p, i) <=> \E l \in 1 .. Len(S) : open[l] <= i /\ i < close[l]
        BY ONLY <1>5 DEF RunsOf, Runs
      <4> QED
        BY ONLY <4>1, <4>2, <4>3
    <3>3. close[k] <= n /\ close[k] \in 1 .. n
      <4>1. ~(open[k] <= n /\ n < close[k])
        BY <2>1, <3>2
      <4>2. open[k] \in 1 .. n /\ close[k] \in 1 .. n + 1
        BY <3>2
      <4> QED
        BY <3>2, <4>1, <4>2
    <3>4. S[k].endAt # Null /\ S[k].endAt <= p[n].at /\ S[k].endAt \in Int
      BY <2>1, <3>2, <3>3
    <3>5. pair.off <= t
      BY <2>3, <2>4
    <3>6. k < Len(S) => S[k + 1].startAt <= p[n].at /\ S[k + 1].startAt \in Int
      <4> SUFFICES ASSUME k < Len(S) PROVE S[k + 1].startAt <= p[n].at /\ S[k + 1].startAt \in Int
        OBVIOUS
      <4>1. k + 1 \in 1 .. Len(S)
        BY <1>4
      <4>2. open[k + 1] \in 1 .. n /\ S[k + 1].startAt = p[open[k + 1]].at
        BY <3>2, <4>1
      <4>3. open[k + 1] <= n
        BY <3>2, <4>2
      <4> QED
        BY <2>1, <3>2, <4>2, <4>3
    <3>7. ~(t < S[k].endAt) /\ (k < Len(S) => ~(t < S[k + 1].startAt))
      BY <2>1, <2>2, <3>4, <3>5, <3>6
    <3> QED
      BY <3>1, <3>4, <3>7 DEF Covers
  <2>5. g \in Clear(M, p)
    <3>1. g \in [type : {"offline-gap"}, fromAt : Int, toAt : Int]
      BY <1>2, <2>2 DEF Gap
    <3>2. ASSUME NEW t \in Int, Drawn(g, t) PROVE Begun(p, t)
      <4>1. p[n].at <= t /\ n \in DOMAIN p
        BY <1>1, <2>1, <2>3, <3>2
      <4> QED
        BY <4>1 DEF Begun
    <3> HIDE DEF g
    <3> QED
      BY <2>4, <3>1, <3>2 DEF Clear
  <2>6. g.type = "offline-gap" /\ g \notin Events /\ \A t : g \notin Drawns(t)
    BY <2>5, BlockIs DEF Drawns
  <2>7. g \in Y
    BY <2>5 DEF X, Y
  <2> HIDE DEF g
  <2> DEFINE d == <<g>> \o r
  <2>8. d \in Seq(Y) /\ d # <<>> /\ d[1] = g /\ Tail(d) = r
    <3>1. d \in Seq(Y) /\ Len(d) = 1 + Len(r) /\ Len(r) \in Nat /\ d[1] = g
      BY <1>14, <2>7
    <3>2. \A i \in 1 .. Len(r) : d[1 + i] = r[i]
      BY <1>14, <2>7
    <3> HIDE DEF d
    <3> DEFINE e == Tail(d)
    <3>3. d # <<>> /\ e \in Seq(Y) /\ Len(e) = Len(r) /\ \A i \in 1 .. Len(r) : e[i] = d[i + 1]
      BY <3>1
    <3> HIDE DEF e
    <3>4. \A i \in 1 .. Len(r) : e[i] = r[i]
      <4>1. \A i \in 1 .. Len(r) : i + 1 = 1 + i
        BY <3>1
      <4> QED
        BY <3>2, <3>3, <4>1
    <3>5. e = [i \in 1 .. Len(r) |-> e[i]] /\ r = [i \in 1 .. Len(r) |-> r[i]]
      BY <1>14, <3>3
    <3>6. e = r
      BY <3>4, <3>5
    <3> QED
      BY <3>1, <3>3, <3>6 DEF e
  <2>9. Listed(d, Events, Reverse(marks))
    <3>1. Reverse(marks) \in Seq(Events)
      BY <1>13, Reversed
    <3> QED
      BY <1>14, <2>6, <2>7, <3>1, ListedBehind
  <2>10. ASSUME NEW t \in Int PROVE Tally(d, Drawns(t)) = IF Shown(M, t) THEN 1 ELSE 0
    <3>1. Tally(d, Drawns(t)) = Tally(<<g>>, Drawns(t)) + Tally(r, Drawns(t))
      <4>1. <<g>> \in Seq(Y)
        BY <2>7
      <4> QED
        BY <1>14, <4>1, TallyConcat
    <3>2. Tally(<<g>>, Drawns(t)) = 0
      <4>1. {i \in DOMAIN <<g>> : <<g>>[i] \in Drawns(t)} = {}
        BY <2>6
      <4> QED
        BY <4>1, FS_EmptySet DEF Tally
    <3>3. Tally(r, Drawns(t)) \in Nat
      BY <1>14, TallyType
    <3>4. Tally(d, Drawns(t)) = Tally(r, Drawns(t))
      BY ONLY <3>1, <3>2, <3>3
    <3> QED
      BY <1>14, <3>4
  <2> HIDE DEF d
  <2>11. Falls(Below(d))
    BY <1>14, <2>6, <2>8 DEF Below
  <2>12. b = d
    BY <1>3, <1>15 DEF d
  <2>13. TimelineOf(p, E, M, b)
    BY <1>9, <1>13, <2>8, <2>9, <2>10, <2>11, <2>12 DEF TimelineOf, X, Y, marks
  <2> QED
    BY <2>13 DEF p, E, b
<1>16. CASE ~(pair.off # Null /\ now - pair.off > ShownGap)
  <2>1. b = r
    BY <1>3, <1>16
  <2>2. Falls(Below(r))
    BY <1>14, TailFalls DEF Below
  <2>3. TimelineOf(p, E, M, b)
    BY <1>9, <1>13, <1>14, <2>1, <2>2 DEF TimelineOf, X, Y, marks
  <2> QED
    BY <2>3 DEF p, E, b
<1> QED
  BY <1>15, <1>16

-----------------------------------------------------------------------------
LEMMA TypesOfBlocks ==
  ASSUME NEW M, NEW p, NEW b \in (Sess \cup Clear(M, p)) \cup Events
  PROVE  /\ b.type = "session" <=> b \in Sess
         /\ b.type = "event" <=> b \in Events
         /\ b.type = "offline-gap" <=> b \in Clear(M, p)
<1>1. "session" # "event" /\ "session" # "offline-gap" /\ "event" # "offline-gap"
  OBVIOUS
<1>2. CASE b \in Sess
  BY <1>1, <1>2, BlockIs
<1>3. CASE b \in Clear(M, p)
  BY <1>1, <1>3, BlockIs
<1>4. CASE b \in Events
  BY <1>1, <1>4, BlockIs
<1> QED
  BY <1>2, <1>3, <1>4

\* What a timeline of some rows says of every moment.
FaithfulTo(entries, blocks) ==
  /\ \A t \in Int : /\ SessionsAt(blocks, t) = (IF InSession(Presence(entries), t) THEN 1 ELSE 0)
                    /\ GapAt(blocks, t) => ~InSession(Presence(entries), t) /\ Begun(Presence(entries), t)
  /\ EventsOnce(blocks, entries) /\ Downwards(blocks)

LEMMA FaithfulIs ==
  ASSUME NEW entries, NEW M, NEW b, TimelineOf(Presence(entries), NonPresence(entries), M, b),
         NonPresence(entries) \in Seq(Logged)
  PROVE  FaithfulTo(entries, b)
<1> DEFINE p == Presence(entries)
           E == NonPresence(entries)
           Y == (Sess \cup Clear(M, p)) \cup Events
           of(type) == {i \in DOMAIN b : b[i].type = type}
           marks == Marks(E, Len(E))
           back == Reverse(marks)
           events == Only(b, of("event"))
<1>1. /\ b \in Seq(Y)
      /\ \A t \in Int : /\ Shown(M, t) <=> InSession(p, t)
                        /\ Tally(b, Drawns(t)) = IF Shown(M, t) THEN 1 ELSE 0
      /\ marks \in Seq(Events) /\ Listed(b, Events, back)
      /\ Falls(Below(b))
  BY DEF TimelineOf
<1>2. \A i \in DOMAIN b : b[i] \in Y
  BY <1>1
<1>4. ASSUME NEW t \in Int
      PROVE  SessionsAt(b, t) = (IF InSession(p, t) THEN 1 ELSE 0)
  <2>1. {i \in DOMAIN b : b[i].type = "session" /\ Drawn(b[i], t)} = {i \in DOMAIN b : b[i] \in Drawns(t)}
    <3>1. \A i \in DOMAIN b : b[i].type = "session" <=> b[i] \in Sess
      BY <1>2, TypesOfBlocks
    <3> QED
      BY <3>1 DEF Drawns
  <2>3. Tally(b, Drawns(t)) = IF InSession(p, t) THEN 1 ELSE 0
    BY <1>1
  <2> QED
    BY <2>1, <2>3 DEF Tally, SessionsAt
<1>5. ASSUME NEW t \in Int, GapAt(b, t) PROVE ~InSession(p, t) /\ Begun(p, t)
  <2>1. PICK i \in DOMAIN b : b[i].type = "offline-gap" /\ Drawn(b[i], t)
    BY <1>5 DEF GapAt
  <2>2. b[i] \in Clear(M, p)
    BY <1>2, <2>1, TypesOfBlocks
  <2>3. ~Shown(M, t) /\ Begun(p, t)
    BY <2>1, <2>2 DEF Clear
  <2> QED
    BY <1>1, <2>3
<1>6. [i \in DOMAIN events |-> events[i].ev] = Reverse(E)
  <2>1. of("event") = {i \in DOMAIN b : b[i] \in Events}
    <3>1. \A i \in DOMAIN b : b[i].type = "event" <=> b[i] \in Events
      BY <1>2, TypesOfBlocks
    <3> QED
      BY <3>1
  <2>2. back \in Seq(Events)
    BY <1>1, Reversed
  <2>3. Only(b, {i \in DOMAIN b : b[i] \in Events}) = back
    BY <1>1, <2>2, ListedIs
  <2>4. events = back
    BY <2>1, <2>3
  <2> HIDE DEF events, E, back, marks
  <2> DEFINE n == Len(E)
             e == Reverse(E)
  <2>5. /\ e \in Seq(Logged) /\ Len(e) = n /\ n \in Nat /\ DOMAIN e = 1 .. n
        /\ \A i \in 1 .. n : n + 1 - i \in 1 .. n /\ e[i] = E[n + 1 - i]
    BY Reversed DEF E
  <2>6. E \in Seq(Logged)
    BY DEF E
  <2> HIDE DEF n, e
  <2>7. marks \in Seq(Events) /\ Len(marks) = n /\ \A i \in 1 .. n : marks[i] = EventBlock(E[i])
    <3>1. marks = [k \in 1 .. n |-> EventBlock(E[k])]
      BY DEF marks, Marks, n
    <3> QED
      BY <1>1, <2>5, <3>1
  <2>8. DOMAIN back = 1 .. n /\ \A i \in 1 .. n : back[i] = marks[n + 1 - i]
    BY <2>7, Reversed DEF back
  <2>9. ASSUME NEW i \in 1 .. n PROVE back[i].ev = e[i]
    <3>1. n + 1 - i \in 1 .. n /\ E[n + 1 - i] \in Logged
      BY <2>5, <2>6 DEF n
    <3>2. back[i] = EventBlock(E[n + 1 - i])
      BY <2>7, <2>8, <3>1
    <3> QED
      BY <2>5, <3>1, <3>2, EventIs
  <2>10. e = [i \in 1 .. n |-> e[i]]
    BY <2>5
  <2>11. [i \in 1 .. n |-> back[i].ev] = e
    BY <2>9, <2>10
  <2>12. DOMAIN events = 1 .. n
    BY <2>4, <2>8
  <2> QED
    BY <2>4, <2>11, <2>12 DEF e
<1>7. \A i \in 2 .. Len(Below(b)) : BlockAt(Below(b)[i]) <= BlockAt(Below(b)[i - 1])
  <2> SUFFICES ASSUME NEW i \in 2 .. Len(Below(b)) PROVE BlockAt(Below(b)[i]) <= BlockAt(Below(b)[i - 1])
    OBVIOUS
  <2>1. Below(b) \in Seq(Y)
    BY <1>1 DEF Below
  <2>2. Len(Below(b)) \in Nat
    BY <2>1
  <2>3. i - 1 \in 1 .. Len(Below(b)) /\ i \in 1 .. Len(Below(b)) /\ i - 1 < i
    BY <2>2
  <2> QED
    BY <1>1, <2>3 DEF Falls
<1>8. EventsOnce(b, entries)
  <2>1. {i \in DOMAIN b : b[i].type = "event"} = of("event")
    OBVIOUS
  <2> QED
    BY <1>6, <2>1, Zenon DEF EventsOnce
<1>9. Downwards(b)
  BY <1>7, Zenon DEF Downwards, Below
<1> QED
  BY <1>4, <1>5, <1>8, <1>9 DEF FaithfulTo

\* What buildBlocks draws of rows in order is faithful to those rows.
LEMMA BuiltFaithful ==
  ASSUME NEW log \in Seq(Logged), InOrder(log), now \in Int,
         \A i \in DOMAIN log : log[i].kind = "presence" => log[i].state \in {"available", "unavailable"}
  PROVE  FaithfulTo(log, BuildBlocks(log, now))
<1>1. TimelineRows(log)
  BY TimelineRowsAre
<1>2. PICK M : TimelineOf(Presence(log), NonPresence(log), M, BuildBlocks(log, now))
  BY <1>1, BuiltIs
<1> QED
  BY <1>1, <1>2, FaithfulIs DEF TimelineRows

\* For any log and any two thresholds the code may use, the demo's timeline, which
\* is one for the whole log, draws every moment online in exactly one session and
\* none else but the short pauses, no gap over a session, and every picture and
\* about change once, newest first (demo sessions.ts, buildBlocks).
THEOREM BlocksAreFaithful == Spec => []BlocksFaithful
<1>1. LogOk /\ StatesOk => BlocksFaithful
  <2> SUFFICES ASSUME LogOk, StatesOk PROVE BlocksFaithful
    OBVIOUS
  <2>1. FaithfulTo(rows, BuildBlocks(rows, now))
    BY BuiltFaithful DEF LogOk, StatesOk
  <2>2. \A t \in Start .. now - 1 : t \in Int
    BY PagesAssumption DEF LogOk
  <2>3. FaithfulTo(rows, Demo!buildBlocks(rows, now))
    BY <2>1, DemoBlocks
  <2> QED
    BY <2>2, <2>3, Zenon DEF BlocksFaithful, FaithfulTo
<1>2. Spec => []StatesOk
  BY LogIsOrdered, StatesStart, StatesStay, PTL DEF Spec
<1> QED
  BY <1>1, <1>2, LogIsOrdered, PTL

-----------------------------------------------------------------------------
\* The presence rows q of a UTC day among those of the log, p: the j-th is the
\* e[j]-th, their order is that of the log, and none of the day is left out.
Within(p, q, d, e) ==
  /\ e \in [1 .. Len(q) -> 1 .. Len(p)]
  /\ \A j \in 1 .. Len(q) : p[e[j]] = q[j] /\ IsoDay(q[j].at) = d
  /\ \A j, k \in 1 .. Len(q) : j < k => e[j] < e[k]
  /\ \A k \in 1 .. Len(p) : IsoDay(p[k].at) = d => \E j \in 1 .. Len(q) : e[j] = k

LEMMA DayWithin ==
  ASSUME NEW log \in Seq(Logged), InOrder(log), NEW d,
         NEW I, I = {i \in DOMAIN log : IsoDay(log[i].at) = d}
  PROVE  \E e : Within(Presence(log), Presence(Only(log, I)), d, e)
<1> DEFINE s == Only(log, I)
           P == {i \in DOMAIN log : log[i].kind \in {"presence"}}
           C == {i \in DOMAIN s : s[i].kind \in {"presence"}}
           p == Presence(log)
           q == Presence(s)
           a == Ascending(P)
           b == Ascending(I)
           c == Ascending(C)
<1>1. /\ s \in Seq(Logged) /\ InOrder(s)
      /\ \A k, l \in DOMAIN s : k < l => b[k] < b[l]
      /\ \A i \in I : \E k \in DOMAIN s : b[k] = i
      /\ \A k \in DOMAIN s : b[k] \in I /\ s[k] = log[b[k]]
  <2>1. I \in SUBSET DOMAIN log
    OBVIOUS
  <2> QED
    BY <2>1, OnlySomeOf
<1>2. /\ p \in Seq(Logged)
      /\ \A k, l \in DOMAIN p : k < l => a[k] < a[l]
      /\ \A i \in P : \E k \in DOMAIN p : a[k] = i
      /\ \A k \in DOMAIN p : a[k] \in P /\ p[k] = log[a[k]]
  BY PresenceOf, Zenon
<1> HIDE DEF s
<1>3. /\ q \in Seq(Logged)
      /\ \A k, l \in DOMAIN q : k < l => c[k] < c[l]
      /\ \A i \in C : \E k \in DOMAIN q : c[k] = i
      /\ \A k \in DOMAIN q : c[k] \in C /\ q[k] = s[c[k]]
  BY <1>1, PresenceOf, Zenon
<1>4. DOMAIN log = 1 .. Len(log) /\ DOMAIN s = 1 .. Len(s) /\ DOMAIN p = 1 .. Len(p) /\ DOMAIN q = 1 .. Len(q)
      /\ Len(p) \in Nat /\ Len(q) \in Nat
  BY <1>1, <1>2, <1>3
<1> HIDE DEF a, b, c, p, q
<1> DEFINE e == [j \in 1 .. Len(q) |-> CHOOSE k \in 1 .. Len(p) : a[k] = b[c[j]]]
<1>5. ASSUME NEW j \in 1 .. Len(q)
      PROVE  /\ c[j] \in DOMAIN s /\ b[c[j]] \in I /\ q[j] = log[b[c[j]]]
             /\ e[j] \in 1 .. Len(p) /\ a[e[j]] = b[c[j]]
  <2>1. c[j] \in C /\ q[j] = s[c[j]]
    BY <1>3, <1>4
  <2>2. c[j] \in DOMAIN s /\ s[c[j]].kind = "presence"
    BY <2>1
  <2>3. b[c[j]] \in I /\ s[c[j]] = log[b[c[j]]]
    BY <1>1, <2>2
  <2>4. b[c[j]] \in P
    BY <2>2, <2>3
  <2>5. \E k \in 1 .. Len(p) : a[k] = b[c[j]]
    BY <1>2, <1>4, <2>4
  <2> QED
    BY <2>1, <2>2, <2>3, <2>5
<1> HIDE DEF e
<1>6. e \in [1 .. Len(q) -> 1 .. Len(p)]
  BY <1>5 DEF e
<1>7. ASSUME NEW j \in 1 .. Len(q) PROVE p[e[j]] = q[j] /\ IsoDay(q[j].at) = d
  <2>1. p[e[j]] = log[a[e[j]]]
    BY <1>2, <1>4, <1>5
  <2> QED
    BY <1>5, <2>1
<1>8. \A i \in I : i \in Int
  BY <1>4
<1>9. ASSUME NEW j \in 1 .. Len(q), NEW k \in 1 .. Len(q), j < k PROVE e[j] < e[k]
  <2>1. c[j] < c[k]
    BY <1>3, <1>4, <1>9
  <2>2. b[c[j]] < b[c[k]]
    BY <1>1, <1>5, <2>1
  <2> DEFINE x == e[j]
             y == e[k]
             u == a[x]
             v == a[y]
  <2>3. x \in 1 .. Len(p) /\ y \in 1 .. Len(p) /\ u < v /\ u \in Int /\ v \in Int
    BY <1>5, <1>8, <2>2
  <2>4. y < x => v < u
    BY <1>2, <1>4, <2>3
  <2>5. y = x => v = u
    OBVIOUS
  <2> HIDE DEF x, y, u, v
  <2>6. x < y
    BY <1>4, <2>3, <2>4, <2>5
  <2> QED
    BY <2>6 DEF x, y
<1>10. ASSUME NEW k \in 1 .. Len(p), IsoDay(p[k].at) = d PROVE \E j \in 1 .. Len(q) : e[j] = k
  <2>1. a[k] \in P /\ p[k] = log[a[k]]
    BY <1>2, <1>4
  <2>2. a[k] \in I
    BY <1>10, <2>1
  <2>3. PICK l \in DOMAIN s : b[l] = a[k]
    BY <1>1, <2>2
  <2>4. l \in C
    BY <1>1, <2>1, <2>3
  <2>5. PICK j \in 1 .. Len(q) : c[j] = l
    BY <1>3, <1>4, <2>4
  <2> DEFINE x == e[j]
  <2>6. x \in 1 .. Len(p) /\ a[x] = a[k] /\ a[k] \in Int
    BY <1>5, <1>8, <2>2, <2>3, <2>5
  <2> HIDE DEF x
  <2>7. x = k
    <3>1. x < k => a[x] < a[k]
      BY <1>2, <1>4, <2>6
    <3>2. k < x => a[k] < a[x]
      BY <1>2, <1>4, <2>6
    <3> QED
      BY <1>4, <2>6, <3>1, <3>2
  <2> QED
    BY <2>7 DEF x
<1>11. Within(p, q, d, e)
  BY <1>6, <1>7, <1>9, <1>10 DEF Within
<1> QED
  BY <1>11 DEF p, q, s

\* Presence rows in order, and what of them belongs to a UTC day.
DayOf(p, q, d, e) ==
  /\ p \in Seq(Logged) /\ InOrder(p) /\ q \in Seq(Logged) /\ InOrder(q) /\ d \in Int
  /\ Within(p, q, d, e)

\* The rows of a day lie between its two midnights, and none between two of them is missing.
LEMMA DayFacts ==
  ASSUME NEW p, NEW q, NEW d, NEW e, DayOf(p, q, d, e), NEW t \in Int, IsoDay(t) = d,
         NEW n, n = Len(p), NEW m, m = Len(q)
  PROVE  /\ n \in Nat /\ m \in Nat /\ DOMAIN p = 1 .. n /\ DOMAIN q = 1 .. m
         /\ \A k \in 1 .. n : p[k].at \in Int
         /\ \A k, l \in 1 .. n : k <= l => p[k].at <= p[l].at
         /\ \A j \in 1 .. m : e[j] \in 1 .. n /\ p[e[j]] = q[j]
         /\ \A j, k \in 1 .. m : j < k => e[j] < e[k]
         /\ \A j \in 1 .. m, k \in 1 .. n : e[j] <= k =>
              (\E l \in 1 .. m : e[l] = k) \/ (t < p[k].at /\ \A l \in 1 .. m : e[l] < k)
<1>1. n \in Nat /\ m \in Nat /\ DOMAIN p = 1 .. n /\ DOMAIN q = 1 .. m
  BY DEF DayOf
<1>2. /\ \A k \in 1 .. n : p[k].at \in Int
      /\ \A k, l \in 1 .. n : k <= l => p[k].at <= p[l].at
  BY <1>1 DEF DayOf, InOrder
<1>3. /\ \A j \in 1 .. m : e[j] \in 1 .. n /\ p[e[j]] = q[j] /\ IsoDay(q[j].at) = d
      /\ \A j, k \in 1 .. m : j < k => e[j] < e[k]
      /\ \A k \in 1 .. n : IsoDay(p[k].at) = d => \E j \in 1 .. m : e[j] = k
  BY DEF DayOf, Within
<1> DEFINE lo == d * Day
           hi == (d + 1) * Day
<1>4. /\ d \in Int
      /\ \A u \in Int : IsoDay(u) = d <=> lo <= u /\ u < hi
  BY IsoDayIs DEF DayOf
<1>5. lo \in Int /\ hi \in Int
  BY <1>4, Calendar
<1> HIDE DEF lo, hi
<1>6. ASSUME NEW j \in 1 .. m, NEW k \in 1 .. n, e[j] <= k, ~\E l \in 1 .. m : e[l] = k
      PROVE  t < p[k].at /\ \A l \in 1 .. m : e[l] < k
  <2>1. ~(IsoDay(p[k].at) = d) /\ p[k].at \in Int
    BY <1>2, <1>3, <1>6
  <2>2. \A l \in 1 .. m : lo <= p[e[l]].at /\ p[e[l]].at < hi /\ p[e[l]].at \in Int /\ e[l] \in 1 .. n
    BY <1>2, <1>3, <1>4
  <2>3. p[e[j]].at <= p[k].at
    BY <1>2, <1>3, <1>6
  <2>4. lo <= p[k].at
    BY <1>5, <2>1, <2>2, <2>3
  <2>5. hi <= p[k].at
    BY <1>4, <1>5, <2>1, <2>4
  <2>6. t < p[k].at
    BY <1>4, <1>5, <2>1, <2>5
  <2>7. ASSUME NEW l \in 1 .. m PROVE e[l] < k
    <3>1. ~(p[k].at <= p[e[l]].at)
      BY <1>5, <2>1, <2>2, <2>5
    <3>2. ~(k <= e[l])
      BY <1>2, <2>2, <3>1
    <3> QED
      BY <1>1, <2>2, <3>2
  <2> QED
    BY <2>6, <2>7
<1> QED
  BY <1>1, <1>2, <1>3, <1>6

\* A session of the day is one of the log.
LEMMA DaySession ==
  ASSUME NEW p, NEW q, NEW d, NEW e, DayOf(p, q, d, e), NEW t \in Int, IsoDay(t) = d, InSession(q, t)
  PROVE  InSession(p, t)
<1> DEFINE n == Len(p)
           m == Len(q)
           onq == {i \in DOMAIN q : q[i].state = "available" /\ q[i].at <= t}
           a == Max(onq)
           offq == {j \in DOMAIN q : j > a /\ q[j].state = "unavailable"}
           c == Min(offq)
           backq == {k \in DOMAIN q : k > c /\ q[k].state = "available"}
           on == {i \in DOMAIN p : p[i].state = "available" /\ p[i].at <= t}
           off == {j \in DOMAIN p : j > Max(on) /\ p[j].state = "unavailable"}
           back == {k \in DOMAIN p : k > Min(off) /\ p[k].state = "available"}
<1>1. /\ n \in Nat /\ m \in Nat /\ DOMAIN p = 1 .. n /\ DOMAIN q = 1 .. m
      /\ \A k \in 1 .. n : p[k].at \in Int
      /\ \A k, l \in 1 .. n : k <= l => p[k].at <= p[l].at
      /\ \A j \in 1 .. m : e[j] \in 1 .. n /\ p[e[j]] = q[j]
      /\ \A j, k \in 1 .. m : j < k => e[j] < e[k]
      /\ \A j \in 1 .. m, k \in 1 .. n : e[j] <= k =>
           (\E l \in 1 .. m : e[l] = k) \/ (t < p[k].at /\ \A l \in 1 .. m : e[l] < k)
  BY ONLY DayOf(p, q, d, e), t \in Int, IsoDay(t) = d, DayFacts
<1>2. onq # {} /\ (offq = {} \/ q[c].at > t \/ (backq # {} /\ q[Min(backq)].at - q[c].at <= MergeGap))
  BY DEF InSession
<1>3. a \in onq /\ \A y \in onq : y <= a
  <2>1. onq \in SUBSET Int /\ m \in Int /\ \A y \in onq : y <= m
    BY <1>1
  <2> HIDE DEF onq
  <2> QED
    BY <1>2, <2>1, MaxIs
<1> HIDE DEF n, m
<1>4. a \in 1 .. m /\ q[a].state = "available" /\ q[a].at <= t
  BY <1>1, <1>3
<1>5. Max(on) = e[a]
  <2>1. on \in SUBSET Int
    BY <1>1
  <2>2. e[a] \in on
    BY <1>1, <1>4
  <2>3. ASSUME NEW y \in on, ~(y <= e[a]) PROVE FALSE
    <3>1. y \in 1 .. n /\ e[a] \in 1 .. n /\ p[y].at <= t /\ p[y].state = "available" /\ e[a] <= y /\ p[y].at \in Int
      BY <1>1, <1>4, <2>3
    <3>2. PICK l \in 1 .. m : e[l] = y
      BY <1>1, <1>4, <3>1
    <3>3. l \in onq
      BY <1>1, <3>1, <3>2
    <3>4. l <= a
      BY <1>3, <3>3
    <3>5. l # a
      BY <2>3, <3>1, <3>2
    <3>6. e[l] < e[a]
      BY <1>1, <1>4, <3>4, <3>5
    <3> QED
      BY <1>1, <1>4, <2>3, <3>1, <3>2, <3>6
  <2> HIDE DEF on
  <2> QED
    BY <2>1, <2>2, <2>3, MaxUnique
<1>6. on # {}
  BY <1>1, <1>4
<1> HIDE DEF a, on, onq
<1>7. off = {j \in DOMAIN p : j > e[a] /\ p[j].state = "unavailable"}
  BY <1>5
<1>8. \A j \in 1 .. m : j > a => e[j] > e[a]
  BY <1>1, <1>4
\* A later row of the log is of the day, or after the moment.
<1>9. ASSUME offq = {}, off # {} PROVE p[Min(off)].at > t
  <2> DEFINE o == Min(off)
  <2>1. o \in off
    <3>1. off \in SUBSET Int /\ 1 \in Int /\ \A y \in off : 1 <= y
      BY <1>1
    <3> HIDE DEF off
    <3> QED
      BY <1>9, <3>1, MinIs
  <2> HIDE DEF o
  <2>2. o \in 1 .. n /\ o > e[a] /\ p[o].state = "unavailable" /\ e[a] \in 1 .. n
    BY <1>1, <1>4, <1>7, <2>1
  <2>3. ASSUME NEW l \in 1 .. m, e[l] = o PROVE FALSE
    <3>1. l > a
      <4>1. l # a
        BY <1>1, <2>2, <2>3
      <4>2. l < a => e[l] < e[a]
        BY <1>1, <1>4
      <4> QED
        BY <1>1, <1>4, <2>2, <2>3, <4>1, <4>2
    <3>2. l \in offq
      BY <1>1, <2>2, <2>3, <3>1
    <3> QED
      BY <1>9, <3>2
  <2>4. t < p[o].at
    BY <1>1, <1>4, <2>2, <2>3
  <2> QED
    BY <1>1, <2>2, <2>4 DEF o
<1>10. ASSUME offq # {} PROVE off # {} /\ Min(off) = e[c] /\ c \in 1 .. m
  <2>1. c \in offq /\ \A y \in offq : c <= y
    <3>1. offq \in SUBSET Int /\ 1 \in Int /\ \A y \in offq : 1 <= y
      BY <1>1
    <3> HIDE DEF offq
    <3> QED
      BY <1>10, <3>1, MinIs
  <2> HIDE DEF c
  <2>2. c \in 1 .. m /\ c > a /\ q[c].state = "unavailable"
    BY <1>1, <2>1
  <2>3. e[c] \in off
    BY <1>1, <1>7, <1>8, <2>2
  <2>4. ASSUME NEW y \in off, ~(e[c] <= y) PROVE FALSE
    <3>1. y \in 1 .. n /\ y > e[a] /\ p[y].state = "unavailable" /\ e[a] \in 1 .. n /\ e[c] \in 1 .. n
      BY <1>1, <1>4, <1>7, <2>2
    <3>2. e[a] <= y /\ ~(e[c] < y)
      BY <1>1, <2>4, <3>1
    <3>3. PICK l \in 1 .. m : e[l] = y
      BY <1>1, <1>4, <2>2, <3>1, <3>2
    <3>4. l > a
      <4>1. l # a
        BY <1>1, <3>1, <3>3
      <4>2. l < a => e[l] < e[a]
        BY <1>1, <1>4
      <4> QED
        BY <1>1, <1>4, <3>1, <3>3, <4>1, <4>2
    <3>5. l \in offq
      BY <1>1, <3>1, <3>3, <3>4
    <3>6. c <= l
      BY <2>1, <3>5
    <3>7. c = l \/ e[c] < e[l]
      BY <1>1, <2>2, <3>6
    <3> QED
      BY <1>1, <2>4, <3>1, <3>3, <3>7
  <2>5. off \in SUBSET Int
    BY <1>1
  <2> HIDE DEF off
  <2> QED
    BY <2>2, <2>3, <2>4, <2>5, MinUnique
<1> HIDE DEF c
<1>11. ASSUME offq # {}, backq # {} PROVE back # {} /\ p[Min(back)].at = q[Min(backq)].at
  <2> DEFINE b == Min(backq)
  <2>1. b \in backq /\ \A y \in backq : b <= y
    <3>1. backq \in SUBSET Int /\ 1 \in Int /\ \A y \in backq : 1 <= y
      BY <1>1
    <3> HIDE DEF backq
    <3> QED
      BY <1>11, <3>1, MinIs
  <2> HIDE DEF b
  <2>2. c \in 1 .. m /\ Min(off) = e[c] /\ e[c] \in 1 .. n
    BY <1>1, <1>10, <1>11
  <2> HIDE DEF off
  <2>3. b \in 1 .. m /\ b > c /\ q[b].state = "available"
    BY <1>1, <2>1
  <2>4. e[b] > e[c] /\ e[b] \in 1 .. n
    BY <1>1, <2>2, <2>3
  <2>5. back = {k \in DOMAIN p : k > e[c] /\ p[k].state = "available"}
    BY <2>2
  <2>6. e[b] \in back
    BY <1>1, <2>3, <2>4, <2>5
  <2>7. ASSUME NEW y \in back, ~(e[b] <= y) PROVE FALSE
    <3>1. y \in 1 .. n /\ y > e[c] /\ p[y].state = "available"
      BY <1>1, <2>5
    <3>2. e[c] <= y /\ ~(e[b] < y)
      BY <1>1, <2>2, <2>4, <2>7, <3>1
    <3>3. PICK l \in 1 .. m : e[l] = y
      BY <1>1, <2>2, <2>3, <3>1, <3>2
    <3>4. l > c
      <4>1. l # c
        BY <1>1, <2>2, <3>1, <3>3
      <4>2. l < c => e[l] < e[c]
        BY <1>1, <2>2
      <4> QED
        BY <1>1, <2>2, <3>1, <3>3, <4>1, <4>2
    <3>5. l \in backq
      BY <1>1, <3>1, <3>3, <3>4
    <3>6. b <= l
      BY <2>1, <3>5
    <3>7. b = l \/ e[b] < e[l]
      BY <1>1, <2>3, <3>6
    <3> QED
      BY <1>1, <2>4, <2>7, <3>1, <3>3, <3>7
  <2>8. back \in SUBSET Int
    BY <1>1
  <2> HIDE DEF back
  <2>9. Min(back) = e[b]
    BY <2>6, <2>7, <2>8, MinUnique
  <2>10. p[e[b]] = q[b]
    BY <1>1, <2>3
  <2> QED
    BY <2>6, <2>9, <2>10 DEF b
<1>12. off = {} \/ p[Min(off)].at > t \/ (back # {} /\ p[Min(back)].at - p[Min(off)].at <= MergeGap)
  <2>1. CASE offq = {}
    BY <1>9, <2>1
  <2>2. CASE offq # {} /\ q[c].at > t
    <3>1. p[Min(off)] = q[c]
      BY <1>1, <1>10, <2>2
    <3> QED
      BY <2>2, <3>1
  <2>3. CASE offq # {} /\ backq # {} /\ q[Min(backq)].at - q[c].at <= MergeGap
    <3>1. p[Min(off)] = q[c]
      BY <1>1, <1>10, <2>3
    <3>2. back # {} /\ p[Min(back)].at = q[Min(backq)].at
      BY <1>11, <2>3
    <3> HIDE DEF back, off, backq
    <3> QED
      BY <2>3, <3>1, <3>2
  <2> QED
    BY <1>2, <2>1, <2>2, <2>3 DEF c
<1> QED
  BY <1>6, <1>12, Zenon DEF InSession, on

\* A moment of the day after its first presence row is online in the log only
\* when it is in a session of the day.
LEMMA OnlineOfDay ==
  ASSUME NEW p, NEW q, NEW d, NEW e, DayOf(p, q, d, e), NEW t \in Int, IsoDay(t) = d, Begun(q, t),
         {i \in DOMAIN p : p[i].at <= t} # {},
         p[Max({i \in DOMAIN p : p[i].at <= t})].state = "available"
  PROVE  InSession(q, t)
<1> DEFINE n == Len(p)
           m == Len(q)
           seen == {i \in DOMAIN p : p[i].at <= t}
           s == Max(seen)
           on == {i \in DOMAIN q : q[i].state = "available" /\ q[i].at <= t}
           a == Max(on)
           off == {j \in DOMAIN q : j > a /\ q[j].state = "unavailable"}
           c == Min(off)
<1>1. /\ n \in Nat /\ m \in Nat /\ DOMAIN p = 1 .. n /\ DOMAIN q = 1 .. m
      /\ \A k \in 1 .. n : p[k].at \in Int
      /\ \A k, l \in 1 .. n : k <= l => p[k].at <= p[l].at
      /\ \A j \in 1 .. m : e[j] \in 1 .. n /\ p[e[j]] = q[j]
      /\ \A j, k \in 1 .. m : j < k => e[j] < e[k]
      /\ \A j \in 1 .. m, k \in 1 .. n : e[j] <= k =>
           (\E l \in 1 .. m : e[l] = k) \/ (t < p[k].at /\ \A l \in 1 .. m : e[l] < k)
  BY ONLY DayOf(p, q, d, e), t \in Int, IsoDay(t) = d, DayFacts
<1> HIDE DEF n, m
<1>2. s \in seen /\ \A y \in seen : y <= s
  <2>1. seen \in SUBSET Int /\ n \in Int /\ \A y \in seen : y <= n
    BY <1>1
  <2>2. seen # {}
    OBVIOUS
  <2> HIDE DEF seen
  <2> QED
    BY <2>1, <2>2, MaxIs
<1>3. p[s].state = "available"
  OBVIOUS
<1> HIDE DEF s
<1>4. s \in 1 .. n /\ p[s].at <= t /\ p[s].at \in Int /\ \A y \in 1 .. n : p[y].at <= t => y <= s
  BY <1>1, <1>2
<1>5. PICK j \in 1 .. m : q[j].at <= t
  BY <1>1 DEF Begun
<1>6. e[j] \in 1 .. n /\ e[j] <= s
  BY <1>1, <1>4, <1>5
<1>7. PICK x \in 1 .. m : e[x] = s
  BY <1>1, <1>4, <1>6
<1>8. q[x] = p[s]
  BY <1>1, <1>7
<1>9. \A l \in 1 .. m : q[l].at <= t => l <= x
  <2> SUFFICES ASSUME NEW l \in 1 .. m, q[l].at <= t, ~(l <= x) PROVE FALSE
    OBVIOUS
  <2>1. e[l] \in 1 .. n /\ e[l] <= s
    BY <1>1, <1>4
  <2>2. e[x] < e[l]
    BY <1>1, <1>7
  <2> QED
    BY <1>1, <1>4, <1>7, <2>1, <2>2
<1>10. x \in on
  BY <1>1, <1>3, <1>4, <1>7, <1>8
<1>11. a = x
  <2>1. on \in SUBSET Int
    BY <1>1
  <2>2. \A y \in on : y <= x
    BY <1>1, <1>9
  <2> HIDE DEF on
  <2> QED
    BY <1>10, <2>1, <2>2, MaxUnique
<1> HIDE DEF a
<1>12. ASSUME off # {} PROVE q[c].at > t
  <2>1. c \in off
    <3>1. off \in SUBSET Int /\ 1 \in Int /\ \A y \in off : 1 <= y
      BY <1>1
    <3> HIDE DEF off
    <3> QED
      BY <1>12, <3>1, MinIs
  <2> HIDE DEF c
  <2>2. c \in 1 .. m /\ c > x
    BY <1>1, <1>11, <2>1
  <2>3. q[c].at \in Int
    BY <1>1, <2>2
  <2> QED
    BY <1>1, <1>9, <2>2, <2>3
<1>13. on # {}
  BY <1>10
<1> HIDE DEF on
<1> QED
  BY <1>12, <1>13, Zenon DEF InSession, a, on, off, c

LEMMA SessionBegun == \A q, t : InSession(q, t) => Begun(q, t)
  BY DEF InSession, Begun

\* The section of a day is the timeline of the rows of that day.
LEMMA SectionIs ==
  ASSUME LogOk, NEW day \in Int
  PROVE  DaySection(day) = BuildBlocks(Only(rows, {i \in DOMAIN rows : IsoDay(rows[i].at) = day}), now)
<1> DEFINE I == {i \in DOMAIN rows : IsoDay(rows[i].at) = day}
           J == {i \in DOMAIN rows : day * Day <= rows[i].at /\ rows[i].at < (day + 1) * Day}
<1>1. rows \in Seq(Logged) /\ InOrder(rows)
  BY DEF LogOk
<1>2. \A i \in DOMAIN rows : rows[i].at \in Int
  BY <1>1 DEF InOrder
<1>3. \A i \in DOMAIN rows : IsoDay(rows[i].at) = day <=> day * Day <= rows[i].at /\ rows[i].at < (day + 1) * Day
  BY <1>2, IsoDayIs
<1>4. I = J
  BY <1>3, Zenon
<1>5. I \in SUBSET DOMAIN rows
  OBVIOUS
<1>6. DaySection(day) = BuildBlocks(SortByAt(Only(rows, J)), now)
  BY Zenon DEF DaySection, DayRows
<1> HIDE DEF I, J
<1>7. SortByAt(Only(rows, I)) = Only(rows, I)
  BY <1>1, <1>5, OnlySome
<1> QED
  BY <1>4, <1>6, <1>7, Zenon DEF I

\* For any log the section of each UTC day puts every moment online, from the
\* day's first presence row on, in exactly one session, no session over a moment
\* that is in none of the whole log, no gap over a moment online, and lists every
\* picture and about change of the day once, newest first
\* (PresenceDaySection.tsx; web sessions.ts, buildBlocks).
THEOREM SectionsAreFaithful == Spec => []SectionsFaithful
<1>1. LogOk /\ StatesOk => SectionsFaithful
  <2> SUFFICES ASSUME LogOk, StatesOk, NEW r \in DOMAIN rows PROVE SectionFaithful(IsoDay(rows[r].at))
    BY Zenon DEF SectionsFaithful
  <2> DEFINE day    == IsoDay(rows[r].at)
             I      == {i \in DOMAIN rows : IsoDay(rows[i].at) = day}
             ofDay  == Only(rows, I)
             log    == Presence(rows)
             p      == Presence(ofDay)
             blocks == DaySection(day)
  <2>1. rows \in Seq(Logged) /\ InOrder(rows) /\ now \in Int
    BY DEF LogOk
  <2>2. day \in Int
    BY <2>1, IsoDayIs DEF InOrder
  <2> HIDE DEF day
  <2>3. I \in SUBSET DOMAIN rows
    OBVIOUS
  <2>4. PICK e : Within(log, p, day, e)
    BY <2>1, DayWithin
  <2>5. blocks = BuildBlocks(ofDay, now)
    BY <2>2, SectionIs
  <2>6. DOMAIN rows = 1 .. Len(rows)
    BY <2>1
  <2> HIDE DEF I
  <2>7. /\ ofDay \in Seq(Logged) /\ InOrder(ofDay)
        /\ \A k \in DOMAIN ofDay : Ascending(I)[k] \in I /\ ofDay[k] = rows[Ascending(I)[k]]
    BY <2>1, <2>3, OnlySomeOf
  <2>8. \A i \in DOMAIN ofDay : ofDay[i].kind = "presence" => ofDay[i].state \in {"available", "unavailable"}
    BY <2>3, <2>7 DEF StatesOk
  <2> HIDE DEF ofDay
  <2>9. FaithfulTo(ofDay, blocks)
    BY <2>1, <2>5, <2>7, <2>8, BuiltFaithful
  <2>10. DayOf(log, p, day, e)
    <3>1. log \in Seq(Logged) /\ InOrder(log)
      BY <2>1, PresenceOf, Zenon
    <3>2. p \in Seq(Logged) /\ InOrder(p)
      BY <2>7, PresenceOf, Zenon
    <3> QED
      BY <2>2, <2>4, <3>1, <3>2 DEF DayOf
  <2> HIDE DEF log, p, blocks
  <2>11. ASSUME NEW t \in DayMoments(day)
         PROVE  /\ Begun(p, t) /\ t \in OnlineTime => SessionsAt(blocks, t) = 1 /\ ~GapAt(blocks, t)
                /\ SessionsAt(blocks, t) \in {0, 1}
                /\ SessionsAt(blocks, t) = 1 => Begun(p, t) /\ InSession(log, t)
                /\ GapAt(blocks, t) => Begun(p, t)
    <3>1. t \in Int /\ IsoDay(t) = day
      BY <2>1, PagesAssumption DEF DayMoments
    <3>2. /\ SessionsAt(blocks, t) = (IF InSession(p, t) THEN 1 ELSE 0)
          /\ GapAt(blocks, t) => ~InSession(p, t) /\ Begun(p, t)
      BY <2>9, <3>1 DEF FaithfulTo, p
    <3>3. InSession(p, t) => Begun(p, t) /\ InSession(log, t)
      BY <2>10, <3>1, DaySession, SessionBegun
    <3>4. ASSUME Begun(p, t), t \in OnlineTime PROVE InSession(p, t)
      <4>1. /\ {i \in DOMAIN log : log[i].at <= t} # {}
            /\ log[Max({i \in DOMAIN log : log[i].at <= t})].state = "available"
        BY <3>4, Zenon DEF OnlineTime, log
      <4> QED
        BY ONLY <2>10, <3>1, <3>4, <4>1, OnlineOfDay
    <3> QED
      BY <3>2, <3>3, <3>4
  <2>12. EventsOnce(blocks, ofDay) /\ Downwards(blocks)
    BY <2>9 DEF FaithfulTo
  <2>13. SectionFaithful(day)
    BY <2>11, <2>12, Zenon DEF SectionFaithful, I, ofDay, log, p, blocks
  <2> QED
    BY <2>13 DEF day
<1>2. Spec => []StatesOk
  BY LogIsOrdered, StatesStart, StatesStay, PTL DEF Spec
<1> QED
  BY <1>1, <1>2, LogIsOrdered, PTL
================================================================================
