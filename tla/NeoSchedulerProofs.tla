-------------------------- MODULE NeoSchedulerProofs --------------------------
(* What holds of Neo's server (NeoScheduler, NeoBlocks) for every number of  *)
(* requests, ids and blocks, every block size, with and without the second   *)
(* split, and whatever the performance predictor says: the queues, the batch *)
(* with the worker, the ids and the block tables fit together after every    *)
(* step, unless prepare raised, which ends the server.                       *)
(*                                                                           *)
(* The block manager's operations (Alloc, Free, SwapBlocks, Prepare) each    *)
(* take a state in which Holds to one in which it holds of other arguments;  *)
(* every decision of the scheduler is Sound, which is all that Prepare needs *)
(* to know of it; so Schedule and UpdateAndFree keep IInv.                   *)
EXTENDS NeoScheduler, SequenceTheorems, FiniteSetTheorems, FunctionTheorems,
        WellFoundedInduction, TLAPS

-------------------------------------------------------------------------------
\* Finite sets of numbers.

(* A set of naturals has a least element.                                  *)
LEMMA LeastNatural ==
  ASSUME NEW T \in SUBSET Nat, T # {}
  PROVE  \E m \in T : \A n \in T : m <= n
<1> DEFINE R == OpToRel(<, Nat)
<1>1. IsWellFoundedOn(R, Nat)
  BY NatLessThanWellFounded
<1>2. R = {ss \in Nat \X Nat : ss[1] < ss[2]}
  BY DEF OpToRel
<1> HIDE DEF R
<1>3. PICK m \in T : \A n \in T : <<n, m>> \notin R
  BY <1>1, WFMin
<1>4. \A n \in T : ~ (n < m)
  BY <1>2, <1>3
<1>5. QED
  BY <1>4

(* The largest number of a set with 0 that is bounded.                     *)
LEMMA MaxUpto ==
  ASSUME NEW k \in Nat, NEW T \in SUBSET (0 .. k), 0 \in T
  PROVE  Max(T) \in T
<1> DEFINE G == {k - x : x \in T}
<1>1. G \in SUBSET Nat /\ G # {}
  OBVIOUS
<1>2. PICK m \in G : \A n \in G : m <= n
  BY <1>1, LeastNatural
<1>3. PICK x \in T : m = k - x
  BY <1>2
<1>4. \A y \in T : x >= y
  <2> TAKE y \in T
  <2>1. m <= k - y
    BY <1>2
  <2>2. QED
    BY <1>3, <2>1
<1>5. QED
  BY <1>4 DEF Max

(* Ranks in a finite set of integers number its elements from 0.           *)
LEMMA RankGrows ==
  ASSUME NEW S \in SUBSET Int, IsFiniteSet(S), NEW x \in S, NEW y \in S, x < y
  PROVE  RankIn(S, x) < RankIn(S, y)
<1> DEFINE Lo == {z \in S : z < x}
           Up == {z \in S : z < y}
<1>a. \A z \in S : z \in Int
  OBVIOUS
<1>b. Lo \in SUBSET S /\ Up \in SUBSET S
  OBVIOUS
<1>1. IsFiniteSet(Lo) /\ IsFiniteSet(Up)
  BY <1>b, FS_Subset
<1>2. Lo \union {x} \in SUBSET Up /\ x \notin Lo
  <2>1. \A z \in Lo : z \in Up
    BY <1>a
  <2>2. x \in Up
    OBVIOUS
  <2>3. ~ (x < x)
    BY <1>a
  <2>4. QED
    BY <2>1, <2>2, <2>3
<1>3. Cardinality(Lo \union {x}) = Cardinality(Lo) + 1
  BY <1>1, <1>2, FS_AddElement
<1>4. Cardinality(Lo \union {x}) <= Cardinality(Up)
  BY <1>1, <1>2, FS_Subset
<1>5. Cardinality(Lo) \in Nat /\ Cardinality(Up) \in Nat
  BY <1>1, FS_CardinalityType
<1>6. QED
  BY <1>3, <1>4, <1>5 DEF RankIn

(* A rank is below the number of elements ...                                *)
LEMMA RankBounded ==
  ASSUME NEW S \in SUBSET Int, IsFiniteSet(S), NEW x \in S
  PROVE  RankIn(S, x) \in 0 .. Cardinality(S) - 1
<1> DEFINE Lo == {z \in S : z < x}
<1>1. Lo \subseteq S \ {x}
  OBVIOUS
<1>2. IsFiniteSet(S \ {x}) /\ Cardinality(S \ {x}) = Cardinality(S) - 1
  BY FS_RemoveElement
<1>3. IsFiniteSet(Lo) /\ Cardinality(Lo) <= Cardinality(S \ {x})
  BY <1>1, <1>2, FS_Subset
<1>4. Cardinality(Lo) \in Nat /\ Cardinality(S) \in Nat
  BY <1>3, FS_CardinalityType
<1>5. QED
  BY <1>2, <1>3, <1>4 DEF RankIn

(* ... and each such number is the rank of exactly one element.              *)
LEMMA RankReaches ==
  ASSUME NEW S \in SUBSET Int, IsFiniteSet(S), NEW k \in 0 .. Cardinality(S) - 1
  PROVE  \E x \in S : RankIn(S, x) = k /\ \A y \in S : RankIn(S, y) = k => y = x
<1> DEFINE T == 0 .. Cardinality(S) - 1
           f == [x \in S |-> RankIn(S, x)]
<1>1. f \in [S -> T]
  BY RankBounded
<1>2. \A x, y \in S : f[x] = f[y] => x = y
  <2> SUFFICES ASSUME NEW x \in S, NEW y \in S, x # y
               PROVE  f[x] # f[y]
    OBVIOUS
  <2>1. f[x] \in Int /\ f[y] \in Int
    BY <1>1
  <2>2. CASE x < y
    <3>1. RankIn(S, x) < RankIn(S, y)
      BY <2>2, RankGrows
    <3>2. QED
      BY <2>1, <3>1
  <2>3. CASE y < x
    <3>1. RankIn(S, y) < RankIn(S, x)
      BY <2>3, RankGrows
    <3>2. QED
      BY <2>1, <3>1
  <2>4. QED
    BY <2>2, <2>3
<1>3. Cardinality(S) \in Nat
  BY FS_CardinalityType
<1>4. IsFiniteSet(T) /\ Cardinality(T) = Cardinality(S)
  BY <1>3, FS_Interval
<1>k. k \in T
  OBVIOUS
<1> HIDE DEF T, f
<1>5. f \in Injection(S, T)
  BY <1>1, <1>2, Fun_IsInj
<1>6. f \in Surjection(S, T)
  BY <1>4, <1>5, FS_Injection
<1>r. \A t \in T : \E x \in S : f[x] = t
  BY <1>6, Fun_SurjectionProperties
<1>7. PICK x \in S : f[x] = k
  BY <1>k, <1>r
<1>8. \A y \in S : f[y] = RankIn(S, y)
  BY DEF f
<1>9. QED
  BY <1>2, <1>7, <1>8

(* A slice of a set by ranks.                                              *)
LEMMA SliceSize ==
  ASSUME NEW S \in SUBSET Int, IsFiniteSet(S), NEW from \in Nat, NEW n \in Nat,
         from + n <= Cardinality(S)
  PROVE  IsFiniteSet(Slice(S, from, n)) /\ Cardinality(Slice(S, from, n)) = n
<1> DEFINE I == from .. from + n - 1
           g == [k \in I |-> CHOOSE x \in S : RankIn(S, x) = k]
<1>1. Cardinality(S) \in Nat
  BY FS_CardinalityType
<1>2. \A k \in I : g[k] \in S /\ RankIn(S, g[k]) = k
  <2> TAKE k \in I
  <2>1. k \in 0 .. Cardinality(S) - 1
    BY <1>1
  <2>2. \E x \in S : RankIn(S, x) = k
    BY <2>1, RankReaches
  <2>3. QED
    BY <2>2
<1>3. \A x \in S : RankIn(S, x) \in I => g[RankIn(S, x)] = x
  <2> SUFFICES ASSUME NEW x \in S, RankIn(S, x) \in I
               PROVE  g[RankIn(S, x)] = x
    OBVIOUS
  <2>1. RankIn(S, x) \in 0 .. Cardinality(S) - 1
    BY RankBounded
  <2>2. PICK y \in S : \A z \in S : RankIn(S, z) = RankIn(S, x) => z = y
    BY <2>1, RankReaches
  <2>3. QED
    BY <1>2, <2>2
<1>4. Slice(S, from, n) = {x \in S : RankIn(S, x) \in I}
  BY DEF Slice
<1>5. IsFiniteSet(I) /\ Cardinality(I) = n
  BY FS_Interval
<1>6. DOMAIN g = I
  OBVIOUS
<1> HIDE DEF I, g
<1>7. g \in [I -> Slice(S, from, n)]
  BY <1>2, <1>4, <1>6, Zenon DEF g
<1>8. \A a, b \in I : g[a] = g[b] => a = b
  BY <1>2
<1>9. \A x \in Slice(S, from, n) : \E k \in I : g[k] = x
  BY <1>3, <1>4
<1>10. g \in Bijection(I, Slice(S, from, n))
  BY <1>7, <1>8, <1>9, Fun_IsBij
<1>11. ExistsBijection(I, Slice(S, from, n))
  BY <1>10, Fun_ExistsBij
<1>12. QED
  BY <1>5, <1>11, FS_Bijection

(* Sets with one element for each unit of a function of naturals.          *)
Units(new, T) == UNION {{i} \X (1 .. new[i]) : i \in T}

(* There are finitely many units of finitely many things.                    *)
LEMMA UnitsFinite ==
  ASSUME NEW D, NEW new \in [D -> Nat], NEW T \in SUBSET D, IsFiniteSet(T)
  PROVE  IsFiniteSet(Units(new, T)) /\ Cardinality(Units(new, T)) \in Nat
<1> DEFINE U == {{i} \X (1 .. new[i]) : i \in T}
<1>1. \A i \in T : IsFiniteSet({i} \X (1 .. new[i]))
  <2> TAKE i \in T
  <2>1. IsFiniteSet(1 .. new[i])
    BY FS_Interval
  <2>2. IsFiniteSet({i})
    BY FS_Singleton
  <2>3. QED
    BY <2>1, <2>2, FS_Product
<1>2. IsFiniteSet(U)
  <2> DEFINE f == [i \in T |-> {i} \X (1 .. new[i])]
  <2>1. f \in Surjection(T, U)
    BY Fun_IsSurj
  <2>2. QED
    BY <2>1, FS_Surjection
<1>3. \A V \in U : IsFiniteSet(V)
  BY <1>1
<1>4. IsFiniteSet(UNION U)
  BY <1>2, <1>3, FS_UNION
<1>5. QED
  BY <1>4, FS_CardinalityType DEF Units

(* One more thing adds its units.                                            *)
LEMMA UnitsAdd ==
  ASSUME NEW D, NEW new \in [D -> Nat], NEW T \in SUBSET D, IsFiniteSet(T),
         NEW i \in D \ T
  PROVE  Cardinality(Units(new, T \union {i})) = Cardinality(Units(new, T)) + new[i]
<1> DEFINE A == {i} \X (1 .. new[i])
<1>1. Units(new, T \union {i}) = Units(new, T) \union A
  BY DEF Units
<1>2. Units(new, T) \intersect A = {}
  BY DEF Units
<1>3. IsFiniteSet(Units(new, T)) /\ Cardinality(Units(new, T)) \in Nat
  BY UnitsFinite
<1>4. IsFiniteSet(A) /\ Cardinality(A) = new[i]
  <2>1. new[i] \in Nat
    OBVIOUS
  <2>2. IsFiniteSet(1 .. new[i]) /\ Cardinality(1 .. new[i]) = new[i]
    BY <2>1, FS_Interval
  <2>3. IsFiniteSet({i}) /\ Cardinality({i}) = 1
    BY FS_Singleton
  <2>4. IsFiniteSet(A) /\ Cardinality(A) = 1 * new[i]
    BY <2>2, <2>3, FS_Product
  <2>5. QED
    BY <2>1, <2>4
<1> HIDE DEF A
<1>5. Cardinality(Units(new, T) \union A)
         = Cardinality(Units(new, T)) + Cardinality(A) - Cardinality({})
  BY <1>2, <1>3, <1>4, FS_Union
<1>6. Cardinality({}) = 0
  BY FS_EmptySet
<1>7. new[i] \in Nat
  OBVIOUS
<1>8. Cardinality(Units(new, T) \union A) = Cardinality(Units(new, T)) + new[i]
  BY <1>3, <1>4, <1>5, <1>6, <1>7
<1>9. QED
  BY <1>1, <1>8

(* Fewer things have no more units.                                          *)
LEMMA UnitsGrow ==
  ASSUME NEW D, NEW new \in [D -> Nat], NEW T \in SUBSET D, NEW U \in SUBSET T, IsFiniteSet(T)
  PROVE  Cardinality(Units(new, U)) <= Cardinality(Units(new, T))
<1>1. Units(new, U) \in SUBSET Units(new, T)
  BY DEF Units
<1>2. IsFiniteSet(Units(new, T))
  BY UnitsFinite
<1>3. QED
  BY <1>1, <1>2, FS_Subset

-------------------------------------------------------------------------------
\* Lists: the queues, sequences without repetitions.

List(q, X) == q \in Seq(X) /\ \A i, j \in 1 .. Len(q) : q[i] = q[j] => i = j

(* The elements of a list and its range.                                     *)
LEMMA ListFacts ==
  ASSUME NEW X, NEW q, List(q, X)
  PROVE  /\ q \in Seq(X) /\ Len(q) \in Nat /\ DOMAIN q = 1 .. Len(q)
         /\ \A i \in 1 .. Len(q) : q[i] \in X
         /\ \A x : x \in Range(q) <=> \E i \in 1 .. Len(q) : q[i] = x
         /\ Range(q) \subseteq X
<1>1. q \in Seq(X)
  BY DEF List
<1>2. Len(q) \in Nat /\ DOMAIN q = 1 .. Len(q) /\ \A i \in 1 .. Len(q) : q[i] \in X
  BY <1>1, LenProperties, ElementOfSeq
<1>3. \A x : x \in Range(q) <=> \E i \in 1 .. Len(q) : q[i] = x
  BY <1>2 DEF Range
<1>4. QED
  BY <1>1, <1>2, <1>3

(* The empty list.                                                           *)
LEMMA ListEmpty ==
  ASSUME NEW X
  PROVE  List(<<>>, X) /\ Range(<<>>) = {} /\ Len(<<>>) = 0
<1>1. <<>> \in Seq(X) /\ Len(<<>>) = 0
  BY EmptySeq
<1>2. List(<<>>, X)
  BY <1>1 DEF List
<1>3. Range(<<>>) = {}
  BY <1>1, <1>2, ListFacts
<1>4. QED
  BY <1>1, <1>2, <1>3

(* A list is empty exactly if its range is.                                *)
LEMMA ListNonempty ==
  ASSUME NEW X, NEW q, List(q, X)
  PROVE  /\ q = <<>> <=> Range(q) = {}
         /\ q = <<>> <=> Len(q) = 0
<1>1. q = <<>> => Range(q) = {} /\ Len(q) = 0
  BY ListEmpty
<1>2. q # <<>> => Len(q) \in Nat \ {0}
  BY EmptySeq DEF List
<1>3. Len(q) \in Nat \ {0} => q[1] \in Range(q)
  BY ListFacts
<1>4. QED
  BY <1>1, <1>2, <1>3

(* A list has as many elements as its range.                               *)
LEMMA ListSize ==
  ASSUME NEW X, NEW q, List(q, X)
  PROVE  IsFiniteSet(Range(q)) /\ Cardinality(Range(q)) = Len(q)
<1>1. /\ Len(q) \in Nat /\ DOMAIN q = 1 .. Len(q)
      /\ \A x : x \in Range(q) <=> \E i \in 1 .. Len(q) : q[i] = x
  BY ListFacts
<1>2. q \in [1 .. Len(q) -> Range(q)]
  BY <1>1, LenProperties DEF List
<1>3. q \in Bijection(1 .. Len(q), Range(q))
  <2>1. \A i, j \in 1 .. Len(q) : q[i] = q[j] => i = j
    BY DEF List
  <2>2. \A x \in Range(q) : \E i \in 1 .. Len(q) : q[i] = x
    BY <1>1
  <2>3. QED
    BY <1>2, <2>1, <2>2, Fun_IsBij
<1>4. ExistsBijection(1 .. Len(q), Range(q))
  BY <1>3, Fun_ExistsBij
<1>n. PICK n \in Nat : n = Len(q)
  BY <1>1
<1>5. IsFiniteSet(1 .. n) /\ Cardinality(1 .. n) = n
  <2>1. IsFiniteSet(1 .. n) /\ Cardinality(1 .. n) = IF 1 > n THEN 0 ELSE n - 1 + 1
    BY FS_Interval
  <2>2. QED
    BY <2>1
<1>6. QED
  BY <1>n, <1>4, <1>5, FS_Bijection

(* Two lists without a common element, one after the other.                  *)
LEMMA ListConcat ==
  ASSUME NEW X, NEW q, List(q, X), NEW p, List(p, X), Range(q) \intersect Range(p) = {}
  PROVE  /\ List(q \o p, X)
         /\ Range(q \o p) = Range(q) \union Range(p)
<1>1. q \in Seq(X) /\ p \in Seq(X) /\ Len(q) \in Nat /\ Len(p) \in Nat
  BY ListFacts
<1>2. /\ q \o p \in Seq(X) /\ Len(q \o p) = Len(q) + Len(p)
      /\ \A i \in 1 .. Len(q) + Len(p) :
           (q \o p)[i] = IF i <= Len(q) THEN q[i] ELSE p[i - Len(q)]
  BY <1>1, ConcatProperties
<1>3. \A i, j \in 1 .. Len(q \o p) : (q \o p)[i] = (q \o p)[j] => i = j
  <2> SUFFICES ASSUME NEW i \in 1 .. Len(q \o p), NEW j \in 1 .. Len(q \o p),
                      (q \o p)[i] = (q \o p)[j]
               PROVE  i = j
    OBVIOUS
  <2> DEFINE Left(k) == k <= Len(q)
  <2>0. i \in 1 .. Len(q) + Len(p) /\ j \in 1 .. Len(q) + Len(p)
    BY <1>2
  <2>1. \A k \in 1 .. Len(q) + Len(p) :
          IF Left(k) THEN k \in 1 .. Len(q) /\ (q \o p)[k] = q[k]
                     ELSE k - Len(q) \in 1 .. Len(p) /\ (q \o p)[k] = p[k - Len(q)]
    BY <1>1, <1>2
  <2>2. \A k \in 1 .. Len(q) : q[k] \in Range(q)
    BY ListFacts
  <2>3. \A k \in 1 .. Len(p) : p[k] \in Range(p)
    BY ListFacts
  <2>4. Left(i) <=> Left(j)
    BY <2>0, <2>1, <2>2, <2>3
  <2>5. CASE Left(i)
    BY <2>0, <2>1, <2>4, <2>5 DEF List
  <2>6. CASE ~Left(i)
    <3>1. i - Len(q) = j - Len(q)
      BY <2>0, <2>1, <2>4, <2>6 DEF List
    <3>2. QED
      BY <1>1, <2>0, <3>1
  <2>7. QED
    BY <2>5, <2>6
<1>4. List(q \o p, X)
  BY <1>2, <1>3 DEF List
<1>5. QED
  BY <1>1, <1>4, RangeConcatenation

(* A run of a list.                                                        *)
LEMMA ListSubSeq ==
  ASSUME NEW X, NEW q, List(q, X), NEW a \in 1 .. Len(q) + 1, NEW b \in 0 .. Len(q)
  PROVE  /\ List(SubSeq(q, a, b), X)
         /\ \A x : x \in Range(SubSeq(q, a, b)) <=> \E i \in a .. b : q[i] = x
         /\ Len(SubSeq(q, a, b)) = IF a <= b THEN b - a + 1 ELSE 0
         /\ \A i \in 1 .. b - a + 1 : SubSeq(q, a, b)[i] = q[a + i - 1]
<1> DEFINE t == SubSeq(q, a, b)
<1>1. Len(q) \in Nat /\ \A i \in 1 .. Len(q) : q[i] \in X
  BY ListFacts
<1>2. a .. b \in SUBSET (1 .. Len(q)) /\ a \in Int /\ b \in Int
  BY <1>1
<1>3. \A i \in a .. b : q[i] \in X
  BY <1>1, <1>2
<1>4. /\ t \in Seq(X) /\ Len(t) = (IF a <= b THEN b - a + 1 ELSE 0)
      /\ \A i \in 1 .. b - a + 1 : t[i] = q[a + i - 1]
  BY <1>2, <1>3, SubSeqProperties
<1> HIDE DEF t
<1>5. \A i \in 1 .. Len(t) : i \in 1 .. b - a + 1 /\ a + i - 1 \in a .. b /\ t[i] = q[a + i - 1]
  <2> TAKE i \in 1 .. Len(t)
  <2>1. CASE a <= b
    <3>1. i \in 1 .. b - a + 1
      BY <1>4, <2>1
    <3>2. QED
      BY <1>2, <1>4, <3>1
  <2>2. CASE ~(a <= b)
    BY <1>4, <2>2
  <2>3. QED
    BY <2>1, <2>2
<1>6. \A i, j \in 1 .. Len(t) : t[i] = t[j] => i = j
  <2> SUFFICES ASSUME NEW i \in 1 .. Len(t), NEW j \in 1 .. Len(t), t[i] = t[j]
               PROVE  i = j
    OBVIOUS
  <2>1. a + i - 1 = a + j - 1
    BY <1>2, <1>5 DEF List
  <2>2. QED
    BY <1>2, <1>4, <2>1
<1>7. List(t, X)
  BY <1>4, <1>6 DEF List
<1>8. \A x : x \in Range(t) <=> \E i \in a .. b : q[i] = x
  <2>1. \A i \in a .. b : i - a + 1 \in 1 .. Len(t) /\ t[i - a + 1] = q[i]
    <3> TAKE i \in a .. b
    <3>1. i - a + 1 \in 1 .. b - a + 1 /\ a + (i - a + 1) - 1 = i /\ a <= b
      BY <1>2
    <3>2. QED
      BY <1>4, <3>1
  <2>2. \A x : x \in Range(t) <=> \E i \in 1 .. Len(t) : t[i] = x
    BY <1>7, ListFacts
  <2>3. \A x : x \in Range(t) => \E i \in a .. b : q[i] = x
    BY <1>5, <2>2
  <2>4. \A i \in a .. b : q[i] \in Range(t)
    BY <2>1, <2>2
  <2>5. QED
    BY <2>3, <2>4
<1>9. QED
  BY <1>4, <1>7, <1>8 DEF t

(* The two parts of a list.                                                *)
LEMMA ListCut ==
  ASSUME NEW X, NEW q, List(q, X), NEW n \in 0 .. Len(q)
  PROVE  /\ List(Prefix(q, n), X) /\ Len(Prefix(q, n)) = n
         /\ List(Rest(q, n), X)
         /\ Range(Prefix(q, n)) \union Range(Rest(q, n)) = Range(q)
         /\ Range(Prefix(q, n)) \intersect Range(Rest(q, n)) = {}
         /\ \A x : x \in Range(Prefix(q, n)) <=> \E i \in 1 .. n : q[i] = x
         /\ \A x : x \in Range(Rest(q, n)) <=> \E i \in n + 1 .. Len(q) : q[i] = x
<1>1. Len(q) \in Nat /\ \A x : x \in Range(q) <=> \E i \in 1 .. Len(q) : q[i] = x
  BY ListFacts
<1>2. n \in Nat /\ n <= Len(q) /\ 1 \in 1 .. Len(q) + 1 /\ n + 1 \in 1 .. Len(q) + 1
      /\ Len(q) \in 0 .. Len(q)
  BY <1>1
<1>3. /\ List(Prefix(q, n), X)
      /\ \A x : x \in Range(Prefix(q, n)) <=> \E i \in 1 .. n : q[i] = x
      /\ Len(Prefix(q, n)) = IF 1 <= n THEN n - 1 + 1 ELSE 0
  BY <1>2, ListSubSeq DEF Prefix
<1>4. /\ List(Rest(q, n), X)
      /\ \A x : x \in Range(Rest(q, n)) <=> \E i \in n + 1 .. Len(q) : q[i] = x
  <2>1. PICK a \in 1 .. Len(q) + 1 : a = n + 1
    BY <1>2
  <2>2. PICK b \in 0 .. Len(q) : b = Len(q)
    BY <1>2
  <2>3. /\ List(SubSeq(q, a, b), X)
        /\ \A x : x \in Range(SubSeq(q, a, b)) <=> \E i \in a .. b : q[i] = x
    BY ListSubSeq
  <2>4. QED
    BY <2>1, <2>2, <2>3 DEF Rest
<1>5. Len(Prefix(q, n)) = n
  BY <1>2, <1>3
<1>6. \A i \in 1 .. Len(q) : i \in 1 .. n \/ i \in n + 1 .. Len(q)
  BY <1>2
<1>7. \A i \in 1 .. n : i \in 1 .. Len(q) /\ i \notin n + 1 .. Len(q)
  BY <1>2
<1>8. \A i \in n + 1 .. Len(q) : i \in 1 .. Len(q)
  BY <1>2
<1>9. Range(Prefix(q, n)) \union Range(Rest(q, n)) = Range(q)
  BY <1>1, <1>3, <1>4, <1>6, <1>7, <1>8
<1>10. Range(Prefix(q, n)) \intersect Range(Rest(q, n)) = {}
  <2> SUFFICES ASSUME NEW x \in Range(Prefix(q, n)), x \in Range(Rest(q, n))
               PROVE  FALSE
    OBVIOUS
  <2>1. PICK i \in 1 .. n : q[i] = x
    BY <1>3
  <2>2. PICK j \in n + 1 .. Len(q) : q[j] = x
    BY <1>4
  <2>3. i = j
    BY <1>7, <1>8, <2>1, <2>2 DEF List
  <2>4. QED
    BY <1>7, <2>3
<1>11. QED
  BY <1>3, <1>4, <1>5, <1>9, <1>10

(* A prefix of a list is a shorter one and the elements after it.          *)
LEMMA ListCuts ==
  ASSUME NEW X, NEW q, List(q, X), NEW n \in 0 .. Len(q), NEW m \in 0 .. n
  PROVE  /\ List(SubSeq(q, m + 1, n), X) /\ Len(SubSeq(q, m + 1, n)) = n - m
         /\ Range(Prefix(q, n)) = Range(Prefix(q, m)) \union Range(SubSeq(q, m + 1, n))
         /\ Range(Prefix(q, m)) \intersect Range(SubSeq(q, m + 1, n)) = {}
         /\ m \in 0 .. Len(q)
<1>1. Len(q) \in Nat
  BY ListFacts
<1>2. m \in Nat /\ n \in Nat /\ m <= n /\ n <= Len(q) /\ m \in 0 .. Len(q)
      /\ m + 1 \in 1 .. Len(q) + 1
  BY <1>1
<1>3. /\ List(SubSeq(q, m + 1, n), X)
      /\ \A x : x \in Range(SubSeq(q, m + 1, n)) <=> \E i \in m + 1 .. n : q[i] = x
      /\ Len(SubSeq(q, m + 1, n)) = IF m + 1 <= n THEN n - (m + 1) + 1 ELSE 0
  BY <1>2, ListSubSeq
<1>4. \A x : x \in Range(Prefix(q, n)) <=> \E i \in 1 .. n : q[i] = x
  BY ListCut
<1>5. \A x : x \in Range(Prefix(q, m)) <=> \E i \in 1 .. m : q[i] = x
  BY <1>2, ListCut
<1>6. \A i \in 1 .. n : i \in 1 .. m \/ i \in m + 1 .. n
  BY <1>2
<1>7. \A i \in 1 .. m : i \in 1 .. n /\ i \in 1 .. Len(q) /\ i \notin m + 1 .. n
  BY <1>2
<1>8. \A i \in m + 1 .. n : i \in 1 .. n /\ i \in 1 .. Len(q)
  BY <1>2
<1>9. Range(Prefix(q, n)) = Range(Prefix(q, m)) \union Range(SubSeq(q, m + 1, n))
  BY <1>3, <1>4, <1>5, <1>6, <1>7, <1>8
<1>10. Range(Prefix(q, m)) \intersect Range(SubSeq(q, m + 1, n)) = {}
  <2> SUFFICES ASSUME NEW x \in Range(Prefix(q, m)), x \in Range(SubSeq(q, m + 1, n))
               PROVE  FALSE
    OBVIOUS
  <2>1. PICK i \in 1 .. m : q[i] = x
    BY <1>5
  <2>2. PICK j \in m + 1 .. n : q[j] = x
    BY <1>3
  <2>3. i = j
    BY <1>7, <1>8, <2>1, <2>2 DEF List
  <2>4. QED
    BY <1>7, <2>3
<1>11. Len(SubSeq(q, m + 1, n)) = n - m
  BY <1>2, <1>3
<1>12. QED
  BY <1>2, <1>3, <1>9, <1>10, <1>11

(* A list turned round.                                                      *)
LEMMA ListReverse ==
  ASSUME NEW X, NEW q, List(q, X)
  PROVE  List(Reverse(q), X) /\ Range(Reverse(q)) = Range(q)
<1> DEFINE t == Reverse(q)
           back(i) == Len(q) - i + 1
<1>1. /\ Len(q) \in Nat /\ \A i \in 1 .. Len(q) : q[i] \in X
      /\ \A x : x \in Range(q) <=> \E i \in 1 .. Len(q) : q[i] = x
  BY ListFacts
<1>2. \A i \in 1 .. Len(q) : back(i) \in 1 .. Len(q) /\ back(back(i)) = i
  BY <1>1
<1>3. t = [i \in 1 .. Len(q) |-> q[back(i)]]
  BY DEF Reverse
<1>4. \A i \in 1 .. Len(q) : t[i] = q[back(i)] /\ t[i] \in X
  BY <1>1, <1>2, <1>3
<1>5. t \in [1 .. Len(q) -> X]
  BY <1>1, <1>2, <1>3
<1>6. t \in Seq(X) /\ Len(t) = Len(q)
  BY <1>1, <1>5
<1> HIDE DEF t
<1>7. \A i, j \in 1 .. Len(t) : t[i] = t[j] => i = j
  <2> SUFFICES ASSUME NEW i \in 1 .. Len(q), NEW j \in 1 .. Len(q), t[i] = t[j]
               PROVE  i = j
    BY <1>6
  <2>1. back(i) = back(j)
    BY <1>2, <1>4 DEF List
  <2>2. QED
    BY <1>2, <2>1
<1>8. List(t, X)
  BY <1>6, <1>7 DEF List
<1>9. \A x : x \in Range(t) <=> \E i \in 1 .. Len(q) : t[i] = x
  BY <1>6, <1>8, ListFacts
<1> HIDE DEF back
<1>10. Range(t) = Range(q)
  <2>1. \A x \in Range(t) : x \in Range(q)
    BY <1>1, <1>2, <1>4, <1>9
  <2>2. \A i \in 1 .. Len(q) : q[i] \in Range(t)
    <3> TAKE i \in 1 .. Len(q)
    <3>1. t[back(i)] = q[i] /\ back(i) \in 1 .. Len(q)
      BY <1>2, <1>4
    <3>2. QED
      BY <1>9, <3>1
  <2>3. QED
    BY <1>1, <2>1, <2>2
<1>11. QED
  BY <1>8, <1>10 DEF t

(* Pick goes through the indices in their order.                           *)
PickedBy(q, idx, e) ==
  /\ \A k \in 1 .. Cardinality(idx) : Pick(q, idx)[k] = q[e[k]]
  /\ \A k, l \in 1 .. Cardinality(idx) : k < l => e[k] < e[l]
  /\ \A i \in idx : \E k \in 1 .. Cardinality(idx) : e[k] = i

(* Pick takes every index once, in ascending order.                          *)
LEMMA PickSeq ==
  ASSUME NEW X, NEW q \in Seq(X), NEW idx \in SUBSET (1 .. Len(q))
  PROVE  /\ Pick(q, idx) \in Seq(X)
         /\ IsFiniteSet(idx) /\ Len(Pick(q, idx)) = Cardinality(idx)
         /\ \E e \in [1 .. Cardinality(idx) -> idx] : PickedBy(q, idx, e)
<1> DEFINE N == Cardinality(idx)
           e == [k \in 1 .. N |-> CHOOSE i \in idx : RankIn(idx, i) = k - 1]
<1>1. Len(q) \in Nat /\ \A i \in 1 .. Len(q) : q[i] \in X
  BY LenProperties, ElementOfSeq
<1>2. IsFiniteSet(1 .. Len(q))
  BY <1>1, FS_Interval
<1>3. IsFiniteSet(idx) /\ N \in Nat
  BY <1>2, FS_Subset, FS_CardinalityType
<1>4. idx \in SUBSET Int /\ \A i \in idx : i \in Int /\ i \in 1 .. Len(q)
  OBVIOUS
<1>5. \A k \in 1 .. N : e[k] \in idx /\ RankIn(idx, e[k]) = k - 1
  <2> TAKE k \in 1 .. N
  <2>1. k - 1 \in 0 .. N - 1
    BY <1>3
  <2>2. \E i \in idx : RankIn(idx, i) = k - 1
    BY <1>3, <1>4, <2>1, RankReaches
  <2>3. QED
    BY <2>2
<1>6. \A i \in idx : \E k \in 1 .. N : e[k] = i
  <2> TAKE i \in idx
  <2>1. RankIn(idx, i) \in 0 .. N - 1
    BY <1>3, <1>4, RankBounded
  <2>2. PICK j \in idx : \A y \in idx : RankIn(idx, y) = RankIn(idx, i) => y = j
    BY <1>3, <1>4, <2>1, RankReaches
  <2>3. RankIn(idx, i) + 1 \in 1 .. N /\ (RankIn(idx, i) + 1) - 1 = RankIn(idx, i)
    BY <1>3, <2>1
  <2>4. e[RankIn(idx, i) + 1] = i
    BY <1>5, <2>2, <2>3
  <2>5. QED
    BY <2>3, <2>4
<1>7. Pick(q, idx) = [k \in 1 .. N |-> q[e[k]]]
  BY DEF Pick
<1>8. e \in [1 .. N -> idx]
  BY <1>5
<1> HIDE DEF e
<1>9. \A k, l \in 1 .. N : k < l => e[k] < e[l]
  <2> SUFFICES ASSUME NEW k \in 1 .. N, NEW l \in 1 .. N, k < l, ~(e[k] < e[l])
               PROVE  FALSE
    OBVIOUS
  <2>1. e[k] \in idx /\ e[l] \in idx /\ e[k] \in Int /\ e[l] \in Int
    BY <1>4, <1>5
  <2>2. RankIn(idx, e[k]) = k - 1 /\ RankIn(idx, e[l]) = l - 1
    BY <1>5
  <2>3. CASE e[k] = e[l]
    BY <1>3, <2>2, <2>3
  <2>4. CASE e[l] < e[k]
    <3>1. RankIn(idx, e[l]) < RankIn(idx, e[k])
      BY <1>3, <1>4, <2>1, <2>4, RankGrows
    <3>2. QED
      BY <1>3, <2>2, <3>1
  <2>5. QED
    BY <2>1, <2>3, <2>4
<1>10. Pick(q, idx) \in [1 .. N -> X]
  BY <1>1, <1>4, <1>7, <1>8
<1>11. Pick(q, idx) \in Seq(X) /\ Len(Pick(q, idx)) = N
  BY <1>3, <1>10
<1>12. \A k \in 1 .. N : Pick(q, idx)[k] = q[e[k]]
  BY <1>7
<1>13. PickedBy(q, idx, e)
  BY <1>6, <1>9, <1>12 DEF PickedBy
<1>14. QED
  BY <1>3, <1>8, <1>11, <1>13

(* What Pick takes from a list is a list.                                    *)
LEMMA PickList ==
  ASSUME NEW X, NEW q, List(q, X), NEW idx \in SUBSET (1 .. Len(q))
  PROVE  /\ List(Pick(q, idx), X)
         /\ \A x : x \in Range(Pick(q, idx)) <=> \E i \in idx : q[i] = x
<1> DEFINE N == Cardinality(idx)
           t == Pick(q, idx)
<1>1. q \in Seq(X)
  BY DEF List
<1>2. t \in Seq(X) /\ IsFiniteSet(idx) /\ Len(t) = N /\ N \in Nat
  BY <1>1, PickSeq, FS_CardinalityType
<1>3. PICK e \in [1 .. N -> idx] : PickedBy(q, idx, e)
  BY <1>1, PickSeq
<1>a. /\ \A k \in 1 .. N : t[k] = q[e[k]]
      /\ \A k, l \in 1 .. N : k < l => e[k] < e[l]
      /\ \A i \in idx : \E k \in 1 .. N : e[k] = i
  BY <1>3 DEF PickedBy
<1> HIDE DEF N, t
<1>b. Len(q) \in Nat
  BY ListFacts
<1>4. \A k \in 1 .. N : e[k] \in idx /\ e[k] \in 1 .. Len(q) /\ e[k] \in Int
  <2>1. \A k \in 1 .. N : e[k] \in idx
    BY <1>3
  <2>2. \A i \in idx : i \in 1 .. Len(q) /\ i \in Int
    BY <1>b
  <2>3. QED
    BY <2>1, <2>2
<1>5. \A k, l \in 1 .. N : t[k] = t[l] => k = l
  <2> SUFFICES ASSUME NEW k \in 1 .. N, NEW l \in 1 .. N, t[k] = t[l], k # l
               PROVE  FALSE
    OBVIOUS
  <2>1. e[k] = e[l]
    BY <1>a, <1>4 DEF List
  <2>2. k < l \/ l < k
    BY <1>2
  <2>3. e[k] < e[l] \/ e[l] < e[k]
    BY <1>a, <2>2
  <2>4. QED
    BY <1>4, <2>1, <2>3
<1>6. List(t, X)
  BY <1>2, <1>5 DEF List
<1>7. \A x : x \in Range(t) <=> \E k \in 1 .. N : t[k] = x
  BY <1>2, <1>6, ListFacts
<1>8. \A x : x \in Range(t) <=> \E i \in idx : q[i] = x
  BY <1>a, <1>4, <1>7
<1>9. QED
  BY <1>6, <1>8 DEF t

-------------------------------------------------------------------------------
\* The block manager.

Info == [id : Ids, len : Nat \ {0}]

(* The requests an operation is told of have ids of their own.             *)
Told(reqs) ==
  /\ reqs \in Seq(Info)
  /\ \A i, j \in 1 .. Len(reqs) : reqs[i].id = reqs[j].id => i = j

(* The indices and entries of what an operation is told.                     *)
LEMMA ToldFacts ==
  ASSUME NEW reqs, Told(reqs)
  PROVE  /\ Len(reqs) \in Nat /\ DOMAIN reqs = 1 .. Len(reqs) /\ IsFiniteSet(DOMAIN reqs)
         /\ \A i \in DOMAIN reqs : reqs[i].id \in Ids /\ reqs[i].len \in Nat \ {0} /\ i \in Nat \ {0}
         /\ \A i, j \in DOMAIN reqs : reqs[i].id = reqs[j].id => i = j
<1>1. Len(reqs) \in Nat /\ DOMAIN reqs = 1 .. Len(reqs)
  BY LenProperties DEF Told
<1>2. \A i \in 1 .. Len(reqs) : reqs[i] \in Info
  BY ElementOfSeq DEF Told
<1>3. IsFiniteSet(1 .. Len(reqs))
  BY <1>1, FS_Interval
<1>4. QED
  BY <1>1, <1>2, <1>3 DEF Told, Info

(* Some tokens need at least a block, no tokens none.                        *)
LEMMA CdivFacts ==
  ASSUME BlocksAssumption
  PROVE  /\ Cdiv(0) = 0
         /\ \A n \in Nat : Cdiv(n) \in Nat
         /\ \A n \in Nat \ {0} : Cdiv(n) \in Nat \ {0}
<1> PICK B \in Nat \ {0} : B = BlockSize
  BY DEF BlocksAssumption
<1>1. \A n \in Nat : Cdiv(n) = (n + B - 1) \div B
  BY DEF Cdiv
<1>2. (0 + B - 1) \div B = 0
  OBVIOUS
<1>3. \A n \in Nat : (n + B - 1) \div B \in Nat
  OBVIOUS
<1>4. \A n \in Nat \ {0} : (n + B - 1) \div B # 0
  OBVIOUS
<1>5. QED
  BY <1>1, <1>2, <1>3, <1>4

(* Sets of blocks are finite.                                                *)
LEMMA BlocksFinite ==
  ASSUME BlocksAssumption, NEW dev \in Devices, NEW T \in SUBSET Blocks(dev)
  PROVE  IsFiniteSet(T) /\ T \in SUBSET Int /\ Cardinality(T) \in Nat
<1>1. Blocks(dev) \in SUBSET Int /\ IsFiniteSet(Blocks(dev))
  <2> DEFINE n == IF dev = "gpu" THEN GpuBlocks ELSE CpuBlocks
  <2>1. n \in Nat
    BY DEF BlocksAssumption
  <2>2. IsFiniteSet(1 .. n)
    BY <2>1, FS_Interval
  <2>3. QED
    BY <2>1, <2>2 DEF Blocks
<1>2. QED
  BY <1>1, FS_Subset, FS_CardinalityType

\* The split of the GPU in which the row of an id is; those in S have theirs
\* in the second.
SplitFor(S, dev, id) == IF dev = "gpu" /\ id \in S THEN 1 ELSE 0

\* The blocks of split s of dev are shared out between the list of free blocks
\* and the rows that are in it.
Shared(b, S, dev, s) ==
  /\ b.free[dev][s] \subseteq Blocks(dev)
  /\ \A id \in Ids : SplitFor(S, dev, id) = s =>
       /\ b.table[dev][id] \subseteq Blocks(dev)
       /\ b.table[dev][id] \intersect b.free[dev][s] = {}
  /\ \A x \in Blocks(dev) :
       x \in b.free[dev][s] \/ \E id \in Ids : SplitFor(S, dev, id) = s /\ x \in b.table[dev][id]
  /\ \A id1, id2 \in Ids :
       id1 # id2 /\ SplitFor(S, dev, id1) = s /\ SplitFor(S, dev, id2) = s =>
         b.table[dev][id1] \intersect b.table[dev][id2] = {}

Parted(b, S) ==
  /\ S # {} => ExtraLayer
  /\ \A dev \in Devices : \A s \in Splits : Shared(b, S, dev, s)

(* A row is in a split there is.                                             *)
LEMMA SplitExists ==
  ASSUME BlocksAssumption, NEW b, NEW S, Parted(b, S), NEW dev, NEW id
  PROVE  SplitFor(S, dev, id) \in Splits
BY DEF Parted, SplitFor, Splits

(* The blocks of a row are blocks of its device.                             *)
LEMMA RowFinite ==
  ASSUME BlocksAssumption, NEW b, NEW S, Parted(b, S), NEW dev \in Devices, NEW id \in Ids
  PROVE  /\ b.table[dev][id] \subseteq Blocks(dev)
         /\ IsFiniteSet(b.table[dev][id]) /\ Cardinality(b.table[dev][id]) \in Nat
<1>1. SplitFor(S, dev, id) \in Splits
  BY SplitExists
<1>2. b.table[dev][id] \subseteq Blocks(dev)
  BY <1>1 DEF Parted, Shared
<1>3. QED
  BY <1>2, BlocksFinite

(* The types of the fields of the tables' state.                             *)
LEMMA StateFields ==
  ASSUME NEW b \in BlockState
  PROVE  /\ \A dev \in Devices : \A id \in Ids : b.table[dev][id] \in SUBSET Nat
         /\ \A dev \in Devices : \A s \in Splits : b.free[dev][s] \in SUBSET Nat
         /\ b.fault \in Faults
BY DEF BlockState

\* The second split takes the first sp requests.
Takes(sp, i) == IF i <= sp THEN 1 ELSE 0

\* Alloc gave request i the blocks of got[i].
Gave(b, dev, reqs, sp, omit, got, b2) ==
  /\ b2.fault = "none" /\ b2.copies = b.copies
  /\ got \in [DOMAIN reqs -> SUBSET Nat]
  /\ \A i \in DOMAIN reqs :
       /\ b2.table[dev][reqs[i].id] = b.table[dev][reqs[i].id] \union got[i]
       /\ got[i] \subseteq b.free[dev][Takes(sp, i)]
       /\ IsFiniteSet(got[i])
       /\ Cardinality(got[i]) = Cdiv(reqs[i].len - (IF omit THEN 1 ELSE 0))
                                  - Cardinality(b.table[dev][reqs[i].id])
  /\ \A i, j \in DOMAIN reqs :
       i # j /\ Takes(sp, i) = Takes(sp, j) => got[i] \intersect got[j] = {}
  /\ \A d \in Devices, id \in Ids :
       d # dev \/ (\A i \in DOMAIN reqs : reqs[i].id # id) => b2.table[d][id] = b.table[d][id]
  /\ \A s \in Splits : b2.free[dev][s] =
       b.free[dev][s] \ UNION {got[i] : i \in {j \in DOMAIN reqs : Takes(sp, j) = s}}
  /\ \A d \in Devices \ {dev} : b2.free[d] = b.free[d]

(* What Alloc does when it does not raise.                                 *)
LEMMA AllocGives ==
  ASSUME BlocksAssumption, NEW b \in BlockState, b.fault = "none", NEW S, Parted(b, S),
         NEW dev \in Devices, NEW reqs, Told(reqs), reqs # <<>>,
         NEW sp \in Nat, sp > 0 => ExtraLayer, NEW omit \in BOOLEAN,
         Alloc(b, dev, reqs, sp, omit).fault = "none"
  PROVE  \E got : Gave(b, dev, reqs, sp, omit, got, Alloc(b, dev, reqs, sp, omit))
<1> DEFINE Tgt(i) == Cdiv(reqs[i].len - (IF omit THEN 1 ELSE 0))
           Has(i) == Cardinality(b.table[dev][reqs[i].id])
           New(i) == Tgt(i) - Has(i)
           Asked(T) == UNION {{i} \X (1 .. New(i)) : i \in T}
           Split(i) == IF i <= sp THEN 1 ELSE 0
           Of(s) == {i \in DOMAIN reqs : Split(i) = s}
           Got(i) == Slice(b.free[dev][Split(i)],
                           Cardinality(Asked({j \in Of(Split(i)) : j < i})), New(i))
           GotBy(id) == UNION {Got(i) : i \in {j \in DOMAIN reqs : reqs[j].id = id}}
           b2 == [b EXCEPT !.table[dev] = [id \in Ids |-> @[id] \union GotBy(id)],
                           !.free[dev] = [s \in Splits |-> @[s] \ UNION {Got(i) : i \in Of(s)}]]
           tooMany == \E i \in DOMAIN reqs : Has(i) > Tgt(i)
           tooFew == \E s \in Splits : Cardinality(Asked(Of(s))) > Cardinality(b.free[dev][s])
<1>1. Alloc(b, dev, reqs, sp, omit) =
        IF tooMany THEN Raise(b, "assertion")
        ELSE IF tooFew THEN Raise(b, IF dev = "gpu" THEN "no_gpu_blocks" ELSE "no_cpu_blocks")
        ELSE b2
  BY Zenon DEF Alloc
<1>2. Raise(b, "assertion").fault = "assertion"
      /\ Raise(b, IF dev = "gpu" THEN "no_gpu_blocks" ELSE "no_cpu_blocks").fault # "none"
  BY DEF Raise, BlockState
<1>3. ~tooMany /\ ~tooFew /\ Alloc(b, dev, reqs, sp, omit) = b2
  <2> HIDE DEF tooMany, tooFew, b2
  <2>1. QED
    BY <1>1, <1>2
<1>4. /\ b2.fault = "none" /\ b2.copies = b.copies
      /\ \A d \in Devices, id \in Ids : b2.table[d][id] =
           IF d = dev THEN b.table[d][id] \union GotBy(id) ELSE b.table[d][id]
      /\ \A s \in Splits : b2.free[dev][s] = b.free[dev][s] \ UNION {Got(i) : i \in Of(s)}
      /\ \A d \in Devices \ {dev} : b2.free[d] = b.free[d]
  <2> HIDE DEF GotBy, Got, Of
  <2>1. QED
    BY DEF BlockState
<1> DEFINE D == DOMAIN reqs
           new == [i \in D |-> New(i)]
           Before(i) == {j \in Of(Split(i)) : j < i}
<1>5. /\ IsFiniteSet(D) /\ D \in SUBSET Nat
      /\ \A i \in D : reqs[i].id \in Ids /\ reqs[i].len \in Nat \ {0} /\ i \in Nat \ {0}
      /\ \A i, j \in D : reqs[i].id = reqs[j].id => i = j
  BY ToldFacts
<1>6. \A i \in D : Tgt(i) \in Nat /\ Has(i) \in Nat /\ New(i) \in Nat
  <2> TAKE i \in D
  <2>1. reqs[i].len - (IF omit THEN 1 ELSE 0) \in Nat
    BY <1>5
  <2>2. Tgt(i) \in Nat
    BY <2>1, CdivFacts
  <2>3. Has(i) \in Nat
    BY <1>5, RowFinite
  <2> HIDE DEF Tgt, Has
  <2>4. ~(Has(i) > Tgt(i))
    BY <1>3
  <2>5. QED
    BY <2>2, <2>3, <2>4
<1>7. \A T \in SUBSET D : Asked(T) = Units(new, T)
  BY DEF Units
<1>8. \A i \in D : Split(i) \in Splits /\ Split(i) = Takes(sp, i)
  BY <1>5 DEF Splits, Takes
<1>9. \A s \in Splits : /\ b.free[dev][s] \in SUBSET Int /\ IsFiniteSet(b.free[dev][s])
                        /\ Cardinality(b.free[dev][s]) \in Nat
  <2> TAKE s \in Splits
  <2>1. b.free[dev][s] \in SUBSET Blocks(dev)
    BY DEF Parted, Shared
  <2>2. QED
    BY <2>1, BlocksFinite
<1>10. new \in [D -> Nat]
  <2> HIDE DEF New
  <2>1. QED
    BY <1>6
<1> HIDE DEF New, Asked, new, D, Tgt, Has, b2, tooMany, tooFew, Split
<1>11. \A s : IsFiniteSet(Of(s)) /\ Of(s) \in SUBSET D
  BY <1>5, FS_Subset DEF D
<1>12. \A i \in D : IsFiniteSet(Before(i)) /\ Before(i) \in SUBSET D /\ i \in D \ Before(i)
                    /\ Before(i) \union {i} \in SUBSET Of(Split(i))
  <2> TAKE i \in D
  <2>1. Before(i) \in SUBSET Of(Split(i)) /\ i \in Of(Split(i))
    BY DEF D
  <2>2. i \notin Before(i)
    BY <1>5
  <2>3. IsFiniteSet(Before(i))
    BY <1>11, <2>1, FS_Subset
  <2>4. QED
    BY <1>11, <2>1, <2>2, <2>3
<1>13. \A i \in D :
         /\ Cardinality(Asked(Before(i))) = Cardinality(Units(new, Before(i)))
         /\ Cardinality(Units(new, Before(i))) \in Nat /\ new[i] = New(i) /\ New(i) \in Nat
         /\ Cardinality(Units(new, Before(i) \union {i})) = Cardinality(Units(new, Before(i))) + new[i]
         /\ Cardinality(Units(new, Before(i))) + new[i] <= Cardinality(b.free[dev][Split(i)])
  <2> TAKE i \in D
  <2> HIDE DEF Before, Of
  <2>1. Cardinality(Units(new, Before(i) \union {i})) = Cardinality(Units(new, Before(i))) + new[i]
    BY <1>10, <1>12, UnitsAdd
  <2>2. Cardinality(Units(new, Before(i) \union {i})) <= Cardinality(Units(new, Of(Split(i))))
    BY <1>10, <1>11, <1>12, UnitsGrow
  <2>3. Cardinality(Units(new, Of(Split(i)))) \in Nat /\ Cardinality(Units(new, Before(i))) \in Nat
    BY <1>10, <1>11, <1>12, UnitsFinite
  <2>4. ~(Cardinality(Asked(Of(Split(i)))) > Cardinality(b.free[dev][Split(i)]))
    BY <1>3, <1>8 DEF tooFew
  <2>5. Asked(Of(Split(i))) = Units(new, Of(Split(i))) /\ Asked(Before(i)) = Units(new, Before(i))
    BY <1>7, <1>11, <1>12
  <2>6. new[i] = New(i) /\ New(i) \in Nat
    BY <1>6 DEF new, D
  <2>7. Cardinality(b.free[dev][Split(i)]) \in Nat
    BY <1>8, <1>9
  <2>8. QED
    BY <2>1, <2>2, <2>3, <2>4, <2>5, <2>6, <2>7
<1>14. \A i \in D : Got(i) = Slice(b.free[dev][Split(i)], Cardinality(Units(new, Before(i))), new[i])
  BY <1>13
<1>15. \A i \in D : /\ Got(i) \subseteq b.free[dev][Split(i)]
                    /\ IsFiniteSet(Got(i)) /\ Cardinality(Got(i)) = New(i)
  <2> TAKE i \in D
  <2>1. Got(i) \subseteq b.free[dev][Split(i)]
    BY <1>14 DEF Slice
  <2>2. /\ IsFiniteSet(Slice(b.free[dev][Split(i)], Cardinality(Units(new, Before(i))), new[i]))
        /\ Cardinality(Slice(b.free[dev][Split(i)], Cardinality(Units(new, Before(i))), new[i])) = new[i]
    <3> HIDE DEF Before, Of
    <3>1. PICK c \in Nat : c = Cardinality(Units(new, Before(i)))
      BY <1>13
    <3>2. PICK n \in Nat : n = new[i]
      BY <1>13
    <3>3. c + n <= Cardinality(b.free[dev][Split(i)])
      BY <1>13, <3>1, <3>2
    <3>4. b.free[dev][Split(i)] \in SUBSET Int /\ IsFiniteSet(b.free[dev][Split(i)])
      BY <1>8, <1>9
    <3>5. QED
      BY <3>1, <3>2, <3>3, <3>4, SliceSize
  <2> HIDE DEF Got
  <2>3. QED
    BY <1>13, <1>14, <2>1, <2>2
<1>16. \A i, j \in D : i < j /\ Split(i) = Split(j) => Got(i) \intersect Got(j) = {}
  <2> SUFFICES ASSUME NEW i \in D, NEW j \in D, i < j, Split(i) = Split(j), NEW x \in Got(i), x \in Got(j)
               PROVE  FALSE
    OBVIOUS
  <2>1. Before(i) \union {i} \in SUBSET Before(j)
    <3>1. \A k \in Before(i) : k \in Before(j)
      <4> TAKE k \in Before(i)
      <4>1. k \in Of(Split(j)) /\ k < i /\ k \in D
        BY <1>12
      <4>2. k < j
        BY <1>5, <4>1
      <4>3. QED
        BY <4>1, <4>2
    <3>2. i \in Before(j)
      BY <1>12
    <3>3. QED
      BY <3>1, <3>2
  <2>2. Cardinality(Units(new, Before(i) \union {i})) <= Cardinality(Units(new, Before(j)))
    BY <1>10, <1>12, <2>1, UnitsGrow
  <2> HIDE DEF Got, Before, Of
  <2>3. x \in b.free[dev][Split(i)]
    BY <1>15
  <2>4. RankIn(b.free[dev][Split(i)], x) \in 0 .. Cardinality(b.free[dev][Split(i)]) - 1
    BY <1>8, <1>9, <2>3, RankBounded
  <2> PICK r \in Int : r = RankIn(b.free[dev][Split(i)], x)
    BY <2>4
  <2>5. r \in Cardinality(Units(new, Before(i))) .. Cardinality(Units(new, Before(i))) + new[i] - 1
    BY <1>14 DEF Slice
  <2>6. r \in Cardinality(Units(new, Before(j))) .. Cardinality(Units(new, Before(j))) + new[j] - 1
    BY <1>14 DEF Slice
  <2> PICK ci \in Nat, ni \in Nat, cj \in Nat, nj \in Nat :
        /\ ci = Cardinality(Units(new, Before(i))) /\ ni = new[i]
        /\ cj = Cardinality(Units(new, Before(j))) /\ nj = new[j]
    BY <1>13
  <2>7. ci + ni <= cj
    BY <1>13, <2>2
  <2>8. r <= ci + ni - 1 /\ cj <= r
    BY <2>5, <2>6
  <2>9. QED
    BY <2>7, <2>8
<1> DEFINE got == [i \in D |-> Got(i)]
<1>17. \A i \in D : GotBy(reqs[i].id) = Got(i)
  <2> TAKE i \in D
  <2>1. {j \in DOMAIN reqs : reqs[j].id = reqs[i].id} = {i}
    BY <1>5 DEF D
  <2> HIDE DEF Got
  <2>2. QED
    BY <2>1
<1>18. \A id : (\A i \in D : reqs[i].id # id) => GotBy(id) = {}
  <2> HIDE DEF Got
  <2>1. QED
    BY DEF D
<1>19. \A s : UNION {Got(i) : i \in Of(s)} = UNION {got[i] : i \in {j \in D : Takes(sp, j) = s}}
  <2> HIDE DEF Got
  <2>1. \A s : Of(s) = {j \in D : Takes(sp, j) = s}
    BY <1>8 DEF D
  <2>2. QED
    BY <2>1
<1>20. \A i \in D : got[i] = Got(i) /\ got[i] \in SUBSET Nat
  <2> TAKE i \in D
  <2>1. b.free[dev][Split(i)] \in SUBSET Nat
    BY <1>8, StateFields
  <2> HIDE DEF Got
  <2>2. QED
    BY <1>15, <2>1
<1>21. \A i, j \in D : i # j /\ Takes(sp, i) = Takes(sp, j) => got[i] \intersect got[j] = {}
  <2> HIDE DEF Got, got
  <2> SUFFICES ASSUME NEW i \in D, NEW j \in D, i # j, Takes(sp, i) = Takes(sp, j)
               PROVE  Got(i) \intersect Got(j) = {}
    BY <1>20
  <2>1. Split(i) = Split(j)
    BY <1>8
  <2>2. i < j \/ j < i
    BY <1>5
  <2>3. QED
    BY <1>16, <2>1, <2>2
<1> HIDE DEF Got, GotBy, Of
<1>22. got \in [D -> SUBSET Nat]
  BY <1>20
<1> HIDE DEF got
<1>23. \A i \in D :
         /\ b2.table[dev][reqs[i].id] = b.table[dev][reqs[i].id] \union got[i]
         /\ got[i] \subseteq b.free[dev][Takes(sp, i)]
         /\ IsFiniteSet(got[i])
         /\ Cardinality(got[i]) = Tgt(i) - Has(i)
  <2> TAKE i \in D
  <2>1. b2.table[dev][reqs[i].id] = b.table[dev][reqs[i].id] \union GotBy(reqs[i].id)
    BY <1>4, <1>5
  <2>2. Got(i) = got[i] /\ GotBy(reqs[i].id) = got[i]
    BY <1>17, <1>20
  <2>3. Cardinality(Got(i)) = Tgt(i) - Has(i)
    BY <1>15 DEF New
  <2>4. IsFiniteSet(Got(i)) /\ Got(i) \subseteq b.free[dev][Takes(sp, i)]
    BY <1>8, <1>15
  <2>5. QED
    BY <2>1, <2>2, <2>3, <2>4
<1>24. \A d \in Devices, id \in Ids :
         d # dev \/ (\A i \in D : reqs[i].id # id) => b2.table[d][id] = b.table[d][id]
  <2> TAKE d \in Devices, id \in Ids
  <2>1. CASE d # dev
    BY <1>4, <2>1
  <2>2. CASE d = dev /\ \A i \in D : reqs[i].id # id
    <3>1. GotBy(id) = {}
      BY <1>18, <2>2
    <3>2. b2.table[d][id] = b.table[d][id] \union GotBy(id)
      BY <1>4, <2>2
    <3>3. \A T : T \union {} = T
      OBVIOUS
    <3>4. QED
      BY <3>1, <3>2, <3>3
  <2>3. QED
    BY <2>1, <2>2
<1>25. \A s \in Splits : b2.free[dev][s] =
         b.free[dev][s] \ UNION {got[i] : i \in {j \in D : Takes(sp, j) = s}}
  BY <1>4, <1>19
<1>26. Gave(b, dev, reqs, sp, omit, got, b2)
  BY <1>4, <1>21, <1>22, <1>23, <1>24, <1>25 DEF Gave, D, Tgt, Has
<1>27. QED
  BY <1>3, <1>26

(* Rows of a split that take some of its free blocks.                      *)
Adds(b, S, b2, S2, dev, s, add) ==
  /\ \A id \in Ids : SplitFor(S2, dev, id) = s =>
       /\ b2.table[dev][id] = b.table[dev][id] \union add[id]
       /\ add[id] \subseteq b.free[dev][s]
       /\ b.table[dev][id] = {} \/ SplitFor(S, dev, id) = s
  /\ \A id \in Ids : SplitFor(S, dev, id) = s =>
       b.table[dev][id] = {} \/ SplitFor(S2, dev, id) = s
  /\ \A id1, id2 \in Ids :
       id1 # id2 /\ SplitFor(S2, dev, id1) = s /\ SplitFor(S2, dev, id2) = s =>
         add[id1] \intersect add[id2] = {}
  /\ \A x : x \in b2.free[dev][s] <=>
       x \in b.free[dev][s] /\ \A id \in Ids : SplitFor(S2, dev, id) = s => x \notin add[id]

(* A split remains shared out when rows take some of its free blocks.        *)
LEMMA SharedAdds ==
  ASSUME NEW b, NEW S, NEW b2, NEW S2, NEW dev \in Devices, NEW s \in Splits, Shared(b, S, dev, s),
         NEW add, Adds(b, S, b2, S2, dev, s, add)
  PROVE  Shared(b2, S2, dev, s)
<1>a. /\ \A id \in Ids : SplitFor(S2, dev, id) = s =>
            /\ b2.table[dev][id] = b.table[dev][id] \union add[id]
            /\ add[id] \subseteq b.free[dev][s]
            /\ b.table[dev][id] = {} \/ SplitFor(S, dev, id) = s
      /\ \A id \in Ids : SplitFor(S, dev, id) = s =>
            b.table[dev][id] = {} \/ SplitFor(S2, dev, id) = s
      /\ \A id1, id2 \in Ids :
            id1 # id2 /\ SplitFor(S2, dev, id1) = s /\ SplitFor(S2, dev, id2) = s =>
              add[id1] \intersect add[id2] = {}
      /\ \A x : x \in b2.free[dev][s] <=>
            x \in b.free[dev][s] /\ \A id \in Ids : SplitFor(S2, dev, id) = s => x \notin add[id]
  BY DEF Adds
<1>1. b2.free[dev][s] \subseteq b.free[dev][s] /\ b2.free[dev][s] \subseteq Blocks(dev)
  BY <1>a DEF Shared
<1>2. ASSUME NEW id \in Ids, SplitFor(S2, dev, id) = s
      PROVE  /\ b2.table[dev][id] \subseteq Blocks(dev)
             /\ b2.table[dev][id] \intersect b2.free[dev][s] = {}
  <2>1. b.table[dev][id] = {} \/ b.table[dev][id] \intersect b.free[dev][s] = {}
    BY <1>a, <1>2 DEF Shared
  <2>2. b.table[dev][id] \subseteq Blocks(dev) /\ add[id] \subseteq Blocks(dev)
    BY <1>a, <1>2 DEF Shared
  <2>3. add[id] \intersect b2.free[dev][s] = {}
    BY <1>a, <1>2
  <2>4. QED
    BY <1>a, <1>1, <1>2, <2>1, <2>2, <2>3
<1>3. ASSUME NEW x \in Blocks(dev)
      PROVE  x \in b2.free[dev][s]
             \/ \E id \in Ids : SplitFor(S2, dev, id) = s /\ x \in b2.table[dev][id]
  <2>1. CASE x \in b.free[dev][s]
    BY <1>a, <2>1
  <2>2. CASE \E id \in Ids : SplitFor(S, dev, id) = s /\ x \in b.table[dev][id]
    BY <1>a, <2>2
  <2>3. QED
    BY <1>3, <2>1, <2>2 DEF Shared
<1>4. ASSUME NEW id1 \in Ids, NEW id2 \in Ids, id1 # id2,
             SplitFor(S2, dev, id1) = s, SplitFor(S2, dev, id2) = s
      PROVE  b2.table[dev][id1] \intersect b2.table[dev][id2] = {}
  <2>1. b.table[dev][id1] \intersect b.table[dev][id2] = {}
    BY <1>a, <1>4 DEF Shared
  <2>2. b.table[dev][id1] \intersect b.free[dev][s] = {} /\ b.table[dev][id2] \intersect b.free[dev][s] = {}
    BY <1>a, <1>4 DEF Shared
  <2>3. add[id1] \intersect add[id2] = {}
    BY <1>a, <1>4
  <2>4. QED
    BY <1>a, <1>4, <2>1, <2>2, <2>3
<1>5. QED
  BY <1>1, <1>2, <1>3, <1>4 DEF Shared

FirstIds(reqs, sp) == {reqs[i].id : i \in {j \in DOMAIN reqs : j <= sp}}

\* A request fits the split Alloc takes its blocks from.
Fits(b, S, dev, reqs, sp) ==
  /\ sp > 0 => dev = "gpu" /\ ExtraLayer
  /\ \A i \in DOMAIN reqs :
       IF i <= sp THEN b.table[dev][reqs[i].id] = {} ELSE SplitFor(S, dev, reqs[i].id) = 0

\* How the rows of reqs differ in b and b2: they have the blocks of their
\* tokens, or of all tokens but one.
Filled(b, dev, reqs, omit, b2) ==
  /\ \A i \in DOMAIN reqs :
       Cardinality(b2.table[dev][reqs[i].id]) = Cdiv(reqs[i].len - (IF omit THEN 1 ELSE 0))
  /\ \A d \in Devices, id \in Ids :
       d # dev \/ (\A i \in DOMAIN reqs : reqs[i].id # id) => b2.table[d][id] = b.table[d][id]

(* The blocks stay shared out, and the rows have the length asked for.       *)
LEMMA AllocParts ==
  ASSUME BlocksAssumption, NEW b \in BlockState, NEW S \in SUBSET Ids, Parted(b, S),
         NEW dev \in Devices, NEW reqs, Told(reqs),
         NEW sp \in Nat, NEW omit \in BOOLEAN, Fits(b, S, dev, reqs, sp),
         NEW got, NEW b2, Gave(b, dev, reqs, sp, omit, got, b2)
  PROVE  Parted(b2, S \union FirstIds(reqs, sp)) /\ Filled(b, dev, reqs, omit, b2)
<1> DEFINE D == DOMAIN reqs
           S2 == S \union FirstIds(reqs, sp)
           add == [id \in Ids |-> UNION {got[i] : i \in {j \in D : reqs[j].id = id}}]
<1>1. /\ \A i \in D : reqs[i].id \in Ids /\ reqs[i].len \in Nat \ {0} /\ i \in Nat \ {0}
      /\ \A i, j \in D : reqs[i].id = reqs[j].id => i = j
  BY ToldFacts
<1>2. \A i \in D : add[reqs[i].id] = got[i]
  <2> TAKE i \in D
  <2>1. {j \in D : reqs[j].id = reqs[i].id} = {i}
    BY <1>1
  <2>2. QED
    BY <1>1, <2>1
<1>3. \A id \in Ids : (\A i \in D : reqs[i].id # id) => add[id] = {}
  OBVIOUS
<1> HIDE DEF D, add
<1>4. \A i \in D : /\ b2.table[dev][reqs[i].id] = b.table[dev][reqs[i].id] \union got[i]
                   /\ got[i] \subseteq b.free[dev][Takes(sp, i)]
                   /\ IsFiniteSet(got[i])
                   /\ Cardinality(got[i]) = Cdiv(reqs[i].len - (IF omit THEN 1 ELSE 0))
                                              - Cardinality(b.table[dev][reqs[i].id])
  BY DEF Gave, D
<1>5. \A i, j \in D : i # j /\ Takes(sp, i) = Takes(sp, j) => got[i] \intersect got[j] = {}
  BY DEF Gave, D
<1>6. \A d \in Devices, id \in Ids :
        d # dev \/ (\A i \in D : reqs[i].id # id) => b2.table[d][id] = b.table[d][id]
  BY DEF Gave, D
<1>7. \A s \in Splits : b2.free[dev][s] =
        b.free[dev][s] \ UNION {got[i] : i \in {j \in D : Takes(sp, j) = s}}
  BY DEF Gave, D
<1>8. /\ sp > 0 => dev = "gpu" /\ ExtraLayer
      /\ \A i \in D : IF i <= sp THEN b.table[dev][reqs[i].id] = {} ELSE SplitFor(S, dev, reqs[i].id) = 0
  BY DEF Fits, D
<1>9. \A id : id \in FirstIds(reqs, sp) <=> \E i \in D : i <= sp /\ reqs[i].id = id
  BY DEF FirstIds, D
<1>10. S2 # {} => ExtraLayer
  <2>1. FirstIds(reqs, sp) # {} => sp > 0
    BY <1>1, <1>9
  <2>2. QED
    BY <1>8, <2>1 DEF Parted
<1>11. \A i \in D : SplitFor(S2, dev, reqs[i].id) = Takes(sp, i)
  <2> TAKE i \in D
  <2>1. CASE i <= sp
    <3>1. dev = "gpu" /\ reqs[i].id \in S2
      BY <1>1, <1>8, <1>9, <2>1
    <3>2. QED
      BY <2>1, <3>1 DEF SplitFor, Takes
  <2>2. CASE ~(i <= sp)
    <3>1. dev = "gpu" => reqs[i].id \notin S
      BY <1>8, <2>2 DEF SplitFor
    <3>2. reqs[i].id \notin FirstIds(reqs, sp)
      BY <1>1, <1>9, <2>2
    <3>3. QED
      BY <2>2, <3>1, <3>2 DEF SplitFor, Takes
  <2>3. QED
    BY <2>1, <2>2
<1>12. \A id \in Ids : (\A i \in D : reqs[i].id # id) => SplitFor(S2, dev, id) = SplitFor(S, dev, id)
  BY <1>9 DEF SplitFor
<1>13. \A i \in D : b.table[dev][reqs[i].id] = {} \/ SplitFor(S, dev, reqs[i].id) = Takes(sp, i)
  BY <1>8 DEF Takes
<1>14. \A i \in D : Takes(sp, i) \in Splits
  BY <1>1, <1>8 DEF Takes, Splits
<1>15. ASSUME NEW s \in Splits PROVE Shared(b2, S2, dev, s)
  <2>1. ASSUME NEW id \in Ids, SplitFor(S2, dev, id) = s
        PROVE  /\ b2.table[dev][id] = b.table[dev][id] \union add[id]
               /\ add[id] \subseteq b.free[dev][s]
               /\ b.table[dev][id] = {} \/ SplitFor(S, dev, id) = s
    <3>1. CASE \E i \in D : reqs[i].id = id
      BY <1>2, <1>4, <1>11, <1>13, <2>1, <3>1
    <3>2. CASE \A i \in D : reqs[i].id # id
      <4>1. add[id] = {} /\ b2.table[dev][id] = b.table[dev][id] /\ SplitFor(S, dev, id) = s
        BY <1>3, <1>6, <1>12, <2>1, <3>2
      <4>2. QED
        BY <4>1
    <3>3. QED
      BY <3>1, <3>2
  <2>2. ASSUME NEW id \in Ids, SplitFor(S, dev, id) = s
        PROVE  b.table[dev][id] = {} \/ SplitFor(S2, dev, id) = s
    BY <1>11, <1>12, <1>13, <2>2
  <2>3. ASSUME NEW id1 \in Ids, NEW id2 \in Ids, id1 # id2,
               SplitFor(S2, dev, id1) = s, SplitFor(S2, dev, id2) = s
        PROVE  add[id1] \intersect add[id2] = {}
    <3>1. CASE (\A i \in D : reqs[i].id # id1) \/ (\A i \in D : reqs[i].id # id2)
      <4>1. add[id1] = {} \/ add[id2] = {}
        BY <1>3, <3>1
      <4>2. QED
        BY <4>1
    <3>2. CASE ~((\A i \in D : reqs[i].id # id1) \/ (\A i \in D : reqs[i].id # id2))
      <4>1. PICK i \in D, j \in D : reqs[i].id = id1 /\ reqs[j].id = id2
        BY <3>2
      <4>2. add[id1] = got[i] /\ add[id2] = got[j] /\ i # j /\ Takes(sp, i) = Takes(sp, j)
        BY <1>2, <1>11, <2>3, <4>1
      <4>3. QED
        BY <1>5, <4>2
    <3>3. QED
      BY <3>1, <3>2
  <2>4. ASSUME NEW x
        PROVE  x \in b2.free[dev][s] <=>
                 x \in b.free[dev][s] /\ \A id \in Ids : SplitFor(S2, dev, id) = s => x \notin add[id]
    <3>1. x \in b2.free[dev][s] <=>
            x \in b.free[dev][s] /\ \A i \in D : Takes(sp, i) = s => x \notin got[i]
      BY <1>7
    <3>2. (\A i \in D : Takes(sp, i) = s => x \notin got[i])
            => \A id \in Ids : SplitFor(S2, dev, id) = s => x \notin add[id]
      BY <1>2, <1>3, <1>11
    <3>3. (\A id \in Ids : SplitFor(S2, dev, id) = s => x \notin add[id])
            => \A i \in D : Takes(sp, i) = s => x \notin got[i]
      BY <1>1, <1>2, <1>11
    <3>4. QED
      BY <3>1, <3>2, <3>3
  <2>5. Shared(b, S, dev, s)
    BY DEF Parted
  <2> HIDE DEF S2
  <2>6. Adds(b, S, b2, S2, dev, s, add)
    BY <2>1, <2>2, <2>3, <2>4 DEF Adds
  <2>7. QED
    BY <2>5, <2>6, SharedAdds
<1>16. ASSUME NEW d \in Devices, d # dev, NEW s \in Splits PROVE Shared(b2, S2, d, s)
  <2>1. b2.free[d] = b.free[d] /\ \A id \in Ids : b2.table[d][id] = b.table[d][id]
    BY <1>6, <1>16 DEF Gave
  <2>2. \A id \in Ids : SplitFor(S2, d, id) = SplitFor(S, d, id)
    <3>1. CASE d = "cpu"
      BY <3>1 DEF SplitFor
    <3>2. CASE d = "gpu"
      <4>1. FirstIds(reqs, sp) = {}
        BY <1>1, <1>8, <1>9, <1>16, <3>2
      <4>2. QED
        BY <4>1
    <3>3. QED
      BY <3>1, <3>2 DEF Devices
  <2>3. Shared(b, S, d, s)
    BY DEF Parted
  <2> HIDE DEF S2
  <2>4. QED
    BY <2>1, <2>2, <2>3 DEF Shared
<1>17. Parted(b2, S2)
  BY <1>10, <1>15, <1>16 DEF Parted
<1>18. \A i \in D :
         Cardinality(b2.table[dev][reqs[i].id]) = Cdiv(reqs[i].len - (IF omit THEN 1 ELSE 0))
  <2> TAKE i \in D
  <2> DEFINE row == b.table[dev][reqs[i].id]
  <2>1. IsFiniteSet(row) /\ Cardinality(row) \in Nat
    BY <1>1, RowFinite
  <2>2. row \intersect got[i] = {}
    <3>1. CASE row = {}
      BY <3>1
    <3>2. CASE row # {}
      <4>1. SplitFor(S, dev, reqs[i].id) = Takes(sp, i)
        BY <1>13, <3>2
      <4>2. row \intersect b.free[dev][Takes(sp, i)] = {}
        BY <1>1, <1>14, <4>1 DEF Parted, Shared
      <4>3. QED
        BY <1>4, <4>2
    <3>3. QED
      BY <3>1, <3>2
  <2>3. reqs[i].len - (IF omit THEN 1 ELSE 0) \in Nat
    BY <1>1
  <2>4. Cdiv(reqs[i].len - (IF omit THEN 1 ELSE 0)) \in Nat
    BY <2>3, CdivFacts
  <2>5. Cardinality(row \union got[i]) = Cardinality(row) + Cardinality(got[i]) - Cardinality({})
    BY <1>4, <2>1, <2>2, FS_Union
  <2>6. Cardinality({}) = 0
    BY FS_EmptySet
  <2>7. b2.table[dev][reqs[i].id] = row \union got[i]
    BY <1>4
  <2> HIDE DEF row
  <2>8. Cardinality(got[i]) = Cdiv(reqs[i].len - (IF omit THEN 1 ELSE 0)) - Cardinality(row)
    BY <1>4 DEF row
  <2>9. QED
    BY <2>1, <2>4, <2>5, <2>6, <2>7, <2>8
<1>19. Filled(b, dev, reqs, omit, b2)
  BY <1>6, <1>18 DEF Filled, D
<1>20. QED
  BY <1>17, <1>19

(* The operations keep the type of the state of the tables.                *)
LEMMA RaiseTyped ==
  ASSUME NEW b \in BlockState, NEW f \in Faults \ {"none"}
  PROVE  /\ Raise(b, f) \in BlockState /\ Raise(b, f).fault # "none"
         /\ Raise(b, f).copies = b.copies
BY DEF Raise, BlockState

(* A check either leaves the state or raises.                                *)
LEMMA CheckTyped ==
  ASSUME NEW b \in BlockState, NEW cond \in BOOLEAN
  PROVE  /\ Check(b, cond) \in BlockState
         /\ Check(b, cond).fault = "none" => b.fault = "none" /\ cond /\ Check(b, cond) = b
         /\ Check(b, cond).copies = b.copies
<1>1. "assertion" \in Faults \ {"none"}
  BY DEF Faults
<1>2. CASE cond
  BY <1>2 DEF Check
<1>3. CASE ~cond
  BY <1>1, <1>3, RaiseTyped DEF Check
<1>4. QED
  BY <1>2, <1>3

(* Alloc, whether it raises or not.                                          *)
LEMMA AllocTyped ==
  ASSUME NEW b \in BlockState, NEW dev \in Devices, NEW reqs, Told(reqs),
         NEW sp \in Nat, sp > 0 => ExtraLayer, NEW omit \in BOOLEAN
  PROVE  /\ Alloc(b, dev, reqs, sp, omit) \in BlockState
         /\ Alloc(b, dev, reqs, sp, omit).fault = "none" => b.fault = "none"
         /\ Alloc(b, dev, reqs, sp, omit).copies = b.copies
<1> DEFINE Tgt(i) == Cdiv(reqs[i].len - (IF omit THEN 1 ELSE 0))
           Has(i) == Cardinality(b.table[dev][reqs[i].id])
           New(i) == Tgt(i) - Has(i)
           Asked(T) == UNION {{i} \X (1 .. New(i)) : i \in T}
           Split(i) == IF i <= sp THEN 1 ELSE 0
           Of(s) == {i \in DOMAIN reqs : Split(i) = s}
           Got(i) == Slice(b.free[dev][Split(i)],
                           Cardinality(Asked({j \in Of(Split(i)) : j < i})), New(i))
           GotBy(id) == UNION {Got(i) : i \in {j \in DOMAIN reqs : reqs[j].id = id}}
           b2 == [b EXCEPT !.table[dev] = [id \in Ids |-> @[id] \union GotBy(id)],
                           !.free[dev] = [s \in Splits |-> @[s] \ UNION {Got(i) : i \in Of(s)}]]
           tooMany == \E i \in DOMAIN reqs : Has(i) > Tgt(i)
           tooFew == \E s \in Splits : Cardinality(Asked(Of(s))) > Cardinality(b.free[dev][s])
           none == IF dev = "gpu" THEN "no_gpu_blocks" ELSE "no_cpu_blocks"
<1>1. Alloc(b, dev, reqs, sp, omit) =
        IF b.fault # "none" \/ reqs = <<>> THEN b
        ELSE IF tooMany THEN Raise(b, "assertion")
        ELSE IF tooFew THEN Raise(b, none)
        ELSE b2
  BY Zenon DEF Alloc
<1>2. \A i \in DOMAIN reqs : Split(i) \in Splits
  BY ToldFacts DEF Splits
<1> HIDE DEF Split
<1>3. \A i \in DOMAIN reqs : Got(i) \in SUBSET Nat
  <2> TAKE i \in DOMAIN reqs
  <2>1. b.free[dev][Split(i)] \in SUBSET Nat
    BY <1>2, StateFields
  <2>2. Got(i) \subseteq b.free[dev][Split(i)]
    BY DEF Slice
  <2>3. QED
    BY <2>1, <2>2
<1> HIDE DEF Got
<1>4. \A id \in Ids : GotBy(id) \in SUBSET Nat
  BY <1>3
<1> HIDE DEF GotBy, Of, tooMany, tooFew, none
<1>5. [id \in Ids |-> b.table[dev][id] \union GotBy(id)] \in [Ids -> SUBSET Nat]
  BY <1>4, StateFields
<1>6. [s \in Splits |-> b.free[dev][s] \ UNION {Got(i) : i \in Of(s)}] \in [Splits -> SUBSET Nat]
  BY StateFields
<1>7. b2 \in BlockState /\ b2.fault = b.fault /\ b2.copies = b.copies
  BY <1>5, <1>6 DEF BlockState
<1>8. "assertion" \in Faults \ {"none"} /\ none \in Faults \ {"none"}
  BY DEF Faults, none
<1>9. Raise(b, "assertion") \in BlockState /\ Raise(b, "assertion").fault # "none"
      /\ Raise(b, "assertion").copies = b.copies
  BY <1>8, RaiseTyped
<1>10. Raise(b, none) \in BlockState /\ Raise(b, none).fault # "none"
       /\ Raise(b, none).copies = b.copies
  BY <1>8, RaiseTyped
<1> HIDE DEF b2
<1>11. QED
  BY <1>1, <1>7, <1>9, <1>10

(* What Alloc does when it does not raise.                                 *)
LEMMA AllocLemma ==
  ASSUME BlocksAssumption, NEW b \in BlockState, NEW S \in SUBSET Ids, Parted(b, S),
         NEW dev \in Devices, NEW reqs, Told(reqs),
         NEW sp \in Nat, NEW omit \in BOOLEAN, Fits(b, S, dev, reqs, sp),
         Alloc(b, dev, reqs, sp, omit).fault = "none"
  PROVE  /\ Parted(Alloc(b, dev, reqs, sp, omit), S \union FirstIds(reqs, sp))
         /\ Filled(b, dev, reqs, omit, Alloc(b, dev, reqs, sp, omit))
<1>1. sp > 0 => ExtraLayer
  BY DEF Fits
<1>2. b.fault = "none"
  BY <1>1, AllocTyped
<1>3. CASE reqs = <<>>
  <2>1. DOMAIN reqs = {}
    BY <1>3, ToldFacts, EmptySeq
  <2>2. Alloc(b, dev, reqs, sp, omit) = b
    BY <1>3 DEF Alloc
  <2>3. FirstIds(reqs, sp) = {} /\ S \union {} = S
    BY <2>1 DEF FirstIds
  <2>4. Filled(b, dev, reqs, omit, b)
    BY <2>1 DEF Filled
  <2>5. QED
    BY <2>2, <2>3, <2>4
<1>4. CASE reqs # <<>>
  <2>1. PICK got : Gave(b, dev, reqs, sp, omit, got, Alloc(b, dev, reqs, sp, omit))
    BY <1>1, <1>2, <1>4, AllocGives
  <2>2. QED
    BY <2>1, AllocParts
<1>5. QED
  BY <1>3, <1>4

\* Free emptied the rows of reqs.
Emptied(b, dev, reqs, b2) ==
  \A d \in Devices, id \in Ids :
    b2.table[d][id] = IF d = dev /\ \E i \in DOMAIN reqs : reqs[i].id = id
                      THEN {} ELSE b.table[d][id]

TheIds(reqs) == {reqs[i].id : i \in DOMAIN reqs}

(* Free never raises and copies nothing.                                     *)
LEMMA FreeTyped ==
  ASSUME NEW b \in BlockState, NEW dev \in Devices, NEW reqs, Told(reqs), NEW s \in Splits
  PROVE  /\ Free(b, dev, reqs, s) \in BlockState
         /\ Free(b, dev, reqs, s).fault = b.fault
         /\ Free(b, dev, reqs, s).copies = b.copies
<1> DEFINE ids == {reqs[i].id : i \in DOMAIN reqs}
           back == UNION {b.table[dev][id] : id \in ids}
           b2 == [b EXCEPT !.table[dev] = [id \in Ids |-> IF id \in ids THEN {} ELSE @[id]],
                           !.free[dev][s] = @ \union back]
<1>1. Free(b, dev, reqs, s) = IF b.fault # "none" \/ reqs = <<>> THEN b ELSE b2
  BY DEF Free
<1>2. ids \in SUBSET Ids
  BY ToldFacts
<1> HIDE DEF ids
<1>3. back \in SUBSET Nat
  BY <1>2, StateFields
<1> HIDE DEF back
<1>4. [id \in Ids |-> IF id \in ids THEN {} ELSE b.table[dev][id]] \in [Ids -> SUBSET Nat]
  BY StateFields
<1>5. [b.free[dev] EXCEPT ![s] = @ \union back] \in [Splits -> SUBSET Nat]
  <2>1. b.free[dev] \in [Splits -> SUBSET Nat]
    BY DEF BlockState
  <2>2. QED
    BY <1>3, <2>1
<1>6. b2 \in BlockState /\ b2.fault = b.fault /\ b2.copies = b.copies
  BY <1>4, <1>5 DEF BlockState
<1> HIDE DEF b2
<1>7. QED
  BY <1>1, <1>6

Without(S, dev, reqs) == IF dev = "gpu" THEN S \ TheIds(reqs) ELSE S

(* What Free does: the rows of reqs, which are in split s, are given back. *)
LEMMA FreeLemma ==
  ASSUME NEW b \in BlockState, NEW S \in SUBSET Ids, Parted(b, S), b.fault = "none",
         NEW dev \in Devices, NEW reqs, Told(reqs), NEW s \in Splits,
         \A i \in DOMAIN reqs : SplitFor(S, dev, reqs[i].id) = s
  PROVE  /\ Parted(Free(b, dev, reqs, s), Without(S, dev, reqs))
         /\ Emptied(b, dev, reqs, Free(b, dev, reqs, s))
<1> DEFINE ids == {reqs[i].id : i \in DOMAIN reqs}
           back == UNION {b.table[dev][id] : id \in ids}
           b2 == [b EXCEPT !.table[dev] = [id \in Ids |-> IF id \in ids THEN {} ELSE @[id]],
                           !.free[dev][s] = @ \union back]
           S2 == Without(S, dev, reqs)
<1>1. Free(b, dev, reqs, s) = IF reqs = <<>> THEN b ELSE b2
  BY DEF Free
<1>2. ids \in SUBSET Ids /\ ids = TheIds(reqs) /\ \A id : id \in ids <=> \E i \in DOMAIN reqs : reqs[i].id = id
  BY ToldFacts DEF TheIds
<1>3. \A id \in ids : SplitFor(S, dev, id) = s
  OBVIOUS
<1>4. CASE reqs = <<>>
  <2>1. DOMAIN reqs = {}
    BY <1>4, ToldFacts, EmptySeq
  <2>2. S2 = S
    BY <2>1 DEF Without, TheIds
  <2>3. Emptied(b, dev, reqs, b)
    BY <2>1 DEF Emptied
  <2>4. QED
    BY <1>1, <1>4, <2>2, <2>3
<1>5. CASE reqs # <<>>
  <2> HIDE DEF ids
  <2>1. /\ \A d \in Devices, id \in Ids : b2.table[d][id] =
             IF d = dev /\ id \in ids THEN {} ELSE b.table[d][id]
        /\ \A t \in Splits : b2.free[dev][t] =
             IF t = s THEN b.free[dev][t] \union back ELSE b.free[dev][t]
        /\ \A d \in Devices \ {dev} : b2.free[d] = b.free[d]
    <3> HIDE DEF back
    <3>1. QED
      BY DEF BlockState
  <2>2. \A id \in Ids \ ids : SplitFor(S2, dev, id) = SplitFor(S, dev, id)
    BY <1>2 DEF SplitFor, Without
  <2>3. \A x : x \in back <=> \E id \in ids : x \in b.table[dev][id]
    OBVIOUS
  <2>4. \A t \in Splits : Shared(b, S, dev, t)
    BY DEF Parted
  <2> HIDE DEF back, b2, S2
  <2>5. ASSUME NEW t \in Splits PROVE Shared(b2, S2, dev, t)
    <3>1. back \subseteq Blocks(dev)
      BY <1>2, <1>3, <2>3, <2>4 DEF Shared
    <3>2. b2.free[dev][t] \subseteq Blocks(dev)
      <4>1. b.free[dev][t] \subseteq Blocks(dev)
        BY <2>4 DEF Shared
      <4>2. b2.free[dev][t] \subseteq b.free[dev][t] \union back
        BY <2>1
      <4>3. QED
        BY <3>1, <4>1, <4>2
    <3>3. ASSUME NEW id \in Ids, SplitFor(S2, dev, id) = t
          PROVE  /\ b2.table[dev][id] \subseteq Blocks(dev)
                 /\ b2.table[dev][id] \intersect b2.free[dev][t] = {}
      <4>1. CASE id \in ids
        BY <2>1, <4>1
      <4>2. CASE id \notin ids
        <5>1. b2.table[dev][id] = b.table[dev][id] /\ SplitFor(S, dev, id) = t
          BY <2>1, <2>2, <3>3, <4>2
        <5>2. b.table[dev][id] \subseteq Blocks(dev) /\ b.table[dev][id] \intersect b.free[dev][t] = {}
          BY <2>4, <5>1 DEF Shared
        <5>3. t = s => b.table[dev][id] \intersect back = {}
          <6> SUFFICES ASSUME t = s, NEW x \in back, x \in b.table[dev][id]
                       PROVE  FALSE
            OBVIOUS
          <6>1. PICK id1 \in ids : x \in b.table[dev][id1]
            BY <2>3
          <6>2. id1 \in Ids /\ id1 # id /\ SplitFor(S, dev, id1) = t
            BY <1>2, <1>3, <4>2
          <6>3. b.table[dev][id1] \intersect b.table[dev][id] = {}
            BY <2>4, <5>1, <6>2 DEF Shared
          <6>4. QED
            BY <6>1, <6>3
        <5>4. b2.free[dev][t] = IF t = s THEN b.free[dev][t] \union back ELSE b.free[dev][t]
          BY <2>1
        <5>5. QED
          BY <5>1, <5>2, <5>3, <5>4
      <4>3. QED
        BY <4>1, <4>2
    <3>4. ASSUME NEW x \in Blocks(dev)
          PROVE  x \in b2.free[dev][t]
                 \/ \E id \in Ids : SplitFor(S2, dev, id) = t /\ x \in b2.table[dev][id]
      <4>1. CASE x \in b.free[dev][t]
        BY <2>1, <4>1
      <4>2. CASE \E id \in Ids : SplitFor(S, dev, id) = t /\ x \in b.table[dev][id]
        <5>1. PICK id \in Ids : SplitFor(S, dev, id) = t /\ x \in b.table[dev][id]
          BY <4>2
        <5>2. CASE id \in ids
          <6>1. t = s /\ x \in back
            BY <1>3, <2>3, <5>1, <5>2
          <6>2. QED
            BY <2>1, <6>1
        <5>3. CASE id \notin ids
          BY <2>1, <2>2, <5>1, <5>3
        <5>4. QED
          BY <5>2, <5>3
      <4>3. QED
        BY <2>4, <3>4, <4>1, <4>2 DEF Shared
    <3>5. ASSUME NEW id1 \in Ids, NEW id2 \in Ids, id1 # id2,
                 SplitFor(S2, dev, id1) = t, SplitFor(S2, dev, id2) = t
          PROVE  b2.table[dev][id1] \intersect b2.table[dev][id2] = {}
      <4>1. CASE id1 \in ids \/ id2 \in ids
        <5>1. b2.table[dev][id1] = {} \/ b2.table[dev][id2] = {}
          BY <2>1, <4>1
        <5>2. QED
          BY <5>1
      <4>2. CASE ~(id1 \in ids \/ id2 \in ids)
        <5>1. /\ b2.table[dev][id1] = b.table[dev][id1] /\ SplitFor(S, dev, id1) = t
              /\ b2.table[dev][id2] = b.table[dev][id2] /\ SplitFor(S, dev, id2) = t
          BY <2>1, <2>2, <3>5, <4>2
        <5>2. QED
          BY <2>4, <3>5, <5>1 DEF Shared
      <4>3. QED
        BY <4>1, <4>2
    <3>6. QED
      BY <3>2, <3>3, <3>4, <3>5 DEF Shared
  <2>6. ASSUME NEW d \in Devices, d # dev, NEW t \in Splits PROVE Shared(b2, S2, d, t)
    <3>1. b2.free[d] = b.free[d] /\ \A id \in Ids : b2.table[d][id] = b.table[d][id]
      BY <2>1, <2>6
    <3>2. \A id \in Ids : SplitFor(S2, d, id) = SplitFor(S, d, id)
      BY <2>6 DEF SplitFor, S2, Without
    <3>3. Shared(b, S, d, t)
      BY DEF Parted
    <3>4. QED
      BY <3>1, <3>2, <3>3 DEF Shared
  <2>7. Parted(b2, S2)
    <3>1. S2 # {} => S # {}
      BY DEF S2, Without
    <3>2. QED
      BY <2>5, <2>6, <3>1 DEF Parted
  <2>8. Emptied(b, dev, reqs, b2)
    BY <1>2, <2>1 DEF Emptied
  <2>9. QED
    BY <1>1, <1>5, <2>7, <2>8 DEF S2
<1>6. QED
  BY <1>4, <1>5

(* Between two preparations no row is in the second split.                 *)
LEMMA PartedConserved ==
  ASSUME BlocksAssumption, NEW b \in BlockState, Parted(b, {})
  PROVE  Conserved(b)
<1>1. \A dev, id : SplitFor({}, dev, id) = 0
  BY DEF SplitFor
<1>2. 0 \in Splits
  BY DEF Splits
<1>3. \A dev \in Devices : \A s \in Splits : Shared(b, {}, dev, s)
  BY DEF Parted
<1>4. ASSUME NEW dev \in Devices, NEW s \in Splits \ {0}
      PROVE  b.free[dev][s] = Blocks(dev)
  <2>1. b.free[dev][s] \subseteq Blocks(dev)
    BY <1>3 DEF Shared
  <2>2. \A x \in Blocks(dev) : x \in b.free[dev][s] \/ \E id \in Ids : SplitFor({}, dev, id) = s
    BY <1>3 DEF Shared
  <2>3. QED
    BY <1>1, <2>1, <2>2
<1>5. ASSUME NEW dev \in Devices
      PROVE  /\ b.free[dev][0] \union UNION {b.table[dev][id] : id \in Ids} = Blocks(dev)
             /\ \A id \in Ids : b.table[dev][id] \intersect b.free[dev][0] = {}
             /\ \A id1, id2 \in Ids :
                  id1 # id2 => b.table[dev][id1] \intersect b.table[dev][id2] = {}
  <2>1. Shared(b, {}, dev, 0)
    BY <1>2, <1>3
  <2>2. b.free[dev][0] \subseteq Blocks(dev) /\ \A id \in Ids : b.table[dev][id] \subseteq Blocks(dev)
    BY <1>1, <2>1 DEF Shared
  <2>3. \A x \in Blocks(dev) : x \in b.free[dev][0] \/ \E id \in Ids : x \in b.table[dev][id]
    BY <2>1 DEF Shared
  <2>4. b.free[dev][0] \union UNION {b.table[dev][id] : id \in Ids} = Blocks(dev)
    BY <2>2, <2>3
  <2>5. QED
    BY <1>1, <2>1, <2>4 DEF Shared
<1>6. QED
  BY <1>4, <1>5 DEF Conserved

(* At the start all blocks are free.                                         *)
LEMMA FreshParted ==
  ASSUME BlocksAssumption
  PROVE  FreshBlocks \in BlockState /\ Parted(FreshBlocks, {}) /\ FreshBlocks.fault = "none"
         /\ FreshBlocks.copies = {}
         /\ \A d \in Devices, id \in Ids : FreshBlocks.table[d][id] = {}
<1>1. \A dev \in Devices : Blocks(dev) \in SUBSET Nat
  BY DEF BlocksAssumption, Blocks
<1>2. /\ \A dev \in Devices : \A s \in Splits : FreshBlocks.free[dev][s] = Blocks(dev)
      /\ \A d \in Devices, id \in Ids : FreshBlocks.table[d][id] = {}
      /\ FreshBlocks.copies = {} /\ FreshBlocks.fault = "none"
  BY DEF FreshBlocks
<1>3. FreshBlocks \in BlockState
  BY <1>1 DEF FreshBlocks, BlockState, Faults
<1>4. Parted(FreshBlocks, {})
  BY <1>2 DEF Parted, Shared
<1>5. QED
  BY <1>2, <1>3, <1>4

-------------------------------------------------------------------------------
\* The blocks of the requests that run.

Fine(b) == b.fault = "none"

\* The requests of Q have ids of their own; each has at least a token.
Named(Q, ids) ==
  /\ \A r \in Q : ids[r] \in Ids
  /\ \A r1, r2 \in Q : ids[r1] = ids[r2] => r1 = r2

Sized(Q) == \A r \in Q : SeqLen(r) \in Nat \ {0}

\* The row of r is that of tok[r] tokens on device on[r], and there are no
\* other rows.
Holds(b, S, Q, ids, on, tok) ==
  /\ b \in BlockState /\ b.fault = "none" /\ Parted(b, S)
  /\ \A d \in Devices : \A r \in Q :
       Cardinality(b.table[d][ids[r]]) = IF on[r] = d THEN Cdiv(tok[r]) ELSE 0
  /\ \A d \in Devices : \A id \in Ids : (\A r \in Q : ids[r] # id) => b.table[d][id] = {}
  /\ \A c \in b.copies : c.src # {} /\ Cardinality(c.src) = Cardinality(c.dst)

(* The entries of what the block manager is told of a queue.                 *)
LEMMA SeenFacts ==
  ASSUME NEW Q, NEW ids, Named(Q, ids), Sized(Q), NEW q, List(q, Q)
  PROVE  /\ Told(Seen(ids, q)) /\ DOMAIN Seen(ids, q) = 1 .. Len(q)
         /\ \A i \in 1 .. Len(q) : /\ Seen(ids, q)[i].id = ids[q[i]]
                                   /\ Seen(ids, q)[i].len = SeqLen(q[i])
                                   /\ q[i] \in Q /\ q[i] \in Range(q)
         /\ \A id : id \in TheIds(Seen(ids, q)) <=> \E r \in Range(q) : ids[r] = id
<1>1. /\ Len(q) \in Nat /\ DOMAIN q = 1 .. Len(q) /\ \A i \in 1 .. Len(q) : q[i] \in Q
      /\ \A x : x \in Range(q) <=> \E i \in 1 .. Len(q) : q[i] = x
  BY ListFacts
<1>2. Seen(ids, q) = [i \in 1 .. Len(q) |-> [id |-> ids[q[i]], len |-> SeqLen(q[i])]]
  BY <1>1 DEF Seen
<1>3. \A i \in 1 .. Len(q) : [id |-> ids[q[i]], len |-> SeqLen(q[i])] \in Info
  BY <1>1 DEF Named, Sized, Info
<1>4. Seen(ids, q) \in [1 .. Len(q) -> Info]
  BY <1>2, <1>3
<1>5. Seen(ids, q) \in Seq(Info) /\ Len(Seen(ids, q)) = Len(q)
  <2>1. PICK n \in Nat : n = Len(q)
    BY <1>1
  <2>2. Seen(ids, q) \in [1 .. n -> Info]
    BY <1>4, <2>1
  <2>3. PICK t : t = Seen(ids, q)
    OBVIOUS
  <2>4. t \in [1 .. n -> Info]
    BY <2>2, <2>3
  <2>5. t \in Seq(Info) /\ Len(t) = n
    BY <2>1, <2>4
  <2>6. QED
    BY <2>1, <2>3, <2>5
<1>6. \A i \in 1 .. Len(q) : Seen(ids, q)[i].id = ids[q[i]] /\ Seen(ids, q)[i].len = SeqLen(q[i])
  BY <1>2
<1>7. \A i, j \in 1 .. Len(q) : ids[q[i]] = ids[q[j]] => i = j
  BY <1>1 DEF Named, List
<1>8. Told(Seen(ids, q))
  BY <1>5, <1>6, <1>7 DEF Told
<1>9. DOMAIN Seen(ids, q) = 1 .. Len(q)
  BY <1>2
<1>10. \A id : id \in TheIds(Seen(ids, q)) <=> \E r \in Range(q) : ids[r] = id
  BY <1>1, <1>6, <1>9 DEF TheIds
<1>11. QED
  BY <1>1, <1>6, <1>8, <1>9, <1>10

(* A request has no blocks where it is not, or before its first token.       *)
LEMMA EmptyRow ==
  ASSUME BlocksAssumption, NEW b, NEW S, NEW Q, NEW ids, NEW on, NEW tok,
         Named(Q, ids), Holds(b, S, Q, ids, on, tok), NEW d \in Devices, NEW r \in Q,
         on[r] # d \/ tok[r] = 0
  PROVE  b.table[d][ids[r]] = {}
<1>1. Cardinality(b.table[d][ids[r]]) = 0
  BY CdivFacts DEF Holds
<1>2. IsFiniteSet(b.table[d][ids[r]])
  BY RowFinite DEF Holds, Named
<1>3. QED
  BY <1>1, <1>2, FS_EmptySet

\* The requests of q are on dev; those that take their blocks from the second
\* split have none yet.
CanTake(S, ids, on, tok, q, dev, sp) ==
  /\ \A r \in Range(q) : on[r] = dev
  /\ sp > 0 => dev = "gpu" /\ ExtraLayer
  /\ \A i \in 1 .. Len(q) :
       IF i <= sp THEN tok[q[i]] = 0 ELSE SplitFor(S, dev, ids[q[i]]) = 0

\* The tokens stored once the requests of q have their blocks.
Stored(Q, q, tok) == [r \in Q |-> IF r \in Range(q) THEN SeqLen(r) ELSE tok[r]]

(* The requests of q get the blocks of their tokens.                       *)
LEMMA Grow ==
  ASSUME BlocksAssumption, NEW b, NEW S \in SUBSET Ids, NEW Q, NEW ids, NEW on, NEW tok,
         Named(Q, ids), Sized(Q), Holds(b, S, Q, ids, on, tok),
         NEW q, List(q, Q), NEW dev \in Devices, NEW sp \in Nat,
         CanTake(S, ids, on, tok, q, dev, sp),
         Fine(Alloc(b, dev, Seen(ids, q), sp, FALSE))
  PROVE  Holds(Alloc(b, dev, Seen(ids, q), sp, FALSE), S \union FirstIds(Seen(ids, q), sp),
               Q, ids, on, Stored(Q, q, tok))
<1> DEFINE reqs == Seen(ids, q)
           b2 == Alloc(b, dev, reqs, sp, FALSE)
           tok2 == [r \in Q |-> IF r \in Range(q) THEN SeqLen(r) ELSE tok[r]]
<1>1. /\ Told(reqs) /\ DOMAIN reqs = 1 .. Len(q)
      /\ \A i \in 1 .. Len(q) : /\ reqs[i].id = ids[q[i]] /\ reqs[i].len = SeqLen(q[i])
                                /\ q[i] \in Q /\ q[i] \in Range(q)
  BY SeenFacts
<1>2. \A x : x \in Range(q) <=> \E i \in 1 .. Len(q) : q[i] = x
  BY ListFacts
<1>c. /\ \A r \in Range(q) : on[r] = dev
      /\ sp > 0 => dev = "gpu" /\ ExtraLayer
      /\ \A i \in 1 .. Len(q) :
           IF i <= sp THEN tok[q[i]] = 0 ELSE SplitFor(S, dev, ids[q[i]]) = 0
  BY DEF CanTake
<1> HIDE DEF reqs
<1>3. Fits(b, S, dev, reqs, sp)
  <2>1. ASSUME NEW i \in 1 .. Len(q)
        PROVE  IF i <= sp THEN b.table[dev][reqs[i].id] = {} ELSE SplitFor(S, dev, reqs[i].id) = 0
    <3>1. CASE i <= sp
      <4>1. b.table[dev][ids[q[i]]] = {}
        BY <1>1, <1>c, <3>1, EmptyRow
      <4>2. QED
        BY <1>1, <3>1, <4>1
    <3>2. CASE ~(i <= sp)
      BY <1>1, <1>c, <3>2
    <3>3. QED
      BY <3>1, <3>2
  <2>2. QED
    BY <1>1, <1>c, <2>1 DEF Fits
<1>4. b \in BlockState /\ Parted(b, S) /\ b2.fault = "none"
  BY DEF Holds, Fine, reqs
<1>5. b2 \in BlockState /\ b2.copies = b.copies
  BY <1>1, <1>4, <1>c, AllocTyped
<1>6. Parted(b2, S \union FirstIds(reqs, sp)) /\ Filled(b, dev, reqs, FALSE, b2)
  BY <1>1, <1>3, <1>4, AllocLemma
<1> HIDE DEF b2
<1>7. ASSUME NEW d \in Devices, NEW r \in Q
      PROVE  Cardinality(b2.table[d][ids[r]]) = IF on[r] = d THEN Cdiv(tok2[r]) ELSE 0
  <2>1. CASE d = dev /\ r \in Range(q)
    <3>1. PICK i \in 1 .. Len(q) : q[i] = r
      BY <1>2, <2>1
    <3>2. Cardinality(b2.table[dev][reqs[i].id]) = Cdiv(reqs[i].len - 0)
      BY <1>1, <1>6 DEF Filled
    <3>3. reqs[i].id = ids[r] /\ reqs[i].len = SeqLen(r) /\ SeqLen(r) \in Nat
      BY <1>1, <3>1 DEF Sized
    <3>4. Cardinality(b2.table[dev][ids[r]]) = Cdiv(SeqLen(r))
      BY <3>2, <3>3
    <3>5. QED
      BY <1>c, <2>1, <3>4
  <2>2. CASE ~(d = dev /\ r \in Range(q))
    <3>1. d # dev \/ \A i \in DOMAIN reqs : reqs[i].id # ids[r]
      BY <1>1, <1>2, <2>2 DEF Named
    <3>2. ids[r] \in Ids
      BY DEF Named
    <3>3. b2.table[d][ids[r]] = b.table[d][ids[r]]
      BY <1>6, <3>1, <3>2 DEF Filled
    <3>4. on[r] = d => tok2[r] = tok[r]
      BY <1>c, <2>2
    <3>5. QED
      BY <3>3, <3>4 DEF Holds
  <2>3. QED
    BY <2>1, <2>2
<1>8. ASSUME NEW d \in Devices, NEW id \in Ids, \A r \in Q : ids[r] # id
      PROVE  b2.table[d][id] = {}
  <2>1. \A i \in DOMAIN reqs : reqs[i].id # id
    BY <1>1, <1>8
  <2>2. b2.table[d][id] = b.table[d][id]
    BY <1>6, <2>1 DEF Filled
  <2>3. QED
    BY <1>8, <2>2 DEF Holds
<1> HIDE DEF tok2
<1>9. Holds(b2, S \union FirstIds(reqs, sp), Q, ids, on, tok2)
  BY <1>4, <1>5, <1>6, <1>7, <1>8 DEF Holds
<1>10. QED
  BY <1>9 DEF b2, reqs, tok2, Stored

(* A swap: the rows of reqs are given back on one device and taken on the  *)
(* other.                                                                  *)
Side(isOut) == IF isOut THEN "gpu" ELSE "cpu"
Other(isOut) == IF isOut THEN "cpu" ELSE "gpu"
From(useItm) == IF useItm THEN 1 ELSE 0
Moved(b, reqs, isOut, useItm, omit) ==
  Alloc(Free(b, Side(isOut), reqs, From(useItm)), Other(isOut), reqs, 0, omit)
Copy(b, b2, req, isOut) ==
  [id |-> req.id, src |-> b.table[Side(isOut)][req.id], dst |-> b2.table[Other(isOut)][req.id]]

\* b2 is m with the copies of the swap.
Swapped(b, reqs, isOut, b2, m) ==
  /\ b2.fault = m.fault /\ b2.table = m.table /\ b2.free = m.free
  /\ b2.copies = b.copies \union {Copy(b, m, reqs[i], isOut) : i \in DOMAIN reqs}

(* A swap, whether it raises or not.                                         *)
LEMMA SwapTyped ==
  ASSUME NEW b \in BlockState, NEW reqs, Told(reqs), NEW isOut,
         NEW useItm, From(useItm) \in Splits, NEW omit \in BOOLEAN
  PROVE  /\ SwapBlocks(b, reqs, isOut, useItm, omit) \in BlockState
         /\ Fine(SwapBlocks(b, reqs, isOut, useItm, omit)) => Fine(b)
         /\ Moved(b, reqs, isOut, useItm, omit) \in BlockState
         /\ Swapped(b, reqs, isOut, SwapBlocks(b, reqs, isOut, useItm, omit),
                    Moved(b, reqs, isOut, useItm, omit))
<1> DEFINE b2 == SwapBlocks(b, reqs, isOut, useItm, omit)
<1> DEFINE freed == Free(b, Side(isOut), reqs, From(useItm))
           moved == Moved(b, reqs, isOut, useItm, omit)
           new == {Copy(b, moved, reqs[i], isOut) : i \in DOMAIN reqs}
<1>1. Side(isOut) \in Devices /\ Other(isOut) \in Devices
  BY DEF Side, Other, Devices
<1>2. freed \in BlockState /\ freed.fault = b.fault /\ freed.copies = b.copies
  BY <1>1, FreeTyped
<1>3. moved \in BlockState /\ (moved.fault = "none" => freed.fault = "none")
      /\ moved.copies = freed.copies
  <2> HIDE DEF freed
  <2>1. QED
    BY <1>1, <1>2, AllocTyped DEF Moved, freed
<1>4. b2 = [moved EXCEPT !.copies = @ \union new]
  BY DEF SwapBlocks, Moved, Copy, Side, Other, From
<1> HIDE DEF freed, moved, b2
<1>5. \A i \in DOMAIN reqs : Copy(b, moved, reqs[i], isOut) \in [id : Ids, src : SUBSET Nat, dst : SUBSET Nat]
  <2> TAKE i \in DOMAIN reqs
  <2>1. reqs[i].id \in Ids
    BY ToldFacts
  <2>2. /\ b.table[Side(isOut)][reqs[i].id] \in SUBSET Nat
        /\ moved.table[Other(isOut)][reqs[i].id] \in SUBSET Nat
    BY <1>1, <1>3, <2>1, StateFields
  <2>3. QED
    BY <2>1, <2>2 DEF Copy
<1>6. new \in SUBSET [id : Ids, src : SUBSET Nat, dst : SUBSET Nat]
  BY <1>5
<1> HIDE DEF new
<1>7. /\ b2 \in BlockState /\ b2.fault = moved.fault /\ b2.table = moved.table /\ b2.free = moved.free
      /\ b2.copies = moved.copies \union new
  BY <1>3, <1>4, <1>6 DEF BlockState
<1>8. Swapped(b, reqs, isOut, b2, moved)
  BY <1>2, <1>3, <1>7 DEF new, Swapped
<1>9. QED
  BY <1>2, <1>3, <1>7, <1>8 DEF b2, moved, Fine

\* The requests of q are on the one side and have the blocks they are to have
\* on the other.
CanMove(S, ids, on, tok, q, isOut, useItm, omit) ==
  \A r \in Range(q) :
    /\ on[r] = Side(isOut)
    /\ tok[r] \in Nat \ {0} /\ tok[r] = SeqLen(r) - (IF omit THEN 1 ELSE 0)
    /\ SplitFor(S, Side(isOut), ids[r]) = From(useItm)
    /\ SplitFor(S, Other(isOut), ids[r]) = 0

Across(Q, q, on, isOut) == [r \in Q |-> IF r \in Range(q) THEN Other(isOut) ELSE on[r]]

(* The requests of q change the device; their copies are whole.            *)
LEMMA Move ==
  ASSUME BlocksAssumption, NEW b, NEW S \in SUBSET Ids, NEW Q, NEW ids, NEW on, NEW tok,
         Named(Q, ids), Sized(Q), Holds(b, S, Q, ids, on, tok),
         NEW q, List(q, Q), NEW isOut, NEW useItm, From(useItm) \in Splits, NEW omit \in BOOLEAN,
         CanMove(S, ids, on, tok, q, isOut, useItm, omit),
         Fine(SwapBlocks(b, Seen(ids, q), isOut, useItm, omit))
  PROVE  Holds(SwapBlocks(b, Seen(ids, q), isOut, useItm, omit),
               Without(S, Side(isOut), Seen(ids, q)), Q, ids, Across(Q, q, on, isOut), tok)
<1> DEFINE reqs == Seen(ids, q)
           src == Side(isOut)
           dst == Other(isOut)
           S2 == Without(S, src, reqs)
           freed == Free(b, src, reqs, From(useItm))
           moved == Moved(b, reqs, isOut, useItm, omit)
           b2 == SwapBlocks(b, reqs, isOut, useItm, omit)
           on2 == [r \in Q |-> IF r \in Range(q) THEN dst ELSE on[r]]
<1>1. /\ Told(reqs) /\ DOMAIN reqs = 1 .. Len(q)
      /\ \A i \in 1 .. Len(q) : /\ reqs[i].id = ids[q[i]] /\ reqs[i].len = SeqLen(q[i])
                                /\ q[i] \in Q /\ q[i] \in Range(q)
  BY SeenFacts
<1>2. \A x : x \in Range(q) <=> \E i \in 1 .. Len(q) : q[i] = x
  BY ListFacts
<1>3. src \in Devices /\ dst \in Devices /\ src # dst
      /\ \A d \in Devices : d = src \/ d = dst
  BY DEF Side, Other, Devices
<1>b. b \in BlockState /\ Parted(b, S) /\ b.fault = "none"
  BY DEF Holds
<1>c. \A r \in Range(q) :
        /\ on[r] = src
        /\ tok[r] \in Nat \ {0} /\ tok[r] = SeqLen(r) - (IF omit THEN 1 ELSE 0)
        /\ SplitFor(S, src, ids[r]) = From(useItm)
        /\ SplitFor(S, dst, ids[r]) = 0
  BY DEF CanMove
<1>d. Fine(b2)
  OBVIOUS
<1> HIDE DEF reqs, b2
<1>4. /\ b2 \in BlockState /\ moved \in BlockState /\ moved.fault = "none"
      /\ b2.table = moved.table /\ b2.free = moved.free
      /\ b2.copies = b.copies \union {Copy(b, moved, reqs[i], isOut) : i \in DOMAIN reqs}
  <2>1. /\ SwapBlocks(b, reqs, isOut, useItm, omit) \in BlockState
        /\ Moved(b, reqs, isOut, useItm, omit) \in BlockState
        /\ Swapped(b, reqs, isOut, SwapBlocks(b, reqs, isOut, useItm, omit),
                   Moved(b, reqs, isOut, useItm, omit))
    BY <1>1, <1>b, SwapTyped
  <2> HIDE DEF moved
  <2>2. Swapped(b, reqs, isOut, b2, moved) /\ b2 \in BlockState /\ moved \in BlockState
    BY <2>1 DEF moved, b2
  <2>3. QED
    BY <1>d, <2>2 DEF Swapped, Fine
<1> HIDE DEF src, dst
<1>5. \A i \in DOMAIN reqs : SplitFor(S, src, reqs[i].id) = From(useItm)
  BY <1>1, <1>c
<1>6. Parted(freed, S2) /\ Emptied(b, src, reqs, freed)
  BY <1>1, <1>3, <1>5, <1>b, FreeLemma
<1>7. freed \in BlockState
  BY <1>1, <1>3, <1>b, FreeTyped
<1>8. Fits(freed, S2, dst, reqs, 0)
  <2>1. \A i \in DOMAIN reqs : ~(i <= 0) /\ SplitFor(S, dst, reqs[i].id) = 0
    BY <1>1, <1>c
  <2>2. \A id : SplitFor(S, dst, id) = 0 => SplitFor(S2, dst, id) = 0
    BY DEF SplitFor, Without
  <2>3. QED
    BY <2>1, <2>2 DEF Fits
<1>9. moved = Alloc(freed, dst, reqs, 0, omit)
  BY DEF Moved, src, dst
<1>10. S2 \in SUBSET Ids
  BY DEF Without
<1> HIDE DEF freed, moved, S2
<1>11. Parted(moved, S2 \union FirstIds(reqs, 0)) /\ Filled(freed, dst, reqs, omit, moved)
  <2>1. Alloc(freed, dst, reqs, 0, omit).fault = "none"
    BY <1>4, <1>9
  <2>2. /\ Parted(Alloc(freed, dst, reqs, 0, omit), S2 \union FirstIds(reqs, 0))
        /\ Filled(freed, dst, reqs, omit, Alloc(freed, dst, reqs, 0, omit))
    BY <1>1, <1>3, <1>6, <1>7, <1>8, <1>10, <2>1, AllocLemma
  <2>3. QED
    BY <1>9, <2>2
<1>12. S2 \union FirstIds(reqs, 0) = S2
  <2>1. FirstIds(reqs, 0) = {}
    BY <1>1 DEF FirstIds
  <2>2. QED
    BY <2>1
<1>13. Parted(b2, S2)
  <2>1. Parted(moved, S2)
    BY <1>11, <1>12
  <2>2. ASSUME NEW d \in Devices, NEW s \in Splits PROVE Shared(b2, S2, d, s)
    <3>1. Shared(moved, S2, d, s)
      BY <2>1 DEF Parted
    <3>2. QED
      BY <1>4, <3>1 DEF Shared
  <2>3. QED
    BY <2>1, <2>2 DEF Parted
<1>14. \A d \in Devices, id \in Ids : (\A i \in DOMAIN reqs : reqs[i].id # id) =>
         b2.table[d][id] = b.table[d][id]
  <2> TAKE d \in Devices, id \in Ids
  <2> HAVE \A i \in DOMAIN reqs : reqs[i].id # id
  <2>1. moved.table[d][id] = freed.table[d][id]
    BY <1>11 DEF Filled
  <2>2. freed.table[d][id] = b.table[d][id]
    BY <1>6 DEF Emptied
  <2>3. QED
    BY <1>4, <2>1, <2>2
<1>15. \A i \in DOMAIN reqs : /\ b2.table[src][reqs[i].id] = {}
                              /\ Cardinality(b2.table[dst][reqs[i].id]) = Cdiv(tok[q[i]])
  <2> TAKE i \in DOMAIN reqs
  <2>1. reqs[i].id \in Ids
    BY <1>1, ToldFacts
  <2>2. moved.table[src][reqs[i].id] = freed.table[src][reqs[i].id]
    BY <1>3, <1>11, <2>1 DEF Filled
  <2>3. freed.table[src][reqs[i].id] = {}
    BY <1>3, <1>6, <2>1 DEF Emptied
  <2>4. Cardinality(moved.table[dst][reqs[i].id]) = Cdiv(reqs[i].len - (IF omit THEN 1 ELSE 0))
    BY <1>11 DEF Filled
  <2>5. reqs[i].len - (IF omit THEN 1 ELSE 0) = tok[q[i]]
    BY <1>1, <1>c
  <2>6. QED
    BY <1>4, <2>2, <2>3, <2>4, <2>5
<1>16. ASSUME NEW d \in Devices, NEW r \in Q
       PROVE  Cardinality(b2.table[d][ids[r]]) = IF on2[r] = d THEN Cdiv(tok[r]) ELSE 0
  <2>1. CASE r \in Range(q)
    <3>1. PICK i \in 1 .. Len(q) : q[i] = r
      BY <1>2, <2>1
    <3>2. reqs[i].id = ids[r] /\ on2[r] = dst
      BY <1>1, <2>1, <3>1
    <3>3. b2.table[src][ids[r]] = {} /\ Cardinality(b2.table[dst][ids[r]]) = Cdiv(tok[r])
      BY <1>1, <1>15, <3>1, <3>2
    <3>4. Cardinality({}) = 0
      BY FS_EmptySet
    <3>5. QED
      BY <1>3, <3>2, <3>3, <3>4
  <2>2. CASE r \notin Range(q)
    <3>1. \A i \in DOMAIN reqs : reqs[i].id # ids[r]
      BY <1>1, <2>2 DEF Named
    <3>2. b2.table[d][ids[r]] = b.table[d][ids[r]]
      BY <1>14, <3>1 DEF Named
    <3>3. on2[r] = on[r]
      BY <2>2
    <3>4. QED
      BY <3>2, <3>3 DEF Holds
  <2>3. QED
    BY <2>1, <2>2
<1>17. ASSUME NEW d \in Devices, NEW id \in Ids, \A r \in Q : ids[r] # id
       PROVE  b2.table[d][id] = {}
  <2>1. \A i \in DOMAIN reqs : reqs[i].id # id
    BY <1>1, <1>17
  <2>2. b2.table[d][id] = b.table[d][id]
    BY <1>14, <2>1
  <2>3. QED
    BY <1>17, <2>2 DEF Holds
<1>18. ASSUME NEW c \in b2.copies
       PROVE  c.src # {} /\ Cardinality(c.src) = Cardinality(c.dst)
  <2>1. CASE c \in b.copies
    BY <2>1 DEF Holds
  <2>2. CASE c \notin b.copies
    <3>1. PICK i \in DOMAIN reqs : c = Copy(b, moved, reqs[i], isOut)
      BY <1>4, <2>2
    <3>2. c.src = b.table[src][reqs[i].id] /\ c.dst = b2.table[dst][reqs[i].id]
      BY <1>4, <3>1 DEF Copy, src, dst
    <3>3. Cardinality(c.dst) = Cdiv(tok[q[i]])
      BY <1>15, <3>2
    <3>4. q[i] \in Q /\ reqs[i].id = ids[q[i]] /\ on[q[i]] = src /\ tok[q[i]] \in Nat \ {0}
      BY <1>1, <1>c
    <3>5. Cardinality(b.table[src][ids[q[i]]]) = Cdiv(tok[q[i]])
      BY <1>3, <3>4 DEF Holds
    <3>6. Cdiv(tok[q[i]]) # 0
      BY <3>4, CdivFacts
    <3>7. Cardinality({}) = 0
      BY FS_EmptySet
    <3>8. QED
      BY <3>2, <3>3, <3>4, <3>5, <3>6, <3>7
  <2>3. QED
    BY <2>1, <2>2
<1> HIDE DEF on2
<1>19. Holds(b2, S2, Q, ids, on2, tok)
  BY <1>4, <1>d, <1>13, <1>16, <1>17, <1>18 DEF Holds, Fine
<1>20. QED
  BY <1>19 DEF S2, on2, b2, reqs, src, dst, Across

(* What the block manager is told of two queues in a row.                  *)
LEMMA SeenConcat ==
  ASSUME NEW Q, NEW ids, Named(Q, ids), Sized(Q), NEW q, List(q, Q), NEW p, List(p, Q)
  PROVE  Seen(ids, q \o p) = Seen(ids, q) \o Seen(ids, p)
<1>1. q \in Seq(Q) /\ p \in Seq(Q)
  BY ListFacts
<1>2. /\ q \o p \in Seq(Q) /\ Len(q \o p) = Len(q) + Len(p)
      /\ \A i \in 1 .. Len(q) + Len(p) :
           (q \o p)[i] = IF i <= Len(q) THEN q[i] ELSE p[i - Len(q)]
  BY <1>1, ConcatProperties
<1>3. \A t \in Seq(Q) : /\ Seen(ids, t) \in Seq(Info) /\ Len(Seen(ids, t)) = Len(t)
                        /\ \A i \in 1 .. Len(t) : Seen(ids, t)[i] = [id |-> ids[t[i]], len |-> SeqLen(t[i])]
  <2> TAKE t \in Seq(Q)
  <2>1. PICK n \in Nat : n = Len(t)
    BY LenProperties
  <2>2. DOMAIN t = 1 .. n /\ \A i \in 1 .. n : t[i] \in Q
    BY <2>1, LenProperties, ElementOfSeq
  <2>3. PICK s : s = Seen(ids, t)
    OBVIOUS
  <2>4. s = [i \in 1 .. n |-> [id |-> ids[t[i]], len |-> SeqLen(t[i])]]
    BY <2>2, <2>3 DEF Seen
  <2>5. \A i \in 1 .. n : s[i] = [id |-> ids[t[i]], len |-> SeqLen(t[i])] /\ s[i] \in Info
    BY <2>2, <2>4 DEF Named, Sized, Info
  <2>6. s \in [1 .. n -> Info]
    BY <2>4, <2>5
  <2>7. s \in Seq(Info) /\ Len(s) = n
    BY <2>1, <2>6
  <2>8. QED
    BY <2>1, <2>3, <2>5, <2>7
<1>4. PICK a \in Seq(Info), b \in Seq(Info), c \in Seq(Info) :
        a = Seen(ids, q) /\ b = Seen(ids, p) /\ c = Seen(ids, q \o p)
  BY <1>1, <1>2, <1>3
<1>5. PICK m \in Nat, n \in Nat : m = Len(q) /\ n = Len(p)
  BY <1>1, LenProperties
<1>6. Len(a) = m /\ Len(b) = n /\ Len(c) = m + n
  BY <1>1, <1>2, <1>3, <1>4, <1>5
<1>7. /\ a \o b \in Seq(Info) /\ Len(a \o b) = m + n
      /\ \A i \in 1 .. m + n : (a \o b)[i] = IF i <= m THEN a[i] ELSE b[i - m]
  BY <1>4, <1>6, ConcatProperties
<1>8. \A i \in 1 .. m + n : c[i] = (a \o b)[i]
  <2> TAKE i \in 1 .. m + n
  <2>1. c[i] = [id |-> ids[(q \o p)[i]], len |-> SeqLen((q \o p)[i])]
    BY <1>2, <1>3, <1>4, <1>5
  <2>2. CASE i <= m
    <3>1. i \in 1 .. m
      BY <2>2
    <3>2. (q \o p)[i] = q[i] /\ (a \o b)[i] = a[i]
      BY <1>2, <1>5, <1>7, <2>2
    <3>3. a[i] = [id |-> ids[q[i]], len |-> SeqLen(q[i])]
      BY <1>1, <1>3, <1>4, <1>5, <3>1
    <3>4. QED
      BY <2>1, <3>2, <3>3
  <2>3. CASE ~(i <= m)
    <3>1. PICK j \in 1 .. n : j = i - m
      BY <2>3
    <3>2. (q \o p)[i] = p[j] /\ (a \o b)[i] = b[j]
      BY <1>2, <1>5, <1>7, <2>3, <3>1
    <3>3. b[j] = [id |-> ids[p[j]], len |-> SeqLen(p[j])]
      BY <1>1, <1>3, <1>4, <1>5, <3>1
    <3>4. QED
      BY <2>1, <3>2, <3>3
  <2>4. QED
    BY <2>2, <2>3
<1>9. c = a \o b
  BY <1>4, <1>6, <1>7, <1>8, SeqEqual
<1>10. QED
  BY <1>4, <1>9

SeenBatch(ids, batch) == [part \in DOMAIN NoReqs |-> Seen(ids, batch[part])]
OnGpu(batch) == batch.cprf \o batch.gprf \o batch.gdec

BatchShape(Q, batch) ==
  /\ List(batch.cprf, Q) /\ List(batch.gprf, Q) /\ List(batch.gdec, Q) /\ List(batch.cdec, Q)
  /\ List(OnGpu(batch), Q)
  /\ Range(OnGpu(batch)) = Range(batch.cprf) \union Range(batch.gprf) \union Range(batch.gdec)

TheRows(ids, q) == {ids[r] : r \in Range(q)}
Itm(ids, batch) == IF ExtraLayer THEN TheRows(ids, batch.cprf) ELSE {}
Through(batch) == IF ExtraLayer THEN Len(batch.cprf) ELSE 0

SameLen(q, p) == Len(q) = Len(p)

(* What the block manager is told of a batch.                                *)
LEMMA SeenBatchFacts ==
  ASSUME NEW Q, NEW ids, Named(Q, ids), Sized(Q), NEW batch, BatchShape(Q, batch)
  PROVE  /\ SeenBatch(ids, batch).cprf = Seen(ids, batch.cprf)
         /\ SeenBatch(ids, batch).cdec = Seen(ids, batch.cdec)
         /\ SameLen(SeenBatch(ids, batch).cprf, batch.cprf)
         /\ SeenBatch(ids, batch).cprf \o SeenBatch(ids, batch).gprf \o SeenBatch(ids, batch).gdec
              = Seen(ids, OnGpu(batch))
         /\ \A i \in 1 .. Len(OnGpu(batch)) :
              i <= Len(batch.cprf) <=> OnGpu(batch)[i] \in Range(batch.cprf)
         /\ Len(batch.cprf) \in Nat /\ Len(batch.cprf) <= Len(OnGpu(batch))
<1>1. /\ SeenBatch(ids, batch).cprf = Seen(ids, batch.cprf)
      /\ SeenBatch(ids, batch).gprf = Seen(ids, batch.gprf)
      /\ SeenBatch(ids, batch).gdec = Seen(ids, batch.gdec)
      /\ SeenBatch(ids, batch).cdec = Seen(ids, batch.cdec)
  BY DEF SeenBatch, NoReqs
<1>2. PICK c, g, d : c = batch.cprf /\ g = batch.gprf /\ d = batch.gdec
  OBVIOUS
<1>3. List(c, Q) /\ List(g, Q) /\ List(d, Q) /\ List(c \o g \o d, Q)
      /\ OnGpu(batch) = c \o g \o d
  BY <1>2 DEF BatchShape, OnGpu
<1>4. c \in Seq(Q) /\ g \in Seq(Q) /\ d \in Seq(Q) /\ Len(c) \in Nat /\ Len(g) \in Nat /\ Len(d) \in Nat
  BY <1>3, ListFacts
<1>5. /\ c \o g \in Seq(Q) /\ Len(c \o g) = Len(c) + Len(g)
      /\ \A i \in 1 .. Len(c) + Len(g) : (c \o g)[i] = IF i <= Len(c) THEN c[i] ELSE g[i - Len(c)]
  BY <1>4, ConcatProperties
<1>6. PICK k \in Nat, l \in Nat, m \in Nat : k = Len(c) /\ l = Len(g) /\ m = Len(d)
  BY <1>4
<1>7. PICK cg \in Seq(Q) : cg = c \o g
  BY <1>5
<1>8. /\ Len(cg) = k + l /\ Len(cg \o d) = k + l + m
      /\ \A i \in 1 .. k + l + m : (cg \o d)[i] = IF i <= k + l THEN cg[i] ELSE d[i - (k + l)]
  <2>1. Len(cg) = k + l
    BY <1>5, <1>6, <1>7
  <2>2. /\ Len(cg \o d) = Len(cg) + Len(d)
        /\ \A i \in 1 .. Len(cg) + Len(d) : (cg \o d)[i] = IF i <= Len(cg) THEN cg[i] ELSE d[i - Len(cg)]
    BY <1>4, <1>7, ConcatProperties
  <2>3. QED
    BY <1>6, <2>1, <2>2
<1>9. \A i \in 1 .. k : cg[i] = c[i] /\ (cg \o d)[i] = c[i]
  <2> TAKE i \in 1 .. k
  <2>1. i \in 1 .. k + l /\ i \in 1 .. k + l + m /\ i <= k
    OBVIOUS
  <2>2. QED
    BY <1>5, <1>6, <1>7, <1>8, <2>1
<1>10. \A i, j \in 1 .. k + l + m : (cg \o d)[i] = (cg \o d)[j] => i = j
  BY <1>3, <1>7, <1>8 DEF List
<1>11. \A x : x \in Range(c) <=> \E i \in 1 .. k : c[i] = x
  BY <1>3, <1>6, ListFacts
<1>12. \A i \in 1 .. k + l + m : i <= k <=> (cg \o d)[i] \in Range(c)
  <2> TAKE i \in 1 .. k + l + m
  <2>1. ASSUME i <= k PROVE (cg \o d)[i] \in Range(c)
    <3>1. i \in 1 .. k
      BY <2>1
    <3>2. QED
      BY <1>9, <1>11, <3>1
  <2>2. ASSUME (cg \o d)[i] \in Range(c) PROVE i <= k
    <3>1. PICK j \in 1 .. k : c[j] = (cg \o d)[i]
      BY <1>11, <2>2
    <3>2. j \in 1 .. k + l + m /\ j <= k
      BY <3>1
    <3>3. (cg \o d)[j] = (cg \o d)[i]
      BY <1>9, <3>1
    <3>4. i = j
      BY <1>10, <3>2, <3>3
    <3>5. QED
      BY <3>2, <3>4
  <2>3. QED
    BY <2>1, <2>2
<1>13. List(cg, Q)
  <2> SUFFICES ASSUME NEW i \in 1 .. k + l, NEW j \in 1 .. k + l, cg[i] = cg[j]
               PROVE  i = j
    BY <1>7, <1>8 DEF List
  <2>1. i \in 1 .. k + l + m /\ j \in 1 .. k + l + m /\ i <= k + l /\ j <= k + l
    OBVIOUS
  <2>2. (cg \o d)[i] = cg[i] /\ (cg \o d)[j] = cg[j]
    BY <1>8, <2>1
  <2>3. QED
    BY <1>10, <2>1, <2>2
<1>14. Seen(ids, c \o g \o d) = Seen(ids, c) \o Seen(ids, g) \o Seen(ids, d)
  <2>1. Seen(ids, cg \o d) = Seen(ids, cg) \o Seen(ids, d)
    BY <1>3, <1>13, SeenConcat
  <2>2. Seen(ids, c \o g) = Seen(ids, c) \o Seen(ids, g)
    BY <1>3, SeenConcat
  <2>3. QED
    BY <1>7, <2>1, <2>2
<1>15. Len(Seen(ids, c)) = Len(c)
  <2>1. Told(Seen(ids, c)) /\ DOMAIN Seen(ids, c) = 1 .. k
    BY <1>3, <1>6, SeenFacts
  <2>2. PICK n \in Nat : n = Len(Seen(ids, c))
    BY <2>1, ToldFacts
  <2>3. 1 .. n = 1 .. k
    BY <2>1, <2>2, ToldFacts
  <2>4. n = k
    <3>1. n > 0 => n \in 1 .. k
      BY <2>3
    <3>2. k > 0 => k \in 1 .. n
      BY <2>3
    <3>3. QED
      BY <3>1, <3>2
  <2>5. QED
    BY <1>6, <2>2, <2>4
<1>16. k <= k + l + m
  OBVIOUS
<1>17. Len(OnGpu(batch)) = k + l + m /\ \A i : OnGpu(batch)[i] = (cg \o d)[i]
  BY <1>3, <1>7, <1>8
<1>18. QED
  BY <1>1, <1>2, <1>3, <1>6, <1>12, <1>14, <1>15, <1>16, <1>17 DEF SameLen

(* The blocks of a batch are taken.                                        *)
LEMMA BatchTyped ==
  ASSUME NEW Q, NEW ids, Named(Q, ids), Sized(Q), NEW batch, BatchShape(Q, batch),
         NEW b \in BlockState
  PROVE  /\ AllocBlocksForBatch(b, SeenBatch(ids, batch)) \in BlockState
         /\ Fine(AllocBlocksForBatch(b, SeenBatch(ids, batch))) =>
              /\ Fine(b)
              /\ Fine(Alloc(b, "gpu", Seen(ids, OnGpu(batch)), Through(batch), FALSE))
         /\ Alloc(b, "gpu", Seen(ids, OnGpu(batch)), Through(batch), FALSE) \in BlockState
         /\ AllocBlocksForBatch(b, SeenBatch(ids, batch)) =
              Alloc(Alloc(b, "gpu", Seen(ids, OnGpu(batch)), Through(batch), FALSE),
                    "cpu", Seen(ids, batch.cdec), 0, FALSE)
<1> DEFINE b1 == Alloc(b, "gpu", Seen(ids, OnGpu(batch)), Through(batch), FALSE)
<1>1. AllocBlocksForBatch(b, SeenBatch(ids, batch)) = Alloc(b1, "cpu", Seen(ids, batch.cdec), 0, FALSE)
  <2> DEFINE seen == SeenBatch(ids, batch)
  <2>1. /\ seen.cprf \o seen.gprf \o seen.gdec = Seen(ids, OnGpu(batch))
        /\ seen.cdec = Seen(ids, batch.cdec) /\ Len(seen.cprf) = Len(batch.cprf)
    <3>1. seen.cprf \o seen.gprf \o seen.gdec = Seen(ids, OnGpu(batch))
      BY SeenBatchFacts
    <3>2. seen.cdec = Seen(ids, batch.cdec)
      BY SeenBatchFacts
    <3>3. SameLen(seen.cprf, batch.cprf)
      BY SeenBatchFacts
    <3>4. QED
      BY <3>1, <3>2, <3>3 DEF SameLen
  <2> HIDE DEF seen
  <2>2. Through(batch) = IF ExtraLayer THEN Len(seen.cprf) ELSE 0
    BY <2>1 DEF Through
  <2>3. AllocBlocksForBatch(b, seen) =
          Alloc(Alloc(b, "gpu", seen.cprf \o seen.gprf \o seen.gdec,
                      IF ExtraLayer THEN Len(seen.cprf) ELSE 0, FALSE), "cpu", seen.cdec, 0, FALSE)
    BY DEF AllocBlocksForBatch
  <2>4. QED
    BY <2>1, <2>2, <2>3 DEF seen
<1>2. Told(Seen(ids, OnGpu(batch))) /\ Told(Seen(ids, batch.cdec))
  BY SeenFacts DEF BatchShape
<1>3. Through(batch) \in Nat /\ (Through(batch) > 0 => ExtraLayer)
  BY SeenBatchFacts DEF Through
<1>4. "gpu" \in Devices /\ "cpu" \in Devices /\ FALSE \in BOOLEAN /\ 0 \in Nat /\ (0 > 0 => ExtraLayer)
  BY DEF Devices
<1>5. b1 \in BlockState /\ (b1.fault = "none" => b.fault = "none")
  BY <1>2, <1>3, <1>4, AllocTyped
<1> HIDE DEF b1
<1>6. /\ Alloc(b1, "cpu", Seen(ids, batch.cdec), 0, FALSE) \in BlockState
      /\ Alloc(b1, "cpu", Seen(ids, batch.cdec), 0, FALSE).fault = "none" => b1.fault = "none"
  BY <1>2, <1>4, <1>5, AllocTyped
<1>7. QED
  BY <1>1, <1>5, <1>6 DEF b1, Fine

\* The requests of a batch are on the device the batch has them on; prefills to
\* the CPU have no blocks yet.
BatchReady(S, on, tok, batch) ==
  /\ \A r \in Range(OnGpu(batch)) : on[r] = "gpu"
  /\ \A r \in Range(batch.cdec) : on[r] = "cpu"
  /\ \A r \in Range(batch.cprf) : tok[r] = 0
  /\ S = {} \/ OnGpu(batch) = <<>>

\* The tokens stored once the requests of a batch have their blocks.
StoredBatch(Q, batch, tok) ==
  [r \in Q |-> IF r \in Range(OnGpu(batch)) \union Range(batch.cdec) THEN SeqLen(r) ELSE tok[r]]

(* The requests of a batch get their blocks, prefills to the CPU theirs in   *)
(* the second split.                                                         *)
LEMMA GrowBatch ==
  ASSUME BlocksAssumption, NEW b, NEW S \in SUBSET Ids, NEW Q, NEW ids, NEW on, NEW tok,
         Named(Q, ids), Sized(Q), Holds(b, S, Q, ids, on, tok),
         NEW batch, BatchShape(Q, batch), BatchReady(S, on, tok, batch),
         Fine(AllocBlocksForBatch(b, SeenBatch(ids, batch)))
  PROVE  Holds(AllocBlocksForBatch(b, SeenBatch(ids, batch)), S \union Itm(ids, batch), Q, ids, on,
               StoredBatch(Q, batch, tok))
<1> DEFINE g == OnGpu(batch)
           reqs == Seen(ids, g)
           sp == Through(batch)
           b1 == Alloc(b, "gpu", reqs, sp, FALSE)
           S1 == S \union FirstIds(reqs, sp)
           tok1 == Stored(Q, g, tok)
           tok2 == Stored(Q, batch.cdec, tok1)
           b2 == Alloc(b1, "cpu", Seen(ids, batch.cdec), 0, FALSE)
<1>1. List(g, Q) /\ List(batch.cdec, Q) /\ List(batch.cprf, Q)
      /\ Range(g) = Range(batch.cprf) \union Range(batch.gprf) \union Range(batch.gdec)
  BY DEF BatchShape
<1>2. "gpu" \in Devices /\ "cpu" \in Devices /\ 0 \in Nat
  BY DEF Devices
<1>3. sp \in Nat /\ (sp > 0 => ExtraLayer) /\ (sp > 0 => sp = Len(batch.cprf))
      /\ (ExtraLayer => sp = Len(batch.cprf))
  BY SeenBatchFacts DEF Through
<1>b. b \in BlockState
  BY DEF Holds
<1>e. AllocBlocksForBatch(b, SeenBatch(ids, batch)) =
        Alloc(Alloc(b, "gpu", Seen(ids, OnGpu(batch)), Through(batch), FALSE),
              "cpu", Seen(ids, batch.cdec), 0, FALSE)
  BY <1>b, BatchTyped
<1>f. Fine(Alloc(b, "gpu", Seen(ids, OnGpu(batch)), Through(batch), FALSE))
  BY <1>b, BatchTyped
<1>4. Fine(b1) /\ Fine(b2) /\ AllocBlocksForBatch(b, SeenBatch(ids, batch)) = b2
  BY <1>e, <1>f
<1>5. \A i \in 1 .. Len(g) : IF i <= sp THEN tok[g[i]] = 0 ELSE SplitFor(S, "gpu", ids[g[i]]) = 0
  <2> TAKE i \in 1 .. Len(g)
  <2>1. CASE i <= sp
    <3>1. i <= Len(batch.cprf)
      BY <1>3, <2>1
    <3>2. g[i] \in Range(batch.cprf)
      BY <3>1, SeenBatchFacts
    <3>3. QED
      BY <2>1, <3>2 DEF BatchReady
  <2>2. CASE ~(i <= sp)
    <3>1. g # <<>>
      BY <1>1, ListNonempty
    <3>2. S = {}
      BY <3>1 DEF BatchReady
    <3>3. QED
      BY <2>2, <3>2 DEF SplitFor
  <2>3. QED
    BY <2>1, <2>2
<1>6. \A r \in Range(g) : on[r] = "gpu"
  BY DEF BatchReady
<1> HIDE DEF g, reqs, sp, b1, b2, S1, tok1, tok2
<1>7. Holds(b1, S1, Q, ids, on, tok1)
  <2>1. Fine(Alloc(b, "gpu", Seen(ids, g), sp, FALSE))
    BY <1>4 DEF b1, reqs
  <2>2. Holds(Alloc(b, "gpu", Seen(ids, g), sp, FALSE), S \union FirstIds(Seen(ids, g), sp),
              Q, ids, on, Stored(Q, g, tok))
    <3>1. CanTake(S, ids, on, tok, g, "gpu", sp)
      BY <1>3, <1>5, <1>6 DEF CanTake
    <3>2. QED
      BY <1>1, <1>2, <1>3, <2>1, <3>1, Grow
  <2>3. QED
    BY <2>2 DEF b1, S1, tok1, reqs
<1>8. S1 = S \union Itm(ids, batch) /\ S1 \in SUBSET Ids
  <2>1. /\ DOMAIN reqs = 1 .. Len(g)
        /\ \A i \in 1 .. Len(g) : reqs[i].id = ids[g[i]] /\ g[i] \in Q
    BY <1>1, SeenFacts DEF reqs
  <2>2. \A x : x \in Range(g) <=> \E i \in 1 .. Len(g) : g[i] = x
    BY <1>1, ListFacts
  <2>3. \A i \in 1 .. Len(g) : i <= Len(batch.cprf) <=> g[i] \in Range(batch.cprf)
    BY SeenBatchFacts DEF g
  <2>4. \A id : id \in FirstIds(reqs, sp) <=> \E i \in 1 .. Len(g) : i <= sp /\ ids[g[i]] = id
    BY <2>1 DEF FirstIds
  <2>5. CASE ExtraLayer
    <3>1. \A id : id \in FirstIds(reqs, sp) <=> \E i \in 1 .. Len(g) : g[i] \in Range(batch.cprf) /\ ids[g[i]] = id
      BY <1>3, <2>3, <2>4, <2>5
    <3>2. \A id : id \in FirstIds(reqs, sp) <=> \E r \in Range(batch.cprf) : ids[r] = id
      BY <1>1, <2>2, <3>1
    <3>3. FirstIds(reqs, sp) = Itm(ids, batch)
      BY <2>5, <3>2 DEF Itm, TheRows
    <3>4. \A r \in Range(batch.cprf) : ids[r] \in Ids
      BY <1>1, ListFacts DEF Named
    <3>5. QED
      BY <3>2, <3>3, <3>4 DEF S1
  <2>6. CASE ~ExtraLayer
    <3>1. ~(sp > 0)
      BY <1>3, <2>6
    <3>2. \A i \in 1 .. Len(g) : ~(i <= sp)
      BY <1>3, <3>1
    <3>3. FirstIds(reqs, sp) = {}
      BY <2>4, <3>2
    <3>4. QED
      BY <2>6, <3>3 DEF S1, Itm
  <2>7. QED
    BY <2>5, <2>6
<1>9. Holds(b2, S1, Q, ids, on, tok2)
  <2> DEFINE c == batch.cdec
  <2>1. Fine(Alloc(b1, "cpu", Seen(ids, c), 0, FALSE))
    BY <1>4 DEF b2
  <2>2. \A i \in 1 .. Len(c) : IF i <= 0 THEN tok1[c[i]] = 0 ELSE SplitFor(S1, "cpu", ids[c[i]]) = 0
    BY DEF SplitFor
  <2>3. \A r \in Range(c) : on[r] = "cpu"
    BY DEF BatchReady
  <2>4. List(c, Q)
    BY <1>1
  <2> HIDE DEF c
  <2>5. Holds(Alloc(b1, "cpu", Seen(ids, c), 0, FALSE), S1 \union FirstIds(Seen(ids, c), 0),
              Q, ids, on, Stored(Q, c, tok1))
    <3>1. CanTake(S1, ids, on, tok1, c, "cpu", 0)
      BY <2>2, <2>3 DEF CanTake
    <3>2. QED
      BY <1>2, <1>7, <1>8, <2>1, <2>4, <3>1, Grow
  <2>6. FirstIds(Seen(ids, c), 0) = {}
    <3>1. DOMAIN Seen(ids, c) = 1 .. Len(c)
      BY <2>4, SeenFacts
    <3>2. QED
      BY <3>1 DEF FirstIds
  <2>7. S1 \union {} = S1
    OBVIOUS
  <2>8. QED
    BY <2>5, <2>6, <2>7 DEF b2, tok2, c
<1>10. tok2 = StoredBatch(Q, batch, tok)
  BY DEF tok2, tok1, g, Stored, StoredBatch
<1>11. QED
  BY <1>4, <1>8, <1>9, <1>10

-------------------------------------------------------------------------------
\* Prepare, step by step.

AllocStep(x, bs, i) ==
  IF i \in DOMAIN bs THEN AllocBlocksForBatch(Check(x, BatchSize(bs[i]) > 0), bs[i]) ELSE x
SwapStep(x, bs, i) ==
  IF i \in DOMAIN bs THEN InitiateSwap(x, bs[i].cprf, TRUE, ExtraLayer, FALSE) ELSE x
FirstSwap(x, out, inn) ==
  InitiateSwap(x, IF out # <<>> THEN out ELSE inn, out # <<>>, FALSE, TRUE)
StartOf(b, bs, out, inn) ==
  Check([b EXCEPT !.copies = {}], (out = <<>> \/ inn = <<>>) /\ Len(bs) \in {1, 2})

(* Prepare is a swap, the blocks of two batches and two more swaps.          *)
LEMMA PrepareSteps ==
  ASSUME NEW b, NEW bs, NEW out, NEW inn
  PROVE  Prepare(b, bs, out, inn) =
           SwapStep(SwapStep(AllocStep(AllocStep(
             FirstSwap(StartOf(b, bs, out, inn), out, inn), bs, 1), bs, 2), bs, 1), bs, 2)
BY DEF Prepare, AllocStep, SwapStep, FirstSwap, StartOf

SeenBatches(ids, bs) == [i \in DOMAIN bs |-> SeenBatch(ids, bs[i])]

\* What a step makes of x, once nothing is raised.
Alloced(y, x, ids, bs, i) ==
  y = IF i \in DOMAIN bs THEN AllocBlocksForBatch(x, SeenBatch(ids, bs[i])) ELSE x
SwappedOut(y, x, ids, bs, i) ==
  y = IF i \in DOMAIN bs THEN SwapBlocks(x, Seen(ids, bs[i].cprf), TRUE, ExtraLayer, FALSE) ELSE x
SwappedFirst(y, x, ids, out, inn) ==
  y = IF out # <<>> THEN SwapBlocks(x, Seen(ids, out), TRUE, FALSE, TRUE)
                    ELSE SwapBlocks(x, Seen(ids, inn), FALSE, FALSE, TRUE)

(* The step that takes the blocks of a batch.                                *)
LEMMA AllocStepTyped ==
  ASSUME NEW Q, NEW ids, Named(Q, ids), Sized(Q), NEW bs, NEW i,
         i \in DOMAIN bs => BatchShape(Q, bs[i]),
         NEW x \in BlockState
  PROVE  /\ AllocStep(x, SeenBatches(ids, bs), i) \in BlockState
         /\ Fine(AllocStep(x, SeenBatches(ids, bs), i)) => Fine(x)
         /\ Fine(AllocStep(x, SeenBatches(ids, bs), i)) =>
              Alloced(AllocStep(x, SeenBatches(ids, bs), i), x, ids, bs, i)
<1>1. CASE i \notin DOMAIN bs
  BY <1>1 DEF AllocStep, SeenBatches, Alloced
<1>2. CASE i \in DOMAIN bs
  <2> DEFINE s == SeenBatch(ids, bs[i])
             y == Check(x, BatchSize(s) > 0)
  <2>1. AllocStep(x, SeenBatches(ids, bs), i) = AllocBlocksForBatch(y, s)
    BY <1>2 DEF AllocStep, SeenBatches
  <2>2. (BatchSize(s) > 0) \in BOOLEAN
    OBVIOUS
  <2> HIDE DEF s
  <2>3. y \in BlockState /\ (y.fault = "none" => x.fault = "none" /\ y = x)
    BY <2>2, CheckTyped
  <2> HIDE DEF y
  <2>4. BatchShape(Q, bs[i])
    BY <1>2
  <2>5. AllocBlocksForBatch(y, s) \in BlockState
    BY <2>3, <2>4, BatchTyped DEF s
  <2>6. Fine(AllocBlocksForBatch(y, s)) => Fine(y)
    BY <2>3, <2>4, BatchTyped DEF s
  <2>7. Fine(y) => Fine(x) /\ y = x
    BY <2>3 DEF Fine
  <2>8. QED
    BY <1>2, <2>1, <2>5, <2>6, <2>7 DEF s, Alloced
<1>3. QED
  BY <1>1, <1>2

(* A swap frees a split there is.                                            *)
LEMMA SplitOfItm ==
  From(ExtraLayer) \in Splits /\ From(FALSE) \in Splits
BY DEF From, Splits

(* The step that takes prefills off the GPU.                                 *)
LEMMA SwapStepTyped ==
  ASSUME NEW Q, NEW ids, Named(Q, ids), Sized(Q), NEW bs, NEW i,
         i \in DOMAIN bs => BatchShape(Q, bs[i]),
         NEW x \in BlockState
  PROVE  /\ SwapStep(x, SeenBatches(ids, bs), i) \in BlockState
         /\ Fine(SwapStep(x, SeenBatches(ids, bs), i)) => Fine(x)
         /\ SwappedOut(SwapStep(x, SeenBatches(ids, bs), i), x, ids, bs, i)
<1>1. CASE i \notin DOMAIN bs
  BY <1>1 DEF SwapStep, SeenBatches, SwappedOut
<1>2. CASE i \in DOMAIN bs
  <2> DEFINE s == Seen(ids, bs[i].cprf)
  <2>1. BatchShape(Q, bs[i])
    BY <1>2
  <2>2. SeenBatch(ids, bs[i]).cprf = s
    <3>1. PICK batch : batch = bs[i]
      OBVIOUS
    <3>2. BatchShape(Q, batch)
      BY <2>1, <3>1
    <3>3. SeenBatch(ids, batch).cprf = Seen(ids, batch.cprf)
      BY <3>2, SeenBatchFacts
    <3>4. QED
      BY <3>1, <3>3
  <2>3. SwapStep(x, SeenBatches(ids, bs), i) = InitiateSwap(x, s, TRUE, ExtraLayer, FALSE)
    BY <1>2, <2>2 DEF SwapStep, SeenBatches
  <2>4. List(bs[i].cprf, Q)
    BY <2>1 DEF BatchShape
  <2>5. Told(s)
    BY <2>4, SeenFacts
  <2> HIDE DEF s
  <2>6. InitiateSwap(x, s, TRUE, ExtraLayer, FALSE) = SwapBlocks(x, s, TRUE, ExtraLayer, FALSE)
    BY DEF InitiateSwap, Check
  <2>7. From(ExtraLayer) \in Splits /\ FALSE \in BOOLEAN
    BY SplitOfItm
  <2>8. SwapBlocks(x, s, TRUE, ExtraLayer, FALSE) \in BlockState
    BY <2>5, <2>7, SwapTyped
  <2>9. Fine(SwapBlocks(x, s, TRUE, ExtraLayer, FALSE)) => Fine(x)
    BY <2>5, <2>7, SwapTyped
  <2>10. QED
    BY <1>2, <2>3, <2>6, <2>8, <2>9 DEF s, SwappedOut
<1>3. QED
  BY <1>1, <1>2

(* Nothing is told of an empty queue.                                        *)
LEMMA SeenEmpty ==
  ASSUME NEW Q, NEW ids, NEW q, List(q, Q)
  PROVE  Seen(ids, q) = <<>> <=> q = <<>>
<1>1. Len(q) \in Nat /\ DOMAIN q = 1 .. Len(q) /\ DOMAIN Seen(ids, q) = DOMAIN q
  BY ListFacts DEF Seen
<1>2. q = <<>> => Seen(ids, q) = <<>>
  BY DEF Seen
<1>3. q # <<>> => Len(q) # 0
  BY ListNonempty
<1>4. Len(q) # 0 => 1 \in DOMAIN Seen(ids, q)
  BY <1>1
<1>5. 1 \notin DOMAIN <<>>
  OBVIOUS
<1>6. QED
  BY <1>2, <1>3, <1>4, <1>5

(* The step that makes the scheduler's swaps.                                *)
LEMMA FirstSwapTyped ==
  ASSUME NEW Q, NEW ids, Named(Q, ids), Sized(Q), NEW out, NEW inn, List(out, Q), List(inn, Q),
         NEW x \in BlockState
  PROVE  /\ FirstSwap(x, Seen(ids, out), Seen(ids, inn)) \in BlockState
         /\ Fine(FirstSwap(x, Seen(ids, out), Seen(ids, inn))) => Fine(x)
         /\ SwappedFirst(FirstSwap(x, Seen(ids, out), Seen(ids, inn)), x, ids, out, inn)
<1> DEFINE o == Seen(ids, out)
           n == Seen(ids, inn)
<1>1. Told(o) /\ Told(n)
  BY SeenFacts
<1>2. o = <<>> <=> out = <<>>
  BY SeenEmpty
<1> HIDE DEF o, n
<1>3. FirstSwap(x, o, n) = IF out # <<>> THEN SwapBlocks(x, o, TRUE, FALSE, TRUE)
                                         ELSE SwapBlocks(x, n, FALSE, FALSE, TRUE)
  <2>1. CASE out = <<>>
    <3>1. (o # <<>>) = FALSE
      BY <1>2, <2>1
    <3>2. FirstSwap(x, o, n) = InitiateSwap(x, n, FALSE, FALSE, TRUE)
      BY <3>1 DEF FirstSwap
    <3>3. QED
      BY <2>1, <3>2 DEF InitiateSwap, Check
  <2>2. CASE out # <<>>
    <3>1. (o # <<>>) = TRUE
      BY <1>2, <2>2
    <3>2. FirstSwap(x, o, n) = InitiateSwap(x, o, TRUE, FALSE, TRUE)
      BY <3>1 DEF FirstSwap
    <3>3. QED
      BY <2>2, <3>2 DEF InitiateSwap, Check
  <2>3. QED
    BY <2>1, <2>2
<1>4. From(FALSE) \in Splits /\ TRUE \in BOOLEAN
  BY SplitOfItm
<1>5. /\ SwapBlocks(x, o, TRUE, FALSE, TRUE) \in BlockState
      /\ SwapBlocks(x, n, FALSE, FALSE, TRUE) \in BlockState
  BY <1>1, <1>4, SwapTyped
<1>6. /\ Fine(SwapBlocks(x, o, TRUE, FALSE, TRUE)) => Fine(x)
      /\ Fine(SwapBlocks(x, n, FALSE, FALSE, TRUE)) => Fine(x)
  BY <1>1, <1>4, SwapTyped
<1>7. QED
  BY <1>3, <1>5, <1>6 DEF o, n, SwappedFirst

(* Whatever it raises, prepare leaves a state of the tables.               *)
LEMMA PrepareTyped ==
  ASSUME NEW Q, NEW ids, Named(Q, ids), Sized(Q), NEW out, NEW inn, List(out, Q), List(inn, Q),
         NEW bs, \A i \in DOMAIN bs : BatchShape(Q, bs[i]),
         NEW b \in BlockState
  PROVE  Prepare(b, SeenBatches(ids, bs), Seen(ids, out), Seen(ids, inn)) \in BlockState
<1> DEFINE s == SeenBatches(ids, bs)
           o == Seen(ids, out)
           n == Seen(ids, inn)
           x0 == StartOf(b, s, o, n)
           x1 == FirstSwap(x0, o, n)
           x2 == AllocStep(x1, s, 1)
           x3 == AllocStep(x2, s, 2)
           x4 == SwapStep(x3, s, 1)
<1>1. Prepare(b, s, o, n) = SwapStep(x4, s, 2)
  BY PrepareSteps
<1>2. (1 \in DOMAIN bs => BatchShape(Q, bs[1])) /\ (2 \in DOMAIN bs => BatchShape(Q, bs[2]))
  OBVIOUS
<1>3. x0 \in BlockState
  <2>1. [b EXCEPT !.copies = {}] \in BlockState
    BY DEF BlockState
  <2>2. ((o = <<>> \/ n = <<>>) /\ Len(s) \in {1, 2}) \in BOOLEAN
    OBVIOUS
  <2>3. QED
    BY <2>1, <2>2, CheckTyped DEF StartOf
<1> HIDE DEF x0
<1>4. x1 \in BlockState
  BY <1>3, FirstSwapTyped
<1> HIDE DEF x1
<1>5. x2 \in BlockState
  BY <1>2, <1>4, AllocStepTyped
<1> HIDE DEF x2
<1>6. x3 \in BlockState
  BY <1>2, <1>5, AllocStepTyped
<1> HIDE DEF x3
<1>7. x4 \in BlockState
  BY <1>2, <1>6, SwapStepTyped
<1> HIDE DEF x4
<1>8. SwapStep(x4, s, 2) \in BlockState
  BY <1>2, <1>7, SwapStepTyped
<1>9. QED
  BY <1>1, <1>8

\* Where the requests are after the swaps of the scheduler.
Placed(Q, out, inn, on) ==
  IF out # <<>> THEN Across(Q, out, on, TRUE) ELSE Across(Q, inn, on, FALSE)

\* The requests of q are swapped with all their tokens but the last.
Swappable(q, isOut, on, tok) ==
  \A r \in Range(q) : on[r] = Side(isOut) /\ tok[r] \in Nat \ {0} /\ tok[r] = SeqLen(r) - 1

\* What a decision of the scheduler promises the block manager.
PlanOK(Q, on, tok, bs, out, inn) ==
  /\ Swappable(out, TRUE, on, tok)
  /\ out = <<>> => Swappable(inn, FALSE, on, tok)
  /\ 1 \in DOMAIN bs => BatchReady({}, Placed(Q, out, inn, on), tok, bs[1])
  /\ 2 \in DOMAIN bs => /\ OnGpu(bs[2]) = <<>> /\ bs[2].cprf = <<>>
                        /\ \A r \in Range(bs[2].cdec) : Placed(Q, out, inn, on)[r] = "cpu"

Planned(Q, on, tok, bs, out, inn) ==
  out = <<>> \/ inn = <<>> => PlanOK(Q, on, tok, bs, out, inn)

\* The tokens stored, and the places of the requests, after prepare.
TokAfter(Q, bs, tok) ==
  IF 2 \in DOMAIN bs THEN StoredBatch(Q, bs[2], StoredBatch(Q, bs[1], tok))
                     ELSE StoredBatch(Q, bs[1], tok)
OnAfter(Q, bs, out, inn, on) == Across(Q, bs[1].cprf, Placed(Q, out, inn, on), TRUE)

(* The checks at the start of prepare change no row.                         *)
LEMMA StartHolds ==
  ASSUME NEW Q, NEW ids, NEW on, NEW tok, NEW b, NEW S, Holds(b, S, Q, ids, on, tok),
         NEW s, NEW o, NEW n, Fine(StartOf(b, s, o, n))
  PROVE  /\ Holds(StartOf(b, s, o, n), S, Q, ids, on, tok)
         /\ o = <<>> \/ n = <<>>
         /\ Len(s) \in {1, 2}
<1> DEFINE b1 == [b EXCEPT !.copies = {}]
           cond == (o = <<>> \/ n = <<>>) /\ Len(s) \in {1, 2}
<1>1. b \in BlockState
  BY DEF Holds
<1>2. b1 \in BlockState /\ b1.fault = b.fault /\ b1.table = b.table /\ b1.free = b.free /\ b1.copies = {}
  BY <1>1 DEF BlockState
<1>3. StartOf(b, s, o, n) = Check(b1, cond) /\ cond \in BOOLEAN
  BY DEF StartOf
<1> HIDE DEF b1
<1>4. cond /\ Check(b1, cond) = b1
  <2>1. Check(b1, cond).fault = "none"
    BY <1>3 DEF Fine
  <2>2. cond \in BOOLEAN
    BY <1>3
  <2> HIDE DEF cond
  <2>3. QED
    BY <1>2, <2>1, <2>2, CheckTyped
<1>5. Parted(b1, S)
  BY <1>2 DEF Holds, Parted, Shared
<1>6. Holds(b1, S, Q, ids, on, tok)
  BY <1>2, <1>5 DEF Holds
<1>7. QED
  BY <1>3, <1>4, <1>6

(* The scheduler's swaps move their requests.                                *)
LEMMA FirstSwapHolds ==
  ASSUME BlocksAssumption, NEW Q, NEW ids, NEW on, NEW tok, NEW b,
         Named(Q, ids), Sized(Q), Holds(b, {}, Q, ids, on, tok),
         NEW out, NEW inn, List(out, Q), List(inn, Q),
         Swappable(out, TRUE, on, tok), out = <<>> => Swappable(inn, FALSE, on, tok),
         Fine(FirstSwap(b, Seen(ids, out), Seen(ids, inn)))
  PROVE  Holds(FirstSwap(b, Seen(ids, out), Seen(ids, inn)), {}, Q, ids, Placed(Q, out, inn, on), tok)
<1>1. b \in BlockState
  BY DEF Holds
<1>2. FirstSwap(b, Seen(ids, out), Seen(ids, inn)) =
        IF out # <<>> THEN SwapBlocks(b, Seen(ids, out), TRUE, FALSE, TRUE)
                      ELSE SwapBlocks(b, Seen(ids, inn), FALSE, FALSE, TRUE)
  <2>1. SwappedFirst(FirstSwap(b, Seen(ids, out), Seen(ids, inn)), b, ids, out, inn)
    BY <1>1, FirstSwapTyped
  <2>2. QED
    BY <2>1 DEF SwappedFirst
<1>3. From(FALSE) \in Splits /\ TRUE \in BOOLEAN /\ {} \in SUBSET Ids
  BY SplitOfItm
<1>4. \A d, reqs : Without({}, d, reqs) = {}
  BY DEF Without
<1>5. \A q, isOut : Swappable(q, isOut, on, tok) => CanMove({}, ids, on, tok, q, isOut, FALSE, TRUE)
  BY DEF Swappable, CanMove, SplitFor, From
<1>6. CASE out # <<>>
  <2>1. Fine(SwapBlocks(b, Seen(ids, out), TRUE, FALSE, TRUE))
    BY <1>2, <1>6
  <2>2. CanMove({}, ids, on, tok, out, TRUE, FALSE, TRUE)
    BY <1>5
  <2>3. Holds(SwapBlocks(b, Seen(ids, out), TRUE, FALSE, TRUE), Without({}, Side(TRUE), Seen(ids, out)),
              Q, ids, Across(Q, out, on, TRUE), tok)
    BY <1>3, <2>1, <2>2, Move
  <2>4. QED
    BY <1>2, <1>4, <1>6, <2>3 DEF Placed
<1>7. CASE out = <<>>
  <2>1. Fine(SwapBlocks(b, Seen(ids, inn), FALSE, FALSE, TRUE))
    BY <1>2, <1>7
  <2>2. CanMove({}, ids, on, tok, inn, FALSE, FALSE, TRUE)
    BY <1>5, <1>7
  <2>3. Holds(SwapBlocks(b, Seen(ids, inn), FALSE, FALSE, TRUE), Without({}, Side(FALSE), Seen(ids, inn)),
              Q, ids, Across(Q, inn, on, FALSE), tok)
    BY <1>3, <2>1, <2>2, Move
  <2>4. QED
    BY <1>2, <1>4, <1>7, <2>3 DEF Placed
<1>8. QED
  BY <1>6, <1>7

(* A prefill that goes to the CPU: its blocks leave the second split.      *)
LEMMA SwapStepHolds ==
  ASSUME BlocksAssumption, NEW Q, NEW ids, NEW on, NEW tok, NEW b, NEW batch,
         Named(Q, ids), Sized(Q), BatchShape(Q, batch),
         Holds(b, Itm(ids, batch), Q, ids, on, tok),
         \A r \in Range(batch.cprf) : on[r] = "gpu" /\ tok[r] = SeqLen(r),
         Fine(SwapBlocks(b, Seen(ids, batch.cprf), TRUE, ExtraLayer, FALSE))
  PROVE  Holds(SwapBlocks(b, Seen(ids, batch.cprf), TRUE, ExtraLayer, FALSE), {}, Q, ids,
               Across(Q, batch.cprf, on, TRUE), tok)
<1> DEFINE q == batch.cprf
           S == Itm(ids, batch)
<1>1. List(q, Q)
  BY DEF BatchShape
<1>2. \A r \in Range(q) : r \in Q /\ ids[r] \in Ids /\ SeqLen(r) \in Nat \ {0}
  BY <1>1, ListFacts DEF Named, Sized
<1>3. S \in SUBSET Ids
  BY <1>2 DEF Itm, TheRows
<1>4. CanMove(S, ids, on, tok, q, TRUE, ExtraLayer, FALSE)
  <2>1. ASSUME NEW r \in Range(q)
        PROVE  /\ on[r] = Side(TRUE)
               /\ tok[r] \in Nat \ {0} /\ tok[r] = SeqLen(r) - (IF FALSE THEN 1 ELSE 0)
               /\ SplitFor(S, Side(TRUE), ids[r]) = From(ExtraLayer)
               /\ SplitFor(S, Other(TRUE), ids[r]) = 0
    <3>1. on[r] = "gpu" /\ tok[r] = SeqLen(r) /\ Side(TRUE) = "gpu" /\ Other(TRUE) = "cpu"
      BY DEF Side, Other
    <3>2. SeqLen(r) \in Nat \ {0} /\ SeqLen(r) - 0 = SeqLen(r)
      BY <1>2
    <3>3. SplitFor(S, "gpu", ids[r]) = From(ExtraLayer)
      BY DEF SplitFor, From, Itm, TheRows
    <3>4. SplitFor(S, "cpu", ids[r]) = 0
      BY DEF SplitFor
    <3>5. QED
      BY <3>1, <3>2, <3>3, <3>4
  <2>2. QED
    BY <2>1 DEF CanMove
<1>5. Without(S, Side(TRUE), Seen(ids, q)) = {}
  <2>1. \A id : id \in TheIds(Seen(ids, q)) <=> \E r \in Range(q) : ids[r] = id
    BY <1>1, SeenFacts
  <2>2. QED
    BY <2>1 DEF Without, Side, Itm, TheRows
<1>6. From(ExtraLayer) \in Splits /\ FALSE \in BOOLEAN
  BY SplitOfItm
<1> HIDE DEF S
<1>7. Holds(b, S, Q, ids, on, tok)
  BY DEF S
<1>8. Holds(SwapBlocks(b, Seen(ids, q), TRUE, ExtraLayer, FALSE),
            Without(S, Side(TRUE), Seen(ids, q)), Q, ids, Across(Q, q, on, TRUE), tok)
  BY <1>1, <1>3, <1>4, <1>6, <1>7, Move
<1>9. QED
  BY <1>5, <1>8

(* When it raises nothing, the tables follow the scheduler's decision.     *)
LEMMA PrepareHolds ==
  ASSUME BlocksAssumption, NEW Q, NEW ids, NEW on, NEW tok, NEW b,
         Named(Q, ids), Sized(Q), Holds(b, {}, Q, ids, on, tok),
         NEW out, NEW inn, List(out, Q), List(inn, Q),
         NEW bs, Len(bs) \in Nat, DOMAIN bs = 1 .. Len(bs), \A i \in DOMAIN bs : BatchShape(Q, bs[i]),
         Planned(Q, on, tok, bs, out, inn),
         Fine(Prepare(b, SeenBatches(ids, bs), Seen(ids, out), Seen(ids, inn)))
  PROVE  /\ Holds(Prepare(b, SeenBatches(ids, bs), Seen(ids, out), Seen(ids, inn)), {}, Q, ids,
                  OnAfter(Q, bs, out, inn, on), TokAfter(Q, bs, tok))
         /\ 1 \in DOMAIN bs
         /\ out = <<>> \/ inn = <<>>
<1> DEFINE s == SeenBatches(ids, bs)
           o == Seen(ids, out)
           n == Seen(ids, inn)
           x0 == StartOf(b, s, o, n)
           x1 == FirstSwap(x0, o, n)
           x2 == AllocStep(x1, s, 1)
           x3 == AllocStep(x2, s, 2)
           x4 == SwapStep(x3, s, 1)
           x5 == SwapStep(x4, s, 2)
           on1 == Placed(Q, out, inn, on)
           tok1 == StoredBatch(Q, bs[1], tok)
           tok2 == TokAfter(Q, bs, tok)
           on2 == Across(Q, bs[1].cprf, on1, TRUE)
<1>1. Prepare(b, s, o, n) = x5
  BY PrepareSteps
<1>s. (1 \in DOMAIN bs => BatchShape(Q, bs[1])) /\ (2 \in DOMAIN bs => BatchShape(Q, bs[2]))
  OBVIOUS
<1>2. x0 \in BlockState
  <2>1. [b EXCEPT !.copies = {}] \in BlockState
    BY DEF BlockState, Holds
  <2>2. ((o = <<>> \/ n = <<>>) /\ Len(s) \in {1, 2}) \in BOOLEAN
    OBVIOUS
  <2>3. QED
    BY <2>1, <2>2, CheckTyped DEF StartOf
<1> HIDE DEF x0
<1>3. x1 \in BlockState /\ (Fine(x1) => Fine(x0))
  BY <1>2, FirstSwapTyped
<1> HIDE DEF x1
<1>4. x2 \in BlockState /\ (Fine(x2) => Fine(x1))
  BY <1>s, <1>3, AllocStepTyped
<1>4a. Fine(x2) => Alloced(x2, x1, ids, bs, 1)
  BY <1>s, <1>3, AllocStepTyped
<1> HIDE DEF x2
<1>5. x3 \in BlockState /\ (Fine(x3) => Fine(x2))
  BY <1>s, <1>4, AllocStepTyped
<1>5a. Fine(x3) => Alloced(x3, x2, ids, bs, 2)
  BY <1>s, <1>4, AllocStepTyped
<1> HIDE DEF x3
<1>6. x4 \in BlockState /\ (Fine(x4) => Fine(x3))
  BY <1>s, <1>5, SwapStepTyped
<1>6a. SwappedOut(x4, x3, ids, bs, 1)
  BY <1>s, <1>5, SwapStepTyped
<1> HIDE DEF x4
<1>7. x5 \in BlockState /\ (Fine(x5) => Fine(x4))
  BY <1>s, <1>6, SwapStepTyped
<1>7a. SwappedOut(x5, x4, ids, bs, 2)
  BY <1>s, <1>6, SwapStepTyped
<1> HIDE DEF x5
<1>8. Fine(x5) /\ Fine(x4) /\ Fine(x3) /\ Fine(x2) /\ Fine(x1) /\ Fine(x0)
  BY <1>1, <1>3, <1>4, <1>5, <1>6, <1>7
<1>9. Holds(x0, {}, Q, ids, on, tok) /\ (o = <<>> \/ n = <<>>) /\ Len(s) \in {1, 2}
  BY <1>8, StartHolds DEF x0
<1>10. 1 \in DOMAIN bs /\ (2 \in DOMAIN bs => Len(bs) = 2)
  <2>1. DOMAIN s = 1 .. Len(bs)
    BY DEF SeenBatches
  <2>2. PICK k \in Nat : k = Len(bs)
    OBVIOUS
  <2>3. Len(s) = k
    <3>1. s \in [1 .. k -> Range(s)]
      BY <2>1, <2>2 DEF SeenBatches, Range
    <3>2. QED
      BY <2>2, <3>1
  <2>4. k \in {1, 2}
    BY <1>9, <2>3
  <2>5. QED
    BY <2>2, <2>4
<1>11. out = <<>> \/ inn = <<>>
  BY <1>9, SeenEmpty
<1>p. PlanOK(Q, on, tok, bs, out, inn)
  BY <1>11 DEF Planned
<1>12. Holds(x1, {}, Q, ids, on1, tok)
  <2>1. Swappable(out, TRUE, on, tok) /\ (out = <<>> => Swappable(inn, FALSE, on, tok))
    BY <1>p DEF PlanOK
  <2>2. Fine(FirstSwap(x0, Seen(ids, out), Seen(ids, inn)))
    BY <1>8 DEF x1
  <2>3. QED
    BY <1>9, <2>1, <2>2, FirstSwapHolds DEF x1
<1>b. PICK b1 : b1 = bs[1]
  OBVIOUS
<1>c. BatchShape(Q, b1)
  BY <1>10, <1>b
<1> HIDE DEF on1
<1>r. BatchReady({}, on1, tok, b1)
  BY <1>p, <1>10, <1>b DEF PlanOK, on1
<1>13. Holds(x2, Itm(ids, b1), Q, ids, on1, StoredBatch(Q, b1, tok))
  <2>1. x2 = AllocBlocksForBatch(x1, SeenBatch(ids, b1))
    BY <1>4a, <1>8, <1>10, <1>b DEF Alloced
  <2>2. Fine(AllocBlocksForBatch(x1, SeenBatch(ids, b1))) /\ {} \in SUBSET Ids
    BY <1>8, <2>1
  <2>3. Holds(AllocBlocksForBatch(x1, SeenBatch(ids, b1)), {} \union Itm(ids, b1), Q, ids, on1,
              StoredBatch(Q, b1, tok))
    BY <1>12, <1>c, <1>r, <2>2, GrowBatch
  <2>4. {} \union Itm(ids, b1) = Itm(ids, b1)
    OBVIOUS
  <2>5. QED
    BY <2>1, <2>3, <2>4
<1>i. Itm(ids, b1) \in SUBSET Ids
  <2>1. \A r \in Range(b1.cprf) : ids[r] \in Ids
    BY <1>c, ListFacts DEF BatchShape, Named
  <2>2. QED
    BY <2>1 DEF Itm, TheRows
<1>14. Holds(x3, Itm(ids, b1), Q, ids, on1, tok2)
  <2>1. CASE 2 \in DOMAIN bs
    <3>1. PICK b2 : b2 = bs[2]
      OBVIOUS
    <3>2. BatchShape(Q, b2) /\ OnGpu(b2) = <<>> /\ b2.cprf = <<>> /\ \A r \in Range(b2.cdec) : on1[r] = "cpu"
      BY <1>p, <2>1, <3>1 DEF PlanOK, on1
    <3>3. Range(OnGpu(b2)) = {} /\ Range(b2.cprf) = {}
      BY <3>2, ListEmpty
    <3>4. BatchReady(Itm(ids, b1), on1, StoredBatch(Q, b1, tok), b2)
      BY <3>2, <3>3 DEF BatchReady
    <3>5. x3 = AllocBlocksForBatch(x2, SeenBatch(ids, b2))
      BY <1>5a, <1>8, <2>1, <3>1 DEF Alloced
    <3>6. Fine(AllocBlocksForBatch(x2, SeenBatch(ids, b2)))
      BY <1>8, <3>5
    <3>7. Holds(AllocBlocksForBatch(x2, SeenBatch(ids, b2)), Itm(ids, b1) \union Itm(ids, b2), Q, ids, on1,
                StoredBatch(Q, b2, StoredBatch(Q, b1, tok)))
      BY <1>13, <1>i, <3>2, <3>4, <3>6, GrowBatch
    <3>8. Itm(ids, b1) \union Itm(ids, b2) = Itm(ids, b1)
      BY <3>3 DEF Itm, TheRows
    <3>9. tok2 = StoredBatch(Q, b2, StoredBatch(Q, b1, tok))
      BY <1>b, <2>1, <3>1 DEF TokAfter
    <3>10. QED
      BY <3>5, <3>7, <3>8, <3>9
  <2>2. CASE 2 \notin DOMAIN bs
    <3>1. x3 = x2
      BY <1>5a, <1>8, <2>2 DEF Alloced
    <3>2. tok2 = StoredBatch(Q, b1, tok)
      BY <1>b, <2>2 DEF TokAfter
    <3>3. QED
      BY <1>13, <3>1, <3>2
  <2>3. QED
    BY <2>1, <2>2
<1>15. \A r \in Range(b1.cprf) : on1[r] = "gpu" /\ tok2[r] = SeqLen(r)
  <2> TAKE r \in Range(b1.cprf)
  <2>1. r \in Range(OnGpu(b1)) /\ r \in Q
    BY <1>c, ListFacts DEF BatchShape
  <2>2. StoredBatch(Q, b1, tok)[r] = SeqLen(r)
    BY <2>1 DEF StoredBatch
  <2>3. tok2[r] = SeqLen(r)
    BY <1>b, <2>1, <2>2 DEF TokAfter, StoredBatch
  <2>4. QED
    BY <1>r, <2>1, <2>3 DEF BatchReady
<1>16. Holds(x4, {}, Q, ids, Across(Q, b1.cprf, on1, TRUE), tok2)
  <2>1. x4 = SwapBlocks(x3, Seen(ids, b1.cprf), TRUE, ExtraLayer, FALSE)
    BY <1>6a, <1>10, <1>b DEF SwappedOut
  <2>2. Fine(SwapBlocks(x3, Seen(ids, b1.cprf), TRUE, ExtraLayer, FALSE))
    BY <1>8, <2>1
  <2> HIDE DEF tok2
  <2>3. Holds(SwapBlocks(x3, Seen(ids, b1.cprf), TRUE, ExtraLayer, FALSE), {}, Q, ids,
              Across(Q, b1.cprf, on1, TRUE), tok2)
    BY <1>14, <1>15, <1>c, <2>2, SwapStepHolds
  <2>4. QED
    BY <2>1, <2>3
<1>17. Holds(x5, {}, Q, ids, Across(Q, b1.cprf, on1, TRUE), tok2)
  <2>1. CASE 2 \in DOMAIN bs
    <3>1. PICK b2 : b2 = bs[2]
      OBVIOUS
    <3>2. BatchShape(Q, b2) /\ b2.cprf = <<>>
      BY <1>p, <2>1, <3>1 DEF PlanOK
    <3>3. Range(b2.cprf) = {}
      BY <3>2, ListEmpty
    <3>4. x5 = SwapBlocks(x4, Seen(ids, b2.cprf), TRUE, ExtraLayer, FALSE)
      BY <1>7a, <2>1, <3>1 DEF SwappedOut
    <3>5. Fine(SwapBlocks(x4, Seen(ids, b2.cprf), TRUE, ExtraLayer, FALSE))
      BY <1>8, <3>4
    <3> PICK o2 : o2 = Across(Q, b1.cprf, on1, TRUE)
      OBVIOUS
    <3>6. Itm(ids, b2) = {}
      BY <3>3 DEF Itm, TheRows
    <3> HIDE DEF tok2
    <3>7. Holds(x4, Itm(ids, b2), Q, ids, o2, tok2)
      BY <1>16, <3>6
    <3>8. \A r \in Range(b2.cprf) : o2[r] = "gpu" /\ tok2[r] = SeqLen(r)
      BY <3>3
    <3>9. Holds(SwapBlocks(x4, Seen(ids, b2.cprf), TRUE, ExtraLayer, FALSE), {}, Q, ids,
                Across(Q, b2.cprf, o2, TRUE), tok2)
      BY <3>2, <3>5, <3>7, <3>8, SwapStepHolds
    <3>10. Across(Q, b2.cprf, o2, TRUE) = o2
      BY <3>3 DEF Across
    <3>11. QED
      BY <3>4, <3>9, <3>10
  <2>2. CASE 2 \notin DOMAIN bs
    BY <1>7a, <1>16, <2>2 DEF SwappedOut
  <2>3. QED
    BY <2>1, <2>2
<1>18. OnAfter(Q, bs, out, inn, on) = Across(Q, b1.cprf, on1, TRUE)
  BY <1>b DEF OnAfter, on1
<1>19. QED
  BY <1>1, <1>10, <1>11, <1>17, <1>18

Flattens(s, f) == f = [i \in 1 .. Len(s) |-> IF i = 1 THEN s[i] ELSE f[i - 1] \o s[i]]
FlatBy(s, f) == FlattenSeq(s) = f[Len(s)]

(* What the fold behind FlattenSeq computes, step by step.                   *)
LEMMA FlattenUnfold ==
  ASSUME NEW s, NEW w, Len(s) # 0, Flattens(s, w)
  PROVE  \E f : FlatBy(s, f) /\ Flattens(s, f)
<1> DEFINE f == CHOOSE g : g = [i \in 1 .. Len(s) |-> IF i = 1 THEN s[i] ELSE g[i - 1] \o s[i]]
<1>1. f = [i \in 1 .. Len(s) |-> IF i = 1 THEN s[i] ELSE f[i - 1] \o s[i]]
  BY Zenon DEF Flattens
<1>2. FlattenSeq(s) = IF Len(s) = 0 THEN s ELSE f[Len(s)]
  BY Zenon DEF FlattenSeq
<1> HIDE DEF f
<1>3. FlattenSeq(s) = f[Len(s)]
  BY <1>2
<1>4. QED
  BY Zenon, <1>1, <1>3 DEF Flattens, FlatBy
(* FlattenSeq of two, one and no sequences.                                  *)
LEMMA FlattenTwo ==
  ASSUME NEW a, NEW b
  PROVE  FlattenSeq(<<a, b>>) = a \o b
<1>0. PICK s : s = <<a, b>>
  OBVIOUS
<1>1. Len(s) = 2 /\ s[1] = a /\ s[2] = b
  BY <1>0
<1>2. PICK w : w = [i \in 1 .. 2 |-> IF i = 1 THEN a ELSE a \o b]
  OBVIOUS
<1>3. w = [i \in 1 .. Len(s) |-> IF i = 1 THEN s[i] ELSE w[i - 1] \o s[i]]
  <2>1. w[1] = a
    BY <1>2
  <2>2. \A i \in 1 .. 2 : (IF i = 1 THEN a ELSE a \o b) = (IF i = 1 THEN s[i] ELSE w[i - 1] \o s[i])
    <3> TAKE i \in 1 .. 2
    <3>1. CASE i = 1
      BY <1>1, <3>1
    <3>2. CASE i = 2
      <4>1. i - 1 = 1
        BY <3>2
      <4>2. w[i - 1] = a /\ s[i] = b
        BY <1>1, <2>1, <3>2, <4>1
      <4>3. QED
        BY <3>2, <4>2
    <3>3. QED
      BY <3>1, <3>2
  <2>3. QED
    BY <1>1, <1>2, <2>2
<1>4. Len(s) # 0
  BY <1>1
<1>f. Flattens(s, w)
  BY <1>3 DEF Flattens
<1>5. PICK f : FlatBy(s, f) /\ Flattens(s, f)
  BY <1>f, <1>4, FlattenUnfold
<1>6. f = [i \in 1 .. 2 |-> IF i = 1 THEN s[i] ELSE f[i - 1] \o s[i]]
  BY <1>1, <1>5 DEF Flattens
<1>7. f[1] = a
  BY <1>1, <1>6
<1>9. f[2] = a \o b
  <2>1. f[2] = IF 2 = 1 THEN s[2] ELSE f[2 - 1] \o s[2]
    <3>1. \A i \in 1 .. 2 : f[i] = IF i = 1 THEN s[i] ELSE f[i - 1] \o s[i]
      BY Zenon, <1>6
    <3>2. 2 \in 1 .. 2
      OBVIOUS
    <3>3. QED
      BY Zenon, <3>1, <3>2
  <2>2. 2 - 1 = 1 /\ 2 # 1
    OBVIOUS
  <2>3. f[2 - 1] = a
    BY <1>7, <2>2
  <2>4. QED
    BY <1>1, <2>1, <2>2, <2>3
<1>10. QED
  BY <1>0, <1>1, <1>5, <1>9 DEF FlatBy

LEMMA FlattenOne ==
  ASSUME NEW a
  PROVE  FlattenSeq(<<a>>) = a
<1>0. PICK s : s = <<a>>
  OBVIOUS
<1>1. Len(s) = 1 /\ s[1] = a
  BY <1>0
<1>2. PICK w : w = [i \in 1 .. 1 |-> a]
  OBVIOUS
<1>3. Flattens(s, w)
  <2>1. \A i \in 1 .. 1 : a = (IF i = 1 THEN s[i] ELSE w[i - 1] \o s[i])
    BY <1>1
  <2>2. w = [i \in 1 .. Len(s) |-> IF i = 1 THEN s[i] ELSE w[i - 1] \o s[i]]
    BY <1>1, <1>2, <2>1
  <2>3. QED
    BY <2>2 DEF Flattens
<1>4. Len(s) # 0
  BY <1>1
<1>5. PICK f : FlatBy(s, f) /\ Flattens(s, f)
  BY <1>3, <1>4, FlattenUnfold
<1>6. f[1] = a
  <2>1. f = [i \in 1 .. 1 |-> IF i = 1 THEN s[i] ELSE f[i - 1] \o s[i]]
    BY <1>1, <1>5 DEF Flattens
  <2>2. \A i \in 1 .. 1 : f[i] = IF i = 1 THEN s[i] ELSE f[i - 1] \o s[i]
    BY Zenon, <2>1
  <2>3. 1 \in 1 .. 1
    OBVIOUS
  <2>4. f[1] = s[1]
    BY Zenon, <2>2, <2>3
  <2>5. QED
    BY <1>1, <2>4
<1>7. QED
  BY <1>0, <1>1, <1>5, <1>6 DEF FlatBy

LEMMA FlattenNone == FlattenSeq(<<>>) = <<>>
BY Zenon, EmptySeq DEF FlattenSeq

-------------------------------------------------------------------------------
\* The decisions of the scheduler.

Full(gprf, cprf, gdec, cdec) == [cprf |-> cprf, gprf |-> gprf, gdec |-> gdec, cdec |-> cdec]

\* Two lists of requests of cpu without a request in common.
Parts(cpu, c0, c1) ==
  /\ List(c0, Reqs) /\ List(c1, Reqs)
  /\ Range(c0) \subseteq Range(cpu) /\ Range(c1) \subseteq Range(cpu)
  /\ Range(c0) \intersect Range(c1) = {}

\* The batches of a decision that launches gprf and kept.
Decided(bs, gpu, gprf, kept, c0, c1) ==
  \/ bs = <<>> /\ gprf = <<>> /\ kept = <<>>
  \/ bs = <<Full(gprf, kept, gpu, c0)>>
  \/ bs = <<Full(gprf, kept, gpu, c0), Full(<<>>, <<>>, <<>>, c1)>>

(* A splitting gives the two batches requests of cpu, and none to both.      *)
LEMMA PartParts ==
  ASSUME NEW cpu, List(cpu, Reqs), NEW d
  PROVE  Parts(cpu, Part(cpu, d, 0), Part(cpu, d, 1))
<1> DEFINE idx(b) == {i \in DOMAIN cpu : d[i] = b}
<1>1. DOMAIN cpu = 1 .. Len(cpu) /\ \A x : x \in Range(cpu) <=> \E i \in 1 .. Len(cpu) : cpu[i] = x
  BY ListFacts
<1>2. \A i, j \in 1 .. Len(cpu) : cpu[i] = cpu[j] => i = j
  BY DEF List
<1>3. PICK i0 : i0 = idx(0)
  OBVIOUS
<1>4. PICK i1 : i1 = idx(1)
  OBVIOUS
<1>5. i0 \in SUBSET (1 .. Len(cpu)) /\ i1 \in SUBSET (1 .. Len(cpu))
  BY <1>1, <1>3, <1>4
<1>6. \A i : i \in i0 => i \notin i1
  BY <1>3, <1>4
<1>7. List(Pick(cpu, i0), Reqs) /\ List(Pick(cpu, i1), Reqs)
  BY <1>5, PickList
<1>8. /\ \A x : x \in Range(Pick(cpu, i0)) <=> \E i \in i0 : cpu[i] = x
      /\ \A x : x \in Range(Pick(cpu, i1)) <=> \E i \in i1 : cpu[i] = x
  BY <1>5, PickList
<1>9. Part(cpu, d, 0) = Pick(cpu, i0) /\ Part(cpu, d, 1) = Pick(cpu, i1)
  BY <1>3, <1>4 DEF Part
<1>10. Range(Pick(cpu, i0)) \subseteq Range(cpu) /\ Range(Pick(cpu, i1)) \subseteq Range(cpu)
  BY <1>1, <1>5, <1>8
<1>11. Range(Pick(cpu, i0)) \intersect Range(Pick(cpu, i1)) = {}
  BY <1>2, <1>5, <1>6, <1>8
<1>12. QED
  BY <1>7, <1>9, <1>10, <1>11 DEF Parts

(* At most all prefills to the CPU are kept.                                 *)
LEMMA LeastKeptBounds ==
  ASSUME NEW gprf, NEW cprf, List(cprf, Reqs), NEW gdec, NEW cdec
  PROVE  LeastKept(Full(gprf, cprf, gdec, cdec)) \in 0 .. Len(cprf)
<1> DEFINE batch == Full(gprf, cprf, gdec, cdec)
           T == {0} \union {k \in DOMAIN batch.cprf :
                     Width([batch EXCEPT !.cprf = Prefix(@, k - 1)]) < LinrThreshold}
<1>1. batch.cprf = cprf
  BY DEF Full
<1>2. DOMAIN cprf = 1 .. Len(cprf) /\ Len(cprf) \in Nat
  BY ListFacts
<1>3. LeastKept(batch) = Max(T)
  BY DEF LeastKept
<1>4. 0 \in T
  OBVIOUS
<1>5. T \in SUBSET (0 .. Len(cprf))
  <2>1. \A k \in DOMAIN batch.cprf : k \in 0 .. Len(cprf)
    BY <1>1, <1>2
  <2>2. 0 \in 0 .. Len(cprf)
    BY <1>2
  <2> HIDE DEF batch
  <2>3. QED
    BY <2>1, <2>2
<1> HIDE DEF T
<1>6. Max(T) \in T
  <2>1. PICK n \in Nat : n = Len(cprf)
    BY <1>2
  <2>2. T \in SUBSET (0 .. n)
    BY <1>5, <2>1
  <2>3. QED
    BY <1>4, <2>2, MaxUpto
<1>7. QED
  BY <1>3, <1>5, <1>6

(* The batch Decisions starts from, field by field.                          *)
LEMMA FullWith ==
  ASSUME NEW gpu, NEW gprf, NEW cprf
  PROVE  [NoReqs EXCEPT !.gprf = gprf, !.cprf = cprf, !.gdec = gpu] = Full(gprf, cprf, gpu, <<>>)
<1>1. PICK n : n = [cprf |-> <<>>, gprf |-> <<>>, gdec |-> <<>>, cdec |-> <<>>]
  OBVIOUS
<1>2. NoReqs = n
  BY <1>1 DEF NoReqs
<1>3. PICK f : f = [n EXCEPT !.gprf = gprf, !.cprf = cprf, !.gdec = gpu]
  OBVIOUS
<1>4. f = Full(gprf, cprf, gpu, <<>>)
  BY <1>1, <1>3 DEF Full
<1>5. QED
  BY Zenon, <1>2, <1>3, <1>4

(* There are two batches.                                                    *)
LEMMA TwoSize == Cardinality({1, 2}) = 2
<1>1. {1, 2} = {1} \union {2}
  OBVIOUS
<1>2. IsFiniteSet({1}) /\ Cardinality({1}) = 1 /\ 2 \notin {1}
  BY FS_Singleton
<1>3. Cardinality({1} \union {2}) = 1 + 1
  BY <1>2, FS_AddElement
<1>4. QED
  BY <1>1, <1>3

(* What _decide_mode_and_gen_batch may return.                             *)
LEMMA DecisionsShape ==
  ASSUME NEW gpu, NEW cpu, List(cpu, Reqs), NEW gprf, NEW cprf, List(cprf, Reqs),
         NEW bs \in Decisions(gpu, cpu, gprf, cprf)
  PROVE  \E k \in 0 .. Len(cprf) : \E c0, c1 :
           Parts(cpu, c0, c1) /\ Decided(bs, gpu, gprf, Prefix(cprf, k), c0, c1)
<1> DEFINE all == [NoReqs EXCEPT !.gprf = gprf, !.cprf = cprf, !.gdec = gpu]
           gpuOnlyBatch == Keep(all, LeastKept(all))
           n == Len(gprf) + Len(cprf)
           tokens == MaxTokens - Len(gpu) - Prompts(gprf) - Prompts(cprf)
           budget == Min({MaxBatch - Len(gpu) - n, tokens})
           Two(d) == <<[all EXCEPT !.cdec = Part(cpu, d, 0)], [NoReqs EXCEPT !.cdec = Part(cpu, d, 1)]>>
           Kept(d) == {<<Keep(Two(d)[1], k), Two(d)[2]>> : k \in LeastKept(Two(d)[1]) .. Len(cprf)}
           Ds == {e \in Splittings(cpu, budget) : Part(cpu, e, 1) # <<>>}
           one == {Pick(Two(d), {i \in 1 .. 2 : Two(d)[i] # NoReqs}) : d \in Splittings(cpu, budget)}
           two == {<<gpuOnlyBatch>>} \union UNION {Kept(d) : d \in Ds}
           F(c) == Full(gprf, cprf, gpu, c)
           G(c) == Full(<<>>, <<>>, <<>>, c)
<1>1. Decisions(gpu, cpu, gprf, cprf) = IF all = NoReqs /\ NumGpuBlocks > 0 THEN {<<>>}
                                        ELSE IF NumGpuBlocks = 0 THEN one ELSE two
  BY Zenon DEF Decisions
<1>2. all = F(<<>>)
  BY FullWith
<1>3. \A d : Two(d) = <<F(Part(cpu, d, 0)), G(Part(cpu, d, 1))>>
  <2> TAKE d
  <2>1. [all EXCEPT !.cdec = Part(cpu, d, 0)] = F(Part(cpu, d, 0))
    <3>1. [F(<<>>) EXCEPT !.cdec = Part(cpu, d, 0)] = F(Part(cpu, d, 0))
      BY DEF Full
    <3>2. QED
      BY Zenon, <1>2, <3>1
  <2>2. [NoReqs EXCEPT !.cdec = Part(cpu, d, 1)] = G(Part(cpu, d, 1))
    BY DEF Full, NoReqs
  <2>3. QED
    BY <2>1, <2>2
<1>4. \A d : Parts(cpu, Part(cpu, d, 0), Part(cpu, d, 1))
  BY PartParts
<1>5. Len(cprf) \in Nat /\ Prefix(cprf, Len(cprf)) = cprf
  <2>1. Len(cprf) \in Nat /\ cprf \in Seq(Reqs)
    BY ListFacts
  <2>2. QED
    BY <2>1 DEF Prefix
<1>6. \A c, k : Keep(F(c), k) = Full(gprf, Prefix(cprf, k), gpu, c)
  BY DEF Keep, Full
<1>7. \A c : LeastKept(F(c)) \in 0 .. Len(cprf)
  BY LeastKeptBounds
<1>8. Parts(cpu, <<>>, <<>>)
  <2>1. List(<<>>, Reqs) /\ Range(<<>>) = {}
    BY ListEmpty
  <2>2. QED
    BY <2>1 DEF Parts
<1>9. NoReqs = Full(<<>>, <<>>, <<>>, <<>>)
  BY DEF NoReqs, Full
<1>10. CASE bs = <<>> /\ all = NoReqs
  <2>1. gprf = <<>> /\ cprf = <<>>
    BY <1>2, <1>9, <1>10 DEF Full
  <2>2. 0 \in 0 .. Len(cprf) /\ Len(cprf) = 0
    BY <1>5, <2>1
  <2>3. Prefix(cprf, 0) = <<>>
    BY <1>5, <2>1, <2>2
  <2>4. Decided(bs, gpu, gprf, Prefix(cprf, 0), <<>>, <<>>)
    BY <1>10, <2>1, <2>3 DEF Decided
  <2>5. QED
    BY <1>8, <2>2, <2>4
<1>11. CASE bs \in one
  <2>1. PICK d : bs = Pick(Two(d), {i \in 1 .. 2 : Two(d)[i] # NoReqs})
    BY <1>11
  <2>2. PICK c0 : c0 = Part(cpu, d, 0)
    OBVIOUS
  <2>3. PICK c1 : c1 = Part(cpu, d, 1)
    OBVIOUS
  <2>4. PICK f : f = F(c0)
    OBVIOUS
  <2>5. PICK g : g = G(c1)
    OBVIOUS
  <2>6. PICK t : t = <<f, g>>
    OBVIOUS
  <2>7. Two(d) = t
    BY <1>3, <2>2, <2>3, <2>4, <2>5, <2>6
  <2>8. Parts(cpu, c0, c1)
    BY <1>4, <2>2, <2>3
  <2>9. t[1] = f /\ t[2] = g /\ Len(t) = 2 /\ t \in Seq({f, g})
    BY <2>6
  <2>10. PICK idx : idx = {i \in 1 .. 2 : t[i] # NoReqs}
    OBVIOUS
  <2>11. bs = Pick(t, idx) /\ idx \in SUBSET (1 .. Len(t))
    BY <2>1, <2>7, <2>9, <2>10
  <2>12. PICK X : X = {f, g}
    OBVIOUS
  <2>13. bs \in Seq(X) /\ IsFiniteSet(idx) /\ Len(bs) = Cardinality(idx)
    BY <2>9, <2>11, <2>12, PickSeq
  <2>14. PICK e \in [1 .. Cardinality(idx) -> idx] : PickedBy(t, idx, e)
    BY <2>9, <2>11, <2>12, PickSeq
  <2>15. 1 \in idx <=> f # NoReqs
    BY <2>9, <2>10
  <2>16. 2 \in idx <=> g # NoReqs
    BY <2>9, <2>10
  <2>17. /\ \A k \in 1 .. Cardinality(idx) : bs[k] = t[e[k]]
         /\ \A k, l \in 1 .. Cardinality(idx) : k < l => e[k] < e[l]
    BY <2>11, <2>14 DEF PickedBy
  <2>18. f = NoReqs => gprf = <<>> /\ cprf = <<>> /\ gpu = <<>>
    BY <1>9, <2>4 DEF Full
  <2>19. Prefix(cprf, Len(cprf)) = cprf /\ Len(cprf) \in 0 .. Len(cprf)
    BY <1>5
  <2>20. \A x : bs = <<x>> <=> Len(bs) = 1 /\ bs[1] = x
    BY <2>13
  <2>21. \A x, y : bs = <<x, y>> <=> Len(bs) = 2 /\ bs[1] = x /\ bs[2] = y
    BY <2>13
  <2>22. bs = <<>> <=> Len(bs) = 0
    BY <2>13, EmptySeq
  <2>a. idx \subseteq {1, 2}
    BY <2>10
  <2>23. CASE 1 \in idx /\ 2 \in idx
    <3>1. idx = {1, 2}
      BY <2>23, <2>a
    <3>2. Cardinality(idx) = 2
      BY <3>1, TwoSize
    <3>3. e[1] \in {1, 2} /\ e[2] \in {1, 2}
      BY <2>14, <3>1, <3>2
    <3>4. e[1] < e[2]
      BY <2>17, <3>2
    <3>5. e[1] = 1 /\ e[2] = 2
      BY <3>3, <3>4
    <3>6. bs[1] = f /\ bs[2] = g
      <4>1. bs[1] = t[e[1]] /\ bs[2] = t[e[2]]
        BY <2>17, <3>2
      <4>2. QED
        BY <2>9, <3>5, <4>1
    <3>7. bs = <<f, g>>
      BY <2>13, <2>21, <3>2, <3>6
    <3>8. Decided(bs, gpu, gprf, Prefix(cprf, Len(cprf)), c0, c1)
      BY <2>4, <2>5, <2>19, <3>7 DEF Decided
    <3>9. QED
      BY <2>8, <2>19, <3>8
  <2>24. CASE 1 \in idx /\ 2 \notin idx
    <3>1. idx = {1}
      BY <2>24, <2>a
    <3>2. Cardinality(idx) = 1
      BY <3>1, FS_Singleton
    <3>3. e[1] = 1
      BY <2>14, <3>1, <3>2
    <3>4. bs[1] = f
      <4>1. bs[1] = t[e[1]]
        BY <2>17, <3>2
      <4>2. QED
        BY <2>9, <3>3, <4>1
    <3>5. bs = <<f>>
      BY <2>13, <2>20, <3>2, <3>4
    <3>6. Decided(bs, gpu, gprf, Prefix(cprf, Len(cprf)), c0, c1)
      BY <2>4, <2>19, <3>5 DEF Decided
    <3>7. QED
      BY <2>8, <2>19, <3>6
  <2>25. CASE 1 \notin idx /\ 2 \in idx
    <3>1. idx = {2}
      BY <2>25, <2>a
    <3>2. Cardinality(idx) = 1
      BY <3>1, FS_Singleton
    <3>3. e[1] = 2
      BY <2>14, <3>1, <3>2
    <3>4. bs[1] = g
      <4>1. bs[1] = t[e[1]]
        BY <2>17, <3>2
      <4>2. QED
        BY <2>9, <3>3, <4>1
    <3>5. bs = <<g>>
      BY <2>13, <2>20, <3>2, <3>4
    <3>6. gprf = <<>> /\ cprf = <<>> /\ gpu = <<>>
      BY <2>15, <2>18, <2>25
    <3>7. g = Full(gprf, Prefix(cprf, Len(cprf)), gpu, c1)
      BY <2>5, <2>19, <3>6
    <3>8. Parts(cpu, c1, <<>>)
      <4>1. List(<<>>, Reqs) /\ Range(<<>>) = {}
        BY ListEmpty
      <4>2. QED
        BY <2>8, <4>1 DEF Parts
    <3>9. Decided(bs, gpu, gprf, Prefix(cprf, Len(cprf)), c1, <<>>)
      BY <3>5, <3>7 DEF Decided
    <3>10. QED
      BY <2>19, <3>8, <3>9
  <2>26. CASE 1 \notin idx /\ 2 \notin idx
    <3>1. idx = {}
      BY <2>26, <2>a
    <3>2. Cardinality(idx) = 0
      BY <3>1, FS_EmptySet
    <3>3. bs = <<>>
      BY <2>13, <2>22, <3>2
    <3>4. gprf = <<>> /\ cprf = <<>>
      BY <2>15, <2>18, <2>26
    <3>5. Decided(bs, gpu, gprf, Prefix(cprf, Len(cprf)), c0, c1)
      BY <2>19, <3>3, <3>4 DEF Decided
    <3>6. QED
      BY <2>8, <2>19, <3>5
  <2>27. QED
    BY <2>23, <2>24, <2>25, <2>26
<1>12. CASE bs = <<gpuOnlyBatch>>
  <2>1. PICK k : k = LeastKept(all)
    OBVIOUS
  <2>2. k \in 0 .. Len(cprf)
    BY <1>2, <1>7, <2>1
  <2>3. gpuOnlyBatch = Full(gprf, Prefix(cprf, k), gpu, <<>>)
    BY <1>2, <1>6, <2>1
  <2>4. Decided(bs, gpu, gprf, Prefix(cprf, k), <<>>, <<>>)
    BY <1>12, <2>3 DEF Decided
  <2>5. QED
    BY <1>8, <2>2, <2>4
<1>13. ASSUME NEW d, bs \in Kept(d)
       PROVE  \E k \in 0 .. Len(cprf) : \E c0, c1 :
                Parts(cpu, c0, c1) /\ Decided(bs, gpu, gprf, Prefix(cprf, k), c0, c1)
  <2>1. PICK k \in LeastKept(Two(d)[1]) .. Len(cprf) : bs = <<Keep(Two(d)[1], k), Two(d)[2]>>
    BY <1>13
  <2>2. Two(d)[1] = F(Part(cpu, d, 0)) /\ Two(d)[2] = G(Part(cpu, d, 1))
    BY <1>3
  <2>3. LeastKept(Two(d)[1]) \in 0 .. Len(cprf)
    BY <1>7, <2>2
  <2>4. k \in 0 .. Len(cprf)
    BY <1>5, <2>1, <2>3
  <2>5. Keep(Two(d)[1], k) = Full(gprf, Prefix(cprf, k), gpu, Part(cpu, d, 0))
    BY <1>6, <2>2
  <2>6. Decided(bs, gpu, gprf, Prefix(cprf, k), Part(cpu, d, 0), Part(cpu, d, 1))
    BY <2>1, <2>2, <2>5 DEF Decided
  <2>7. QED
    BY <1>4, <2>4, <2>6
<1>14. \/ bs = <<>> /\ all = NoReqs
       \/ bs \in one
       \/ bs = <<gpuOnlyBatch>>
       \/ \E d : bs \in Kept(d)
  <2> HIDE DEF all, one, gpuOnlyBatch, Kept
  <2>1. two = {<<gpuOnlyBatch>>} \union UNION {Kept(d) : d \in Ds}
    OBVIOUS
  <2> HIDE DEF two
  <2>2. bs \in (IF all = NoReqs /\ NumGpuBlocks > 0 THEN {<<>>} ELSE IF NumGpuBlocks = 0 THEN one ELSE two)
    BY <1>1
  <2>3. bs \in two => bs = <<gpuOnlyBatch>> \/ \E d : bs \in Kept(d)
    BY <2>1
  <2>4. QED
    BY <2>2, <2>3
<1>15. QED
  BY <1>10, <1>11, <1>12, <1>13, <1>14

(* The smaller of two numbers.                                               *)
LEMMA MinTwo ==
  ASSUME NEW a \in Nat, NEW b \in Nat
  PROVE  Min({a, b}) \in Nat /\ Min({a, b}) <= a /\ Min({a, b}) <= b /\ (a <= b => Min({a, b}) = a)
<1>1. \E x \in {a, b} : \A y \in {a, b} : x <= y
  OBVIOUS
<1>2. Min({a, b}) \in {a, b} /\ \A y \in {a, b} : Min({a, b}) <= y
  BY <1>1 DEF Min
<1>3. QED
  BY <1>2

\* Every queue lists requests once each, and where a request may be at once.
QueuesOK ==
  /\ List(untokenized, Reqs) /\ List(tokenizing, Reqs) /\ List(arrivals, Reqs)
  /\ List(waiting_q, Reqs) /\ List(gpu_decoding_q, Reqs) /\ List(cpu_decoding_q, Reqs)
  /\ Range(untokenized) \intersect Range(tokenizing) = {}
  /\ Range(untokenized) \intersect Range(arrivals) = {}
  /\ Range(tokenizing) \intersect Range(arrivals) = {}
  /\ Range(waiting_q) \intersect Range(gpu_decoding_q) = {}
  /\ Range(waiting_q) \intersect Range(cpu_decoding_q) = {}
  /\ Range(gpu_decoding_q) \intersect Range(cpu_decoding_q) = {}
  /\ Range(waiting_q) \union Started \subseteq Range(arrivals)
  /\ \A r \in Range(untokenized) \union Range(tokenizing) \union Range(arrivals) :
       outputLen[r] < MaxOut[r]

\* gpu and cpu are the decoding queues after the swaps out and inn.
Rearranged(gpu, cpu, out, inn) ==
  /\ List(gpu, Reqs) /\ List(cpu, Reqs) /\ List(out, Reqs) /\ List(inn, Reqs)
  /\ Range(gpu) \intersect Range(cpu) = {}
  /\ Range(out) \subseteq Range(gpu_decoding_q)
  /\ Range(inn) \subseteq Range(cpu_decoding_q) \union Range(out)
  /\ \A r : r \in Range(gpu) <=> (r \in Range(gpu_decoding_q) /\ r \notin Range(out)) \/ r \in Range(inn)
  /\ \A r : r \in Range(cpu) <=> r \in Range(cpu_decoding_q) \union Range(out) /\ r \notin Range(inn)

(* Cutting the GPU's queue and the CPU's, victims in front, rearranges them. *)
LEMMA SwapsRearrange ==
  ASSUME QueuesOK, NEW n \in 0 .. Len(gpu_decoding_q), NEW cpu1, List(cpu1, Reqs),
         Range(cpu1) = Range(Rest(gpu_decoding_q, n)) \union Range(cpu_decoding_q),
         NEW m \in 0 .. Len(cpu1)
  PROVE  Rearranged(Prefix(gpu_decoding_q, n) \o Prefix(cpu1, m), Rest(cpu1, m),
                    Rest(gpu_decoding_q, n), Prefix(cpu1, m))
<1>1. PICK G : G = gpu_decoding_q
  OBVIOUS
<1>2. PICK C : C = cpu_decoding_q
  OBVIOUS
<1>3. List(G, Reqs) /\ List(C, Reqs) /\ Range(G) \intersect Range(C) = {} /\ n \in 0 .. Len(G)
  BY <1>1, <1>2 DEF QueuesOK
<1>4. /\ List(Prefix(G, n), Reqs) /\ List(Rest(G, n), Reqs)
      /\ Range(Prefix(G, n)) \union Range(Rest(G, n)) = Range(G)
      /\ Range(Prefix(G, n)) \intersect Range(Rest(G, n)) = {}
  BY <1>3, ListCut
<1>5. /\ List(Prefix(cpu1, m), Reqs) /\ List(Rest(cpu1, m), Reqs)
      /\ Range(Prefix(cpu1, m)) \union Range(Rest(cpu1, m)) = Range(cpu1)
      /\ Range(Prefix(cpu1, m)) \intersect Range(Rest(cpu1, m)) = {}
  BY ListCut
<1>6. Range(cpu1) = Range(Rest(G, n)) \union Range(C)
  BY <1>1, <1>2
<1>7. Range(Prefix(G, n)) \intersect Range(Prefix(cpu1, m)) = {}
  BY <1>3, <1>4, <1>5, <1>6
<1>8. /\ List(Prefix(G, n) \o Prefix(cpu1, m), Reqs)
      /\ Range(Prefix(G, n) \o Prefix(cpu1, m)) = Range(Prefix(G, n)) \union Range(Prefix(cpu1, m))
  BY <1>4, <1>5, <1>7, ListConcat
<1>9. PICK gpu : gpu = Prefix(G, n) \o Prefix(cpu1, m)
  OBVIOUS
<1>10. PICK cpu : cpu = Rest(cpu1, m)
  OBVIOUS
<1>11. PICK out : out = Rest(G, n)
  OBVIOUS
<1>12. PICK inn : inn = Prefix(cpu1, m)
  OBVIOUS
<1>13. PICK stay : stay = Prefix(G, n)
  OBVIOUS
<1>14. /\ Range(gpu) = Range(stay) \union Range(inn)
       /\ Range(inn) \union Range(cpu) = Range(out) \union Range(C)
       /\ Range(inn) \intersect Range(cpu) = {}
       /\ Range(stay) \union Range(out) = Range(G)
       /\ Range(stay) \intersect Range(out) = {}
       /\ Range(G) \intersect Range(C) = {}
  BY <1>3, <1>4, <1>5, <1>6, <1>8, <1>9, <1>10, <1>11, <1>12, <1>13
<1>15. /\ Range(gpu) \intersect Range(cpu) = {}
       /\ Range(out) \subseteq Range(G)
       /\ Range(inn) \subseteq Range(C) \union Range(out)
  BY <1>14
<1>16. \A r : r \in Range(gpu) <=> (r \in Range(G) /\ r \notin Range(out)) \/ r \in Range(inn)
  BY <1>14
<1>17. \A r : r \in Range(cpu) <=> r \in Range(C) \union Range(out) /\ r \notin Range(inn)
  BY <1>14
<1>18. List(gpu, Reqs) /\ List(cpu, Reqs) /\ List(out, Reqs) /\ List(inn, Reqs)
  BY <1>4, <1>5, <1>8, <1>9, <1>10, <1>11, <1>12
<1>19. Rearranged(gpu, cpu, out, inn)
  BY <1>1, <1>2, <1>15, <1>16, <1>17, <1>18 DEF Rearranged
<1>20. QED
  BY <1>1, <1>9, <1>10, <1>11, <1>12, <1>19

\* The decision d, with the decoding queues before the prefills join them,
\* the number of prefills onto the GPU and the CPU's parts of the batches.
DecisionOK(d, gpu, cpu, g, c0, c1) ==
  /\ d.launched \in 0 .. Len(waiting_q) /\ g \in 0 .. d.launched
  /\ Rearranged(gpu, cpu, d.out, d.in)
  /\ Parts(cpu, c0, c1)
  /\ Decided(d.batches, gpu, Prefix(waiting_q, g), SubSeq(waiting_q, g + 1, d.launched), c0, c1)
  /\ d.gpu = gpu \o Prefix(waiting_q, g)
  /\ d.cpu = cpu \o SubSeq(waiting_q, g + 1, d.launched)
Sound(d) == \E gpu, cpu, g, c0, c1 : DecisionOK(d, gpu, cpu, g, c0, c1)

(* The loops over the GPU's queue and the waiting one stop within them.      *)
LEMMA LongestBounds ==
  ASSUME QueuesOK
  PROVE  /\ Stay \in 0 .. Len(gpu_decoding_q)
         /\ \A gpu : ToGpu(gpu) \in 0 .. Len(waiting_q)
         /\ \A gpu, cpu : Prefills(gpu, cpu) \in 0 .. Len(waiting_q)
         /\ \A gpu : OldPrefills(gpu) \in 0 .. Len(waiting_q)
<1>1. /\ List(gpu_decoding_q, Reqs)
      /\ List(waiting_q, Reqs)
  BY DEF QueuesOK
<1>2. PICK k \in Nat : k = Len(gpu_decoding_q)
  BY <1>1, ListFacts
<1>3. PICK w \in Nat : w = Len(waiting_q)
  BY <1>1, ListFacts
<1>4. Stay \in 0 .. k
  <2> DEFINE T == {n \in 0 .. k : n <= MaxBatch
                     /\ BlocksOf(Prefix(gpu_decoding_q, n)) <= NumGpuBlocks} \union {0}
  <2>1. Stay = Max(T)
    BY <1>2 DEF Stay
  <2>2. T \in SUBSET (0 .. k) /\ 0 \in T
    OBVIOUS
  <2> HIDE DEF T
  <2>3. Max(T) \in T
    BY <2>2, MaxUpto
  <2>4. QED
    BY <2>1, <2>2, <2>3
<1>5. ASSUME NEW gpu PROVE ToGpu(gpu) \in 0 .. w
  <2> DEFINE T == {n \in 0 .. w : \A m \in 1 .. n :
                     BlocksOf(gpu) + BlocksOf(Prefix(waiting_q, m)) <= NumGpuBlocks}
  <2>1. ToGpu(gpu) = Max(T)
    BY <1>3 DEF ToGpu, Longest
  <2>2. T \in SUBSET (0 .. w) /\ 0 \in T
    OBVIOUS
  <2> HIDE DEF T
  <2>3. Max(T) \in T
    BY <2>2, MaxUpto
  <2>4. QED
    BY <2>1, <2>2, <2>3
<1>6. ASSUME NEW gpu, NEW cpu PROVE Prefills(gpu, cpu) \in 0 .. w
  <2> DEFINE T == {n \in 0 .. w : \A m \in 1 .. n : Launchable(gpu, cpu, m)}
  <2>1. Prefills(gpu, cpu) = Max(T)
    BY <1>3 DEF Prefills, Longest
  <2>2. T \in SUBSET (0 .. w) /\ 0 \in T
    OBVIOUS
  <2> HIDE DEF T
  <2>3. Max(T) \in T
    BY <2>2, MaxUpto
  <2>4. QED
    BY <2>1, <2>2, <2>3
<1>7. ASSUME NEW gpu PROVE OldPrefills(gpu) \in 0 .. w
  <2> DEFINE T == {n \in 0 .. w : \A m \in 1 .. n :
                     /\ Len(gpu) + m <= MaxBatch
                     /\ BlocksOf(gpu) + BlocksOf(Prefix(waiting_q, m)) <= NumGpuBlocks
                     /\ Len(gpu) + Prompts(Prefix(waiting_q, m)) <= MaxTokens}
  <2>1. OldPrefills(gpu) = Max(T)
    BY <1>3 DEF OldPrefills, Longest
  <2>2. T \in SUBSET (0 .. w) /\ 0 \in T
    OBVIOUS
  <2> HIDE DEF T
  <2>3. Max(T) \in T
    BY <2>2, MaxUpto
  <2>4. QED
    BY <2>1, <2>2, <2>3
<1>8. QED
  BY <1>2, <1>3, <1>4, <1>5, <1>6, <1>7

(* So do those over the CPU's.                                               *)
LEMMA SwappedInBounds ==
  ASSUME NEW gpu, NEW cpu, List(cpu, Reqs)
  PROVE  /\ SwappedIn(gpu, cpu) \in 0 .. Len(cpu)
         /\ OldSwappedIn(gpu, cpu) \in 0 .. Len(cpu)
<1>1. PICK k \in Nat : k = Len(cpu)
  BY ListFacts
<1>2. SwappedIn(gpu, cpu) \in 0 .. k
  <2> DEFINE T == {n \in 0 .. k : \A m \in 1 .. n :
                     /\ BlocksOf(gpu) + BlocksOf(Prefix(cpu, m)) <= SwapInThreshold(NumGpuBlocks)
                     /\ Len(gpu) + m <= MaxBatch}
  <2>1. SwappedIn(gpu, cpu) = Max(T)
    BY <1>1 DEF SwappedIn, Longest
  <2>2. T \in SUBSET (0 .. k) /\ 0 \in T
    OBVIOUS
  <2> HIDE DEF T
  <2>3. Max(T) \in T
    BY <2>2, MaxUpto
  <2>4. QED
    BY <2>1, <2>2, <2>3
<1>3. OldSwappedIn(gpu, cpu) \in 0 .. k
  <2> DEFINE T == {n \in 0 .. k : \A m \in 1 .. n :
                     /\ Len(gpu) + m <= MaxBatch
                     /\ BlocksOf(gpu) + BlocksOf(Prefix(cpu, m)) <= NumGpuBlocks}
  <2>1. OldSwappedIn(gpu, cpu) = Max(T)
    BY <1>1 DEF OldSwappedIn, Longest
  <2>2. T \in SUBSET (0 .. k) /\ 0 \in T
    OBVIOUS
  <2> HIDE DEF T
  <2>3. Max(T) \in T
    BY <2>2, MaxUpto
  <2>4. QED
    BY <2>1, <2>2, <2>3
<1>4. QED
  BY <1>1, <1>2, <1>3

\* How many prefills the batches of a decision hold.
LEMMA NumPrefsOf ==
  ASSUME NEW bs, NEW gpu, NEW gprf, NEW kept, NEW c0, NEW c1,
         List(gprf, Reqs), List(kept, Reqs), Decided(bs, gpu, gprf, kept, c0, c1)
  PROVE  NumPrefs(bs) = Len(gprf) + Len(kept)
<1> DEFINE f == [i \in DOMAIN bs |-> bs[i].cprf \o bs[i].gprf]
<1>1. NumPrefs(bs) = Len(FlattenSeq(f))
  BY DEF NumPrefs
<1>2. Len(gprf) \in Nat /\ Len(kept) \in Nat /\ gprf \in Seq(Reqs) /\ kept \in Seq(Reqs)
  BY ListFacts
<1>3. Len(kept \o gprf) = Len(gprf) + Len(kept) /\ kept \o gprf \in Seq(Reqs)
  BY <1>2
<1>4. CASE bs = <<>> /\ gprf = <<>> /\ kept = <<>>
  <2>1. f = <<>>
    BY <1>4
  <2> HIDE DEF f
  <2>2. FlattenSeq(f) = <<>>
    BY <2>1, FlattenNone
  <2>3. QED
    BY <1>1, <1>4, <2>2, EmptySeq
<1>5. CASE bs = <<Full(gprf, kept, gpu, c0)>>
  <2>1. PICK b1 : b1 = Full(gprf, kept, gpu, c0)
    OBVIOUS
  <2>2. b1.cprf = kept /\ b1.gprf = gprf
    BY <2>1 DEF Full
  <2>3. bs = <<b1>>
    BY <1>5, <2>1
  <2>4. DOMAIN bs = 1 .. 1 /\ bs[1] = b1
    BY <2>3
  <2>6. PICK a : a = b1.cprf \o b1.gprf
    OBVIOUS
  <2>5. f = <<a>>
    <3>1. f = [i \in 1 .. 1 |-> bs[i].cprf \o bs[i].gprf]
      BY <2>4
    <3>2. \A i \in 1 .. 1 : bs[i].cprf \o bs[i].gprf = a
      <4> TAKE i \in 1 .. 1
      <4>1. i = 1
        OBVIOUS
      <4>2. QED
        BY Zenon, <2>4, <2>6, <4>1
    <3> HIDE DEF f
    <3>3. f = [i \in 1 .. 1 |-> a]
      BY <3>1, <3>2
    <3>4. QED
      BY <3>3
  <2> HIDE DEF f
  <2>7. FlattenSeq(f) = a
    BY <2>5, FlattenOne
  <2>8. a = kept \o gprf
    BY <2>2, <2>6
  <2>9. QED
    BY <1>1, <1>3, <2>7, <2>8
<1>6. CASE bs = <<Full(gprf, kept, gpu, c0), Full(<<>>, <<>>, <<>>, c1)>>
  <2>1. PICK b1 : b1 = Full(gprf, kept, gpu, c0)
    OBVIOUS
  <2>2. PICK b2 : b2 = Full(<<>>, <<>>, <<>>, c1)
    OBVIOUS
  <2>3. b1.cprf = kept /\ b1.gprf = gprf /\ b2.cprf = <<>> /\ b2.gprf = <<>>
    BY <2>1, <2>2 DEF Full
  <2>4. bs = <<b1, b2>>
    BY <1>6, <2>1, <2>2
  <2>5. DOMAIN bs = 1 .. 2 /\ bs[1] = b1 /\ bs[2] = b2
    BY <2>4
  <2>6. PICK a : a = b1.cprf \o b1.gprf
    OBVIOUS
  <2>7. PICK b : b = b2.cprf \o b2.gprf
    OBVIOUS
  <2>8. f = <<a, b>>
    <3>1. f = [i \in 1 .. 2 |-> bs[i].cprf \o bs[i].gprf]
      BY <2>5
    <3>2. \A i \in 1 .. 2 : bs[i].cprf \o bs[i].gprf = IF i = 1 THEN a ELSE b
      <4> TAKE i \in 1 .. 2
      <4>1. CASE i = 1
        BY Zenon, <2>5, <2>6, <4>1
      <4>2. CASE i = 2
        <5>1. bs[i].cprf \o bs[i].gprf = b
          BY Zenon, <2>5, <2>7, <4>2
        <5>2. QED
          BY <4>2, <5>1
      <4>3. i = 1 \/ i = 2
        OBVIOUS
      <4>4. QED
        BY Zenon, <4>1, <4>2, <4>3
    <3> HIDE DEF f
    <3>3. f = [i \in 1 .. 2 |-> IF i = 1 THEN a ELSE b]
      BY <3>1, <3>2
    <3>4. QED
      BY <3>3
  <2> HIDE DEF f
  <2>9. FlattenSeq(f) = a \o b
    BY <2>8, FlattenTwo
  <2>10. a = kept \o gprf
    BY <2>3, <2>6
  <2>11. b = <<>> \o <<>>
    BY <2>3, <2>7
  <2>12. b = <<>>
    BY <2>11, ConcatEmptySeq, EmptySeq
  <2>13. a \o b = a
    <3>1. a \in Seq(Reqs)
      BY <1>3, <2>10
    <3>2. QED
      BY <2>12, <3>1, ConcatEmptySeq
  <2>14. QED
    BY <1>1, <1>3, <2>9, <2>10, <2>13
<1>7. QED
  BY <1>4, <1>5, <1>6 DEF Decided

(* A prefix of a part of q.                                                *)
LEMMA CutOfCut ==
  ASSUME NEW q, List(q, Reqs), NEW p \in 0 .. Len(q), NEW g \in 0 .. p, NEW k \in 0 .. p - g
  PROVE  Prefix(SubSeq(q, g + 1, p), k) = SubSeq(q, g + 1, g + k)
<1>1. Len(q) \in Nat
  BY ListFacts
<1>2. PICK a \in 1 .. Len(q) + 1 : a = g + 1
  BY <1>1
<1>a. PICK e \in 0 .. Len(q) : e = g + k
  BY <1>1
<1>3. PICK s : s = SubSeq(q, a, p)
  OBVIOUS
<1>4. PICK t : t = SubSeq(q, a, e)
  OBVIOUS
<1>5. List(s, Reqs) /\ Len(s) = p - g /\ \A i \in 1 .. p - g : s[i] = q[g + i]
  <2>1. List(SubSeq(q, a, p), Reqs)
    BY <1>2, ListSubSeq
  <2>2. Len(SubSeq(q, a, p)) = IF a <= p THEN p - a + 1 ELSE 0
    BY <1>2, ListSubSeq
  <2>3. \A i \in 1 .. p - a + 1 : SubSeq(q, a, p)[i] = q[a + i - 1]
    BY <1>2, ListSubSeq
  <2>4. p - a + 1 = p - g /\ (a <= p <=> g < p) /\ \A i \in 1 .. p - g : a + i - 1 = g + i
    BY <1>2
  <2>5. Len(s) = p - g
    BY <1>2, <1>3, <2>2, <2>4
  <2>6. QED
    BY <1>3, <2>1, <2>3, <2>4, <2>5
<1>6. List(t, Reqs) /\ Len(t) = k /\ \A i \in 1 .. k : t[i] = q[g + i]
  <2>1. List(SubSeq(q, a, e), Reqs)
    BY <1>2, <1>a, ListSubSeq
  <2>2. Len(SubSeq(q, a, e)) = IF a <= e THEN e - a + 1 ELSE 0
    BY <1>2, <1>a, ListSubSeq
  <2>3. \A i \in 1 .. e - a + 1 : SubSeq(q, a, e)[i] = q[a + i - 1]
    BY <1>2, <1>a, ListSubSeq
  <2>4. e - a + 1 = k /\ (a <= e <=> 0 < k) /\ \A i \in 1 .. k : a + i - 1 = g + i
    BY <1>2, <1>a
  <2>5. Len(t) = k
    BY <1>4, <2>2, <2>4
  <2>6. QED
    BY <1>4, <2>1, <2>3, <2>4, <2>5
<1>7. Len(s) = p - g /\ Len(t) = k
  BY <1>1, <1>5, <1>6
<1>8. PICK u : u = Prefix(s, k)
  OBVIOUS
<1>9. u = SubSeq(s, 1, k) /\ 1 \in 1 .. Len(s) + 1 /\ k \in 0 .. Len(s)
  BY <1>7, <1>8 DEF Prefix
<1>10. /\ List(u, Reqs) /\ Len(u) = (IF 1 <= k THEN k - 1 + 1 ELSE 0)
       /\ \A i \in 1 .. k - 1 + 1 : u[i] = s[1 + i - 1]
  BY <1>5, <1>9, ListSubSeq
<1>11. Len(u) = k
  BY <1>10
<1>12. \A i \in 1 .. k : u[i] = t[i]
  <2> TAKE i \in 1 .. k
  <2>1. u[i] = s[i]
    BY <1>10
  <2>2. s[i] = q[g + i]
    BY <1>1, <1>5
  <2>3. t[i] = q[g + i]
    BY <1>1, <1>6
  <2>4. QED
    BY <2>1, <2>2, <2>3
<1>13. u \in Seq(Reqs) /\ t \in Seq(Reqs)
  BY <1>6, <1>10 DEF List
<1>14. u = t
  BY <1>7, <1>11, <1>12, <1>13, SeqEqual
<1>15. QED
  BY <1>2, <1>a, <1>3, <1>4, <1>8, <1>14

(* Every decision of the new policy is sound, whatever the predictor says.   *)
LEMMA NewSound ==
  ASSUME QueuesOK, NEW d \in NextBatchNew
  PROVE  Sound(d)
<1> DEFINE out == Rest(gpu_decoding_q, Stay)
           gpu1 == Prefix(gpu_decoding_q, Stay)
           cpu1 == out \o cpu_decoding_q
           m == SwappedIn(gpu1, cpu1)
           gpu == gpu1 \o Prefix(cpu1, m)
           cpu == Rest(cpu1, m)
           p == Prefills(gpu, cpu)
           g == Min({p, ToGpu(gpu)})
           W == waiting_q
           Of(bs) == [batches |-> bs, out |-> out, in |-> Prefix(cpu1, m), launched |-> NumPrefs(bs),
                      gpu |-> gpu \o Prefix(W, Min({g, NumPrefs(bs)})),
                      cpu |-> cpu \o SubSeq(W, g + 1, NumPrefs(bs))]
           all == Decisions(gpu, cpu, Prefix(W, g), SubSeq(W, g + 1, p))
<1>1. NextBatchNew = {Of(bs) : bs \in all}
  BY Zenon DEF NextBatchNew
<1>2. PICK bs \in all : d = Of(bs)
  BY <1>1
<1>3. /\ List(W, Reqs) /\ List(gpu_decoding_q, Reqs) /\ List(cpu_decoding_q, Reqs)
      /\ Range(gpu_decoding_q) \intersect Range(cpu_decoding_q) = {}
  BY DEF QueuesOK
<1>4. Stay \in 0 .. Len(gpu_decoding_q)
  BY LongestBounds
<1>5. /\ List(out, Reqs)
      /\ Range(out) \subseteq Range(gpu_decoding_q)
  BY <1>3, <1>4, ListCut
<1>6. List(cpu1, Reqs) /\ Range(cpu1) = Range(out) \union Range(cpu_decoding_q)
  <2>1. Range(out) \intersect Range(cpu_decoding_q) = {}
    BY <1>3, <1>5
  <2> HIDE DEF out
  <2>2. QED
    BY <1>3, <1>5, <2>1, ListConcat
<1>7. m \in 0 .. Len(cpu1)
  <2> HIDE DEF cpu1, gpu1
  <2>1. QED
    BY <1>6, SwappedInBounds
<1>8. Rearranged(gpu, cpu, out, Prefix(cpu1, m))
  <2> HIDE DEF m, cpu1
  <2>1. QED
    BY <1>4, <1>6, <1>7, SwapsRearrange
<1>9. PICK inn : inn = Prefix(cpu1, m)
  OBVIOUS
<1> HIDE DEF gpu, cpu, out, m
<1>10. p \in 0 .. Len(W) /\ ToGpu(gpu) \in 0 .. Len(W) /\ Len(W) \in Nat
  BY <1>3, LongestBounds, ListFacts
<1> HIDE DEF p
<1>11. g \in 0 .. p
  BY <1>10, MinTwo
<1> HIDE DEF g
<1>12. List(cpu, Reqs)
  BY <1>8 DEF Rearranged
<1>13. PICK gprf : gprf = Prefix(W, g)
  OBVIOUS
<1>14. PICK cprf : cprf = SubSeq(W, g + 1, p)
  OBVIOUS
<1>15. List(gprf, Reqs) /\ Len(gprf) = g
  BY <1>3, <1>10, <1>11, <1>13, ListCut
<1>16. List(cprf, Reqs) /\ Len(cprf) = p - g
  BY <1>3, <1>10, <1>11, <1>14, ListCuts
<1>17. PICK k \in 0 .. Len(cprf) : \E c0, c1 :
         Parts(cpu, c0, c1) /\ Decided(bs, gpu, gprf, Prefix(cprf, k), c0, c1)
  <2>1. bs \in Decisions(gpu, cpu, gprf, cprf)
    BY <1>2, <1>13, <1>14
  <2>2. QED
    BY <1>12, <1>16, <2>1, DecisionsShape
<1>18. PICK c0, c1 : Parts(cpu, c0, c1) /\ Decided(bs, gpu, gprf, Prefix(cprf, k), c0, c1)
  BY <1>17
<1>19. PICK kept : kept = Prefix(cprf, k)
  OBVIOUS
<1>20. List(kept, Reqs) /\ Len(kept) = k
  BY <1>16, <1>17, <1>19, ListCut
<1>21. PICK n : n = NumPrefs(bs)
  OBVIOUS
<1>22. n = g + k
  BY <1>15, <1>18, <1>19, <1>20, <1>21, NumPrefsOf
<1>23. k \in 0 .. p - g /\ n \in 0 .. Len(W) /\ g \in 0 .. n
  BY <1>10, <1>11, <1>16, <1>17, <1>22
<1>24. kept = SubSeq(W, g + 1, n)
  BY <1>3, <1>10, <1>11, <1>14, <1>19, <1>22, <1>23, CutOfCut
<1>25. Min({g, n}) = g
  BY <1>11, <1>22, <1>23, MinTwo
<1>26. /\ d.batches = bs /\ d.out = out /\ d.in = inn /\ d.launched = n
       /\ d.gpu = gpu \o Prefix(W, g) /\ d.cpu = cpu \o SubSeq(W, g + 1, n)
  BY <1>2, <1>9, <1>21, <1>25
<1>27. Decided(bs, gpu, Prefix(W, g), SubSeq(W, g + 1, n), c0, c1)
  BY <1>13, <1>18, <1>19, <1>24
<1>28. DecisionOK(d, gpu, cpu, g, c0, c1)
  BY <1>8, <1>9, <1>18, <1>23, <1>26, <1>27 DEF DecisionOK
<1>29. QED
  BY <1>28 DEF Sound

(* So is that of the old policy.                                             *)
LEMMA OldSound ==
  ASSUME QueuesOK
  PROVE  Sound(NextBatchOld)
<1> DEFINE out == Rest(gpu_decoding_q, Stay)
           gpu1 == Prefix(gpu_decoding_q, Stay)
           cpu1 == Reverse(out) \o cpu_decoding_q
           p == IF cpu1 = <<>> THEN OldPrefills(gpu1) ELSE 0
           m == IF out = <<>> THEN OldSwappedIn(gpu1, cpu1) ELSE 0
           gpu == gpu1 \o Prefix(cpu1, m)
           cpu == Rest(cpu1, m)
           W == waiting_q
           batch == [NoReqs EXCEPT !.gprf = Prefix(W, p), !.gdec = gpu]
           d == [batches |-> IF batch = NoReqs THEN <<>> ELSE <<batch>>, out |-> out,
                 in |-> Prefix(cpu1, m), launched |-> p, gpu |-> gpu \o Prefix(W, p), cpu |-> cpu]
<1>1. NextBatchOld = d
  BY Zenon DEF NextBatchOld
<1>3. /\ List(W, Reqs) /\ List(gpu_decoding_q, Reqs) /\ List(cpu_decoding_q, Reqs)
      /\ Range(gpu_decoding_q) \intersect Range(cpu_decoding_q) = {}
  BY DEF QueuesOK
<1>4. Stay \in 0 .. Len(gpu_decoding_q)
  BY LongestBounds
<1>5. /\ List(out, Reqs)
      /\ Range(out) \subseteq Range(gpu_decoding_q)
  BY <1>3, <1>4, ListCut
<1>a. List(Reverse(out), Reqs) /\ Range(Reverse(out)) = Range(out)
  BY <1>5, ListReverse
<1>6. List(cpu1, Reqs) /\ Range(cpu1) = Range(out) \union Range(cpu_decoding_q)
  <2>1. Range(Reverse(out)) \intersect Range(cpu_decoding_q) = {}
    BY <1>3, <1>5, <1>a
  <2>2. PICK q : q = Reverse(out)
    OBVIOUS
  <2>3. List(q, Reqs) /\ Range(q) = Range(out) /\ Range(q) \intersect Range(cpu_decoding_q) = {}
    BY <1>a, <2>1, <2>2
  <2>4. List(q \o cpu_decoding_q, Reqs) /\ Range(q \o cpu_decoding_q) = Range(q) \union Range(cpu_decoding_q)
    BY <1>3, <2>3, ListConcat
  <2>5. QED
    BY <2>2, <2>3, <2>4
<1>7. m \in 0 .. Len(cpu1)
  <2> HIDE DEF cpu1, gpu1, out
  <2>1. OldSwappedIn(gpu1, cpu1) \in 0 .. Len(cpu1) /\ Len(cpu1) \in Nat
    BY <1>6, SwappedInBounds, ListFacts
  <2>2. QED
    BY <2>1
<1>8. Rearranged(gpu, cpu, out, Prefix(cpu1, m))
  <2> HIDE DEF m, cpu1
  <2>1. QED
    BY <1>4, <1>6, <1>7, SwapsRearrange
<1>9. PICK inn : inn = Prefix(cpu1, m)
  OBVIOUS
<1>10. p \in 0 .. Len(W) /\ Len(W) \in Nat
  BY <1>3, LongestBounds, ListFacts
<1> HIDE DEF p, gpu, cpu, out, m
<1>11. p \in 0 .. p /\ p \in Nat
  BY <1>10
<1>13. PICK gprf : gprf = Prefix(W, p)
  OBVIOUS
<1>14. SubSeq(W, p + 1, p) = <<>>
  <2>1. List(SubSeq(W, p + 1, p), Reqs) /\ Len(SubSeq(W, p + 1, p)) = p - p
    BY <1>3, <1>10, <1>11, ListCuts
  <2>2. PICK t : t = SubSeq(W, p + 1, p)
    OBVIOUS
  <2>3. List(t, Reqs) /\ Len(t) = 0
    BY <1>11, <2>1, <2>2
  <2>4. QED
    <3>1. t = <<>>
      BY <2>3, ListNonempty
    <3>2. QED
      BY <2>2, <3>1
<1>15. batch = Full(gprf, <<>>, gpu, <<>>)
  <2>1. PICK n : n = [cprf |-> <<>>, gprf |-> <<>>, gdec |-> <<>>, cdec |-> <<>>]
    OBVIOUS
  <2>2. NoReqs = n
    BY <2>1 DEF NoReqs
  <2>3. PICK f : f = [n EXCEPT !.gprf = gprf, !.gdec = gpu]
    OBVIOUS
  <2>4. f = Full(gprf, <<>>, gpu, <<>>)
    BY <2>1, <2>3 DEF Full
  <2>5. QED
    BY Zenon, <1>13, <2>2, <2>3, <2>4
<1>16. NoReqs = Full(<<>>, <<>>, <<>>, <<>>)
  BY DEF NoReqs, Full
<1>17. Parts(cpu, <<>>, <<>>)
  <2>1. List(<<>>, Reqs) /\ Range(<<>>) = {}
    BY ListEmpty
  <2>2. QED
    BY <2>1 DEF Parts
<1> HIDE DEF batch
<1>18. Decided(d.batches, gpu, gprf, <<>>, <<>>, <<>>)
  <2>1. CASE batch = NoReqs
    <3>1. gprf = <<>>
      BY <1>15, <1>16, <2>1 DEF Full
    <3>2. QED
      BY <2>1, <3>1 DEF Decided
  <2>2. CASE batch # NoReqs
    <3>1. d.batches = <<Full(gprf, <<>>, gpu, <<>>)>>
      BY <1>15, <2>2
    <3>2. QED
      BY <3>1 DEF Decided
  <2>3. QED
    BY <2>1, <2>2
<1>19. cpu \o <<>> = cpu
  <2>1. List(cpu, Reqs)
    BY <1>8 DEF Rearranged
  <2>2. cpu \in Seq(Reqs)
    BY <2>1 DEF List
  <2>3. QED
    BY <2>2, ConcatEmptySeq
<1>20. /\ d.out = out /\ d.in = inn /\ d.launched = p
       /\ d.gpu = gpu \o Prefix(W, p) /\ d.cpu = cpu \o SubSeq(W, p + 1, p)
  BY <1>9, <1>14, <1>19
<1>21. Decided(d.batches, gpu, Prefix(W, p), SubSeq(W, p + 1, p), <<>>, <<>>)
  BY <1>13, <1>14, <1>18
<1> HIDE DEF d
<1>22. DecisionOK(d, gpu, cpu, p, <<>>, <<>>)
  BY <1>8, <1>9, <1>10, <1>11, <1>17, <1>20, <1>21 DEF DecisionOK
<1>23. Sound(d)
  BY <1>22 DEF Sound
<1>24. QED
  BY <1>1, <1>23

\* The ids are shared out between the requests that run and the manager.
IdsOK ==
  /\ List(available_ids, Ids)
  /\ \A r \in Started : requestId[r] \in Ids \ Range(available_ids)
  /\ \A r1, r2 \in Started : requestId[r1] = requestId[r2] => r1 = r2
  /\ \A id \in Ids : id \in Range(available_ids) \/ \E r \in Started : requestId[r] = id

\* The requests that run once d is launched.
Running(d) == Started \union Range(Prefix(waiting_q, d.launched))

\* Where the requests of Q are before d's swaps, with how many tokens.
OnBefore(Q) == [r \in Q |-> IF r \in Range(cpu_decoding_q) THEN "cpu" ELSE "gpu"]
TokBefore(Q) == [r \in Q |-> IF r \in Started THEN SeqLen(r) - 1 ELSE 0]

\* Every running request has its first token.
Begun == \A r \in Started : outputLen[r] >= 1

(* A request has at least its prompt.                                        *)
LEMMA SizesOK ==
  ASSUME SchedulerAssumption, TypeOK, NEW Q \in SUBSET Reqs
  PROVE  Sized(Q)
<1>1. ASSUME NEW r \in Q PROVE SeqLen(r) \in Nat \ {0}
  <2>1. PromptLen[r] \in Nat \ {0} /\ MaxOut[r] \in Nat
    BY DEF SchedulerAssumption
  <2>2. outputLen[r] \in 0 .. MaxOut[r]
    BY DEF TypeOK
  <2>3. outputLen[r] \in Nat
    BY <2>1, <2>2
  <2>4. QED
    BY <2>1, <2>3 DEF SeqLen
<1>2. QED
  BY <1>1 DEF Sized

(* Running requests do not wait.                                             *)
LEMMA StartedFacts ==
  ASSUME QueuesOK
  PROVE  /\ Started \in SUBSET Reqs
         /\ Range(waiting_q) \in SUBSET Reqs
         /\ Started \intersect Range(waiting_q) = {}
<1>1. List(waiting_q, Reqs) /\ List(gpu_decoding_q, Reqs) /\ List(cpu_decoding_q, Reqs)
  BY DEF QueuesOK
<1>2. /\ Range(waiting_q) \subseteq Reqs /\ Range(gpu_decoding_q) \subseteq Reqs
      /\ Range(cpu_decoding_q) \subseteq Reqs
  BY <1>1, ListFacts
<1>3. QED
  BY <1>2 DEF Started, QueuesOK

\* The first n requests of q are W's, with the first n ids.
Gets(ids, n) ==
  /\ \A i \in 1 .. n : ids[waiting_q[i]] = available_ids[i]
  /\ \A r \in Reqs : (\A i \in 1 .. n : waiting_q[i] # r) => ids[r] = requestId[r]

(* The ids of a launch, if there are enough.                                 *)
LEMMA IdsAfterFacts ==
  ASSUME TypeOK, QueuesOK, IdsOK, NEW d, d.launched \in 0 .. Len(waiting_q)
  PROVE  /\ IdsAfter(d) \in [Reqs -> Ids \union {NoId}]
         /\ d.launched <= Len(available_ids) => Gets(IdsAfter(d), d.launched)
<1>1. PICK n : n = d.launched
  OBVIOUS
<1>2. PICK W : W = waiting_q
  OBVIOUS
<1>3. List(W, Reqs) /\ Len(W) \in Nat /\ n \in 0 .. Len(W)
  <2>1. List(W, Reqs)
    BY <1>2 DEF QueuesOK
  <2>2. QED
    BY <1>1, <1>2, <2>1, ListFacts
<1>4. PICK A : A = available_ids
  OBVIOUS
<1>5. List(A, Ids)
  BY <1>4 DEF IdsOK
<1>6. Len(A) \in Nat /\ \A i \in 1 .. Len(A) : A[i] \in Ids
  BY <1>5, ListFacts
<1>7. requestId \in [Reqs -> Ids \union {NoId}]
  BY DEF TypeOK
<1>8. \A i, j \in 1 .. n : W[i] = W[j] => i = j
  BY <1>3 DEF List
<1>9. \A i \in 1 .. n : W[i] \in Reqs
  BY <1>3, ListFacts
<1>10. PICK k : k = Min({n, Len(A)})
  OBVIOUS
<1>11. k \in Nat /\ k <= n /\ k <= Len(A) /\ (n <= Len(A) => k = n)
  BY <1>3, <1>6, <1>10, MinTwo
<1>12. PICK ids : ids = IdsAfter(d)
  OBVIOUS
<1>13. ids = [r \in Reqs |-> IF \E i \in 1 .. k : W[i] = r
                             THEN A[CHOOSE i \in 1 .. n : W[i] = r] ELSE requestId[r]]
  BY <1>1, <1>2, <1>4, <1>10, <1>12 DEF IdsAfter
<1>14. ASSUME NEW i \in 1 .. k
       PROVE  ids[W[i]] = A[i]
  <2>1. i \in 1 .. n /\ W[i] \in Reqs
    BY <1>3, <1>9, <1>11
  <2>2. (CHOOSE j \in 1 .. n : W[j] = W[i]) = i
    BY <1>8, <2>1
  <2>3. QED
    BY <1>13, <2>1, <2>2
<1>15. \A r \in Reqs : (\A i \in 1 .. k : W[i] # r) => ids[r] = requestId[r]
  BY <1>13
<1>16. ids \in [Reqs -> Ids \union {NoId}]
  <2>1. ASSUME NEW r \in Reqs
        PROVE  ids[r] \in Ids \union {NoId}
    <3>1. CASE \E i \in 1 .. k : W[i] = r
      <4>1. PICK i \in 1 .. k : W[i] = r
        BY <3>1
      <4>2. ids[r] = A[i]
        BY <1>14, <4>1
      <4>3. i \in 1 .. Len(A)
        BY <1>6, <1>11, <4>1
      <4>4. QED
        BY <1>6, <4>2, <4>3
    <3>2. CASE ~\E i \in 1 .. k : W[i] = r
      BY <1>7, <1>15, <3>2
    <3>3. QED
      BY <3>1, <3>2
  <2>2. DOMAIN ids = Reqs /\ ids = [r \in Reqs |-> ids[r]]
    BY <1>13
  <2>3. QED
    BY <2>1, <2>2
<1>17. n <= Len(A) => Gets(ids, n)
  <2> HAVE n <= Len(A)
  <2>1. k = n
    BY <1>11
  <2>2. \A i \in 1 .. n : ids[W[i]] = A[i]
    BY <1>14, <2>1
  <2>3. QED
    BY <1>2, <1>4, <1>15, <2>1, <2>2 DEF Gets
<1>18. QED
  BY <1>1, <1>4, <1>12, <1>16, <1>17

\* They have ids that were available.
Fresh(ids, n) ==
  \A r \in Range(Prefix(waiting_q, n)) : \E i \in 1 .. n :
    r = waiting_q[i] /\ ids[r] = available_ids[i]

(* They are not those of running requests.                                   *)
LEMMA NamedAfter ==
  ASSUME QueuesOK, IdsOK, NEW n \in 0 .. Len(waiting_q), n <= Len(available_ids),
         NEW ids, Gets(ids, n)
  PROVE  /\ Named(Started \union Range(Prefix(waiting_q, n)), ids)
         /\ \A r \in Started : ids[r] = requestId[r]
         /\ Fresh(ids, n)
<1>1. PICK W : W = waiting_q
  OBVIOUS
<1>2. List(W, Reqs) /\ Len(W) \in Nat /\ n \in 0 .. Len(W)
  <2>1. List(W, Reqs)
    BY <1>1 DEF QueuesOK
  <2>2. QED
    BY <1>1, <2>1, ListFacts
<1>3. PICK A : A = available_ids
  OBVIOUS
<1>4. List(A, Ids)
  BY <1>3 DEF IdsOK
<1>5. /\ Len(A) \in Nat /\ \A i \in 1 .. Len(A) : A[i] \in Ids
      /\ \A x : x \in Range(A) <=> \E i \in 1 .. Len(A) : A[i] = x
  BY <1>4, ListFacts
<1>6. \A x : x \in Range(W) <=> \E i \in 1 .. Len(W) : W[i] = x
  BY <1>2, ListFacts
<1>7. \A x : x \in Range(Prefix(W, n)) <=> \E i \in 1 .. n : W[i] = x
  BY <1>2, ListCut
<1>8. \A i, j \in 1 .. Len(A) : A[i] = A[j] => i = j
  BY <1>4 DEF List
<1>9. PICK S : S = Started
  OBVIOUS
<1>10. S \subseteq Reqs /\ S \intersect Range(W) = {}
  BY <1>1, <1>9, StartedFacts
<1>11. \A i \in 1 .. n : ids[W[i]] = A[i] /\ i \in 1 .. Len(A) /\ i \in 1 .. Len(W)
  BY <1>1, <1>2, <1>3, <1>5 DEF Gets
<1>12. \A r \in S : ids[r] = requestId[r]
  <2> TAKE r \in S
  <2>1. \A i \in 1 .. n : W[i] # r
    BY <1>6, <1>10, <1>11
  <2>2. QED
    BY <1>1, <1>10, <2>1 DEF Gets
<1>13. \A r \in S : ids[r] \in Ids /\ ids[r] \notin Range(A)
  BY <1>3, <1>9, <1>12 DEF IdsOK
<1>14. \A r1, r2 \in S : ids[r1] = ids[r2] => r1 = r2
  BY <1>9, <1>12 DEF IdsOK
<1>15. PICK P : P = Range(Prefix(W, n))
  OBVIOUS
<1>16. \A r \in P : \E i \in 1 .. n : r = W[i] /\ ids[r] = A[i]
  BY <1>7, <1>11, <1>15
<1>17. \A r \in P : ids[r] \in Ids /\ ids[r] \in Range(A)
  BY <1>5, <1>11, <1>16
<1>18. \A r1, r2 \in P : ids[r1] = ids[r2] => r1 = r2
  <2> SUFFICES ASSUME NEW r1 \in P, NEW r2 \in P, ids[r1] = ids[r2] PROVE r1 = r2
    OBVIOUS
  <2>1. PICK i \in 1 .. n : r1 = W[i] /\ ids[r1] = A[i]
    BY <1>16
  <2>2. PICK j \in 1 .. n : r2 = W[j] /\ ids[r2] = A[j]
    BY <1>16
  <2>3. i = j
    BY <1>8, <1>11, <2>1, <2>2
  <2>4. QED
    BY <2>1, <2>2, <2>3
<1>19. Named(S \union P, ids)
  BY <1>13, <1>14, <1>17, <1>18 DEF Named
<1>20. QED
  BY <1>1, <1>3, <1>9, <1>12, <1>15, <1>16, <1>19 DEF Fresh

On == [r \in Started |-> IF r \in Range(gpu_decoding_q) THEN "gpu" ELSE "cpu"]
Tok == [r \in Started |-> IF r \in InBatch THEN SeqLen(r) ELSE SeqLen(r) - 1]
BlocksOK == Holds(blk, {}, Started, requestId, On, Tok)

(* Before the swaps of d, the requests it launches have ids and no blocks. *)
LEMMA HoldsBefore ==
  ASSUME BlocksAssumption, QueuesOK, IdsOK, BlocksOK, InBatch = {},
         NEW n \in 0 .. Len(waiting_q), n <= Len(available_ids), NEW ids, Gets(ids, n),
         NEW Q, Q = Started \union Range(Prefix(waiting_q, n))
  PROVE  Holds(blk, {}, Q, ids, OnBefore(Q), TokBefore(Q))
<1>1. /\ \A r \in Started : ids[r] = requestId[r]
      /\ Fresh(ids, n)
  BY NamedAfter
<1>2. \A i \in 1 .. n : available_ids[i] \in Ids /\ available_ids[i] \in Range(available_ids)
  <2>1. List(available_ids, Ids)
    BY DEF IdsOK
  <2>2. /\ Len(available_ids) \in Nat /\ \A i \in 1 .. Len(available_ids) : available_ids[i] \in Ids
        /\ \A x : x \in Range(available_ids) <=> \E i \in 1 .. Len(available_ids) : available_ids[i] = x
    BY <2>1, ListFacts
  <2>3. QED
    BY <2>2
<1>3. \A r \in Started : requestId[r] \notin Range(available_ids)
  BY DEF IdsOK
<1>4. \A d \in Devices : \A i \in 1 .. n : blk.table[d][available_ids[i]] = {}
  BY <1>2, <1>3 DEF BlocksOK, Holds
<1>5. ASSUME NEW d \in Devices, NEW r \in Q
      PROVE  Cardinality(blk.table[d][ids[r]]) = IF OnBefore(Q)[r] = d THEN Cdiv(TokBefore(Q)[r]) ELSE 0
  <2>1. CASE r \in Started
    <3>1. On[r] = OnBefore(Q)[r]
      BY <2>1 DEF On, OnBefore, Started, QueuesOK
    <3>2. Tok[r] = TokBefore(Q)[r]
      BY <2>1 DEF Tok, TokBefore
    <3>3. Cardinality(blk.table[d][requestId[r]]) = IF On[r] = d THEN Cdiv(Tok[r]) ELSE 0
      BY <2>1 DEF BlocksOK, Holds
    <3>4. QED
      BY <1>1, <2>1, <3>1, <3>2, <3>3
  <2>2. CASE r \notin Started
    <3>1. PICK i \in 1 .. n : r = waiting_q[i] /\ ids[r] = available_ids[i]
      BY <1>1, <2>2 DEF Fresh
    <3>2. blk.table[d][ids[r]] = {}
      BY <1>4, <3>1
    <3>3. Cardinality({}) = 0
      BY FS_EmptySet
    <3>4. TokBefore(Q)[r] = 0
      BY <2>2 DEF TokBefore
    <3>5. QED
      BY <3>2, <3>3, <3>4, CdivFacts
  <2>3. QED
    BY <2>1, <2>2
<1>6. ASSUME NEW d \in Devices, NEW id \in Ids, \A r \in Q : ids[r] # id
      PROVE  blk.table[d][id] = {}
  <2>1. \A r \in Started : requestId[r] # id
    BY <1>1, <1>6
  <2>2. QED
    BY <2>1 DEF BlocksOK, Holds
<1>7. QED
  BY <1>5, <1>6 DEF BlocksOK, Holds

(* A list is one of any set that has its elements.                           *)
LEMMA ListWithin ==
  ASSUME NEW X, NEW Y, NEW q, List(q, X), Range(q) \subseteq Y
  PROVE  List(q, Y)
<1>1. q \in Seq(X) /\ \A i, j \in 1 .. Len(q) : q[i] = q[j] => i = j
  BY DEF List
<1>2. \A i \in 1 .. Len(q) : q[i] \in Range(q)
  BY ListFacts
<1>3. PICK n \in Nat : n = Len(q)
  BY <1>1
<1>4. PICK t : t = q
  OBVIOUS
<1>5. t \in [1 .. n -> Y]
  <2>1. t \in [1 .. n -> X]
    BY <1>1, <1>3, <1>4
  <2>2. \A i \in 1 .. n : t[i] \in Y
    BY <1>2, <1>3, <1>4
  <2>3. QED
    BY <2>1, <2>2
<1>6. t \in Seq(Y)
  BY <1>3, <1>5
<1>7. QED
  BY <1>1, <1>4, <1>6 DEF List

Spans(t, a, b, c) == Range(t) = Range(a) \union Range(b) \union Range(c)

(* A batch of lists without a common request.                                *)
LEMMA FullShape ==
  ASSUME NEW Q, NEW gprf, NEW cprf, NEW gdec, NEW cdec,
         List(gprf, Q), List(cprf, Q), List(gdec, Q), List(cdec, Q),
         Range(cprf) \intersect Range(gprf) = {}, Range(cprf) \intersect Range(gdec) = {},
         Range(gprf) \intersect Range(gdec) = {}
  PROVE  /\ BatchShape(Q, Full(gprf, cprf, gdec, cdec))
         /\ Spans(OnGpu(Full(gprf, cprf, gdec, cdec)), cprf, gprf, gdec)
<1>1. PICK f : f = Full(gprf, cprf, gdec, cdec)
  OBVIOUS
<1>2. f.cprf = cprf /\ f.gprf = gprf /\ f.gdec = gdec /\ f.cdec = cdec
  BY <1>1 DEF Full
<1>3. PICK a : a = cprf \o gprf
  OBVIOUS
<1>4. List(a, Q) /\ Range(a) = Range(cprf) \union Range(gprf)
  BY <1>3, ListConcat
<1>5. Range(a) \intersect Range(gdec) = {}
  BY <1>4
<1>6. List(a \o gdec, Q) /\ Range(a \o gdec) = Range(a) \union Range(gdec)
  BY <1>4, <1>5, ListConcat
<1>7. OnGpu(f) = a \o gdec
  BY <1>2, <1>3 DEF OnGpu
<1>8. Range(OnGpu(f)) = Range(cprf) \union Range(gprf) \union Range(gdec)
  BY <1>4, <1>6, <1>7
<1>9. List(OnGpu(f), Q)
  BY <1>6, <1>7
<1>10. BatchShape(Q, f)
  BY <1>2, <1>8, <1>9 DEF BatchShape
<1>11. QED
  BY <1>1, <1>8, <1>10 DEF Spans

(* Its requests.                                                             *)
LEMMA FullReqs ==
  ASSUME NEW Q, NEW gprf, NEW cprf, NEW gdec, NEW cdec,
         List(gprf, Q), List(cprf, Q), List(gdec, Q), List(cdec, Q),
         Range(cprf) \intersect Range(gprf) = {}, Range(cprf) \intersect Range(gdec) = {},
         Range(gprf) \intersect Range(gdec) = {},
         (Range(cprf) \union Range(gprf) \union Range(gdec)) \intersect Range(cdec) = {}
  PROVE  /\ List(ReqsOf(Full(gprf, cprf, gdec, cdec)), Q)
         /\ Range(ReqsOf(Full(gprf, cprf, gdec, cdec)))
              = Range(cprf) \union Range(gprf) \union Range(gdec) \union Range(cdec)
<1>1. PICK f : f = Full(gprf, cprf, gdec, cdec)
  OBVIOUS
<1>2. f.cprf = cprf /\ f.gprf = gprf /\ f.gdec = gdec /\ f.cdec = cdec
  BY <1>1 DEF Full
<1>3. PICK a : a = OnGpu(f)
  OBVIOUS
<1>4. BatchShape(Q, f) /\ Range(a) = Range(cprf) \union Range(gprf) \union Range(gdec)
  <2>1. BatchShape(Q, f) /\ Spans(a, cprf, gprf, gdec)
    BY <1>1, <1>3, FullShape
  <2>2. QED
    BY <2>1 DEF Spans
<1>5. List(a, Q)
  BY <1>3, <1>4 DEF BatchShape
<1>6. Range(a) \intersect Range(cdec) = {}
  BY <1>4
<1>7. List(a \o cdec, Q) /\ Range(a \o cdec) = Range(a) \union Range(cdec)
  BY <1>5, <1>6, ListConcat
<1>8. ReqsOf(f) = a \o cdec
  BY <1>2, <1>3 DEF ReqsOf, OnGpu
<1>9. QED
  BY <1>1, <1>4, <1>7, <1>8

\* What a decision d is made of: the requests launched on the GPU and on the
\* CPU, and where the running requests decode.
Cast(Q, gpu, cpu, gprf, kept, c0, c1) ==
  /\ List(gpu, Reqs) /\ List(cpu, Reqs) /\ List(gprf, Reqs) /\ List(kept, Reqs)
  /\ List(c0, Reqs) /\ List(c1, Reqs)
  /\ Range(gpu) \intersect Range(cpu) = {}
  /\ Range(gprf) \intersect Range(kept) = {}
  /\ Range(gpu) \union Range(cpu) = Started
  /\ Started \intersect (Range(gprf) \union Range(kept)) = {}
  /\ Q = Started \union Range(gprf) \union Range(kept)
  /\ Range(c0) \subseteq Range(cpu) /\ Range(c1) \subseteq Range(cpu)
  /\ Range(c0) \intersect Range(c1) = {}

(* A sound decision casts every running request once.                        *)
LEMMA CastOf ==
  ASSUME QueuesOK, NEW d, NEW gpu, NEW cpu, NEW g, NEW c0, NEW c1,
         DecisionOK(d, gpu, cpu, g, c0, c1)
  PROVE  Cast(Running(d), gpu, cpu, Prefix(waiting_q, g), SubSeq(waiting_q, g + 1, d.launched), c0, c1)
<1>1. PICK n : n = d.launched
  OBVIOUS
<1>2. PICK W : W = waiting_q
  OBVIOUS
<1>3. List(W, Reqs) /\ n \in 0 .. Len(W) /\ g \in 0 .. n
  BY <1>1, <1>2 DEF QueuesOK, DecisionOK
<1>4. PICK gprf : gprf = Prefix(W, g)
  OBVIOUS
<1>5. PICK kept : kept = SubSeq(W, g + 1, n)
  OBVIOUS
<1>6. /\ List(kept, Reqs)
      /\ Range(Prefix(W, n)) = Range(gprf) \union Range(kept)
      /\ Range(gprf) \intersect Range(kept) = {}
      /\ g \in 0 .. Len(W)
  BY <1>3, <1>4, <1>5, ListCuts
<1>7. List(gprf, Reqs)
  BY <1>3, <1>4, <1>6, ListCut
<1>8. Range(Prefix(W, n)) \subseteq Range(W)
  <2>1. Range(Prefix(W, n)) \union Range(Rest(W, n)) = Range(W)
    BY <1>3, ListCut
  <2>2. QED
    BY <2>1
<1>9. Started \intersect Range(W) = {}
  BY <1>2, StartedFacts
<1>10. /\ List(gpu, Reqs) /\ List(cpu, Reqs)
       /\ Range(gpu) \intersect Range(cpu) = {}
       /\ Range(gpu) \union Range(cpu) = Started
  BY DEF DecisionOK, Rearranged, Started
<1>11. /\ List(c0, Reqs) /\ List(c1, Reqs)
       /\ Range(c0) \subseteq Range(cpu) /\ Range(c1) \subseteq Range(cpu)
       /\ Range(c0) \intersect Range(c1) = {}
  BY DEF DecisionOK, Parts
<1>12. Started \intersect (Range(gprf) \union Range(kept)) = {}
  BY <1>6, <1>8, <1>9
<1>13. Running(d) = Started \union Range(gprf) \union Range(kept)
  BY <1>1, <1>2, <1>6 DEF Running
<1>14. Cast(Running(d), gpu, cpu, gprf, kept, c0, c1)
  BY <1>6, <1>7, <1>10, <1>11, <1>12, <1>13 DEF Cast
<1>15. QED
  BY <1>1, <1>2, <1>4, <1>5, <1>14

(* The batches it makes of them.                                             *)
LEMMA ShapesOf ==
  ASSUME NEW Q, NEW gpu, NEW cpu, NEW gprf, NEW kept, NEW c0, NEW c1,
         Cast(Q, gpu, cpu, gprf, kept, c0, c1)
  PROVE  /\ List(gpu, Q) /\ List(gprf, Q) /\ List(kept, Q) /\ List(c0, Q) /\ List(c1, Q)
         /\ BatchShape(Q, Full(gprf, kept, gpu, c0))
         /\ Range(OnGpu(Full(gprf, kept, gpu, c0))) = Range(kept) \union Range(gprf) \union Range(gpu)
         /\ BatchShape(Q, Full(<<>>, <<>>, <<>>, c1))
         /\ OnGpu(Full(<<>>, <<>>, <<>>, c1)) = <<>>
<1>1. /\ Range(gpu) \subseteq Q /\ Range(gprf) \subseteq Q /\ Range(kept) \subseteq Q
      /\ Range(c0) \subseteq Q /\ Range(c1) \subseteq Q
  BY DEF Cast
<1>2. /\ List(gpu, Reqs) /\ List(gprf, Reqs) /\ List(kept, Reqs) /\ List(c0, Reqs) /\ List(c1, Reqs)
  BY DEF Cast
<1>3. List(gpu, Q) /\ List(gprf, Q) /\ List(kept, Q) /\ List(c0, Q) /\ List(c1, Q)
  BY <1>1, <1>2, ListWithin
<1>4. /\ Range(kept) \intersect Range(gprf) = {} /\ Range(kept) \intersect Range(gpu) = {}
      /\ Range(gprf) \intersect Range(gpu) = {}
  BY DEF Cast
<1>5. /\ BatchShape(Q, Full(gprf, kept, gpu, c0))
      /\ Range(OnGpu(Full(gprf, kept, gpu, c0))) = Range(kept) \union Range(gprf) \union Range(gpu)
  <2>1. PICK f : f = Full(gprf, kept, gpu, c0)
    OBVIOUS
  <2>2. PICK a : a = OnGpu(f)
    OBVIOUS
  <2>3. BatchShape(Q, f)
    BY <1>3, <1>4, <2>1, FullShape
  <2>4. Spans(a, kept, gprf, gpu)
    BY <1>3, <1>4, <2>1, <2>2, FullShape
  <2>5. QED
    BY <2>1, <2>2, <2>3, <2>4 DEF Spans
<1>6. PICK e : e = <<>>
  OBVIOUS
<1>7. List(e, Q) /\ Range(e) = {} /\ Range(e) \intersect Range(e) = {}
  BY <1>6, ListEmpty
<1>8. /\ BatchShape(Q, Full(e, e, e, c1))
      /\ Range(OnGpu(Full(e, e, e, c1))) = Range(e) \union Range(e) \union Range(e)
  <2>1. PICK f : f = Full(e, e, e, c1)
    OBVIOUS
  <2>2. PICK a : a = OnGpu(f)
    OBVIOUS
  <2>3. BatchShape(Q, f)
    BY <1>3, <1>7, <2>1, FullShape
  <2>4. Spans(a, e, e, e)
    BY <1>3, <1>7, <2>1, <2>2, FullShape
  <2>5. QED
    BY <2>1, <2>2, <2>3, <2>4 DEF Spans
<1>9. OnGpu(Full(e, e, e, c1)) = <<>>
  <2>1. PICK t : t = OnGpu(Full(e, e, e, c1))
    OBVIOUS
  <2>2. List(t, Q)
    BY <1>8, <2>1 DEF BatchShape
  <2>3. Range(t) = {}
    BY <1>7, <1>8, <2>1
  <2>4. t = <<>>
    BY <2>2, <2>3, ListNonempty
  <2>5. QED
    BY <2>1, <2>4
<1>10. QED
  BY <1>3, <1>5, <1>6, <1>8, <1>9

\* The requests of a decision's batches.
Batched(bs, gpu, gprf, kept, c0, c1) ==
  CASE Len(bs) = 0 -> {}
    [] Len(bs) = 1 -> Range(gprf) \union Range(kept) \union Range(gpu) \union Range(c0)
    [] OTHER -> Range(gprf) \union Range(kept) \union Range(gpu) \union Range(c0) \union Range(c1)

(* A decision has no batch, one or two, and no prefills without a batch.     *)
LEMMA BatchesOf ==
  ASSUME NEW bs, NEW gpu, NEW gprf, NEW kept, NEW c0, NEW c1,
         Decided(bs, gpu, gprf, kept, c0, c1)
  PROVE  /\ Len(bs) \in {0, 1, 2} /\ DOMAIN bs = 1 .. Len(bs)
         /\ Len(bs) = 0 => bs = <<>> /\ gprf = <<>> /\ kept = <<>>
         /\ Len(bs) # 0 => bs[1] = Full(gprf, kept, gpu, c0)
         /\ Len(bs) = 1 => bs = <<bs[1]>>
         /\ Len(bs) = 2 => bs[2] = Full(<<>>, <<>>, <<>>, c1) /\ bs = <<bs[1], bs[2]>>
<1>1. PICK a : a = Full(gprf, kept, gpu, c0)
  OBVIOUS
<1>2. PICK b : b = Full(<<>>, <<>>, <<>>, c1)
  OBVIOUS
<1>3. (bs = <<>> /\ gprf = <<>> /\ kept = <<>>) \/ bs = <<a>> \/ bs = <<a, b>>
  BY <1>1, <1>2 DEF Decided
<1>4. QED
  BY <1>1, <1>2, <1>3

(* No request is in both batches, or twice in one.                           *)
LEMMA ReqsOfDecision ==
  ASSUME NEW Q, NEW gpu, NEW cpu, NEW gprf, NEW kept, NEW c0, NEW c1,
         Cast(Q, gpu, cpu, gprf, kept, c0, c1), NEW bs, Decided(bs, gpu, gprf, kept, c0, c1)
  PROVE  /\ List(AllReqs(bs), Reqs)
         /\ Range(AllReqs(bs)) = Batched(bs, gpu, gprf, kept, c0, c1)
<1> DEFINE f == [i \in DOMAIN bs |-> ReqsOf(bs[i])]
<1>1. AllReqs(bs) = FlattenSeq(f)
  BY DEF AllReqs
<1>b. /\ Len(bs) \in {0, 1, 2} /\ DOMAIN bs = 1 .. Len(bs)
      /\ Len(bs) = 0 => bs = <<>> /\ gprf = <<>> /\ kept = <<>>
      /\ Len(bs) # 0 => bs[1] = Full(gprf, kept, gpu, c0)
      /\ Len(bs) = 1 => bs = <<bs[1]>>
      /\ Len(bs) = 2 => bs[2] = Full(<<>>, <<>>, <<>>, c1) /\ bs = <<bs[1], bs[2]>>
  BY BatchesOf
<1>2. PICK a : a = ReqsOf(Full(gprf, kept, gpu, c0))
  OBVIOUS
<1>3. PICK b : b = ReqsOf(Full(<<>>, <<>>, <<>>, c1))
  OBVIOUS
<1>4. /\ List(gpu, Reqs) /\ List(gprf, Reqs) /\ List(kept, Reqs) /\ List(c0, Reqs) /\ List(c1, Reqs)
      /\ Range(kept) \intersect Range(gprf) = {} /\ Range(kept) \intersect Range(gpu) = {}
      /\ Range(gprf) \intersect Range(gpu) = {}
      /\ (Range(kept) \union Range(gprf) \union Range(gpu)) \intersect Range(c0) = {}
      /\ (Range(kept) \union Range(gprf) \union Range(gpu) \union Range(c0)) \intersect Range(c1) = {}
  BY DEF Cast
<1>5. List(a, Reqs) /\ Range(a) = Range(kept) \union Range(gprf) \union Range(gpu) \union Range(c0)
  BY <1>2, <1>4, FullReqs
<1>6. List(b, Reqs) /\ Range(b) = Range(c1)
  <2>1. PICK e : e = <<>>
    OBVIOUS
  <2>2. List(e, Reqs) /\ Range(e) = {}
    BY <2>1, ListEmpty
  <2>3. (Range(e) \union Range(e) \union Range(e)) \intersect Range(c1) = {}
    BY <2>2
  <2>4. /\ List(ReqsOf(Full(e, e, e, c1)), Reqs)
        /\ Range(ReqsOf(Full(e, e, e, c1))) = Range(e) \union Range(e) \union Range(e) \union Range(c1)
    BY <1>4, <2>2, <2>3, FullReqs
  <2>5. QED
    BY <1>3, <2>1, <2>2, <2>4
<1>7. Range(a) \intersect Range(b) = {}
  BY <1>4, <1>5, <1>6
<1>8. List(a \o b, Reqs) /\ Range(a \o b) = Range(a) \union Range(b)
  BY <1>5, <1>6, <1>7, ListConcat
<1>9. CASE Len(bs) = 0
  <2>1. f = <<>>
    BY <1>b, <1>9
  <2>2. AllReqs(bs) = <<>>
    BY <1>1, <2>1, FlattenNone
  <2>3. QED
    BY <1>9, <2>2, ListEmpty DEF Batched
<1>10. CASE Len(bs) = 1
  <2>1. f = <<a>>
    <3>1. f = [i \in 1 .. 1 |-> ReqsOf(bs[i])]
      BY <1>b, <1>10
    <3>2. \A i \in 1 .. 1 : ReqsOf(bs[i]) = a
      <4> TAKE i \in 1 .. 1
      <4>1. i = 1 /\ bs[1] = Full(gprf, kept, gpu, c0)
        BY <1>b, <1>10
      <4>2. QED
        BY Zenon, <1>2, <4>1
    <3> HIDE DEF f
    <3>3. f = [i \in 1 .. 1 |-> a]
      BY <3>1, <3>2
    <3>4. QED
      BY <3>3
  <2> HIDE DEF f
  <2>2. AllReqs(bs) = a
    BY <1>1, <2>1, FlattenOne
  <2>3. QED
    BY <1>5, <1>10, <2>2 DEF Batched
<1>11. CASE Len(bs) = 2
  <2>1. f = <<a, b>>
    <3>1. f = [i \in 1 .. 2 |-> ReqsOf(bs[i])]
      BY <1>b, <1>11
    <3>2. \A i \in 1 .. 2 : ReqsOf(bs[i]) = IF i = 1 THEN a ELSE b
      <4> TAKE i \in 1 .. 2
      <4>0. bs[1] = Full(gprf, kept, gpu, c0) /\ bs[2] = Full(<<>>, <<>>, <<>>, c1)
        BY <1>b, <1>11
      <4>1. CASE i = 1
        BY Zenon, <1>2, <4>0, <4>1
      <4>2. CASE i = 2
        <5>1. ReqsOf(bs[i]) = b
          BY Zenon, <1>3, <4>0, <4>2
        <5>2. QED
          BY <4>2, <5>1
      <4>3. i = 1 \/ i = 2
        OBVIOUS
      <4>4. QED
        BY Zenon, <4>1, <4>2, <4>3
    <3> HIDE DEF f
    <3>3. f = [i \in 1 .. 2 |-> IF i = 1 THEN a ELSE b]
      BY <3>1, <3>2
    <3>4. QED
      BY <3>3
  <2> HIDE DEF f
  <2>2. AllReqs(bs) = a \o b
    BY <1>1, <2>1, FlattenTwo
  <2>3. Range(a \o b) = Batched(bs, gpu, gprf, kept, c0, c1)
    BY <1>5, <1>6, <1>8, <1>11 DEF Batched
  <2>4. QED
    BY <1>8, <2>2, <2>3
<1>12. QED
  BY <1>b, <1>9, <1>10, <1>11

\* The swaps put the requests of gpu on the GPU and those of cpu on the CPU.
PutBy(on, gpu, cpu, gprf, kept) ==
  /\ \A r \in Range(gpu) \union Range(gprf) \union Range(kept) : on[r] = "gpu"
  /\ \A r \in Range(cpu) : on[r] = "cpu"

(* The swaps take the requests to the device of their new queue.             *)
LEMMA PlacedFacts ==
  ASSUME QueuesOK, NEW Q, NEW gpu, NEW cpu, NEW gprf, NEW kept, NEW c0, NEW c1,
         Cast(Q, gpu, cpu, gprf, kept, c0, c1),
         NEW out, NEW inn, Rearranged(gpu, cpu, out, inn), out = <<>> \/ inn = <<>>
  PROVE  PutBy(Placed(Q, out, inn, OnBefore(Q)), gpu, cpu, gprf, kept)
<1>1. PICK G : G = Range(gpu_decoding_q)
  OBVIOUS
<1>2. PICK C : C = Range(cpu_decoding_q)
  OBVIOUS
<1>3. G \intersect C = {} /\ Started = G \union C
  BY <1>1, <1>2 DEF QueuesOK, Started
<1>4. List(out, Reqs) /\ List(inn, Reqs)
  BY DEF Rearranged
<1>5. (out = <<>> <=> Range(out) = {}) /\ (inn = <<>> <=> Range(inn) = {})
  BY <1>4, ListNonempty
<1>6. /\ Range(out) \subseteq G /\ Range(inn) \subseteq C \union Range(out)
      /\ \A r : r \in Range(gpu) <=> (r \in G /\ r \notin Range(out)) \/ r \in Range(inn)
      /\ \A r : r \in Range(cpu) <=> r \in C \union Range(out) /\ r \notin Range(inn)
  BY <1>1, <1>2 DEF Rearranged
<1>7. /\ Started \intersect (Range(gprf) \union Range(kept)) = {}
      /\ Q = Started \union Range(gprf) \union Range(kept)
  BY DEF Cast
<1>8. PICK on : on = OnBefore(Q)
  OBVIOUS
<1>9. \A r \in Q : on[r] = IF r \in C THEN "cpu" ELSE "gpu"
  BY <1>2, <1>8 DEF OnBefore
<1>10. PICK on1 : on1 = Placed(Q, out, inn, on)
  OBVIOUS
<1>11. CASE out # <<>>
  <2>1. Range(inn) = {}
    BY <1>5, <1>11
  <2>2. \A r \in Q : on1[r] = IF r \in Range(out) THEN "cpu" ELSE on[r]
    BY <1>10, <1>11 DEF Placed, Across, Other
  <2>3. \A r \in Range(gpu) \union Range(gprf) \union Range(kept) : on1[r] = "gpu"
    BY <1>3, <1>6, <1>7, <1>9, <2>1, <2>2
  <2>4. \A r \in Range(cpu) : on1[r] = "cpu"
    BY <1>3, <1>6, <1>7, <1>9, <2>1, <2>2
  <2>5. QED
    BY <1>8, <1>10, <2>3, <2>4 DEF PutBy
<1>12. CASE out = <<>>
  <2>1. Range(out) = {}
    BY <1>5, <1>12
  <2>2. \A r \in Q : on1[r] = IF r \in Range(inn) THEN "gpu" ELSE on[r]
    BY <1>10, <1>12 DEF Placed, Across, Other
  <2>3. \A r \in Range(gpu) \union Range(gprf) \union Range(kept) : on1[r] = "gpu"
    BY <1>3, <1>6, <1>7, <1>9, <2>1, <2>2
  <2>4. \A r \in Range(cpu) : on1[r] = "cpu"
    BY <1>3, <1>6, <1>7, <1>9, <2>1, <2>2
  <2>5. QED
    BY <1>8, <1>10, <2>3, <2>4 DEF PutBy
<1>13. QED
  BY <1>11, <1>12

(* A running request has its prompt and a token.                             *)
LEMMA TokFacts ==
  ASSUME SchedulerAssumption, TypeOK, QueuesOK, Begun, NEW Q
  PROVE  \A r \in Started : SeqLen(r) - 1 \in Nat \ {0}
<1> TAKE r \in Started
<1>1. r \in Reqs
  BY StartedFacts
<1>2. PromptLen[r] \in Nat \ {0} /\ MaxOut[r] \in Nat
  BY <1>1 DEF SchedulerAssumption
<1>3. outputLen[r] \in 0 .. MaxOut[r] /\ outputLen[r] >= 1
  BY <1>1 DEF TypeOK, Begun
<1>4. QED
  BY <1>2, <1>3 DEF SeqLen

(* A sound decision keeps its promise to the block manager.                  *)
LEMMA PlanHolds ==
  ASSUME SchedulerAssumption, TypeOK, QueuesOK, Begun,
         NEW Q, NEW gpu, NEW cpu, NEW gprf, NEW kept, NEW c0, NEW c1,
         Cast(Q, gpu, cpu, gprf, kept, c0, c1),
         NEW out, NEW inn, Rearranged(gpu, cpu, out, inn),
         NEW bs, Decided(bs, gpu, gprf, kept, c0, c1)
  PROVE  Planned(Q, OnBefore(Q), TokBefore(Q), bs, out, inn)
<1> SUFFICES ASSUME out = <<>> \/ inn = <<>>
             PROVE  PlanOK(Q, OnBefore(Q), TokBefore(Q), bs, out, inn)
  BY DEF Planned
<1>1. PICK on : on = OnBefore(Q)
  OBVIOUS
<1>2. PICK tok : tok = TokBefore(Q)
  OBVIOUS
<1>3. PICK on1 : on1 = Placed(Q, out, inn, on)
  OBVIOUS
<1>4. PutBy(on1, gpu, cpu, gprf, kept)
  BY <1>1, <1>3, PlacedFacts
<1>5. Q = Started \union Range(gprf) \union Range(kept)
      /\ Started \intersect (Range(gprf) \union Range(kept)) = {}
      /\ Range(c0) \subseteq Range(cpu) /\ Range(c1) \subseteq Range(cpu)
      /\ Range(gpu) \union Range(cpu) = Started
  BY DEF Cast
<1>6. \A r \in Started : tok[r] = SeqLen(r) - 1 /\ tok[r] \in Nat \ {0}
  <2>1. \A r \in Started : SeqLen(r) - 1 \in Nat \ {0}
    BY TokFacts
  <2>2. QED
    BY <1>2, <1>5, <2>1 DEF TokBefore
<1>7. \A r \in Range(kept) : tok[r] = 0
  BY <1>2, <1>5 DEF TokBefore
<1>8. /\ Range(out) \subseteq Range(gpu_decoding_q)
      /\ Range(inn) \subseteq Range(cpu_decoding_q) \union Range(out)
      /\ List(out, Reqs)
  BY DEF Rearranged
<1>9. Swappable(out, TRUE, on, tok)
  <2>1. ASSUME NEW r \in Range(out)
        PROVE  on[r] = Side(TRUE) /\ tok[r] \in Nat \ {0} /\ tok[r] = SeqLen(r) - 1
    <3>1. r \in Started /\ r \notin Range(cpu_decoding_q)
      BY <1>8 DEF Started, QueuesOK
    <3>2. on[r] = "gpu"
      BY <1>1, <1>5, <3>1 DEF OnBefore
    <3>3. QED
      BY <1>6, <3>1, <3>2 DEF Side
  <2>2. QED
    BY <2>1 DEF Swappable
<1>10. out = <<>> => Swappable(inn, FALSE, on, tok)
  <2> HAVE out = <<>>
  <2>1. Range(out) = {}
    BY <1>8, ListNonempty
  <2>2. ASSUME NEW r \in Range(inn)
        PROVE  on[r] = Side(FALSE) /\ tok[r] \in Nat \ {0} /\ tok[r] = SeqLen(r) - 1
    <3>1. r \in Started /\ r \in Range(cpu_decoding_q)
      BY <1>8, <2>1 DEF Started
    <3>2. on[r] = "cpu"
      BY <1>1, <1>5, <3>1 DEF OnBefore
    <3>3. QED
      BY <1>6, <3>1, <3>2 DEF Side
  <2>3. QED
    BY <2>2 DEF Swappable
<1>b. /\ Len(bs) \in {0, 1, 2} /\ DOMAIN bs = 1 .. Len(bs)
      /\ Len(bs) = 0 => bs = <<>> /\ gprf = <<>> /\ kept = <<>>
      /\ Len(bs) # 0 => bs[1] = Full(gprf, kept, gpu, c0)
      /\ Len(bs) = 1 => bs = <<bs[1]>>
      /\ Len(bs) = 2 => bs[2] = Full(<<>>, <<>>, <<>>, c1) /\ bs = <<bs[1], bs[2]>>
  BY BatchesOf
<1>s. /\ Range(OnGpu(Full(gprf, kept, gpu, c0))) = Range(kept) \union Range(gprf) \union Range(gpu)
      /\ OnGpu(Full(<<>>, <<>>, <<>>, c1)) = <<>>
  BY ShapesOf
<1>11. 1 \in DOMAIN bs => BatchReady({}, on1, tok, bs[1])
  <2> HAVE 1 \in DOMAIN bs
  <2>1. PICK f : f = bs[1]
    OBVIOUS
  <2>2. f = Full(gprf, kept, gpu, c0)
    BY <1>b, <2>1
  <2>3. f.cprf = kept /\ f.cdec = c0
    BY <2>2 DEF Full
  <2>4. \A r \in Range(OnGpu(f)) : on1[r] = "gpu"
    BY <1>4, <1>s, <2>2 DEF PutBy
  <2>5. \A r \in Range(f.cdec) : on1[r] = "cpu"
    BY <1>4, <1>5, <2>3 DEF PutBy
  <2>6. \A r \in Range(f.cprf) : tok[r] = 0
    BY <1>7, <2>3
  <2>7. BatchReady({}, on1, tok, f)
    BY <2>4, <2>5, <2>6 DEF BatchReady
  <2>8. QED
    BY <2>1, <2>7
<1>12. 2 \in DOMAIN bs => /\ OnGpu(bs[2]) = <<>> /\ bs[2].cprf = <<>>
                          /\ \A r \in Range(bs[2].cdec) : on1[r] = "cpu"
  <2> HAVE 2 \in DOMAIN bs
  <2>1. PICK f : f = bs[2]
    OBVIOUS
  <2>2. f = Full(<<>>, <<>>, <<>>, c1)
    BY <1>b, <2>1
  <2>3. f.cprf = <<>> /\ f.cdec = c1
    BY <2>2 DEF Full
  <2>4. OnGpu(f) = <<>>
    BY <1>s, <2>2
  <2>5. \A r \in Range(f.cdec) : on1[r] = "cpu"
    BY <1>4, <1>5, <2>3 DEF PutBy
  <2>6. QED
    BY <2>1, <2>3, <2>4, <2>5
<1>13. PlanOK(Q, on, tok, bs, out, inn)
  BY <1>3, <1>9, <1>10, <1>11, <1>12 DEF PlanOK
<1>14. QED
  BY <1>1, <1>2, <1>13

(* The tables as the queues of d say they are.                             *)
LEMMA AfterFacts ==
  ASSUME QueuesOK,
         NEW Q, NEW gpu, NEW cpu, NEW gprf, NEW kept, NEW c0, NEW c1,
         Cast(Q, gpu, cpu, gprf, kept, c0, c1),
         NEW out, NEW inn, Rearranged(gpu, cpu, out, inn), out = <<>> \/ inn = <<>>,
         NEW bs, Decided(bs, gpu, gprf, kept, c0, c1), 1 \in DOMAIN bs
  PROVE  /\ OnAfter(Q, bs, out, inn, OnBefore(Q)) =
              [r \in Q |-> IF r \in Range(gpu) \union Range(gprf) THEN "gpu" ELSE "cpu"]
         /\ TokAfter(Q, bs, TokBefore(Q)) =
              [r \in Q |-> IF r \in Batched(bs, gpu, gprf, kept, c0, c1) THEN SeqLen(r) ELSE SeqLen(r) - 1]
<1>1. PICK on : on = OnBefore(Q)
  OBVIOUS
<1>2. PICK tok : tok = TokBefore(Q)
  OBVIOUS
<1>3. PICK on1 : on1 = Placed(Q, out, inn, on)
  OBVIOUS
<1>4. PutBy(on1, gpu, cpu, gprf, kept)
  BY <1>1, <1>3, PlacedFacts
<1>5. /\ Q = Started \union Range(gprf) \union Range(kept)
      /\ Started \intersect (Range(gprf) \union Range(kept)) = {}
      /\ Range(gprf) \intersect Range(kept) = {}
      /\ Range(c0) \subseteq Range(cpu) /\ Range(c1) \subseteq Range(cpu)
      /\ Range(gpu) \union Range(cpu) = Started
      /\ Range(gpu) \intersect Range(cpu) = {}
  BY DEF Cast
<1>b. /\ Len(bs) \in {0, 1, 2} /\ DOMAIN bs = 1 .. Len(bs)
      /\ Len(bs) = 0 => bs = <<>> /\ gprf = <<>> /\ kept = <<>>
      /\ Len(bs) # 0 => bs[1] = Full(gprf, kept, gpu, c0)
      /\ Len(bs) = 1 => bs = <<bs[1]>>
      /\ Len(bs) = 2 => bs[2] = Full(<<>>, <<>>, <<>>, c1) /\ bs = <<bs[1], bs[2]>>
  BY BatchesOf
<1>s. /\ Range(OnGpu(Full(gprf, kept, gpu, c0))) = Range(kept) \union Range(gprf) \union Range(gpu)
      /\ OnGpu(Full(<<>>, <<>>, <<>>, c1)) = <<>>
  BY ShapesOf
<1>6. PICK f : f = bs[1]
  OBVIOUS
<1>7. f = Full(gprf, kept, gpu, c0)
  BY <1>b, <1>6
<1>8. f.cprf = kept /\ f.cdec = c0
  BY <1>7 DEF Full
<1>9. Range(OnGpu(f)) = Range(kept) \union Range(gprf) \union Range(gpu)
  BY <1>s, <1>7
<1>10. OnAfter(Q, bs, out, inn, on) = [r \in Q |-> IF r \in Range(kept) THEN "cpu" ELSE on1[r]]
  BY <1>3, <1>6, <1>8 DEF OnAfter, Across, Other
<1>11. \A r \in Q : (IF r \in Range(kept) THEN "cpu" ELSE on1[r]) =
                    (IF r \in Range(gpu) \union Range(gprf) THEN "gpu" ELSE "cpu")
  BY <1>4, <1>5 DEF PutBy
<1>12. \A r \in Q : tok[r] = IF r \in Started THEN SeqLen(r) - 1 ELSE 0
  BY <1>2 DEF TokBefore
<1>13. PICK t1 : t1 = StoredBatch(Q, f, tok)
  OBVIOUS
<1>14. \A r \in Q : t1[r] = IF r \in Range(kept) \union Range(gprf) \union Range(gpu) \union Range(c0)
                            THEN SeqLen(r) ELSE tok[r]
  BY <1>8, <1>9, <1>13 DEF StoredBatch
<1>15. TokAfter(Q, bs, tok) =
         [r \in Q |-> IF r \in Batched(bs, gpu, gprf, kept, c0, c1) THEN SeqLen(r) ELSE SeqLen(r) - 1]
  <2>1. CASE Len(bs) = 1
    <3>1. TokAfter(Q, bs, tok) = t1
      BY <1>b, <1>6, <1>13, <2>1 DEF TokAfter
    <3>2. t1 = [r \in Q |-> IF r \in Range(kept) \union Range(gprf) \union Range(gpu) \union Range(c0)
                            THEN SeqLen(r) ELSE tok[r]]
      BY <1>8, <1>9, <1>13 DEF StoredBatch
    <3>3. Batched(bs, gpu, gprf, kept, c0, c1) =
            Range(gprf) \union Range(kept) \union Range(gpu) \union Range(c0)
      BY <2>1 DEF Batched
    <3>4. PICK B : B = Batched(bs, gpu, gprf, kept, c0, c1)
      OBVIOUS
    <3>5. B = Range(kept) \union Range(gprf) \union Range(gpu) \union Range(c0)
      BY <3>3, <3>4
    <3>6. \A r \in Q : r \notin B => tok[r] = SeqLen(r) - 1
      BY <1>5, <1>12, <3>5
    <3>7. QED
      BY <3>1, <3>2, <3>4, <3>5, <3>6
  <2>2. CASE Len(bs) = 2
    <3>0. PICK e : e = bs[2]
      OBVIOUS
    <3>1. e = Full(<<>>, <<>>, <<>>, c1)
      BY <1>b, <2>2, <3>0
    <3>2. e.cdec = c1
      BY <3>1 DEF Full
    <3>3. Range(OnGpu(e)) = {}
      BY <1>s, <3>1, ListEmpty
    <3>4. TokAfter(Q, bs, tok) = StoredBatch(Q, e, t1)
      BY <1>b, <1>6, <1>13, <2>2, <3>0 DEF TokAfter
    <3>5. StoredBatch(Q, e, t1) = [r \in Q |-> IF r \in Range(c1) THEN SeqLen(r) ELSE t1[r]]
      BY <3>2, <3>3 DEF StoredBatch
    <3>6. Batched(bs, gpu, gprf, kept, c0, c1) =
            Range(gprf) \union Range(kept) \union Range(gpu) \union Range(c0) \union Range(c1)
      BY <2>2 DEF Batched
    <3>7. PICK B : B = Batched(bs, gpu, gprf, kept, c0, c1)
      OBVIOUS
    <3>8. B = Range(gprf) \union Range(kept) \union Range(gpu) \union Range(c0) \union Range(c1)
      BY <3>6, <3>7
    <3>9. \A r \in Q : (IF r \in Range(c1) THEN SeqLen(r) ELSE t1[r]) =
                       (IF r \in B THEN SeqLen(r) ELSE SeqLen(r) - 1)
      BY <1>5, <1>12, <1>14, <3>8
    <3>10. QED
      BY <3>4, <3>5, <3>7, <3>9
  <2>3. Len(bs) # 0
    BY <1>b
  <2>4. QED
    BY <1>b, <2>1, <2>2, <2>3
<1>16. QED
  BY <1>1, <1>2, <1>10, <1>11, <1>15

\* The tables b of the running requests, once the batches of d are prepared.
Launched(d, ids, b) ==
  /\ d.launched <= Len(available_ids) /\ Gets(ids, d.launched)
  /\ 1 \in DOMAIN d.batches
  /\ Holds(b, {}, Running(d), ids,
           [r \in Running(d) |-> IF r \in Range(d.gpu) THEN "gpu" ELSE "cpu"],
           [r \in Running(d) |-> IF r \in Range(AllReqs(d.batches)) THEN SeqLen(r) ELSE SeqLen(r) - 1])

(* The decoding queues after a launch hold the requests that run then.       *)
LEMMA GpuQueueOf ==
  ASSUME QueuesOK, NEW d, NEW gpu, NEW cpu, NEW g, NEW c0, NEW c1, DecisionOK(d, gpu, cpu, g, c0, c1)
  PROVE  /\ List(d.gpu, Reqs) /\ List(d.cpu, Reqs)
         /\ Range(d.gpu) = Range(gpu) \union Range(Prefix(waiting_q, g))
         /\ Range(d.cpu) = Range(cpu) \union Range(SubSeq(waiting_q, g + 1, d.launched))
         /\ Range(d.gpu) \union Range(d.cpu) = Running(d)
         /\ Range(d.gpu) \intersect Range(d.cpu) = {}
<1>1. PICK gprf : gprf = Prefix(waiting_q, g)
  OBVIOUS
<1>2. PICK kept : kept = SubSeq(waiting_q, g + 1, d.launched)
  OBVIOUS
<1>3. PICK Q : Q = Running(d)
  OBVIOUS
<1>4. Cast(Q, gpu, cpu, gprf, kept, c0, c1)
  BY <1>1, <1>2, <1>3, CastOf
<1>5. /\ List(gpu, Reqs) /\ List(cpu, Reqs) /\ List(gprf, Reqs) /\ List(kept, Reqs)
      /\ Range(gpu) \intersect Range(cpu) = {}
      /\ Range(gprf) \intersect Range(kept) = {}
      /\ Range(gpu) \union Range(cpu) = Started
      /\ Started \intersect (Range(gprf) \union Range(kept)) = {}
      /\ Q = Started \union Range(gprf) \union Range(kept)
  BY <1>4 DEF Cast
<1>6. Range(gpu) \intersect Range(gprf) = {} /\ Range(cpu) \intersect Range(kept) = {}
  BY <1>5
<1>7. List(gpu \o gprf, Reqs) /\ Range(gpu \o gprf) = Range(gpu) \union Range(gprf)
  BY <1>5, <1>6, ListConcat
<1>8. List(cpu \o kept, Reqs) /\ Range(cpu \o kept) = Range(cpu) \union Range(kept)
  BY <1>5, <1>6, ListConcat
<1>9. PICK p : p = d.gpu
  OBVIOUS
<1>10. PICK q : q = d.cpu
  OBVIOUS
<1>11. p = gpu \o gprf /\ q = cpu \o kept
  BY <1>1, <1>2, <1>9, <1>10 DEF DecisionOK
<1>12. /\ List(p, Reqs) /\ List(q, Reqs)
       /\ Range(p) = Range(gpu) \union Range(gprf)
       /\ Range(q) = Range(cpu) \union Range(kept)
  BY <1>7, <1>8, <1>11
<1>13. Range(p) \union Range(q) = Q /\ Range(p) \intersect Range(q) = {}
  BY <1>5, <1>12
<1>14. QED
  BY <1>1, <1>2, <1>3, <1>9, <1>10, <1>12, <1>13

(* What prepare makes of a sound decision.                                   *)
LEMMA PreparedFacts ==
  ASSUME BlocksAssumption, SchedulerAssumption, TypeOK, QueuesOK, IdsOK, BlocksOK, Begun, InBatch = {},
         NEW d, NEW gpu, NEW cpu, NEW g, NEW c0, NEW c1, DecisionOK(d, gpu, cpu, g, c0, c1),
         NEW ids, ids = IdsAfter(d), NEW b, b = Prepared(d, ids)
  PROVE  b \in BlockState /\ (Fine(b) => Launched(d, ids, b))
<1> DEFINE seen == [i \in DOMAIN d.batches |->
                     [part \in DOMAIN NoReqs |-> Seen(ids, d.batches[i][part])]]
           cond == /\ d.launched <= Len(available_ids)
                   /\ \A r \in Range(AllReqs(d.batches)) : ids[r] # NoId
                   /\ Len(AllReqs(d.batches)) <= MaxBatch
                   /\ SumFunction([i \in DOMAIN d.batches |-> Width(d.batches[i])]) <= MaxTokens
<1>1. b = IF cond THEN Prepare(blk, seen, Seen(ids, d.out), Seen(ids, d.in)) ELSE Raise(blk, "assertion")
  BY Zenon DEF Prepared
<1>2. cond => d.launched <= Len(available_ids)
  OBVIOUS
<1>3. PICK bs : bs = d.batches
  OBVIOUS
<1>4. PICK out : out = d.out
  OBVIOUS
<1>5. PICK inn : inn = d.in
  OBVIOUS
<1>6. PICK n : n = d.launched
  OBVIOUS
<1>7. seen = SeenBatches(ids, bs)
  BY <1>3 DEF SeenBatches, SeenBatch
<1>8. n \in 0 .. Len(waiting_q) /\ g \in 0 .. n /\ Rearranged(gpu, cpu, out, inn)
  BY <1>4, <1>5, <1>6 DEF DecisionOK
<1>9. PICK gprf : gprf = Prefix(waiting_q, g)
  OBVIOUS
<1>10. PICK kept : kept = SubSeq(waiting_q, g + 1, n)
  OBVIOUS
<1>11. Decided(bs, gpu, gprf, kept, c0, c1)
  BY <1>3, <1>6, <1>9, <1>10 DEF DecisionOK
<1>12. PICK Q : Q = Running(d)
  OBVIOUS
<1>13. Cast(Q, gpu, cpu, gprf, kept, c0, c1)
  BY <1>6, <1>9, <1>10, <1>12, CastOf
<1>14. Q = Started \union Range(Prefix(waiting_q, n))
  BY <1>6, <1>12 DEF Running
<1> HIDE DEF seen, cond
<1>15. blk \in BlockState
  BY DEF TypeOK
<1>16. CASE ~cond
  <2>1. b = Raise(blk, "assertion")
    BY <1>1, <1>16
  <2>2. "assertion" \in Faults \ {"none"}
    BY DEF Faults
  <2>3. Raise(blk, "assertion") \in BlockState /\ Raise(blk, "assertion").fault # "none"
    BY <1>15, <2>2, RaiseTyped
  <2>4. QED
    BY <2>1, <2>3 DEF Fine
<1>17. CASE cond
  <2>1. b = Prepare(blk, SeenBatches(ids, bs), Seen(ids, out), Seen(ids, inn))
    BY <1>1, <1>4, <1>5, <1>7, <1>17
  <2>2. n <= Len(available_ids)
    BY <1>2, <1>6, <1>17
  <2>3. Gets(ids, n)
    <3>1. d.launched \in 0 .. Len(waiting_q)
      BY <1>6, <1>8
    <3>2. d.launched <= Len(available_ids) => Gets(IdsAfter(d), d.launched)
      BY <3>1, IdsAfterFacts
    <3>3. QED
      BY <1>6, <2>2, <3>2
  <2>4. Named(Q, ids)
    BY <1>8, <1>14, <2>2, <2>3, NamedAfter
  <2>5. Q \in SUBSET Reqs
    <3>1. Started \subseteq Reqs
      BY StartedFacts
    <3>2. Range(gprf) \subseteq Reqs /\ Range(kept) \subseteq Reqs
      BY <1>13, ListFacts DEF Cast
    <3>3. QED
      BY <1>13, <3>1, <3>2 DEF Cast
  <2>6. Sized(Q)
    BY <2>5, SizesOK
  <2>7. List(out, Q) /\ List(inn, Q)
    <3>1. List(out, Reqs) /\ List(inn, Reqs)
      BY <1>8 DEF Rearranged
    <3>2. Range(out) \subseteq Q /\ Range(inn) \subseteq Q
      BY <1>8, <1>14 DEF Rearranged, Started
    <3>3. QED
      BY <3>1, <3>2, ListWithin
  <2>8. /\ Len(bs) \in Nat /\ DOMAIN bs = 1 .. Len(bs)
        /\ \A i \in DOMAIN bs : BatchShape(Q, bs[i])
    <3>1. /\ Len(bs) \in {0, 1, 2} /\ DOMAIN bs = 1 .. Len(bs)
          /\ Len(bs) # 0 => bs[1] = Full(gprf, kept, gpu, c0)
          /\ Len(bs) = 2 => bs[2] = Full(<<>>, <<>>, <<>>, c1) /\ bs = <<bs[1], bs[2]>>
      BY <1>11, BatchesOf
    <3>2. BatchShape(Q, Full(gprf, kept, gpu, c0)) /\ BatchShape(Q, Full(<<>>, <<>>, <<>>, c1))
      BY <1>13, ShapesOf
    <3>3. \A i \in DOMAIN bs : BatchShape(Q, bs[i])
      <4> TAKE i \in DOMAIN bs
      <4>1. i = 1 \/ (i = 2 /\ Len(bs) = 2)
        BY <3>1
      <4>2. CASE i = 1
        <5>1. bs[i] = Full(gprf, kept, gpu, c0)
          BY <3>1, <4>2
        <5>2. QED
          BY <3>2, <5>1
      <4>3. CASE i = 2 /\ Len(bs) = 2
        <5>1. bs[i] = Full(<<>>, <<>>, <<>>, c1)
          BY <3>1, <4>3
        <5>2. QED
          BY <3>2, <5>1
      <4>4. QED
        BY <4>1, <4>2, <4>3
    <3>4. QED
      BY <3>1, <3>3
  <2>9. b \in BlockState
    BY <1>15, <2>1, <2>4, <2>6, <2>7, <2>8, PrepareTyped
  <2>10. ASSUME Fine(b)
         PROVE  Launched(d, ids, b)
    <3>1. PICK on : on = OnBefore(Q)
      OBVIOUS
    <3>2. PICK tok : tok = TokBefore(Q)
      OBVIOUS
    <3>3. Holds(blk, {}, Q, ids, on, tok)
      BY <1>8, <1>14, <2>2, <2>3, <3>1, <3>2, HoldsBefore
    <3>4. Planned(Q, on, tok, bs, out, inn)
      BY <1>8, <1>11, <1>13, <3>1, <3>2, PlanHolds
    <3>5. Fine(Prepare(blk, SeenBatches(ids, bs), Seen(ids, out), Seen(ids, inn)))
      BY <2>1, <2>10
    <3>6. /\ Holds(Prepare(blk, SeenBatches(ids, bs), Seen(ids, out), Seen(ids, inn)), {}, Q, ids,
                   OnAfter(Q, bs, out, inn, on), TokAfter(Q, bs, tok))
          /\ 1 \in DOMAIN bs
          /\ out = <<>> \/ inn = <<>>
      BY <2>4, <2>6, <2>7, <2>8, <3>3, <3>4, <3>5, PrepareHolds
    <3>7. /\ OnAfter(Q, bs, out, inn, on) =
               [r \in Q |-> IF r \in Range(gpu) \union Range(gprf) THEN "gpu" ELSE "cpu"]
          /\ TokAfter(Q, bs, tok) =
               [r \in Q |-> IF r \in Batched(bs, gpu, gprf, kept, c0, c1) THEN SeqLen(r) ELSE SeqLen(r) - 1]
      BY <1>8, <1>11, <1>13, <3>1, <3>2, <3>6, AfterFacts
    <3>8. Range(AllReqs(bs)) = Batched(bs, gpu, gprf, kept, c0, c1)
      BY <1>11, <1>13, ReqsOfDecision
    <3>9. Range(d.gpu) = Range(gpu) \union Range(gprf)
      BY <1>9, GpuQueueOf
    <3>10. QED
      BY <1>3, <1>6, <1>12, <2>1, <2>2, <2>3, <3>6, <3>7, <3>8, <3>9 DEF Launched
  <2>11. QED
    BY <2>9, <2>10
<1>18. QED
  BY <1>16, <1>17

\* What the worker has: requests that run; the others have their first token.
BatchOK ==
  /\ Len(batches) <= 2
  /\ List(AllReqs(batches), Reqs) /\ InBatch \subseteq Started
  /\ \A r \in Started \ InBatch : outputLen[r] >= 1

IInv == TypeOK /\ (Alive => QueuesOK /\ BatchOK /\ IdsOK /\ BlocksOK)

(* A list of one element.                                                    *)
LEMMA ListUnit ==
  ASSUME NEW X, NEW x \in X
  PROVE  List(<<x>>, X) /\ Range(<<x>>) = {x}
<1>1. <<x>> \in Seq(X) /\ Len(<<x>>) = 1 /\ <<x>>[1] = x
  OBVIOUS
<1>2. PICK q : q = <<x>>
  OBVIOUS
<1>3. q \in Seq(X) /\ Len(q) = 1 /\ q[1] = x
  BY <1>1, <1>2
<1>4. List(q, X)
  BY <1>3 DEF List
<1>5. Range(q) = {x}
  BY <1>3, <1>4, ListFacts
<1>6. QED
  BY <1>2, <1>4, <1>5

(* A list and a new element.                                                 *)
LEMMA ListAppend ==
  ASSUME NEW X, NEW q, List(q, X), NEW x \in X, x \notin Range(q)
  PROVE  List(Append(q, x), X) /\ Range(Append(q, x)) = Range(q) \union {x}
<1>1. PICK u : u = <<x>>
  OBVIOUS
<1>2. List(u, X) /\ Range(u) = {x}
  BY <1>1, ListUnit
<1>3. Range(q) \intersect Range(u) = {}
  BY <1>2
<1>4. List(q \o u, X) /\ Range(q \o u) = Range(q) \union Range(u)
  BY <1>2, <1>3, ListConcat
<1>5. q \in Seq(X)
  BY DEF List
<1>6. Append(q, x) = q \o u
  BY <1>1, <1>5
<1>7. QED
  BY <1>2, <1>4, <1>6

(* No batches, no requests.                                                  *)
LEMMA AllReqsNone == AllReqs(<<>>) = <<>> /\ Range(AllReqs(<<>>)) = {} /\ List(AllReqs(<<>>), Reqs)
<1>1. [i \in DOMAIN <<>> |-> ReqsOf(<<>>[i])] = <<>>
  OBVIOUS
<1>2. AllReqs(<<>>) = FlattenSeq(<<>>)
  BY <1>1 DEF AllReqs
<1>3. AllReqs(<<>>) = <<>>
  BY <1>2, FlattenNone
<1>4. QED
  BY <1>3, ListEmpty

\* What TypeOK says of a queue.
Listed(q) == Range(q) \subseteq Reqs /\ Cardinality(Range(q)) = Len(q)

(* A list of requests has TypeOK's type.                                     *)
LEMMA ListedOf ==
  ASSUME NEW q, List(q, Reqs)
  PROVE  Listed(q)
BY ListFacts, ListSize DEF Listed

(* The steps that touch neither the running requests nor their blocks.     *)
LEMMA OthersKeep ==
  ASSUME UNCHANGED <<gpu_decoding_q, cpu_decoding_q, available_ids, requestId, outputLen, blk, batches>>
  PROVE  /\ BatchOK /\ IdsOK /\ BlocksOK => BatchOK' /\ IdsOK' /\ BlocksOK'
         /\ Started' = Started
<1>1. Started' = Started /\ InBatch' = InBatch
  BY DEF Started, InBatch
<1>2. \A r : SeqLen(r)' = SeqLen(r)
  BY DEF SeqLen
<1>3. On' = On
  BY <1>1 DEF On
<1>4. Tok' = Tok
  BY <1>1, <1>2 DEF Tok
<1>5. BatchOK => BatchOK'
  BY <1>1 DEF BatchOK
<1>6. IdsOK => IdsOK'
  BY <1>1 DEF IdsOK
<1>7. BlocksOK => BlocksOK'
  <2>1. BlocksOK' <=> Holds(blk, {}, Started, requestId, On, Tok)
    BY <1>1, <1>3, <1>4 DEF BlocksOK, Holds
  <2>2. QED
    BY <2>1 DEF BlocksOK
<1>8. QED
  BY <1>1, <1>5, <1>6, <1>7

(* TypeOK after a step, once the queues are.                               *)
LEMMA TypesKeep ==
  ASSUME TypeOK, QueuesOK',
         UNCHANGED <<mode, available_ids, requestId, outputLen, blk, batches>>
  PROVE  TypeOK'
<1>1. /\ Listed(untokenized') /\ Listed(tokenizing') /\ Listed(waiting_q')
      /\ Listed(gpu_decoding_q') /\ Listed(cpu_decoding_q') /\ Listed(arrivals')
  BY ListedOf DEF QueuesOK
<1>2. QED
  BY <1>1 DEF TypeOK, Listed

\* A request that arrives.
LEMMA NewRequest ==
  ASSUME SchedulerAssumption, TypeOK, NEW r \in Reqs \ Known
  PROVE  /\ r \notin Range(untokenized) /\ r \notin Range(tokenizing) /\ r \notin Range(arrivals)
         /\ outputLen[r] < MaxOut[r]
<1>1. MaxOut[r] \in Nat /\ outputLen[r] \in 0 .. MaxOut[r]
  BY DEF SchedulerAssumption, TypeOK
<1>2. outputLen[r] # MaxOut[r]
  BY DEF Known, IsFinished
<1>3. outputLen[r] < MaxOut[r]
  BY <1>1, <1>2
<1>4. QED
  BY <1>3 DEF Known

(* Each action keeps the invariant: a string arrives.                        *)
LEMMA AddTextInv ==
  ASSUME BlocksAssumption, SchedulerAssumption, IInv, AddText
  PROVE  IInv'
<1>1. PICK r \in Text \ Known :
        /\ Alive
        /\ untokenized' = Append(untokenized, r)
        /\ UNCHANGED <<mode, tokenizing, arrivals, queues, available_ids, requestId, outputLen, blk, batches>>
  BY DEF AddText
<1>2. TypeOK /\ QueuesOK /\ BatchOK /\ IdsOK /\ BlocksOK
  BY <1>1 DEF IInv
<1>3. UNCHANGED <<waiting_q, gpu_decoding_q, cpu_decoding_q>>
  BY <1>1 DEF queues
<1>4. r \in Reqs
  BY <1>1 DEF SchedulerAssumption
<1>5. /\ r \notin Range(untokenized) /\ r \notin Range(tokenizing) /\ r \notin Range(arrivals)
      /\ outputLen[r] < MaxOut[r]
  BY <1>1, <1>2, <1>4, NewRequest
<1>6. List(untokenized', Reqs) /\ Range(untokenized') = Range(untokenized) \union {r}
  <2>1. List(untokenized, Reqs)
    BY <1>2 DEF QueuesOK
  <2>2. QED
    BY <1>1, <1>4, <1>5, <2>1, ListAppend
<1>7. BatchOK' /\ IdsOK' /\ BlocksOK' /\ Started' = Started
  BY <1>1, <1>2, <1>3, OthersKeep
<1>8. QueuesOK'
  BY <1>1, <1>2, <1>3, <1>5, <1>6, <1>7 DEF QueuesOK
<1>9. TypeOK'
  BY <1>1, <1>2, <1>8, TypesKeep
<1>10. QED
  BY <1>7, <1>8, <1>9 DEF IInv

(* A list of tokens arrives.                                                 *)
LEMMA AddTokensInv ==
  ASSUME BlocksAssumption, SchedulerAssumption, IInv, AddTokens
  PROVE  IInv'
<1>1. PICK r \in (Reqs \ Text) \ Known :
        /\ Alive
        /\ waiting_q' = waiting_q \o <<r>>
        /\ arrivals' = arrivals \o <<r>>
        /\ UNCHANGED <<mode, untokenized, tokenizing, gpu_decoding_q, cpu_decoding_q,
                       available_ids, requestId, outputLen, blk, batches>>
  BY DEF AddTokens, OnRequestsArrival
<1>2. TypeOK /\ QueuesOK /\ BatchOK /\ IdsOK /\ BlocksOK
  BY <1>1 DEF IInv
<1>4. r \in Reqs
  BY <1>1
<1>5. /\ r \notin Range(untokenized) /\ r \notin Range(tokenizing) /\ r \notin Range(arrivals)
      /\ outputLen[r] < MaxOut[r]
  BY <1>1, <1>2, <1>4, NewRequest
<1>6. PICK u : u = <<r>>
  OBVIOUS
<1>7. List(u, Reqs) /\ Range(u) = {r}
  BY <1>4, <1>6, ListUnit
<1>8. List(waiting_q', Reqs) /\ Range(waiting_q') = Range(waiting_q) \union {r}
  <2>1. List(waiting_q, Reqs) /\ Range(waiting_q) \intersect Range(u) = {}
    BY <1>2, <1>5, <1>7 DEF QueuesOK
  <2>2. List(waiting_q \o u, Reqs) /\ Range(waiting_q \o u) = Range(waiting_q) \union Range(u)
    BY <1>7, <2>1, ListConcat
  <2>3. QED
    BY <1>1, <1>6, <1>7, <2>2
<1>9. List(arrivals', Reqs) /\ Range(arrivals') = Range(arrivals) \union {r}
  <2>1. List(arrivals, Reqs) /\ Range(arrivals) \intersect Range(u) = {}
    BY <1>2, <1>5, <1>7 DEF QueuesOK
  <2>2. List(arrivals \o u, Reqs) /\ Range(arrivals \o u) = Range(arrivals) \union Range(u)
    BY <1>7, <2>1, ListConcat
  <2>3. QED
    BY <1>1, <1>6, <1>7, <2>2
<1>10. BatchOK' /\ IdsOK' /\ BlocksOK' /\ Started' = Started
  BY <1>1, <1>2, OthersKeep
<1>11. QueuesOK'
  <2>1. r \notin Range(gpu_decoding_q) /\ r \notin Range(cpu_decoding_q)
    BY <1>2, <1>5 DEF QueuesOK, Started
  <2>2. QED
    BY <1>1, <1>2, <1>5, <1>8, <1>9, <1>10, <2>1 DEF QueuesOK
<1>12. TypeOK'
  BY <1>1, <1>2, <1>11, TypesKeep
<1>13. QED
  BY <1>10, <1>11, <1>12 DEF IInv

(* The tokenizing loop takes the strings.                                    *)
LEMMA TokenizeStartInv ==
  ASSUME BlocksAssumption, SchedulerAssumption, IInv, TokenizeStart
  PROVE  IInv'
<1>1. /\ Alive /\ tokenizing = <<>>
      /\ tokenizing' = untokenized
      /\ untokenized' = <<>>
      /\ UNCHANGED <<mode, arrivals, waiting_q, gpu_decoding_q, cpu_decoding_q,
                     available_ids, requestId, outputLen, blk, batches>>
  BY DEF TokenizeStart, queues
<1>2. TypeOK /\ QueuesOK /\ BatchOK /\ IdsOK /\ BlocksOK
  BY <1>1 DEF IInv
<1>3. List(untokenized', Reqs) /\ Range(untokenized') = {}
  BY <1>1, ListEmpty
<1>4. BatchOK' /\ IdsOK' /\ BlocksOK' /\ Started' = Started
  BY <1>1, <1>2, OthersKeep
<1>5. QueuesOK'
  BY <1>1, <1>2, <1>3, <1>4 DEF QueuesOK
<1>6. TypeOK'
  BY <1>1, <1>2, <1>5, TypesKeep
<1>7. QED
  BY <1>4, <1>5, <1>6 DEF IInv

(* It hands them over.                                                       *)
LEMMA TokenizeEndInv ==
  ASSUME BlocksAssumption, SchedulerAssumption, IInv, TokenizeEnd
  PROVE  IInv'
<1>1. /\ Alive
      /\ waiting_q' = waiting_q \o tokenizing
      /\ arrivals' = arrivals \o tokenizing
      /\ tokenizing' = <<>>
      /\ UNCHANGED <<mode, untokenized, gpu_decoding_q, cpu_decoding_q,
                     available_ids, requestId, outputLen, blk, batches>>
  BY DEF TokenizeEnd, OnRequestsArrival
<1>2. TypeOK /\ QueuesOK /\ BatchOK /\ IdsOK /\ BlocksOK
  BY <1>1 DEF IInv
<1>3. List(tokenizing', Reqs) /\ Range(tokenizing') = {}
  BY <1>1, ListEmpty
<1>4. List(tokenizing, Reqs) /\ Range(tokenizing) \intersect Range(arrivals) = {}
  BY <1>2 DEF QueuesOK
<1>5. List(waiting_q', Reqs) /\ Range(waiting_q') = Range(waiting_q) \union Range(tokenizing)
  <2>1. List(waiting_q, Reqs) /\ Range(waiting_q) \intersect Range(tokenizing) = {}
    BY <1>2 DEF QueuesOK
  <2>2. QED
    BY <1>1, <1>4, <2>1, ListConcat
<1>6. List(arrivals', Reqs) /\ Range(arrivals') = Range(arrivals) \union Range(tokenizing)
  <2>1. List(arrivals, Reqs) /\ Range(arrivals) \intersect Range(tokenizing) = {}
    BY <1>2 DEF QueuesOK
  <2>2. QED
    BY <1>1, <1>4, <2>1, ListConcat
<1>7. BatchOK' /\ IdsOK' /\ BlocksOK' /\ Started' = Started
  BY <1>1, <1>2, OthersKeep
<1>8. QueuesOK'
  <2>1. Range(tokenizing) \intersect Started = {}
    BY <1>2 DEF QueuesOK
  <2>2. QED
    BY <1>1, <1>2, <1>3, <1>5, <1>6, <1>7, <2>1 DEF QueuesOK, Started
<1>9. TypeOK'
  BY <1>1, <1>2, <1>8, TypesKeep
<1>10. QED
  BY <1>7, <1>8, <1>9 DEF IInv

(* A sound decision is launched, or prepare raises and the server is dead.   *)
LEMMA LaunchInv ==
  ASSUME BlocksAssumption, SchedulerAssumption, IInv, Alive, batches = <<>>,
         NEW d, Sound(d), Launch(d)
  PROVE  IInv'
<1>1. PICK gpu, cpu, g, c0, c1 : DecisionOK(d, gpu, cpu, g, c0, c1)
  BY DEF Sound
<1>2. TypeOK /\ QueuesOK /\ BatchOK /\ IdsOK /\ BlocksOK
  BY DEF IInv
<1>3. InBatch = {}
  BY AllReqsNone DEF InBatch
<1>4. Begun
  BY <1>2, <1>3 DEF BatchOK, Begun
<1>5. PICK ids : ids = IdsAfter(d)
  OBVIOUS
<1>6. PICK b : b = Prepared(d, ids)
  OBVIOUS
<1>7. /\ requestId' = ids /\ blk' = b
      /\ available_ids' = Rest(available_ids, d.launched)
      /\ waiting_q' = Rest(waiting_q, d.launched)
      /\ gpu_decoding_q' = d.gpu /\ cpu_decoding_q' = d.cpu
      /\ batches' = d.batches
      /\ UNCHANGED <<mode, untokenized, tokenizing, arrivals, outputLen>>
  BY <1>5, <1>6 DEF Launch, arriving
<1>8. b \in BlockState /\ (Fine(b) => Launched(d, ids, b))
  BY <1>1, <1>2, <1>3, <1>4, <1>5, <1>6, PreparedFacts
<1>9. PICK n : n = d.launched
  OBVIOUS
<1>10. n \in 0 .. Len(waiting_q)
  BY <1>1, <1>9 DEF DecisionOK
<1>11. ids \in [Reqs -> Ids \union {NoId}]
  BY <1>2, <1>5, <1>9, <1>10, IdsAfterFacts
<1>12. /\ List(d.gpu, Reqs) /\ List(d.cpu, Reqs)
       /\ Range(d.gpu) \union Range(d.cpu) = Running(d)
       /\ Range(d.gpu) \intersect Range(d.cpu) = {}
  BY <1>1, <1>2, GpuQueueOf
<1>13. PICK W : W = waiting_q
  OBVIOUS
<1>14. List(W, Reqs) /\ n \in 0 .. Len(W)
  BY <1>2, <1>10, <1>13 DEF QueuesOK
<1>15. /\ List(Rest(W, n), Reqs)
       /\ Range(Prefix(W, n)) \union Range(Rest(W, n)) = Range(W)
       /\ Range(Prefix(W, n)) \intersect Range(Rest(W, n)) = {}
       /\ \A x : x \in Range(Prefix(W, n)) <=> \E i \in 1 .. n : W[i] = x
  BY <1>14, ListCut
<1>16. Running(d) = Started \union Range(Prefix(W, n))
  BY <1>9, <1>13 DEF Running
<1>17. Started' = Running(d)
  BY <1>7, <1>12 DEF Started
<1>18. Started \subseteq Reqs /\ Range(W) \subseteq Reqs /\ Started \intersect Range(W) = {}
  BY <1>2, <1>13, StartedFacts
<1>19. QueuesOK'
  <2>1. /\ List(waiting_q', Reqs) /\ List(gpu_decoding_q', Reqs) /\ List(cpu_decoding_q', Reqs)
        /\ List(untokenized', Reqs) /\ List(tokenizing', Reqs) /\ List(arrivals', Reqs)
    BY <1>2, <1>7, <1>9, <1>12, <1>13, <1>15 DEF QueuesOK
  <2>2. Range(gpu_decoding_q') \intersect Range(cpu_decoding_q') = {}
    BY <1>7, <1>12
  <2>3. Range(waiting_q') \intersect Started' = {}
    BY <1>7, <1>9, <1>13, <1>15, <1>16, <1>17, <1>18
  <2>4. Range(waiting_q') \union Started' \subseteq Range(arrivals')
    BY <1>2, <1>7, <1>9, <1>13, <1>15, <1>16, <1>17 DEF QueuesOK
  <2>5. /\ Range(waiting_q') \intersect Range(gpu_decoding_q') = {}
        /\ Range(waiting_q') \intersect Range(cpu_decoding_q') = {}
    BY <2>3 DEF Started
  <2>6. \A r \in Range(untokenized') \union Range(tokenizing') \union Range(arrivals') :
          outputLen'[r] < MaxOut[r]
    BY <1>2, <1>7 DEF QueuesOK
  <2>7. /\ Range(untokenized') \intersect Range(tokenizing') = {}
        /\ Range(untokenized') \intersect Range(arrivals') = {}
        /\ Range(tokenizing') \intersect Range(arrivals') = {}
    BY <1>2, <1>7 DEF QueuesOK
  <2>8. QED
    BY <2>1, <2>2, <2>4, <2>5, <2>6, <2>7 DEF QueuesOK
<1>20. PICK bs : bs = d.batches
  OBVIOUS
<1>21. PICK gprf : gprf = Prefix(waiting_q, g)
  OBVIOUS
<1>22. PICK kept : kept = SubSeq(waiting_q, g + 1, n)
  OBVIOUS
<1>23. Decided(bs, gpu, gprf, kept, c0, c1)
  BY <1>1, <1>9, <1>20, <1>21, <1>22 DEF DecisionOK
<1>24. Cast(Running(d), gpu, cpu, gprf, kept, c0, c1)
  BY <1>1, <1>2, <1>9, <1>21, <1>22, CastOf
<1>25. Len(bs) \in {0, 1, 2} /\ DOMAIN bs = 1 .. Len(bs)
  BY <1>23, BatchesOf
<1>l. Len(batches') <= 2
  <2>1. Len(bs) <= 2
    BY <1>25
  <2>2. batches' = bs
    BY <1>7, <1>20
  <2>3. QED
    BY <2>1, <2>2
<1>26. PICK A : A = available_ids
  OBVIOUS
<1>27. List(A, Ids)
  BY <1>2, <1>26 DEF IdsOK
<1>28. PICK m \in Nat : m = Len(A)
  BY <1>27, ListFacts
<1>29. available_ids' = SubSeq(A, n + 1, m)
  BY <1>7, <1>9, <1>26, <1>28 DEF Rest
<1>30. Range(available_ids') \subseteq Ids
  <2>1. A \in Seq(Ids) /\ n + 1 \in Nat /\ n + 1 >= 1
    BY <1>14, <1>27 DEF List
  <2>2. PICK k \in Nat : k = n + 1 /\ k >= 1
    BY <2>1
  <2>3. SubSeq(A, k, m) \in Seq(Ids)
    BY <1>28, <2>1, <2>2
  <2>4. Range(SubSeq(A, k, m)) \subseteq Ids
    BY <2>3, RangeOfSeq
  <2>5. QED
    BY <1>29, <2>2, <2>4
<1>31. TypeOK'
  <2>1. /\ Listed(untokenized') /\ Listed(tokenizing') /\ Listed(waiting_q')
        /\ Listed(gpu_decoding_q') /\ Listed(cpu_decoding_q') /\ Listed(arrivals')
    BY <1>19, ListedOf DEF QueuesOK
  <2>2. mode' \in Modes /\ \A r \in Reqs : outputLen'[r] \in 0 .. MaxOut[r]
    BY <1>2, <1>7 DEF TypeOK
  <2>3. requestId' \in [Reqs -> Ids \union {NoId}] /\ blk' \in BlockState
    BY <1>7, <1>8, <1>11
  <2>4. Len(batches') <= 2
    BY <1>l
  <2>5. QED
    BY <1>30, <2>1, <2>2, <2>3, <2>4 DEF TypeOK, Listed
<1>32. ASSUME Fine(b)
       PROVE  BatchOK' /\ IdsOK' /\ BlocksOK'
  <2>1. Launched(d, ids, b)
    BY <1>8, <1>32
  <2>2. n <= m /\ Gets(ids, n) /\ 1 \in DOMAIN bs
    BY <1>9, <1>20, <1>26, <1>28, <2>1 DEF Launched
  <2>3. List(AllReqs(bs), Reqs) /\ Range(AllReqs(bs)) = Batched(bs, gpu, gprf, kept, c0, c1)
    BY <1>23, <1>24, ReqsOfDecision
  <2>4. PICK B : B = Batched(bs, gpu, gprf, kept, c0, c1)
    OBVIOUS
  <2>5. Range(gprf) \union Range(kept) \subseteq B /\ B \subseteq Running(d)
    <3>1. /\ Range(gpu) \subseteq Started /\ Range(c0) \subseteq Started /\ Range(c1) \subseteq Started
          /\ Running(d) = Started \union Range(gprf) \union Range(kept)
      BY <1>24 DEF Cast
    <3>2. Len(bs) = 1 \/ Len(bs) = 2
      BY <1>25, <2>2
    <3>3. \/ B = Range(gprf) \union Range(kept) \union Range(gpu) \union Range(c0)
          \/ B = Range(gprf) \union Range(kept) \union Range(gpu) \union Range(c0) \union Range(c1)
      <4>1. CASE Len(bs) = 1
        BY <2>4, <4>1 DEF Batched
      <4>2. CASE Len(bs) = 2
        BY <2>4, <4>2 DEF Batched
      <4>3. QED
        BY <3>2, <4>1, <4>2
    <3>4. QED
      BY <3>1, <3>3
  <2>6. InBatch' = B
    BY <1>7, <1>20, <2>3, <2>4 DEF InBatch
  <2>7. BatchOK'
    <3>1. Len(batches') <= 2
      BY <1>l
    <3>2. List(AllReqs(batches'), Reqs)
      BY <1>7, <1>20, <2>3
    <3>3. InBatch' \subseteq Started'
      BY <1>17, <2>5, <2>6
    <3>4. \A r \in Started' \ InBatch' : outputLen'[r] >= 1
      <4>1. Started' \ InBatch' \subseteq Started
        BY <1>17, <1>24, <2>5, <2>6 DEF Cast
      <4>2. QED
        BY <1>4, <1>7, <4>1 DEF Begun
    <3>5. QED
      BY <3>1, <3>2, <3>3, <3>4 DEF BatchOK
  <2>8. PICK P : P = Range(Prefix(W, n))
    OBVIOUS
  <2>9. /\ Named(Started \union P, ids)
        /\ \A r \in Started : ids[r] = requestId[r]
        /\ Fresh(ids, n)
    <3>1. n <= Len(available_ids)
      BY <1>26, <1>28, <2>2
    <3>2. QED
      BY <1>2, <1>10, <1>13, <2>2, <2>8, <3>1, NamedAfter
  <2>10. \A r \in P : \E i \in 1 .. n : r = W[i] /\ ids[r] = A[i]
    BY <1>13, <1>26, <2>8, <2>9 DEF Fresh
  <2>11. IdsOK'
    <3>1. n \in 0 .. Len(A)
      BY <1>14, <1>28, <2>2
    <3>2. /\ List(Rest(A, n), Ids)
          /\ Range(Prefix(A, n)) \union Range(Rest(A, n)) = Range(A)
          /\ Range(Prefix(A, n)) \intersect Range(Rest(A, n)) = {}
          /\ \A x : x \in Range(Prefix(A, n)) <=> \E i \in 1 .. n : A[i] = x
      BY <1>27, <3>1, ListCut
    <3>3. PICK R : R = Range(Rest(A, n))
      OBVIOUS
    <3>4. Range(available_ids') = R /\ List(available_ids', Ids)
      BY <1>7, <1>9, <1>26, <3>2, <3>3
    <3>5. \A r \in Started \union P : ids[r] \in Ids
      BY <2>9 DEF Named
    <3>6. \A r1, r2 \in Started \union P : ids[r1] = ids[r2] => r1 = r2
      BY <2>9 DEF Named
    <3>7. \A r \in Started : ids[r] \notin Range(A)
      BY <1>2, <1>26, <2>9 DEF IdsOK
    <3>8. R \subseteq Range(A)
      BY <3>2, <3>3
    <3>9. \A r \in P : ids[r] \notin R
      <4> TAKE r \in P
      <4>1. PICK i \in 1 .. n : ids[r] = A[i]
        BY <2>10
      <4>2. A[i] \in Range(Prefix(A, n))
        BY <3>2
      <4>3. QED
        BY <3>2, <3>3, <4>1, <4>2
    <3>10. \A r \in Started \union P : ids[r] \notin R
      BY <3>7, <3>8, <3>9
    <3>11. \A id \in Ids : id \in R \/ \E r \in Started \union P : ids[r] = id
      <4> TAKE id \in Ids
      <4>1. id \in Range(A) \/ \E r \in Started : requestId[r] = id
        BY <1>2, <1>26 DEF IdsOK
      <4>2. CASE \E r \in Started : requestId[r] = id
        BY <2>9, <4>2
      <4>3. CASE id \in Range(Prefix(A, n))
        <5>1. PICK i \in 1 .. n : A[i] = id
          BY <3>2, <4>3
        <5>2. W[i] \in P
          BY <1>15, <2>8, <5>1
        <5>3. ids[W[i]] = A[i]
          BY <1>13, <1>26, <2>2, <5>1 DEF Gets
        <5>4. QED
          BY <5>1, <5>2, <5>3
      <4>4. CASE id \in R
        BY <4>4
      <4>5. QED
        BY <3>2, <3>3, <4>1, <4>2, <4>3, <4>4
    <3>12. Started' = Started \union P
      BY <1>16, <1>17, <2>8
    <3>13. PICK S : S = Started \union P
      OBVIOUS
    <3>14. /\ \A r \in S : ids[r] \in Ids \ R
           /\ \A r1, r2 \in S : ids[r1] = ids[r2] => r1 = r2
           /\ \A id \in Ids : id \in R \/ \E r \in S : ids[r] = id
      BY <3>5, <3>6, <3>10, <3>11, <3>13
    <3>15. Started' = S /\ requestId' = ids
      BY <1>7, <3>12, <3>13
    <3>16. QED
      BY <3>4, <3>14, <3>15 DEF IdsOK
  <2>12. BlocksOK'
    <3>1. Holds(b, {}, Running(d), ids,
             [r \in Running(d) |-> IF r \in Range(d.gpu) THEN "gpu" ELSE "cpu"],
             [r \in Running(d) |-> IF r \in Range(AllReqs(d.batches)) THEN SeqLen(r) ELSE SeqLen(r) - 1])
      BY <2>1 DEF Launched
    <3>2. On' = [r \in Running(d) |-> IF r \in Range(d.gpu) THEN "gpu" ELSE "cpu"]
      BY <1>7, <1>17 DEF On
    <3>3. InBatch' = Range(AllReqs(d.batches))
      BY <1>7 DEF InBatch
    <3>4. \A r : SeqLen(r)' = SeqLen(r)
      BY <1>7 DEF SeqLen
    <3>5. Tok' = [r \in Running(d) |-> IF r \in Range(AllReqs(d.batches)) THEN SeqLen(r) ELSE SeqLen(r) - 1]
      BY <1>17, <3>3, <3>4 DEF Tok
    <3>6. BlocksOK' <=> Holds(blk', {}, Started', requestId', On', Tok')
      BY DEF BlocksOK, Holds
    <3>7. QED
      BY <1>7, <1>17, <3>1, <3>2, <3>5, <3>6
  <2>13. QED
    BY <2>7, <2>11, <2>12
<1>33. Alive' => Fine(b)
  BY <1>7 DEF Alive, Fine
<1>34. QED
  BY <1>19, <1>31, <1>32, <1>33 DEF IInv

(* Either policy decides.                                                    *)
LEMMA ScheduleInv ==
  ASSUME BlocksAssumption, SchedulerAssumption, IInv, Schedule
  PROVE  IInv'
<1>1. Alive /\ batches = <<>>
  BY DEF Schedule
<1>2. QueuesOK
  BY <1>1 DEF IInv
<1>3. \/ \E d \in NextBatchNew : Launch(d)
      \/ Launch(NextBatchOld)
  BY DEF Schedule
<1>4. CASE \E d \in NextBatchNew : Launch(d)
  <2>1. PICK d \in NextBatchNew : Launch(d)
    BY <1>4
  <2>2. Sound(d)
    BY <1>2, <2>1, NewSound
  <2>3. QED
    BY <1>1, <2>1, <2>2, LaunchInv
<1>5. CASE Launch(NextBatchOld)
  <2>1. PICK d : d = NextBatchOld
    OBVIOUS
  <2>2. Sound(d) /\ Launch(d)
    BY <1>2, <1>5, <2>1, OldSound
  <2>3. QED
    BY <1>1, <2>2, LaunchInv
<1>6. QED
  BY <1>3, <1>4, <1>5

-------------------------------------------------------------------------------
\* The worker's answer.

\* The elements of q that are in F.
Those(q, F) == Pick(q, {i \in DOMAIN q : q[i] \in F})

(* A list's elements that are in a set, in their order, are a list.        *)
LEMMA ThoseFacts ==
  ASSUME NEW X, NEW q, List(q, X), NEW F
  PROVE  /\ List(Those(q, F), X)
         /\ \A x : x \in Range(Those(q, F)) <=> x \in Range(q) /\ x \in F
<1>1. /\ DOMAIN q = 1 .. Len(q)
      /\ \A x : x \in Range(q) <=> \E i \in 1 .. Len(q) : q[i] = x
  BY ListFacts
<1>2. PICK idx : idx = {i \in DOMAIN q : q[i] \in F}
  OBVIOUS
<1>3. idx \in SUBSET (1 .. Len(q))
  BY <1>1, <1>2
<1>4. /\ List(Pick(q, idx), X)
      /\ \A x : x \in Range(Pick(q, idx)) <=> \E i \in idx : q[i] = x
  BY <1>3, PickList
<1>5. Those(q, F) = Pick(q, idx)
  BY <1>2 DEF Those
<1>6. \A x : (\E i \in idx : q[i] = x) <=> x \in Range(q) /\ x \in F
  BY <1>1, <1>2
<1>7. QED
  BY <1>4, <1>5, <1>6

\* b2 is b without the rows of reqs.
Freed(b, reqs, b2) ==
  /\ b2 \in BlockState /\ b2.fault = "none" /\ b2.copies = b.copies /\ Parted(b2, {})
  /\ \A d \in Devices, id \in Ids :
       b2.table[d][id] = IF id \in TheIds(reqs) THEN {} ELSE b.table[d][id]

(* Finished requests give back their rows on both devices.                 *)
LEMMA FreedFacts ==
  ASSUME NEW b \in BlockState, b.fault = "none", Parted(b, {}), NEW reqs, Told(reqs)
  PROVE  Freed(b, reqs, FreeBlocksOfRequests(b, reqs))
<1>1. 0 \in Splits /\ "gpu" \in Devices /\ "cpu" \in Devices
  BY DEF Splits, Devices
<1>2. PICK b1 : b1 = Free(b, "gpu", reqs, 0)
  OBVIOUS
<1>3. PICK b2 : b2 = Free(b1, "cpu", reqs, 0)
  OBVIOUS
<1>4. \A dev, id : SplitFor({}, dev, id) = 0
  BY DEF SplitFor
<1>5. \A dev : Without({}, dev, reqs) = {}
  BY DEF Without
<1>6. {} \in SUBSET Ids
  OBVIOUS
<1>7. b1 \in BlockState /\ b1.fault = b.fault /\ b1.copies = b.copies
  BY <1>1, <1>2, FreeTyped
<1>8. Parted(b1, {}) /\ Emptied(b, "gpu", reqs, b1)
  BY <1>1, <1>2, <1>4, <1>5, <1>6, FreeLemma
<1>9. b2 \in BlockState /\ b2.fault = b1.fault /\ b2.copies = b1.copies
  BY <1>1, <1>3, <1>7, FreeTyped
<1>10. b1.fault = "none"
  BY <1>7
<1>11. Parted(b2, {}) /\ Emptied(b1, "cpu", reqs, b2)
  BY <1>1, <1>3, <1>4, <1>5, <1>6, <1>7, <1>8, <1>10, FreeLemma
<1>12. \A d \in Devices, id \in Ids :
         b2.table[d][id] = IF id \in TheIds(reqs) THEN {} ELSE b.table[d][id]
  <2> TAKE d \in Devices, id \in Ids
  <2>1. d = "gpu" \/ d = "cpu"
    BY DEF Devices
  <2>2. id \in TheIds(reqs) <=> \E i \in DOMAIN reqs : reqs[i].id = id
    BY DEF TheIds
  <2>3. b1.table[d][id] = IF d = "gpu" /\ id \in TheIds(reqs) THEN {} ELSE b.table[d][id]
    BY <1>8, <2>2 DEF Emptied
  <2>4. b2.table[d][id] = IF d = "cpu" /\ id \in TheIds(reqs) THEN {} ELSE b1.table[d][id]
    BY <1>11, <2>2 DEF Emptied
  <2>5. QED
    BY <2>1, <2>3, <2>4
<1>13. FreeBlocksOfRequests(b, reqs) = b2
  BY <1>2, <1>3 DEF FreeBlocksOfRequests
<1>14. QED
  BY <1>7, <1>9, <1>11, <1>12, <1>13 DEF Freed

(* The ids of running requests are a list.                                 *)
LEMMA IdsBack ==
  ASSUME IdsOK, NEW fin, List(fin, Reqs), Range(fin) \subseteq Started
  PROVE  /\ List(IdsOf(fin), Ids)
         /\ \A id : id \in Range(IdsOf(fin)) <=> \E r \in Range(fin) : requestId[r] = id
<1>1. /\ Len(fin) \in Nat /\ DOMAIN fin = 1 .. Len(fin)
      /\ \A x : x \in Range(fin) <=> \E i \in 1 .. Len(fin) : fin[i] = x
  BY ListFacts
<1>2. PICK n \in Nat : n = Len(fin)
  BY <1>1
<1>3. PICK t : t = IdsOf(fin)
  OBVIOUS
<1>4. t = [i \in 1 .. n |-> requestId[fin[i]]]
  BY <1>1, <1>2, <1>3 DEF IdsOf
<1>5. \A i \in 1 .. n : fin[i] \in Started
  BY <1>1, <1>2
<1>6. \A i \in 1 .. n : t[i] = requestId[fin[i]] /\ t[i] \in Ids
  BY <1>4, <1>5 DEF IdsOK
<1>7. t \in [1 .. n -> Ids]
  BY <1>4, <1>6
<1>8. t \in Seq(Ids) /\ Len(t) = n
  BY <1>2, <1>7
<1>9. \A i, j \in 1 .. n : t[i] = t[j] => i = j
  <2> SUFFICES ASSUME NEW i \in 1 .. n, NEW j \in 1 .. n, t[i] = t[j]
               PROVE  i = j
    OBVIOUS
  <2>1. fin[i] = fin[j]
    BY <1>5, <1>6 DEF IdsOK
  <2>2. QED
    BY <1>2, <2>1 DEF List
<1>10. List(t, Ids)
  BY <1>8, <1>9 DEF List
<1>11. \A id : id \in Range(t) <=> \E i \in 1 .. n : t[i] = id
  BY <1>8, <1>10, ListFacts
<1>12. \A id : id \in Range(t) <=> \E r \in Range(fin) : requestId[r] = id
  BY <1>1, <1>2, <1>6, <1>11
<1>13. QED
  BY <1>3, <1>10, <1>12

\* The requests of the batches that get their last token.
Done == {r \in InBatch : Finishes(r)}

(* What UpdateAndFree does to the queues, with the finished requests.      *)
LEMMA UpdateFacts ==
  ASSUME QueuesOK, BatchOK, UpdateAndFree
  PROVE  \E fin :
           /\ List(fin, Reqs) /\ Range(fin) = Done
           /\ outputLen' = [r \in Reqs |-> IF r \in InBatch THEN outputLen[r] + 1 ELSE outputLen[r]]
           /\ blk' = FreeBlocksOfRequests(blk, Seen(requestId, fin))
           /\ gpu_decoding_q' = Those(gpu_decoding_q, Range(gpu_decoding_q) \ Done)
           /\ cpu_decoding_q' = Those(cpu_decoding_q, Range(cpu_decoding_q) \ Done)
           /\ available_ids' = available_ids \o IdsOf(fin)
           /\ batches' = <<>>
           /\ arrivals' = Those(arrivals, Range(arrivals) \ Done)
           /\ UNCHANGED <<mode, untokenized, tokenizing, waiting_q, requestId>>
<1>1. PICK all : all = AllReqs(batches)
  OBVIOUS
<1>2. List(all, Reqs) /\ Range(all) = InBatch
  BY <1>1 DEF BatchOK, InBatch
<1>3. /\ DOMAIN all = 1 .. Len(all)
      /\ \A x : x \in Range(all) <=> \E i \in 1 .. Len(all) : all[i] = x
  BY <1>2, ListFacts
<1>4. PICK fin : fin = Pick(all, {i \in DOMAIN all : Finishes(all[i])})
  OBVIOUS
<1>5. {i \in DOMAIN all : Finishes(all[i])} = {i \in DOMAIN all : all[i] \in Done}
  BY <1>2, <1>3 DEF Done
<1>6. fin = Those(all, Done)
  BY <1>4, <1>5 DEF Those
<1>7. List(fin, Reqs) /\ \A x : x \in Range(fin) <=> x \in Range(all) /\ x \in Done
  BY <1>2, <1>6, ThoseFacts
<1>8. Range(fin) = Done
  BY <1>2, <1>7 DEF Done
<1>9. ASSUME NEW q, List(q, Reqs)
      PROVE  Pick(q, {i \in DOMAIN q : q[i] \notin Range(fin)}) = Those(q, Range(q) \ Done)
  <2>1. /\ DOMAIN q = 1 .. Len(q)
        /\ \A x : x \in Range(q) <=> \E i \in 1 .. Len(q) : q[i] = x
    BY <1>9, ListFacts
  <2>2. {i \in DOMAIN q : q[i] \notin Range(fin)} = {i \in DOMAIN q : q[i] \in Range(q) \ Done}
    BY <1>8, <2>1
  <2>3. QED
    BY <2>2 DEF Those
<1>10. /\ outputLen' = [r \in Reqs |-> IF r \in Range(all) THEN outputLen[r] + 1 ELSE outputLen[r]]
       /\ blk' = FreeBlocksOfRequests(blk, Seen(requestId, fin))
       /\ gpu_decoding_q' = Pick(gpu_decoding_q, {i \in DOMAIN gpu_decoding_q : gpu_decoding_q[i] \notin Range(fin)})
       /\ cpu_decoding_q' = Pick(cpu_decoding_q, {i \in DOMAIN cpu_decoding_q : cpu_decoding_q[i] \notin Range(fin)})
       /\ available_ids' = available_ids \o IdsOf(fin)
       /\ batches' = <<>>
       /\ arrivals' = Pick(arrivals, {i \in DOMAIN arrivals : arrivals[i] \notin Range(fin)})
       /\ UNCHANGED <<mode, untokenized, tokenizing, waiting_q, requestId>>
  BY <1>1, <1>4 DEF UpdateAndFree, ReturnedIds
<1>11. List(gpu_decoding_q, Reqs) /\ List(cpu_decoding_q, Reqs) /\ List(arrivals, Reqs)
  BY DEF QueuesOK
<1>12. gpu_decoding_q' = Those(gpu_decoding_q, Range(gpu_decoding_q) \ Done)
  BY <1>9, <1>10, <1>11
<1>13. cpu_decoding_q' = Those(cpu_decoding_q, Range(cpu_decoding_q) \ Done)
  BY <1>9, <1>10, <1>11
<1>14. arrivals' = Those(arrivals, Range(arrivals) \ Done)
  BY <1>9, <1>10, <1>11
<1>15. QED
  BY <1>2, <1>7, <1>8, <1>10, <1>12, <1>13, <1>14

(* The worker's tokens arrive, and requests that are done leave.             *)
LEMMA UpdateAndFreeInv ==
  ASSUME BlocksAssumption, SchedulerAssumption, IInv, UpdateAndFree
  PROVE  IInv'
<1>1. Alive /\ TypeOK /\ QueuesOK /\ BatchOK /\ IdsOK /\ BlocksOK
  BY DEF IInv, UpdateAndFree
<1>2. PICK fin :
           /\ List(fin, Reqs) /\ Range(fin) = Done
           /\ outputLen' = [r \in Reqs |-> IF r \in InBatch THEN outputLen[r] + 1 ELSE outputLen[r]]
           /\ blk' = FreeBlocksOfRequests(blk, Seen(requestId, fin))
           /\ gpu_decoding_q' = Those(gpu_decoding_q, Range(gpu_decoding_q) \ Done)
           /\ cpu_decoding_q' = Those(cpu_decoding_q, Range(cpu_decoding_q) \ Done)
           /\ available_ids' = available_ids \o IdsOf(fin)
           /\ batches' = <<>>
           /\ arrivals' = Those(arrivals, Range(arrivals) \ Done)
           /\ UNCHANGED <<mode, untokenized, tokenizing, waiting_q, requestId>>
  BY <1>1, UpdateFacts
<1>3. /\ Started \subseteq Reqs /\ Range(waiting_q) \subseteq Reqs
      /\ Started \intersect Range(waiting_q) = {}
  BY <1>1, StartedFacts
<1>4. InBatch \subseteq Started /\ Done \subseteq InBatch
  BY <1>1 DEF BatchOK, Done
<1>5. /\ List(gpu_decoding_q', Reqs) /\ List(cpu_decoding_q', Reqs) /\ List(arrivals', Reqs)
      /\ Range(gpu_decoding_q') = Range(gpu_decoding_q) \ Done
      /\ Range(cpu_decoding_q') = Range(cpu_decoding_q) \ Done
      /\ Range(arrivals') = Range(arrivals) \ Done
  <2>1. List(gpu_decoding_q, Reqs) /\ List(cpu_decoding_q, Reqs) /\ List(arrivals, Reqs)
    BY <1>1 DEF QueuesOK
  <2>2. ASSUME NEW q, List(q, Reqs)
        PROVE  /\ List(Those(q, Range(q) \ Done), Reqs)
               /\ Range(Those(q, Range(q) \ Done)) = Range(q) \ Done
    <3>1. PICK F : F = Range(q) \ Done
      OBVIOUS
    <3>2. /\ List(Those(q, F), Reqs)
          /\ \A x : x \in Range(Those(q, F)) <=> x \in Range(q) /\ x \in F
      BY <2>2, ThoseFacts
    <3>3. QED
      BY <3>1, <3>2
  <2>3. List(gpu_decoding_q', Reqs) /\ Range(gpu_decoding_q') = Range(gpu_decoding_q) \ Done
    BY <1>2, <2>1, <2>2
  <2>4. List(cpu_decoding_q', Reqs) /\ Range(cpu_decoding_q') = Range(cpu_decoding_q) \ Done
    BY <1>2, <2>1, <2>2
  <2>5. List(arrivals', Reqs) /\ Range(arrivals') = Range(arrivals) \ Done
    BY <1>2, <2>1, <2>2
  <2>6. QED
    BY <2>3, <2>4, <2>5
<1>6. Started' = Started \ Done
  BY <1>5 DEF Started
<1>7. InBatch' = {} /\ List(AllReqs(batches'), Reqs)
  BY <1>2, AllReqsNone DEF InBatch
<1>8. Len(batches') <= 2
  <2>1. Len(<<>>) = 0
    BY ListEmpty
  <2>2. QED
    BY <1>2, <2>1
<1>9. \A r \in Reqs : outputLen[r] \in Nat /\ MaxOut[r] \in Nat /\ outputLen[r] <= MaxOut[r]
                      /\ PromptLen[r] \in Nat
  BY <1>1 DEF TypeOK, SchedulerAssumption
<1>10. \A r \in Reqs : outputLen'[r] = IF r \in InBatch THEN outputLen[r] + 1 ELSE outputLen[r]
  BY <1>2
<1>11. \A r \in Range(arrivals) : outputLen[r] < MaxOut[r] /\ r \in Reqs
  <2>1. Range(arrivals) \subseteq Reqs
    BY <1>1 DEF TypeOK
  <2>2. QED
    BY <1>1, <2>1 DEF QueuesOK
<1>12. InBatch \subseteq Range(arrivals)
  BY <1>1, <1>4 DEF QueuesOK
<1>13. \A r \in Reqs : outputLen'[r] \in 0 .. MaxOut[r]
  <2> TAKE r \in Reqs
  <2>1. CASE r \in InBatch
    <3>1. outputLen[r] < MaxOut[r] /\ outputLen'[r] = outputLen[r] + 1
      BY <1>10, <1>11, <1>12, <2>1
    <3>2. QED
      BY <1>9, <3>1
  <2>2. CASE r \notin InBatch
    BY <1>9, <1>10, <2>2
  <2>3. QED
    BY <2>1, <2>2
<1>14. \A r \in InBatch \ Done : outputLen'[r] < MaxOut[r]
  <2> TAKE r \in InBatch \ Done
  <2>1. outputLen[r] < MaxOut[r] /\ r \in Reqs /\ outputLen'[r] = outputLen[r] + 1
    BY <1>10, <1>11, <1>12
  <2>2. outputLen[r] + 1 # MaxOut[r]
    BY DEF Done, Finishes
  <2>3. QED
    BY <1>9, <2>1, <2>2
<1>15. QueuesOK'
  <2>1. /\ List(waiting_q', Reqs) /\ List(untokenized', Reqs) /\ List(tokenizing', Reqs)
    BY <1>1, <1>2 DEF QueuesOK
  <2>2. /\ Range(untokenized') \intersect Range(tokenizing') = {}
        /\ Range(untokenized') \intersect Range(arrivals') = {}
        /\ Range(tokenizing') \intersect Range(arrivals') = {}
    BY <1>1, <1>2, <1>5 DEF QueuesOK
  <2>3. /\ Range(waiting_q') \intersect Range(gpu_decoding_q') = {}
        /\ Range(waiting_q') \intersect Range(cpu_decoding_q') = {}
        /\ Range(gpu_decoding_q') \intersect Range(cpu_decoding_q') = {}
    BY <1>1, <1>2, <1>5 DEF QueuesOK
  <2>4. Range(waiting_q') \union Started' \subseteq Range(arrivals')
    <3>1. Range(waiting_q') \subseteq Range(arrivals')
      BY <1>1, <1>2, <1>3, <1>4, <1>5 DEF QueuesOK
    <3>2. Started' \subseteq Range(arrivals')
      BY <1>1, <1>5, <1>6 DEF QueuesOK
    <3>3. QED
      BY <3>1, <3>2
  <2>5. \A r \in Range(untokenized') \union Range(tokenizing') : outputLen'[r] < MaxOut[r]
    <3>1. \A r \in Range(untokenized) \union Range(tokenizing) :
            r \notin InBatch /\ r \in Reqs /\ outputLen[r] < MaxOut[r]
      BY <1>1, <1>12 DEF QueuesOK, TypeOK
    <3>2. QED
      BY <1>2, <1>10, <3>1
  <2>6. \A r \in Range(arrivals') : outputLen'[r] < MaxOut[r]
    BY <1>5, <1>10, <1>11, <1>14
  <2>7. QED
    BY <1>5, <2>1, <2>2, <2>3, <2>4, <2>5, <2>6 DEF QueuesOK
<1>16. BatchOK'
  <2>1. \A r \in Started' \ InBatch' : outputLen'[r] >= 1
    <3> SUFFICES ASSUME NEW r \in Started \ Done
                 PROVE  outputLen'[r] >= 1
      BY <1>6
    <3>1. r \in Reqs
      BY <1>3
    <3>2. CASE r \in InBatch
      BY <1>9, <1>10, <3>1, <3>2
    <3>3. CASE r \notin InBatch
      BY <1>1, <1>10, <3>1, <3>3 DEF BatchOK
    <3>4. QED
      BY <3>2, <3>3
  <2>2. QED
    BY <1>7, <1>8, <2>1 DEF BatchOK
<1>17. /\ List(IdsOf(fin), Ids)
       /\ \A id : id \in Range(IdsOf(fin)) <=> \E r \in Range(fin) : requestId[r] = id
  BY <1>1, <1>2, <1>4, IdsBack
<1>18. PICK A : A = available_ids
  OBVIOUS
<1>19. PICK B : B = IdsOf(fin)
  OBVIOUS
<1>20. \A id : id \in Range(B) <=> \E r \in Done : requestId[r] = id
  BY <1>2, <1>17, <1>19
<1>21. Range(A) \intersect Range(B) = {}
  BY <1>1, <1>4, <1>18, <1>20 DEF IdsOK
<1>22. List(A, Ids) /\ List(B, Ids)
  BY <1>1, <1>17, <1>18, <1>19 DEF IdsOK
<1>23. List(A \o B, Ids) /\ Range(A \o B) = Range(A) \union Range(B)
  BY <1>21, <1>22, ListConcat
<1>24. List(available_ids', Ids) /\ Range(available_ids') = Range(A) \union Range(B)
  BY <1>2, <1>18, <1>19, <1>23
<1>25. IdsOK'
  <2>1. \A r \in Started \ Done : requestId[r] \in Ids /\ requestId[r] \notin Range(A)
    BY <1>1, <1>18 DEF IdsOK
  <2>2. \A r1, r2 \in Started : requestId[r1] = requestId[r2] => r1 = r2
    BY <1>1 DEF IdsOK
  <2>3. \A r \in Started \ Done : requestId[r] \notin Range(B)
    BY <1>4, <1>20, <2>2
  <2>4. \A id \in Ids : id \in Range(A) \/ id \in Range(B) \/ \E r \in Started \ Done : requestId[r] = id
    BY <1>1, <1>18, <1>20 DEF IdsOK
  <2>5. PICK S : S = Started \ Done
    OBVIOUS
  <2>6. PICK R : R = Range(A) \union Range(B)
    OBVIOUS
  <2>7. /\ \A r \in S : requestId[r] \in Ids \ R
        /\ \A r1, r2 \in S : requestId[r1] = requestId[r2] => r1 = r2
        /\ \A id \in Ids : id \in R \/ \E r \in S : requestId[r] = id
    BY <2>1, <2>2, <2>3, <2>4, <2>5, <2>6
  <2>8. Started' = S /\ Range(available_ids') = R /\ requestId' = requestId
    BY <1>2, <1>6, <1>24, <2>5, <2>6
  <2>9. QED
    BY <1>24, <2>7, <2>8 DEF IdsOK
<1>26. Named(Started, requestId) /\ Sized(Started)
  <2>1. Named(Started, requestId)
    BY <1>1 DEF IdsOK, Named
  <2>2. Sized(Started)
    BY <1>1, <1>3, SizesOK
  <2>3. QED
    BY <2>1, <2>2
<1>27. PICK reqs : reqs = Seen(requestId, fin)
  OBVIOUS
<1>28. List(fin, Started)
  BY <1>2, <1>4, ListWithin
<1>29. Told(reqs) /\ \A id : id \in TheIds(reqs) <=> \E r \in Range(fin) : requestId[r] = id
  BY <1>26, <1>27, <1>28, SeenFacts
<1>30. blk \in BlockState /\ blk.fault = "none" /\ Parted(blk, {})
  BY <1>1 DEF BlocksOK, Holds
<1>31. Freed(blk, reqs, blk')
  <2>1. Freed(blk, reqs, FreeBlocksOfRequests(blk, reqs))
    BY <1>29, <1>30, FreedFacts
  <2>2. QED
    BY <1>2, <1>27, <2>1
<1>32. BlocksOK'
  <2>1. \A id : id \in TheIds(reqs) <=> \E r \in Done : requestId[r] = id
    BY <1>2, <1>29
  <2>2. \A r \in Started \ Done : requestId[r] \in Ids /\ requestId[r] \notin TheIds(reqs)
    BY <1>4, <1>26, <2>1 DEF Named
  <2>3. PICK b : b = blk'
    OBVIOUS
  <2>4. /\ b \in BlockState /\ b.fault = "none" /\ b.copies = blk.copies /\ Parted(b, {})
        /\ \A d \in Devices, id \in Ids :
             b.table[d][id] = IF id \in TheIds(reqs) THEN {} ELSE blk.table[d][id]
    BY <1>31, <2>3 DEF Freed
  <2>5. \A r \in Started \ Done : On'[r] = On[r]
    BY <1>4, <1>5, <1>6 DEF On
  <2>6. \A r \in Started \ Done : Tok'[r] = Tok[r]
    <3> TAKE r \in Started \ Done
    <3>1. r \in Reqs
      BY <1>3
    <3>2. Tok'[r] = SeqLen(r)' - 1
      BY <1>6, <1>7 DEF Tok
    <3>3. SeqLen(r)' = PromptLen[r] + outputLen'[r]
      BY DEF SeqLen
    <3>4. CASE r \in InBatch
      <4>1. outputLen'[r] = outputLen[r] + 1
        BY <1>10, <3>1, <3>4
      <4>2. Tok[r] = PromptLen[r] + outputLen[r]
        BY <3>4 DEF Tok, SeqLen
      <4>3. QED
        BY <1>9, <3>1, <3>2, <3>3, <4>1, <4>2
    <3>5. CASE r \notin InBatch
      <4>1. outputLen'[r] = outputLen[r]
        BY <1>10, <3>1, <3>5
      <4>2. Tok[r] = SeqLen(r) - 1
        BY <3>5 DEF Tok
      <4>3. SeqLen(r)' = SeqLen(r)
        BY <3>3, <4>1 DEF SeqLen
      <4>4. QED
        BY <3>2, <4>2, <4>3
    <3>6. QED
      BY <3>4, <3>5
  <2>7. PICK on : on = On'
    OBVIOUS
  <2>8. PICK tok : tok = Tok'
    OBVIOUS
  <2>9. PICK Q : Q = Started \ Done
    OBVIOUS
  <2>10. \A d \in Devices : \A r \in Q :
           Cardinality(b.table[d][requestId[r]]) = IF on[r] = d THEN Cdiv(tok[r]) ELSE 0
    <3> TAKE d \in Devices
    <3> TAKE r \in Q
    <3>1. requestId[r] \in Ids /\ requestId[r] \notin TheIds(reqs) /\ r \in Started
      BY <2>2, <2>9
    <3>2. b.table[d][requestId[r]] = blk.table[d][requestId[r]]
      BY <2>4, <3>1
    <3>3. Cardinality(blk.table[d][requestId[r]]) = IF On[r] = d THEN Cdiv(Tok[r]) ELSE 0
      BY <1>1, <3>1 DEF BlocksOK, Holds
    <3>4. on[r] = On[r] /\ tok[r] = Tok[r]
      BY <2>5, <2>6, <2>7, <2>8, <2>9
    <3>5. QED
      BY <3>2, <3>3, <3>4
  <2>11. \A d \in Devices : \A id \in Ids :
           (\A r \in Q : requestId[r] # id) => b.table[d][id] = {}
    <3> SUFFICES ASSUME NEW d \in Devices, NEW id \in Ids, \A r \in Q : requestId[r] # id
                 PROVE  b.table[d][id] = {}
      OBVIOUS
    <3>1. CASE id \in TheIds(reqs)
      BY <2>4, <3>1
    <3>2. CASE id \notin TheIds(reqs)
      <4>1. \A r \in Started : requestId[r] # id
        BY <2>1, <2>9, <3>2
      <4>2. blk.table[d][id] = {}
        BY <1>1, <4>1 DEF BlocksOK, Holds
      <4>3. QED
        BY <2>4, <3>2, <4>2
    <3>3. QED
      BY <3>1, <3>2
  <2>12. \A c \in b.copies : c.src # {} /\ Cardinality(c.src) = Cardinality(c.dst)
    BY <1>1, <2>4 DEF BlocksOK, Holds
  <2>13. Holds(b, {}, Q, requestId, on, tok)
    BY <2>4, <2>10, <2>11, <2>12 DEF Holds
  <2>14. BlocksOK' <=> Holds(blk', {}, Started', requestId', On', Tok')
    BY DEF BlocksOK, Holds
  <2>15. QED
    BY <1>2, <1>6, <2>3, <2>7, <2>8, <2>9, <2>13, <2>14
<1>33. TypeOK'
  <2>1. /\ Listed(untokenized') /\ Listed(tokenizing') /\ Listed(waiting_q')
        /\ Listed(gpu_decoding_q') /\ Listed(cpu_decoding_q') /\ Listed(arrivals')
    BY <1>15, ListedOf DEF QueuesOK
  <2>2. mode' \in Modes /\ requestId' \in [Reqs -> Ids \union {NoId}]
    BY <1>1, <1>2 DEF TypeOK
  <2>3. blk' \in BlockState
    BY <1>31 DEF Freed
  <2>4. Range(available_ids') \subseteq Ids
    BY <1>22, <1>24, ListFacts
  <2>5. QED
    BY <1>8, <1>13, <2>1, <2>2, <2>3, <2>4 DEF TypeOK, Listed
<1>34. QED
  BY <1>15, <1>16, <1>25, <1>32, <1>33 DEF IInv

-------------------------------------------------------------------------------
\* The invariant.

(* It holds at the start.                                                    *)
LEMMA InitInv ==
  ASSUME BlocksAssumption, SchedulerAssumption, Init
  PROVE  IInv
<1>1. /\ List(<<>>, Reqs) /\ Range(<<>>) = {} /\ Len(<<>>) = 0 /\ Listed(<<>>)
  BY ListEmpty, ListedOf
<1>2. Started = {} /\ InBatch = {} /\ List(AllReqs(batches), Reqs)
  BY <1>1, AllReqsNone DEF Init, Started, InBatch
<1>3. PICK n \in Nat : n = Cardinality(Ids) /\ Ids = 0 .. n - 1
  BY FS_CardinalityType DEF SchedulerAssumption
<1>r. Ids = 0 .. n - 1
  BY <1>3
<1>4. PICK A : A = available_ids
  OBVIOUS
<1>5. A = [i \in 1 .. n |-> i - 1]
  BY <1>3, <1>4 DEF Init
<1>6. \A i \in 1 .. n : A[i] = i - 1 /\ A[i] \in Ids
  <2>1. \A i \in 1 .. n : i - 1 \in Ids
    BY <1>r
  <2>2. QED
    BY <1>5, <2>1
<1>7. A \in [1 .. n -> Ids]
  BY <1>5, <1>6
<1>8. A \in Seq(Ids) /\ Len(A) = n
  BY <1>7
<1>9. List(A, Ids)
  <2>1. \A i, j \in 1 .. n : A[i] = A[j] => i = j
    BY <1>6
  <2>2. QED
    BY <1>8, <2>1 DEF List
<1>10. Ids \subseteq Range(A)
  <2>1. \A x : x \in Range(A) <=> \E i \in 1 .. n : A[i] = x
    BY <1>8, <1>9, ListFacts
  <2>2. \A id \in Ids : \E i \in 1 .. n : A[i] = id
    <3> TAKE id \in Ids
    <3>1. PICK i \in 1 .. n : i = id + 1
      BY <1>r
    <3>2. i - 1 = id
      BY <1>r, <3>1
    <3>3. QED
      BY <1>6, <3>2
  <2>3. QED
    BY <2>1, <2>2
<1>11. Range(A) \subseteq Ids
  BY <1>9, ListFacts
<1>12. /\ blk \in BlockState /\ Parted(blk, {}) /\ blk.fault = "none" /\ blk.copies = {}
       /\ \A d \in Devices, id \in Ids : blk.table[d][id] = {}
  BY FreshParted DEF Init
<1>13. QueuesOK
  BY <1>1, <1>2 DEF Init, QueuesOK
<1>14. BatchOK
  <2>1. Len(batches) <= 2
    BY <1>1 DEF Init
  <2>2. QED
    BY <1>2, <2>1 DEF BatchOK
<1>15. IdsOK
  BY <1>2, <1>4, <1>9, <1>10 DEF IdsOK
<1>16. BlocksOK
  BY <1>2, <1>12 DEF BlocksOK, Holds
<1>17. TypeOK
  <2>1. \A r \in Reqs : outputLen[r] \in 0 .. MaxOut[r]
    BY DEF Init, SchedulerAssumption
  <2>2. requestId \in [Reqs -> Ids \union {NoId}] /\ mode \in Modes
    BY DEF Init
  <2>3. Len(batches) <= 2
    BY <1>1 DEF Init
  <2>4. Range(available_ids) \subseteq Ids /\ blk \in BlockState
    BY <1>4, <1>11, <1>12
  <2>5. /\ Listed(untokenized) /\ Listed(tokenizing) /\ Listed(waiting_q)
        /\ Listed(gpu_decoding_q) /\ Listed(cpu_decoding_q) /\ Listed(arrivals)
    BY <1>1 DEF Init
  <2>6. QED
    BY <2>1, <2>2, <2>3, <2>4, <2>5 DEF TypeOK, Listed
<1>18. QED
  BY <1>13, <1>14, <1>15, <1>16, <1>17 DEF IInv

(* And when nothing happens.                                                 *)
LEMMA StutterInv ==
  ASSUME IInv, UNCHANGED vars
  PROVE  IInv'
<1>1. UNCHANGED <<mode, untokenized, tokenizing, arrivals, waiting_q, gpu_decoding_q,
                  cpu_decoding_q, available_ids, requestId, outputLen, blk, batches>>
  BY DEF vars, queues, arriving
<1>2. Started' = Started /\ (Alive' <=> Alive)
  BY <1>1 DEF Started, Alive
<1>3. BatchOK /\ IdsOK /\ BlocksOK => BatchOK' /\ IdsOK' /\ BlocksOK'
  BY <1>1, OthersKeep
<1>4. QueuesOK => QueuesOK'
  BY <1>1, <1>2 DEF QueuesOK
<1>5. TypeOK => TypeOK'
  BY <1>1 DEF TypeOK
<1>6. QED
  BY <1>2, <1>3, <1>4, <1>5 DEF IInv

(* IInv is an inductive invariant of the server, whatever the predictor says *)
(* and in every mode.                                                        *)
THEOREM Inductive == Spec => []IInv
<1>1. Init => IInv
  BY BlocksAssumption, SchedulerAssumption, InitInv
<1>2. IInv /\ [Next]_vars => IInv'
  <2> SUFFICES ASSUME IInv, [Next]_vars
               PROVE  IInv'
    OBVIOUS
  <2>1. CASE AddText
    BY <2>1, BlocksAssumption, SchedulerAssumption, AddTextInv
  <2>2. CASE AddTokens
    BY <2>2, BlocksAssumption, SchedulerAssumption, AddTokensInv
  <2>3. CASE TokenizeStart
    BY <2>3, BlocksAssumption, SchedulerAssumption, TokenizeStartInv
  <2>4. CASE TokenizeEnd
    BY <2>4, BlocksAssumption, SchedulerAssumption, TokenizeEndInv
  <2>5. CASE Schedule
    BY <2>5, BlocksAssumption, SchedulerAssumption, ScheduleInv
  <2>6. CASE UpdateAndFree
    BY <2>6, BlocksAssumption, SchedulerAssumption, UpdateAndFreeInv
  <2>7. CASE UNCHANGED vars
    BY <2>7, StutterInv
  <2>8. QED
    BY <2>1, <2>2, <2>3, <2>4, <2>5, <2>6, <2>7 DEF Next
<1>3. QED
  BY <1>1, <1>2, PTL DEF Spec

(* Every queue lists requests, each at most once; the ids and the tables     *)
(* have their types.                                                         *)
THEOREM TypeCorrect == Spec => []TypeOK
<1>1. IInv => TypeOK
  BY DEF IInv
<1>2. QED
  BY <1>1, Inductive, PTL

(* No step of the block manager loses or doubles a block.                  *)
THEOREM BlocksNeverLost == Spec => []BlocksConserved
<1>1. IInv => BlocksConserved
  <2> SUFFICES ASSUME IInv, Alive
               PROVE  Conserved(blk)
    BY DEF BlocksConserved
  <2>1. blk \in BlockState /\ Parted(blk, {})
    BY DEF IInv, BlocksOK, Holds
  <2>2. QED
    BY <2>1, BlocksAssumption, PartedConserved
<1>2. QED
  BY <1>1, Inductive, PTL

(* The ids of running requests and the free ones make all of them.           *)
LEMMA IdsCounted ==
  ASSUME SchedulerAssumption, IdsOK
  PROVE  Len(available_ids) + Cardinality(Started) = Cardinality(Ids)
<1>1. PICK A : A = available_ids
  OBVIOUS
<1>2. List(A, Ids)
  BY <1>1 DEF IdsOK
<1>3. IsFiniteSet(Range(A)) /\ Cardinality(Range(A)) = Len(A) /\ Range(A) \subseteq Ids
  BY <1>2, ListSize, ListFacts
<1>4. PICK R : R = Range(A)
  OBVIOUS
<1>5. PICK T : T = Ids \ R
  OBVIOUS
<1>6. IsFiniteSet(Ids)
  BY DEF SchedulerAssumption
<1>7. IsFiniteSet(T)
  BY <1>5, <1>6, FS_Subset
<1>8. PICK S : S = Started
  OBVIOUS
<1>9. PICK f : f = [r \in S |-> requestId[r]]
  OBVIOUS
<1>10. f \in [S -> T]
  BY <1>1, <1>4, <1>5, <1>8, <1>9 DEF IdsOK
<1>11. \A r1, r2 \in S : f[r1] = f[r2] => r1 = r2
  BY <1>8, <1>9 DEF IdsOK
<1>12. \A id \in T : \E r \in S : f[r] = id
  BY <1>1, <1>4, <1>5, <1>8, <1>9 DEF IdsOK
<1>13. f \in Bijection(S, T)
  BY <1>10, <1>11, <1>12, Fun_IsBij
<1>14. ExistsBijection(S, T)
  BY <1>13, Fun_ExistsBij
<1>15. ExistsBijection(T, S)
  BY <1>14, Fun_ExistsBijSymmetric
<1>16. Cardinality(S) = Cardinality(T)
  BY <1>7, <1>15, FS_Bijection
<1>17. R \union T = Ids /\ R \intersect T = {}
  BY <1>3, <1>4, <1>5
<1>18. Cardinality(R \union T) = Cardinality(R) + Cardinality(T) - Cardinality(R \intersect T)
  BY <1>3, <1>4, <1>7, FS_Union
<1>19. Cardinality(R \intersect T) = 0
  BY <1>17, FS_EmptySet
<1>20. Cardinality(R) \in Nat /\ Cardinality(T) \in Nat
  BY <1>3, <1>4, <1>7, FS_CardinalityType
<1>21. Cardinality(Ids) = Cardinality(R) + Cardinality(T)
  <2>1. Cardinality(R \union T) = Cardinality(R) + Cardinality(T)
    BY <1>18, <1>19, <1>20
  <2>2. QED
    BY <1>17, <2>1
<1>22. QED
  BY <1>1, <1>3, <1>4, <1>8, <1>16, <1>21

(* No id is lost or given out twice.                                       *)
THEOREM IdsNeverLost == Spec => []IdsConserved
<1>1. IInv => IdsConserved
  <2> SUFFICES ASSUME IInv, Alive
               PROVE  IdsConserved
    BY DEF IdsConserved
  <2>1. IdsOK
    BY DEF IInv
  <2>2. Cardinality(Range(available_ids)) = Len(available_ids)
    BY <2>1, ListSize DEF IdsOK
  <2>3. Len(available_ids) + Cardinality(Started) = Cardinality(Ids)
    BY <2>1, SchedulerAssumption, IdsCounted
  <2>4. QED
    BY <2>1, <2>2, <2>3 DEF IdsConserved, IdsOK
<1>2. QED
  BY <1>1, Inductive, PTL

(* The queues say on which device the blocks of a request are, and how many. *)
THEOREM TablesMatchQueues == Spec => []QueuesMatchTables
<1>1. IInv => QueuesMatchTables
  <2> SUFFICES ASSUME IInv, Alive
               PROVE  QueuesMatchTables
    BY DEF QueuesMatchTables
  <2>1. IdsOK /\ BlocksOK /\ QueuesOK
    BY DEF IInv
  <2>2. ASSUME NEW r \in Started, NEW d \in Devices,
               NEW dev, dev = (IF r \in Range(gpu_decoding_q) THEN "gpu" ELSE "cpu"),
               NEW stored, stored = (IF r \in InBatch THEN SeqLen(r) ELSE SeqLen(r) - 1)
        PROVE  Cardinality(blk.table[d][requestId[r]]) = IF d = dev THEN Cdiv(stored) ELSE 0
    <3>1. Cardinality(blk.table[d][requestId[r]]) = IF On[r] = d THEN Cdiv(Tok[r]) ELSE 0
      BY <2>1 DEF BlocksOK, Holds
    <3>2. On[r] = dev /\ Tok[r] = stored
      BY <2>2 DEF On, Tok
    <3>3. QED
      BY <3>1, <3>2
  <2>3. ASSUME NEW d \in Devices, NEW id \in Range(available_ids)
        PROVE  blk.table[d][id] = {}
    <3>1. id \in Ids
      BY <2>1, ListFacts DEF IdsOK
    <3>2. \A r \in Started : requestId[r] # id
      BY <2>1 DEF IdsOK
    <3>3. QED
      BY <2>1, <3>1, <3>2 DEF BlocksOK, Holds
  <2>4. QED
    BY <2>2, <2>3 DEF QueuesMatchTables
<1>2. QED
  BY <1>1, Inductive, PTL

(* Every swap copies as many blocks as it has room for, and at least one.  *)
THEOREM SwapsCopyWhole == Spec => []SwapsCopyWholeRequests
<1>1. IInv => SwapsCopyWholeRequests
  BY DEF IInv, BlocksOK, Holds, SwapsCopyWholeRequests
<1>2. QED
  BY <1>1, Inductive, PTL
===============================================================================
