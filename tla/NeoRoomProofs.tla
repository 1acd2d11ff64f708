----------------------------- MODULE NeoRoomProofs -----------------------------
(* That the thresholds of Neo's scheduler are enough: a batch either policy  *)
(* decides on has room in the blocks of the GPU, and fails no assertion of   *)
(* prepare, for every number of requests, ids and blocks, every block size   *)
(* and whatever the performance predictor says.                              *)
(*                                                                           *)
(* The blocks a decision asks for are a sum over its queues, and what is     *)
(* free is what the rows of the others leave: both are sums over sets, which *)
(* grow by one element at a time.  Prepare raises only when one of these     *)
(* exceeds the other (PreparedSpared); the loops of the policies stop before *)
(* it does (NewBudgeted, OldBudgeted).                                       *)
EXTENDS NeoSchedulerProofs

-------------------------------------------------------------------------------
\* Sums over sets of places, of requests, and over queues.

(* Sets are built one element at a time: a property of the empty set that    *)
(* survives every addition is one of every finite set.                       *)
LEMMA SetInduction ==
  ASSUME NEW D, IsFiniteSet(D), NEW G \in SUBSET (SUBSET D), {} \in G,
         \A T \in G : \A i \in D \ T : T \union {i} \in G
  PROVE  D \in G
<1>1. \A T \in SUBSET D : IsFiniteSet(T) /\ Cardinality(T) \in Nat /\ Cardinality(T) <= Cardinality(D)
  BY FS_Subset, FS_CardinalityType
<1> DEFINE Missing == {n \in Nat : \E T \in G : n = Cardinality(D) - Cardinality(T)}
<1>2. Cardinality(D) \in Nat
  BY <1>1
<1>3. Missing # {}
  <2>1. Cardinality({}) = 0
    BY FS_EmptySet
  <2>2. Cardinality(D) \in Missing
    BY <1>2, <2>1
  <2>3. QED
    BY <2>2
<1>4. PICK m \in Missing : \A n \in Missing : m <= n
  BY <1>3, LeastNatural
<1>5. PICK T \in G : m = Cardinality(D) - Cardinality(T)
  BY <1>4
<1>6. ASSUME NEW i \in D \ T
      PROVE  FALSE
  <2>1. T \union {i} \in G
    BY <1>6
  <2>2. Cardinality(T \union {i}) = Cardinality(T) + 1
    BY <1>1, <1>6, FS_AddElement
  <2>3. /\ Cardinality(T \union {i}) \in Nat /\ Cardinality(T) \in Nat
        /\ Cardinality(T \union {i}) <= Cardinality(D)
    BY <1>1, <2>1
  <2>4. Cardinality(D) - Cardinality(T \union {i}) \in Missing
    BY <1>2, <2>1, <2>3
  <2>5. m <= Cardinality(D) - Cardinality(T \union {i})
    BY <1>4, <2>4
  <2>6. QED
    BY <1>2, <1>5, <2>2, <2>3, <2>5
<1>7. T = D
  BY <1>6
<1>8. QED
  BY <1>7

(* A sum of naturals counts units: the library's fold over a finite domain.  *)
LEMMA SumIsUnits ==
  ASSUME NEW D, IsFiniteSet(D), NEW f \in [D -> Nat]
  PROVE  SumFunction(f) = Cardinality(Units(f, D))
<1> DEFINE P(it) == it = [s \in SUBSET D |->
                            IF s = {} THEN 0 ELSE LET x == CHOOSE y \in s : TRUE
                                                  IN f[x] + it[s \ {x}]]
           w == [s \in SUBSET D |-> Cardinality(Units(f, s))]
           it == CHOOSE g : P(g)
<1>f. \A s \in SUBSET D : IsFiniteSet(s)
  BY FS_Subset
<1>0. w[{}] = 0
  <2>1. Units(f, {}) = {}
    BY DEF Units
  <2>2. QED
    BY <2>1, FS_EmptySet
<1>1. \A s \in SUBSET D : s # {} => w[s] = f[CHOOSE y \in s : TRUE] + w[s \ {CHOOSE y \in s : TRUE}]
  <2> TAKE s \in SUBSET D
  <2> HAVE s # {}
  <2> DEFINE x == CHOOSE y \in s : TRUE
  <2>1. x \in s
    OBVIOUS
  <2> HIDE DEF x
  <2>2. s = (s \ {x}) \union {x} /\ x \in D \ (s \ {x}) /\ s \ {x} \in SUBSET D /\ IsFiniteSet(s \ {x})
    BY <1>f, <2>1
  <2>3. Cardinality(Units(f, (s \ {x}) \union {x})) = Cardinality(Units(f, s \ {x})) + f[x]
    BY <2>2, UnitsAdd
  <2>4. Cardinality(Units(f, s \ {x})) \in Nat /\ f[x] \in Nat
    BY <2>2, UnitsFinite
  <2>5. w[s] = Cardinality(Units(f, (s \ {x}) \union {x})) /\ w[s \ {x}] = Cardinality(Units(f, s \ {x}))
    BY <2>2
  <2>6. w[s] = f[x] + w[s \ {x}]
    BY <2>3, <2>4, <2>5
  <2>7. QED
    BY <2>6 DEF x
<1>2. P(w)
  <2> DEFINE v == [s \in SUBSET D |-> IF s = {} THEN 0 ELSE LET x == CHOOSE y \in s : TRUE
                                                  IN f[x] + w[s \ {x}]]
  <2>1. \A s \in SUBSET D : v[s] = w[s]
    BY <1>0, <1>1
  <2>2. v = [s \in SUBSET D |-> v[s]] /\ w = [s \in SUBSET D |-> w[s]]
    OBVIOUS
  <2>3. v = w
    BY <2>1, <2>2
  <2>4. QED
    BY <2>3
<1>3. P(it)
  BY <1>2
<1>4. SumFunction(f) = it[D]
  <2>1. DOMAIN f = D
    OBVIOUS
  <2>2. QED
    BY <2>1 DEF SumFunction, SumFunctionOnSet, FoldFunctionOnSet, MapThenFoldSet
<1> HIDE DEF it, w
<1>5. it[{}] = 0 /\ \A s \in SUBSET D : s # {} => it[s] = f[CHOOSE y \in s : TRUE] + it[s \ {CHOOSE y \in s : TRUE}]
  BY <1>3
<1> HIDE DEF P
<1>6. \A T \in SUBSET D : it[T] = w[T]
  <2> DEFINE Bad == {n \in Nat : \E T \in SUBSET D : n = Cardinality(T) /\ it[T] # w[T]}
  <2>1. SUFFICES ASSUME NEW T \in SUBSET D, it[T] # w[T]
                 PROVE  FALSE
    OBVIOUS
  <2>2. Cardinality(T) \in Bad
    BY <1>f, <2>1, FS_CardinalityType
  <2>3. PICK m \in Bad : \A n \in Bad : m <= n
    BY <2>2, LeastNatural
  <2>4. PICK U \in SUBSET D : m = Cardinality(U) /\ it[U] # w[U]
    BY <2>3
  <2>5. U # {}
    BY <1>0, <1>5, <2>4
  <2> DEFINE x == CHOOSE y \in U : TRUE
  <2>6. x \in U
    BY <2>5
  <2>7. it[U] = f[x] + it[U \ {x}] /\ w[U] = f[x] + w[U \ {x}]
    BY <1>1, <1>5, <2>5
  <2> HIDE DEF x
  <2>8. Cardinality(U \ {x}) = Cardinality(U) - 1 /\ Cardinality(U \ {x}) \in Nat /\ U \ {x} \in SUBSET D
    <3>1. IsFiniteSet(U) /\ IsFiniteSet(U \ {x}) /\ U \ {x} \in SUBSET D
      BY <1>f
    <3>2. QED
      BY <2>6, <3>1, FS_RemoveElement, FS_CardinalityType
  <2>9. it[U \ {x}] # w[U \ {x}]
    BY <2>4, <2>7
  <2>10. Cardinality(U \ {x}) \in Bad
    BY <2>8, <2>9
  <2>11. m <= Cardinality(U \ {x}) /\ m \in Nat
    BY <2>3, <2>10
  <2>12. QED
    BY <2>4, <2>8, <2>11
<1>7. it[D] = w[D]
  BY <1>6
<1>8. QED
  BY <1>4, <1>7 DEF w

(* What the things of a set weigh together. *)
Weight(f, S) == Cardinality(Units(f, S))

(* Weights are naturals, nothing weighs nothing.                             *)
LEMMA WeightType ==
  ASSUME NEW D, NEW f \in [D -> Nat], NEW S \in SUBSET D, IsFiniteSet(S)
  PROVE  Weight(f, S) \in Nat /\ Weight(f, {}) = 0
<1>1. Units(f, {}) = {}
  BY DEF Units
<1>2. QED
  BY <1>1, UnitsFinite, FS_EmptySet DEF Weight

(* Fewer things weigh no more.                                               *)
LEMMA WeightSubset ==
  ASSUME NEW D, NEW f \in [D -> Nat], NEW S \in SUBSET D, IsFiniteSet(S), NEW T \in SUBSET S
  PROVE  Weight(f, T) <= Weight(f, S)
BY UnitsGrow DEF Weight

(* Things of two disjoint sets.                                              *)
LEMMA WeightUnion ==
  ASSUME NEW D, NEW f \in [D -> Nat], NEW S \in SUBSET D, IsFiniteSet(S),
         NEW T \in SUBSET D, IsFiniteSet(T), S \intersect T = {}
  PROVE  Weight(f, S \union T) = Weight(f, S) + Weight(f, T)
<1>1. Units(f, S \union T) = Units(f, S) \union Units(f, T)
  BY DEF Units
<1>2. Units(f, S) \intersect Units(f, T) = {}
  BY DEF Units
<1>3. /\ IsFiniteSet(Units(f, S)) /\ Cardinality(Units(f, S)) \in Nat
      /\ IsFiniteSet(Units(f, T)) /\ Cardinality(Units(f, T)) \in Nat
  BY UnitsFinite
<1>4. Cardinality(Units(f, S) \union Units(f, T))
         = Cardinality(Units(f, S)) + Cardinality(Units(f, T)) - Cardinality({})
  BY <1>2, <1>3, FS_Union
<1>5. Cardinality({}) = 0
  BY FS_EmptySet
<1>6. Cardinality(Units(f, S) \union Units(f, T)) = Cardinality(Units(f, S)) + Cardinality(Units(f, T))
  BY <1>3, <1>4, <1>5
<1>7. QED
  BY <1>1, <1>6 DEF Weight

(* Lighter things weigh no more.                                             *)
LEMMA WeightMono ==
  ASSUME NEW D, NEW f \in [D -> Nat], NEW S \in SUBSET D, IsFiniteSet(S),
         NEW E, NEW g \in [E -> Nat], S \subseteq E, \A x \in S : f[x] <= g[x]
  PROVE  Weight(f, S) <= Weight(g, S)
<1>1. Units(f, S) \in SUBSET Units(g, S)
  BY DEF Units
<1>2. IsFiniteSet(Units(g, S))
  BY UnitsFinite
<1>3. QED
  BY <1>1, <1>2, FS_Subset DEF Weight

(* Only the weights of the things counted count.                             *)
LEMMA WeightSame ==
  ASSUME NEW D, NEW f \in [D -> Nat], NEW S \in SUBSET D,
         NEW E, NEW g \in [E -> Nat], S \subseteq E, \A x \in S : f[x] = g[x]
  PROVE  Weight(f, S) = Weight(g, S)
<1>1. Units(f, S) = Units(g, S)
  BY DEF Units
<1>2. QED
  BY <1>1 DEF Weight

(* A weight that is at least 1 for every thing.                              *)
LEMMA WeightOne ==
  ASSUME NEW D, NEW f \in [D -> Nat], NEW S \in SUBSET D, IsFiniteSet(S), NEW i \in S
  PROVE  f[i] <= Weight(f, S)
<1>1. S = (S \ {i}) \union {i} /\ IsFiniteSet(S \ {i}) /\ S \ {i} \in SUBSET D /\ i \in D \ (S \ {i})
  BY FS_Subset
<1>2. Weight(f, S) = Weight(f, S \ {i}) + f[i]
  BY <1>1, UnitsAdd DEF Weight
<1>3. Weight(f, S \ {i}) \in Nat /\ f[i] \in Nat
  BY <1>1, WeightType
<1>4. QED
  BY <1>2, <1>3

(* The same things under other names.                                        *)
LEMMA WeightRenamed ==
  ASSUME NEW D, NEW f \in [D -> Nat], IsFiniteSet(D), NEW E, NEW g \in [E -> Nat],
         NEW h \in [D -> E], NEW S, \A y : y \in S <=> \E x \in D : h[x] = y,
         \A x, y \in D : h[x] = h[y] => x = y,
         \A x \in D : f[x] = g[h[x]]
  PROVE  Weight(f, D) = Weight(g, S)
<1> DEFINE u == [p \in Units(f, D) |-> <<h[p[1]], p[2]>>]
<1>1. ASSUME NEW p \in Units(f, D)
      PROVE  p[1] \in D /\ p[2] \in 1 .. f[p[1]] /\ p = <<p[1], p[2]>>
  BY <1>1 DEF Units
<1>2. ASSUME NEW p \in Units(f, D)
      PROVE  u[p] \in Units(g, S)
  BY <1>1, <1>2 DEF Units
<1>3. ASSUME NEW p \in Units(f, D), NEW q \in Units(f, D), u[p] = u[q]
      PROVE  p = q
  <2>1. h[p[1]] = h[q[1]] /\ p[2] = q[2]
    BY <1>3
  <2>2. p[1] = q[1]
    BY <1>1, <2>1
  <2>3. QED
    BY <1>1, <2>1, <2>2
<1>4. ASSUME NEW z \in Units(g, S)
      PROVE  \E p \in Units(f, D) : u[p] = z
  <2>1. PICK y \in S : z \in {y} \X (1 .. g[y])
    BY DEF Units
  <2>2. PICK x \in D : h[x] = y
    BY <2>1
  <2>3. <<x, z[2]>> \in Units(f, D) /\ z = <<y, z[2]>>
    BY <2>1, <2>2 DEF Units
  <2>4. u[<<x, z[2]>>] = z
    BY <2>2, <2>3
  <2>5. QED
    BY <2>3, <2>4
<1>5. u \in Bijection(Units(f, D), Units(g, S))
  BY <1>2, <1>3, <1>4, Fun_IsBij
<1>6. ExistsBijection(Units(f, D), Units(g, S))
  BY <1>5, Fun_ExistsBij
<1>7. IsFiniteSet(Units(f, D))
  BY UnitsFinite
<1>8. QED
  BY <1>6, <1>7, FS_Bijection DEF Weight

(* What two parts of every thing weigh.                                      *)
LEMMA WeightSum ==
  ASSUME NEW D, IsFiniteSet(D), NEW f \in [D -> Nat], NEW g \in [D -> Nat], NEW h \in [D -> Nat],
         \A x \in D : h[x] = f[x] + g[x]
  PROVE  Weight(h, D) = Weight(f, D) + Weight(g, D)
<1> DEFINE G == {T \in SUBSET D : Weight(h, T) = Weight(f, T) + Weight(g, T)}
<1>f. \A T \in SUBSET D : IsFiniteSet(T)
  BY FS_Subset
<1>1. {} \in G
  <2>1. Weight(h, {}) = 0 /\ Weight(f, {}) = 0 /\ Weight(g, {}) = 0
    BY WeightType
  <2>2. QED
    BY <2>1
<1>2. ASSUME NEW T \in G, NEW i \in D \ T
      PROVE  T \union {i} \in G
  <2>1. /\ Weight(f, T \union {i}) = Weight(f, T) + f[i]
        /\ Weight(g, T \union {i}) = Weight(g, T) + g[i]
        /\ Weight(h, T \union {i}) = Weight(h, T) + h[i]
    BY <1>f, UnitsAdd DEF Weight
  <2>2. Weight(f, T) \in Nat /\ Weight(g, T) \in Nat /\ Weight(h, T) \in Nat
    BY <1>f, WeightType
  <2>3. h[i] = f[i] + g[i] /\ f[i] \in Nat /\ g[i] \in Nat
    OBVIOUS
  <2>4. Weight(h, T) = Weight(f, T) + Weight(g, T)
    OBVIOUS
  <2>5. Weight(h, T \union {i}) = Weight(f, T \union {i}) + Weight(g, T \union {i})
    BY <2>1, <2>2, <2>3, <2>4
  <2>6. QED
    BY <2>5
<1> HIDE DEF G
<1>3. G \in SUBSET (SUBSET D)
  BY DEF G
<1>4. D \in G
  BY <1>1, <1>2, <1>3, SetInduction
<1>5. QED
  BY <1>4 DEF G

(* Sets that do not meet have as many elements as they weigh together.       *)
LEMMA UnionWeight ==
  ASSUME NEW D, IsFiniteSet(D), NEW row, \A x \in D : IsFiniteSet(row[x]),
         \A x, y \in D : x # y => row[x] \intersect row[y] = {},
         NEW f \in [D -> Nat], \A x \in D : f[x] = Cardinality(row[x])
  PROVE  IsFiniteSet(UNION {row[x] : x \in D}) /\ Cardinality(UNION {row[x] : x \in D}) = Weight(f, D)
<1> DEFINE Un(T) == UNION {row[x] : x \in T}
           G == {T \in SUBSET D : IsFiniteSet(Un(T)) /\ Cardinality(Un(T)) = Weight(f, T)}
<1>f. \A T \in SUBSET D : IsFiniteSet(T)
  BY FS_Subset
<1>1. {} \in G
  <2>1. Un({}) = {}
    OBVIOUS
  <2>2. QED
    BY <2>1, WeightType, FS_EmptySet
<1>2. ASSUME NEW T \in G, NEW i \in D \ T
      PROVE  T \union {i} \in G
  <2>1. Un(T \union {i}) = Un(T) \union row[i]
    OBVIOUS
  <2>2. Un(T) \intersect row[i] = {}
    OBVIOUS
  <2>3. IsFiniteSet(Un(T)) /\ IsFiniteSet(row[i]) /\ Cardinality(Un(T)) = Weight(f, T)
        /\ Cardinality(row[i]) = f[i]
    OBVIOUS
  <2> HIDE DEF Un
  <2>4. /\ IsFiniteSet(Un(T) \union row[i])
        /\ Cardinality(Un(T) \union row[i]) = Cardinality(Un(T)) + Cardinality(row[i]) - Cardinality({})
    BY <2>2, <2>3, FS_Union
  <2>5. Weight(f, T \union {i}) = Weight(f, T) + f[i]
    BY <1>f, UnitsAdd DEF Weight
  <2>6. Weight(f, T) \in Nat /\ f[i] \in Nat
    BY <1>f, WeightType
  <2>7. Cardinality({}) = 0
    BY FS_EmptySet
  <2>a. Cardinality(Un(T) \union row[i]) = Weight(f, T) + f[i]
    BY <2>3, <2>4, <2>6, <2>7
  <2>8. Cardinality(Un(T \union {i})) = Weight(f, T \union {i})
    BY <2>1, <2>5, <2>a
  <2>9. QED
    BY <2>1, <2>4, <2>8
<1> HIDE DEF G
<1>3. G \in SUBSET (SUBSET D)
  BY DEF G
<1>4. D \in G
  BY <1>1, <1>2, <1>3, SetInduction
<1>5. QED
  BY <1>4 DEF G

(* What weighs nothing can be left out.                                      *)
LEMMA WeightWithin ==
  ASSUME NEW D, NEW f \in [D -> Nat], NEW S \in SUBSET D, NEW T \in SUBSET S,
         \A x \in S \ T : f[x] = 0
  PROVE  Weight(f, S) = Weight(f, T)
<1>1. ASSUME NEW p \in Units(f, S)
      PROVE  p \in Units(f, T)
  <2>1. PICK x \in S : p \in {x} \X (1 .. f[x])
    BY DEF Units
  <2>2. x \in T
    <3>1. CASE x \notin T
      <4>1. f[x] = 0
        BY <3>1
      <4>2. 1 .. f[x] = {}
        BY <4>1
      <4>3. QED
        BY <2>1, <4>2
    <3>2. QED
      BY <3>1
  <2>3. QED
    BY <2>1, <2>2 DEF Units
<1>2. Units(f, T) \subseteq Units(f, S)
  BY DEF Units
<1>3. Units(f, S) = Units(f, T)
  BY <1>1, <1>2
<1>4. QED
  BY <1>3 DEF Weight

(* A thing that weighs something makes a set heavier than without it.        *)
LEMMA WeightGains ==
  ASSUME NEW D, NEW f \in [D -> Nat], NEW S \in SUBSET D, IsFiniteSet(S), NEW i \in D \ S
  PROVE  Weight(f, S \union {i}) = Weight(f, S) + f[i]
BY UnitsAdd DEF Weight

(* More tokens need no fewer blocks.                                         *)
LEMMA CdivGrows ==
  ASSUME BlocksAssumption, NEW m \in Nat, NEW n \in Nat, m <= n
  PROVE  Cdiv(m) <= Cdiv(n)
<1> PICK B \in Nat \ {0} : B = BlockSize
  BY DEF BlocksAssumption
<1> DEFINE x == (m + B - 1) \div B
           y == (n + B - 1) \div B
<1>1. x \in Nat /\ y \in Nat
  OBVIOUS
<1>2. m + B - 1 >= B * x
  OBVIOUS
<1>3. n + B - 1 < B * y + B
  OBVIOUS
<1>4. Cdiv(m) = x /\ Cdiv(n) = y
  BY DEF Cdiv
<1> HIDE DEF x, y
<1>5. CASE x > y
  <2>1. B * x >= B * (y + 1)
    BY <1>1, <1>5
  <2>2. B * (y + 1) = B * y + B
    BY <1>1
  <2>3. B * x \in Nat /\ B * y \in Nat
    BY <1>1
  <2>4. QED
    BY <1>2, <1>3, <2>1, <2>2, <2>3
<1>6. QED
  BY <1>1, <1>4, <1>5

(* A sum over a sequence of one or two.                                      *)
LEMMA SumOfFew ==
  ASSUME NEW f, NEW n \in Nat, f \in [1 .. n -> Nat]
  PROVE  /\ n = 0 => SumFunction(f) = 0
         /\ n = 1 => SumFunction(f) = f[1]
         /\ n = 2 => SumFunction(f) = f[1] + f[2]
<1>1. IsFiniteSet(1 .. n)
  BY FS_Interval
<1>2. SumFunction(f) = Weight(f, 1 .. n)
  BY <1>1, SumIsUnits DEF Weight
<1>3. Weight(f, {}) = 0
  BY <1>1, WeightType
<1>4. CASE n = 0
  <2>1. 1 .. n = {}
    BY <1>4
  <2>2. QED
    BY <1>2, <1>3, <1>4, <2>1
<1>5. n >= 1 => Weight(f, {1}) = f[1]
  <2>1. SUFFICES ASSUME n >= 1 PROVE Weight(f, {1}) = f[1]
    OBVIOUS
  <2>2. IsFiniteSet({}) /\ 1 \in (1 .. n) \ {} /\ {} \in SUBSET (1 .. n)
    BY <2>1, FS_EmptySet
  <2>3. Weight(f, {} \union {1}) = Weight(f, {}) + f[1]
    BY <2>2, WeightGains
  <2>4. {} \union {1} = {1} /\ f[1] \in Nat
    BY <2>1
  <2>5. QED
    BY <1>3, <2>3, <2>4
<1>6. CASE n = 1
  <2>1. 1 .. n = {1}
    BY <1>6
  <2>2. QED
    BY <1>2, <1>5, <1>6, <2>1
<1>7. CASE n = 2
  <2> DEFINE A == {1}
  <2>1. IsFiniteSet(A)
    BY FS_Singleton
  <2>2. 2 \in (1 .. n) \ A /\ A \in SUBSET (1 .. n) /\ 1 .. n = A \union {2}
    BY <1>7
  <2>3. Weight(f, A) = f[1]
    BY <1>5, <1>7
  <2> HIDE DEF A
  <2>4. Weight(f, A \union {2}) = Weight(f, A) + f[2]
    BY <2>1, <2>2, WeightGains
  <2>5. SumFunction(f) = Weight(f, A \union {2})
    BY <1>2, <2>2
  <2>6. SumFunction(f) = f[1] + f[2]
    BY <2>3, <2>4, <2>5
  <2>7. QED
    BY <1>7, <2>6
<1>8. QED
  BY <1>4, <1>6, <1>7

(* A sum over a list is one over its elements.                               *)
LEMMA SumOfList ==
  ASSUME NEW X, NEW q, List(q, X), NEW g \in [X -> Nat]
  PROVE  SumFunction([i \in DOMAIN q |-> g[q[i]]]) = Weight(g, Range(q))
<1> DEFINE f == [i \in DOMAIN q |-> g[q[i]]]
           h == [i \in DOMAIN q |-> q[i]]
<1>1. /\ Len(q) \in Nat /\ DOMAIN q = 1 .. Len(q) /\ \A i \in DOMAIN q : q[i] \in X
      /\ \A x : x \in Range(q) <=> \E i \in DOMAIN q : q[i] = x
      /\ \A i, j \in DOMAIN q : q[i] = q[j] => i = j
  BY ListFacts DEF List
<1>2. IsFiniteSet(DOMAIN q)
  BY <1>1, FS_Interval
<1>3. f \in [DOMAIN q -> Nat] /\ h \in [DOMAIN q -> X]
  BY <1>1
<1>4. \A y : y \in Range(q) <=> \E x \in DOMAIN q : h[x] = y
  BY <1>1
<1>5. (\A x, y \in DOMAIN q : h[x] = h[y] => x = y) /\ \A x \in DOMAIN q : f[x] = g[h[x]]
  BY <1>1
<1> HIDE DEF f, h
<1>6. Weight(f, DOMAIN q) = Weight(g, Range(q))
  BY <1>2, <1>3, <1>4, <1>5, WeightRenamed
<1>7. SumFunction(f) = Weight(f, DOMAIN q)
  BY <1>2, <1>3, SumIsUnits DEF Weight
<1>8. QED
  BY <1>6, <1>7 DEF f

-------------------------------------------------------------------------------
\* Whether prepare raises, when the rows it asks for have room.

\* What the server may die of.
Spared(b) == b.fault \in {"none", "no_cpu_blocks"}

Spare(omit) == IF omit THEN 1 ELSE 0

\* What request i of an allocation asks for.
Ask(b, dev, reqs, omit, i) ==
  Cdiv(reqs[i].len - Spare(omit)) - Cardinality(b.table[dev][reqs[i].id])
Taking(reqs, sp, s) == {i \in DOMAIN reqs : Takes(sp, i) = s}

(* Rows never shrink in Alloc, and it raises only for want of blocks, which  *)
(* it does not want if each split has enough.                                *)
LEMMA AllocRaises ==
  ASSUME BlocksAssumption, NEW b \in BlockState, b.fault = "none", NEW S, Parted(b, S),
         NEW dev \in Devices, NEW reqs, Told(reqs), NEW sp \in Nat, NEW omit \in BOOLEAN,
         \A i \in DOMAIN reqs : Ask(b, dev, reqs, omit, i) \in Nat,
         NEW new, new = [i \in DOMAIN reqs |-> Ask(b, dev, reqs, omit, i)]
  PROVE  /\ dev = "cpu" => Spared(Alloc(b, dev, reqs, sp, omit))
         /\ (\A s \in Splits : Weight(new, Taking(reqs, sp, s)) <= Cardinality(b.free[dev][s]))
              => Alloc(b, dev, reqs, sp, omit).fault = "none"
<1> DEFINE Tgt(i) == Cdiv(reqs[i].len - (IF omit THEN 1 ELSE 0))
           Has(i) == Cardinality(b.table[dev][reqs[i].id])
           New(i) == Tgt(i) - Has(i)
           Asked(T) == UNION {{i} \X (1 .. New(i)) : i \in T}
           Split(i) == IF i <= sp THEN 1 ELSE 0
           Of(s) == {i \in DOMAIN reqs : Split(i) = s}
           Got(i) == Slice(b.free[dev][Split(i)],
                           Cardinality(Asked({j \in Of(Split(i)) : j < i})), New(i))
           GotBy(id) == UNION {Got(i) : i \in {j \in DOMAIN reqs : reqs[j].id = id}}
           b2 == [b EXCEPT !.table[dev] = [id \in Ids |-> @[id] \union GotBy(id)],
                           !.free[dev] = [s \in Splits |-> @[s] \ UNION {Got(i) : i \in Of(s)}]]
           tooMany == \E i \in DOMAIN reqs : Has(i) > Tgt(i)
           tooFew == \E s \in Splits : Cardinality(Asked(Of(s))) > Cardinality(b.free[dev][s])
<1>1. Alloc(b, dev, reqs, sp, omit) =
        IF reqs = <<>> THEN b
        ELSE IF tooMany THEN Raise(b, "assertion")
        ELSE IF tooFew THEN Raise(b, IF dev = "gpu" THEN "no_gpu_blocks" ELSE "no_cpu_blocks")
        ELSE b2
  BY Zenon DEF Alloc
<1>2. b2.fault = "none"
  <2> HIDE DEF GotBy, Got, Of
  <2>1. QED
    BY DEF BlockState
<1>3. /\ IsFiniteSet(DOMAIN reqs)
      /\ \A i \in DOMAIN reqs : reqs[i].id \in Ids /\ reqs[i].len \in Nat \ {0} /\ i \in Nat \ {0}
  BY ToldFacts
<1>4. \A i \in DOMAIN reqs : Tgt(i) \in Nat /\ Has(i) \in Nat /\ New(i) = new[i] /\ new[i] \in Nat
  <2> TAKE i \in DOMAIN reqs
  <2>1. reqs[i].len - (IF omit THEN 1 ELSE 0) \in Nat
    BY <1>3
  <2>2. Tgt(i) \in Nat
    BY <2>1, CdivFacts
  <2>3. Has(i) \in Nat
    BY <1>3, RowFinite
  <2>4. New(i) = Ask(b, dev, reqs, omit, i)
    BY DEF Ask, Spare
  <2>5. QED
    BY <2>2, <2>3, <2>4
<1>5. ~tooMany
  <2> SUFFICES ASSUME NEW i \in DOMAIN reqs PROVE ~(Has(i) > Tgt(i))
    OBVIOUS
  <2>1. Tgt(i) \in Nat /\ Has(i) \in Nat /\ New(i) \in Nat
    BY <1>4
  <2> HIDE DEF Tgt, Has
  <2>2. QED
    BY <2>1
<1>6. \A s \in Splits : Asked(Of(s)) = Units(new, Taking(reqs, sp, s))
  <2> TAKE s \in Splits
  <2>1. Of(s) = Taking(reqs, sp, s)
    BY DEF Taking, Takes
  <2>2. \A i \in Of(s) : New(i) = new[i]
    BY <1>4
  <2> HIDE DEF New, Of
  <2>3. QED
    BY <2>1, <2>2 DEF Units
<1>7. \A s \in Splits : Cardinality(Asked(Of(s))) = Weight(new, Taking(reqs, sp, s))
  BY <1>6 DEF Weight
<1>8. Raise(b, "no_cpu_blocks").fault = "no_cpu_blocks"
  BY DEF Raise, BlockState
<1> HIDE DEF tooMany, b2, Asked, Of
<1>9. ASSUME \A s \in Splits : Weight(new, Taking(reqs, sp, s)) <= Cardinality(b.free[dev][s])
      PROVE  ~tooFew
  <2> SUFFICES ASSUME NEW s \in Splits
               PROVE  ~(Cardinality(Asked(Of(s))) > Cardinality(b.free[dev][s]))
    OBVIOUS
  <2>1. b.free[dev][s] \subseteq Blocks(dev)
    BY DEF Parted, Shared
  <2>2. Cardinality(b.free[dev][s]) \in Nat
    BY <2>1, BlocksFinite
  <2>3. new \in [DOMAIN reqs -> Nat]
    BY <1>4
  <2>4. Taking(reqs, sp, s) \in SUBSET DOMAIN reqs /\ IsFiniteSet(Taking(reqs, sp, s))
    BY <1>3, FS_Subset DEF Taking
  <2>5. Weight(new, Taking(reqs, sp, s)) \in Nat
    BY <2>3, <2>4, WeightType
  <2>6. QED
    BY <1>7, <1>9, <2>2, <2>5
<1> HIDE DEF tooFew
<1>10. dev = "cpu" => Spared(Alloc(b, dev, reqs, sp, omit))
  BY <1>1, <1>2, <1>5, <1>8 DEF Spared
<1>11. QED
  BY <1>1, <1>2, <1>5, <1>9, <1>10

(* The first split of the GPU: its free blocks and the rows add up.          *)
LEMMA GpuAddsUp ==
  ASSUME BlocksAssumption, NEW b \in BlockState, Parted(b, {}), NEW Q, IsFiniteSet(Q),
         NEW ids, Named(Q, ids),
         \A id \in Ids : (\A r \in Q : ids[r] # id) => b.table["gpu"][id] = {},
         NEW have \in [Q -> Nat], \A r \in Q : have[r] = Cardinality(b.table["gpu"][ids[r]])
  PROVE  /\ Cardinality(b.free["gpu"][0]) + Weight(have, Q) = GpuBlocks
         /\ Cardinality(b.free["gpu"][0]) \in Nat /\ Weight(have, Q) \in Nat
         /\ 1 \in Splits => Cardinality(b.free["gpu"][1]) = GpuBlocks
<1> DEFINE row == [r \in Q |-> b.table["gpu"][ids[r]]]
           F == b.free["gpu"][0]
           U == UNION {row[r] : r \in Q}
<1>1. "gpu" \in Devices /\ 0 \in Splits
  BY DEF Devices, Splits
<1>2. Shared(b, {}, "gpu", 0) /\ (1 \in Splits => Shared(b, {}, "gpu", 1))
  BY <1>1 DEF Parted
<1>3. \A id : SplitFor({}, "gpu", id) = 0
  BY DEF SplitFor
<1>4. /\ F \subseteq Blocks("gpu")
      /\ \A id \in Ids : b.table["gpu"][id] \subseteq Blocks("gpu") /\ b.table["gpu"][id] \intersect F = {}
      /\ \A x \in Blocks("gpu") : x \in F \/ \E id \in Ids : x \in b.table["gpu"][id]
      /\ \A id1, id2 \in Ids : id1 # id2 => b.table["gpu"][id1] \intersect b.table["gpu"][id2] = {}
  BY <1>2, <1>3 DEF Shared
<1>5. F \union U = Blocks("gpu") /\ F \intersect U = {}
  <2>1. \A r \in Q : ids[r] \in Ids
    BY DEF Named
  <2>2. U \subseteq Blocks("gpu") /\ F \intersect U = {}
    BY <1>4, <2>1
  <2>3. ASSUME NEW x \in Blocks("gpu"), x \notin F
        PROVE  x \in U
    <3>1. PICK id \in Ids : x \in b.table["gpu"][id]
      BY <1>4, <2>3
    <3>2. PICK r \in Q : ids[r] = id
      BY <3>1
    <3>3. QED
      BY <3>1, <3>2
  <2>4. QED
    BY <1>4, <2>2, <2>3
<1>6. IsFiniteSet(U) /\ Cardinality(U) = Weight(have, Q)
  <2>1. \A r \in Q : IsFiniteSet(row[r])
    BY <1>1, RowFinite DEF Named
  <2>a. \A r \in Q : have[r] = Cardinality(row[r])
    OBVIOUS
  <2>2. \A x, y \in Q : x # y => row[x] \intersect row[y] = {}
    BY <1>4 DEF Named
  <2> HIDE DEF row
  <2>3. QED
    BY <2>1, <2>a, <2>2, UnionWeight
<1>7. IsFiniteSet(F) /\ Cardinality(F) \in Nat
  BY <1>1, <1>4, BlocksFinite
<1>8. Cardinality(Blocks("gpu")) = GpuBlocks /\ GpuBlocks \in Nat
  <2>1. GpuBlocks \in Nat /\ Blocks("gpu") = 1 .. GpuBlocks
    BY DEF Blocks, BlocksAssumption
  <2>2. Cardinality(1 .. GpuBlocks) = IF 1 > GpuBlocks THEN 0 ELSE GpuBlocks - 1 + 1
    BY <2>1, FS_Interval
  <2>3. QED
    BY <2>1, <2>2
<1>9. Weight(have, Q) \in Nat
  BY WeightType
<1> HIDE DEF F, U
<1>10. Cardinality(F \union U) = Cardinality(F) + Cardinality(U) - Cardinality({})
  BY <1>5, <1>6, <1>7, FS_Union
<1>11. Cardinality({}) = 0
  BY FS_EmptySet
<1>12. Cardinality(F) + Weight(have, Q) = GpuBlocks
  <2>1. Cardinality(F \union U) = GpuBlocks
    BY <1>5, <1>8
  <2>2. Cardinality(F \union U) = Cardinality(F) + Weight(have, Q) - 0
    BY <1>6, <1>10, <1>11
  <2>3. QED
    BY <1>7, <1>8, <1>9, <2>1, <2>2
<1>13. 1 \in Splits => b.free["gpu"][1] = Blocks("gpu")
  <2> HAVE 1 \in Splits
  <2>1. b.free["gpu"][1] \subseteq Blocks("gpu")
    BY <1>2 DEF Shared
  <2>2. \A x \in Blocks("gpu") : x \in b.free["gpu"][1] \/ \E id \in Ids : SplitFor({}, "gpu", id) = 1
    BY <1>2 DEF Shared
  <2>3. \A x \in Blocks("gpu") : x \in b.free["gpu"][1]
    BY <1>3, <2>2
  <2>4. QED
    BY <2>1, <2>3
<1>14. QED
  BY <1>7, <1>8, <1>9, <1>12, <1>13 DEF F

(* Some of the places of a sequence weigh what the things there weigh.       *)
LEMMA WeightOfPlaces ==
  ASSUME NEW D, NEW f \in [D -> Nat], NEW O \in SUBSET D, IsFiniteSet(O),
         NEW X, NEW g \in [X -> Nat], NEW q, \A i \in O : q[i] \in X,
         NEW E, \A y : y \in E <=> \E i \in O : q[i] = y,
         \A i, j \in O : q[i] = q[j] => i = j,
         \A i \in O : f[i] = g[q[i]]
  PROVE  Weight(f, O) = Weight(g, E)
<1> DEFINE e == [i \in O |-> f[i]]
           h == [i \in O |-> q[i]]
<1>1. e \in [O -> Nat] /\ h \in [O -> X] /\ O \subseteq O
  OBVIOUS
<1>2. \A i \in O : f[i] = e[i]
  OBVIOUS
<1>3. \A y : y \in E <=> \E i \in O : h[i] = y
  OBVIOUS
<1>4. \A i, j \in O : h[i] = h[j] => i = j
  OBVIOUS
<1>5. \A i \in O : e[i] = g[h[i]]
  OBVIOUS
<1> HIDE DEF e, h
<1>6. Weight(f, O) = Weight(e, O)
  BY <1>1, <1>2, WeightSame
<1>7. Weight(e, O) = Weight(g, E)
  BY ONLY IsFiniteSet(O), g \in [X -> Nat], <1>1, <1>3, <1>4, <1>5, WeightRenamed
<1>8. QED
  BY <1>6, <1>7

\* The blocks each request has on the GPU once those of q behind the first sp
\* have what they need, and what all would need.
Behind(q, sp, r) == \E i \in 1 .. Len(q) : i > sp /\ q[i] = r
Want(Q, q, sp, on, tok, omit) ==
  [r \in Q |-> IF Behind(q, sp, r) THEN Cdiv(SeqLen(r) - Spare(omit))
               ELSE IF on[r] = "gpu" THEN Cdiv(tok[r]) ELSE 0]
Whole(Q, omit) == [r \in Q |-> Cdiv(SeqLen(r) - Spare(omit))]
FirstOf(q, sp) == {q[i] : i \in {j \in 1 .. Len(q) : j <= sp}}

\* There is room for q in both splits.
Room(Q, q, sp, on, tok, omit) ==
  /\ Weight(Want(Q, q, sp, on, tok, omit), Q) <= GpuBlocks
  /\ Weight(Whole(Q, omit), FirstOf(q, sp)) <= GpuBlocks

Growing(q, tok, omit) == \A r \in Range(q) : tok[r] \in Nat /\ tok[r] <= SeqLen(r) - Spare(omit)

(* What the requests of a queue ask for on the device they are on.           *)
LEMMA AskedOf ==
  ASSUME BlocksAssumption, NEW b, NEW S \in SUBSET Ids, NEW Q, NEW ids, NEW on, NEW tok,
         Named(Q, ids), Sized(Q), Holds(b, S, Q, ids, on, tok),
         NEW q, List(q, Q), NEW dev \in Devices, \A r \in Range(q) : on[r] = dev,
         NEW omit \in BOOLEAN, Growing(q, tok, omit)
  PROVE  \A i \in 1 .. Len(q) :
           /\ Ask(b, dev, Seen(ids, q), omit, i) = Cdiv(SeqLen(q[i]) - Spare(omit)) - Cdiv(tok[q[i]])
           /\ Ask(b, dev, Seen(ids, q), omit, i) \in Nat
           /\ Cdiv(SeqLen(q[i]) - Spare(omit)) \in Nat /\ Cdiv(tok[q[i]]) \in Nat
<1> TAKE i \in 1 .. Len(q)
<1>1. /\ Seen(ids, q)[i].id = ids[q[i]] /\ Seen(ids, q)[i].len = SeqLen(q[i])
      /\ q[i] \in Q /\ q[i] \in Range(q)
  BY SeenFacts
<1>2. Cardinality(b.table[dev][ids[q[i]]]) = Cdiv(tok[q[i]])
  BY <1>1 DEF Holds
<1>3. tok[q[i]] \in Nat /\ SeqLen(q[i]) - Spare(omit) \in Nat /\ tok[q[i]] <= SeqLen(q[i]) - Spare(omit)
  BY <1>1 DEF Growing, Sized, Spare
<1>4. /\ Cdiv(SeqLen(q[i]) - Spare(omit)) \in Nat /\ Cdiv(tok[q[i]]) \in Nat
      /\ Cdiv(tok[q[i]]) <= Cdiv(SeqLen(q[i]) - Spare(omit))
  BY <1>3, CdivFacts, CdivGrows
<1>5. Ask(b, dev, Seen(ids, q), omit, i) = Cdiv(SeqLen(q[i]) - Spare(omit)) - Cdiv(tok[q[i]])
  BY <1>1, <1>2 DEF Ask
<1>6. QED
  BY <1>4, <1>5

(* On the CPU nothing but blocks can be missing.                             *)
LEMMA RoomOnCpu ==
  ASSUME BlocksAssumption, NEW b, NEW S \in SUBSET Ids, NEW Q, NEW ids, NEW on, NEW tok,
         Named(Q, ids), Sized(Q), Holds(b, S, Q, ids, on, tok),
         NEW q, List(q, Q), \A r \in Range(q) : on[r] = "cpu",
         NEW omit \in BOOLEAN, Growing(q, tok, omit)
  PROVE  Spared(Alloc(b, "cpu", Seen(ids, q), 0, omit))
<1> DEFINE reqs == Seen(ids, q)
           new == [i \in DOMAIN reqs |-> Ask(b, "cpu", reqs, omit, i)]
<1>1. Told(reqs) /\ DOMAIN reqs = 1 .. Len(q)
  BY SeenFacts
<1>2. "cpu" \in Devices /\ 0 \in Nat
  BY DEF Devices
<1>3. \A i \in DOMAIN reqs : Ask(b, "cpu", reqs, omit, i) \in Nat
  BY <1>1, <1>2, AskedOf
<1>4. b \in BlockState /\ b.fault = "none" /\ Parted(b, S)
  BY DEF Holds
<1> HIDE DEF reqs
<1>5. QED
  BY <1>1, <1>2, <1>3, <1>4, AllocRaises DEF reqs

(* On the GPU there are enough if there is room.                             *)
LEMMA RoomOnGpu ==
  ASSUME BlocksAssumption, NEW b, NEW Q, IsFiniteSet(Q), NEW ids, NEW on, NEW tok \in [Q -> Nat],
         Named(Q, ids), Sized(Q), Holds(b, {}, Q, ids, on, tok),
         NEW q, List(q, Q), \A r \in Range(q) : on[r] = "gpu",
         NEW omit \in BOOLEAN, Growing(q, tok, omit),
         NEW sp \in Nat, \A i \in 1 .. Len(q) : i <= sp => tok[q[i]] = 0,
         Room(Q, q, sp, on, tok, omit)
  PROVE  Fine(Alloc(b, "gpu", Seen(ids, q), sp, omit))
<1>r. PICK reqs : reqs = Seen(ids, q)
  OBVIOUS
<1>w. PICK want : want = Want(Q, q, sp, on, tok, omit)
  OBVIOUS
<1>u. PICK whole : whole = Whole(Q, omit)
  OBVIOUS
<1> DEFINE D == 1 .. Len(q)
           have == [r \in Q |-> IF on[r] = "gpu" THEN Cdiv(tok[r]) ELSE 0]
           O0 == Taking(reqs, sp, 0)
           O1 == Taking(reqs, sp, 1)
           E0 == {r \in Q : Behind(q, sp, r)}
           E1 == FirstOf(q, sp)
           more == [r \in Q |-> IF Behind(q, sp, r) THEN want[r] - have[r] ELSE 0]
<1>n. PICK new : new = [i \in D |-> Ask(b, "gpu", reqs, omit, i)]
  OBVIOUS
<1>1. Told(reqs) /\ DOMAIN reqs = D /\ \A i \in D : q[i] \in Q /\ q[i] \in Range(q)
  BY <1>r, SeenFacts
<1>2. "gpu" \in Devices /\ Len(q) \in Nat /\ {} \in SUBSET Ids /\ IsFiniteSet(D)
  BY ListFacts, FS_Interval DEF Devices
<1>3. \A i \in D : /\ new[i] = Cdiv(SeqLen(q[i]) - Spare(omit)) - Cdiv(tok[q[i]])
                   /\ new[i] \in Nat /\ Cdiv(SeqLen(q[i]) - Spare(omit)) \in Nat
  <2>1. \A i \in 1 .. Len(q) :
           /\ Ask(b, "gpu", Seen(ids, q), omit, i) = Cdiv(SeqLen(q[i]) - Spare(omit)) - Cdiv(tok[q[i]])
           /\ Ask(b, "gpu", Seen(ids, q), omit, i) \in Nat
           /\ Cdiv(SeqLen(q[i]) - Spare(omit)) \in Nat /\ Cdiv(tok[q[i]]) \in Nat
    BY <1>2, AskedOf
  <2>2. QED
    BY <1>r, <1>n, <2>1
<1>4. /\ b \in BlockState /\ b.fault = "none" /\ Parted(b, {})
      /\ \A id \in Ids : (\A r \in Q : ids[r] # id) => b.table["gpu"][id] = {}
      /\ \A r \in Q : Cardinality(b.table["gpu"][ids[r]]) = have[r]
  BY <1>2 DEF Holds
<1>5. have \in [Q -> Nat]
  BY CdivFacts
<1>6. whole \in [Q -> Nat]
  <2>1. \A r \in Q : SeqLen(r) - Spare(omit) \in Nat
    BY DEF Sized, Spare
  <2>2. QED
    BY <1>u, <2>1, CdivFacts DEF Whole
<1>7. \A r \in Q : /\ want[r] = IF Behind(q, sp, r) THEN whole[r] ELSE have[r]
                   /\ Behind(q, sp, r) => have[r] <= whole[r]
  <2> TAKE r \in Q
  <2>1. want[r] = IF Behind(q, sp, r) THEN whole[r] ELSE have[r]
    BY <1>w, <1>u DEF Want, Whole
  <2>2. ASSUME Behind(q, sp, r)
        PROVE  have[r] <= whole[r]
    <3>1. PICK i \in D : q[i] = r
      BY <2>2 DEF Behind
    <3>2. tok[r] <= SeqLen(r) - Spare(omit) /\ tok[r] \in Nat /\ SeqLen(r) - Spare(omit) \in Nat
          /\ on[r] = "gpu"
      BY <1>1, <3>1 DEF Growing, Sized, Spare
    <3>3. QED
      BY <1>u, <3>2, CdivGrows DEF Whole
  <2>3. QED
    BY <2>1, <2>2
<1> HIDE DEF have
<1>8. more \in [Q -> Nat] /\ want \in [Q -> Nat] /\ \A r \in Q : want[r] = more[r] + have[r]
  <2>1. \A r \in Q : have[r] \in Nat /\ whole[r] \in Nat
    BY <1>5, <1>6
  <2>2. \A r \in Q : want[r] \in Nat /\ more[r] \in Nat /\ want[r] = more[r] + have[r]
    BY <1>7, <2>1
  <2>3. want = [r \in Q |-> want[r]]
    BY <1>w DEF Want
  <2>4. QED
    BY <2>2, <2>3
<1> HIDE DEF more
<1>9. Weight(want, Q) = Weight(more, Q) + Weight(have, Q)
  <2>1. have \in [Q -> Nat]
    BY <1>5
  <2>2. more \in [Q -> Nat]
    BY <1>8
  <2>3. want \in [Q -> Nat]
    BY <1>8
  <2>4. \A r \in Q : want[r] = more[r] + have[r]
    BY <1>8
  <2>5. QED
    BY ONLY <2>1, <2>2, <2>3, <2>4, IsFiniteSet(Q), WeightSum
<1>10. /\ Cardinality(b.free["gpu"][0]) + Weight(have, Q) = GpuBlocks
       /\ Cardinality(b.free["gpu"][0]) \in Nat /\ Weight(have, Q) \in Nat
       /\ 1 \in Splits => Cardinality(b.free["gpu"][1]) = GpuBlocks
  <2>1. \A r \in Q : have[r] = Cardinality(b.table["gpu"][ids[r]])
    BY <1>4
  <2>2. \A id \in Ids : (\A r \in Q : ids[r] # id) => b.table["gpu"][id] = {}
    BY <1>4
  <2>3. b \in BlockState /\ Parted(b, {})
    BY <1>4
  <2>4. QED
    BY <1>5, <2>1, <2>2, <2>3, GpuAddsUp
<1>11. O0 = {i \in D : i > sp} /\ O1 = {i \in D : i <= sp} /\ IsFiniteSet(O0) /\ IsFiniteSet(O1)
  <2>1. O0 = {i \in D : i > sp} /\ O1 = {i \in D : i <= sp}
    BY <1>1, <1>2 DEF Taking, Takes
  <2>2. QED
    BY <1>2, <2>1, FS_Subset
<1>12. new \in [D -> Nat]
  BY <1>3, <1>n
<1> HIDE DEF O0, O1
<1>13. Weight(new, O0) = Weight(more, E0)
  <2>3. \A y : y \in E0 <=> \E i \in O0 : q[i] = y
    BY <1>1, <1>11 DEF Behind
  <2>4. \A i, j \in O0 : q[i] = q[j] => i = j
    BY <1>11 DEF List
  <2>5. \A i \in O0 : new[i] = more[q[i]]
    <3> TAKE i \in O0
    <3>1. Behind(q, sp, q[i]) /\ q[i] \in Q /\ q[i] \in Range(q)
      BY <1>1, <1>11 DEF Behind
    <3>2. on[q[i]] = "gpu"
      BY <3>1
    <3>3. more[q[i]] = whole[q[i]] - have[q[i]]
      BY <1>7, <3>1 DEF more
    <3>4. whole[q[i]] = Cdiv(SeqLen(q[i]) - Spare(omit)) /\ have[q[i]] = Cdiv(tok[q[i]])
      BY <1>u, <3>1, <3>2 DEF Whole, have
    <3>5. QED
      BY <1>3, <1>11, <3>3, <3>4
  <2>6. O0 \in SUBSET D /\ IsFiniteSet(O0) /\ \A i \in O0 : q[i] \in Q
    BY <1>1, <1>11
  <2>g. more \in [Q -> Nat]
    BY <1>8
  <2> HIDE DEF D, E0
  <2>7. QED
    BY ONLY <1>12, <2>3, <2>4, <2>5, <2>6, <2>g, WeightOfPlaces
<1>14. Weight(new, O1) = Weight(whole, E1)
  <2>3. \A y : y \in E1 <=> \E i \in O1 : q[i] = y
    BY <1>1, <1>11 DEF FirstOf
  <2>4. \A i, j \in O1 : q[i] = q[j] => i = j
    BY <1>11 DEF List
  <2>5. \A i \in O1 : new[i] = whole[q[i]]
    <3> TAKE i \in O1
    <3>1. q[i] \in Q /\ tok[q[i]] = 0
      BY <1>1, <1>11
    <3>2. whole[q[i]] = Cdiv(SeqLen(q[i]) - Spare(omit)) /\ Cdiv(tok[q[i]]) = 0
      BY <1>u, <3>1, CdivFacts DEF Whole
    <3>3. QED
      BY <1>3, <1>11, <3>2
  <2>6. O1 \in SUBSET D /\ IsFiniteSet(O1) /\ \A i \in O1 : q[i] \in Q
    BY <1>1, <1>11
  <2>g. whole \in [Q -> Nat]
    BY <1>6
  <2> HIDE DEF D, E1
  <2>7. QED
    BY ONLY <1>12, <2>3, <2>4, <2>5, <2>6, <2>g, WeightOfPlaces
<1>15. Weight(more, E0) <= Weight(more, Q) /\ Weight(more, E0) \in Nat /\ Weight(more, Q) \in Nat
  <2>1. IsFiniteSet(E0) /\ E0 \in SUBSET Q
    BY FS_Subset
  <2>2. QED
    BY <1>8, <2>1, WeightSubset, WeightType
<1>16. Weight(want, Q) <= GpuBlocks /\ Weight(whole, E1) <= GpuBlocks /\ GpuBlocks \in Nat
  BY <1>w, <1>u DEF Room, BlocksAssumption
<1>17. Weight(new, O0) <= Cardinality(b.free["gpu"][0])
  BY <1>9, <1>10, <1>13, <1>15, <1>16
<1>18. \A s \in Splits : Weight(new, Taking(reqs, sp, s)) <= Cardinality(b.free["gpu"][s])
  <2> TAKE s \in Splits
  <2>1. s = 0 \/ s = 1
    BY DEF Splits
  <2>2. CASE s = 0
    BY <1>17, <2>2 DEF O0
  <2>3. CASE s = 1
    BY <1>10, <1>14, <1>16, <2>3 DEF O1
  <2>4. QED
    BY <2>1, <2>2, <2>3
<1>19. new = [i \in DOMAIN reqs |-> Ask(b, "gpu", reqs, omit, i)]
       /\ \A i \in DOMAIN reqs : Ask(b, "gpu", reqs, omit, i) \in Nat
  BY <1>1, <1>n, <1>12
<1>a. Told(reqs)
  BY <1>1
<1>20. QED
  BY <1>a, <1>2, <1>4, <1>18, <1>19, <1>r, AllocRaises DEF Fine

\* The tokens that stay when the rows of q are given back.
Dropped(Q, q, tok) == [r \in Q |-> IF r \in Range(q) THEN 0 ELSE tok[r]]

(* Giving back the rows on one side of a swap.                               *)
LEMMA GiveBack ==
  ASSUME BlocksAssumption, NEW b, NEW S \in SUBSET Ids, NEW Q, NEW ids, NEW on, NEW tok,
         Named(Q, ids), Sized(Q), Holds(b, S, Q, ids, on, tok),
         NEW q, List(q, Q), NEW isOut, NEW useItm, From(useItm) \in Splits, NEW omit \in BOOLEAN,
         CanMove(S, ids, on, tok, q, isOut, useItm, omit)
  PROVE  Holds(Free(b, Side(isOut), Seen(ids, q), From(useItm)), Without(S, Side(isOut), Seen(ids, q)),
               Q, ids, Across(Q, q, on, isOut), Dropped(Q, q, tok))
<1> DEFINE reqs == Seen(ids, q)
           src == Side(isOut)
           S2 == Without(S, src, reqs)
           freed == Free(b, src, reqs, From(useItm))
           on2 == Across(Q, q, on, isOut)
           tok2 == Dropped(Q, q, tok)
<1>1. /\ Told(reqs) /\ DOMAIN reqs = 1 .. Len(q)
      /\ \A i \in 1 .. Len(q) : reqs[i].id = ids[q[i]] /\ q[i] \in Q /\ q[i] \in Range(q)
  BY SeenFacts
<1>2. \A x : x \in Range(q) <=> \E i \in 1 .. Len(q) : q[i] = x
  BY ListFacts
<1>3. src \in Devices /\ Other(isOut) \in Devices /\ src # Other(isOut)
      /\ \A d \in Devices : d = src \/ d = Other(isOut)
  BY DEF Side, Other, Devices
<1>b. b \in BlockState /\ Parted(b, S) /\ b.fault = "none"
  BY DEF Holds
<1>c. \A r \in Range(q) : on[r] = src /\ SplitFor(S, src, ids[r]) = From(useItm)
  BY DEF CanMove
<1> HIDE DEF reqs, src
<1>5. \A i \in DOMAIN reqs : SplitFor(S, src, reqs[i].id) = From(useItm)
  BY <1>1, <1>c
<1>6. Parted(freed, S2) /\ Emptied(b, src, reqs, freed)
  BY <1>1, <1>3, <1>5, <1>b, FreeLemma
<1>7. freed \in BlockState /\ freed.fault = "none" /\ freed.copies = b.copies
  BY <1>1, <1>3, <1>b, FreeTyped
<1> HIDE DEF freed, S2
<1>8. ASSUME NEW d \in Devices, NEW r \in Q
      PROVE  Cardinality(freed.table[d][ids[r]]) = IF on2[r] = d THEN Cdiv(tok2[r]) ELSE 0
  <2>0. ids[r] \in Ids /\ Cdiv(0) = 0 /\ Cardinality({}) = 0
    BY CdivFacts, FS_EmptySet DEF Named
  <2>b. Cardinality(b.table[d][ids[r]]) = IF on[r] = d THEN Cdiv(tok[r]) ELSE 0
    BY DEF Holds
  <2>1. CASE r \in Range(q)
    <3>1. PICK i \in DOMAIN reqs : reqs[i].id = ids[r]
      BY <1>1, <1>2, <2>1
    <3>2. on2[r] = Other(isOut) /\ tok2[r] = 0 /\ on[r] = src
      BY <1>c, <2>1 DEF Across, Dropped
    <3>3. CASE d = src
      <4>1. freed.table[d][ids[r]] = {}
        BY <1>6, <2>0, <3>1, <3>3 DEF Emptied
      <4>2. QED
        BY <1>3, <2>0, <3>2, <3>3, <4>1
    <3>4. CASE d # src
      <4>1. freed.table[d][ids[r]] = b.table[d][ids[r]]
        BY <1>6, <2>0, <3>4 DEF Emptied
      <4>2. QED
        BY <1>3, <2>0, <2>b, <3>2, <3>4, <4>1
    <3>5. QED
      BY <3>3, <3>4
  <2>2. CASE r \notin Range(q)
    <3>1. \A i \in DOMAIN reqs : reqs[i].id # ids[r]
      BY <1>1, <2>2 DEF Named
    <3>2. freed.table[d][ids[r]] = b.table[d][ids[r]]
      BY <1>6, <2>0, <3>1 DEF Emptied
    <3>3. on2[r] = on[r] /\ tok2[r] = tok[r]
      BY <2>2 DEF Across, Dropped
    <3>4. QED
      BY <2>b, <3>2, <3>3
  <2>3. QED
    BY <2>1, <2>2
<1>9. ASSUME NEW d \in Devices, NEW id \in Ids, \A r \in Q : ids[r] # id
      PROVE  freed.table[d][id] = {}
  <2>1. freed.table[d][id] = {} \/ freed.table[d][id] = b.table[d][id]
    BY <1>6 DEF Emptied
  <2>2. QED
    BY <1>9, <2>1 DEF Holds
<1>10. \A c \in freed.copies : c.src # {} /\ Cardinality(c.src) = Cardinality(c.dst)
  BY <1>7 DEF Holds
<1> HIDE DEF on2, tok2
<1>11. Holds(freed, S2, Q, ids, on2, tok2)
  BY <1>6, <1>7, <1>8, <1>9, <1>10 DEF Holds
<1>12. QED
  BY <1>11 DEF S2, on2, tok2, freed, reqs, src

(* A swap to the CPU.                                                        *)
LEMMA SwapOutSpared ==
  ASSUME BlocksAssumption, NEW b, NEW S \in SUBSET Ids, NEW Q, NEW ids, NEW on, NEW tok,
         Named(Q, ids), Sized(Q), Holds(b, S, Q, ids, on, tok),
         NEW q, List(q, Q), NEW useItm, From(useItm) \in Splits, NEW omit \in BOOLEAN,
         CanMove(S, ids, on, tok, q, TRUE, useItm, omit)
  PROVE  Spared(SwapBlocks(b, Seen(ids, q), TRUE, useItm, omit))
<1> DEFINE freed == Free(b, Side(TRUE), Seen(ids, q), From(useItm))
           S2 == Without(S, Side(TRUE), Seen(ids, q))
           on2 == Across(Q, q, on, TRUE)
           tok2 == Dropped(Q, q, tok)
<1>1. Holds(freed, S2, Q, ids, on2, tok2)
  BY GiveBack
<1>2. S2 \in SUBSET Ids
  BY DEF Without
<1>3. \A r \in Range(q) : r \in Q
  BY ListFacts
<1>4. \A r \in Range(q) : on2[r] = "cpu"
  BY <1>3 DEF Across, Other
<1>5. Growing(q, tok2, omit)
  <2>1. \A r \in Range(q) : tok2[r] = 0 /\ SeqLen(r) - Spare(omit) \in Nat
    BY <1>3 DEF Dropped, Sized, Spare
  <2>2. QED
    BY <2>1 DEF Growing
<1>6. Told(Seen(ids, q)) /\ b \in BlockState
  BY SeenFacts DEF Holds
<1>7. Swapped(b, Seen(ids, q), TRUE, SwapBlocks(b, Seen(ids, q), TRUE, useItm, omit),
              Moved(b, Seen(ids, q), TRUE, useItm, omit))
  BY <1>6, SwapTyped
<1>8. Moved(b, Seen(ids, q), TRUE, useItm, omit) = Alloc(freed, "cpu", Seen(ids, q), 0, omit)
  BY DEF Moved, Other
<1> HIDE DEF freed, S2, on2, tok2
<1>9. Spared(Alloc(freed, "cpu", Seen(ids, q), 0, omit))
  BY <1>1, <1>2, <1>4, <1>5, RoomOnCpu
<1>10. QED
  BY <1>7, <1>8, <1>9 DEF Swapped, Spared

(* A swap to the GPU, for which there is room.                               *)
LEMMA SwapInSpared ==
  ASSUME BlocksAssumption, NEW b, NEW Q, IsFiniteSet(Q), NEW ids, NEW on, NEW tok \in [Q -> Nat],
         Named(Q, ids), Sized(Q), Holds(b, {}, Q, ids, on, tok),
         NEW q, List(q, Q), CanMove({}, ids, on, tok, q, FALSE, FALSE, TRUE),
         Room(Q, q, 0, Across(Q, q, on, FALSE), Dropped(Q, q, tok), TRUE)
  PROVE  Spared(SwapBlocks(b, Seen(ids, q), FALSE, FALSE, TRUE))
<1> DEFINE freed == Free(b, Side(FALSE), Seen(ids, q), From(FALSE))
           on2 == Across(Q, q, on, FALSE)
           tok2 == Dropped(Q, q, tok)
<1>0. {} \in SUBSET Ids /\ From(FALSE) \in Splits /\ TRUE \in BOOLEAN /\ 0 \in Nat
  BY SplitOfItm
<1>1. Holds(freed, {}, Q, ids, on2, tok2)
  <2>1. Holds(freed, Without({}, Side(FALSE), Seen(ids, q)), Q, ids, on2, tok2)
    BY <1>0, GiveBack
  <2>2. Without({}, Side(FALSE), Seen(ids, q)) = {}
    BY DEF Without
  <2>3. QED
    BY <2>1, <2>2
<1>3. \A r \in Range(q) : r \in Q
  BY ListFacts
<1>4. \A r \in Range(q) : on2[r] = "gpu"
  BY <1>3 DEF Across, Other
<1>5. Growing(q, tok2, TRUE) /\ tok2 \in [Q -> Nat]
  <2>1. \A r \in Range(q) : tok2[r] \in Nat /\ tok2[r] <= SeqLen(r) - Spare(TRUE)
    BY <1>3 DEF Dropped, Sized, Spare
  <2>2. tok2 \in [Q -> Nat]
    BY DEF Dropped
  <2>3. Growing(q, tok2, TRUE)
    BY <2>1 DEF Growing
  <2>4. QED
    BY <2>2, <2>3
<1>6. Told(Seen(ids, q)) /\ b \in BlockState
  BY SeenFacts DEF Holds
<1>7. Swapped(b, Seen(ids, q), FALSE, SwapBlocks(b, Seen(ids, q), FALSE, FALSE, TRUE),
              Moved(b, Seen(ids, q), FALSE, FALSE, TRUE))
  BY <1>0, <1>6, SwapTyped
<1>8. Moved(b, Seen(ids, q), FALSE, FALSE, TRUE) = Alloc(freed, "gpu", Seen(ids, q), 0, TRUE)
  BY DEF Moved, Other
<1>r. Room(Q, q, 0, on2, tok2, TRUE)
  OBVIOUS
<1>i. \A i \in 1 .. Len(q) : i <= 0 => tok2[q[i]] = 0
  OBVIOUS
<1> HIDE DEF freed, on2, tok2
<1>9. Fine(Alloc(freed, "gpu", Seen(ids, q), 0, TRUE))
  BY <1>0, <1>1, <1>4, <1>5, <1>r, <1>i, RoomOnGpu
<1>10. QED
  BY <1>7, <1>8, <1>9 DEF Swapped, Spared, Fine

(* The blocks of a batch, for which there is room.                           *)
LEMMA BatchSpared ==
  ASSUME BlocksAssumption, NEW b, NEW S \in SUBSET Ids, NEW Q, IsFiniteSet(Q),
         NEW ids, NEW on, NEW tok \in [Q -> Nat],
         Named(Q, ids), Sized(Q), Holds(b, S, Q, ids, on, tok),
         NEW batch, BatchShape(Q, batch), BatchReady(S, on, tok, batch),
         \A r \in Q : tok[r] <= SeqLen(r),
         OnGpu(batch) = <<>> \/ Room(Q, OnGpu(batch), Through(batch), on, tok, FALSE)
  PROVE  Spared(AllocBlocksForBatch(b, SeenBatch(ids, batch)))
<1> DEFINE b1 == Alloc(b, "gpu", Seen(ids, OnGpu(batch)), Through(batch), FALSE)
           c == batch.cdec
           g == OnGpu(batch)
           sp == Through(batch)
           S1 == S \union FirstIds(Seen(ids, g), sp)
           tok1 == Stored(Q, g, tok)
<1>1. List(g, Q) /\ List(c, Q)
  BY DEF BatchShape
<1>2. "gpu" \in Devices /\ "cpu" \in Devices /\ 0 \in Nat /\ FALSE \in BOOLEAN
  BY DEF Devices
<1>b. b \in BlockState /\ b.fault = "none"
  BY DEF Holds
<1>3. AllocBlocksForBatch(b, SeenBatch(ids, batch)) = Alloc(b1, "cpu", Seen(ids, c), 0, FALSE)
  BY <1>b, BatchTyped
<1>4. sp \in Nat /\ (sp > 0 => ExtraLayer) /\ (sp > 0 => sp = Len(batch.cprf))
  BY SeenBatchFacts DEF Through
<1>5. \A r \in Range(g) : on[r] = "gpu" /\ r \in Q
  BY <1>1, ListFacts DEF BatchReady
<1>6. \A i \in 1 .. Len(g) : IF i <= sp THEN tok[g[i]] = 0 ELSE SplitFor(S, "gpu", ids[g[i]]) = 0
  <2> TAKE i \in 1 .. Len(g)
  <2>1. CASE i <= sp
    <3>1. i <= Len(batch.cprf)
      BY <1>4, <2>1
    <3>2. g[i] \in Range(batch.cprf)
      BY <3>1, SeenBatchFacts
    <3>3. QED
      BY <2>1, <3>2 DEF BatchReady
  <2>2. CASE ~(i <= sp)
    <3>1. g # <<>>
      BY <1>1, ListNonempty
    <3>2. S = {}
      BY <3>1 DEF BatchReady
    <3>3. QED
      BY <2>2, <3>2 DEF SplitFor
  <2>3. QED
    BY <2>1, <2>2
<1>7. \A r \in Q : tok[r] \in Nat /\ SeqLen(r) \in Nat /\ tok[r] <= SeqLen(r) - Spare(FALSE)
  BY DEF Sized, Spare
<1>8. Growing(g, tok, FALSE)
  BY <1>5, <1>7 DEF Growing
<1>r. BatchReady(S, on, tok, batch)
  OBVIOUS
<1> HIDE DEF g, sp
<1>9. Fine(b1)
  <2>1. CASE g = <<>>
    <3>1. Seen(ids, g) = <<>>
      BY <1>1, <2>1, SeenEmpty
    <3>2. b1 = b
      BY <3>1 DEF Alloc, g
    <3>3. QED
      BY <1>b, <3>2 DEF Fine
  <2>2. CASE g # <<>>
    <3>1. S = {}
      BY <1>r, <2>2 DEF BatchReady, g
    <3>2. Room(Q, g, sp, on, tok, FALSE)
      BY <2>2 DEF g, sp
    <3>3. Holds(b, {}, Q, ids, on, tok)
      BY <3>1
    <3>4. \A i \in 1 .. Len(g) : i <= sp => tok[g[i]] = 0
      BY <1>6
    <3>5. Fine(Alloc(b, "gpu", Seen(ids, g), sp, FALSE))
      BY <1>1, <1>2, <1>4, <1>5, <1>8, <3>2, <3>3, <3>4, RoomOnGpu
    <3>6. QED
      BY <3>5 DEF g, sp
  <2>3. QED
    BY <2>1, <2>2
<1>10. Holds(b1, S1, Q, ids, on, tok1)
  <2>1. CanTake(S, ids, on, tok, g, "gpu", sp)
    BY <1>4, <1>5, <1>6 DEF CanTake
  <2>2. Fine(Alloc(b, "gpu", Seen(ids, g), sp, FALSE))
    BY <1>9 DEF g, sp
  <2>3. Holds(Alloc(b, "gpu", Seen(ids, g), sp, FALSE), S \union FirstIds(Seen(ids, g), sp),
              Q, ids, on, Stored(Q, g, tok))
    BY <1>1, <1>2, <1>4, <2>1, <2>2, Grow
  <2>4. QED
    BY <2>3 DEF g, sp
<1>11. S1 \in SUBSET Ids
  <2>1. DOMAIN Seen(ids, g) = 1 .. Len(g) /\ \A i \in 1 .. Len(g) : Seen(ids, g)[i].id \in Ids
    BY <1>1, SeenFacts DEF Named
  <2>2. QED
    BY <2>1 DEF FirstIds
<1>12. Growing(c, tok1, FALSE)
  <2>1. \A r \in Q : tok1[r] = tok[r] \/ tok1[r] = SeqLen(r)
    BY DEF Stored
  <2>2. \A r \in Range(c) : r \in Q
    BY <1>1, ListFacts
  <2>3. \A r \in Q : SeqLen(r) <= SeqLen(r) - Spare(FALSE)
    BY <1>7 DEF Spare
  <2> HIDE DEF tok1
  <2>4. \A r \in Q : tok1[r] \in Nat /\ tok1[r] <= SeqLen(r) - Spare(FALSE)
    BY <1>7, <2>1, <2>3
  <2>5. QED
    BY <2>2, <2>4 DEF Growing
<1>13. \A r \in Range(c) : on[r] = "cpu"
  BY <1>r DEF BatchReady
<1> HIDE DEF b1, S1, tok1, c
<1>14. Spared(Alloc(b1, "cpu", Seen(ids, c), 0, FALSE))
  BY <1>1, <1>2, <1>10, <1>11, <1>12, <1>13, RoomOnCpu
<1>15. QED
  BY <1>3, <1>14

(* A step of prepare on a state in which something is raised already.        *)
LEMMA StepsKeepFault ==
  ASSUME NEW x \in BlockState, x.fault # "none"
  PROVE  /\ \A bs, i : AllocStep(x, bs, i).fault = x.fault
         /\ \A bs, i : SwapStep(x, bs, i).fault = x.fault
<1>1. ASSUME NEW y, y.fault = x.fault, NEW reqs, NEW o, NEW u, NEW om
      PROVE  SwapBlocks(y, reqs, o, u, om).fault = x.fault
  <2> DEFINE s == IF o THEN "gpu" ELSE "cpu"
             d == IF o THEN "cpu" ELSE "gpu"
             f == IF u THEN 1 ELSE 0
  <2>1. Free(y, s, reqs, f) = y
    BY <1>1 DEF Free
  <2>2. Alloc(y, d, reqs, 0, om) = y
    BY <1>1 DEF Alloc
  <2>3. QED
    BY <1>1, <2>1, <2>2 DEF SwapBlocks
<1>2. \A cond : Check(x, cond).fault = x.fault
  BY DEF Check, Raise, BlockState
<1>3. ASSUME NEW y, y.fault = x.fault, NEW batch
      PROVE  AllocBlocksForBatch(y, batch) = y
  <2>1. \A d, r, s, o : Alloc(y, d, r, s, o) = y
    BY <1>3 DEF Alloc
  <2>2. QED
    BY <2>1 DEF AllocBlocksForBatch
<1>4. \A bs, i : AllocStep(x, bs, i).fault = x.fault
  BY <1>2, <1>3 DEF AllocStep
<1>5. \A bs, i : SwapStep(x, bs, i).fault = x.fault
  <2> TAKE bs, i
  <2> DEFINE y == Check(x, TRUE \/ ~ExtraLayer)
  <2>1. y.fault = x.fault
    BY <1>2
  <2> HIDE DEF y
  <2>2. SwapBlocks(y, bs[i].cprf, TRUE, ExtraLayer, FALSE).fault = x.fault
    BY <1>1, <2>1
  <2>3. QED
    BY <2>2 DEF SwapStep, InitiateSwap, y
<1>6. QED
  BY <1>4, <1>5

(* A step of prepare that finds the CPU out of blocks passes it on.          *)
LEMMA SpareStays ==
  ASSUME NEW x \in BlockState, Spared(x), ~Fine(x)
  PROVE  \A bs, i : Spared(AllocStep(x, bs, i)) /\ Spared(SwapStep(x, bs, i))
BY StepsKeepFault DEF Fine, Spared

\* What the scheduler leaves room for: the swap-in, and the first batch after
\* the swap.
Roomy(Q, on, tok, bs, out, inn) ==
  /\ out = <<>> => Room(Q, inn, 0, Across(Q, inn, on, FALSE), Dropped(Q, inn, tok), TRUE)
  /\ \/ OnGpu(bs[1]) = <<>>
     \/ Room(Q, OnGpu(bs[1]), Through(bs[1]), Placed(Q, out, inn, on), tok, FALSE)

\* The batches have their shape and are not empty; no row has too much.
Shaped(Q, ids, bs) ==
  /\ Len(bs) \in {1, 2} /\ DOMAIN bs = 1 .. Len(bs)
  /\ \A i \in DOMAIN bs : BatchShape(Q, bs[i]) /\ BatchSize(SeenBatch(ids, bs[i])) > 0
Within(Q, tok) == tok \in [Q -> Nat] /\ \A r \in Q : tok[r] <= SeqLen(r)

(* When the plan is one the scheduler made and leaves room for, prepare      *)
(* raises nothing but the want of CPU blocks.                                *)
LEMMA PrepareSpared ==
  ASSUME BlocksAssumption, NEW Q, IsFiniteSet(Q), NEW ids, NEW on, NEW tok, Within(Q, tok), NEW b,
         Named(Q, ids), Sized(Q), Holds(b, {}, Q, ids, on, tok),
         NEW out, NEW inn, List(out, Q), List(inn, Q), out = <<>> \/ inn = <<>>,
         NEW bs, Shaped(Q, ids, bs),
         PlanOK(Q, on, tok, bs, out, inn), Roomy(Q, on, tok, bs, out, inn)
  PROVE  Spared(Prepare(b, SeenBatches(ids, bs), Seen(ids, out), Seen(ids, inn)))
<1> DEFINE s == SeenBatches(ids, bs)
           o == Seen(ids, out)
           n == Seen(ids, inn)
           x0 == StartOf(b, s, o, n)
           x1 == FirstSwap(x0, o, n)
           x2 == AllocStep(x1, s, 1)
           x3 == AllocStep(x2, s, 2)
           x4 == SwapStep(x3, s, 1)
           x5 == SwapStep(x4, s, 2)
           on1 == Placed(Q, out, inn, on)
<1>1. Prepare(b, s, o, n) = x5
  BY PrepareSteps
<1>k. /\ Len(bs) \in {1, 2} /\ DOMAIN bs = 1 .. Len(bs)
      /\ \A i \in DOMAIN bs : BatchShape(Q, bs[i]) /\ BatchSize(SeenBatch(ids, bs[i])) > 0
      /\ tok \in [Q -> Nat] /\ \A r \in Q : tok[r] <= SeqLen(r)
  BY DEF Shaped, Within
<1>s. /\ 1 \in DOMAIN bs /\ BatchShape(Q, bs[1])
      /\ 2 \in DOMAIN bs => BatchShape(Q, bs[2])
  BY <1>k
<1>2. Holds(x0, {}, Q, ids, on, tok) /\ x0 \in BlockState
  <2>1. o = <<>> \/ n = <<>>
    BY SeenEmpty
  <2>2. Len(s) \in {1, 2}
    <3>2. PICK k \in Nat : k = Len(bs)
      BY <1>k
    <3>3. DOMAIN s = 1 .. k
      BY <1>k, <3>2 DEF SeenBatches
    <3>4. s \in [1 .. k -> Range(s)]
      BY <3>3 DEF SeenBatches, Range
    <3>5. Len(s) = k
      BY <3>4
    <3>6. QED
      BY <1>k, <3>2, <3>5
  <2>3. Fine(x0)
    <3>1. x0 = [b EXCEPT !.copies = {}]
      BY <2>1, <2>2 DEF StartOf, Check
    <3>2. QED
      BY <3>1 DEF Fine, Holds, BlockState
  <2>4. Holds(x0, {}, Q, ids, on, tok)
    BY <2>3, StartHolds
  <2>5. QED
    BY <2>4 DEF Holds
<1> HIDE DEF x0
<1>p. /\ Swappable(out, TRUE, on, tok) /\ (out = <<>> => Swappable(inn, FALSE, on, tok))
      /\ BatchReady({}, on1, tok, bs[1])
      /\ 2 \in DOMAIN bs => /\ OnGpu(bs[2]) = <<>> /\ bs[2].cprf = <<>>
                            /\ \A r \in Range(bs[2].cdec) : on1[r] = "cpu"
  BY <1>s DEF PlanOK
<1>3. x1 \in BlockState /\ SwappedFirst(x1, x0, ids, out, inn)
  BY <1>2, FirstSwapTyped
<1>4. Spared(x1)
  <2>1. CASE out # <<>>
    <3>1. x1 = SwapBlocks(x0, Seen(ids, out), TRUE, FALSE, TRUE)
      BY <1>3, <2>1 DEF SwappedFirst
    <3>2. CanMove({}, ids, on, tok, out, TRUE, FALSE, TRUE)
      BY <1>p DEF CanMove, Swappable, SplitFor, From
    <3>3. {} \in SUBSET Ids /\ From(FALSE) \in Splits
      BY SplitOfItm
    <3>4. Spared(SwapBlocks(x0, Seen(ids, out), TRUE, FALSE, TRUE))
      BY <1>2, <3>2, <3>3, SwapOutSpared
    <3>5. QED
      BY <3>1, <3>4
  <2>2. CASE out = <<>>
    <3>1. x1 = SwapBlocks(x0, Seen(ids, inn), FALSE, FALSE, TRUE)
      BY <1>3, <2>2 DEF SwappedFirst
    <3>2. CanMove({}, ids, on, tok, inn, FALSE, FALSE, TRUE)
      BY <1>p, <2>2 DEF CanMove, Swappable, SplitFor, From
    <3>3. Room(Q, inn, 0, Across(Q, inn, on, FALSE), Dropped(Q, inn, tok), TRUE)
      BY <2>2 DEF Roomy
    <3>4. Spared(SwapBlocks(x0, Seen(ids, inn), FALSE, FALSE, TRUE))
      BY <1>2, <1>k, <3>2, <3>3, SwapInSpared
    <3>5. QED
      BY <3>1, <3>4
  <2>3. QED
    BY <2>1, <2>2
<1>5. Fine(x1) => Holds(x1, {}, Q, ids, on1, tok)
  BY <1>2, <1>p, FirstSwapHolds
<1> HIDE DEF x1
<1>b. PICK b1 : b1 = bs[1]
  OBVIOUS
<1>c. BatchShape(Q, b1) /\ BatchReady({}, on1, tok, b1)
  BY <1>b, <1>s, <1>p
<1>o. ASSUME NEW x \in BlockState, NEW i \in DOMAIN bs
      PROVE  AllocStep(x, s, i) = AllocBlocksForBatch(x, SeenBatch(ids, bs[i]))
  <2>1. i \in DOMAIN s /\ s[i] = SeenBatch(ids, bs[i])
    BY DEF SeenBatches
  <2>2. BatchSize(s[i]) > 0
    BY <1>k, <2>1
  <2>3. AllocStep(x, s, i) = AllocBlocksForBatch(Check(x, BatchSize(s[i]) > 0), s[i])
    BY <2>1 DEF AllocStep
  <2>4. Check(x, BatchSize(s[i]) > 0) = x
    BY <2>2 DEF Check
  <2>5. QED
    BY <2>1, <2>3, <2>4
<1>6. x2 \in BlockState /\ (Fine(x2) => Fine(x1))
  BY <1>s, <1>3, AllocStepTyped
<1>7. x2 = AllocBlocksForBatch(x1, SeenBatch(ids, b1))
  BY <1>3, <1>b, <1>o, <1>s
<1> HIDE DEF on1
<1>8. Spared(x2)
  <2>1. CASE ~Fine(x1)
    BY <2>1, <1>3, <1>4, SpareStays
  <2>2. CASE Fine(x1)
    <3>1. OnGpu(b1) = <<>> \/ Room(Q, OnGpu(b1), Through(b1), on1, tok, FALSE)
      BY <1>b DEF Roomy, on1
    <3>2. {} \in SUBSET Ids
      OBVIOUS
    <3>3. Spared(AllocBlocksForBatch(x1, SeenBatch(ids, b1)))
      BY <1>5, <1>c, <1>k, <2>2, <3>1, <3>2, BatchSpared
    <3>4. QED
      BY <3>3, <1>7
  <2>3. QED
    BY <2>1, <2>2
<1>9. Fine(x2) => Holds(x2, Itm(ids, b1), Q, ids, on1, StoredBatch(Q, b1, tok))
  <2> SUFFICES ASSUME Fine(x2) PROVE Holds(x2, Itm(ids, b1), Q, ids, on1, StoredBatch(Q, b1, tok))
    OBVIOUS
  <2>2. Fine(AllocBlocksForBatch(x1, SeenBatch(ids, b1))) /\ {} \in SUBSET Ids
    BY <1>7
  <2>3. Holds(x1, {}, Q, ids, on1, tok)
    BY <1>5, <1>6
  <2>4. Holds(AllocBlocksForBatch(x1, SeenBatch(ids, b1)), {} \union Itm(ids, b1), Q, ids, on1,
              StoredBatch(Q, b1, tok))
    BY <1>c, <2>2, <2>3, GrowBatch
  <2>5. {} \union Itm(ids, b1) = Itm(ids, b1)
    OBVIOUS
  <2>6. QED
    BY <1>7, <2>4, <2>5
<1>i. Itm(ids, b1) \in SUBSET Ids
  <2>1. \A r \in Range(b1.cprf) : ids[r] \in Ids
    BY <1>c, ListFacts DEF BatchShape, Named
  <2>2. QED
    BY <2>1 DEF Itm, TheRows
<1>t. PICK t1 : t1 = StoredBatch(Q, b1, tok)
  OBVIOUS
<1>u. t1 \in [Q -> Nat] /\ \A r \in Q : t1[r] <= SeqLen(r)
  BY <1>k, <1>t DEF StoredBatch, Sized
<1>v. Fine(x2) => Holds(x2, Itm(ids, b1), Q, ids, on1, t1)
  BY <1>9, <1>t
<1> HIDE DEF x2
<1>10. x3 \in BlockState /\ (Fine(x3) => Fine(x2))
  BY <1>s, <1>6, AllocStepTyped
<1>11. Spared(x3) /\ (Fine(x3) => \E t : /\ Holds(x3, Itm(ids, b1), Q, ids, on1, t)
                                         /\ t \in [Q -> Nat]
                                         /\ \A r \in Range(b1.cprf) : t[r] = SeqLen(r))
  <2>a. \A r \in Range(b1.cprf) : r \in Q /\ t1[r] = SeqLen(r)
    <3> TAKE r \in Range(b1.cprf)
    <3>1. r \in Range(OnGpu(b1)) /\ r \in Q
      BY <1>c, ListFacts DEF BatchShape
    <3>2. QED
      BY <3>1, <1>t DEF StoredBatch
  <2>1. CASE 2 \in DOMAIN bs
    <3>1. PICK b2 : b2 = bs[2]
      OBVIOUS
    <3>2. BatchShape(Q, b2) /\ OnGpu(b2) = <<>> /\ b2.cprf = <<>> /\ \A r \in Range(b2.cdec) : on1[r] = "cpu"
      BY <1>p, <1>s, <2>1, <3>1
    <3>3. Range(OnGpu(b2)) = {} /\ Range(b2.cprf) = {}
      BY <3>2, ListEmpty
    <3>4. BatchReady(Itm(ids, b1), on1, t1, b2)
      BY <3>2, <3>3 DEF BatchReady
    <3>5. x3 = AllocBlocksForBatch(x2, SeenBatch(ids, b2))
      BY <1>6, <1>o, <2>1, <3>1
    <3>6. Spared(x3)
      <4>1. CASE ~Fine(x2)
        BY <4>1, <1>6, <1>8, SpareStays
      <4>2. CASE Fine(x2)
        <5>1. Holds(x2, Itm(ids, b1), Q, ids, on1, t1)
          BY <1>v, <4>2
        <5>2. OnGpu(b2) = <<>> \/ Room(Q, OnGpu(b2), Through(b2), on1, t1, FALSE)
          BY <3>2
        <5>3. Spared(AllocBlocksForBatch(x2, SeenBatch(ids, b2)))
          BY <1>i, <1>u, <3>2, <3>4, <5>1, <5>2, BatchSpared
        <5>4. QED
          BY <3>5, <5>3
      <4>3. QED
        BY <4>1, <4>2
    <3>7. ASSUME Fine(x3)
          PROVE  \E t : /\ Holds(x3, Itm(ids, b1), Q, ids, on1, t)
                        /\ t \in [Q -> Nat]
                        /\ \A r \in Range(b1.cprf) : t[r] = SeqLen(r)
      <4>1. Holds(x2, Itm(ids, b1), Q, ids, on1, t1)
        BY <1>v, <1>10, <3>7
      <4>2. Fine(AllocBlocksForBatch(x2, SeenBatch(ids, b2)))
        BY <3>5, <3>7
      <4>3. PICK t2 : t2 = StoredBatch(Q, b2, t1)
        OBVIOUS
      <4>4. Holds(AllocBlocksForBatch(x2, SeenBatch(ids, b2)), Itm(ids, b1) \union Itm(ids, b2), Q, ids, on1,
                  StoredBatch(Q, b2, t1))
        BY <1>i, <3>2, <3>4, <4>1, <4>2, GrowBatch
      <4>5. Itm(ids, b1) \union Itm(ids, b2) = Itm(ids, b1)
        BY <3>3 DEF Itm, TheRows
      <4>6. Holds(x3, Itm(ids, b1), Q, ids, on1, t2)
        BY <3>5, <4>3, <4>4, <4>5
      <4>7. t2 \in [Q -> Nat] /\ \A r \in Range(b1.cprf) : t2[r] = SeqLen(r)
        BY <1>u, <2>a, <4>3 DEF StoredBatch, Sized
      <4>8. QED
        BY <4>6, <4>7
    <3>8. QED
      BY <3>6, <3>7
  <2>2. CASE 2 \notin DOMAIN bs
    <3>1. x3 = x2
      BY <2>2 DEF AllocStep, SeenBatches
    <3>2. ASSUME Fine(x3)
          PROVE  \E t : /\ Holds(x3, Itm(ids, b1), Q, ids, on1, t)
                        /\ t \in [Q -> Nat]
                        /\ \A r \in Range(b1.cprf) : t[r] = SeqLen(r)
      <4>1. Holds(x3, Itm(ids, b1), Q, ids, on1, t1)
        BY <1>v, <3>1, <3>2
      <4>2. QED
        BY <4>1, <1>u, <2>a
    <3>3. QED
      BY <1>8, <3>1, <3>2
  <2>3. QED
    BY <2>1, <2>2
<1> HIDE DEF x3
<1>12. x4 \in BlockState /\ (Fine(x4) => Fine(x3)) /\ SwappedOut(x4, x3, ids, bs, 1)
  BY <1>s, <1>10, SwapStepTyped
<1>13. x4 = SwapBlocks(x3, Seen(ids, b1.cprf), TRUE, ExtraLayer, FALSE)
  BY <1>12, <1>b, <1>s DEF SwappedOut
<1>14. Spared(x4) /\ (Fine(x4) => \E on2, t : Holds(x4, {}, Q, ids, on2, t))
  <2>1. CASE ~Fine(x3)
    BY <2>1, <1>10, <1>11, <1>12, SpareStays
  <2>2. CASE Fine(x3)
    <3>1. PICK t : /\ Holds(x3, Itm(ids, b1), Q, ids, on1, t)
                   /\ t \in [Q -> Nat]
                   /\ \A r \in Range(b1.cprf) : t[r] = SeqLen(r)
      BY <1>11, <2>2
    <3>2. List(b1.cprf, Q) /\ \A r \in Range(b1.cprf) : r \in Q /\ on1[r] = "gpu"
      BY <1>c, ListFacts DEF BatchShape, BatchReady
    <3>3. CanMove(Itm(ids, b1), ids, on1, t, b1.cprf, TRUE, ExtraLayer, FALSE)
      <4> SUFFICES ASSUME NEW r \in Range(b1.cprf)
                   PROVE  /\ on1[r] = Side(TRUE)
                          /\ t[r] \in Nat \ {0} /\ t[r] = SeqLen(r) - (IF FALSE THEN 1 ELSE 0)
                          /\ SplitFor(Itm(ids, b1), Side(TRUE), ids[r]) = From(ExtraLayer)
                          /\ SplitFor(Itm(ids, b1), Other(TRUE), ids[r]) = 0
        BY DEF CanMove
      <4>1. t[r] \in Nat \ {0} /\ t[r] = SeqLen(r)
        BY <3>1, <3>2 DEF Sized
      <4>2. ExtraLayer => ids[r] \in Itm(ids, b1)
        BY DEF Itm, TheRows
      <4>3. ~ExtraLayer => ids[r] \notin Itm(ids, b1)
        BY DEF Itm
      <4>4. ExtraLayer \in BOOLEAN
        BY DEF BlocksAssumption
      <4>5. QED
        BY <3>2, <4>1, <4>2, <4>3, <4>4 DEF Side, Other, SplitFor, From
    <3>4. Spared(SwapBlocks(x3, Seen(ids, b1.cprf), TRUE, ExtraLayer, FALSE))
      <4>1. From(ExtraLayer) \in Splits /\ FALSE \in BOOLEAN
        BY SplitOfItm
      <4>2. QED
        BY <1>i, <3>1, <3>2, <3>3, <4>1, SwapOutSpared
    <3>5. ASSUME Fine(x4)
          PROVE  Holds(x4, {}, Q, ids, Across(Q, b1.cprf, on1, TRUE), t)
      <4>1. Fine(SwapBlocks(x3, Seen(ids, b1.cprf), TRUE, ExtraLayer, FALSE))
        BY <1>13, <3>5
      <4>2. Holds(SwapBlocks(x3, Seen(ids, b1.cprf), TRUE, ExtraLayer, FALSE), {}, Q, ids,
              Across(Q, b1.cprf, on1, TRUE), t)
        BY <1>c, <3>1, <3>2, <4>1, SwapStepHolds
      <4>3. QED
        BY <1>13, <4>2
    <3>6. QED
      BY <1>13, <3>4, <3>5
  <2>3. QED
    BY <2>1, <2>2
<1> HIDE DEF x4
<1>15. x5 \in BlockState /\ (Fine(x5) => Fine(x4)) /\ SwappedOut(x5, x4, ids, bs, 2)
  BY <1>s, <1>12, SwapStepTyped
<1>16. Spared(x5)
  <2>1. CASE ~Fine(x4)
    BY <2>1, <1>12, <1>14, SpareStays
  <2>2. CASE Fine(x4) /\ 2 \in DOMAIN bs
    <3>1. PICK b2 : b2 = bs[2]
      OBVIOUS
    <3>2. b2.cprf = <<>> /\ List(b2.cprf, Q) /\ Range(b2.cprf) = {}
      BY <1>p, <1>s, <2>2, <3>1, ListEmpty DEF BatchShape
    <3>3. x5 = SwapBlocks(x4, Seen(ids, b2.cprf), TRUE, ExtraLayer, FALSE)
      BY <1>15, <2>2, <3>1 DEF SwappedOut
    <3>4. PICK on2, t : Holds(x4, {}, Q, ids, on2, t)
      BY <1>14, <2>2
    <3>5. CanMove({}, ids, on2, t, b2.cprf, TRUE, ExtraLayer, FALSE)
      BY <3>2 DEF CanMove
    <3>6. From(ExtraLayer) \in Splits /\ FALSE \in BOOLEAN /\ {} \in SUBSET Ids
      BY SplitOfItm
    <3>7. Spared(SwapBlocks(x4, Seen(ids, b2.cprf), TRUE, ExtraLayer, FALSE))
      BY <3>2, <3>4, <3>5, <3>6, SwapOutSpared
    <3>8. QED
      BY <3>3, <3>7
  <2>3. CASE 2 \notin DOMAIN bs
    <3>1. x5 = x4
      BY <2>3 DEF SwapStep, SeenBatches
    <3>2. QED
      BY <1>14, <3>1
  <2>4. QED
    BY <2>1, <2>2, <2>3
<1>17. QED
  BY <1>1, <1>16

-------------------------------------------------------------------------------
\* The room a decision asks for, as a sum over its queues.

\* Blocks and prompt tokens, request by request.
Needs == [r \in Reqs |-> BlockNeeded(r)]
Lens == [r \in Reqs |-> PromptLen[r]]

(* Every request needs a block, and has a prompt.                            *)
LEMMA NeedsType ==
  ASSUME BlocksAssumption, SchedulerAssumption, TypeOK
  PROVE  /\ Needs \in [Reqs -> Nat] /\ Lens \in [Reqs -> Nat]
         /\ \A r \in Reqs : Needs[r] = BlockNeeded(r) /\ BlockNeeded(r) \in Nat \ {0}
         /\ \A r \in Reqs : SeqLen(r) \in Nat \ {0}
<1>1. Sized(Reqs)
  BY SizesOK
<1>2. \A r \in Reqs : BlockNeeded(r) \in Nat \ {0}
  BY <1>1, CdivFacts DEF BlockNeeded, Sized
<1>3. \A r \in Reqs : PromptLen[r] \in Nat
  BY DEF SchedulerAssumption
<1>4. QED
  BY <1>1, <1>2, <1>3 DEF Needs, Lens, Sized

(* The sums of the scheduler's loops are those of the requests in a queue.   *)
LEMMA QueueWeight ==
  ASSUME BlocksAssumption, SchedulerAssumption, TypeOK, NEW q, List(q, Reqs)
  PROVE  /\ BlocksOf(q) = Weight(Needs, Range(q)) /\ BlocksOf(q) \in Nat
         /\ Prompts(q) = Weight(Lens, Range(q)) /\ Prompts(q) \in Nat
<1>1. /\ Needs \in [Reqs -> Nat] /\ Lens \in [Reqs -> Nat]
      /\ \A r \in Reqs : Needs[r] = BlockNeeded(r)
  BY NeedsType
<1>2. DOMAIN q = 1 .. Len(q) /\ \A i \in DOMAIN q : q[i] \in Reqs
  BY ListFacts
<1>3. Range(q) \subseteq Reqs /\ IsFiniteSet(Range(q))
  BY ListFacts, ListSize
<1>4. BlocksOf(q) = Weight(Needs, Range(q))
  <2>1. SumFunction([i \in DOMAIN q |-> Needs[q[i]]]) = Weight(Needs, Range(q))
    BY <1>1, SumOfList
  <2>2. [i \in DOMAIN q |-> Needs[q[i]]] = [i \in DOMAIN q |-> BlockNeeded(q[i])]
    BY <1>1, <1>2
  <2>3. QED
    BY <2>1, <2>2 DEF BlocksOf
<1>5. Prompts(q) = Weight(Lens, Range(q))
  <2>1. SumFunction([i \in DOMAIN q |-> Lens[q[i]]]) = Weight(Lens, Range(q))
    BY <1>1, SumOfList
  <2>2. [i \in DOMAIN q |-> Lens[q[i]]] = [i \in DOMAIN q |-> PromptLen[q[i]]]
    BY <1>2 DEF Lens
  <2>3. QED
    BY <2>1, <2>2 DEF Prompts
<1>6. Weight(Needs, Range(q)) \in Nat /\ Weight(Lens, Range(q)) \in Nat
  BY <1>1, <1>3, WeightType
<1>7. QED
  BY <1>4, <1>5, <1>6

(* A queue made of two.                                                      *)
LEMMA QueueSum ==
  ASSUME BlocksAssumption, SchedulerAssumption, TypeOK,
         NEW q, List(q, Reqs), NEW p, List(p, Reqs), NEW s, List(s, Reqs),
         Range(s) = Range(q) \union Range(p), Range(q) \intersect Range(p) = {}
  PROVE  BlocksOf(s) = BlocksOf(q) + BlocksOf(p) /\ Prompts(s) = Prompts(q) + Prompts(p)
<1>1. Needs \in [Reqs -> Nat] /\ Lens \in [Reqs -> Nat]
  BY NeedsType
<1>2. /\ Range(q) \subseteq Reqs /\ IsFiniteSet(Range(q))
      /\ Range(p) \subseteq Reqs /\ IsFiniteSet(Range(p))
  BY ListFacts, ListSize
<1>a. PICK Q : Q = Range(q)
  OBVIOUS
<1>b. PICK P : P = Range(p)
  OBVIOUS
<1>c. Q \in SUBSET Reqs /\ IsFiniteSet(Q) /\ P \in SUBSET Reqs /\ IsFiniteSet(P) /\ Q \intersect P = {}
      /\ Range(s) = Q \union P
  BY <1>2, <1>a, <1>b
<1>3. Weight(Needs, Range(s)) = Weight(Needs, Q) + Weight(Needs, P)
  BY ONLY <1>1, <1>c, WeightUnion
<1>4. Weight(Lens, Range(s)) = Weight(Lens, Q) + Weight(Lens, P)
  BY ONLY <1>1, <1>c, WeightUnion
<1>5. /\ BlocksOf(s) = Weight(Needs, Range(s)) /\ Prompts(s) = Weight(Lens, Range(s))
      /\ BlocksOf(q) = Weight(Needs, Range(q)) /\ Prompts(q) = Weight(Lens, Range(q))
      /\ BlocksOf(p) = Weight(Needs, Range(p)) /\ Prompts(p) = Weight(Lens, Range(p))
  BY QueueWeight
<1>6. QED
  BY <1>3, <1>4, <1>5, <1>a, <1>b

(* A queue with some of the requests of another.                             *)
LEMMA QueueFewer ==
  ASSUME BlocksAssumption, SchedulerAssumption, TypeOK,
         NEW q, List(q, Reqs), NEW p, List(p, Reqs), Range(q) \subseteq Range(p)
  PROVE  BlocksOf(q) <= BlocksOf(p) /\ Prompts(q) <= Prompts(p)
<1>1. Needs \in [Reqs -> Nat] /\ Lens \in [Reqs -> Nat]
  BY NeedsType
<1>2. Range(p) \subseteq Reqs /\ IsFiniteSet(Range(p))
  BY ListFacts, ListSize
<1>3. Weight(Needs, Range(q)) <= Weight(Needs, Range(p))
  BY <1>1, <1>2, WeightSubset
<1>4. Weight(Lens, Range(q)) <= Weight(Lens, Range(p))
  BY <1>1, <1>2, WeightSubset
<1>5. /\ BlocksOf(q) = Weight(Needs, Range(q)) /\ Prompts(q) = Weight(Lens, Range(q))
      /\ BlocksOf(p) = Weight(Needs, Range(p)) /\ Prompts(p) = Weight(Lens, Range(p))
  BY QueueWeight
<1>6. QED
  BY <1>3, <1>4, <1>5

(* A queue of one request, and an empty one.                                 *)
LEMMA QueueFew ==
  ASSUME BlocksAssumption, SchedulerAssumption, TypeOK, NEW q, List(q, Reqs)
  PROVE  /\ q = <<>> => BlocksOf(q) = 0 /\ Prompts(q) = 0
         /\ \A r : Range(q) = {r} => BlocksOf(q) = BlockNeeded(r)
         /\ \A r \in Range(q) : BlockNeeded(r) <= BlocksOf(q)
         /\ q # <<>> => BlocksOf(q) > 0
<1>1. /\ Needs \in [Reqs -> Nat] /\ Lens \in [Reqs -> Nat]
      /\ \A r \in Reqs : Needs[r] = BlockNeeded(r) /\ BlockNeeded(r) \in Nat \ {0}
  BY NeedsType
<1>2. Range(q) \subseteq Reqs /\ IsFiniteSet(Range(q))
  BY ListFacts, ListSize
<1>3. BlocksOf(q) = Weight(Needs, Range(q)) /\ Prompts(q) = Weight(Lens, Range(q))
      /\ BlocksOf(q) \in Nat
  BY QueueWeight
<1>4. ASSUME q = <<>>
      PROVE  BlocksOf(q) = 0 /\ Prompts(q) = 0
  <2>1. Range(q) = {}
    BY <1>4, ListEmpty
  <2>2. Weight(Needs, {}) = 0 /\ Weight(Lens, {}) = 0
    BY <1>1, <1>2, WeightType
  <2>3. QED
    BY <1>3, <2>1, <2>2
<1>5. ASSUME NEW r, Range(q) = {r}
      PROVE  BlocksOf(q) = BlockNeeded(r)
  <2>1. r \in Reqs /\ {} \in SUBSET Reqs /\ IsFiniteSet({}) /\ r \in Reqs \ {} /\ {} \union {r} = {r}
    BY <1>2, <1>5, FS_EmptySet
  <2>2. Weight(Needs, {} \union {r}) = Weight(Needs, {}) + Needs[r]
    BY ONLY <1>1, <2>1, WeightGains
  <2>3. Weight(Needs, {}) = 0
    BY <1>1, <1>2, WeightType
  <2>4. QED
    BY <1>1, <1>3, <1>5, <2>1, <2>2, <2>3
<1>6. ASSUME NEW r \in Range(q)
      PROVE  BlockNeeded(r) <= BlocksOf(q) /\ BlockNeeded(r) \in Nat \ {0}
  <2>1. Needs[r] <= Weight(Needs, Range(q))
    BY <1>1, <1>2, WeightOne
  <2>2. QED
    BY <1>1, <1>2, <1>3, <2>1
<1>7. ASSUME q # <<>>
      PROVE  BlocksOf(q) > 0
  <2>1. PICK r : r \in Range(q)
    BY <1>7, ListNonempty
  <2>2. QED
    BY <1>3, <1>6, <2>1
<1>8. QED
  BY <1>4, <1>5, <1>6, <1>7

(* A request that is not done fits the GPU.                                  *)
LEMMA OneFits ==
  ASSUME BlocksAssumption, SchedulerAssumption, TypeOK, NEW r \in Reqs, outputLen[r] < MaxOut[r]
  PROVE  BlockNeeded(r) <= GpuBlocks
<1>1. outputLen[r] \in Nat /\ PromptLen[r] \in Nat \ {0} /\ MaxOut[r] \in Nat \ {0}
  BY DEF TypeOK, SchedulerAssumption
<1>2. SeqLen(r) \in Nat /\ MaxLen(r) \in Nat /\ SeqLen(r) <= MaxLen(r)
  BY <1>1 DEF SeqLen, MaxLen
<1>3. Cdiv(SeqLen(r)) <= Cdiv(MaxLen(r)) /\ Cdiv(SeqLen(r)) \in Nat /\ Cdiv(MaxLen(r)) \in Nat
  BY <1>2, CdivGrows, CdivFacts
<1>4. Cdiv(MaxLen(r)) <= GpuBlocks /\ GpuBlocks \in Nat
  BY DEF SchedulerAssumption, BlocksAssumption
<1>5. QED
  BY <1>3, <1>4 DEF BlockNeeded

(* Blocks wanted by some requests only, and by none more than it needs.      *)
LEMMA WantBounded ==
  ASSUME BlocksAssumption, SchedulerAssumption, TypeOK,
         NEW Q \in SUBSET Reqs, NEW f \in [Q -> Nat], NEW T \in SUBSET Q,
         \A r \in T : f[r] <= BlockNeeded(r), \A r \in Q \ T : f[r] = 0
  PROVE  Weight(f, Q) <= Weight(Needs, T)
<1>1. Needs \in [Reqs -> Nat] /\ \A r \in Reqs : Needs[r] = BlockNeeded(r)
  BY NeedsType
<1>2. IsFiniteSet(Q) /\ IsFiniteSet(T) /\ T \in SUBSET Q /\ T \subseteq Reqs
  BY FS_Subset DEF SchedulerAssumption
<1>3. Q \in SUBSET Q /\ f \in [Q -> Nat] /\ \A r \in Q \ T : f[r] = 0
  OBVIOUS
<1>4. Weight(f, Q) = Weight(f, T)
  BY ONLY <1>2, <1>3, WeightWithin
<1>5. \A r \in T : f[r] <= Needs[r]
  BY <1>1, <1>2
<1>6. f \in [Q -> Nat] /\ Needs \in [Reqs -> Nat]
  BY <1>1
<1>7. Weight(f, T) <= Weight(Needs, T)
  BY ONLY <1>2, <1>5, <1>6, WeightMono
<1>8. QED
  BY <1>4, <1>7

(* A queue of requests within Q, each wanting at most its need.              *)
LEMMA WantOfQueues ==
  ASSUME BlocksAssumption, SchedulerAssumption, TypeOK,
         NEW Q \in SUBSET Reqs, NEW f \in [Q -> Nat], NEW q, List(q, Reqs), Range(q) \subseteq Q,
         NEW p, List(p, Reqs), Range(p) \subseteq Q, Range(q) \intersect Range(p) = {},
         \A r \in Range(q) \union Range(p) : f[r] <= BlockNeeded(r),
         \A r \in Q : r \notin Range(q) /\ r \notin Range(p) => f[r] = 0
  PROVE  Weight(f, Q) <= BlocksOf(q) + BlocksOf(p)
<1>1. PICK A : A = Range(q)
  OBVIOUS
<1>2. PICK B : B = Range(p)
  OBVIOUS
<1>3. A \union B \in SUBSET Q /\ \A r \in A \union B : f[r] <= BlockNeeded(r)
  BY <1>1, <1>2
<1>4. \A r \in Q \ (A \union B) : f[r] = 0
  BY <1>1, <1>2
<1>5. Weight(f, Q) <= Weight(Needs, A \union B)
  BY <1>3, <1>4, WantBounded
<1>6. A \in SUBSET Reqs /\ B \in SUBSET Reqs /\ A \intersect B = {}
      /\ IsFiniteSet(A) /\ IsFiniteSet(B)
  BY <1>1, <1>2, ListSize
<1>7. Needs \in [Reqs -> Nat]
  BY NeedsType
<1>8. Weight(Needs, A \union B) = Weight(Needs, A) + Weight(Needs, B)
  BY ONLY <1>6, <1>7, WeightUnion
<1>9. BlocksOf(q) = Weight(Needs, A) /\ BlocksOf(p) = Weight(Needs, B)
  BY <1>1, <1>2, QueueWeight
<1>10. QED
  BY <1>5, <1>8, <1>9

(* Requests need at least the blocks of what they had one token ago.         *)
LEMMA NeedsGrow ==
  ASSUME BlocksAssumption, SchedulerAssumption, TypeOK, NEW r \in Reqs, NEW omit \in BOOLEAN
  PROVE  /\ SeqLen(r) - Spare(omit) \in Nat /\ Cdiv(SeqLen(r) - Spare(omit)) \in Nat
         /\ Cdiv(SeqLen(r) - Spare(omit)) <= BlockNeeded(r)
         /\ ~omit => Cdiv(SeqLen(r) - Spare(omit)) = BlockNeeded(r)
<1>1. SeqLen(r) \in Nat \ {0}
  BY NeedsType
<1>2. SeqLen(r) - Spare(omit) \in Nat /\ SeqLen(r) - Spare(omit) <= SeqLen(r)
  BY <1>1 DEF Spare
<1>3. Cdiv(SeqLen(r) - Spare(omit)) <= Cdiv(SeqLen(r)) /\ Cdiv(SeqLen(r) - Spare(omit)) \in Nat
  BY <1>1, <1>2, CdivGrows, CdivFacts
<1>4. ~omit => SeqLen(r) - Spare(omit) = SeqLen(r)
  BY <1>1 DEF Spare
<1>5. QED
  BY <1>2, <1>3, <1>4 DEF BlockNeeded

(* The swap-in has room if the GPU's queue with it has.                      *)
LEMMA SwapInRoom ==
  ASSUME BlocksAssumption, SchedulerAssumption, TypeOK, QueuesOK, Begun,
         NEW Q, NEW gpu, NEW cpu, NEW gprf, NEW kept, NEW c0, NEW c1,
         Cast(Q, gpu, cpu, gprf, kept, c0, c1), Q \in SUBSET Reqs,
         NEW inn, Rearranged(gpu, cpu, <<>>, inn), BlocksOf(gpu) <= GpuBlocks
  PROVE  Room(Q, inn, 0, Across(Q, inn, OnBefore(Q), FALSE), Dropped(Q, inn, TokBefore(Q)), TRUE)
<1>w. PICK f : f = Want(Q, inn, 0, Across(Q, inn, OnBefore(Q), FALSE), Dropped(Q, inn, TokBefore(Q)), TRUE)
  OBVIOUS
<1>1. /\ List(gpu, Reqs) /\ List(inn, Reqs) /\ Range(<<>>) = {} /\ List(<<>>, Reqs)
      /\ \A r : r \in Range(gpu) <=> r \in Range(gpu_decoding_q) \/ r \in Range(inn)
      /\ Range(gpu) \subseteq Q
  BY ListEmpty DEF Rearranged, Cast
<1>2. \A r : r \in Range(inn) <=> Behind(inn, 0, r)
  <2>1. Len(inn) \in Nat /\ \A x : x \in Range(inn) <=> \E i \in 1 .. Len(inn) : inn[i] = x
    BY <1>1, ListFacts
  <2>2. QED
    BY <2>1 DEF Behind
<1>3. ASSUME NEW r \in Q
      PROVE  /\ f[r] \in Nat
             /\ r \in Range(gpu) => f[r] <= BlockNeeded(r)
             /\ r \notin Range(gpu) => f[r] = 0
  <2>1. /\ Cdiv(SeqLen(r) - Spare(TRUE)) \in Nat /\ Cdiv(SeqLen(r) - Spare(TRUE)) <= BlockNeeded(r)
        /\ SeqLen(r) - 1 = SeqLen(r) - Spare(TRUE) /\ BlockNeeded(r) \in Nat
    BY NeedsGrow, NeedsType DEF Spare
  <2>2. f[r] = IF r \in Range(inn) THEN Cdiv(SeqLen(r) - Spare(TRUE))
               ELSE IF OnBefore(Q)[r] = "gpu" THEN Cdiv(TokBefore(Q)[r]) ELSE 0
    BY <1>2, <1>w DEF Want, Across, Dropped
  <2>3. CASE r \in Range(inn)
    BY <1>1, <2>1, <2>2, <2>3
  <2>4. CASE r \notin Range(inn) /\ r \in Range(gpu_decoding_q)
    <3>1. r \in Started
      BY <2>4 DEF Started
    <3>2. TokBefore(Q)[r] = SeqLen(r) - Spare(TRUE)
      BY <2>1, <3>1 DEF TokBefore
    <3>3. Cdiv(TokBefore(Q)[r]) = Cdiv(SeqLen(r) - Spare(TRUE))
      BY <3>2
    <3>4. f[r] = Cdiv(SeqLen(r) - Spare(TRUE)) \/ f[r] = 0
      BY <2>2, <2>4, <3>3
    <3>5. r \in Range(gpu)
      BY <1>1, <2>4
    <3>6. f[r] \in Nat /\ f[r] <= BlockNeeded(r)
      <4>1. CASE f[r] = 0
        BY <2>1, <4>1
      <4>2. CASE f[r] = Cdiv(SeqLen(r) - Spare(TRUE))
        BY <2>1, <4>2
      <4>3. QED
        BY <3>4, <4>1, <4>2
    <3>7. QED
      BY <3>5, <3>6
  <2>5. CASE r \notin Range(inn) /\ r \notin Range(gpu_decoding_q)
    <3>1. CASE r \in Range(cpu_decoding_q)
      <4>1. OnBefore(Q)[r] = "cpu"
        BY <3>1 DEF OnBefore
      <4>2. QED
        BY <1>1, <2>2, <2>5, <4>1
    <3>2. CASE r \notin Range(cpu_decoding_q)
      <4>1. r \notin Started
        BY <2>5, <3>2 DEF Started
      <4>2. TokBefore(Q)[r] = 0 /\ Cdiv(0) = 0
        BY <4>1, CdivFacts DEF TokBefore
      <4>3. QED
        BY <1>1, <2>2, <2>5, <4>2
    <3>3. QED
      BY <3>1, <3>2
  <2>6. QED
    BY <2>3, <2>4, <2>5
<1>4. f \in [Q -> Nat]
  <2>1. f = [r \in Q |-> f[r]]
    BY <1>w DEF Want
  <2>2. QED
    BY <1>3, <2>1
<1>5. Weight(f, Q) <= BlocksOf(gpu) + BlocksOf(<<>>)
  <2>1. \A r \in Range(gpu) \union Range(<<>>) : f[r] <= BlockNeeded(r)
    BY <1>1, <1>3
  <2>2. \A r \in Q : r \notin Range(gpu) /\ r \notin Range(<<>>) => f[r] = 0
    BY <1>3
  <2>3. PICK e : e = <<>>
    OBVIOUS
  <2>4. List(e, Reqs) /\ Range(e) \subseteq Q /\ Range(gpu) \intersect Range(e) = {}
    BY <1>1, <2>3
  <2>5. Weight(f, Q) <= BlocksOf(gpu) + BlocksOf(e)
    BY <1>1, <1>4, <2>1, <2>2, <2>3, <2>4, WantOfQueues
  <2>6. QED
    BY <2>3, <2>5
<1>6. BlocksOf(<<>>) = 0 /\ BlocksOf(gpu) \in Nat
  BY <1>1, QueueFew, QueueWeight
<1>7. FirstOf(inn, 0) = {}
  <2>1. Len(inn) \in Nat
    BY <1>1, ListFacts
  <2>2. QED
    BY <2>1 DEF FirstOf
<1>8. Weight(Whole(Q, TRUE), {}) = 0
  BY FS_EmptySet DEF Weight, Units
<1>9. GpuBlocks \in Nat
  BY DEF BlocksAssumption
<1>10. Weight(f, Q) <= GpuBlocks
  <2>1. \A r \in Q : f[r] \in Nat
    BY <1>3
  <2>2. IsFiniteSet(Q) /\ Q \in SUBSET Q
    BY FS_Subset DEF SchedulerAssumption
  <2>3. Weight(f, Q) \in Nat
    BY <1>4, <2>2, WeightType
  <2>4. QED
    BY <1>5, <1>6, <1>9, <2>3
<1>11. Weight(Whole(Q, TRUE), FirstOf(inn, 0)) <= GpuBlocks
  <2>1. PICK w : w = Weight(Whole(Q, TRUE), FirstOf(inn, 0))
    OBVIOUS
  <2>2. w = 0
    BY Zenon, <1>7, <1>8, <2>1
  <2>3. w <= GpuBlocks
    BY <1>9, <2>2
  <2>4. QED
    BY Zenon, <2>1, <2>3
<1>12. Weight(Want(Q, inn, 0, Across(Q, inn, OnBefore(Q), FALSE), Dropped(Q, inn, TokBefore(Q)), TRUE), Q)
         <= GpuBlocks
  BY <1>w, <1>10
<1>13. QED
  BY <1>11, <1>12 DEF Room

(* The first batch has room if the GPU's queue with the new prefills has,    *)
(* and the prefills on their way to the CPU have in the other split.         *)
LEMMA BatchRoom ==
  ASSUME BlocksAssumption, SchedulerAssumption, TypeOK, Begun, ExtraLayer,
         NEW Q, NEW gpu, NEW cpu, NEW gprf, NEW kept, NEW c0, NEW c1,
         Cast(Q, gpu, cpu, gprf, kept, c0, c1), Q \in SUBSET Reqs,
         NEW ids, Named(Q, ids), NEW on, PutBy(on, gpu, cpu, gprf, kept),
         BlocksOf(gpu) + BlocksOf(gprf) <= GpuBlocks, BlocksOf(kept) <= GpuBlocks,
         NEW batch, batch = Full(gprf, kept, gpu, c0)
  PROVE  Room(Q, OnGpu(batch), Through(batch), on, TokBefore(Q), FALSE)
<1>q. PICK q : q = OnGpu(batch)
  OBVIOUS
<1>n. PICK n : n = Len(kept)
  OBVIOUS
<1>w. PICK f : f = Want(Q, q, n, on, TokBefore(Q), FALSE)
  OBVIOUS
<1>u. PICK h : h = Whole(Q, FALSE)
  OBVIOUS
<1>k. batch.cprf = kept /\ Through(batch) = n
  BY <1>n DEF Full, Through
<1>1. BatchShape(Q, batch) /\ Range(q) = Range(kept) \union Range(gprf) \union Range(gpu)
  BY <1>q, ShapesOf
<1>2. Sized(Q)
  BY SizesOK
<1>3. \A i \in 1 .. Len(q) : i <= n <=> q[i] \in Range(kept)
  <2>1. \A i \in 1 .. Len(OnGpu(batch)) : i <= Len(batch.cprf) <=> OnGpu(batch)[i] \in Range(batch.cprf)
    BY <1>1, <1>2, SeenBatchFacts
  <2>2. QED
    BY <1>q, <1>n, <1>k, <2>1
<1>4. /\ List(q, Q) /\ Len(q) \in Nat /\ n \in Nat
      /\ \A x : x \in Range(q) <=> \E i \in 1 .. Len(q) : q[i] = x
  <2>1. List(q, Q) /\ List(kept, Q)
    BY <1>1, <1>q, <1>k DEF BatchShape
  <2>2. QED
    BY <1>n, <2>1, ListFacts
<1>5. /\ List(gpu, Reqs) /\ List(gprf, Reqs) /\ List(kept, Reqs)
      /\ Range(gpu) \intersect Range(gprf) = {}
      /\ Range(kept) \intersect (Range(gpu) \union Range(gprf)) = {}
      /\ Range(gpu) \subseteq Q /\ Range(gprf) \subseteq Q /\ Range(kept) \subseteq Q
      /\ Q \subseteq Range(gpu) \union Range(cpu) \union Range(gprf) \union Range(kept)
  BY DEF Cast
<1>6. \A r : Behind(q, n, r) <=> r \in Range(gpu) \union Range(gprf)
  <2>1. \A r : Behind(q, n, r) <=> r \in Range(q) /\ r \notin Range(kept)
    BY <1>3, <1>4 DEF Behind
  <2>2. QED
    BY <1>1, <1>5, <2>1
<1>7. FirstOf(q, n) = Range(kept)
  <2>1. \A r : r \in FirstOf(q, n) <=> r \in Range(q) /\ r \in Range(kept)
    BY <1>3, <1>4 DEF FirstOf
  <2>2. QED
    BY <1>1, <2>1
<1>8. h \in [Q -> Nat] /\ \A r \in Q : h[r] = BlockNeeded(r)
  <2>1. \A r \in Q : /\ Cdiv(SeqLen(r) - Spare(FALSE)) = BlockNeeded(r)
                     /\ Cdiv(SeqLen(r) - Spare(FALSE)) \in Nat
    BY NeedsGrow
  <2>2. QED
    BY <1>u, <2>1 DEF Whole
<1>9. ASSUME NEW r \in Q
      PROVE  /\ f[r] \in Nat
             /\ r \in Range(gpu) \union Range(gprf) => f[r] <= BlockNeeded(r)
             /\ r \notin Range(gpu) /\ r \notin Range(gprf) => f[r] = 0
  <2>1. Cdiv(SeqLen(r) - Spare(FALSE)) = BlockNeeded(r) /\ BlockNeeded(r) \in Nat
    BY NeedsGrow, NeedsType
  <2>2. CASE r \in Range(gpu) \union Range(gprf)
    <3>1. f[r] = Cdiv(SeqLen(r) - Spare(FALSE))
      BY <1>6, <1>w, <2>2 DEF Want
    <3>2. f[r] = BlockNeeded(r)
      BY <2>1, <3>1
    <3>3. QED
      BY <2>1, <2>2, <3>2
  <2>3. CASE r \notin Range(gpu) \union Range(gprf)
    <3>1. f[r] = IF on[r] = "gpu" THEN Cdiv(TokBefore(Q)[r]) ELSE 0
      BY <1>6, <1>w, <2>3 DEF Want
    <3>2. CASE r \in Range(kept)
      <4>1. r \notin Started
        BY <3>2 DEF Cast
      <4>2. TokBefore(Q)[r] = 0 /\ Cdiv(0) = 0
        BY <4>1, CdivFacts DEF TokBefore
      <4>3. f[r] = 0
        BY <3>1, <4>2
      <4>4. QED
        BY <2>3, <4>3
    <3>3. CASE r \in Range(cpu)
      <4>1. on[r] = "cpu"
        BY <3>3 DEF PutBy
      <4>2. f[r] = 0
        BY <3>1, <4>1
      <4>3. QED
        BY <2>3, <4>2
    <3>4. QED
      BY <1>5, <2>3, <3>2, <3>3
  <2>4. QED
    BY <2>2, <2>3
<1>10. f \in [Q -> Nat]
  <2>1. f = [r \in Q |-> f[r]]
    BY <1>w DEF Want
  <2>2. QED
    BY <1>9, <2>1
<1>11. Weight(f, Q) <= BlocksOf(gpu) + BlocksOf(gprf)
  <2>1. \A r \in Range(gpu) \union Range(gprf) : f[r] <= BlockNeeded(r)
    BY <1>5, <1>9
  <2>2. \A r \in Q : r \notin Range(gpu) /\ r \notin Range(gprf) => f[r] = 0
    BY <1>9
  <2>3. QED
    BY <1>5, <1>10, <2>1, <2>2, WantOfQueues
<1>12. /\ BlocksOf(gpu) \in Nat /\ BlocksOf(gprf) \in Nat
       /\ BlocksOf(kept) = Weight(Needs, Range(kept)) /\ GpuBlocks \in Nat
  BY <1>5, QueueWeight DEF BlocksAssumption
<1>13. IsFiniteSet(Q) /\ Q \in SUBSET Q
  BY FS_Subset DEF SchedulerAssumption
<1>14. Weight(f, Q) <= GpuBlocks
  <2>1. Weight(f, Q) \in Nat
    BY <1>10, <1>13, WeightType
  <2>2. QED
    BY <1>11, <1>12, <2>1
<1>15. Weight(h, Range(kept)) = Weight(Needs, Range(kept))
  <2>1. Needs \in [Reqs -> Nat] /\ \A r \in Reqs : Needs[r] = BlockNeeded(r)
    BY NeedsType
  <2>2. PICK K : K = Range(kept)
    OBVIOUS
  <2>3. K \in SUBSET Q /\ K \subseteq Reqs /\ \A r \in K : h[r] = Needs[r]
    BY <1>5, <1>8, <2>1, <2>2
  <2>4. h \in [Q -> Nat] /\ Needs \in [Reqs -> Nat]
    BY <1>8, <2>1
  <2>5. Weight(h, K) = Weight(Needs, K)
    BY ONLY <2>3, <2>4, WeightSame
  <2>6. QED
    BY <2>2, <2>5
<1>16. Weight(h, FirstOf(q, n)) <= GpuBlocks
  BY <1>7, <1>12, <1>15
<1>17. Room(Q, q, n, on, TokBefore(Q), FALSE)
  <2>1. Weight(Want(Q, q, n, on, TokBefore(Q), FALSE), Q) <= GpuBlocks
    BY <1>14, <1>w
  <2>2. Weight(Whole(Q, FALSE), FirstOf(q, n)) <= GpuBlocks
    BY <1>16, <1>u
  <2>3. QED
    BY <2>1, <2>2 DEF Room
<1>18. QED
  BY <1>17, <1>q, <1>k

(* Together: what prepare needs to find.                                     *)
LEMMA RoomsOf ==
  ASSUME BlocksAssumption, SchedulerAssumption, TypeOK, QueuesOK, Begun, ExtraLayer,
         NEW Q, NEW gpu, NEW cpu, NEW gprf, NEW kept, NEW c0, NEW c1,
         Cast(Q, gpu, cpu, gprf, kept, c0, c1), Q \in SUBSET Reqs,
         NEW out, NEW inn, Rearranged(gpu, cpu, out, inn), out = <<>> \/ inn = <<>>,
         NEW ids, Named(Q, ids),
         BlocksOf(gpu) + BlocksOf(gprf) <= GpuBlocks, BlocksOf(kept) <= GpuBlocks,
         NEW bs, bs[1] = Full(gprf, kept, gpu, c0)
  PROVE  Roomy(Q, OnBefore(Q), TokBefore(Q), bs, out, inn)
<1>1. PutBy(Placed(Q, out, inn, OnBefore(Q)), gpu, cpu, gprf, kept)
  BY PlacedFacts
<1>2. PICK on : on = Placed(Q, out, inn, OnBefore(Q))
  OBVIOUS
<1>3. PICK batch : batch = bs[1]
  OBVIOUS
<1>4. batch = Full(gprf, kept, gpu, c0) /\ PutBy(on, gpu, cpu, gprf, kept)
  BY <1>1, <1>2, <1>3
<1>5. Room(Q, OnGpu(batch), Through(batch), on, TokBefore(Q), FALSE)
  BY <1>4, BatchRoom
<1>6. ASSUME out = <<>>
      PROVE  Room(Q, inn, 0, Across(Q, inn, OnBefore(Q), FALSE), Dropped(Q, inn, TokBefore(Q)), TRUE)
  <2>1. Rearranged(gpu, cpu, <<>>, inn)
    BY <1>6
  <2>2. List(gpu, Reqs) /\ List(gprf, Reqs)
    BY DEF Cast
  <2>3. BlocksOf(gpu) <= GpuBlocks
    <3>1. BlocksOf(gpu) \in Nat /\ BlocksOf(gprf) \in Nat /\ GpuBlocks \in Nat
      BY <2>2, QueueWeight DEF BlocksAssumption
    <3>2. QED
      BY <3>1
  <2>4. QED
    BY <2>1, <2>3, SwapInRoom
<1>7. QED
  BY <1>2, <1>3, <1>5, <1>6 DEF Roomy

(* A batch in which somebody is has a size.                                  *)
LEMMA BatchSizeOf ==
  ASSUME NEW Q, NEW ids, Named(Q, ids), Sized(Q), NEW batch, BatchShape(Q, batch),
         NEW gprf, NEW cprf, NEW gdec, NEW cdec, batch = Full(gprf, cprf, gdec, cdec), batch # NoReqs
  PROVE  BatchSize(SeenBatch(ids, batch)) > 0
<1>1. /\ List(cprf, Q) /\ List(gprf, Q) /\ List(gdec, Q) /\ List(cdec, Q)
      /\ batch.cprf = cprf /\ batch.gprf = gprf /\ batch.gdec = gdec /\ batch.cdec = cdec
  BY DEF BatchShape, Full
<1>2. ASSUME NEW q, List(q, Q)
      PROVE  Len(Seen(ids, q)) = Len(q) /\ Len(q) \in Nat
  <2>1. PICK s : s = Seen(ids, q)
    OBVIOUS
  <2>2. Told(s) /\ DOMAIN s = 1 .. Len(q)
    BY <1>2, <2>1, SeenFacts
  <2>3. Len(s) \in Nat /\ DOMAIN s = 1 .. Len(s) /\ Len(q) \in Nat
    BY <1>2, <2>2, ToldFacts, ListFacts
  <2>4. Len(s) = Len(q)
    BY <2>2, <2>3
  <2>5. QED
    BY <2>1, <2>3, <2>4
<1>3. Len(cprf) # 0 \/ Len(gprf) # 0 \/ Len(gdec) # 0 \/ Len(cdec) # 0
  <2>1. cprf # <<>> \/ gprf # <<>> \/ gdec # <<>> \/ cdec # <<>>
    BY DEF Full, NoReqs
  <2>2. QED
    BY <1>1, <2>1, ListNonempty
<1>4. PICK sb : sb = SeenBatch(ids, batch)
  OBVIOUS
<1>5. /\ sb.cprf = Seen(ids, cprf) /\ sb.gprf = Seen(ids, gprf)
      /\ sb.gdec = Seen(ids, gdec) /\ sb.cdec = Seen(ids, cdec)
  BY <1>1, <1>4 DEF SeenBatch, NoReqs
<1>6. /\ Len(sb.cprf) = Len(cprf) /\ Len(cprf) \in Nat /\ Len(sb.gprf) = Len(gprf) /\ Len(gprf) \in Nat
      /\ Len(sb.gdec) = Len(gdec) /\ Len(gdec) \in Nat /\ Len(sb.cdec) = Len(cdec) /\ Len(cdec) \in Nat
  BY <1>1, <1>2, <1>5
<1>7. BatchSize(sb) > 0
  BY <1>3, <1>6 DEF BatchSize
<1>8. QED
  BY <1>4, <1>7

\* What the thresholds see to: everything prepare asserts, and the room.
Budgeted(d, gpu, g) ==
  /\ d.out = <<>> \/ d.in = <<>>
  /\ d.launched <= Len(available_ids)
  /\ Len(AllReqs(d.batches)) <= MaxBatch
  /\ SumFunction([i \in DOMAIN d.batches |-> Width(d.batches[i])]) <= MaxTokens
  /\ d.batches # <<>> /\ \A i \in DOMAIN d.batches : d.batches[i] # NoReqs
  /\ BlocksOf(gpu) + BlocksOf(Prefix(waiting_q, g)) <= GpuBlocks
  /\ BlocksOf(SubSeq(waiting_q, g + 1, d.launched)) <= GpuBlocks

(* A decision within the thresholds is prepared without a failed assertion   *)
(* and without want of GPU blocks.                                           *)
LEMMA PreparedSpared ==
  ASSUME BlocksAssumption, SchedulerAssumption, TypeOK, QueuesOK, IdsOK, BlocksOK, Begun, InBatch = {},
         ExtraLayer,
         NEW d, NEW gpu, NEW cpu, NEW g, NEW c0, NEW c1, DecisionOK(d, gpu, cpu, g, c0, c1),
         Budgeted(d, gpu, g),
         NEW ids, ids = IdsAfter(d), NEW b, b = Prepared(d, ids)
  PROVE  Spared(b)
<1> DEFINE seen == [i \in DOMAIN d.batches |->
                     [part \in DOMAIN NoReqs |-> Seen(ids, d.batches[i][part])]]
           cond == /\ d.launched <= Len(available_ids)
                   /\ \A r \in Range(AllReqs(d.batches)) : ids[r] # NoId
                   /\ Len(AllReqs(d.batches)) <= MaxBatch
                   /\ SumFunction([i \in DOMAIN d.batches |-> Width(d.batches[i])]) <= MaxTokens
<1>1. b = IF cond THEN Prepare(blk, seen, Seen(ids, d.out), Seen(ids, d.in)) ELSE Raise(blk, "assertion")
  BY Zenon DEF Prepared
<1>2. (\A r \in Range(AllReqs(d.batches)) : ids[r] # NoId) => cond
  BY DEF Budgeted
<1>3. PICK bs : bs = d.batches
  OBVIOUS
<1>4. PICK out : out = d.out
  OBVIOUS
<1>5. PICK inn : inn = d.in
  OBVIOUS
<1>6. PICK n : n = d.launched
  OBVIOUS
<1>7. seen = SeenBatches(ids, bs)
  BY <1>3 DEF SeenBatches, SeenBatch
<1>8. n \in 0 .. Len(waiting_q) /\ g \in 0 .. n /\ Rearranged(gpu, cpu, out, inn)
  BY <1>4, <1>5, <1>6 DEF DecisionOK
<1>9. PICK gprf : gprf = Prefix(waiting_q, g)
  OBVIOUS
<1>10. PICK kept : kept = SubSeq(waiting_q, g + 1, n)
  OBVIOUS
<1>11. Decided(bs, gpu, gprf, kept, c0, c1)
  BY <1>3, <1>6, <1>9, <1>10 DEF DecisionOK
<1>12. PICK Q : Q = Running(d)
  OBVIOUS
<1>13. Cast(Q, gpu, cpu, gprf, kept, c0, c1)
  BY <1>6, <1>9, <1>10, <1>12, CastOf
<1>14. Q = Started \union Range(Prefix(waiting_q, n))
  BY <1>6, <1>12 DEF Running
<1>b. /\ out = <<>> \/ inn = <<>>
      /\ n <= Len(available_ids)
      /\ bs # <<>> /\ \A i \in DOMAIN bs : bs[i] # NoReqs
      /\ BlocksOf(gpu) + BlocksOf(gprf) <= GpuBlocks
      /\ BlocksOf(kept) <= GpuBlocks
  BY <1>3, <1>4, <1>5, <1>6, <1>9, <1>10 DEF Budgeted
<1>15. blk \in BlockState
  BY DEF TypeOK
<1>16. Gets(ids, n)
  <2>1. d.launched \in 0 .. Len(waiting_q)
    BY <1>6, <1>8
  <2>2. d.launched <= Len(available_ids) => Gets(IdsAfter(d), d.launched)
    BY <2>1, IdsAfterFacts
  <2>3. QED
    BY <1>6, <1>b, <2>2
<1>17. Named(Q, ids)
  BY <1>8, <1>14, <1>16, <1>b, NamedAfter
<1>18. Q \in SUBSET Reqs
  <2>1. Started \subseteq Reqs
    BY StartedFacts
  <2>2. Range(gprf) \subseteq Reqs /\ Range(kept) \subseteq Reqs
    BY <1>13, ListFacts DEF Cast
  <2>3. QED
    BY <1>13, <2>1, <2>2 DEF Cast
<1>19. \A r \in Range(AllReqs(d.batches)) : ids[r] # NoId
  <2>1. Range(AllReqs(bs)) = Batched(bs, gpu, gprf, kept, c0, c1)
    BY <1>11, <1>13, ReqsOfDecision
  <2>2. Batched(bs, gpu, gprf, kept, c0, c1) \subseteq Q
    BY <1>13 DEF Batched, Cast
  <2>3. \A id \in Ids : id # NoId
    <3>1. Cardinality(Ids) \in Nat
      BY FS_CardinalityType DEF SchedulerAssumption
    <3>2. \A id \in 0 .. Cardinality(Ids) - 1 : id # -1
      BY <3>1
    <3>3. QED
      BY <3>2 DEF SchedulerAssumption, NoId
  <2>4. \A r \in Q : ids[r] # NoId
    BY <1>17, <2>3 DEF Named
  <2>5. QED
    BY <1>3, <2>1, <2>2, <2>4
<1> HIDE DEF seen, cond
<1>20. b = Prepare(blk, SeenBatches(ids, bs), Seen(ids, out), Seen(ids, inn))
  BY <1>1, <1>2, <1>4, <1>5, <1>7, <1>19
<1>21. Sized(Q) /\ IsFiniteSet(Q)
  BY <1>18, SizesOK, FS_Subset DEF SchedulerAssumption
<1>22. List(out, Q) /\ List(inn, Q)
  <2>1. List(out, Reqs) /\ List(inn, Reqs)
    BY <1>8 DEF Rearranged
  <2>2. Range(out) \subseteq Q /\ Range(inn) \subseteq Q
    BY <1>8, <1>14 DEF Rearranged, Started
  <2>3. QED
    BY <2>1, <2>2, ListWithin
<1>23. /\ Len(bs) \in {1, 2} /\ DOMAIN bs = 1 .. Len(bs)
       /\ bs[1] = Full(gprf, kept, gpu, c0)
       /\ Len(bs) = 2 => bs[2] = Full(<<>>, <<>>, <<>>, c1)
  <2>1. /\ Len(bs) \in {0, 1, 2} /\ DOMAIN bs = 1 .. Len(bs)
        /\ Len(bs) = 0 => bs = <<>>
        /\ Len(bs) # 0 => bs[1] = Full(gprf, kept, gpu, c0)
        /\ Len(bs) = 2 => bs[2] = Full(<<>>, <<>>, <<>>, c1) /\ bs = <<bs[1], bs[2]>>
    BY <1>11, BatchesOf
  <2>2. QED
    BY <1>b, <2>1
<1>24. \A i \in DOMAIN bs : BatchShape(Q, bs[i]) /\ BatchSize(SeenBatch(ids, bs[i])) > 0
  <2>1. BatchShape(Q, Full(gprf, kept, gpu, c0)) /\ BatchShape(Q, Full(<<>>, <<>>, <<>>, c1))
    BY <1>13, ShapesOf
  <2> TAKE i \in DOMAIN bs
  <2>2. PICK batch : batch = bs[i]
    OBVIOUS
  <2>3. batch = Full(gprf, kept, gpu, c0) \/ batch = Full(<<>>, <<>>, <<>>, c1)
    <3>1. i = 1 \/ (i = 2 /\ Len(bs) = 2)
      BY <1>23
    <3>2. QED
      BY <1>23, <2>2, <3>1
  <2>4. BatchShape(Q, batch) /\ batch # NoReqs
    BY <1>b, <2>1, <2>2, <2>3
  <2>5. BatchSize(SeenBatch(ids, batch)) > 0
    BY <1>17, <1>21, <2>3, <2>4, BatchSizeOf
  <2>6. QED
    BY <2>2, <2>4, <2>5
<1>25. PICK on : on = OnBefore(Q)
  OBVIOUS
<1>26. PICK tok : tok = TokBefore(Q)
  OBVIOUS
<1>27. Holds(blk, {}, Q, ids, on, tok)
  BY <1>8, <1>14, <1>b, <1>16, <1>25, <1>26, HoldsBefore
<1>28. PlanOK(Q, on, tok, bs, out, inn)
  <2>1. Planned(Q, on, tok, bs, out, inn)
    BY <1>8, <1>11, <1>13, <1>25, <1>26, PlanHolds
  <2>2. QED
    BY <1>b, <2>1 DEF Planned
<1>29. Roomy(Q, on, tok, bs, out, inn)
  BY <1>8, <1>13, <1>17, <1>18, <1>23, <1>25, <1>26, <1>b, RoomsOf
<1>30. tok \in [Q -> Nat] /\ \A r \in Q : tok[r] <= SeqLen(r)
  <2>1. \A r \in Q : SeqLen(r) \in Nat \ {0}
    BY <1>21 DEF Sized
  <2>2. QED
    BY <1>26, <2>1 DEF TokBefore
<1>31. Spared(Prepare(blk, SeenBatches(ids, bs), Seen(ids, out), Seen(ids, inn)))
  <2>1. Within(Q, tok)
    BY <1>30 DEF Within
  <2>2. Shaped(Q, ids, bs)
    BY <1>23, <1>24 DEF Shaped
  <2>3. out = <<>> \/ inn = <<>>
    BY <1>b
  <2>4. QED
    BY <1>17, <1>21, <1>22, <1>27, <1>28, <1>29, <2>1, <2>2, <2>3, PrepareSpared
<1>32. QED
  BY <1>20, <1>31

-------------------------------------------------------------------------------
\* The thresholds of both policies keep a decision within that room.

(* The largest number of such a set is above the others.                     *)
LEMMA MaxAbove ==
  ASSUME NEW k \in Nat, NEW T \in SUBSET (0 .. k), 0 \in T
  PROVE  Max(T) \in T /\ \A x \in T : x <= Max(T)
<1> DEFINE G == {k - x : x \in T}
<1>1. G \in SUBSET Nat /\ G # {}
  OBVIOUS
<1>2. PICK m \in G : \A n \in G : m <= n
  BY <1>1, LeastNatural
<1>3. PICK x \in T : m = k - x
  BY <1>2
<1>4. \A y \in T : x >= y
  <2> TAKE y \in T
  <2>1. m <= k - y
    BY <1>2
  <2>2. QED
    BY <1>3, <2>1
<1>5. Max(T) \in T /\ \A y \in T : Max(T) >= y
  BY <1>4 DEF Max
<1>6. T \subseteq Int
  OBVIOUS
<1> HIDE DEF G
<1>7. PICK t : t = Max(T)
  OBVIOUS
<1>8. t \in T /\ \A y \in T : t >= y
  BY ONLY <1>5, <1>7
<1>9. t \in Int /\ \A y \in T : y \in Int
  BY ONLY <1>6, <1>8
<1>10. \A y \in T : y <= t
  BY ONLY <1>8, <1>9
<1>11. QED
  BY ONLY <1>7, <1>8, <1>10

(* The margin is within the GPU.                                             *)
LEMMA MarginWithin ==
  ASSUME NEW n \in Nat
  PROVE  SwapInThreshold(n) \in Nat /\ SwapInThreshold(n) <= n
<1> DEFINE q == (95 * n) \div 100
<1>1. q \in Nat /\ 100 * q <= 95 * n
  OBVIOUS
<1>2. n > 0 => q < n
  BY <1>1
<1>3. n = 0 => q = 0 /\ (95 * n) % 100 = 0
  OBVIOUS
<1>4. SwapInThreshold(n) = q \/ (SwapInThreshold(n) = q + 1 /\ n > 0)
  BY <1>3 DEF SwapInThreshold
<1> HIDE DEF q
<1>5. q <= n
  BY <1>1, <1>2, <1>3
<1>6. QED
  BY <1>1, <1>2, <1>4, <1>5

(* Where the loop over the GPU's queue stops.                                *)
LEMMA StayStops ==
  ASSUME List(gpu_decoding_q, Reqs)
  PROVE  /\ Stay \in 0 .. Len(gpu_decoding_q)
         /\ Stay = 0 \/ (Stay <= MaxBatch /\ BlocksOf(Prefix(gpu_decoding_q, Stay)) <= NumGpuBlocks)
         /\ \A n \in 0 .. Len(gpu_decoding_q) :
              n <= MaxBatch /\ BlocksOf(Prefix(gpu_decoding_q, n)) <= NumGpuBlocks => n <= Stay
<1> DEFINE T == {n \in 0 .. Len(gpu_decoding_q) : n <= MaxBatch
                   /\ BlocksOf(Prefix(gpu_decoding_q, n)) <= NumGpuBlocks} \union {0}
<1>1. PICK k \in Nat : k = Len(gpu_decoding_q)
  BY ListFacts
<1>2. Stay = Max(T)
  BY DEF Stay
<1>3. T \in SUBSET (0 .. k) /\ 0 \in T
  BY <1>1
<1>4. PICK t : t = T
  OBVIOUS
<1> HIDE DEF T
<1>5. Stay \in t /\ \A x \in t : x <= Stay
  BY <1>2, <1>3, <1>4, MaxAbove
<1>6. \A n : n \in t <=> n = 0 \/ (/\ n \in 0 .. Len(gpu_decoding_q) /\ n <= MaxBatch
                                  /\ BlocksOf(Prefix(gpu_decoding_q, n)) <= NumGpuBlocks)
  BY <1>4 DEF T
<1>7. QED
  BY <1>1, <1>3, <1>4, <1>5, <1>6

(* What held up to where the loops over the other queues stopped.            *)
LEMMA SwappedInStops ==
  ASSUME NEW gpu, NEW cpu, List(cpu, Reqs)
  PROVE  /\ SwappedIn(gpu, cpu) \in 0 .. Len(cpu)
         /\ \A m \in 1 .. SwappedIn(gpu, cpu) :
              /\ BlocksOf(gpu) + BlocksOf(Prefix(cpu, m)) <= SwapInThreshold(NumGpuBlocks)
              /\ Len(gpu) + m <= MaxBatch
         /\ OldSwappedIn(gpu, cpu) \in 0 .. Len(cpu)
         /\ \A m \in 1 .. OldSwappedIn(gpu, cpu) :
              /\ Len(gpu) + m <= MaxBatch
              /\ BlocksOf(gpu) + BlocksOf(Prefix(cpu, m)) <= NumGpuBlocks
<1>1. PICK k \in Nat : k = Len(cpu)
  BY ListFacts
<1>2. /\ SwappedIn(gpu, cpu) \in 0 .. k
      /\ \A m \in 1 .. SwappedIn(gpu, cpu) :
              /\ BlocksOf(gpu) + BlocksOf(Prefix(cpu, m)) <= SwapInThreshold(NumGpuBlocks)
              /\ Len(gpu) + m <= MaxBatch
  <2> DEFINE T == {n \in 0 .. k : \A m \in 1 .. n :
                     /\ BlocksOf(gpu) + BlocksOf(Prefix(cpu, m)) <= SwapInThreshold(NumGpuBlocks)
                     /\ Len(gpu) + m <= MaxBatch}
  <2>1. SwappedIn(gpu, cpu) = Max(T)
    BY <1>1 DEF SwappedIn, Longest
  <2>2. T \in SUBSET (0 .. k) /\ 0 \in T
    OBVIOUS
  <2>3. Max(T) \in T
    <3> HIDE DEF T
    <3>1. QED
      BY <2>2, MaxUpto
  <2>4. QED
    BY <2>1, <2>3
<1>3. /\ OldSwappedIn(gpu, cpu) \in 0 .. k
      /\ \A m \in 1 .. OldSwappedIn(gpu, cpu) :
              /\ Len(gpu) + m <= MaxBatch
              /\ BlocksOf(gpu) + BlocksOf(Prefix(cpu, m)) <= NumGpuBlocks
  <2> DEFINE T == {n \in 0 .. k : \A m \in 1 .. n :
                     /\ Len(gpu) + m <= MaxBatch
                     /\ BlocksOf(gpu) + BlocksOf(Prefix(cpu, m)) <= NumGpuBlocks}
  <2>1. OldSwappedIn(gpu, cpu) = Max(T)
    BY <1>1 DEF OldSwappedIn, Longest
  <2>2. T \in SUBSET (0 .. k) /\ 0 \in T
    OBVIOUS
  <2>3. Max(T) \in T
    <3> HIDE DEF T
    <3>1. QED
      BY <2>2, MaxUpto
  <2>4. QED
    BY <2>1, <2>3
<1>4. QED
  BY <1>1, <1>2, <1>3

(* Where the loops over the waiting queue stop.                              *)
LEMMA PrefillsStop ==
  ASSUME List(waiting_q, Reqs)
  PROVE  /\ \A gpu : \A n \in 1 .. ToGpu(gpu) :
              BlocksOf(gpu) + BlocksOf(Prefix(waiting_q, n)) <= NumGpuBlocks
         /\ \A gpu, cpu : \A n \in 1 .. Prefills(gpu, cpu) : Launchable(gpu, cpu, n)
         /\ \A gpu : \A n \in 1 .. OldPrefills(gpu) :
              /\ Len(gpu) + n <= MaxBatch
              /\ BlocksOf(gpu) + BlocksOf(Prefix(waiting_q, n)) <= NumGpuBlocks
              /\ Len(gpu) + Prompts(Prefix(waiting_q, n)) <= MaxTokens
<1>1. PICK w \in Nat : w = Len(waiting_q)
  BY ListFacts
<1>2. ASSUME NEW gpu
      PROVE  \A n \in 1 .. ToGpu(gpu) : BlocksOf(gpu) + BlocksOf(Prefix(waiting_q, n)) <= NumGpuBlocks
  <2> DEFINE T == {n \in 0 .. w : \A m \in 1 .. n :
                     BlocksOf(gpu) + BlocksOf(Prefix(waiting_q, m)) <= NumGpuBlocks}
  <2>1. ToGpu(gpu) = Max(T)
    BY <1>1 DEF ToGpu, Longest
  <2>2. T \in SUBSET (0 .. w) /\ 0 \in T
    OBVIOUS
  <2>3. Max(T) \in T
    <3> HIDE DEF T
    <3>1. QED
      BY <2>2, MaxUpto
  <2>4. QED
    BY <2>1, <2>3
<1>3. ASSUME NEW gpu, NEW cpu
      PROVE  \A n \in 1 .. Prefills(gpu, cpu) : Launchable(gpu, cpu, n)
  <2> DEFINE T == {n \in 0 .. w : \A m \in 1 .. n : Launchable(gpu, cpu, m)}
  <2>1. Prefills(gpu, cpu) = Max(T)
    BY <1>1 DEF Prefills, Longest
  <2>2. T \in SUBSET (0 .. w) /\ 0 \in T
    OBVIOUS
  <2>3. Max(T) \in T
    <3> HIDE DEF T
    <3>1. QED
      BY <2>2, MaxUpto
  <2>4. QED
    BY <2>1, <2>3
<1>4. ASSUME NEW gpu
      PROVE  \A n \in 1 .. OldPrefills(gpu) :
              /\ Len(gpu) + n <= MaxBatch
              /\ BlocksOf(gpu) + BlocksOf(Prefix(waiting_q, n)) <= NumGpuBlocks
              /\ Len(gpu) + Prompts(Prefix(waiting_q, n)) <= MaxTokens
  <2> DEFINE T == {n \in 0 .. w : \A m \in 1 .. n :
                     /\ Len(gpu) + m <= MaxBatch
                     /\ BlocksOf(gpu) + BlocksOf(Prefix(waiting_q, m)) <= NumGpuBlocks
                     /\ Len(gpu) + Prompts(Prefix(waiting_q, m)) <= MaxTokens}
  <2>1. OldPrefills(gpu) = Max(T)
    BY <1>1 DEF OldPrefills, Longest
  <2>2. T \in SUBSET (0 .. w) /\ 0 \in T
    OBVIOUS
  <2>3. Max(T) \in T
    <3> HIDE DEF T
    <3>1. QED
      BY <2>2, MaxUpto
  <2>4. QED
    BY <2>1, <2>3
<1>5. QED
  BY <1>2, <1>3, <1>4

\* What is left of a batch's limits once the prefills and the GPU's decodes are in.
Budget(gpu, gprf, cprf) ==
  Min({MaxBatch - Len(gpu) - (Len(gprf) + Len(cprf)), MaxTokens - Len(gpu) - Prompts(gprf) - Prompts(cprf)})

(* A splitting takes no more decodes than the budget.                        *)
LEMMA SplittingFits ==
  ASSUME NEW cpu, List(cpu, Reqs), NEW budget, NEW d \in Splittings(cpu, budget)
  PROVE  /\ Len(Part(cpu, d, 0)) \in Nat /\ Len(Part(cpu, d, 1)) \in Nat
         /\ Len(Part(cpu, d, 0)) + Len(Part(cpu, d, 1)) <= budget
<1> DEFINE T == {i \in 1 .. Len(cpu) : d[i] # 2}
           I(b) == {i \in DOMAIN cpu : d[i] = b}
<1>1. DOMAIN cpu = 1 .. Len(cpu) /\ Len(cpu) \in Nat /\ cpu \in Seq(Reqs)
  BY ListFacts
<1>2. d \in [DOMAIN cpu -> {0, 1, 2}] /\ Cardinality(T) <= budget
  BY DEF Splittings
<1>3. I(0) \in SUBSET (1 .. Len(cpu)) /\ I(1) \in SUBSET (1 .. Len(cpu))
  BY <1>1
<1>4. T = I(0) \union I(1) /\ I(0) \intersect I(1) = {}
  BY <1>1, <1>2
<1>5. PICK i0 : i0 = I(0)
  OBVIOUS
<1>6. PICK i1 : i1 = I(1)
  OBVIOUS
<1>7. PICK t : t = T
  OBVIOUS
<1>8. Part(cpu, d, 0) = Pick(cpu, i0) /\ Part(cpu, d, 1) = Pick(cpu, i1)
  BY <1>5, <1>6 DEF Part
<1> HIDE DEF T, I
<1>9. /\ i0 \in SUBSET (1 .. Len(cpu)) /\ i1 \in SUBSET (1 .. Len(cpu))
      /\ t = i0 \union i1 /\ i0 \intersect i1 = {} /\ Cardinality(t) <= budget
  BY <1>2, <1>3, <1>4, <1>5, <1>6, <1>7
<1>10. /\ IsFiniteSet(i0) /\ Len(Pick(cpu, i0)) = Cardinality(i0)
       /\ IsFiniteSet(i1) /\ Len(Pick(cpu, i1)) = Cardinality(i1)
  BY <1>1, <1>9, PickSeq
<1>11. Cardinality(i0) \in Nat /\ Cardinality(i1) \in Nat
  BY <1>10, FS_CardinalityType
<1>12. Cardinality(t) = Cardinality(i0) + Cardinality(i1)
  <2>1. Cardinality(i0 \union i1) = Cardinality(i0) + Cardinality(i1) - Cardinality(i0 \intersect i1)
    BY <1>10, FS_Union
  <2>2. Cardinality(i0 \intersect i1) = 0
    BY <1>9, FS_EmptySet
  <2>3. QED
    BY <1>9, <1>11, <2>1, <2>2
<1>13. QED
  BY <1>8, <1>9, <1>10, <1>11, <1>12

(* A batch of nothing but prefills to the CPU keeps one of them.             *)
LEMMA KeepsOne ==
  ASSUME SchedulerAssumption, NEW cprf, List(cprf, Reqs), cprf # <<>>
  PROVE  LeastKept(Full(<<>>, cprf, <<>>, <<>>)) >= 1
<1> DEFINE batch == Full(<<>>, cprf, <<>>, <<>>)
           T == {0} \union {k \in DOMAIN batch.cprf :
                     Width([batch EXCEPT !.cprf = Prefix(@, k - 1)]) < LinrThreshold}
<1>1. batch.cprf = cprf
  BY DEF Full
<1>2. PICK n \in Nat : n = Len(cprf)
  BY ListFacts
<1>3. DOMAIN cprf = 1 .. n /\ cprf \in Seq(Reqs) /\ n > 0
  BY <1>2, ListFacts, ListNonempty
<1>4. LeastKept(batch) = Max(T)
  BY DEF LeastKept
<1>5. T \in SUBSET (0 .. n) /\ 0 \in T
  <2>1. \A k \in DOMAIN batch.cprf : k \in 0 .. n
    BY <1>1, <1>3
  <2> HIDE DEF batch
  <2>2. QED
    BY <2>1
<1>6. Prompts(<<>>) = 0
  <2>1. PICK z : z = [i \in DOMAIN <<>> |-> PromptLen[<<>>[i]]]
    OBVIOUS
  <2>2. z \in [1 .. 0 -> Nat]
    BY <2>1
  <2>3. SumFunction(z) = 0
    BY <2>2, SumOfFew
  <2>4. QED
    BY <2>1, <2>3 DEF Prompts
<1>7. Width([batch EXCEPT !.cprf = Prefix(@, 1 - 1)]) = 0
  <2>1. Prefix(cprf, 1 - 1) = <<>>
    BY <1>3 DEF Prefix
  <2>2. PICK e : e = [batch EXCEPT !.cprf = Prefix(@, 1 - 1)]
    OBVIOUS
  <2>3. e.cprf = <<>> /\ e.gprf = <<>> /\ e.gdec = <<>> /\ e.cdec = <<>>
    <3>1. /\ e.cprf = Prefix(cprf, 1 - 1) /\ e.gprf = batch.gprf /\ e.gdec = batch.gdec
          /\ e.cdec = batch.cdec
      BY <2>2 DEF Full
    <3>2. QED
      BY <2>1, <3>1 DEF Full
  <2>4. Width(e) = Prompts(<<>>) + Prompts(<<>>) + Len(<<>>) + Len(<<>>)
    BY <2>3 DEF Width
  <2>5. Len(<<>>) = 0
    OBVIOUS
  <2>6. Width(e) = 0
    BY <1>6, <2>4, <2>5
  <2>7. QED
    BY <2>2, <2>6
<1>8. 1 \in T
  <2>1. 1 \in DOMAIN batch.cprf /\ 0 < LinrThreshold
    BY <1>1, <1>3 DEF SchedulerAssumption
  <2> HIDE DEF batch
  <2>2. QED
    BY <1>7, <2>1
<1> HIDE DEF T
<1>9. PICK u : u = T
  OBVIOUS
<1>10. u \in SUBSET (0 .. n) /\ 0 \in u /\ 1 \in u /\ LeastKept(batch) = Max(u)
  BY <1>4, <1>5, <1>8, <1>9
<1>11. Max(u) \in u /\ \A x \in u : x <= Max(u)
  BY <1>10, MaxAbove
<1>12. 1 <= Max(u) /\ Max(u) \in 0 .. n
  BY <1>10, <1>11
<1>13. LeastKept(batch) >= 1
  BY <1>10, <1>12
<1>14. QED
  BY <1>13

\* The batches' decodes on the CPU are within the budget and nobody's batch is empty.
Decodes(bs, gpu, budget) ==
  /\ Len(bs) = 1 => Len(bs[1].cdec) = 0 \/ Len(bs[1].cdec) <= budget
  /\ Len(bs) = 2 => Len(bs[1].cdec) + Len(bs[2].cdec) <= budget
  /\ \A i \in 1 .. Len(bs) : bs[i] # NoReqs
  /\ bs = <<>> => gpu = <<>>

(* So it is in every decision.                                               *)
LEMMA DecodesFit ==
  ASSUME BlocksAssumption, SchedulerAssumption,
         NEW gpu, NEW cpu, List(cpu, Reqs), NEW gprf, NEW cprf, List(cprf, Reqs),
         Budget(gpu, gprf, cprf) \in Int,
         NEW bs \in Decisions(gpu, cpu, gprf, cprf)
  PROVE  Decodes(bs, gpu, Budget(gpu, gprf, cprf))
<1> DEFINE all == [NoReqs EXCEPT !.gprf = gprf, !.cprf = cprf, !.gdec = gpu]
           gpuOnlyBatch == Keep(all, LeastKept(all))
           n == Len(gprf) + Len(cprf)
           tokens == MaxTokens - Len(gpu) - Prompts(gprf) - Prompts(cprf)
           budget == Min({MaxBatch - Len(gpu) - n, tokens})
           Two(d) == <<[all EXCEPT !.cdec = Part(cpu, d, 0)], [NoReqs EXCEPT !.cdec = Part(cpu, d, 1)]>>
           Kept(d) == {<<Keep(Two(d)[1], k), Two(d)[2]>> : k \in LeastKept(Two(d)[1]) .. Len(cprf)}
           Ds == {e \in Splittings(cpu, budget) : Part(cpu, e, 1) # <<>>}
           one == {Pick(Two(d), {i \in 1 .. 2 : Two(d)[i] # NoReqs}) : d \in Splittings(cpu, budget)}
           two == {<<gpuOnlyBatch>>} \union UNION {Kept(d) : d \in Ds}
           F(c) == Full(gprf, cprf, gpu, c)
           G(c) == Full(<<>>, <<>>, <<>>, c)
<1>1. Decisions(gpu, cpu, gprf, cprf) = IF all = NoReqs /\ NumGpuBlocks > 0 THEN {<<>>}
                                        ELSE IF NumGpuBlocks = 0 THEN one ELSE two
  BY Zenon DEF Decisions
<1>2. all = F(<<>>)
  BY FullWith
<1>3. \A d : Two(d) = <<F(Part(cpu, d, 0)), G(Part(cpu, d, 1))>>
  <2> TAKE d
  <2>1. [all EXCEPT !.cdec = Part(cpu, d, 0)] = F(Part(cpu, d, 0))
    <3>1. [F(<<>>) EXCEPT !.cdec = Part(cpu, d, 0)] = F(Part(cpu, d, 0))
      BY DEF Full
    <3>2. QED
      BY Zenon, <1>2, <3>1
  <2>2. [NoReqs EXCEPT !.cdec = Part(cpu, d, 1)] = G(Part(cpu, d, 1))
    BY DEF Full, NoReqs
  <2>3. QED
    BY <2>1, <2>2
<1>b. PICK most \in Int : most = Budget(gpu, gprf, cprf)
  OBVIOUS
<1>c. budget = most
  BY <1>b DEF Budget
<1>4. \A d \in Splittings(cpu, most) :
        /\ Len(Part(cpu, d, 0)) \in Nat /\ Len(Part(cpu, d, 1)) \in Nat
        /\ Len(Part(cpu, d, 0)) + Len(Part(cpu, d, 1)) <= most
  BY SplittingFits
<1>5. Len(cprf) \in Nat /\ \A k : 1 <= k /\ k \in 1 .. Len(cprf) => Prefix(cprf, k) # <<>>
  <2>1. Len(cprf) \in Nat
    BY ListFacts
  <2>2. ASSUME NEW k \in 1 .. Len(cprf) PROVE Prefix(cprf, k) # <<>>
    <3>1. k \in 0 .. Len(cprf)
      BY <2>1
    <3>2. List(Prefix(cprf, k), Reqs) /\ Len(Prefix(cprf, k)) = k
      BY <3>1, ListCut
    <3>3. QED
      BY <3>2, ListNonempty
  <2>3. QED
    BY <2>1, <2>2
<1>6. \A c, k : Keep(F(c), k) = Full(gprf, Prefix(cprf, k), gpu, c)
  BY DEF Keep, Full
<1>7. \A c : LeastKept(F(c)) \in 0 .. Len(cprf)
  BY LeastKeptBounds
<1>9. NoReqs = Full(<<>>, <<>>, <<>>, <<>>)
  BY DEF NoReqs, Full
<1>a. \A c, k : gprf = <<>> /\ gpu = <<>> /\ c = <<>> /\ cprf # <<>> => LeastKept(F(c)) >= 1
  <2>1. cprf # <<>> => LeastKept(Full(<<>>, cprf, <<>>, <<>>)) >= 1
    BY KeepsOne
  <2>2. QED
    BY <2>1
<1>d. \A c : \A k \in LeastKept(F(c)) .. Len(cprf) :
         (gprf # <<>> \/ gpu # <<>> \/ cprf # <<>>) => Full(gprf, Prefix(cprf, k), gpu, c) # NoReqs
  <2> SUFFICES ASSUME NEW c, NEW k \in LeastKept(F(c)) .. Len(cprf),
                      gprf # <<>> \/ gpu # <<>> \/ cprf # <<>>,
                      Full(gprf, Prefix(cprf, k), gpu, c) = NoReqs
               PROVE  FALSE
    OBVIOUS
  <2>1. gprf = <<>> /\ gpu = <<>> /\ c = <<>> /\ Prefix(cprf, k) = <<>>
    BY <1>9 DEF Full
  <2>2. cprf # <<>>
    BY <2>1
  <2>3. PICK l \in 0 .. Len(cprf) : l = LeastKept(F(c))
    BY <1>7
  <2>4. l >= 1
    BY <1>a, <2>1, <2>2, <2>3
  <2>5. k \in 1 .. Len(cprf)
    BY <1>5, <2>3, <2>4
  <2>6. QED
    BY <1>5, <2>1, <2>5
<1>10. CASE bs = <<>> /\ all = NoReqs
  <2>1. gpu = <<>>
    BY <1>2, <1>9, <1>10 DEF Full
  <2>2. Len(bs) = 0
    BY <1>10
  <2>3. QED
    BY <2>1, <2>2 DEF Decodes
<1>11. CASE bs \in one
  <2>1. PICK d \in Splittings(cpu, most) : bs = Pick(Two(d), {i \in 1 .. 2 : Two(d)[i] # NoReqs})
    BY <1>11, <1>c
  <2>2. PICK c0 : c0 = Part(cpu, d, 0)
    OBVIOUS
  <2>3. PICK c1 : c1 = Part(cpu, d, 1)
    OBVIOUS
  <2>4. PICK f : f = F(c0)
    OBVIOUS
  <2>5. PICK g : g = G(c1)
    OBVIOUS
  <2>6. PICK t : t = <<f, g>>
    OBVIOUS
  <2>7. Two(d) = t
    BY <1>3, <2>2, <2>3, <2>4, <2>5, <2>6
  <2>8. Len(c0) \in Nat /\ Len(c1) \in Nat /\ Len(c0) + Len(c1) <= most
    BY <1>4, <2>2, <2>3
  <2>9. t[1] = f /\ t[2] = g /\ Len(t) = 2 /\ t \in Seq({f, g})
    BY <2>6
  <2>10. PICK idx : idx = {i \in 1 .. 2 : t[i] # NoReqs}
    OBVIOUS
  <2>11. bs = Pick(t, idx) /\ idx \in SUBSET (1 .. Len(t))
    BY <2>1, <2>7, <2>9, <2>10
  <2>12. PICK X : X = {f, g}
    OBVIOUS
  <2>13. bs \in Seq(X) /\ IsFiniteSet(idx) /\ Len(bs) = Cardinality(idx)
    BY <2>9, <2>11, <2>12, PickSeq
  <2>14. PICK e \in [1 .. Cardinality(idx) -> idx] : PickedBy(t, idx, e)
    BY <2>9, <2>11, <2>12, PickSeq
  <2>15. \A i \in idx : i \in {1, 2} /\ t[i] # NoReqs
    BY <2>10
  <2>16. f # NoReqs => 1 \in idx
    BY <2>9, <2>10
  <2>17. /\ \A k \in 1 .. Cardinality(idx) : bs[k] = t[e[k]]
         /\ \A k, l \in 1 .. Cardinality(idx) : k < l => e[k] < e[l]
    BY <2>11, <2>14 DEF PickedBy
  <2>18. PICK m \in Nat : m = Len(bs) /\ m = Cardinality(idx)
    BY <2>13
  <2>19. /\ e \in [1 .. m -> idx] /\ \A k \in 1 .. m : bs[k] = t[e[k]]
         /\ \A k, l \in 1 .. m : k < l => e[k] < e[l]
    BY <2>14, <2>17, <2>18
  <2>20. f.cdec = c0 /\ g.cdec = c1
    BY <2>4, <2>5 DEF Full
  <2>21. \A k \in 1 .. m : e[k] \in {1, 2} /\ bs[k] # NoReqs /\ (e[k] = 1 => bs[k] = f) /\ (e[k] = 2 => bs[k] = g)
    <3> TAKE k \in 1 .. m
    <3>1. e[k] \in idx /\ bs[k] = t[e[k]]
      BY <2>19
    <3>2. e[k] \in {1, 2} /\ bs[k] # NoReqs
      BY <2>15, <3>1
    <3>3. QED
      BY <2>9, <3>1, <3>2
  <2>22. m = 1 => Len(bs[1].cdec) <= most
    <3>1. ASSUME m = 1 PROVE Len(bs[1].cdec) <= most
      <4>1. bs[1] = f \/ bs[1] = g
        BY <2>21, <3>1
      <4>2. bs[1].cdec = c0 \/ bs[1].cdec = c1
        BY <2>20, <4>1
      <4>3. Len(c0) <= most /\ Len(c1) <= most
        <5>2. PICK a \in Nat : a = Len(c0)
          BY <2>8
        <5>3. PICK b \in Nat : b = Len(c1)
          BY <2>8
        <5>4. a + b <= most
          BY <2>8, <5>2, <5>3
        <5>5. a <= most /\ b <= most
          BY <5>4
        <5>6. QED
          BY <5>2, <5>3, <5>5
      <4>4. QED
        BY <4>2, <4>3
    <3>2. QED
      BY <3>1
  <2>23. m = 2 => Len(bs[1].cdec) + Len(bs[2].cdec) <= most
    <3>1. ASSUME m = 2 PROVE Len(bs[1].cdec) + Len(bs[2].cdec) <= most
      <4>1. e[1] < e[2] /\ e[1] \in {1, 2} /\ e[2] \in {1, 2}
        BY <2>19, <2>21, <3>1
      <4>2. e[1] = 1 /\ e[2] = 2
        BY <4>1
      <4>3. bs[1] = f /\ bs[2] = g
        BY <2>21, <3>1, <4>2
      <4>4. QED
        BY <2>8, <2>20, <4>3
    <3>2. QED
      BY <3>1
  <2>24. bs = <<>> => gpu = <<>>
    <3>1. ASSUME bs = <<>> PROVE gpu = <<>>
      <4>1. Cardinality(idx) = 0
        BY <2>13, <3>1
      <4>2. idx = {}
        BY <2>13, <4>1, FS_EmptySet
      <4>3. f = NoReqs
        BY <2>16, <4>2
      <4>4. QED
        BY <1>9, <2>4, <4>3 DEF Full
    <3>2. QED
      BY <3>1
  <2>25. Decodes(bs, gpu, most)
    BY <2>18, <2>21, <2>22, <2>23, <2>24 DEF Decodes
  <2>26. QED
    BY <1>b, <2>25
<1>12. CASE bs = <<gpuOnlyBatch>> /\ all # NoReqs
  <2>1. PICK k : k = LeastKept(all)
    OBVIOUS
  <2>2. k \in LeastKept(F(<<>>)) .. Len(cprf)
    BY <1>2, <1>5, <1>7, <2>1
  <2>3. gpuOnlyBatch = Full(gprf, Prefix(cprf, k), gpu, <<>>)
    BY <1>2, <1>6, <2>1
  <2>4. gprf # <<>> \/ gpu # <<>> \/ cprf # <<>>
    BY <1>2, <1>9, <1>12
  <2>5. gpuOnlyBatch # NoReqs
    BY <1>d, <2>2, <2>3, <2>4
  <2>6. gpuOnlyBatch.cdec = <<>>
    BY <2>3 DEF Full
  <2> HIDE DEF gpuOnlyBatch
  <2>7. Len(bs) = 1 /\ bs[1] = gpuOnlyBatch /\ bs # <<>>
    BY <1>12
  <2>8. Len(bs[1].cdec) = 0
    BY <2>6, <2>7
  <2>9. QED
    BY <2>5, <2>7, <2>8 DEF Decodes
<1>13. ASSUME NEW d \in Ds, bs \in Kept(d), all # NoReqs
       PROVE  Decodes(bs, gpu, Budget(gpu, gprf, cprf))
  <2>1. PICK k \in LeastKept(Two(d)[1]) .. Len(cprf) : bs = <<Keep(Two(d)[1], k), Two(d)[2]>>
    BY <1>13
  <2>2. PICK c0 : c0 = Part(cpu, d, 0)
    OBVIOUS
  <2>3. PICK c1 : c1 = Part(cpu, d, 1)
    OBVIOUS
  <2>4. Two(d)[1] = F(c0) /\ Two(d)[2] = G(c1)
    BY <1>3, <2>2, <2>3
  <2>5. PICK f : f = Full(gprf, Prefix(cprf, k), gpu, c0)
    OBVIOUS
  <2>6. PICK g : g = G(c1)
    OBVIOUS
  <2>7. bs = <<f, g>>
    BY <1>6, <2>1, <2>4, <2>5, <2>6
  <2>8. d \in Splittings(cpu, most) /\ c1 # <<>>
    BY <1>c, <2>3
  <2>9. Len(c0) + Len(c1) <= most
    BY <1>4, <2>2, <2>3, <2>8
  <2>10. gprf # <<>> \/ gpu # <<>> \/ cprf # <<>>
    BY <1>2, <1>9, <1>13
  <2>11. f # NoReqs
    <3>1. k \in LeastKept(F(c0)) .. Len(cprf)
      BY <2>1, <2>4
    <3>2. QED
      BY <1>d, <2>5, <2>10, <3>1
  <2>12. g # NoReqs
    BY <1>9, <2>6, <2>8 DEF Full
  <2>13. f.cdec = c0 /\ g.cdec = c1
    BY <2>5, <2>6 DEF Full
  <2>14. Len(bs) = 2 /\ bs[1] = f /\ bs[2] = g /\ bs # <<>>
    BY <2>7
  <2>15. \A i \in 1 .. 2 : bs[i] # NoReqs
    BY <2>11, <2>12, <2>14
  <2>a. Len(bs) # 1
    BY <2>14
  <2>b. \A i \in 1 .. Len(bs) : bs[i] # NoReqs
    BY <2>14, <2>15
  <2>c. Len(bs[1].cdec) + Len(bs[2].cdec) <= most
    BY <2>9, <2>13, <2>14
  <2>16. Decodes(bs, gpu, most)
    BY <2>14, <2>a, <2>b, <2>c DEF Decodes
  <2>17. QED
    BY <1>b, <2>16
<1>14. \/ bs = <<>> /\ all = NoReqs
       \/ bs \in one
       \/ all # NoReqs /\ bs = <<gpuOnlyBatch>>
       \/ all # NoReqs /\ \E d \in Ds : bs \in Kept(d)
  <2> HIDE DEF all, one, gpuOnlyBatch, Kept, Ds
  <2>1. two = {<<gpuOnlyBatch>>} \union UNION {Kept(d) : d \in Ds}
    OBVIOUS
  <2> HIDE DEF two
  <2>2. bs \in (IF all = NoReqs /\ NumGpuBlocks > 0 THEN {<<>>} ELSE IF NumGpuBlocks = 0 THEN one ELSE two)
    BY <1>1
  <2>3. bs \in two => bs = <<gpuOnlyBatch>> \/ \E d \in Ds : bs \in Kept(d)
    BY <2>1
  <2>4. NumGpuBlocks > 0 \/ NumGpuBlocks = 0
    BY DEF NumGpuBlocks, BlocksAssumption
  <2>5. QED
    BY <2>2, <2>3, <2>4
<1>15. QED
  BY <1>10, <1>11, <1>12, <1>13, <1>14

(* The sizes of a batch of lists.                                            *)
LEMMA FullSizes ==
  ASSUME BlocksAssumption, SchedulerAssumption, TypeOK,
         NEW gprf, List(gprf, Reqs), NEW cprf, List(cprf, Reqs),
         NEW gdec, List(gdec, Reqs), NEW cdec, List(cdec, Reqs)
  PROVE  /\ ReqsOf(Full(gprf, cprf, gdec, cdec)) \in Seq(Reqs)
         /\ Len(ReqsOf(Full(gprf, cprf, gdec, cdec))) = Len(cprf) + Len(gprf) + Len(gdec) + Len(cdec)
         /\ Width(Full(gprf, cprf, gdec, cdec)) =
              Prompts(cprf) + Prompts(gprf) + Len(gdec) + Len(cdec)
<1>1. gprf \in Seq(Reqs) /\ cprf \in Seq(Reqs) /\ gdec \in Seq(Reqs) /\ cdec \in Seq(Reqs)
  BY DEF List
<1>2. PICK b : b = Full(gprf, cprf, gdec, cdec)
  OBVIOUS
<1>3. b.gprf = gprf /\ b.cprf = cprf /\ b.gdec = gdec /\ b.cdec = cdec
  BY <1>2 DEF Full
<1>4. ReqsOf(b) = cprf \o gprf \o gdec \o cdec
  BY <1>3 DEF ReqsOf
<1>5. Width(b) = Prompts(cprf) + Prompts(gprf) + Len(gdec) + Len(cdec)
  BY <1>3 DEF Width
<1>6. /\ cprf \o gprf \o gdec \o cdec \in Seq(Reqs)
      /\ Len(cprf \o gprf \o gdec \o cdec) = Len(cprf) + Len(gprf) + Len(gdec) + Len(cdec)
  BY <1>1
<1>7. QED
  BY <1>2, <1>4, <1>5, <1>6

\* The widths of the batches together.
Widths(bs) == SumFunction([i \in DOMAIN bs |-> Width(bs[i])])

\* bs is up to two batches, of s1 and s2 requests, w1 and w2 wide.
Pair(bs, s1, s2, w1, w2) ==
  /\ s1 \in Nat /\ s2 \in Nat /\ w1 \in Nat /\ w2 \in Nat
  /\ Len(bs) \in {0, 1, 2} /\ DOMAIN bs = 1 .. Len(bs)
  /\ Len(bs) = 0 => bs = <<>>
  /\ Len(bs) >= 1 => ReqsOf(bs[1]) \in Seq(Reqs) /\ Len(ReqsOf(bs[1])) = s1 /\ Width(bs[1]) = w1
  /\ Len(bs) = 2 => ReqsOf(bs[2]) \in Seq(Reqs) /\ Len(ReqsOf(bs[2])) = s2 /\ Width(bs[2]) = w2

(* What prepare checks of the batches together.                              *)
LEMMA PairSums ==
  ASSUME NEW bs, NEW s1, NEW s2, NEW w1, NEW w2,
         Pair(bs, s1, s2, w1, w2)
  PROVE  /\ Len(bs) = 0 => Len(AllReqs(bs)) = 0 /\ Widths(bs) = 0
         /\ Len(bs) = 1 => Len(AllReqs(bs)) = s1 /\ Widths(bs) = w1
         /\ Len(bs) = 2 => Len(AllReqs(bs)) = s1 + s2 /\ Widths(bs) = w1 + w2
<1> DEFINE f == [i \in DOMAIN bs |-> ReqsOf(bs[i])]
           w == [i \in DOMAIN bs |-> Width(bs[i])]
<1>1. AllReqs(bs) = FlattenSeq(f)
  BY DEF AllReqs
<1>a. s1 \in Nat /\ s2 \in Nat /\ w1 \in Nat /\ w2 \in Nat
  BY DEF Pair
<1>2. CASE Len(bs) = 0
  <2>1. f = <<>> /\ w \in [1 .. 0 -> Nat]
    BY <1>2 DEF Pair
  <2> HIDE DEF f, w
  <2>2. AllReqs(bs) = <<>> /\ SumFunction(w) = 0
    BY <1>1, <2>1, FlattenNone, SumOfFew
  <2>3. Len(AllReqs(bs)) = 0
    BY <2>2
  <2>4. QED
    BY <1>2, <2>2, <2>3 DEF w, Widths
<1>3. CASE Len(bs) = 1
  <2>1. DOMAIN bs = 1 .. 1 /\ ReqsOf(bs[1]) \in Seq(Reqs) /\ Len(ReqsOf(bs[1])) = s1 /\ Width(bs[1]) = w1
    BY <1>3 DEF Pair
  <2>2. PICK a : a = ReqsOf(bs[1])
    OBVIOUS
  <2>3. \A i \in 1 .. 1 : ReqsOf(bs[i]) = a /\ Width(bs[i]) = w1
    <3> TAKE i \in 1 .. 1
    <3>1. i = 1
      OBVIOUS
    <3>2. QED
      BY Zenon, <2>1, <2>2, <3>1
  <2>4. w \in [1 .. 1 -> Nat] /\ w[1] = w1
    BY <1>a, <2>1, <2>3
  <2>5. f = [i \in 1 .. 1 |-> a]
    BY <2>1, <2>3
  <2> HIDE DEF f, w
  <2>6. f = <<a>>
    BY <2>5
  <2>7. AllReqs(bs) = a
    BY <1>1, <2>6, FlattenOne
  <2>8. SumFunction(w) = w1
    BY <2>4, SumOfFew
  <2>9. QED
    BY <1>3, <2>1, <2>2, <2>7, <2>8 DEF w, Widths
<1>4. CASE Len(bs) = 2
  <2>1. /\ DOMAIN bs = 1 .. 2 /\ ReqsOf(bs[1]) \in Seq(Reqs) /\ Len(ReqsOf(bs[1])) = s1 /\ Width(bs[1]) = w1
        /\ ReqsOf(bs[2]) \in Seq(Reqs) /\ Len(ReqsOf(bs[2])) = s2 /\ Width(bs[2]) = w2
    BY <1>4 DEF Pair
  <2>2. PICK a : a = ReqsOf(bs[1])
    OBVIOUS
  <2>3. PICK b : b = ReqsOf(bs[2])
    OBVIOUS
  <2>4. \A i \in 1 .. 2 : ReqsOf(bs[i]) = (IF i = 1 THEN a ELSE b) /\ Width(bs[i]) = (IF i = 1 THEN w1 ELSE w2)
    <3> TAKE i \in 1 .. 2
    <3>1. CASE i = 1
      BY Zenon, <2>1, <2>2, <3>1
    <3>2. CASE i = 2
      <4>1. ReqsOf(bs[i]) = b /\ Width(bs[i]) = w2
        BY Zenon, <2>1, <2>3, <3>2
      <4>2. QED
        BY <3>2, <4>1
    <3>3. i = 1 \/ i = 2
      OBVIOUS
    <3>4. QED
      BY Zenon, <3>1, <3>2, <3>3
  <2>5. w \in [1 .. 2 -> Nat] /\ w[1] = w1 /\ w[2] = w2
    BY <1>a, <2>1, <2>4
  <2>6. f = [i \in 1 .. 2 |-> IF i = 1 THEN a ELSE b]
    BY <2>1, <2>4
  <2> HIDE DEF f, w
  <2>7. f = <<a, b>>
    BY <2>6
  <2>8. AllReqs(bs) = a \o b
    BY <1>1, <2>7, FlattenTwo
  <2>9. Len(a \o b) = s1 + s2
    BY <2>1, <2>2, <2>3
  <2>10. SumFunction(w) = w1 + w2
    BY <2>5, SumOfFew
  <2>11. QED
    BY <1>4, <2>8, <2>9, <2>10 DEF w, Widths
<1>5. QED
  BY <1>2, <1>3, <1>4

(* A decision's batches are within the limits of a batch.                    *)
LEMMA BatchesFit ==
  ASSUME BlocksAssumption, SchedulerAssumption, TypeOK,
         NEW gpu, List(gpu, Reqs), NEW gprf, List(gprf, Reqs), NEW cprf, List(cprf, Reqs),
         NEW kept, List(kept, Reqs), Range(kept) \subseteq Range(cprf), Len(kept) <= Len(cprf),
         NEW c0, List(c0, Reqs), NEW c1, List(c1, Reqs),
         NEW bs, Decided(bs, gpu, gprf, kept, c0, c1), Decodes(bs, gpu, Budget(gpu, gprf, cprf)),
         Len(gpu) + Len(gprf) + Len(cprf) <= MaxBatch,
         Len(gpu) + Prompts(gprf) + Prompts(cprf) <= MaxTokens
  PROVE  Len(AllReqs(bs)) <= MaxBatch /\ Widths(bs) <= MaxTokens
<1>1. PICK lg \in Nat, lp \in Nat, lc \in Nat, lk \in Nat, l0 \in Nat, l1 \in Nat :
        /\ lg = Len(gpu) /\ lp = Len(gprf) /\ lc = Len(cprf) /\ lk = Len(kept)
        /\ l0 = Len(c0) /\ l1 = Len(c1)
  BY ListFacts
<1>2. PICK pp \in Nat, pc \in Nat, pk \in Nat :
        pp = Prompts(gprf) /\ pc = Prompts(cprf) /\ pk = Prompts(kept)
  BY QueueWeight
<1>3. pk <= pc /\ lk <= lc
  BY <1>1, <1>2, QueueFewer
<1>4. MaxBatch \in Nat /\ MaxTokens \in Nat
  BY DEF SchedulerAssumption
<1>5. lg + lp + lc <= MaxBatch /\ lg + pp + pc <= MaxTokens
  BY <1>1, <1>2
<1>6. PICK left \in Nat : left = MaxBatch - lg - (lp + lc)
  BY <1>4, <1>5
<1>7. PICK wide \in Nat : wide = MaxTokens - lg - pp - pc
  BY <1>4, <1>5
<1>8. PICK most \in Nat : most = Budget(gpu, gprf, cprf) /\ most <= left /\ most <= wide
  <2>1. Budget(gpu, gprf, cprf) = Min({left, wide})
    BY <1>1, <1>2, <1>6, <1>7 DEF Budget
  <2>2. QED
    BY <2>1, MinTwo
<1>9. Decodes(bs, gpu, most)
  BY <1>8
<1>10. /\ Len(bs) \in {0, 1, 2} /\ DOMAIN bs = 1 .. Len(bs)
       /\ Len(bs) = 0 => bs = <<>>
       /\ Len(bs) # 0 => bs[1] = Full(gprf, kept, gpu, c0)
       /\ Len(bs) = 2 => bs[2] = Full(<<>>, <<>>, <<>>, c1)
  BY BatchesOf
<1>11. PICK a : a = Full(gprf, kept, gpu, c0)
  OBVIOUS
<1>12. PICK b : b = Full(<<>>, <<>>, <<>>, c1)
  OBVIOUS
<1>a. BlocksAssumption /\ SchedulerAssumption /\ TypeOK
  OBVIOUS
<1>b. List(gpu, Reqs) /\ List(gprf, Reqs) /\ List(kept, Reqs) /\ List(c0, Reqs) /\ List(c1, Reqs)
  OBVIOUS
<1>13. ReqsOf(a) \in Seq(Reqs) /\ Len(ReqsOf(a)) = lk + lp + lg + l0 /\ Width(a) = pk + pp + lg + l0
  <2>1. /\ ReqsOf(Full(gprf, kept, gpu, c0)) \in Seq(Reqs)
        /\ Len(ReqsOf(Full(gprf, kept, gpu, c0))) = Len(kept) + Len(gprf) + Len(gpu) + Len(c0)
        /\ Width(Full(gprf, kept, gpu, c0)) = Prompts(kept) + Prompts(gprf) + Len(gpu) + Len(c0)
    BY ONLY <1>a, <1>b, FullSizes
  <2>2. QED
    BY Zenon, <1>1, <1>2, <1>11, <2>1
<1>14. ReqsOf(b) \in Seq(Reqs) /\ Len(ReqsOf(b)) = l1 /\ Width(b) = l1
  <2>1. PICK e : e = <<>>
    OBVIOUS
  <2>2. List(e, Reqs) /\ Len(e) = 0 /\ Prompts(e) = 0
    <3>1. List(e, Reqs) /\ Len(e) = 0
      BY <2>1, ListEmpty
    <3>2. QED
      BY <2>1, <3>1, QueueFew
  <2>3. /\ ReqsOf(Full(e, e, e, c1)) \in Seq(Reqs)
        /\ Len(ReqsOf(Full(e, e, e, c1))) = Len(e) + Len(e) + Len(e) + Len(c1)
        /\ Width(Full(e, e, e, c1)) = Prompts(e) + Prompts(e) + Len(e) + Len(c1)
    <3>1. List(c1, Reqs)
      OBVIOUS
    <3>2. List(e, Reqs)
      BY <2>2
    <3>3. QED
      BY ONLY <1>a, <3>1, <3>2, FullSizes
  <2>4. QED
    BY <1>1, <1>12, <2>1, <2>2, <2>3
<1>15. a.cdec = c0 /\ b.cdec = c1
  BY <1>11, <1>12 DEF Full
<1>16. PICK m \in {0, 1, 2} : m = Len(bs)
  BY <1>10
<1>17. m >= 1 => bs[1] = a
  BY <1>10, <1>11, <1>16
<1>18. m = 2 => bs[2] = b
  BY <1>10, <1>12, <1>16
<1>19. m = 1 => l0 <= most
  BY <1>1, <1>9, <1>15, <1>16, <1>17 DEF Decodes
<1>20. m = 2 => l0 + l1 <= most
  <2>1. m = 2 => Len(bs[1].cdec) + Len(bs[2].cdec) <= most
    BY <1>9, <1>16 DEF Decodes
  <2>2. m = 2 => bs[1].cdec = c0 /\ bs[2].cdec = c1
    BY ONLY <1>15, <1>17, <1>18
  <2>3. QED
    BY ONLY <1>1, <2>1, <2>2
<1>21. Pair(bs, lk + lp + lg + l0, l1, pk + pp + lg + l0, l1)
  BY <1>10, <1>13, <1>14, <1>16, <1>17, <1>18 DEF Pair
<1>22. PICK s1 \in Nat : s1 = lk + lp + lg + l0
  OBVIOUS
<1>23. PICK w1 \in Nat : w1 = pk + pp + lg + l0
  OBVIOUS
<1>24. /\ m = 1 => s1 <= MaxBatch /\ w1 <= MaxTokens
       /\ m = 2 => s1 + l1 <= MaxBatch /\ w1 + l1 <= MaxTokens
  BY <1>3, <1>4, <1>6, <1>7, <1>8, <1>19, <1>20, <1>22, <1>23
<1>25. Pair(bs, s1, l1, w1, l1)
  BY <1>21, <1>22, <1>23
<1>26. PICK n : n = Len(AllReqs(bs))
  OBVIOUS
<1>27. PICK s : s = Widths(bs)
  OBVIOUS
<1>28. (m = 0 => n = 0 /\ s = 0) /\ (m = 1 => n = s1 /\ s = w1) /\ (m = 2 => n = s1 + l1 /\ s = w1 + l1)
  <2>1. s1 \in Nat /\ w1 \in Nat /\ l1 \in Nat
    OBVIOUS
  <2>2. /\ Len(bs) = 0 => Len(AllReqs(bs)) = 0 /\ Widths(bs) = 0
        /\ Len(bs) = 1 => Len(AllReqs(bs)) = s1 /\ Widths(bs) = w1
        /\ Len(bs) = 2 => Len(AllReqs(bs)) = s1 + l1 /\ Widths(bs) = w1 + l1
    BY ONLY <1>25, PairSums
  <2>3. QED
    BY ONLY <1>16, <1>26, <1>27, <2>2
<1>29. n <= MaxBatch /\ s <= MaxTokens
  BY <1>4, <1>24, <1>28
<1>30. QED
  BY <1>26, <1>27, <1>29

(* One request more at the front needs its blocks more.                      *)
LEMMA OneMore ==
  ASSUME BlocksAssumption, SchedulerAssumption, TypeOK,
         NEW q, List(q, Reqs), NEW n \in Nat, n < Len(q)
  PROVE  /\ BlocksOf(Prefix(q, n + 1)) = BlocksOf(Prefix(q, n)) + BlockNeeded(q[n + 1])
         /\ q[n + 1] \in Range(q)
<1>1. PICK l \in Nat : l = Len(q)
  BY ListFacts
<1>2. n \in 0 .. Len(q) /\ n + 1 \in 0 .. Len(q) /\ n \in 0 .. n + 1 /\ n + 1 \in 1 .. l
  BY <1>1
<1>a. PICK k \in 0 .. Len(q) : k = n + 1
  BY <1>2
<1>3. PICK s : s = Prefix(q, k)
  OBVIOUS
<1>4. PICK p : p = Prefix(q, n)
  OBVIOUS
<1>5. PICK o : o = SubSeq(q, k, k)
  OBVIOUS
<1>6. List(s, Reqs) /\ \A x : x \in Range(s) <=> \E i \in 1 .. k : q[i] = x
  BY <1>3, ListCut
<1>7. List(p, Reqs) /\ \A x : x \in Range(p) <=> \E i \in 1 .. n : q[i] = x
  BY <1>2, <1>4, ListCut
<1>8. List(o, Reqs) /\ \A x : x \in Range(o) <=> \E i \in k .. k : q[i] = x
  <2>1. PICK j \in 1 .. Len(q) + 1 : j = k
    BY <1>1, <1>a
  <2>2. List(q, Reqs)
    OBVIOUS
  <2>3. k \in 0 .. Len(q)
    OBVIOUS
  <2>a. j \in 1 .. Len(q) + 1
    BY <2>1
  <2>4. List(SubSeq(q, j, k), Reqs)
    BY ONLY <2>a, <2>2, <2>3, ListSubSeq
  <2>5. \A x : x \in Range(SubSeq(q, j, k)) <=> \E i \in j .. k : q[i] = x
    BY ONLY <2>a, <2>2, <2>3, ListSubSeq, SMT
  <2>6. QED
    BY ONLY <1>5, <2>1, <2>4, <2>5
<1>9. Range(o) = {q[k]}
  <2>1. k .. k = {k}
    BY <1>a
  <2>2. QED
    BY <1>8, <2>1
<1>10. Range(s) = Range(p) \union Range(o)
  <2>1. 1 .. k = (1 .. n) \union {k}
    BY <1>a
  <2>2. QED
    BY <1>6, <1>7, <1>9, <2>1
<1>11. Range(p) \intersect Range(o) = {}
  <2>1. \A i, j \in 1 .. l : q[i] = q[j] => i = j
    BY <1>1 DEF List
  <2>2. \A i \in 1 .. n : i \in 1 .. l /\ k \in 1 .. l /\ i # k
    BY <1>1, <1>2, <1>a
  <2>3. \A i \in 1 .. n : q[i] # q[k]
    BY <2>1, <2>2
  <2>4. QED
    BY <1>7, <1>9, <2>3
<1>b. BlocksAssumption /\ SchedulerAssumption /\ TypeOK
  OBVIOUS
<1>12. BlocksOf(s) = BlocksOf(p) + BlocksOf(o)
  BY ONLY <1>b, <1>6, <1>7, <1>8, <1>10, <1>11, QueueSum
<1>13. BlocksOf(o) = BlockNeeded(q[k])
  BY ONLY <1>b, <1>8, <1>9, QueueFew
<1>14. q[k] \in Range(q)
  BY <1>1, <1>2, <1>a, ListFacts
<1>15. QED
  BY <1>3, <1>4, <1>a, <1>12, <1>13, <1>14

\* The swap-in keeps to the limits of the GPU and of a batch.
SwapFits(gpu1, cpu1, m) ==
  m >= 1 => /\ Len(gpu1) + m <= MaxBatch
            /\ BlocksOf(gpu1) + BlocksOf(Prefix(cpu1, m)) <= NumGpuBlocks

(* After the swaps the GPU's queue fits the GPU and a batch, and it is empty *)
(* only if nothing was on the GPU or came to it.                             *)
LEMMA GpuFits ==
  ASSUME BlocksAssumption, SchedulerAssumption, TypeOK, QueuesOK,
         mode = CpuOnly => gpu_decoding_q = <<>>,
         NEW cpu1, List(cpu1, Reqs),
         Range(cpu1) = Range(Rest(gpu_decoding_q, Stay)) \union Range(cpu_decoding_q),
         NEW m \in 0 .. Len(cpu1), SwapFits(Prefix(gpu_decoding_q, Stay), cpu1, m),
         NEW gpu, gpu = Prefix(gpu_decoding_q, Stay) \o Prefix(cpu1, m)
  PROVE  /\ List(gpu, Reqs) /\ BlocksOf(gpu) <= NumGpuBlocks /\ Len(gpu) <= MaxBatch
         /\ gpu = <<>> => Rest(gpu_decoding_q, Stay) = <<>> /\ Prefix(cpu1, m) = <<>>
<1>b. BlocksAssumption /\ SchedulerAssumption /\ TypeOK
  OBVIOUS
<1>1. PICK G : G = gpu_decoding_q
  OBVIOUS
<1>2. PICK s : s = Stay
  OBVIOUS
<1>3. List(G, Reqs) /\ Range(G) \subseteq Range(arrivals)
  BY <1>1 DEF QueuesOK, Started
<1>4. PICK l \in Nat : l = Len(G)
  BY <1>3, ListFacts
<1>5. /\ s \in 0 .. l
      /\ s = 0 \/ (s <= MaxBatch /\ BlocksOf(Prefix(G, s)) <= NumGpuBlocks)
      /\ \A n \in 0 .. l : n <= MaxBatch /\ BlocksOf(Prefix(G, n)) <= NumGpuBlocks => n <= s
  BY <1>1, <1>2, <1>3, <1>4, StayStops
<1>6. PICK g1 : g1 = Prefix(G, s)
  OBVIOUS
<1>7. PICK inn : inn = Prefix(cpu1, m)
  OBVIOUS
<1>8. PICK out : out = Rest(G, s)
  OBVIOUS
<1>9. List(g1, Reqs) /\ Len(g1) = s /\ Range(g1) \intersect Range(out) = {} /\ Range(g1) \subseteq Range(G)
      /\ List(out, Reqs)
  BY <1>3, <1>4, <1>5, <1>6, <1>8, ListCut
<1>10. List(inn, Reqs) /\ Len(inn) = m /\ Range(inn) \subseteq Range(cpu1) /\ m \in Nat
  <2>1. Len(cpu1) \in Nat
    BY ListFacts
  <2>2. QED
    BY <1>7, <2>1, ListCut
<1>11. Range(g1) \intersect Range(inn) = {}
  <2>1. Range(G) \intersect Range(cpu_decoding_q) = {}
    BY <1>1 DEF QueuesOK
  <2>2. Range(cpu1) = Range(out) \union Range(cpu_decoding_q)
    BY <1>1, <1>2, <1>8
  <2>3. QED
    BY <1>9, <1>10, <2>1, <2>2
<1>12. gpu = g1 \o inn
  BY <1>1, <1>2, <1>6, <1>7
<1>13. List(gpu, Reqs) /\ Range(gpu) = Range(g1) \union Range(inn)
  BY <1>9, <1>10, <1>11, <1>12, ListConcat
<1>14. Len(gpu) = s + m
  <2>1. g1 \in Seq(Reqs) /\ inn \in Seq(Reqs)
    BY <1>9, <1>10 DEF List
  <2>2. Len(g1 \o inn) = Len(g1) + Len(inn)
    BY ONLY <2>1
  <2>3. QED
    BY ONLY <1>9, <1>10, <1>12, <2>2
<1>15. BlocksOf(gpu) = BlocksOf(g1) + BlocksOf(inn)
  BY ONLY <1>b, <1>9, <1>10, <1>11, <1>13, QueueSum
<1>16. NumGpuBlocks \in Nat /\ MaxBatch \in Nat \ {0} /\ BlocksOf(g1) \in Nat /\ BlocksOf(inn) \in Nat
  <2>1. NumGpuBlocks \in Nat /\ MaxBatch \in Nat \ {0}
    BY DEF NumGpuBlocks, BlocksAssumption, SchedulerAssumption
  <2>2. BlocksOf(g1) \in Nat /\ BlocksOf(inn) \in Nat
    BY ONLY <1>b, <1>9, <1>10, QueueWeight
  <2>3. QED
    BY <2>1, <2>2
<1>17. m >= 1 => s + m <= MaxBatch /\ BlocksOf(g1) + BlocksOf(inn) <= NumGpuBlocks
  BY <1>1, <1>2, <1>6, <1>7, <1>9 DEF SwapFits
<1>18. s = 0 => BlocksOf(g1) = 0
  <2>1. s = 0 => g1 = <<>>
    BY <1>9, ListNonempty
  <2>2. QED
    BY ONLY <1>b, <1>9, <2>1, QueueFew
<1>19. m = 0 => BlocksOf(inn) = 0
  <2>1. m = 0 => inn = <<>>
    BY <1>10, ListNonempty
  <2>2. QED
    BY ONLY <1>b, <1>10, <2>1, QueueFew
<1>20. BlocksOf(gpu) <= NumGpuBlocks /\ Len(gpu) <= MaxBatch
  <2>1. CASE m >= 1
    BY <1>14, <1>15, <1>17, <2>1
  <2>2. CASE m = 0
    <3>1. s \in Nat /\ s <= MaxBatch
      BY <1>4, <1>5, <1>16
    <3>2. BlocksOf(g1) <= NumGpuBlocks
      BY <1>5, <1>6, <1>16, <1>18
    <3>3. QED
      BY <1>14, <1>15, <1>16, <1>19, <2>2, <3>1, <3>2
  <2>3. QED
    BY <1>10, <2>1, <2>2
<1>21. ASSUME gpu = <<>> PROVE out = <<>> /\ inn = <<>>
  <2>1. s = 0 /\ m = 0
    <3>1. Len(gpu) = 0
      BY <1>21
    <3>2. QED
      BY <1>4, <1>5, <1>10, <1>14, <3>1
  <2>2. inn = <<>>
    BY <1>10, <2>1, ListNonempty
  <2>3. ASSUME G # <<>> PROVE FALSE
    <3>1. NumGpuBlocks = GpuBlocks
      BY <1>1, <2>3 DEF NumGpuBlocks
    <3>2. 0 < l
      BY <1>3, <1>4, <2>3, ListNonempty
    <3>3. PICK r : r = G[0 + 1]
      OBVIOUS
    <3>4. BlocksOf(Prefix(G, 0 + 1)) = BlocksOf(Prefix(G, 0)) + BlockNeeded(r) /\ r \in Range(G)
      <4>1. 0 \in Nat /\ 0 < Len(G)
        BY <1>4, <3>2
      <4>2. QED
        BY ONLY <1>b, <1>3, <3>3, <4>1, OneMore
    <3>5. BlocksOf(Prefix(G, 0)) = 0
      BY <1>6, <1>18, <2>1
    <3>6. r \in Reqs /\ outputLen[r] < MaxOut[r]
      <4>1. r \in Range(arrivals) /\ r \in Reqs
        BY <1>3, <3>4, ListFacts
      <4>2. QED
        BY <4>1 DEF QueuesOK
    <3>7. BlockNeeded(r) <= GpuBlocks /\ BlockNeeded(r) \in Nat
      <4>1. BlockNeeded(r) <= GpuBlocks
        BY ONLY <1>b, <3>6, OneFits
      <4>2. BlockNeeded(r) \in Nat \ {0}
        BY ONLY <1>b, <3>6, NeedsType
      <4>3. QED
        BY <4>1, <4>2
    <3>8. 0 + 1 \in 0 .. l /\ 0 + 1 <= MaxBatch /\ BlocksOf(Prefix(G, 0 + 1)) <= NumGpuBlocks
      BY <1>16, <3>1, <3>2, <3>4, <3>5, <3>7
    <3>9. 0 + 1 <= s
      BY <1>5, <3>8
    <3>10. QED
      BY <2>1, <3>9
  <2>4. out = <<>>
    <3>1. Range(G) = {}
      BY <1>3, <2>3, ListNonempty
    <3>2. Range(out) \subseteq Range(G)
      BY <1>3, <1>4, <1>5, <1>8, ListCut
    <3>3. QED
      BY <1>9, <3>1, <3>2, ListNonempty
  <2>5. QED
    BY <2>2, <2>4
<1>22. QED
  BY <1>1, <1>2, <1>7, <1>8, <1>13, <1>20, <1>21

\* The new policy's CPU queue with the victims at its front.
Behinders == Rest(gpu_decoding_q, Stay) \o cpu_decoding_q

(* The new policy swaps in only if nobody is swapped out: the first victim   *)
(* would have been the first to come back, and did not fit.                  *)
LEMMA NotBothWays ==
  ASSUME BlocksAssumption, SchedulerAssumption, TypeOK, QueuesOK,
         NEW cpu1, cpu1 = Behinders, List(cpu1, Reqs),
         NEW m, m = SwappedIn(Prefix(gpu_decoding_q, Stay), cpu1)
  PROVE  /\ m \in 0 .. Len(cpu1)
         /\ SwapFits(Prefix(gpu_decoding_q, Stay), cpu1, m)
         /\ Rest(gpu_decoding_q, Stay) = <<>> \/ Prefix(cpu1, m) = <<>>
<1>b. BlocksAssumption /\ SchedulerAssumption /\ TypeOK
  OBVIOUS
<1>1. PICK G : G = gpu_decoding_q
  OBVIOUS
<1>2. PICK s : s = Stay
  OBVIOUS
<1>3. List(G, Reqs) /\ List(cpu_decoding_q, Reqs)
  BY <1>1 DEF QueuesOK
<1>4. PICK l \in Nat : l = Len(G)
  BY <1>3, ListFacts
<1>5. /\ s \in 0 .. l
      /\ \A n \in 0 .. l : n <= MaxBatch /\ BlocksOf(Prefix(G, n)) <= NumGpuBlocks => n <= s
  BY <1>1, <1>2, <1>3, <1>4, StayStops
<1>6. PICK g1 : g1 = Prefix(G, s)
  OBVIOUS
<1>7. PICK out : out = Rest(G, s)
  OBVIOUS
<1>8. List(g1, Reqs) /\ Len(g1) = s /\ List(out, Reqs)
  BY <1>3, <1>4, <1>5, <1>6, <1>7, ListCut
<1>9. m = SwappedIn(g1, cpu1) /\ cpu1 = out \o cpu_decoding_q
  BY <1>1, <1>2, <1>6, <1>7 DEF Behinders
<1>10. PICK lc \in Nat : lc = Len(cpu1)
  BY ListFacts
<1>11. /\ m \in 0 .. lc
       /\ \A j \in 1 .. m :
            /\ BlocksOf(g1) + BlocksOf(Prefix(cpu1, j)) <= SwapInThreshold(NumGpuBlocks)
            /\ Len(g1) + j <= MaxBatch
  BY <1>9, <1>10, SwappedInStops
<1>12. NumGpuBlocks \in Nat
  BY DEF NumGpuBlocks, BlocksAssumption
<1>13. SwapInThreshold(NumGpuBlocks) \in Nat /\ SwapInThreshold(NumGpuBlocks) <= NumGpuBlocks
  BY <1>12, MarginWithin
<1>14. \A j \in 1 .. m : j \in 0 .. Len(cpu1) /\ BlocksOf(Prefix(cpu1, j)) \in Nat
  <2> TAKE j \in 1 .. m
  <2>1. j \in 0 .. Len(cpu1)
    BY <1>10, <1>11
  <2>2. List(Prefix(cpu1, j), Reqs)
    BY <2>1, ListCut
  <2>3. BlocksOf(Prefix(cpu1, j)) \in Nat
    BY ONLY <1>b, <2>2, QueueWeight
  <2>4. QED
    BY <2>1, <2>3
<1>15. BlocksOf(g1) \in Nat
  BY ONLY <1>b, <1>8, QueueWeight
<1>16. \A j \in 1 .. m : BlocksOf(g1) + BlocksOf(Prefix(cpu1, j)) <= NumGpuBlocks /\ Len(g1) + j <= MaxBatch
  <2> TAKE j \in 1 .. m
  <2>1. PICK a \in Nat : a = BlocksOf(g1) + BlocksOf(Prefix(cpu1, j))
    BY <1>14, <1>15
  <2>2. PICK t \in Nat : t = SwapInThreshold(NumGpuBlocks)
    BY <1>13
  <2>3. a <= t /\ t <= NumGpuBlocks /\ Len(g1) + j <= MaxBatch
    BY <1>11, <1>13, <2>1, <2>2
  <2>4. a <= NumGpuBlocks
    BY <1>12, <2>3
  <2>5. QED
    BY <2>1, <2>3, <2>4
<1>17. SwapFits(g1, cpu1, m)
  <2>1. m >= 1 => m \in 1 .. m
    BY <1>11
  <2>2. QED
    BY <1>16, <2>1 DEF SwapFits
<1>18. ASSUME m >= 1, out # <<>> PROVE FALSE
  <2>1. 1 \in 1 .. m /\ 1 \in 0 .. Len(cpu1) /\ 1 \in 1 .. lc
    BY <1>10, <1>11, <1>18
  <2>2. s < l
    <3>1. Range(out) # {}
      BY <1>8, <1>18, ListNonempty
    <3>2. \A x : x \in Range(out) <=> \E i \in s + 1 .. Len(G) : G[i] = x
      BY <1>3, <1>4, <1>5, <1>7, ListCut
    <3>3. PICK i \in s + 1 .. l : TRUE
      BY <1>4, <3>1, <3>2
    <3>4. QED
      BY <1>4, <1>5, <3>3
  <2>3. PICK r : r = G[s + 1]
    OBVIOUS
  <2>4. s \in Nat /\ s < Len(G)
    BY <1>4, <1>5, <2>2
  <2>5. BlocksOf(Prefix(G, s + 1)) = BlocksOf(g1) + BlockNeeded(r)
    <3>1. BlocksOf(Prefix(G, s + 1)) = BlocksOf(Prefix(G, s)) + BlockNeeded(G[s + 1])
      BY ONLY <1>b, <1>3, <2>4, OneMore
    <3>2. QED
      BY <1>6, <2>3, <3>1
  <2>6. cpu1[1] = r
    <3>1. out = SubSeq(G, s + 1, Len(G)) /\ s + 1 \in 1 .. Len(G) + 1 /\ Len(G) \in 0 .. Len(G)
      BY <1>4, <1>5, <1>7 DEF Rest
    <3>2. Len(out) = (IF s + 1 <= Len(G) THEN Len(G) - (s + 1) + 1 ELSE 0)
          /\ \A i \in 1 .. Len(G) - (s + 1) + 1 : out[i] = G[s + 1 + i - 1]
      BY ONLY <1>3, <3>1, ListSubSeq
    <3>3. 1 \in 1 .. l - (s + 1) + 1 /\ s + 1 + 1 - 1 = s + 1 /\ s + 1 <= l
      BY <1>5, <2>2
    <3>4. out[1] = G[s + 1]
      BY <1>4, <3>2, <3>3
    <3>5. out \in Seq(Reqs) /\ cpu_decoding_q \in Seq(Reqs) /\ 1 \in 1 .. Len(out)
      <4>1. Len(out) = l - (s + 1) + 1
        BY <1>4, <3>2, <3>3
      <4>2. QED
        BY <1>3, <1>8, <3>3, <4>1 DEF List
    <3>6. (out \o cpu_decoding_q)[1] = out[1]
      BY ONLY <3>5
    <3>7. QED
      BY <1>9, <2>3, <3>4, <3>6
  <2>7. PICK c : c = Prefix(cpu1, 1)
    OBVIOUS
  <2>8. List(c, Reqs) /\ \A x : x \in Range(c) <=> \E i \in 1 .. 1 : cpu1[i] = x
    BY <2>1, <2>7, ListCut
  <2>9. Range(c) = {r}
    BY <2>6, <2>8
  <2>10. BlocksOf(c) = BlockNeeded(r)
    BY ONLY <1>b, <2>8, <2>9, QueueFew
  <2>11. BlocksOf(g1) + BlocksOf(c) <= NumGpuBlocks /\ s + 1 <= MaxBatch
    BY <1>8, <1>16, <2>1, <2>7
  <2>12. s + 1 \in 0 .. l /\ BlocksOf(Prefix(G, s + 1)) <= NumGpuBlocks
    BY <1>5, <2>2, <2>5, <2>10, <2>11
  <2>13. s + 1 <= s
    BY <1>5, <2>11, <2>12
  <2>14. QED
    BY <2>4, <2>13
<1>19. m = 0 => Prefix(cpu1, m) = <<>>
  <2>1. 0 \in 0 .. Len(cpu1)
    BY <1>10
  <2>2. List(Prefix(cpu1, 0), Reqs) /\ Len(Prefix(cpu1, 0)) = 0
    BY <2>1, ListCut
  <2>3. QED
    BY <2>2, ListNonempty
<1>20. QED
  BY <1>1, <1>2, <1>6, <1>7, <1>10, <1>11, <1>17, <1>18, <1>19

\* The waiting requests prefilled onto the GPU, and those on their way to the CPU.
ToGpuPart(g) == Prefix(waiting_q, g)
ToCpuPart(g, p) == SubSeq(waiting_q, g + 1, p)

(* The prefills fit: the GPU's with its queue, the others in the other split *)
(* of its blocks, and all in a batch and the ids.                            *)
LEMMA PrefillsFit ==
  ASSUME BlocksAssumption, SchedulerAssumption, TypeOK, QueuesOK,
         NEW gpu, List(gpu, Reqs), BlocksOf(gpu) <= NumGpuBlocks, Len(gpu) <= MaxBatch,
         NEW cpu, NEW p, p = Prefills(gpu, cpu), NEW g, g = Min({p, ToGpu(gpu)})
  PROVE  /\ p \in 0 .. Len(waiting_q) /\ g \in 0 .. p
         /\ p = 0 \/ p <= Len(available_ids)
         /\ Len(gpu) + p <= MaxBatch
         /\ Len(gpu) + Prompts(ToGpuPart(g)) + Prompts(ToCpuPart(g, p)) <= MaxTokens
         /\ BlocksOf(gpu) + BlocksOf(ToGpuPart(g)) <= NumGpuBlocks
         /\ BlocksOf(ToCpuPart(g, p)) <= GpuBlocks
<1>b. BlocksAssumption /\ SchedulerAssumption /\ TypeOK
  OBVIOUS
<1>1. PICK W : W = waiting_q
  OBVIOUS
<1>2. List(W, Reqs)
  BY <1>1 DEF QueuesOK
<1>3. PICK l \in Nat : l = Len(W)
  BY <1>2, ListFacts
<1>4. PICK u : u = ToGpu(gpu)
  OBVIOUS
<1>5. p \in 0 .. l /\ u \in 0 .. l
  BY <1>1, <1>3, <1>4, LongestBounds
<1>6. g \in 0 .. p /\ g <= u /\ (g = p \/ g = u)
  <2>1. p \in Nat /\ u \in Nat
    BY <1>5
  <2>2. g = Min({p, u})
    BY <1>4
  <2>3. Min({p, u}) \in {p, u}
    <3>1. \E x \in {p, u} : \A y \in {p, u} : x <= y
      BY <2>1
    <3>2. QED
      BY <3>1 DEF Min
  <2>4. Min({p, u}) \in Nat /\ Min({p, u}) <= p /\ Min({p, u}) <= u
    BY ONLY <2>1, MinTwo
  <2>5. QED
    BY <2>1, <2>2, <2>3, <2>4
<1>7. PICK a : a = Prefix(W, g)
  OBVIOUS
<1>8. PICK c : c = SubSeq(W, g + 1, p)
  OBVIOUS
<1>9. PICK w : w = Prefix(W, p)
  OBVIOUS
<1>10. p \in 0 .. Len(W) /\ g \in 0 .. Len(W)
  BY <1>3, <1>5, <1>6
<1>11. List(a, Reqs) /\ Len(a) = g /\ List(w, Reqs) /\ Len(w) = p
  BY ONLY <1>2, <1>7, <1>9, <1>10, ListCut
<1>12. /\ List(c, Reqs) /\ Len(c) = p - g
       /\ Range(w) = Range(a) \union Range(c) /\ Range(a) \intersect Range(c) = {}
  BY ONLY <1>2, <1>6, <1>7, <1>8, <1>9, <1>10, ListCuts
<1>13. Prompts(w) = Prompts(a) + Prompts(c)
  BY ONLY <1>b, <1>11, <1>12, QueueSum
<1>14. /\ BlocksOf(gpu) \in Nat /\ BlocksOf(a) \in Nat /\ BlocksOf(c) \in Nat
       /\ Prompts(a) \in Nat /\ Prompts(c) \in Nat
  <2>1. List(gpu, Reqs)
    OBVIOUS
  <2>2. QED
    BY ONLY <1>b, <1>11, <1>12, <2>1, QueueWeight
<1>15. PICK lg \in Nat : lg = Len(gpu)
  BY ListFacts
<1>16. MaxBatch \in Nat \ {0} /\ MaxTokens \in Nat /\ MaxBatch <= MaxTokens
       /\ NumGpuBlocks \in Nat /\ GpuBlocks \in Nat
  BY DEF NumGpuBlocks, BlocksAssumption, SchedulerAssumption
<1>17. \A n \in 1 .. p : Launchable(gpu, cpu, n)
  BY <1>1, <1>2, PrefillsStop
<1>18. \A n \in 1 .. u : BlocksOf(gpu) + BlocksOf(Prefix(W, n)) <= NumGpuBlocks
  BY <1>1, <1>2, <1>4, PrefillsStop
<1>19. BlocksOf(gpu) + BlocksOf(a) <= NumGpuBlocks
  <2>1. CASE g = 0
    <3>1. a = <<>>
      BY <1>11, <2>1, ListNonempty
    <3>2. BlocksOf(a) = 0
      BY ONLY <1>b, <1>11, <3>1, QueueFew
    <3>3. QED
      BY <1>14, <3>2
  <2>2. CASE g >= 1
    <3>1. g \in 1 .. u
      BY <1>5, <1>6, <2>2
    <3>2. QED
      BY <1>7, <1>18, <3>1
  <2>3. QED
    BY <1>5, <1>6, <2>1, <2>2
<1>20. p >= 1 => /\ BlocksOf(SubSeq(W, u + 1, p - 1)) + BlockNeeded(W[p]) <= GpuBlocks
                 /\ p <= Len(available_ids) /\ lg + p <= MaxBatch
                 /\ lg + Prompts(w) <= MaxTokens
  <2> SUFFICES ASSUME p >= 1
               PROVE  /\ BlocksOf(SubSeq(W, u + 1, p - 1)) + BlockNeeded(W[p]) <= GpuBlocks
                      /\ p <= Len(available_ids) /\ lg + p <= MaxBatch
                      /\ lg + Prompts(w) <= MaxTokens
    OBVIOUS
  <2>1. p \in 1 .. p
    BY <1>5
  <2>2. Launchable(gpu, cpu, p)
    BY ONLY <1>17, <2>1
  <2>3. QED
    BY <1>1, <1>4, <1>9, <1>15, <2>2 DEF Launchable
<1>21. BlocksOf(c) <= GpuBlocks
  <2>1. CASE g = p
    <3>1. c = <<>>
      <4>1. Len(c) = 0
        BY <1>5, <1>12, <2>1
      <4>2. QED
        BY <1>12, <4>1, ListNonempty
    <3>2. BlocksOf(c) = 0
      BY ONLY <1>b, <1>12, <3>1, QueueFew
    <3>3. QED
      BY <1>16, <3>2
  <2>2. CASE g < p
    <3>1. g = u /\ p >= 1 /\ p - 1 \in 0 .. Len(W) /\ g + 1 \in 1 .. Len(W) + 1 /\ p \in 1 .. Len(W) + 1
      BY <1>3, <1>5, <1>6, <2>2
    <3>2. PICK k \in 0 .. Len(W) : k = p - 1
      BY <3>1
    <3>3. PICK h \in 1 .. Len(W) + 1 : h = g + 1
      BY <3>1
    <3>4. PICK before : before = SubSeq(W, h, k)
      OBVIOUS
    <3>5. PICK o : o = SubSeq(W, p, p)
      OBVIOUS
    <3>6. List(before, Reqs) /\ \A x : x \in Range(before) <=> \E i \in h .. k : W[i] = x
      BY ONLY <1>2, <3>4, ListSubSeq
    <3>7. List(o, Reqs) /\ \A x : x \in Range(o) <=> \E i \in p .. p : W[i] = x
      BY ONLY <1>2, <1>10, <3>1, <3>5, ListSubSeq
    <3>8. \A x : x \in Range(c) <=> \E i \in h .. p : W[i] = x
      <4>1. c = SubSeq(W, h, p)
        BY ONLY <1>8, <3>3
      <4>2. h \in 1 .. Len(W) + 1
        OBVIOUS
      <4>3. p \in 0 .. Len(W)
        BY ONLY <1>10
      <4>4. \A x : x \in Range(SubSeq(W, h, p)) <=> \E i \in h .. p : W[i] = x
        BY ONLY <1>2, <4>2, <4>3, ListSubSeq
      <4>5. QED
        BY ONLY <4>1, <4>4
    <3>9. p .. p = {p} /\ h .. p = (h .. k) \union {p} /\ p \notin h .. k
      BY <1>5, <2>2, <3>1, <3>2, <3>3
    <3>10. Range(o) = {W[p]}
      BY ONLY <3>7, <3>9
    <3>11. Range(c) = Range(before) \union Range(o)
      BY ONLY <3>6, <3>8, <3>9, <3>10
    <3>12. Range(before) \intersect Range(o) = {}
      <4>1. \A i, j \in 1 .. l : W[i] = W[j] => i = j
        BY <1>2, <1>3 DEF List
      <4>2. \A i \in h .. k : i \in 1 .. l /\ p \in 1 .. l
        BY <1>3, <1>5, <3>1, <3>2, <3>3
      <4>3. \A i \in h .. k : W[i] # W[p]
        BY ONLY <3>9, <4>1, <4>2
      <4>4. QED
        BY ONLY <3>6, <3>10, <4>3
    <3>13. BlocksOf(c) = BlocksOf(before) + BlocksOf(o)
      BY ONLY <1>b, <1>12, <3>6, <3>7, <3>11, <3>12, QueueSum
    <3>14. BlocksOf(o) = BlockNeeded(W[p])
      BY ONLY <1>b, <3>7, <3>10, QueueFew
    <3>15. before = SubSeq(W, u + 1, p - 1)
      BY <3>1, <3>2, <3>3, <3>4
    <3>16. QED
      BY <1>20, <3>1, <3>13, <3>14, <3>15
  <2>3. QED
    BY <1>5, <1>6, <2>1, <2>2
<1>22. lg + p <= MaxBatch
  <2>1. CASE p = 0
    BY <1>15, <2>1
  <2>2. CASE p >= 1
    BY <1>20, <2>2
  <2>3. QED
    BY <1>5, <2>1, <2>2
<1>23. lg + Prompts(a) + Prompts(c) <= MaxTokens
  <2>1. CASE p = 0
    <3>1. g = 0 /\ Len(c) = 0
      BY <1>5, <1>6, <1>12, <2>1
    <3>2. a = <<>> /\ c = <<>>
      BY <1>11, <1>12, <3>1, ListNonempty
    <3>3. Prompts(a) = 0 /\ Prompts(c) = 0
      BY ONLY <1>b, <1>11, <1>12, <3>2, QueueFew
    <3>4. lg <= MaxTokens
      BY <1>15, <1>16
    <3>5. QED
      BY <3>3, <3>4
  <2>2. CASE p >= 1
    BY <1>13, <1>14, <1>16, <1>20, <2>2
  <2>3. QED
    BY <1>5, <2>1, <2>2
<1>24. p = 0 \/ p <= Len(available_ids)
  BY <1>5, <1>20
<1>25. QED
  BY <1>1, <1>3, <1>5, <1>6, <1>7, <1>8, <1>15, <1>19, <1>21, <1>22, <1>23, <1>24 DEF ToGpuPart, ToCpuPart

\* d has something to do, and the thresholds leave it the means.
Starts(d) == d.batches # <<>> \/ d.out # <<>> \/ d.in # <<>>
Affordable(d) ==
  /\ \E gpu, cpu, g, c0, c1 : DecisionOK(d, gpu, cpu, g, c0, c1) /\ Budgeted(d, gpu, g)
  /\ mode = CpuOnly => d.gpu = <<>>

(* What the new policy decides to start is affordable.                       *)
LEMMA NewBudgeted ==
  ASSUME BlocksAssumption, SchedulerAssumption, TypeOK, QueuesOK, IdsOK,
         mode = CpuOnly => gpu_decoding_q = <<>>,
         NEW d \in NextBatchNew, Starts(d)
  PROVE  Affordable(d)
<1> DEFINE out == Rest(gpu_decoding_q, Stay)
           gpu1 == Prefix(gpu_decoding_q, Stay)
           cpu1 == out \o cpu_decoding_q
           m == SwappedIn(gpu1, cpu1)
           gpu == gpu1 \o Prefix(cpu1, m)
           cpu == Rest(cpu1, m)
           p == Prefills(gpu, cpu)
           g == Min({p, ToGpu(gpu)})
           W == waiting_q
           Of(bs) == [batches |-> bs, out |-> out, in |-> Prefix(cpu1, m), launched |-> NumPrefs(bs),
                      gpu |-> gpu \o Prefix(W, Min({g, NumPrefs(bs)})),
                      cpu |-> cpu \o SubSeq(W, g + 1, NumPrefs(bs))]
           all == Decisions(gpu, cpu, Prefix(W, g), SubSeq(W, g + 1, p))
<1>1. NextBatchNew = {Of(bs) : bs \in all}
  BY Zenon DEF NextBatchNew
<1>2. PICK bs \in all : d = Of(bs)
  BY <1>1
<1>3. /\ List(W, Reqs) /\ List(gpu_decoding_q, Reqs) /\ List(cpu_decoding_q, Reqs)
      /\ Range(gpu_decoding_q) \intersect Range(cpu_decoding_q) = {}
  BY DEF QueuesOK
<1>4. Stay \in 0 .. Len(gpu_decoding_q)
  BY LongestBounds
<1>5. /\ List(out, Reqs)
      /\ Range(out) \subseteq Range(gpu_decoding_q)
  BY <1>3, <1>4, ListCut
<1>6. List(cpu1, Reqs) /\ Range(cpu1) = Range(out) \union Range(cpu_decoding_q)
  <2>1. Range(out) \intersect Range(cpu_decoding_q) = {}
    BY <1>3, <1>5
  <2> HIDE DEF out
  <2>2. QED
    BY <1>3, <1>5, <2>1, ListConcat
<1>7. m \in 0 .. Len(cpu1)
  <2> HIDE DEF cpu1, gpu1
  <2>1. QED
    BY <1>6, SwappedInBounds
<1>8. Rearranged(gpu, cpu, out, Prefix(cpu1, m))
  <2> HIDE DEF m, cpu1
  <2>1. QED
    BY <1>4, <1>6, <1>7, SwapsRearrange
<1>9. PICK inn : inn = Prefix(cpu1, m)
  OBVIOUS
<1> HIDE DEF gpu, cpu, out, m
<1>10. p \in 0 .. Len(W) /\ ToGpu(gpu) \in 0 .. Len(W) /\ Len(W) \in Nat
  BY <1>3, LongestBounds, ListFacts
<1> HIDE DEF p
<1>11. g \in 0 .. p
  BY <1>10, MinTwo
<1> HIDE DEF g
<1>12. List(cpu, Reqs)
  BY <1>8 DEF Rearranged
<1>13. PICK gprf : gprf = Prefix(W, g)
  OBVIOUS
<1>14. PICK cprf : cprf = SubSeq(W, g + 1, p)
  OBVIOUS
<1>15. List(gprf, Reqs) /\ Len(gprf) = g
  BY <1>3, <1>10, <1>11, <1>13, ListCut
<1>16. List(cprf, Reqs) /\ Len(cprf) = p - g
  BY <1>3, <1>10, <1>11, <1>14, ListCuts
<1>17. PICK k \in 0 .. Len(cprf) : \E c0, c1 :
         Parts(cpu, c0, c1) /\ Decided(bs, gpu, gprf, Prefix(cprf, k), c0, c1)
  <2>1. bs \in Decisions(gpu, cpu, gprf, cprf)
    BY <1>2, <1>13, <1>14
  <2>2. QED
    BY <1>12, <1>16, <2>1, DecisionsShape
<1>18. PICK c0, c1 : Parts(cpu, c0, c1) /\ Decided(bs, gpu, gprf, Prefix(cprf, k), c0, c1)
  BY <1>17
<1>19. PICK kept : kept = Prefix(cprf, k)
  OBVIOUS
<1>20. List(kept, Reqs) /\ Len(kept) = k
  BY <1>16, <1>17, <1>19, ListCut
<1>21. PICK n : n = NumPrefs(bs)
  OBVIOUS
<1>22. n = g + k
  BY <1>15, <1>18, <1>19, <1>20, <1>21, NumPrefsOf
<1>23. k \in 0 .. p - g /\ n \in 0 .. Len(W) /\ g \in 0 .. n
  BY <1>10, <1>11, <1>16, <1>17, <1>22
<1>24. kept = SubSeq(W, g + 1, n)
  BY <1>3, <1>10, <1>11, <1>14, <1>19, <1>22, <1>23, CutOfCut
<1>25. Min({g, n}) = g
  BY <1>11, <1>22, <1>23, MinTwo
<1>26. /\ d.batches = bs /\ d.out = out /\ d.in = inn /\ d.launched = n
       /\ d.gpu = gpu \o Prefix(W, g) /\ d.cpu = cpu \o SubSeq(W, g + 1, n)
  BY <1>2, <1>9, <1>21, <1>25
<1>27. Decided(bs, gpu, Prefix(W, g), SubSeq(W, g + 1, n), c0, c1)
  BY <1>13, <1>18, <1>19, <1>24
<1>28. DecisionOK(d, gpu, cpu, g, c0, c1)
  BY <1>8, <1>9, <1>18, <1>23, <1>26, <1>27 DEF DecisionOK
<1>b. BlocksAssumption /\ SchedulerAssumption /\ TypeOK
  OBVIOUS
<1>29. PICK q : q = cpu1
  OBVIOUS
<1>30. q = Behinders /\ List(q, Reqs) /\ m = SwappedIn(Prefix(gpu_decoding_q, Stay), q)
       /\ Range(q) = Range(Rest(gpu_decoding_q, Stay)) \union Range(cpu_decoding_q)
       /\ gpu = Prefix(gpu_decoding_q, Stay) \o Prefix(q, m)
       /\ out = Rest(gpu_decoding_q, Stay) /\ inn = Prefix(q, m)
  BY <1>6, <1>9, <1>29 DEF Behinders, m, gpu, out
<1>31. /\ m \in 0 .. Len(q)
       /\ SwapFits(Prefix(gpu_decoding_q, Stay), q, m)
       /\ out = <<>> \/ inn = <<>>
  <2>1. q = Behinders /\ List(q, Reqs) /\ m = SwappedIn(Prefix(gpu_decoding_q, Stay), q) /\ QueuesOK
    BY <1>30
  <2>2. /\ m \in 0 .. Len(q)
        /\ SwapFits(Prefix(gpu_decoding_q, Stay), q, m)
        /\ Rest(gpu_decoding_q, Stay) = <<>> \/ Prefix(q, m) = <<>>
    BY ONLY <1>b, <2>1, NotBothWays
  <2>3. QED
    BY <1>30, <2>2
<1>32. /\ List(gpu, Reqs) /\ BlocksOf(gpu) <= NumGpuBlocks /\ Len(gpu) <= MaxBatch
       /\ gpu = <<>> => out = <<>> /\ inn = <<>>
  <2>1. QueuesOK /\ (mode = CpuOnly => gpu_decoding_q = <<>>)
    OBVIOUS
  <2>2. /\ List(gpu, Reqs) /\ BlocksOf(gpu) <= NumGpuBlocks /\ Len(gpu) <= MaxBatch
        /\ gpu = <<>> => Rest(gpu_decoding_q, Stay) = <<>> /\ Prefix(q, m) = <<>>
    BY ONLY <1>b, <1>30, <1>31, <2>1, GpuFits
  <2>3. QED
    BY <1>30, <2>2
<1>33. /\ p = 0 \/ p <= Len(available_ids)
       /\ Len(gpu) + p <= MaxBatch
       /\ Len(gpu) + Prompts(gprf) + Prompts(cprf) <= MaxTokens
       /\ BlocksOf(gpu) + BlocksOf(gprf) <= NumGpuBlocks
       /\ BlocksOf(cprf) <= GpuBlocks
  <2>1. QueuesOK /\ p = Prefills(gpu, cpu) /\ g = Min({p, ToGpu(gpu)})
    BY DEF p, g
  <2>2. /\ p = 0 \/ p <= Len(available_ids)
        /\ Len(gpu) + p <= MaxBatch
        /\ Len(gpu) + Prompts(ToGpuPart(g)) + Prompts(ToCpuPart(g, p)) <= MaxTokens
        /\ BlocksOf(gpu) + BlocksOf(ToGpuPart(g)) <= NumGpuBlocks
        /\ BlocksOf(ToCpuPart(g, p)) <= GpuBlocks
    BY ONLY <1>b, <1>32, <2>1, PrefillsFit
  <2>3. gprf = ToGpuPart(g) /\ cprf = ToCpuPart(g, p)
    BY <1>13, <1>14 DEF ToGpuPart, ToCpuPart
  <2>4. QED
    BY <2>2, <2>3
<1>34. List(c0, Reqs) /\ List(c1, Reqs)
  BY <1>18 DEF Parts
<1>35. Range(kept) \subseteq Range(cprf) /\ Len(kept) <= Len(cprf)
  <2>1. Range(kept) \subseteq Range(cprf)
    BY <1>16, <1>17, <1>19, ListCut
  <2>2. Len(cprf) \in Nat
    BY <1>16, ListFacts
  <2>3. QED
    BY <1>17, <1>20, <2>1, <2>2
<1>36. Decided(bs, gpu, gprf, kept, c0, c1)
  BY <1>18, <1>19
<1>37. Len(gpu) + Len(gprf) + Len(cprf) <= MaxBatch
  <2>1. PICK lg \in Nat : lg = Len(gpu)
    BY <1>32, ListFacts
  <2>2. Len(gprf) = g /\ Len(cprf) = p - g
    BY <1>15, <1>16
  <2>3. lg + g + (p - g) = lg + p
    BY <1>10, <1>11
  <2>4. QED
    BY <1>33, <2>1, <2>2, <2>3
<1>38. Budget(gpu, gprf, cprf) \in Int
  <2>1. Len(gpu) \in Nat /\ Len(gprf) \in Nat /\ Len(cprf) \in Nat
    BY <1>15, <1>16, <1>32, ListFacts
  <2>2. Prompts(gprf) \in Nat /\ Prompts(cprf) \in Nat
    BY ONLY <1>b, <1>15, <1>16, QueueWeight
  <2>3. MaxBatch \in Nat /\ MaxTokens \in Nat
    BY DEF SchedulerAssumption
  <2>4. PICK a \in Nat : a = MaxBatch - Len(gpu) - (Len(gprf) + Len(cprf))
    <3>1. PICK x \in Nat, y \in Nat, z \in Nat : x = Len(gpu) /\ y = Len(gprf) /\ z = Len(cprf)
      BY <2>1
    <3>2. x + y + z <= MaxBatch
      BY <1>37, <3>1
    <3>3. MaxBatch - x - (y + z) \in Nat
      BY <2>3, <3>2
    <3>4. QED
      BY <3>1, <3>3
  <2>5. PICK t \in Nat : t = MaxTokens - Len(gpu) - Prompts(gprf) - Prompts(cprf)
    BY <1>33, <2>1, <2>2, <2>3
  <2>6. Budget(gpu, gprf, cprf) = Min({a, t})
    BY <2>4, <2>5 DEF Budget
  <2>7. QED
    BY <2>6, MinTwo
<1>39. Decodes(bs, gpu, Budget(gpu, gprf, cprf))
  <2>1. bs \in Decisions(gpu, cpu, gprf, cprf)
    BY <1>2, <1>13, <1>14
  <2>2. QED
    BY ONLY <1>b, <1>12, <1>16, <1>38, <2>1, DecodesFit
<1>40. Len(AllReqs(bs)) <= MaxBatch /\ Widths(bs) <= MaxTokens
  <2>1. Len(gpu) + Prompts(gprf) + Prompts(cprf) <= MaxTokens
    BY <1>33
  <2>2. List(gpu, Reqs) /\ List(gprf, Reqs) /\ List(cprf, Reqs) /\ List(kept, Reqs)
    BY <1>15, <1>16, <1>20, <1>32
  <2>3. QED
    BY ONLY <1>b, <1>34, <1>35, <1>36, <1>37, <1>39, <2>1, <2>2, BatchesFit
<1>41. bs # <<>> /\ \A i \in DOMAIN bs : bs[i] # NoReqs
  <2>1. bs # <<>>
    <3>1. ASSUME bs = <<>> PROVE FALSE
      <4>1. gpu = <<>>
        BY <1>39, <3>1 DEF Decodes
      <4>2. d.batches = <<>> /\ d.out = <<>> /\ d.in = <<>>
        BY <1>26, <1>32, <3>1, <4>1
      <4>3. QED
        BY <4>2 DEF Starts
    <3>2. QED
      BY <3>1
  <2>2. DOMAIN bs = 1 .. Len(bs)
    BY <1>36, BatchesOf
  <2>3. QED
    BY <1>39, <2>1, <2>2 DEF Decodes
<1>42. BlocksOf(gpu) + BlocksOf(gprf) <= GpuBlocks
  <2>1. BlocksOf(gpu) \in Nat /\ BlocksOf(gprf) \in Nat
    BY ONLY <1>b, <1>15, <1>32, QueueWeight
  <2>2. NumGpuBlocks \in Nat /\ GpuBlocks \in Nat /\ NumGpuBlocks <= GpuBlocks
    BY DEF NumGpuBlocks, BlocksAssumption
  <2>3. QED
    BY <1>33, <2>1, <2>2
<1>43. BlocksOf(kept) <= GpuBlocks
  <2>1. BlocksOf(kept) <= BlocksOf(cprf)
    BY ONLY <1>b, <1>16, <1>20, <1>35, QueueFewer
  <2>2. BlocksOf(kept) \in Nat /\ BlocksOf(cprf) \in Nat
    BY ONLY <1>b, <1>16, <1>20, QueueWeight
  <2>3. GpuBlocks \in Nat
    BY DEF BlocksAssumption
  <2>4. QED
    BY <1>33, <2>1, <2>2, <2>3
<1>44. n <= Len(available_ids)
  <2>1. List(available_ids, Ids)
    BY DEF IdsOK
  <2>2. Len(available_ids) \in Nat
    BY <2>1, ListFacts
  <2>3. n \in 0 .. p
    BY <1>10, <1>11, <1>22, <1>23
  <2>4. QED
    BY <1>10, <1>33, <2>2, <2>3
<1>45. /\ d.out = out /\ d.in = inn /\ d.batches = bs /\ d.launched = n
  BY <1>26
<1>46. kept = SubSeq(waiting_q, g + 1, n) /\ gprf = Prefix(waiting_q, g)
  BY <1>13, <1>24
<1>47. Budgeted(d, gpu, g)
  BY ONLY <1>31, <1>40, <1>41, <1>42, <1>43, <1>44, <1>45, <1>46 DEF Budgeted, Widths
<1>48. mode = CpuOnly => d.gpu = <<>>
  <2> SUFFICES ASSUME mode = CpuOnly PROVE d.gpu = <<>>
    OBVIOUS
  <2>1. NumGpuBlocks = 0
    BY DEF NumGpuBlocks
  <2>2. BlocksOf(gpu) \in Nat /\ BlocksOf(gprf) \in Nat
    BY ONLY <1>b, <1>15, <1>32, QueueWeight
  <2>3. BlocksOf(gpu) = 0 /\ BlocksOf(gprf) = 0
    BY <1>33, <2>1, <2>2
  <2>4. gpu # <<>> => BlocksOf(gpu) > 0
    BY ONLY <1>b, <1>32, QueueFew
  <2>5. gprf # <<>> => BlocksOf(gprf) > 0
    BY ONLY <1>b, <1>15, QueueFew
  <2>6. gpu = <<>> /\ gprf = <<>>
    BY ONLY <2>3, <2>4, <2>5
  <2>7. d.gpu = gpu \o gprf
    BY <1>13, <1>26
  <2>8. <<>> \o <<>> = <<>>
    OBVIOUS
  <2>9. QED
    BY <2>6, <2>7, <2>8
<1>49. QED
  BY <1>28, <1>47, <1>48 DEF Affordable

(* So is what the old policy decides to start.                               *)
LEMMA OldBudgeted ==
  ASSUME BlocksAssumption, SchedulerAssumption, TypeOK, QueuesOK, IdsOK, mode = GpuOnly,
         Starts(NextBatchOld)
  PROVE  Affordable(NextBatchOld)
<1> DEFINE out == Rest(gpu_decoding_q, Stay)
           gpu1 == Prefix(gpu_decoding_q, Stay)
           cpu1 == Reverse(out) \o cpu_decoding_q
           p == IF cpu1 = <<>> THEN OldPrefills(gpu1) ELSE 0
           m == IF out = <<>> THEN OldSwappedIn(gpu1, cpu1) ELSE 0
           gpu == gpu1 \o Prefix(cpu1, m)
           cpu == Rest(cpu1, m)
           W == waiting_q
           batch == [NoReqs EXCEPT !.gprf = Prefix(W, p), !.gdec = gpu]
           d == [batches |-> IF batch = NoReqs THEN <<>> ELSE <<batch>>, out |-> out,
                 in |-> Prefix(cpu1, m), launched |-> p, gpu |-> gpu \o Prefix(W, p), cpu |-> cpu]
<1>1. NextBatchOld = d
  BY Zenon DEF NextBatchOld
<1>3. /\ List(W, Reqs) /\ List(gpu_decoding_q, Reqs) /\ List(cpu_decoding_q, Reqs)
      /\ Range(gpu_decoding_q) \intersect Range(cpu_decoding_q) = {}
  BY DEF QueuesOK
<1>4. Stay \in 0 .. Len(gpu_decoding_q)
  BY LongestBounds
<1>5. /\ List(out, Reqs)
      /\ Range(out) \subseteq Range(gpu_decoding_q)
  BY <1>3, <1>4, ListCut
<1>a. List(Reverse(out), Reqs) /\ Range(Reverse(out)) = Range(out)
  BY <1>5, ListReverse
<1>6. List(cpu1, Reqs) /\ Range(cpu1) = Range(out) \union Range(cpu_decoding_q)
  <2>1. Range(Reverse(out)) \intersect Range(cpu_decoding_q) = {}
    BY <1>3, <1>5, <1>a
  <2>2. PICK q : q = Reverse(out)
    OBVIOUS
  <2>3. List(q, Reqs) /\ Range(q) = Range(out) /\ Range(q) \intersect Range(cpu_decoding_q) = {}
    BY <1>a, <2>1, <2>2
  <2>4. List(q \o cpu_decoding_q, Reqs) /\ Range(q \o cpu_decoding_q) = Range(q) \union Range(cpu_decoding_q)
    BY <1>3, <2>3, ListConcat
  <2>5. QED
    BY <2>2, <2>3, <2>4
<1>7. m \in 0 .. Len(cpu1)
  <2> HIDE DEF cpu1, gpu1, out
  <2>1. OldSwappedIn(gpu1, cpu1) \in 0 .. Len(cpu1) /\ Len(cpu1) \in Nat
    BY <1>6, SwappedInBounds, ListFacts
  <2>2. QED
    BY <2>1
<1>8. Rearranged(gpu, cpu, out, Prefix(cpu1, m))
  <2> HIDE DEF m, cpu1
  <2>1. QED
    BY <1>4, <1>6, <1>7, SwapsRearrange
<1>9. PICK inn : inn = Prefix(cpu1, m)
  OBVIOUS
<1>10. p \in 0 .. Len(W) /\ Len(W) \in Nat
  BY <1>3, LongestBounds, ListFacts
<1> HIDE DEF p, gpu, cpu, out, m
<1>11. p \in 0 .. p /\ p \in Nat
  BY <1>10
<1>13. PICK gprf : gprf = Prefix(W, p)
  OBVIOUS
<1>14. SubSeq(W, p + 1, p) = <<>>
  <2>1. List(SubSeq(W, p + 1, p), Reqs) /\ Len(SubSeq(W, p + 1, p)) = p - p
    BY <1>3, <1>10, <1>11, ListCuts
  <2>2. PICK t : t = SubSeq(W, p + 1, p)
    OBVIOUS
  <2>3. List(t, Reqs) /\ Len(t) = 0
    BY <1>11, <2>1, <2>2
  <2>4. QED
    <3>1. t = <<>>
      BY <2>3, ListNonempty
    <3>2. QED
      BY <2>2, <3>1
<1>15. batch = Full(gprf, <<>>, gpu, <<>>)
  <2>1. PICK n : n = [cprf |-> <<>>, gprf |-> <<>>, gdec |-> <<>>, cdec |-> <<>>]
    OBVIOUS
  <2>2. NoReqs = n
    BY <2>1 DEF NoReqs
  <2>3. PICK f : f = [n EXCEPT !.gprf = gprf, !.gdec = gpu]
    OBVIOUS
  <2>4. f = Full(gprf, <<>>, gpu, <<>>)
    BY <2>1, <2>3 DEF Full
  <2>5. QED
    BY Zenon, <1>13, <2>2, <2>3, <2>4
<1>16. NoReqs = Full(<<>>, <<>>, <<>>, <<>>)
  BY DEF NoReqs, Full
<1>17. Parts(cpu, <<>>, <<>>)
  <2>1. List(<<>>, Reqs) /\ Range(<<>>) = {}
    BY ListEmpty
  <2>2. QED
    BY <2>1 DEF Parts
<1> HIDE DEF batch
<1>18. Decided(d.batches, gpu, gprf, <<>>, <<>>, <<>>)
  <2>1. CASE batch = NoReqs
    <3>1. gprf = <<>>
      BY <1>15, <1>16, <2>1 DEF Full
    <3>2. QED
      BY <2>1, <3>1 DEF Decided
  <2>2. CASE batch # NoReqs
    <3>1. d.batches = <<Full(gprf, <<>>, gpu, <<>>)>>
      BY <1>15, <2>2
    <3>2. QED
      BY <3>1 DEF Decided
  <2>3. QED
    BY <2>1, <2>2
<1>19. cpu \o <<>> = cpu
  <2>1. List(cpu, Reqs)
    BY <1>8 DEF Rearranged
  <2>2. cpu \in Seq(Reqs)
    BY <2>1 DEF List
  <2>3. QED
    BY <2>2, ConcatEmptySeq
<1>20. /\ d.out = out /\ d.in = inn /\ d.launched = p
       /\ d.gpu = gpu \o Prefix(W, p) /\ d.cpu = cpu \o SubSeq(W, p + 1, p)
  BY <1>9, <1>14, <1>19
<1>21. Decided(d.batches, gpu, Prefix(W, p), SubSeq(W, p + 1, p), <<>>, <<>>)
  BY <1>13, <1>14, <1>18
<1>y. d.batches = IF batch = NoReqs THEN <<>> ELSE <<batch>>
  OBVIOUS
<1> HIDE DEF d
<1>22. DecisionOK(d, gpu, cpu, p, <<>>, <<>>)
  BY <1>8, <1>9, <1>10, <1>11, <1>17, <1>20, <1>21 DEF DecisionOK
<1>b. BlocksAssumption /\ SchedulerAssumption /\ TypeOK
  OBVIOUS
<1>c. mode # CpuOnly /\ NumGpuBlocks = GpuBlocks
  BY DEF NumGpuBlocks, CpuOnly, GpuOnly
<1>29. PICK q : q = cpu1
  OBVIOUS
<1>e. PICK e : e = <<>>
  OBVIOUS
<1>f. List(e, Reqs) /\ Range(e) = {} /\ Len(e) = 0
  BY <1>e, ListEmpty
<1>g. PICK g1 : g1 = Prefix(gpu_decoding_q, Stay)
  OBVIOUS
<1>30. List(q, Reqs) /\ m = (IF out = <<>> THEN OldSwappedIn(g1, q) ELSE 0)
       /\ p = (IF q = <<>> THEN OldPrefills(g1) ELSE 0)
       /\ Range(q) = Range(Rest(gpu_decoding_q, Stay)) \union Range(cpu_decoding_q)
       /\ gpu = g1 \o Prefix(q, m)
       /\ out = Rest(gpu_decoding_q, Stay) /\ inn = Prefix(q, m) /\ m \in 0 .. Len(q)
  BY <1>6, <1>7, <1>9, <1>29, <1>g DEF m, gpu, out, p
<1>h. PICK lq \in Nat : lq = Len(q)
  BY <1>30, ListFacts
<1>i. m \in 0 .. lq
  BY <1>30, <1>h
<1>31. SwapFits(g1, q, m)
  <2>1. ASSUME m >= 1 PROVE Len(g1) + m <= MaxBatch /\ BlocksOf(g1) + BlocksOf(Prefix(q, m)) <= NumGpuBlocks
    <3>1. out = <<>>
      <4>1. ASSUME out # <<>> PROVE FALSE
        <5>1. m = 0
          BY <1>30, <4>1
        <5>2. QED
          BY <2>1, <5>1
      <4>2. QED
        BY <4>1
    <3>2. m = OldSwappedIn(g1, q) /\ m \in 1 .. m
      BY <1>i, <1>30, <2>1, <3>1
    <3>3. \A j \in 1 .. OldSwappedIn(g1, q) :
            Len(g1) + j <= MaxBatch /\ BlocksOf(g1) + BlocksOf(Prefix(q, j)) <= NumGpuBlocks
      BY ONLY <1>30, SwappedInStops
    <3>4. QED
      BY ONLY <3>2, <3>3
  <2>2. QED
    BY <2>1 DEF SwapFits
<1>32. /\ List(gpu, Reqs) /\ BlocksOf(gpu) <= NumGpuBlocks /\ Len(gpu) <= MaxBatch
       /\ gpu = <<>> => out = <<>> /\ inn = <<>>
  <2>1. QueuesOK /\ (mode = CpuOnly => gpu_decoding_q = <<>>)
    BY <1>c
  <2>3. /\ List(q, Reqs) /\ Range(q) = Range(Rest(gpu_decoding_q, Stay)) \union Range(cpu_decoding_q)
        /\ m \in 0 .. Len(q) /\ SwapFits(Prefix(gpu_decoding_q, Stay), q, m)
        /\ gpu = Prefix(gpu_decoding_q, Stay) \o Prefix(q, m)
    BY <1>30, <1>31, <1>g
  <2>2. /\ List(gpu, Reqs) /\ BlocksOf(gpu) <= NumGpuBlocks /\ Len(gpu) <= MaxBatch
        /\ gpu = <<>> => Rest(gpu_decoding_q, Stay) = <<>> /\ Prefix(q, m) = <<>>
    BY ONLY <1>b, <2>1, <2>3, GpuFits
  <2>4. QED
    BY <1>30, <2>2
<1>33. out = <<>> \/ inn = <<>>
  <2>1. ASSUME out # <<>> PROVE inn = <<>>
    <3>1. m = 0
      BY <1>30, <2>1
    <3>2. List(inn, Reqs) /\ Len(inn) = 0
      BY <1>30, <3>1, ListCut
    <3>3. QED
      BY <3>2, ListNonempty
  <2>2. QED
    BY <2>1
<1>34. PICK lg \in Nat : lg = Len(gpu)
  BY <1>32, ListFacts
<1>35. List(gprf, Reqs) /\ Len(gprf) = p
  BY <1>3, <1>10, <1>13, ListCut
<1>k. MaxBatch \in Nat \ {0} /\ MaxTokens \in Nat /\ MaxBatch <= MaxTokens /\ MaxBatch <= Cardinality(Ids)
       /\ GpuBlocks \in Nat
  BY DEF SchedulerAssumption, BlocksAssumption
<1>l. BlocksOf(gpu) \in Nat /\ BlocksOf(gprf) \in Nat /\ Prompts(gprf) \in Nat
  BY ONLY <1>b, <1>32, <1>35, QueueWeight
<1>36. ASSUME p >= 1
       PROVE  /\ lg + p <= MaxBatch
              /\ BlocksOf(gpu) + BlocksOf(gprf) <= GpuBlocks
              /\ lg + Prompts(gprf) <= MaxTokens
              /\ p <= Len(available_ids)
  <2>1. q = <<>>
    <3>1. ASSUME q # <<>> PROVE FALSE
      <4>1. p = 0
        BY <1>30, <3>1
      <4>2. QED
        BY <1>36, <4>1
    <3>2. QED
      BY <3>1
  <2>2. p = OldPrefills(g1) /\ p \in 1 .. p
    BY <1>11, <1>30, <1>36, <2>1
  <2>3. \A n \in 1 .. OldPrefills(g1) :
              /\ Len(g1) + n <= MaxBatch
              /\ BlocksOf(g1) + BlocksOf(Prefix(W, n)) <= NumGpuBlocks
              /\ Len(g1) + Prompts(Prefix(W, n)) <= MaxTokens
    BY <1>3, PrefillsStop
  <2>4. Len(g1) + p <= MaxBatch /\ BlocksOf(g1) + BlocksOf(Prefix(W, p)) <= NumGpuBlocks
        /\ Len(g1) + Prompts(Prefix(W, p)) <= MaxTokens
    BY ONLY <2>2, <2>3
  <2>5. gpu = g1
    <3>1. Len(q) = 0
      BY <1>30, <2>1, ListNonempty
    <3>2. m = 0
      BY <1>h, <1>i, <3>1
    <3>3. List(inn, Reqs) /\ Len(inn) = 0
      BY <1>30, <3>2, ListCut
    <3>4. inn = <<>>
      BY <3>3, ListNonempty
    <3>5. List(g1, Reqs)
      BY <1>3, <1>4, <1>g, ListCut
    <3>6. g1 \in Seq(Reqs)
      BY <3>5 DEF List
    <3>7. gpu = g1 \o <<>>
      BY <1>30, <3>4
    <3>8. QED
      BY <3>6, <3>7, ConcatEmptySeq
  <2>6. p <= Len(available_ids)
    <3>1. Range(q) = {}
      BY <1>30, <2>1, ListNonempty
    <3>2. Range(out) = {} /\ Range(cpu_decoding_q) = {}
      BY <1>30, <3>1
    <3>3. Range(g1) \union Range(out) = Range(gpu_decoding_q) /\ List(g1, Reqs)
      BY <1>3, <1>4, <1>30, <1>g, ListCut
    <3>4. Started = Range(gpu)
      BY <2>5, <3>2, <3>3 DEF Started
    <3>5. Cardinality(Started) = lg
      BY <1>32, <1>34, <3>4, ListSize
    <3>6. Len(available_ids) + Cardinality(Started) = Cardinality(Ids)
      BY IdsCounted
    <3>7. List(available_ids, Ids)
      BY DEF IdsOK
    <3>8. Len(available_ids) \in Nat
      BY <3>7, ListFacts
    <3>9. Cardinality(Ids) = Len(available_ids) + lg
      BY <3>5, <3>6
    <3>10. lg + p <= MaxBatch
      BY <1>34, <2>4, <2>5
    <3>11. QED
      BY <1>10, <1>k, <3>8, <3>9, <3>10
  <2>7. QED
    BY <1>13, <1>34, <1>c, <2>4, <2>5, <2>6
<1>37. p = 0 => BlocksOf(gprf) = 0 /\ Prompts(gprf) = 0
  <2>1. p = 0 => gprf = <<>>
    BY <1>35, ListNonempty
  <2>2. QED
    BY ONLY <1>b, <1>35, <2>1, QueueFew
<1>38. /\ lg + p <= MaxBatch
       /\ BlocksOf(gpu) + BlocksOf(gprf) <= GpuBlocks
       /\ lg + Prompts(gprf) <= MaxTokens
       /\ p = 0 \/ p <= Len(available_ids)
  <2>1. CASE p >= 1
    BY <1>36, <2>1
  <2>2. CASE p = 0
    <3>1. lg <= MaxBatch /\ BlocksOf(gpu) <= GpuBlocks
      BY <1>32, <1>34, <1>c
    <3>2. lg <= MaxTokens
      BY <1>k, <3>1
    <3>3. QED
      BY <1>37, <1>l, <2>2, <3>1, <3>2
  <2>3. QED
    BY <1>11, <2>1, <2>2
<1>39. Prompts(e) = 0 /\ BlocksOf(e) = 0
  BY ONLY <1>b, <1>e, <1>f, QueueFew
<1>40. PICK bs : bs = d.batches
  OBVIOUS
<1>41. Decided(bs, gpu, gprf, e, e, e)
  BY <1>18, <1>40, <1>e
<1>42. bs # <<>> /\ Len(bs) = 1 /\ \A i \in 1 .. Len(bs) : bs[i] = Full(gprf, e, gpu, e) /\ bs[i] # NoReqs
  <2>1. ASSUME batch = NoReqs PROVE FALSE
    <3>1. gpu = <<>>
      BY <1>15, <1>16, <2>1 DEF Full
    <3>2. d.batches = <<>> /\ d.out = <<>> /\ d.in = <<>>
      BY <1>20, <1>32, <1>y, <2>1, <3>1
    <3>3. QED
      BY <1>1, <3>2 DEF Starts
  <2>2. bs = <<batch>>
    BY <1>40, <1>y, <2>1
  <2>3. Len(bs) = 1 /\ bs[1] = batch
    BY <2>2
  <2>4. \A i \in 1 .. Len(bs) : i = 1
    BY <2>3
  <2>5. batch = Full(gprf, e, gpu, e)
    BY <1>15, <1>e
  <2>6. \A i \in 1 .. Len(bs) : bs[i] = batch
    BY ONLY <2>3, <2>4
  <2>7. bs # <<>>
    BY <2>2
  <2>8. QED
    BY ONLY <2>1, <2>3, <2>5, <2>6, <2>7
<1>43. Decodes(bs, gpu, Budget(gpu, gprf, e))
  <2>1. Len(bs) \in {0, 1, 2} /\ (Len(bs) = 0 => bs = <<>>) /\ (Len(bs) = 2 => bs[2] = Full(<<>>, <<>>, <<>>, e))
    BY <1>41, BatchesOf
  <2>2. Len(bs) = 1
    BY <1>42
  <2>3. bs[1].cdec = e
    <3>1. 1 \in 1 .. Len(bs)
      BY <2>2
    <3>2. bs[1] = Full(gprf, e, gpu, e)
      BY ONLY <1>42, <3>1
    <3>3. QED
      BY <3>2 DEF Full
  <2>4. Len(bs[1].cdec) = 0
    BY <1>f, <2>3
  <2>5. QED
    BY <1>42, <2>2, <2>4 DEF Decodes
<1>44. Len(AllReqs(bs)) <= MaxBatch /\ Widths(bs) <= MaxTokens
  <2>1. Range(e) \subseteq Range(e) /\ Len(e) <= Len(e)
    BY <1>f
  <2>2. Len(gpu) + Len(gprf) + Len(e) <= MaxBatch
    BY <1>10, <1>34, <1>35, <1>38, <1>f
  <2>3. Len(gpu) + Prompts(gprf) + Prompts(e) <= MaxTokens
    BY <1>34, <1>38, <1>39, <1>l
  <2>4. QED
    BY ONLY <1>b, <1>f, <1>32, <1>35, <1>41, <1>43, <2>1, <2>2, <2>3, BatchesFit
<1>45. p <= Len(available_ids)
  <2>1. List(available_ids, Ids)
    BY DEF IdsOK
  <2>2. Len(available_ids) \in Nat
    BY <2>1, ListFacts
  <2>3. QED
    BY <1>38, <2>2
<1>46. DOMAIN bs = 1 .. Len(bs)
  BY <1>41, BatchesOf
<1>47. d.out = out /\ d.in = inn /\ d.batches = bs /\ d.launched = p
  BY <1>20, <1>40
<1>48. gprf = Prefix(waiting_q, p) /\ BlocksOf(SubSeq(waiting_q, p + 1, p)) <= GpuBlocks
  <2>1. SubSeq(waiting_q, p + 1, p) = e
    BY <1>14, <1>e
  <2>2. BlocksOf(SubSeq(waiting_q, p + 1, p)) = 0
    BY ONLY <1>39, <2>1
  <2>3. QED
    BY ONLY <1>13, <1>k, <2>2
<1>49. Budgeted(d, gpu, p)
  BY ONLY <1>33, <1>38, <1>42, <1>44, <1>45, <1>46, <1>47, <1>48 DEF Budgeted, Widths
<1>50. QED
  BY <1>1, <1>c, <1>22, <1>49 DEF Affordable

-------------------------------------------------------------------------------
\* Only the CPU's blocks run out.

\* In CPU-only mode nobody is on the GPU, and the server lives unless the
\* CPU's blocks ran out.
SparedInv ==
  /\ mode = CpuOnly => gpu_decoding_q = <<>>
  /\ Spared(blk)

(* A decision within the thresholds is launched: the step kills the server   *)
(* for want of CPU blocks or not at all.                                     *)
LEMMA LaunchSpared ==
  ASSUME BlocksAssumption, SchedulerAssumption, ExtraLayer, IInv, Alive, batches = <<>>,
         NEW d, Affordable(d), Launch(d)
  PROVE  SparedInv'
<1>1. PICK gpu, cpu, g, c0, c1 : DecisionOK(d, gpu, cpu, g, c0, c1) /\ Budgeted(d, gpu, g)
  BY DEF Affordable
<1>2. TypeOK /\ QueuesOK /\ BatchOK /\ IdsOK /\ BlocksOK
  BY DEF IInv
<1>3. InBatch = {}
  BY AllReqsNone DEF InBatch
<1>4. Begun
  BY <1>2, <1>3 DEF BatchOK, Begun
<1>5. PICK ids : ids = IdsAfter(d)
  OBVIOUS
<1>6. PICK b : b = Prepared(d, ids)
  OBVIOUS
<1>7. Spared(b)
  <2>1. BlocksAssumption /\ SchedulerAssumption /\ ExtraLayer
    OBVIOUS
  <2>2. QED
    BY ONLY <1>1, <1>2, <1>3, <1>4, <1>5, <1>6, <2>1, PreparedSpared
<1>8. blk' = b /\ gpu_decoding_q' = d.gpu /\ mode' = mode
  BY <1>5, <1>6 DEF Launch
<1>9. mode = CpuOnly => d.gpu = <<>>
  BY DEF Affordable
<1>10. QED
  BY <1>7, <1>8, <1>9 DEF SparedInv

(* Both policies decide within the thresholds.                               *)
LEMMA ScheduleSpared ==
  ASSUME BlocksAssumption, SchedulerAssumption, ExtraLayer, IInv, SparedInv, Schedule
  PROVE  SparedInv'
<1>1. Alive /\ batches = <<>>
  BY DEF Schedule
<1>2. TypeOK /\ QueuesOK /\ IdsOK
  BY <1>1 DEF IInv
<1>3. \/ \E d \in NextBatchNew : Launch(d)
      \/ mode = GpuOnly /\ Launch(NextBatchOld)
  BY DEF Schedule
<1>4. CASE \E d \in NextBatchNew : Launch(d)
  <2>1. PICK d \in NextBatchNew : Launch(d)
    BY <1>4
  <2>2. Starts(d)
    BY <2>1 DEF Launch, Starts
  <2>3. mode = CpuOnly => gpu_decoding_q = <<>>
    BY DEF SparedInv
  <2>4. Affordable(d)
    BY <1>2, <2>1, <2>2, <2>3, NewBudgeted
  <2>5. QED
    BY <1>1, <2>1, <2>4, LaunchSpared
<1>5. CASE mode = GpuOnly /\ Launch(NextBatchOld)
  <2>1. Starts(NextBatchOld)
    BY <1>5 DEF Launch, Starts
  <2>2. Affordable(NextBatchOld)
    BY <1>2, <1>5, <2>1, OldBudgeted
  <2>3. PICK d : d = NextBatchOld
    OBVIOUS
  <2>4. Affordable(d) /\ Launch(d)
    BY <1>5, <2>2, <2>3
  <2>5. QED
    BY <1>1, <2>4, LaunchSpared
<1>6. QED
  BY <1>3, <1>4, <1>5

(* Freeing blocks fails no assertion, and leaves an empty queue empty.       *)
LEMMA UpdateSpared ==
  ASSUME BlocksAssumption, SchedulerAssumption, IInv, SparedInv, UpdateAndFree
  PROVE  SparedInv'
<1>1. Alive /\ TypeOK /\ QueuesOK /\ BatchOK /\ IdsOK /\ BlocksOK
  BY DEF IInv, UpdateAndFree
<1>2. PICK fin :
           /\ List(fin, Reqs) /\ Range(fin) = Done
           /\ blk' = FreeBlocksOfRequests(blk, Seen(requestId, fin))
           /\ gpu_decoding_q' = Those(gpu_decoding_q, Range(gpu_decoding_q) \ Done)
           /\ mode' = mode
  BY <1>1, UpdateFacts
<1>3. Started \subseteq Reqs
  BY <1>1, StartedFacts
<1>4. Done \subseteq Started
  BY <1>1 DEF BatchOK, Done
<1>5. Named(Started, requestId) /\ Sized(Started)
  <2>1. Named(Started, requestId)
    BY <1>1 DEF IdsOK, Named
  <2>2. Sized(Started)
    BY <1>1, <1>3, SizesOK
  <2>3. QED
    BY <2>1, <2>2
<1>6. PICK reqs : reqs = Seen(requestId, fin)
  OBVIOUS
<1>7. List(fin, Started)
  BY <1>2, <1>4, ListWithin
<1>8. Told(reqs)
  BY <1>5, <1>6, <1>7, SeenFacts
<1>9. blk \in BlockState /\ blk.fault = "none" /\ Parted(blk, {})
  BY <1>1 DEF BlocksOK, Holds
<1>10. Freed(blk, reqs, FreeBlocksOfRequests(blk, reqs))
  BY <1>8, <1>9, FreedFacts
<1>11. Spared(blk')
  BY <1>2, <1>6, <1>10 DEF Freed, Spared
<1>12. ASSUME mode = CpuOnly
       PROVE  gpu_decoding_q' = <<>>
  <2>1. PICK q : q = gpu_decoding_q
    OBVIOUS
  <2>2. PICK F : F = Range(q) \ Done
    OBVIOUS
  <2>3. List(q, Reqs) /\ q = <<>>
    BY <1>1, <1>12, <2>1 DEF QueuesOK, SparedInv
  <2>4. /\ List(Those(q, F), Reqs)
        /\ \A x : x \in Range(Those(q, F)) <=> x \in Range(q) /\ x \in F
    BY <2>3, ThoseFacts
  <2>5. Range(q) = {}
    BY <2>3, ListNonempty
  <2>6. Range(Those(q, F)) = {}
    BY <2>4, <2>5
  <2>7. Those(q, F) = <<>>
    BY <2>4, <2>6, ListNonempty
  <2>8. QED
    BY <1>2, <2>1, <2>2, <2>7
<1>13. QED
  BY <1>2, <1>11, <1>12 DEF SparedInv

(* With the extra layer of blocks the split of a prefill moves through, no   *)
(* assertion of prepare fails and the GPU never runs out of blocks, in any   *)
(* mode and whatever the predictor says: the thresholds of both policies     *)
(* keep every batch within what is free.                                     *)
THEOREM ThresholdsSuffice == ASSUME ExtraLayer PROVE Spec => []OnlyCpuBlocksRunOut
<1>1. Init => SparedInv
  <2> SUFFICES ASSUME Init
               PROVE  SparedInv
    OBVIOUS
  <2>1. blk.fault = "none"
    BY BlocksAssumption, FreshParted DEF Init
  <2>2. gpu_decoding_q = <<>>
    BY DEF Init
  <2>3. QED
    BY <2>1, <2>2 DEF SparedInv, Spared
<1>2. IInv /\ SparedInv /\ [Next]_vars => SparedInv'
  <2> SUFFICES ASSUME IInv, SparedInv, [Next]_vars
               PROVE  SparedInv'
    OBVIOUS
  <2>1. UNCHANGED <<mode, gpu_decoding_q, blk>> => SparedInv'
    BY DEF SparedInv, Spared
  <2>2. CASE AddText
    BY <2>1, <2>2 DEF AddText, queues
  <2>3. CASE AddTokens
    BY <2>1, <2>3 DEF AddTokens
  <2>4. CASE TokenizeStart
    BY <2>1, <2>4 DEF TokenizeStart, queues
  <2>5. CASE TokenizeEnd
    BY <2>1, <2>5 DEF TokenizeEnd
  <2>6. CASE Schedule
    BY <2>6, BlocksAssumption, SchedulerAssumption, ScheduleSpared
  <2>7. CASE UpdateAndFree
    BY <2>7, BlocksAssumption, SchedulerAssumption, UpdateSpared
  <2>8. CASE UNCHANGED vars
    BY <2>1, <2>8 DEF vars, queues
  <2>9. QED
    BY <2>2, <2>3, <2>4, <2>5, <2>6, <2>7, <2>8 DEF Next
<1>3. SparedInv => OnlyCpuBlocksRunOut
  BY DEF SparedInv, Spared, OnlyCpuBlocksRunOut
<1>4. Spec => []IInv
  BY Inductive
<1>5. QED
  BY <1>1, <1>2, <1>3, <1>4, PTL DEF Spec
===============================================================================
