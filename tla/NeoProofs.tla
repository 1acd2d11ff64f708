------------------------------- MODULE NeoProofs -------------------------------
(* Neo's worker.  For every length, block size and sequence block size: what  *)
(* a decode of the paged attention reads.  For every model and every number   *)
(* of ranks that divides it: the ranks together have each weight, token and   *)
(* head once.  For every number of requests, layers and blocks, with and      *)
(* without the extra layer: the two streams and the thread never race, every  *)
(* batch goes through every layer, and the KV is where the block tables say.  *)
(*                                                                            *)
(* The last is about what is in flight.  An abstract machine runs the         *)
(* thread's program in its order, and keeps which jobs each stream has not    *)
(* waited for (Go, Ok, Safe).  The jobs in flight are at all times some that  *)
(* the machine has run: what they still have to do takes the memory to the    *)
(* machine's (Pending), and those that may change places do not clash.        *)
EXTENDS NeoPipeline, NeoAttention, NeoShards, WellFoundedInduction, TLAPS

LEMMA DivMod ==
  ASSUME NEW a \in Nat, NEW b \in Nat \ {0}
  PROVE  /\ a \div b \in Nat /\ a % b \in 0 .. b - 1
         /\ a = b * (a \div b) + (a % b)
OBVIOUS

(* Quotient and remainder are the only ones.                                 *)
LEMMA Unique ==
  ASSUME NEW b \in Nat \ {0}, NEW q \in Nat, NEW r \in Nat, NEW i \in 0 .. b - 1, NEW j \in 0 .. b - 1,
         b * q + i = b * r + j
  PROVE  q = r /\ i = j
<1>1. CASE q < r
  <2>1. r - q \in Nat \ {0} /\ b * r = b * q + b * (r - q)
    BY <1>1
  <2>2. b * (r - q) >= b
    BY <2>1
  <2> QED BY <2>1, <2>2
<1>2. CASE r < q
  <2>1. q - r \in Nat \ {0} /\ b * q = b * r + b * (q - r)
    BY <1>2
  <2>2. b * (q - r) >= b
    BY <2>1
  <2> QED BY <2>1, <2>2
<1>3. CASE q = r
  BY <1>3
<1> QED BY <1>1, <1>2, <1>3

LEMMA DivUnique ==
  ASSUME NEW b \in Nat \ {0}, NEW q \in Nat, NEW i \in 0 .. b - 1
  PROVE  (b * q + i) \div b = q /\ (b * q + i) % b = i
<1> DEFINE a == b * q + i
<1>1. a \in Nat
  OBVIOUS
<1>2. a \div b \in Nat /\ a % b \in 0 .. b - 1 /\ b * q + i = b * (a \div b) + (a % b)
  BY <1>1, DivMod
<1> QED BY <1>2, Unique

LEMMA CeilDivBounds ==
  ASSUME NEW a \in Nat, NEW b \in Nat \ {0}
  PROVE  LET c == CeilDiv(a, b) IN c \in Nat /\ a <= b * c /\ b * c < a + b
<1> DEFINE x == a + b - 1
<1>1. x \in Nat
  OBVIOUS
<1>2. x \div b \in Nat /\ x % b \in 0 .. b - 1 /\ x = b * (x \div b) + (x % b)
  BY <1>1, DivMod
<1> QED BY <1>2 DEF CeilDiv

LEMMA TimesMonotone ==
  ASSUME NEW b \in Nat \ {0}, NEW x \in Int, NEW y \in Int
  PROVE  /\ x < y => b * x + b <= b * y
         /\ b * x < b * y => x < y
<1>1. ASSUME x < y PROVE b * x + b <= b * y
  <2>1. y - x - 1 \in Nat /\ b * (y - x - 1) >= 0
    BY <1>1
  <2>2. b * (y - x - 1) = b * y - b * x - b
    OBVIOUS
  <2> QED BY <2>1, <2>2
<1>2. ASSUME ~(x < y) PROVE ~(b * x < b * y)
  <2>1. b * (x - y) >= 0
    BY <1>2
  <2>2. b * (x - y) = b * x - b * y
    OBVIOUS
  <2> QED BY <2>1, <2>2
<1> QED BY <1>1, <1>2

(* The entries of the cache that hold the tokens of sequence block s.        *)
EntriesOf(length, n, blockSize, s) ==
  {e \in Nat \X (0 .. blockSize - 1) :
     s * n <= e[1] /\ e[1] < s * n + n /\ blockSize * e[1] + e[2] < length}

(* A program whose sequence block starts before the end of the request       *)
(* reads exactly its entries, whether it is the masked last one or not.      *)
LEMMA ProgramReads ==
  ASSUME NEW length \in Nat \ {0}, NEW bs \in Nat \ {0}, NEW n \in Nat \ {0},
         NEW s \in Nat, s * (n * bs) < length
  PROVE  ProgramEntries(length, n * bs, bs, s) = EntriesOf(length, n, bs, s)
<1> DEFINE size == n * bs
           left == length - s * size
<1>1. size \in Nat \ {0} /\ size = bs * n /\ s * size = bs * (s * n) /\ left \in Nat \ {0}
  OBVIOUS
<1>2. size \div bs = n
  BY <1>1, DivUnique, 0 \in 0 .. bs - 1
<1>3. ASSUME NEW block \in Nat, NEW o \in 0 .. bs - 1
      PROVE  bs * (s * n + block) + o = block * bs + s * size + o
  BY <1>1
<1>4. CASE IsLastSeqBlock(length, size, s)
  <2> DEFINE c == CeilDiv(left, bs)
  <2>1. c \in Nat /\ left <= bs * c /\ bs * c < left + bs
    BY <1>1, CeilDivBounds
  <2>2. BlocksRead(length, size, bs, s) = 0 .. c - 1
    BY <1>4 DEF BlocksRead
  <2>3. length <= bs * (s * n) + bs * n
    BY <1>1, <1>4 DEF IsLastSeqBlock
  <2>4. ASSUME NEW block \in 0 .. c - 1, NEW o \in 0 .. bs - 1, block * bs + s * size + o < length
        PROVE  <<s * n + block, o>> \in EntriesOf(length, n, bs, s)
    <3>1. bs * block < bs * n
      BY <2>3, <2>4, <1>1
    <3>2. block < n
      BY <3>1, TimesMonotone
    <3>3. bs * (s * n + block) + o < length
      BY <2>4, <1>3
    <3> QED BY <3>2, <3>3 DEF EntriesOf
  <2>5. ASSUME NEW e \in EntriesOf(length, n, bs, s)
        PROVE  \E block \in 0 .. c - 1, o \in 0 .. bs - 1 :
                 block * bs + s * size + o < length /\ e = <<s * n + block, o>>
    <3> DEFINE block == e[1] - s * n
    <3>1. e[1] \in Nat /\ e[2] \in 0 .. bs - 1 /\ e = <<e[1], e[2]>>
          /\ s * n <= e[1] /\ bs * e[1] + e[2] < length
      BY DEF EntriesOf
    <3>2. block \in Nat /\ s * n + block = e[1]
      BY <3>1
    <3>3. block * bs + s * size + e[2] < length
      BY <3>1, <3>2, <1>3
    <3>4. bs * block < bs * c
      BY <3>1, <3>2, <3>3, <2>1, <1>1
    <3>5. block < c
      <4> HIDE DEF block, c
      <4> QED BY <3>4, <3>2, <2>1, TimesMonotone
    <3> QED BY <3>1, <3>2, <3>3, <3>5, <2>1
  <2>6. ASSUME NEW e
        PROVE  e \in ProgramEntries(length, size, bs, s)
                 <=> \E block \in 0 .. c - 1, o \in 0 .. bs - 1 :
                       block * bs + s * size + o < length /\ e = <<s * n + block, o>>
    <3> HIDE DEF size, c
    <3>1. e \in ProgramEntries(length, size, bs, s)
            <=> \E block \in 0 .. c - 1 : e \in EntriesScored(length, size, bs, s, block)
      BY <2>2 DEF ProgramEntries
    <3>2. ASSUME NEW block \in 0 .. c - 1
          PROVE  e \in EntriesScored(length, size, bs, s, block)
                   <=> \E o \in 0 .. bs - 1 : block * bs + s * size + o < length /\ e = <<s * n + block, o>>
      BY <1>2, <1>4 DEF EntriesScored
    <3> QED BY <3>1, <3>2
  <2> HIDE DEF c, size
  <2>7. ASSUME NEW e PROVE e \in ProgramEntries(length, size, bs, s) <=> e \in EntriesOf(length, n, bs, s)
    BY <2>4, <2>5, <2>6
  <2> QED BY <2>7 DEF size
<1>5. CASE ~IsLastSeqBlock(length, size, s)
  <2>1. BlocksRead(length, size, bs, s) = 0 .. n - 1
    BY <1>2, <1>5 DEF BlocksRead
  <2>2. bs * (s * n) + bs * n < length
    BY <1>1, <1>5 DEF IsLastSeqBlock
  <2>3. ASSUME NEW block \in 0 .. n - 1, NEW o \in 0 .. bs - 1
        PROVE  <<s * n + block, o>> \in EntriesOf(length, n, bs, s)
    <3>1. bs * block + bs <= bs * n
      BY TimesMonotone
    <3>2. bs * (s * n + block) + o < length
      BY <3>1, <2>2, <1>1, <1>3
    <3> QED BY <3>2 DEF EntriesOf
  <2>4. ASSUME NEW e \in EntriesOf(length, n, bs, s)
        PROVE  \E block \in 0 .. n - 1, o \in 0 .. bs - 1 : e = <<s * n + block, o>>
    <3>1. e[1] - s * n \in 0 .. n - 1 /\ e[2] \in 0 .. bs - 1 /\ e = <<s * n + (e[1] - s * n), e[2]>>
      BY DEF EntriesOf
    <3> QED BY <3>1
  <2>5. ASSUME NEW e
        PROVE  e \in ProgramEntries(length, size, bs, s)
                 <=> \E block \in 0 .. n - 1, o \in 0 .. bs - 1 : e = <<s * n + block, o>>
    <3> HIDE DEF size
    <3>1. e \in ProgramEntries(length, size, bs, s)
            <=> \E block \in 0 .. n - 1 : e \in EntriesScored(length, size, bs, s, block)
      BY <2>1 DEF ProgramEntries
    <3>2. ASSUME NEW block \in 0 .. n - 1
          PROVE  e \in EntriesScored(length, size, bs, s, block)
                   <=> \E o \in 0 .. bs - 1 : e = <<s * n + block, o>>
      BY <1>2, <1>5 DEF EntriesScored
    <3> QED BY <3>1, <3>2
  <2> HIDE DEF size
  <2>6. ASSUME NEW e PROVE e \in ProgramEntries(length, size, bs, s) <=> e \in EntriesOf(length, n, bs, s)
    <3>1. CASE e \in EntriesOf(length, n, bs, s)
      BY <2>4, <2>5, <3>1
    <3>2. CASE e \in ProgramEntries(length, size, bs, s)
      <4>1. PICK block \in 0 .. n - 1, o \in 0 .. bs - 1 : e = <<s * n + block, o>>
        BY <2>5, <3>2
      <4> QED BY <4>1, <2>3, <3>2
    <3> QED BY <3>1, <3>2
  <2> QED BY <2>6 DEF size
<1> QED BY <1>4, <1>5

(* Phase 2 of the paged attention merges the outputs of the sequence blocks  *)
(* that start before the end of the request, and between them these have     *)
(* read the entry of every token of the request and no other.                *)
THEOREM DecodeReadsContext ==
  ASSUME NEW length \in Nat \ {0}, NEW bs \in Nat \ {0}, NEW n \in Nat \ {0}
  PROVE  UNION {ProgramEntries(length, n * bs, bs, s) : s \in SeqBlocksMerged(length, n * bs)}
           = {<<p \div bs, p % bs>> : p \in 0 .. length - 1}
<1> DEFINE size == n * bs
           c    == CeilDiv(length, size)
<1>1. size \in Nat \ {0}
  OBVIOUS
<1>2. c \in Nat /\ length <= size * c /\ size * c < length + size
  BY <1>1, CeilDivBounds
<1> HIDE DEF size, c
<1>3. ASSUME NEW s \in SeqBlocksMerged(length, size)
      PROVE  /\ s \in Nat /\ s * size < length
             /\ ProgramEntries(length, size, bs, s) = EntriesOf(length, n, bs, s)
  <2>1. s \in Nat /\ s < c
    BY <1>2 DEF SeqBlocksMerged, c
  <2>2. size * s + size <= size * c
    BY <1>1, <1>2, <2>1, TimesMonotone
  <2>3. s * size < length
    BY <1>1, <1>2, <2>1, <2>2
  <2> QED BY <2>1, <2>3, ProgramReads DEF size
<1>4. ASSUME NEW s \in SeqBlocksMerged(length, size), NEW e \in EntriesOf(length, n, bs, s)
      PROVE  \E p \in 0 .. length - 1 : e = <<p \div bs, p % bs>>
  <2>1. e[1] \in Nat /\ e[2] \in 0 .. bs - 1 /\ e = <<e[1], e[2]>> /\ bs * e[1] + e[2] < length
    BY DEF EntriesOf
  <2>2. (bs * e[1] + e[2]) \div bs = e[1] /\ (bs * e[1] + e[2]) % bs = e[2]
    BY <2>1, DivUnique
  <2>3. bs * e[1] + e[2] \in 0 .. length - 1
    BY <2>1
  <2> QED BY <2>1, <2>2, <2>3
<1>5. ASSUME NEW p \in 0 .. length - 1
      PROVE  \E s \in SeqBlocksMerged(length, size) : <<p \div bs, p % bs>> \in EntriesOf(length, n, bs, s)
  <2> DEFINE b == p \div bs
             s == b \div n
  <2>1. b \in Nat /\ p % bs \in 0 .. bs - 1 /\ p = bs * b + (p % bs)
    <3>1. p \in Nat
      OBVIOUS
    <3> QED BY <3>1, DivMod
  <2>2. s \in Nat /\ b % n \in 0 .. n - 1 /\ b = n * s + (b % n)
    BY <2>1, DivMod
  <2> HIDE DEF b, s
  <2>3. s * n <= b /\ b < s * n + n
    BY <2>2
  <2>4. bs * (s * n) <= bs * b
    <3>1. s * n < b => bs * (s * n) + bs <= bs * b
      BY <2>1, <2>2, TimesMonotone
    <3>2. s * n = b => bs * (s * n) = bs * b
      OBVIOUS
    <3> QED BY <2>1, <2>2, <2>3, <3>1, <3>2
  <2>5. size * s <= p
    <3>1. size * s = bs * (s * n)
      BY <2>2 DEF size
    <3> QED BY <3>1, <2>1, <2>4, <2>2
  <2>6. size * s < size * c
    BY <2>5, <1>1, <1>2, <2>2
  <2>7. s < c
    BY <2>6, <1>1, <1>2, <2>2, TimesMonotone
  <2>8. s \in SeqBlocksMerged(length, size)
    BY <2>7, <2>2, <1>2 DEF SeqBlocksMerged, c
  <2>9. <<b, p % bs>> \in EntriesOf(length, n, bs, s)
    BY <2>1, <2>3 DEF EntriesOf
  <2> QED BY <2>8, <2>9 DEF b
<1>6. UNION {ProgramEntries(length, size, bs, s) : s \in SeqBlocksMerged(length, size)}
        = UNION {EntriesOf(length, n, bs, s) : s \in SeqBlocksMerged(length, size)}
  BY <1>3
<1>7. UNION {EntriesOf(length, n, bs, s) : s \in SeqBlocksMerged(length, size)}
        = {<<p \div bs, p % bs>> : p \in 0 .. length - 1}
  <2>1. ASSUME NEW s \in SeqBlocksMerged(length, size), NEW e \in EntriesOf(length, n, bs, s)
        PROVE  e \in {<<p \div bs, p % bs>> : p \in 0 .. length - 1}
    BY <1>4
  <2>2. ASSUME NEW p \in 0 .. length - 1
        PROVE  <<p \div bs, p % bs>> \in UNION {EntriesOf(length, n, bs, s) : s \in SeqBlocksMerged(length, size)}
    BY <1>5
  <2> QED BY <2>1, <2>2
<1> QED BY <1>6, <1>7 DEF size

(* No token is weighed twice: two sequence blocks of a request read entries  *)
(* of which none is the same, so that the merged sums count each once.       *)
THEOREM SeqBlocksDisjoint ==
  ASSUME NEW length \in Nat \ {0}, NEW bs \in Nat \ {0}, NEW n \in Nat \ {0},
         NEW s \in Nat, NEW t \in Nat, s < t, t * (n * bs) < length
  PROVE  ProgramEntries(length, n * bs, bs, s) \cap ProgramEntries(length, n * bs, bs, t) = {}
<1>1. n * s + n <= n * t
  BY TimesMonotone
<1>2. s * (n * bs) < length
  <2>1. (n * bs) * s + n * bs <= (n * bs) * t
    BY n * bs \in Nat \ {0}, TimesMonotone
  <2> QED BY <2>1
<1>3. /\ ProgramEntries(length, n * bs, bs, s) = EntriesOf(length, n, bs, s)
      /\ ProgramEntries(length, n * bs, bs, t) = EntriesOf(length, n, bs, t)
  BY <1>2, ProgramReads
<1>4. ASSUME NEW e \in EntriesOf(length, n, bs, s), e \in EntriesOf(length, n, bs, t)
      PROVE  FALSE
  <2>1. e[1] \in Nat /\ e[1] < s * n + n /\ t * n <= e[1]
    BY <1>4 DEF EntriesOf
  <2> QED BY <1>1, <2>1
<1> QED BY <1>3, <1>4

(* Every sequence block phase 2 merges has been computed: a program is       *)
(* launched for it, the grid being sized for the longest request, and does   *)
(* not return early.                                                         *)
THEOREM MergedWereComputed ==
  ASSUME NEW lens \in Seq(Nat), MaxOf(lens) \in Nat, NEW length \in Nat \ {0}, length <= MaxOf(lens),
         NEW size \in Nat \ {0}, NEW s \in SeqBlocksMerged(length, size)
  PROVE  s \in 0 .. NumSeqBlocks(lens, size) - 1 /\ ~SeqBlockReturns(length, size, s)
<1> DEFINE c == CeilDiv(length, size)
           d == CeilDiv(MaxOf(lens), size)
<1>1. /\ c \in Nat /\ length <= size * c /\ size * c < length + size
      /\ d \in Nat /\ MaxOf(lens) <= size * d
  BY CeilDivBounds
<1>2. s \in Nat /\ s < c
  BY <1>1 DEF SeqBlocksMerged
<1> HIDE DEF c, d
<1>3. size * s + size <= size * c
  BY <1>1, <1>2, TimesMonotone
<1>4. size * s < length
  BY <1>1, <1>2, <1>3
<1>5. size * s < size * d
  <2>1. size * s \in Nat /\ size * d \in Nat
    BY <1>1, <1>2
  <2>2. MaxOf(lens) <= size * d
    BY <1>1 DEF d
  <2> QED BY <2>1, <2>2, <1>4
<1>6. s < d
  BY <1>1, <1>2, <1>5, TimesMonotone
<1> QED BY <1>1, <1>2, <1>4, <1>6 DEF d, NumSeqBlocks, SeqBlockReturns

--------------------------------------------------------------------------------
(* The ranks.                                                                 *)

LEMMA Quotient ==
  ASSUME NEW b \in Nat \ {0}, NEW q \in Nat, NEW a, a = b * q
  PROVE  a \div b = q
<1>1. 0 \in 0 .. b - 1 /\ a = b * q + 0
  OBVIOUS
<1> QED BY <1>1, DivUnique

(* What rank rk has if each has k.                                           *)
Share(rk, k) == rk * k .. rk * k + k - 1

(* The n * k things of n ranks, k each: thing x is that of one rank.         *)
LEMMA OneRankHas ==
  ASSUME NEW n \in Nat \ {0}, NEW k \in Nat, NEW x \in 0 .. n * k - 1
  PROVE  \E rk \in 0 .. n - 1 : \A other \in 0 .. n - 1 :
           x \in Share(other, k) <=> other = rk
<1>1. k \in Nat \ {0}
  OBVIOUS
<1> DEFINE rk == x \div k
<1>2. x \in Nat /\ rk \in Nat /\ x % k \in 0 .. k - 1 /\ x = k * rk + (x % k)
  BY <1>1, DivMod
<1>3. rk < n
  <2>1. k * rk < k * n
    BY <1>1, <1>2
  <2> HIDE DEF rk
  <2> QED BY <1>1, <1>2, <2>1, TimesMonotone
<1> HIDE DEF rk
<1>4. ASSUME NEW other \in 0 .. n - 1, x \in Share(other, k)
      PROVE  other = rk
  <2> DEFINE i == x - other * k
  <2>1. i \in 0 .. k - 1 /\ k * other + i = k * rk + (x % k)
    BY <1>1, <1>2, <1>4 DEF Share
  <2> HIDE DEF i
  <2>2. other \in Nat
    OBVIOUS
  <2> QED BY <1>1, <1>2, <2>1, <2>2, Unique
<1>5. x \in Share(rk, k)
  BY <1>1, <1>2 DEF Share
<1>6. \A other \in 0 .. n - 1 : x \in Share(other, k) <=> other = rk
  BY <1>4, <1>5
<1>7. rk \in 0 .. n - 1
  BY <1>2, <1>3
<1> QED BY <1>6, <1>7

(* load_weights: the slices of the split dimension that the ranks read from  *)
(* the file have the size of the tensors they are read into, and every index *)
(* of the dimension is in exactly one of them.                               *)
THEOREM SlicesPartition ==
  ASSUME NEW w, NEW d, w.split = d, d # 0, d \in DOMAIN w.shape, w.shape[d] \in Nat,
         NEW ws \in Nat \ {0}, CanSplit(w, ws)
  PROVE  /\ \A rk \in 0 .. ws - 1 :
              Slice(w, d, rk, ws) = Share(rk, RealShape(w, ws)[d])
         /\ \A x \in 0 .. w.shape[d] - 1 : \E rk \in 0 .. ws - 1 : \A other \in 0 .. ws - 1 :
              x \in Slice(w, d, other, ws) <=> other = rk
<1> DEFINE n == w.shape[d]
           k == n \div ws
<1>1. k \in Nat /\ n = ws * k
  <2>1. n % ws = 0
    BY DEF CanSplit
  <2>2. n \in Nat /\ k \in Nat /\ n = ws * k + (n % ws)
    BY DivMod
  <2> HIDE DEF n, k
  <2> QED BY <2>1, <2>2
<1>2. RealShape(w, ws)[d] = k
  BY DEF RealShape
<1> HIDE DEF n, k
<1>3. ASSUME NEW rk \in 0 .. ws - 1
      PROVE  Slice(w, d, rk, ws) = Share(rk, k)
  <2>1. rk * k \in Nat /\ rk * n = ws * (rk * k)
    BY <1>1
  <2>2. (rk + 1) * k \in Nat /\ (rk + 1) * n = ws * ((rk + 1) * k) /\ (rk + 1) * k = rk * k + k
    BY <1>1
  <2>3. (rk * n) \div ws = rk * k
    BY <2>1, Quotient
  <2>4. ((rk + 1) * n) \div ws = rk * k + k
    BY <2>2, Quotient
  <2>5. Slice(w, d, rk, ws) = (rk * n) \div ws .. ((rk + 1) * n) \div ws - 1
    BY Zenon DEF Slice, n
  <2>6. rk * k \in Nat /\ ((rk + 1) * n) \div ws - 1 = rk * k + k - 1
    <3> DEFINE end == ((rk + 1) * n) \div ws
               start == rk * k
    <3>1. start \in Nat /\ end = start + k
      BY <2>1, <2>4
    <3> HIDE DEF end, start
    <3>2. end - 1 = start + k - 1
      BY <3>1, <1>1
    <3> QED BY <3>1, <3>2, Zenon DEF end, start
  <2>7. (rk * n) \div ws .. ((rk + 1) * n) \div ws - 1 = rk * k .. rk * k + k - 1
    BY <2>3, <2>6, Zenon
  <2> QED BY <2>5, <2>7 DEF Share
<1>4. \A x \in 0 .. n - 1 : \E rk \in 0 .. ws - 1 : \A other \in 0 .. ws - 1 :
        x \in Share(other, k) <=> other = rk
  BY <1>1, OneRankHas
<1>5. \A x \in 0 .. n - 1 : \E rk \in 0 .. ws - 1 : \A other \in 0 .. ws - 1 :
        x \in Slice(w, d, other, ws) <=> other = rk
  BY <1>3, <1>4
<1> QED BY <1>2, <1>3, <1>5 DEF n

(* The embedding kernel masks the tokens of other ranks: every token is      *)
(* embedded by exactly one rank and from its own row of the vocabulary, so   *)
(* that the sum over the ranks is its embedding.                             *)
THEOREM TokenEmbeddedOnce ==
  ASSUME NEW m, NEW ws \in Nat \ {0}, NEW k \in Nat, m.vocab = ws * k, NEW token \in 0 .. m.vocab - 1
  PROVE  /\ \E rk \in 0 .. ws - 1 : \A other \in 0 .. ws - 1 : Embeds(m, token, other, ws) <=> other = rk
         /\ \A rk \in 0 .. ws - 1 : EmbeddedRow(m, token, rk, ws) = token
<1>1. m.vocab \div ws = k
  BY Quotient
<1>2. RealShape(OuterWeights(m).wte, ws)[1] = k
  BY <1>1 DEF RealShape, OuterWeights, Weight
<1>3. ASSUME NEW rk \in 0 .. ws - 1
      PROVE  /\ Embeds(m, token, rk, ws) <=> token \in Share(rk, k)
             /\ EmbeddedRow(m, token, rk, ws) = token
  <2>1. TokenOffs(m, rk, ws) = rk * k
    BY <1>1 DEF TokenOffs
  <2>2. rk * k \in Nat /\ rk * m.vocab = ws * (rk * k)
    OBVIOUS
  <2>3. (rk * m.vocab) \div ws = rk * k
    BY <2>2, Quotient
  <2>4. token \in Int
    OBVIOUS
  <2> QED BY <1>2, <2>1, <2>2, <2>3, <2>4 DEF Embeds, EmbeddedRow, Share
<1>4. token \in 0 .. ws * k - 1
  OBVIOUS
<1>5. PICK rk \in 0 .. ws - 1 : \A other \in 0 .. ws - 1 : token \in Share(other, k) <=> other = rk
  BY <1>4, OneRankHas
<1>6. \A other \in 0 .. ws - 1 : Embeds(m, token, other, ws) <=> other = rk
  BY <1>3, <1>5
<1> QED BY <1>3, <1>6

(* Grouped-query attention: with kv whole kv heads to a rank and g query     *)
(* heads to a kv head, the kv head a query head attends with on its rank is  *)
(* the one of its group in the model.                                        *)
THEOREM GroupsStay ==
  ASSUME NEW ws \in Nat \ {0}, NEW kv \in Nat \ {0}, NEW g \in Nat \ {0}, NEW dim \in Nat \ {0}, NEW m,
         m.headDim = dim, m.kvHeads = ws * kv, m.hidden = dim * ((ws * kv) * g),
         NEW rk \in 0 .. ws - 1, NEW i \in 0 .. NumQ(m, ws) - 1
  PROVE  KvHeadUsed(m, rk, i, ws) = KvHeadMeant(m, rk, i, ws)
<1>1. NumQ(m, ws) = kv * g
  <2>1. m.hidden = ws * (dim * (kv * g)) /\ dim * (kv * g) \in Nat
    OBVIOUS
  <2>2. m.hidden \div ws = dim * (kv * g)
    BY <2>1, Quotient
  <2>3. RealShape(LayerWeights(m).q_proj, ws)[1] = dim * (kv * g)
    BY <2>2 DEF RealShape, LayerWeights, Weight
  <2>4. (dim * (kv * g)) \div dim = kv * g
    BY Quotient, kv * g \in Nat
  <2> QED BY <2>3, <2>4 DEF NumQ
<1>2. NumKv(m, ws) = kv
  <2>1. m.kvHeads * m.headDim = ws * (dim * kv) /\ dim * kv \in Nat
    OBVIOUS
  <2>2. (m.kvHeads * m.headDim) \div ws = dim * kv
    BY <2>1, Quotient
  <2>3. RealShape(LayerWeights(m).k_proj, ws)[1] = dim * kv
    BY <2>2 DEF RealShape, LayerWeights, Weight
  <2>4. (dim * kv) \div dim = kv
    BY Quotient
  <2> QED BY <2>3, <2>4 DEF NumKv
<1>3. (kv * g) \div kv = g
  BY Quotient
<1>4. (m.hidden \div m.headDim) \div m.kvHeads = g
  <2>1. m.hidden \div m.headDim = (ws * kv) * g
    BY Quotient, (ws * kv) * g \in Nat
  <2>2. ((ws * kv) * g) \div (ws * kv) = g
    BY Quotient, ws * kv \in Nat \ {0}
  <2> QED BY <2>1, <2>2
<1>5. i \in Nat /\ i \div g \in Nat /\ i % g \in 0 .. g - 1 /\ i = g * (i \div g) + (i % g)
  <2>1. kv * g \in Nat /\ i \in 0 .. kv * g - 1
    BY <1>1
  <2>2. i \in Nat
    BY <2>1
  <2> QED BY <2>2, DivMod
<1>6. (rk * (kv * g) + i) \div g = rk * kv + (i \div g)
  <2> DEFINE j == i \div g
             r == i % g
  <2>1. j \in Nat /\ r \in 0 .. g - 1 /\ i = g * j + r
    BY <1>5
  <2> HIDE DEF j, r
  <2>2. rk * kv + j \in Nat /\ rk * (kv * g) + i = g * (rk * kv + j) + r
    <3>1. g * (rk * kv + j) = rk * (kv * g) + g * j
      BY <2>1
    <3> QED BY <2>1, <3>1
  <2> DEFINE q == rk * kv + j
  <2> HIDE DEF q
  <2>3. q \in Nat /\ rk * (kv * g) + i = g * q + r
    BY <2>2 DEF q
  <2>4. (g * q + r) \div g = q
    BY <2>1, <2>3, DivUnique
  <2> QED BY <2>3, <2>4 DEF j, q
<1> QED BY <1>1, <1>2, <1>3, <1>4, <1>6 DEF KvHeadUsed, KvHeadMeant

-----------------------------------------------------------------------------
\* The worker's pipeline.  First, numbers and sequences.

(* A set of naturals has a least element.                                    *)
LEMMA LeastNatural ==
  ASSUME NEW T \in SUBSET Nat, T # {}
  PROVE  \E m \in T : \A n \in T : m <= n
<1> DEFINE R == OpToRel(<, Nat)
<1>1. IsWellFoundedOn(R, Nat)
  BY NatLessThanWellFounded
<1>2. R = {ss \in Nat \X Nat : ss[1] < ss[2]}
  BY DEF OpToRel
<1> HIDE DEF R
<1>3. PICK m \in T : \A n \in T : <<n, m>> \notin R
  BY <1>1, WFMin
<1>4. \A n \in T : ~ (n < m)
  BY <1>2, <1>3
<1>5. QED
  BY <1>4

(* A set that has 0 and with every number the next has all up to N.          *)
LEMMA Upward ==
  ASSUME NEW N \in Nat, NEW T, 0 \in T, \A i \in 0 .. N - 1 : i \in T => i + 1 \in T
  PROVE  \A i \in 0 .. N : i \in T
<1> DEFINE U == {i \in 0 .. N : i \notin T}
<1>1. SUFFICES ASSUME U # {}
               PROVE  FALSE
  OBVIOUS
<1>2. PICK m \in U : \A i \in U : m <= i
  <2>1. U \in SUBSET Nat
    OBVIOUS
  <2> HIDE DEF U
  <2>2. QED
    BY <1>1, <2>1, LeastNatural
<1>3. m # 0
  OBVIOUS
<1>4. m - 1 \in 0 .. N - 1 /\ m - 1 \notin U
  BY <1>2, <1>3
<1>5. m - 1 \in T
  BY <1>4
<1>6. m - 1 + 1 \in T
  BY <1>4, <1>5
<1>7. QED
  BY <1>6

\* What the thread makes of the streams st when it launches all of seq.
LaunchedAll(st, seq) == FoldLeft(Step, st, seq)

\* The streams x[i] after i of the N instructions of seq.
StepsOf(st, seq, N, x) ==
    /\ x[0] = st /\ \A i \in 1 .. N : x[i] = Step(x[i - 1], seq[i])
    /\ LaunchedAll(st, seq) = x[N]

(* The thread launches one instruction after the other.                      *)
LEMMA FoldSteps ==
  ASSUME NEW st, NEW seq, NEW N \in Nat, DOMAIN seq = 1 .. N
  PROVE  \E x : StepsOf(st, seq, N, x)
<1> DEFINE P(it, n) == it = [s \in SUBSET (1 .. n) |->
                               IF s = {} THEN st ELSE LET i == Max(s)
                                                      IN Step(it[s \ {i}], seq[i])]
           T == {n \in 0 .. N : \E it : P(it, n)}
           it == CHOOSE g : P(g, N)
<1>1. LaunchedAll(st, seq) = it[1 .. N]
  BY DEF LaunchedAll, FoldLeft, MapThenFoldSet
<1>2. N \in T
  <2>1. 0 \in T
    <3>1. SUBSET (1 .. 0) = {{}}
      OBVIOUS
    <3>2. P([s \in SUBSET (1 .. 0) |-> st], 0)
      BY <3>1
    <3>3. QED
      BY <3>2
  <2>2. ASSUME NEW n \in 0 .. N - 1, n \in T
        PROVE  n + 1 \in T
    <3>1. PICK g : P(g, n)
      BY <2>2
    <3> DEFINE h == [s \in SUBSET (1 .. n + 1) |->
                       IF n + 1 \in s THEN Step(g[s \ {n + 1}], seq[n + 1]) ELSE g[s]]
    <3>2. ASSUME NEW s \in SUBSET (1 .. n + 1), n + 1 \in s
          PROVE  Max(s) = n + 1
      <4>1. \A y \in s : n + 1 >= y
        OBVIOUS
      <4>2. \A z \in s : (\A y \in s : z >= y) => z = n + 1
        BY <3>2
      <4>3. QED
        BY <3>2, <4>1, <4>2 DEF Max
    <3>3. ASSUME NEW s \in SUBSET (1 .. n + 1)
          PROVE  h[s] = IF s = {} THEN st ELSE Step(h[s \ {Max(s)}], seq[Max(s)])
      <4>1. CASE n + 1 \in s
        <5>1. s \ {n + 1} \in SUBSET (1 .. n + 1) /\ n + 1 \notin s \ {n + 1} /\ s # {}
          BY <4>1
        <5>2. h[s] = Step(g[s \ {n + 1}], seq[n + 1]) /\ h[s \ {n + 1}] = g[s \ {n + 1}]
          BY <4>1, <5>1
        <5>3. QED
          BY <3>2, <4>1, <5>1, <5>2
      <4>2. CASE n + 1 \notin s
        <5>1. s \in SUBSET (1 .. n) /\ h[s] = g[s]
          BY <4>2
        <5>2. CASE s = {}
          BY <3>1, <5>1, <5>2
        <5>3. CASE s # {}
          <6>1. PICK m : m = Max(s)
            OBVIOUS
          <6>2. g[s] = Step(g[s \ {m}], seq[m])
            BY <3>1, <5>1, <5>3, <6>1
          <6>3. s \ {m} \in SUBSET (1 .. n + 1) /\ n + 1 \notin s \ {m}
            BY <4>2
          <6>4. h[s \ {m}] = g[s \ {m}]
            BY <6>3
          <6>5. QED
            BY <5>1, <5>3, <6>1, <6>2, <6>4
        <5>4. QED
          BY <5>2, <5>3
      <4>3. QED
        BY <4>1, <4>2
    <3> DEFINE k == [s \in SUBSET (1 .. n + 1) |->
                       IF s = {} THEN st ELSE LET i == Max(s) IN Step(h[s \ {i}], seq[i])]
    <3>4. h = [s \in SUBSET (1 .. n + 1) |-> h[s]] /\ k = [s \in SUBSET (1 .. n + 1) |-> k[s]]
      OBVIOUS
    <3>5. \A s \in SUBSET (1 .. n + 1) : h[s] = k[s]
      BY <3>3
    <3> HIDE DEF h
    <3>6. h = k
      BY <3>4, <3>5
    <3>7. P(h, n + 1)
      BY <3>6
    <3>8. \E f : P(f, n + 1)
      BY <3>7
    <3> HIDE DEF P
    <3>9. QED
      BY <3>8
  <2> HIDE DEF T
  <2>3. \A n \in 0 .. N : n \in T
    BY <2>1, <2>2, Upward
  <2>4. QED
    BY <2>3
<1>3. P(it, N)
  BY <1>2
<1> HIDE DEF it
<1>4. it[{}] = st /\ \A s \in SUBSET (1 .. N) : s # {} => it[s] = Step(it[s \ {Max(s)}], seq[Max(s)])
  BY <1>3
<1> HIDE DEF P
<1> DEFINE x == [i \in 0 .. N |-> it[1 .. i]]
<1>5. x[0] = st
  <2>1. 1 .. 0 = {}
    OBVIOUS
  <2>2. QED
    BY <1>4, <2>1
<1>6. ASSUME NEW i \in 1 .. N
      PROVE  x[i] = Step(x[i - 1], seq[i])
  <2>1. PICK s \in SUBSET (1 .. N) : s = 1 .. i
    OBVIOUS
  <2>2. Max(s) = i
    <3>1. i \in s /\ \A y \in s : i >= y
      BY <2>1
    <3>2. \A z \in s : (\A y \in s : z >= y) => z = i
      BY <2>1, <3>1
    <3>3. QED
      BY <3>1, <3>2 DEF Max
  <2>3. s # {} /\ s \ {i} = 1 .. (i - 1) /\ i - 1 \in 0 .. N
    BY <2>1
  <2>4. it[s] = Step(it[s \ {i}], seq[i])
    BY <1>4, <2>2, <2>3
  <2>5. x[i] = it[1 .. i] /\ x[i - 1] = it[1 .. (i - 1)]
    BY <2>3
  <2>6. QED
    BY <2>1, <2>2, <2>3, <2>4, <2>5
<1>7. x[N] = it[1 .. N]
  OBVIOUS
<1>8. StepsOf(st, seq, N, x)
  BY <1>1, <1>5, <1>6, <1>7 DEF StepsOf
<1>9. QED
  BY <1>8

(* FlattenSeq puts the parts one behind the other.                           *)
LEMMA FlattenSteps ==
  ASSUME NEW N \in Nat \ {0}, NEW parts, DOMAIN parts = 1 .. N, Len(parts) = N
  PROVE  \E x : /\ x[1] = parts[1]
                /\ \A i \in 2 .. N : x[i] = x[i - 1] \o parts[i]
                /\ FlattenSeq(parts) = x[N]
<1> DEFINE P(f, n) == f = [i \in 1 .. n |-> IF i = 1 THEN parts[i] ELSE f[i - 1] \o parts[i]]
           T == {n \in 0 .. N : \E f : P(f, n)}
           x == CHOOSE f : P(f, N)
<1>1. FlattenSeq(parts) = x[N]
  BY DEF FlattenSeq
<1>2. N \in T
  <2>1. 0 \in T
    <3> DEFINE f == [i \in 1 .. 0 |-> IF i = 1 THEN parts[i] ELSE <<>>]
               g == [i \in 1 .. 0 |-> IF i = 1 THEN parts[i] ELSE f[i - 1] \o parts[i]]
    <3>1. f = [i \in 1 .. 0 |-> f[i]] /\ g = [i \in 1 .. 0 |-> g[i]]
      OBVIOUS
    <3>2. \A i \in 1 .. 0 : f[i] = g[i]
      OBVIOUS
    <3> HIDE DEF f
    <3>3. f = g
      BY <3>1, <3>2
    <3>4. P(f, 0)
      BY <3>3
    <3>5. \E e : P(e, 0)
      BY <3>4
    <3> HIDE DEF P
    <3>6. QED
      BY <3>5
  <2>2. ASSUME NEW n \in 0 .. N - 1, n \in T
        PROVE  n + 1 \in T
    <3>1. PICK g : P(g, n)
      BY <2>2
    <3>g. \A i \in 1 .. n : g[i] = IF i = 1 THEN parts[i] ELSE g[i - 1] \o parts[i]
      BY <3>1
    <3> DEFINE h == [i \in 1 .. n + 1 |-> IF i <= n THEN g[i] ELSE
                                          IF i = 1 THEN parts[i] ELSE g[i - 1] \o parts[i]]
               k == [i \in 1 .. n + 1 |-> IF i = 1 THEN parts[i] ELSE h[i - 1] \o parts[i]]
    <3>2. ASSUME NEW i \in 1 .. n + 1
          PROVE  h[i] = k[i]
      <4>1. CASE i <= n
        <5>1. i \in 1 .. n /\ h[i] = g[i] /\ g[i] = IF i = 1 THEN parts[i] ELSE g[i - 1] \o parts[i]
          BY <3>g, <4>1
        <5>2. i # 1 => i - 1 \in 1 .. n /\ h[i - 1] = g[i - 1]
          BY <5>1
        <5>3. QED
          BY <5>1, <5>2
      <4>2. CASE i = n + 1
        <5>1. h[i] = IF i = 1 THEN parts[i] ELSE g[i - 1] \o parts[i]
          BY <4>2
        <5>2. i # 1 => i - 1 \in 1 .. n /\ h[i - 1] = g[i - 1]
          BY <4>2
        <5>3. QED
          BY <5>1, <5>2
      <4>3. QED
        BY <4>1, <4>2
    <3>3. h = [i \in 1 .. n + 1 |-> h[i]] /\ k = [i \in 1 .. n + 1 |-> k[i]]
      OBVIOUS
    <3> HIDE DEF h
    <3>4. h = k
      BY <3>2, <3>3
    <3>5. P(h, n + 1)
      BY <3>4
    <3>6. \E f : P(f, n + 1)
      BY <3>5
    <3> HIDE DEF P
    <3>7. QED
      BY <3>6
  <2> HIDE DEF T
  <2>3. \A n \in 0 .. N : n \in T
    BY <2>1, <2>2, Upward
  <2>4. QED
    BY <2>3
<1>3. P(x, N)
  BY <1>2
<1> HIDE DEF x
<1>4. \A i \in 1 .. N : x[i] = IF i = 1 THEN parts[i] ELSE x[i - 1] \o parts[i]
  BY <1>3
<1>5. x[1] = parts[1]
  BY <1>4
<1>6. ASSUME NEW i \in 2 .. N
      PROVE  x[i] = x[i - 1] \o parts[i]
  <2>1. i \in 1 .. N /\ i # 1
    OBVIOUS
  <2>2. QED
    BY <1>4, <2>1
<1>7. QED
  BY <1>1, <1>5, <1>6

-------------------------------------------------------------------------------
\* The jobs, with the memory and the lengths as arguments.

DefaultKinds == {"embed", "preproj", "store", "attention", "postproj"}
CommKinds    == {"send_qkv", "send_o", "swap"}
Jobs   == [kind : DefaultKinds \union CommKinds \union {"cpu"}, b : {1, 2}, l : 0 .. Layers - 1,
           copies : SUBSET (Cells \X Cells)]
Ops    == Streams \union {"comm_waits", "default_waits", "record", "sync", "cpu", "tolist"}
Instr  == [op : Ops, job : Jobs]

\* Value, from memory m and lengths ln.
Kept(n, ln, m, j, c) == m[c] = <<Owner(n, j, c), ln[Owner(n, j, c)]>>
Worth(n, ln, m, j, c) ==
    LET qkvRight == m[<<"qkv", j.b>>] = <<j.l>>
        batch == n.batches[j.b]
        Appended == <<Owner(n, j, c), ln[Owner(n, j, c)] + 1>>
    IN  CASE j.kind = "embed"   -> <<0>>
          [] j.kind = "preproj" -> If(m[<<"emb", j.b>>] = <<j.l>>, <<j.l>>)
          [] j.kind = "store"   -> If(qkvRight, <<Owner(n, j, c), 1>>)
          [] j.kind = "attention" /\ Len(c) = 2 ->
                 If(qkvRight /\ \A d \in GdecCells(n, j.b, j.l) : Kept(n, ln, m, j, d), <<j.l>>)
          [] j.kind = "attention" /\ Len(c) = 3 -> If(qkvRight /\ Kept(n, ln, m, j, c), Appended)
          [] j.kind = "send_qkv" -> <<j.b>> \o m[<<"qkv", j.b>>]
          [] j.kind = "cpu" /\ Len(c) = 1 ->
                 If(/\ m[<<"qkv_cpu">>] = <<j.b, j.l>>
                    /\ \A d \in CdecCells(n, j.b, j.l) : Kept(n, ln, m, j, d), <<j.b, j.l>>)
          [] j.kind = "cpu" /\ Len(c) = 3 ->
                 If(m[<<"qkv_cpu">>] = <<j.b, j.l>> /\ Kept(n, ln, m, j, c), Appended)
          [] j.kind = "send_o" -> m[<<"out_cpu">>]
          [] j.kind = "postproj" ->
                 If(/\ Prefs(batch) \union batch.gdec # {} => m[<<"o_gpu", j.b>>] = <<j.l>>
                    /\ batch.cdec # {} => m[<<"o_cpu", j.b>>] = <<j.b, j.l>>, <<j.l + 1>>)
          [] OTHER -> m[(CHOOSE p \in j.copies : p[2] = c)[1]]
ApplyTo(n, ln, m, j) ==
    [c \in Cells |-> IF c \in Writes(n, j) THEN Worth(n, ln, m, j, c) ELSE m[c]]

\* Two jobs whose order matters.
Clash(n, j, k) ==
    \/ Writes(n, j) \intersect (Reads(n, k) \union Writes(n, k)) # {}
    \/ Reads(n, j) \intersect Writes(n, k) # {}

(* That is what the model's Perform computes.                                *)
LEMMA PerformApplies ==
  ASSUME NEW n, NEW j
  PROVE  Perform(n, j) <=> mem' = ApplyTo(n, len, mem, j)
<1>1. \A c : Own(n, j, c) <=> Kept(n, len, mem, j, c)
  BY DEF Own, Kept
<1>2. \A c : Value(n, j, c) = Worth(n, len, mem, j, c)
  BY <1>1, Zenon DEF Value, Worth
<1>3. QED
  BY <1>2 DEF Perform, ApplyTo

(* What a job writes depends on what it reads.                               *)
LEMMA ReadsDecide ==
  ASSUME NEW n, NEW ln, NEW m1, NEW m2, NEW j \in Jobs, \A c \in Reads(n, j) : m1[c] = m2[c],
         NEW c \in Writes(n, j)
  PROVE  Worth(n, ln, m1, j, c) = Worth(n, ln, m2, j, c)
<1>1. j.kind \in DefaultKinds \union CommKinds \union {"cpu"}
  BY DEF Jobs
<1>2. CASE j.kind = "embed"
  BY <1>2 DEF Worth
<1>3. CASE j.kind = "preproj"
  <2>1. m1[<<"emb", j.b>>] = m2[<<"emb", j.b>>]
    BY <1>3 DEF Reads
  <2>2. QED
    BY <1>3, <2>1 DEF Worth
<1>4. CASE j.kind = "store"
  <2>1. m1[<<"qkv", j.b>>] = m2[<<"qkv", j.b>>]
    BY <1>4 DEF Reads
  <2>2. QED
    BY <1>4, <2>1 DEF Worth
<1>5. CASE j.kind = "attention"
  <2>1. /\ m1[<<"qkv", j.b>>] = m2[<<"qkv", j.b>>]
        /\ \A d \in GdecCells(n, j.b, j.l) : m1[d] = m2[d]
    BY <1>5 DEF Reads
  <2>2. \A d \in GdecCells(n, j.b, j.l) : Kept(n, ln, m1, j, d) <=> Kept(n, ln, m2, j, d)
    BY <2>1 DEF Kept
  <2>3. (Len(c) = 2 \/ Len(c) = 3) /\ (Len(c) = 3 => c \in GdecCells(n, j.b, j.l))
    <3>1. c = <<"o_gpu", j.b>> \/ \E r \in n.batches[j.b].gdec : c = <<"k_cache", j.l, n.g[r]>>
      BY <1>5 DEF Writes, GdecCells
    <3>2. CASE c = <<"o_gpu", j.b>>
      BY <3>2
    <3>3. CASE \E r \in n.batches[j.b].gdec : c = <<"k_cache", j.l, n.g[r]>>
      BY <3>3 DEF GdecCells
    <3>4. QED
      BY <3>1, <3>2, <3>3
  <2>4. CASE Len(c) = 2
    BY <1>5, <2>1, <2>2, <2>4 DEF Worth
  <2>5. CASE Len(c) = 3
    <3>1. Len(c) # 2
      BY <2>5
    <3>2. Kept(n, ln, m1, j, c) <=> Kept(n, ln, m2, j, c)
      BY <2>2, <2>3, <2>5
    <3>3. QED
      BY <1>5, <2>1, <2>5, <3>1, <3>2 DEF Worth
  <2>6. QED
    BY <2>3, <2>4, <2>5
<1>6. CASE j.kind = "send_qkv"
  <2>1. m1[<<"qkv", j.b>>] = m2[<<"qkv", j.b>>]
    BY <1>6 DEF Reads
  <2>2. QED
    BY <1>6, <2>1 DEF Worth
<1>7. CASE j.kind = "cpu"
  <2>1. /\ m1[<<"qkv_cpu">>] = m2[<<"qkv_cpu">>]
        /\ \A d \in CdecCells(n, j.b, j.l) : m1[d] = m2[d]
    BY <1>7 DEF Reads
  <2>2. \A d \in CdecCells(n, j.b, j.l) : Kept(n, ln, m1, j, d) <=> Kept(n, ln, m2, j, d)
    BY <2>1 DEF Kept
  <2>3. (Len(c) = 1 \/ Len(c) = 3) /\ (Len(c) = 3 => c \in CdecCells(n, j.b, j.l))
    <3>1. c = <<"out_cpu">> \/ \E r \in n.batches[j.b].cdec : c = <<"k_swap", j.l, n.c[r]>>
      BY <1>7 DEF Writes, CdecCells
    <3>2. CASE c = <<"out_cpu">>
      BY <3>2
    <3>3. CASE \E r \in n.batches[j.b].cdec : c = <<"k_swap", j.l, n.c[r]>>
      BY <3>3 DEF CdecCells
    <3>4. QED
      BY <3>1, <3>2, <3>3
  <2>c. (\A d \in CdecCells(n, j.b, j.l) : Kept(n, ln, m1, j, d))
        <=> (\A d \in CdecCells(n, j.b, j.l) : Kept(n, ln, m2, j, d))
    BY <2>2
  <2>4. CASE Len(c) = 1
    <3>1. Worth(n, ln, m1, j, c) =
            If(/\ m1[<<"qkv_cpu">>] = <<j.b, j.l>>
               /\ \A d \in CdecCells(n, j.b, j.l) : Kept(n, ln, m1, j, d), <<j.b, j.l>>)
      BY <1>7, <2>4 DEF Worth
    <3>2. Worth(n, ln, m2, j, c) =
            If(/\ m2[<<"qkv_cpu">>] = <<j.b, j.l>>
               /\ \A d \in CdecCells(n, j.b, j.l) : Kept(n, ln, m2, j, d), <<j.b, j.l>>)
      BY <1>7, <2>4 DEF Worth
    <3>3. QED
      BY <2>1, <2>c, <3>1, <3>2 DEF If
  <2>5. CASE Len(c) = 3
    <3>1. Len(c) # 1
      BY <2>5
    <3>2. Kept(n, ln, m1, j, c) <=> Kept(n, ln, m2, j, c)
      BY <2>2, <2>3, <2>5
    <3>3. QED
      BY <1>7, <2>1, <2>5, <3>1, <3>2 DEF Worth
  <2>6. QED
    BY <2>3, <2>4, <2>5
<1>8. CASE j.kind = "send_o"
  <2>1. m1[<<"out_cpu">>] = m2[<<"out_cpu">>]
    BY <1>8 DEF Reads
  <2>2. QED
    BY <1>8, <2>1 DEF Worth
<1>9. CASE j.kind = "postproj"
  <2>1. m1[<<"o_gpu", j.b>>] = m2[<<"o_gpu", j.b>>] /\ m1[<<"o_cpu", j.b>>] = m2[<<"o_cpu", j.b>>]
    BY <1>9 DEF Reads
  <2>2. QED
    BY <1>9, <2>1 DEF Worth
<1>10. CASE j.kind = "swap"
  <2>1. PICK q \in j.copies : q[2] = c
    BY <1>10 DEF Writes
  <2>2. PICK p : p = CHOOSE u \in j.copies : u[2] = c
    OBVIOUS
  <2>3. p \in j.copies
    BY <2>1, <2>2
  <2>4. m1[p[1]] = m2[p[1]]
    BY <1>10, <2>3 DEF Reads
  <2>5. Worth(n, ln, m1, j, c) = m1[p[1]] /\ Worth(n, ln, m2, j, c) = m2[p[1]]
    BY <1>10, <2>2 DEF Worth
  <2>6. QED
    BY <2>4, <2>5
<1>11. QED
  BY <1>1, <1>2, <1>3, <1>4, <1>5, <1>6, <1>7, <1>8, <1>9, <1>10 DEF DefaultKinds, CommKinds

(* Jobs that do not clash may change places.                                 *)
LEMMA JobsCommute ==
  ASSUME NEW n, NEW ln, NEW m, NEW j \in Jobs, NEW k \in Jobs, ~Clash(n, j, k),
         Reads(n, j) \subseteq Cells, Reads(n, k) \subseteq Cells
  PROVE  ApplyTo(n, ln, ApplyTo(n, ln, m, j), k) = ApplyTo(n, ln, ApplyTo(n, ln, m, k), j)
<1>1. PICK mj : mj = ApplyTo(n, ln, m, j)
  OBVIOUS
<1>2. PICK mk : mk = ApplyTo(n, ln, m, k)
  OBVIOUS
<1>3. /\ \A c \in Cells : mj[c] = IF c \in Writes(n, j) THEN Worth(n, ln, m, j, c) ELSE m[c]
      /\ \A c \in Cells : mk[c] = IF c \in Writes(n, k) THEN Worth(n, ln, m, k, c) ELSE m[c]
  BY <1>1, <1>2 DEF ApplyTo
<1>4. /\ \A c \in Reads(n, j) : mk[c] = m[c]
      /\ \A c \in Reads(n, k) : mj[c] = m[c]
  BY <1>3 DEF Clash
<1>5. /\ \A c \in Writes(n, j) : Worth(n, ln, mk, j, c) = Worth(n, ln, m, j, c)
      /\ \A c \in Writes(n, k) : Worth(n, ln, mj, k, c) = Worth(n, ln, m, k, c)
  BY <1>4, ReadsDecide
<1>6. PICK u : u = ApplyTo(n, ln, mj, k)
  OBVIOUS
<1>7. PICK v : v = ApplyTo(n, ln, mk, j)
  OBVIOUS
<1>8. \A c \in Cells : u[c] = v[c]
  <2> TAKE c \in Cells
  <2>1. u[c] = IF c \in Writes(n, k) THEN Worth(n, ln, mj, k, c) ELSE mj[c]
    BY <1>6 DEF ApplyTo
  <2>2. v[c] = IF c \in Writes(n, j) THEN Worth(n, ln, mk, j, c) ELSE mk[c]
    BY <1>7 DEF ApplyTo
  <2>3. ~ (c \in Writes(n, j) /\ c \in Writes(n, k))
    BY DEF Clash
  <2>4. QED
    BY <1>3, <1>5, <2>1, <2>2, <2>3
<1>9. u = [c \in Cells |-> u[c]] /\ v = [c \in Cells |-> v[c]]
  BY <1>6, <1>7 DEF ApplyTo
<1>10. u = v
  BY <1>8, <1>9
<1>11. QED
  BY <1>1, <1>2, <1>6, <1>7, <1>10

\* The machine that runs the program in its own order, and remembers what the
\* streams and the thread have not waited for: un[s] are the jobs of the other
\* stream launched since s last waited, ur those of the communication stream
\* since the last record, ready says the thread has waited for that record,
\* fresh that a default job was launched since that stream last waited.
Waits(s) == IF s = "comm" THEN "comm_waits" ELSE "default_waits"
Go(n, ln, a, i) ==
    [mem   |-> IF i.op \in Streams \union {"cpu"} THEN ApplyTo(n, ln, a.mem, i.job) ELSE a.mem,
     un    |-> [s \in Streams |-> IF i.op = OtherStream(s) THEN a.un[s] \union {i.job}
                                  ELSE IF i.op = Waits(s) THEN {} ELSE a.un[s]],
     ur    |-> IF i.op = "comm" THEN a.ur \union {i.job} ELSE IF i.op = "record" THEN {} ELSE a.ur,
     ready |-> i.op = "sync" \/ (a.ready /\ i.op # "record"),
     fresh |-> i.op = "default" \/ (a.fresh /\ i.op # "default_waits")]

\* An instruction that may run there and will clash with nothing in flight.
Ok(n, a, i) ==
    /\ i.op \in Streams \union {"cpu"} => Reads(n, i.job) \subseteq Cells
    /\ i.op \in Streams => \A k \in a.un[i.op] : ~Clash(n, i.job, k)
    /\ i.op = "default" => i.job.kind \in DefaultKinds
    /\ i.op = "comm" => i.job.kind \in CommKinds
    /\ i.op = "cpu" => /\ i.job.kind = "cpu" /\ a.ready
                       /\ \A k \in a.ur : ~Clash(n, i.job, k)

\* The machine gets from a to b by prog, and every instruction is Ok.
Safe(n, ln, a, prog, b) ==
    \E t : /\ t[0] = a /\ t[Len(prog)] = b
           /\ \A i \in 1 .. Len(prog) : Ok(n, t[i - 1], prog[i]) /\ t[i] = Go(n, ln, t[i - 1], prog[i])

(* Nothing to do.                                                            *)
LEMMA SafeNone ==
  ASSUME NEW n, NEW ln, NEW a
  PROVE  Safe(n, ln, a, <<>>, a)
<1>1. PICK t : t = [i \in {0} |-> a]
  OBVIOUS
<1>2. t[0] = a /\ Len(<<>>) = 0 /\ 1 .. 0 = {}
  BY <1>1
<1>3. QED
  BY <1>2 DEF Safe

(* One instruction.                                                          *)
LEMMA SafeOne ==
  ASSUME NEW n, NEW ln, NEW a, NEW i \in Instr, Ok(n, a, i)
  PROVE  Safe(n, ln, a, <<i>>, Go(n, ln, a, i))
<1>1. PICK t : t = [k \in {0, 1} |-> IF k = 0 THEN a ELSE Go(n, ln, a, i)]
  OBVIOUS
<1>2. t[0] = a /\ t[1] = Go(n, ln, a, i)
  BY <1>1
<1>3. PICK p : p = <<i>>
  OBVIOUS
<1>4. Len(p) = 1 /\ p[1] = i
  BY <1>3
<1>5. \A k \in 1 .. 1 : k = 1 /\ k - 1 = 0
  OBVIOUS
<1>6. \A k \in 1 .. Len(p) : Ok(n, t[k - 1], p[k]) /\ t[k] = Go(n, ln, t[k - 1], p[k])
  BY <1>2, <1>4, <1>5
<1>7. Safe(n, ln, a, p, Go(n, ln, a, i))
  BY <1>2, <1>4, <1>6 DEF Safe
<1>8. QED
  BY <1>3, <1>7

(* One program after the other.                                              *)
LEMMA SafeThen ==
  ASSUME NEW n, NEW ln, NEW a, NEW b, NEW c, NEW p \in Seq(Instr), NEW q \in Seq(Instr),
         Safe(n, ln, a, p, b), Safe(n, ln, b, q, c)
  PROVE  Safe(n, ln, a, p \o q, c)
<1>1. PICK t1 : /\ t1[0] = a /\ t1[Len(p)] = b
                /\ \A i \in 1 .. Len(p) : Ok(n, t1[i - 1], p[i]) /\ t1[i] = Go(n, ln, t1[i - 1], p[i])
  BY DEF Safe
<1>2. PICK t2 : /\ t2[0] = b /\ t2[Len(q)] = c
                /\ \A i \in 1 .. Len(q) : Ok(n, t2[i - 1], q[i]) /\ t2[i] = Go(n, ln, t2[i - 1], q[i])
  BY DEF Safe
<1>3. PICK k \in Nat : k = Len(p)
  OBVIOUS
<1>4. PICK l \in Nat : l = Len(q)
  OBVIOUS
<1>5. PICK w : w = p \o q
  OBVIOUS
<1>6. /\ Len(w) = k + l
      /\ \A i \in 1 .. k : w[i] = p[i]
      /\ \A i \in 1 .. k + l : i > k => w[i] = q[i - k]
  BY <1>3, <1>4, <1>5
<1>7. PICK t : t = [i \in 0 .. k + l |-> IF i <= k THEN t1[i] ELSE t2[i - k]]
  OBVIOUS
<1>8. \A i \in 0 .. k : t[i] = t1[i]
  BY <1>7
<1>9. \A i \in k .. k + l : t[i] = t2[i - k]
  <2> TAKE i \in k .. k + l
  <2>1. CASE i = k
    BY <1>1, <1>2, <1>3, <1>8, <2>1
  <2>2. CASE i # k
    BY <1>7, <2>2
  <2>3. QED
    BY <2>1, <2>2
<1>10. t[0] = a /\ t[k + l] = c
  BY <1>1, <1>2, <1>4, <1>8, <1>9
<1>11. ASSUME NEW i \in 1 .. k + l
       PROVE  Ok(n, t[i - 1], w[i]) /\ t[i] = Go(n, ln, t[i - 1], w[i])
  <2>1. CASE i <= k
    <3>1. i \in 1 .. k /\ i \in 0 .. k /\ i - 1 \in 0 .. k
      BY <2>1
    <3>2. t[i] = t1[i] /\ t[i - 1] = t1[i - 1] /\ w[i] = p[i]
      BY <1>6, <1>8, <3>1
    <3>3. Ok(n, t1[i - 1], p[i]) /\ t1[i] = Go(n, ln, t1[i - 1], p[i])
      BY <1>1, <1>3, <3>1
    <3>4. QED
      BY <3>2, <3>3
  <2>2. CASE i > k
    <3>1. i \in k .. k + l /\ i - 1 \in k .. k + l
      BY <2>2
    <3>2. PICK e \in 1 .. l : e = i - k
      BY <2>2
    <3>3. t[i] = t2[e] /\ t[i - 1] = t2[e - 1] /\ w[i] = q[e]
      <4>1. i - 1 - k = e - 1
        BY <3>2
      <4>2. QED
        BY <1>6, <1>9, <2>2, <3>1, <3>2, <4>1
    <3>4. Ok(n, t2[e - 1], q[e]) /\ t2[e] = Go(n, ln, t2[e - 1], q[e])
      BY <1>2, <1>4
    <3>5. QED
      BY <3>3, <3>4
  <2>3. QED
    BY <2>1, <2>2
<1>12. Safe(n, ln, a, w, c)
  BY <1>6, <1>10, <1>11 DEF Safe
<1>13. QED
  BY <1>5, <1>12

(* The first instruction is Ok, and what is left is safe from there.         *)
LEMMA SafeFirst ==
  ASSUME NEW n, NEW ln, NEW a, NEW b, NEW p \in Seq(Instr), Safe(n, ln, a, p, b), p # <<>>
  PROVE  Ok(n, a, p[1]) /\ Safe(n, ln, Go(n, ln, a, p[1]), Tail(p), b)
<1>1. PICK t : /\ t[0] = a /\ t[Len(p)] = b
               /\ \A i \in 1 .. Len(p) : Ok(n, t[i - 1], p[i]) /\ t[i] = Go(n, ln, t[i - 1], p[i])
  BY DEF Safe
<1>2. PICK k \in Nat : k = Len(p) /\ k >= 1
  OBVIOUS
<1>3. 1 \in 1 .. Len(p) /\ 1 - 1 = 0
  BY <1>2
<1>4. Ok(n, a, p[1]) /\ t[1] = Go(n, ln, a, p[1])
  BY <1>1, <1>3
<1>5. PICK q : q = Tail(p)
  OBVIOUS
<1>6. Len(q) = k - 1 /\ \A i \in 1 .. k - 1 : q[i] = p[i + 1]
  BY <1>2, <1>5
<1>7. PICK u : u = [i \in 0 .. k - 1 |-> t[i + 1]]
  OBVIOUS
<1>8. u[0] = Go(n, ln, a, p[1]) /\ u[k - 1] = b
  <2>1. 0 \in 0 .. k - 1 /\ k - 1 \in 0 .. k - 1 /\ 0 + 1 = 1 /\ k - 1 + 1 = k
    BY <1>2
  <2>2. QED
    BY <1>1, <1>2, <1>4, <1>7, <2>1
<1>9. \A i \in 1 .. k - 1 : Ok(n, u[i - 1], q[i]) /\ u[i] = Go(n, ln, u[i - 1], q[i])
  <2> TAKE i \in 1 .. k - 1
  <2>1. PICK e \in 1 .. k : e = i + 1
    OBVIOUS
  <2>2. Ok(n, t[e - 1], p[e]) /\ t[e] = Go(n, ln, t[e - 1], p[e])
    BY <1>1, <1>2
  <2>3. i \in 0 .. k - 1 /\ i - 1 \in 0 .. k - 1 /\ i - 1 + 1 = e - 1
    BY <2>1
  <2>4. u[i] = t[e] /\ u[i - 1] = t[e - 1] /\ q[i] = p[e]
    BY <1>6, <1>7, <2>1, <2>3
  <2>5. QED
    BY <2>2, <2>4
<1>10. Safe(n, ln, Go(n, ln, a, p[1]), q, b)
  BY <1>6, <1>8, <1>9 DEF Safe
<1>11. QED
  BY <1>4, <1>5, <1>10

(* The computation on the CPU touches nothing the GPU's kernels do.          *)
LEMMA CpuApart ==
  ASSUME NEW n, NEW j \in Jobs, j.kind = "cpu", NEW k \in Jobs, k.kind \in DefaultKinds
  PROVE  ~Clash(n, j, k) /\ ~Clash(n, k, j)
<1>1. \A c \in Reads(n, j) \union Writes(n, j) : c[1] \in {"qkv_cpu", "out_cpu", "k_swap"}
  BY DEF Reads, Writes, CdecCells
<1>2. \A c \in Reads(n, k) \union Writes(n, k) : c[1] \in {"emb", "qkv", "o_gpu", "o_cpu", "k_cache"}
  BY DEF Reads, Writes, GdecCells, PrefCell, DefaultKinds
<1>3. QED
  BY <1>1, <1>2 DEF Clash

-------------------------------------------------------------------------------
\* What is in flight, in the order of the program.

Entries == [who : Streams, job : Jobs, no : Nat, after : Nat]
Streaming == [queue : [Streams -> Seq([job : Jobs, after : Nat])],
              done  : [Streams -> Nat], fence : [Streams -> Nat], event : Nat]
KindsOn(s) == IF s = "comm" THEN CommKinds ELSE DefaultKinds

\* Running the entries of p one after the other takes memory m to m2.
Reaches(n, ln, m, p, m2) ==
    \E t : /\ t[0] = m /\ t[Len(p)] = m2
           /\ \A k \in 1 .. Len(p) : t[k] = ApplyTo(n, ln, t[k - 1], p[k].job)

\* Entry e of the streams x, with the machine at a.
InFlight(n, x, a, e) ==
    /\ e.no \in x.done[e.who] + 1 .. x.done[e.who] + Len(x.queue[e.who])
    /\ x.queue[e.who][e.no - x.done[e.who]] = [job |-> e.job, after |-> e.after]
    /\ Reads(n, e.job) \subseteq Cells
    /\ e.job.kind \in KindsOn(e.who)
    /\ e.no > x.fence[OtherStream(e.who)] => e.job \in a.un[OtherStream(e.who)]
    /\ e.who = "comm" /\ e.no > x.event => e.job \in a.ur

\* e, which the program launched before f, is in order with it.
InOrder(n, e, f) ==
    IF e.who = f.who THEN e.no < f.no ELSE e.no <= f.after \/ ~Clash(n, f.job, e.job)

\* p lists the jobs of the streams x in the order they were launched; clashing
\* ones wait for each other, and after them memory m is that of the machine a.
Pending(n, ln, x, m, p, a) ==
    /\ p \in Seq(Entries)
    /\ \A k \in DOMAIN p : InFlight(n, x, a, p[k])
    /\ \A s \in Streams : \A i \in 1 .. Len(x.queue[s]) :
         \E k \in DOMAIN p : p[k].who = s /\ p[k].no = x.done[s] + i
    /\ \A i, k \in DOMAIN p : i < k => InOrder(n, p[i], p[k])
    /\ Reaches(n, ln, m, p, a.mem)
    /\ a.ready => x.done["comm"] >= x.event
    /\ a.fresh => \/ x.done["comm"] >= x.fence["default"]
                  \/ \E k \in DOMAIN p : p[k].who = "default" /\ p[k].after = x.fence["default"]

(* Clashing goes both ways.                                                  *)
LEMMA ClashBack ==
  ASSUME NEW n, NEW j, NEW k
  PROVE  Clash(n, j, k) <=> Clash(n, k, j)
BY DEF Clash

(* A job that clashes with none of those before it may run first.            *)
LEMMA Sooner ==
  ASSUME NEW n, NEW ln, NEW m, NEW m2, NEW p \in Seq(Entries), Reaches(n, ln, m, p, m2),
         NEW k \in 1 .. Len(p), \A i \in 1 .. k : Reads(n, p[i].job) \subseteq Cells,
         \A i \in 1 .. k - 1 : ~Clash(n, p[k].job, p[i].job),
         NEW q \in Seq(Entries), Len(q) = Len(p) - 1,
         \A i \in 1 .. Len(p) - 1 : q[i] = IF i < k THEN p[i] ELSE p[i + 1]
  PROVE  Reaches(n, ln, ApplyTo(n, ln, m, p[k].job), q, m2)
<1>1. PICK t : /\ t[0] = m /\ t[Len(p)] = m2
               /\ \A i \in 1 .. Len(p) : t[i] = ApplyTo(n, ln, t[i - 1], p[i].job)
  BY DEF Reaches
<1>2. PICK N \in Nat : N = Len(p) /\ k \in 1 .. N
  OBVIOUS
<1>3. PICK j \in Jobs : j = p[k].job
  <2>1. p[k] \in Entries
    OBVIOUS
  <2>2. QED
    BY <2>1 DEF Entries
<1>4. PICK u : u = [i \in 0 .. N - 1 |-> IF i < k THEN ApplyTo(n, ln, t[i], j) ELSE t[i + 1]]
  OBVIOUS
<1>5. t[k] = ApplyTo(n, ln, t[k - 1], j)
  BY <1>1, <1>2, <1>3
<1>6. u[0] = ApplyTo(n, ln, m, j)
  BY <1>1, <1>2, <1>4
<1>7. u[N - 1] = m2
  <2>1. CASE N - 1 < k
    <3>1. N = k
      BY <1>2, <2>1
    <3>2. QED
      BY <1>1, <1>2, <1>4, <1>5, <3>1
  <2>2. CASE ~ (N - 1 < k)
    BY <1>1, <1>2, <1>4, <2>2
  <2>3. QED
    BY <2>1, <2>2
<1>8. ASSUME NEW i \in 1 .. N - 1
      PROVE  u[i] = ApplyTo(n, ln, u[i - 1], q[i].job)
  <2>1. CASE i < k
    <3>1. p[i] \in Entries /\ q[i] = p[i]
      BY <1>2, <2>1
    <3>2. PICK e \in Jobs : e = p[i].job
      BY <3>1 DEF Entries
    <3>3. ~Clash(n, j, e) /\ Reads(n, j) \subseteq Cells /\ Reads(n, e) \subseteq Cells
      BY <1>3, <2>1, <3>2
    <3>4. t[i] = ApplyTo(n, ln, t[i - 1], e)
      BY <1>1, <1>2, <3>2
    <3>5. u[i] = ApplyTo(n, ln, t[i], j) /\ u[i - 1] = ApplyTo(n, ln, t[i - 1], j)
      <4>1. i \in 0 .. N - 1 /\ i - 1 \in 0 .. N - 1 /\ i - 1 < k
        BY <2>1
      <4>2. QED
        BY <1>4, <2>1, <4>1
    <3>6. ApplyTo(n, ln, ApplyTo(n, ln, t[i - 1], j), e) = ApplyTo(n, ln, ApplyTo(n, ln, t[i - 1], e), j)
      BY <3>3, JobsCommute
    <3>7. QED
      BY <3>1, <3>2, <3>4, <3>5, <3>6
  <2>2. CASE i >= k
    <3>1. q[i] = p[i + 1] /\ i + 1 \in 1 .. N /\ i + 1 - 1 = i
      BY <1>2, <2>2
    <3>2. t[i + 1] = ApplyTo(n, ln, t[i], p[i + 1].job)
      BY <1>1, <1>2, <3>1
    <3>3. u[i] = t[i + 1]
      BY <1>4, <2>2
    <3>4. u[i - 1] = t[i]
      <4>1. CASE i = k
        <5>1. i - 1 \in 0 .. N - 1 /\ i - 1 < k /\ i - 1 = k - 1
          BY <4>1
        <5>2. u[i - 1] = ApplyTo(n, ln, t[k - 1], j)
          BY <1>4, <5>1
        <5>3. QED
          BY <1>5, <4>1, <5>2
      <4>2. CASE i # k
        <5>1. i - 1 \in 0 .. N - 1 /\ ~ (i - 1 < k) /\ i - 1 + 1 = i
          BY <2>2, <4>2
        <5>2. QED
          BY <1>4, <5>1
      <4>3. QED
        BY <4>1, <4>2
    <3>5. QED
      BY <3>1, <3>2, <3>3, <3>4
  <2>3. QED
    BY <2>1, <2>2
<1>9. Len(q) = N - 1
  BY <1>2
<1>10. Reaches(n, ln, ApplyTo(n, ln, m, j), q, m2)
  BY <1>6, <1>7, <1>8, <1>9 DEF Reaches
<1>11. QED
  BY <1>3, <1>10

(* A job that clashes with nothing pending may run now.                      *)
LEMMA Beside ==
  ASSUME NEW n, NEW ln, NEW m, NEW m2, NEW p \in Seq(Entries), Reaches(n, ln, m, p, m2),
         NEW j \in Jobs, Reads(n, j) \subseteq Cells,
         \A i \in 1 .. Len(p) : Reads(n, p[i].job) \subseteq Cells /\ ~Clash(n, j, p[i].job)
  PROVE  Reaches(n, ln, ApplyTo(n, ln, m, j), p, ApplyTo(n, ln, m2, j))
<1>1. PICK t : /\ t[0] = m /\ t[Len(p)] = m2
               /\ \A i \in 1 .. Len(p) : t[i] = ApplyTo(n, ln, t[i - 1], p[i].job)
  BY DEF Reaches
<1>2. PICK N \in Nat : N = Len(p)
  OBVIOUS
<1>3. PICK u : u = [i \in 0 .. N |-> ApplyTo(n, ln, t[i], j)]
  OBVIOUS
<1>4. u[0] = ApplyTo(n, ln, m, j) /\ u[N] = ApplyTo(n, ln, m2, j)
  BY <1>1, <1>2, <1>3
<1>5. ASSUME NEW i \in 1 .. N
      PROVE  u[i] = ApplyTo(n, ln, u[i - 1], p[i].job)
  <2>1. p[i] \in Entries
    BY <1>2
  <2>2. PICK e \in Jobs : e = p[i].job
    BY <2>1 DEF Entries
  <2>3. t[i] = ApplyTo(n, ln, t[i - 1], e)
    BY <1>1, <1>2, <2>2
  <2>4. u[i] = ApplyTo(n, ln, t[i], j) /\ u[i - 1] = ApplyTo(n, ln, t[i - 1], j)
    BY <1>3
  <2>5. ~Clash(n, j, e) /\ Reads(n, e) \subseteq Cells
    BY <1>2, <2>2
  <2>6. ApplyTo(n, ln, ApplyTo(n, ln, t[i - 1], j), e) = ApplyTo(n, ln, ApplyTo(n, ln, t[i - 1], e), j)
    BY <2>5, JobsCommute
  <2>7. QED
    BY <2>2, <2>3, <2>4, <2>6
<1>6. QED
  BY <1>2, <1>4, <1>5 DEF Reaches

(* A job launched last runs last.                                            *)
LEMMA Later ==
  ASSUME NEW n, NEW ln, NEW m, NEW m2, NEW p \in Seq(Entries), Reaches(n, ln, m, p, m2),
         NEW e \in Entries
  PROVE  Reaches(n, ln, m, Append(p, e), ApplyTo(n, ln, m2, e.job))
<1>1. PICK t : /\ t[0] = m /\ t[Len(p)] = m2
               /\ \A i \in 1 .. Len(p) : t[i] = ApplyTo(n, ln, t[i - 1], p[i].job)
  BY DEF Reaches
<1>2. PICK N \in Nat : N = Len(p)
  OBVIOUS
<1>3. PICK q : q = Append(p, e)
  OBVIOUS
<1>4. Len(q) = N + 1 /\ q[N + 1] = e /\ \A i \in 1 .. N : q[i] = p[i]
  BY <1>2, <1>3
<1>5. PICK u : u = [i \in 0 .. N + 1 |-> IF i <= N THEN t[i] ELSE ApplyTo(n, ln, m2, e.job)]
  OBVIOUS
<1>6. u[0] = m /\ u[N] = m2 /\ u[N + 1] = ApplyTo(n, ln, m2, e.job) /\ \A i \in 0 .. N : u[i] = t[i]
  BY <1>1, <1>2, <1>5
<1>7. ASSUME NEW i \in 1 .. N + 1
      PROVE  u[i] = ApplyTo(n, ln, u[i - 1], q[i].job)
  <2>1. CASE i = N + 1
    <3>1. i - 1 = N
      BY <2>1
    <3>2. QED
      BY <1>4, <1>6, <2>1, <3>1
  <2>2. CASE i # N + 1
    <3>1. i \in 1 .. N /\ i \in 0 .. N /\ i - 1 \in 0 .. N
      BY <2>2
    <3>2. t[i] = ApplyTo(n, ln, t[i - 1], p[i].job)
      BY <1>1, <1>2, <3>1
    <3>3. QED
      BY <1>4, <1>6, <3>1, <3>2
  <2>3. QED
    BY <2>1, <2>2
<1>8. Reaches(n, ln, m, q, ApplyTo(n, ln, m2, e.job))
  BY <1>4, <1>6, <1>7 DEF Reaches
<1>9. QED
  BY <1>3, <1>8

-------------------------------------------------------------------------------
\* The steps, one instruction and one job at a time.

(* A job joins its stream's queue behind what its stream has waited for.     *)
LEMMA LaunchJob ==
  ASSUME NEW n, NEW ln, NEW m, NEW x \in Streaming, NEW p, NEW a, Pending(n, ln, x, m, p, a),
         NEW i \in Instr, i.op \in Streams, Ok(n, a, i)
  PROVE  /\ Step(x, i) \in Streaming
         /\ \E q : Pending(n, ln, Step(x, i), m, q, Go(n, ln, a, i))
<1>1. PICK s \in Streams : s = i.op
  OBVIOUS
<1>2. PICK o \in Streams : o = OtherStream(s) /\ o # s /\ OtherStream(o) = s
  BY DEF Streams, OtherStream
<1>3. \A r \in Streams : r = s \/ r = o
  BY <1>2 DEF Streams, OtherStream
<1>4. PICK j \in Jobs : j = i.job
  BY DEF Instr
<1>5. PICK y : y = Step(x, i)
  OBVIOUS
<1>w. PICK w \in Seq([job : Jobs, after : Nat]) : w = x.queue[s]
  BY DEF Streaming
<1>6. y = [x EXCEPT !.queue[s] = Append(x.queue[s], [job |-> j, after |-> x.fence[s]])]
  <2>1. Step(x, i) = [x EXCEPT !.queue[i.op] = Append(@, [job |-> i.job, after |-> x.fence[i.op]])]
    BY DEF Step, Streams
  <2>2. QED
    BY <1>1, <1>4, <1>5, <2>1
<1>7. PICK L \in Nat : L = Len(x.queue[s])
  BY DEF Streaming
<1>8. PICK D \in Nat : D = x.done[s]
  BY DEF Streaming
<1>9. PICK F \in Nat : F = x.fence[s]
  BY DEF Streaming
<1>10. /\ y \in Streaming
       /\ y.done = x.done /\ y.fence = x.fence /\ y.event = x.event
       /\ y.queue[o] = x.queue[o]
       /\ y.queue[s] = Append(x.queue[s], [job |-> j, after |-> F])
  <2>0. PICK t \in [job : Jobs, after : Nat] : t = [job |-> j, after |-> F]
    OBVIOUS
  <2>1. PICK v \in Seq([job : Jobs, after : Nat]) : v = Append(w, [job |-> j, after |-> F])
    <3>1. Append(w, t) \in Seq([job : Jobs, after : Nat])
      OBVIOUS
    <3>2. QED
      BY <2>0, <3>1
  <2>2. y = [x EXCEPT !.queue[s] = v]
    BY <1>6, <1>9, <1>w, <2>1
  <2>3. y = [queue |-> [x.queue EXCEPT ![s] = v], done |-> x.done, fence |-> x.fence, event |-> x.event]
    BY <2>2 DEF Streaming
  <2>4. x.queue \in [Streams -> Seq([job : Jobs, after : Nat])]
    BY DEF Streaming
  <2>5. PICK u : u = [x.queue EXCEPT ![s] = v]
    OBVIOUS
  <2>6. u \in [Streams -> Seq([job : Jobs, after : Nat])] /\ u[o] = x.queue[o] /\ u[s] = v
    BY <1>2, <2>1, <2>4, <2>5
  <2>7. y = [queue |-> u, done |-> x.done, fence |-> x.fence, event |-> x.event]
    BY <2>3, <2>5
  <2>8. y \in Streaming
    BY <2>6, <2>7 DEF Streaming
  <2>9. QED
    BY <1>w, <2>1, <2>6, <2>7, <2>8
<1>11. /\ Len(y.queue[s]) = L + 1
       /\ y.queue[s][L + 1] = [job |-> j, after |-> F]
       /\ \A k \in 1 .. L : y.queue[s][k] = x.queue[s][k]
  <2>2. PICK v \in [job : Jobs, after : Nat] : v = [job |-> j, after |-> F]
    OBVIOUS
  <2>3. Len(Append(w, v)) = Len(w) + 1 /\ Append(w, v)[Len(w) + 1] = v
        /\ \A k \in 1 .. Len(w) : Append(w, v)[k] = w[k]
    OBVIOUS
  <2>4. QED
    BY <1>7, <1>10, <1>w, <2>2, <2>3
<1>12. PICK e : e = [who |-> s, job |-> j, no |-> D + L + 1, after |-> F]
  OBVIOUS
<1>13. /\ e \in Entries /\ e.who = s /\ e.job = j /\ e.no = D + L + 1 /\ e.after = F
  BY <1>12 DEF Entries
<1>14. PICK b : b = Go(n, ln, a, i)
  OBVIOUS
<1>15. /\ b.mem = ApplyTo(n, ln, a.mem, j)
       /\ b.un[o] = a.un[o] \union {j} /\ b.un[s] = a.un[s]
       /\ b.ur = IF s = "comm" THEN a.ur \union {j} ELSE a.ur
       /\ (b.ready <=> a.ready)
       /\ (b.fresh <=> (s = "default" \/ a.fresh))
  <2>1. i.op = s /\ i.job = j
    BY <1>1, <1>4
  <2>2. /\ s # Waits(s) /\ s # Waits(o) /\ s # OtherStream(s) /\ s = OtherStream(o)
        /\ s # "record" /\ s # "sync" /\ s # "default_waits"
    BY <1>2 DEF Streams, OtherStream, Waits
  <2>3. b.mem = ApplyTo(n, ln, a.mem, j)
    BY <1>14, <2>1 DEF Go
  <2>4. b.un[o] = a.un[o] \union {j} /\ b.un[s] = a.un[s]
    BY <1>14, <2>1, <2>2 DEF Go
  <2>5. b.ur = IF s = "comm" THEN a.ur \union {j} ELSE a.ur
    BY <1>14, <2>1, <2>2 DEF Go
  <2>6. (b.ready <=> a.ready) /\ (b.fresh <=> (s = "default" \/ a.fresh))
    BY <1>14, <2>1, <2>2 DEF Go
  <2>7. QED
    BY <2>3, <2>4, <2>5, <2>6
<1>16. /\ Reads(n, j) \subseteq Cells /\ j.kind \in KindsOn(s)
       /\ \A k \in a.un[s] : ~Clash(n, j, k)
  BY <1>1, <1>4 DEF Ok, KindsOn, Streams
<1>17. PICK q : q = Append(p, e)
  OBVIOUS
<1>18. p \in Seq(Entries)
  BY DEF Pending
<1>19. PICK N \in Nat : N = Len(p)
  BY <1>18
<1>20. /\ q \in Seq(Entries) /\ DOMAIN q = 1 .. N + 1 /\ q[N + 1] = e
       /\ DOMAIN p = 1 .. N /\ \A k \in 1 .. N : q[k] = p[k]
  BY <1>13, <1>17, <1>18, <1>19
<1>21. ASSUME NEW k \in DOMAIN q
       PROVE  InFlight(n, y, b, q[k])
  <2>1. CASE k = N + 1
    <3>1. e.no \in y.done[s] + 1 .. y.done[s] + Len(y.queue[s])
      BY <1>8, <1>10, <1>11, <1>13
    <3>2. y.queue[s][e.no - y.done[s]] = [job |-> e.job, after |-> e.after]
      <4>1. e.no - y.done[s] = L + 1
        BY <1>8, <1>10, <1>13
      <4>2. QED
        BY <1>11, <1>13, <4>1
    <3>3. e.job \in b.un[o] /\ (s = "comm" => e.job \in b.ur)
      BY <1>13, <1>15
    <3>4. InFlight(n, y, b, e)
      BY <1>2, <1>13, <1>16, <3>1, <3>2, <3>3 DEF InFlight
    <3>5. QED
      BY <1>20, <2>1, <3>4
  <2>2. CASE k # N + 1
    <3>1. k \in 1 .. N
      BY <1>20, <2>2
    <3>2. PICK f \in Entries : f = p[k]
      BY <1>18, <1>20, <3>1
    <3>3. InFlight(n, x, a, f)
      BY <1>20, <3>1, <3>2 DEF Pending
    <3>4. f.who \in Streams /\ f.no \in Nat
      BY <3>2 DEF Entries
    <3>5. y.queue[f.who][f.no - y.done[f.who]] = [job |-> f.job, after |-> f.after]
          /\ f.no \in y.done[f.who] + 1 .. y.done[f.who] + Len(y.queue[f.who])
      <4>1. CASE f.who = s
        <5>1. f.no \in D + 1 .. D + L /\ x.queue[s][f.no - D] = [job |-> f.job, after |-> f.after]
          BY <1>7, <1>8, <3>3, <4>1 DEF InFlight
        <5>2. f.no - D \in 1 .. L
          BY <5>1
        <5>3. y.queue[s][f.no - D] = [job |-> f.job, after |-> f.after]
          BY <1>11, <5>1, <5>2
        <5>4. f.no \in D + 1 .. D + (L + 1)
          BY <5>1
        <5>5. QED
          BY <1>8, <1>10, <1>11, <4>1, <5>3, <5>4
      <4>2. CASE f.who = o
        BY <1>10, <3>3, <4>2 DEF InFlight
      <4>3. QED
        BY <1>3, <3>4, <4>1, <4>2
    <3>6. /\ f.no > y.fence[OtherStream(f.who)] => f.job \in b.un[OtherStream(f.who)]
          /\ f.who = "comm" /\ f.no > y.event => f.job \in b.ur
      <4>1. f.job \in a.un[OtherStream(f.who)] => f.job \in b.un[OtherStream(f.who)]
        BY <1>2, <1>3, <1>15, <3>4
      <4>2. a.ur \subseteq b.ur
        BY <1>15
      <4>3. QED
        BY <1>10, <3>3, <4>1, <4>2 DEF InFlight
    <3>7. InFlight(n, y, b, f)
      BY <3>3, <3>5, <3>6 DEF InFlight
    <3>8. QED
      BY <1>20, <3>1, <3>2, <3>7
  <2>3. QED
    BY <2>1, <2>2
<1>22. ASSUME NEW r \in Streams, NEW k \in 1 .. Len(y.queue[r])
       PROVE  \E z \in DOMAIN q : q[z].who = r /\ q[z].no = y.done[r] + k
  <2>1. CASE r = s /\ k = L + 1
    <3>1. N + 1 \in DOMAIN q /\ e.who = r /\ e.no = y.done[r] + k
      <4>0. D + (L + 1) = D + L + 1
        OBVIOUS
      <4>1. e.no = D + (L + 1) /\ y.done[r] = D
        BY <1>8, <1>10, <1>13, <2>1, <4>0
      <4>2. QED
        BY <1>13, <1>20, <2>1, <4>1
    <3>2. QED
      BY <1>20, <3>1
  <2>2. CASE ~ (r = s /\ k = L + 1)
    <3>1. k \in 1 .. Len(x.queue[r])
      <4>1. CASE r = s
        BY <1>7, <1>11, <2>2, <4>1
      <4>2. CASE r = o
        BY <1>10, <4>2
      <4>3. QED
        BY <1>3, <4>1, <4>2
    <3>2. PICK z \in DOMAIN p : p[z].who = r /\ p[z].no = x.done[r] + k
      BY <3>1 DEF Pending
    <3>3. z \in DOMAIN q /\ q[z] = p[z]
      BY <1>20
    <3>4. QED
      BY <1>10, <3>2, <3>3
  <2>3. QED
    BY <2>1, <2>2
<1>23. ASSUME NEW k \in DOMAIN q, NEW z \in DOMAIN q, k < z
       PROVE  InOrder(n, q[k], q[z])
  <2>1. k \in 1 .. N /\ q[k] = p[k]
    BY <1>20, <1>23
  <2>2. CASE z = N + 1
    <3>1. PICK f \in Entries : f = p[k]
      BY <1>18, <1>20, <2>1
    <3>2. InFlight(n, x, a, f)
      BY <1>20, <2>1, <3>1 DEF Pending
    <3>3. f.who \in Streams /\ f.no \in Nat
      BY <3>1 DEF Entries
    <3>4. CASE f.who = s
      <4>1. f.no \in D + 1 .. D + L
        BY <1>7, <1>8, <3>2, <3>4 DEF InFlight
      <4>2. f.no < e.no
        BY <1>13, <4>1
      <4>3. InOrder(n, f, e)
        BY <1>13, <3>4, <4>2 DEF InOrder
      <4>4. QED
        BY <1>20, <2>1, <2>2, <3>1, <4>3
    <3>5. CASE f.who = o
      <4>1. f.no > F => f.job \in a.un[s]
        BY <1>2, <1>9, <3>2, <3>5 DEF InFlight
      <4>2. f.no <= F \/ ~Clash(n, j, f.job)
        BY <1>16, <3>3, <4>1
      <4>3. InOrder(n, f, e)
        BY <1>2, <1>13, <3>5, <4>2 DEF InOrder
      <4>4. QED
        BY <1>20, <2>1, <2>2, <3>1, <4>3
    <3>6. QED
      BY <1>3, <3>3, <3>4, <3>5
  <2>3. CASE z # N + 1
    <3>1. z \in 1 .. N /\ q[z] = p[z] /\ k \in DOMAIN p /\ z \in DOMAIN p
      BY <1>20, <2>1, <2>3
    <3>2. InOrder(n, p[k], p[z])
      BY <1>23, <3>1 DEF Pending
    <3>3. QED
      BY <2>1, <3>1, <3>2
  <2>4. QED
    BY <2>2, <2>3
<1>24. Reaches(n, ln, m, q, b.mem)
  <2>1. Reaches(n, ln, m, p, a.mem)
    BY DEF Pending
  <2>2. Reaches(n, ln, m, Append(p, e), ApplyTo(n, ln, a.mem, e.job))
    BY <1>13, <1>18, <2>1, Later
  <2>3. QED
    BY <1>13, <1>15, <1>17, <2>2
<1>25. b.ready => y.done["comm"] >= y.event
  BY <1>10, <1>15 DEF Pending
<1>26. b.fresh => \/ y.done["comm"] >= y.fence["default"]
                  \/ \E k \in DOMAIN q : q[k].who = "default" /\ q[k].after = y.fence["default"]
  <2>1. CASE s = "default"
    <3>1. N + 1 \in DOMAIN q /\ q[N + 1].who = "default" /\ q[N + 1].after = y.fence["default"]
      BY <1>9, <1>10, <1>13, <1>20, <2>1
    <3>2. QED
      BY <3>1
  <2>2. CASE s # "default"
    <3>1. \/ ~b.fresh
          \/ x.done["comm"] >= x.fence["default"]
          \/ \E k \in DOMAIN p : p[k].who = "default" /\ p[k].after = x.fence["default"]
      BY <1>15, <2>2 DEF Pending
    <3>2. \A k \in DOMAIN p : k \in DOMAIN q /\ q[k] = p[k]
      BY <1>20
    <3>3. QED
      BY <1>10, <3>1, <3>2
  <2>3. QED
    BY <2>1, <2>2
<1>27. Pending(n, ln, y, m, q, b)
  BY <1>20, <1>21, <1>22, <1>23, <1>24, <1>25, <1>26 DEF Pending
<1>28. QED
  BY <1>5, <1>10, <1>14, <1>27

(* A stream that waits, and the event that is recorded, take in all that has *)
(* been launched.                                                            *)
LEMMA LaunchMark ==
  ASSUME NEW n, NEW ln, NEW m, NEW x \in Streaming, NEW p, NEW a, Pending(n, ln, x, m, p, a),
         NEW i \in Instr, i.op \in {"comm_waits", "default_waits", "record"}
  PROVE  /\ Step(x, i) \in Streaming
         /\ Pending(n, ln, Step(x, i), m, p, Go(n, ln, a, i))
<1>1. PICK y : y = Step(x, i)
  OBVIOUS
<1>2. PICK b : b = Go(n, ln, a, i)
  OBVIOUS
<1>3. PICK C \in Nat : C = Launched(x, "comm")
  BY DEF Streaming, Launched, Streams
<1>4. PICK D \in Nat : D = Launched(x, "default")
  BY DEF Streaming, Launched, Streams
<1>5. i.op \notin Streams
  BY DEF Streams
<1>6. y = IF i.op = "comm_waits" THEN [x EXCEPT !.fence["comm"] = D]
          ELSE IF i.op = "default_waits" THEN [x EXCEPT !.fence["default"] = C]
          ELSE [x EXCEPT !.event = C]
  BY <1>1, <1>3, <1>4, <1>5 DEF Step
<1>7. PICK fence1 \in [Streams -> Nat] :
           fence1 = IF i.op = "comm_waits" THEN [x.fence EXCEPT !["comm"] = D]
                    ELSE IF i.op = "default_waits" THEN [x.fence EXCEPT !["default"] = C]
                    ELSE x.fence
  BY DEF Streaming
<1>8. PICK event1 \in Nat : event1 = IF i.op = "record" THEN C ELSE x.event
  BY DEF Streaming
<1>9. y = [queue |-> x.queue, done |-> x.done, fence |-> fence1, event |-> event1]
  <2>1. x = [queue |-> x.queue, done |-> x.done, fence |-> x.fence, event |-> x.event]
    BY DEF Streaming
  <2>2. CASE i.op = "comm_waits"
    BY <1>6, <1>7, <1>8, <2>1, <2>2
  <2>3. CASE i.op = "default_waits"
    BY <1>6, <1>7, <1>8, <2>1, <2>3
  <2>4. CASE i.op = "record"
    BY <1>6, <1>7, <1>8, <2>1, <2>4
  <2>5. QED
    BY <2>2, <2>3, <2>4
<1>10. y \in Streaming
  BY <1>9 DEF Streaming
<1>11. /\ fence1["comm"] = IF i.op = "comm_waits" THEN D ELSE x.fence["comm"]
       /\ fence1["default"] = IF i.op = "default_waits" THEN C ELSE x.fence["default"]
  BY <1>7 DEF Streaming, Streams
<1>12. /\ b.mem = a.mem
       /\ b.un["comm"] = IF i.op = "comm_waits" THEN {} ELSE a.un["comm"]
       /\ b.un["default"] = IF i.op = "default_waits" THEN {} ELSE a.un["default"]
       /\ b.ur = IF i.op = "record" THEN {} ELSE a.ur
       /\ b.ready <=> (a.ready /\ i.op # "record")
       /\ b.fresh <=> (a.fresh /\ i.op # "default_waits")
  BY <1>2 DEF Go, Streams, OtherStream, Waits
<1>13. ASSUME NEW k \in DOMAIN p
       PROVE  InFlight(n, y, b, p[k])
  <2>1. PICK e \in Entries : e = p[k]
    BY DEF Pending
  <2>2. InFlight(n, x, a, e)
    BY <2>1 DEF Pending
  <2>3. e.who \in Streams /\ e.no \in Nat
    BY <2>1 DEF Entries
  <2>4. PICK u \in Nat : u = x.done[e.who] + Len(x.queue[e.who])
    BY <2>3 DEF Streaming
  <2>5. e.no <= u
    BY <2>2, <2>3, <2>4 DEF InFlight, Streaming
  <2>6. /\ e.who = "comm" => u = C /\ OtherStream(e.who) = "default"
        /\ e.who = "default" => u = D /\ OtherStream(e.who) = "comm"
    BY <1>3, <1>4, <2>4 DEF Launched, OtherStream
  <2>7. e.no > y.fence[OtherStream(e.who)] => e.job \in b.un[OtherStream(e.who)]
    <3>1. CASE e.who = "comm"
      <4>1. i.op = "default_waits" => ~(e.no > y.fence["default"])
        BY <1>9, <1>11, <2>3, <2>5, <2>6, <3>1
      <4>2. i.op # "default_waits" => y.fence["default"] = x.fence["default"]
                                     /\ b.un["default"] = a.un["default"]
        BY <1>9, <1>11, <1>12
      <4>3. QED
        BY <2>2, <2>6, <3>1, <4>1, <4>2 DEF InFlight
    <3>2. CASE e.who = "default"
      <4>1. i.op = "comm_waits" => ~(e.no > y.fence["comm"])
        BY <1>9, <1>11, <2>3, <2>5, <2>6, <3>2
      <4>2. i.op # "comm_waits" => y.fence["comm"] = x.fence["comm"]
                                  /\ b.un["comm"] = a.un["comm"]
        BY <1>9, <1>11, <1>12
      <4>3. QED
        BY <2>2, <2>6, <3>2, <4>1, <4>2 DEF InFlight
    <3>3. QED
      BY <2>3, <3>1, <3>2 DEF Streams
  <2>8. e.who = "comm" /\ e.no > y.event => e.job \in b.ur
    <3>1. e.who = "comm" /\ i.op = "record" => ~(e.no > y.event)
      BY <1>8, <1>9, <2>3, <2>5, <2>6
    <3>2. i.op # "record" => y.event = x.event /\ b.ur = a.ur
      BY <1>8, <1>9, <1>12
    <3>3. QED
      BY <2>2, <3>1, <3>2 DEF InFlight
  <2>9. InFlight(n, y, b, e)
    BY <1>9, <2>2, <2>7, <2>8 DEF InFlight
  <2>10. QED
    BY <2>1, <2>9
<1>14. b.ready => y.done["comm"] >= y.event
  BY <1>8, <1>9, <1>12 DEF Pending
<1>15. b.fresh => \/ y.done["comm"] >= y.fence["default"]
                  \/ \E k \in DOMAIN p : p[k].who = "default" /\ p[k].after = y.fence["default"]
  BY <1>9, <1>11, <1>12 DEF Pending
<1>16. Pending(n, ln, y, m, p, b)
  <2>1. /\ p \in Seq(Entries)
        /\ \A s \in Streams : \A z \in 1 .. Len(y.queue[s]) :
              \E k \in DOMAIN p : p[k].who = s /\ p[k].no = y.done[s] + z
        /\ \A z, k \in DOMAIN p : z < k => InOrder(n, p[z], p[k])
        /\ Reaches(n, ln, m, p, b.mem)
    BY <1>9, <1>12 DEF Pending
  <2>2. QED
    BY <1>13, <1>14, <1>15, <2>1 DEF Pending
<1>17. QED
  BY <1>1, <1>2, <1>10, <1>16

(* Once the event has happened the thread may go on.                         *)
LEMMA SyncDone ==
  ASSUME NEW n, NEW ln, NEW m, NEW x, NEW p, NEW a, Pending(n, ln, x, m, p, a),
         NEW i, i.op = "sync", x.done["comm"] >= x.event
  PROVE  Pending(n, ln, x, m, p, Go(n, ln, a, i))
<1>1. PICK b : b = Go(n, ln, a, i)
  OBVIOUS
<1>2. /\ b.mem = a.mem /\ b.un["comm"] = a.un["comm"] /\ b.un["default"] = a.un["default"]
      /\ b.ur = a.ur /\ b.ready /\ (b.fresh <=> a.fresh)
  BY <1>1 DEF Go, Streams, OtherStream, Waits
<1>3. \A k \in DOMAIN p : InFlight(n, x, b, p[k])
  <2> TAKE k \in DOMAIN p
  <2>1. PICK e : e = p[k]
    OBVIOUS
  <2>2. InFlight(n, x, a, e)
    BY <2>1 DEF Pending
  <2>3. OtherStream(e.who) = "comm" \/ OtherStream(e.who) = "default"
    BY DEF OtherStream
  <2>4. b.un[OtherStream(e.who)] = a.un[OtherStream(e.who)]
    BY <1>2, <2>3
  <2>5. InFlight(n, x, b, e)
    BY <1>2, <2>2, <2>4 DEF InFlight
  <2>6. QED
    BY <2>1, <2>5
<1>4. Pending(n, ln, x, m, p, b)
  BY <1>2, <1>3 DEF Pending
<1>5. QED
  BY <1>1, <1>4

(* The thread's own computation is beside all that is in flight.             *)
LEMMA CpuDone ==
  ASSUME NEW n, NEW ln, NEW m, NEW x \in Streaming, NEW p, NEW a, Pending(n, ln, x, m, p, a),
         NEW i \in Instr, i.op = "cpu", Ok(n, a, i)
  PROVE  Pending(n, ln, x, ApplyTo(n, ln, m, i.job), p, Go(n, ln, a, i))
<1>1. PICK b : b = Go(n, ln, a, i)
  OBVIOUS
<1>2. PICK j \in Jobs : j = i.job
  BY DEF Instr
<1>3. /\ b.mem = ApplyTo(n, ln, a.mem, j)
      /\ b.un["comm"] = a.un["comm"] /\ b.un["default"] = a.un["default"]
      /\ b.ur = a.ur /\ (b.ready <=> a.ready) /\ (b.fresh <=> a.fresh)
  BY <1>1, <1>2 DEF Go, Streams, OtherStream, Waits
<1>4. /\ Reads(n, j) \subseteq Cells /\ j.kind = "cpu" /\ a.ready
      /\ \A k \in a.ur : ~Clash(n, j, k)
  BY <1>2 DEF Ok
<1>5. ASSUME NEW k \in DOMAIN p
      PROVE  InFlight(n, x, b, p[k]) /\ Reads(n, p[k].job) \subseteq Cells /\ ~Clash(n, j, p[k].job)
  <2>1. PICK e \in Entries : e = p[k]
    BY DEF Pending
  <2>2. InFlight(n, x, a, e)
    BY <2>1 DEF Pending
  <2>3. OtherStream(e.who) = "comm" \/ OtherStream(e.who) = "default"
    BY DEF OtherStream
  <2>4. b.un[OtherStream(e.who)] = a.un[OtherStream(e.who)]
    BY <1>3, <2>3
  <2>5. InFlight(n, x, b, e)
    BY <1>3, <2>2, <2>4 DEF InFlight
  <2>6. e.who \in Streams /\ e.no \in Nat /\ e.job \in Jobs
    BY <2>1 DEF Entries
  <2>7. CASE e.who = "comm"
    <3>1. x.done["comm"] >= x.event /\ x.done["comm"] \in Nat /\ x.event \in Nat
      BY <1>4 DEF Pending, Streaming, Streams
    <3>2. e.no >= x.done["comm"] + 1
      BY <2>2, <2>6, <2>7, <3>1 DEF InFlight
    <3>3. e.no > x.event
      BY <2>6, <3>1, <3>2
    <3>4. e.job \in a.ur
      BY <2>2, <2>7, <3>3 DEF InFlight
    <3>5. QED
      BY <1>4, <2>1, <2>2, <2>5, <3>4 DEF InFlight
  <2>8. CASE e.who = "default"
    <3>1. e.job.kind \in DefaultKinds
      BY <2>2, <2>8 DEF InFlight, KindsOn
    <3>2. ~Clash(n, j, e.job)
      BY <1>4, <2>6, <3>1, CpuApart
    <3>3. QED
      BY <2>1, <2>2, <2>5, <3>2 DEF InFlight
  <2>9. QED
    BY <2>6, <2>7, <2>8 DEF Streams
<1>6. p \in Seq(Entries) /\ DOMAIN p = 1 .. Len(p) /\ Reaches(n, ln, m, p, a.mem)
  BY DEF Pending
<1>7. Reaches(n, ln, ApplyTo(n, ln, m, j), p, ApplyTo(n, ln, a.mem, j))
  BY <1>4, <1>5, <1>6, Beside
<1>8. PICK m1 : m1 = ApplyTo(n, ln, m, j)
  OBVIOUS
<1>9. Pending(n, ln, x, m1, p, b)
  <2>1. Reaches(n, ln, m1, p, b.mem)
    BY <1>3, <1>7, <1>8
  <2>2. QED
    BY <1>3, <1>5, <2>1 DEF Pending
<1>10. QED
  BY <1>1, <1>2, <1>8, <1>9

\* The streams once s has run the job at the head of its queue.
Ran(x, s) == [queue |-> [x.queue EXCEPT ![s] = Tail(@)], done |-> [x.done EXCEPT ![s] = @ + 1],
              fence |-> x.fence, event |-> x.event]
\* The job at the head of the queue of s has all it waits for.
MayRun(x, s) == x.queue[s] # <<>> /\ x.done[OtherStream(s)] >= Head(x.queue[s]).after

(* Entries of one stream differ in their numbers.                            *)
LEMMA Numbered ==
  ASSUME NEW n, NEW ln, NEW m, NEW x, NEW p, NEW a, Pending(n, ln, x, m, p, a),
         NEW i \in DOMAIN p, NEW k \in DOMAIN p, i # k, p[i].who = p[k].who
  PROVE  p[i].no # p[k].no
<1>1. p \in Seq(Entries) /\ i \in Nat /\ k \in Nat
  BY DEF Pending
<1>2. p[i].no \in Nat /\ p[k].no \in Nat
  <2>1. p[i] \in Entries /\ p[k] \in Entries
    BY <1>1
  <2>2. QED
    BY <2>1 DEF Entries
<1>3. i < k => p[i].no < p[k].no
  BY DEF Pending, InOrder
<1>4. k < i => p[k].no < p[i].no
  BY DEF Pending, InOrder
<1>5. QED
  BY <1>1, <1>2, <1>3, <1>4

(* A job that may run clashes with none of those launched before it.         *)
LEMMA HeadFirst ==
  ASSUME NEW n, NEW ln, NEW m, NEW x \in Streaming, NEW p, NEW a, Pending(n, ln, x, m, p, a),
         NEW s \in Streams, MayRun(x, s)
  PROVE  \E k \in DOMAIN p :
            /\ p[k].who = s /\ p[k].no = x.done[s] + 1
            /\ p[k].job = Head(x.queue[s]).job /\ p[k].after = Head(x.queue[s]).after
            /\ \A i \in DOMAIN p : i < k => p[i].who # s /\ ~Clash(n, p[k].job, p[i].job)
<1>1. PICK q \in Seq([job : Jobs, after : Nat]) : q = x.queue[s]
  BY DEF Streaming
<1>2. q # <<>> /\ Len(q) >= 1 /\ Head(q) = q[1] /\ 1 \in 1 .. Len(q)
  BY <1>1 DEF MayRun
<1>3. PICK k \in DOMAIN p : p[k].who = s /\ p[k].no = x.done[s] + 1
  BY <1>1, <1>2 DEF Pending
<1>4. PICK D \in Nat : D = x.done[s]
  BY DEF Streaming
<1>5. PICK e \in Entries : e = p[k]
  BY DEF Pending
<1>6. InFlight(n, x, a, e)
  BY <1>5 DEF Pending
<1>7. q[1] = [job |-> e.job, after |-> e.after]
  <2>1. e.no - x.done[s] = 1 /\ e.who = s
    BY <1>3, <1>4, <1>5
  <2>2. QED
    BY <1>1, <1>6, <2>1 DEF InFlight
<1>8. e.job = Head(q).job /\ e.after = Head(q).after
  BY <1>2, <1>7
<1>9. ASSUME NEW i \in DOMAIN p, i < k
      PROVE  p[i].who # s /\ ~Clash(n, e.job, p[i].job)
  <2>1. PICK f \in Entries : f = p[i]
    BY DEF Pending
  <2>2. InFlight(n, x, a, f) /\ InOrder(n, f, e)
    BY <1>5, <1>9, <2>1 DEF Pending
  <2>3. f.who \in Streams /\ f.no \in Nat /\ e.after \in Nat
    BY <1>5, <2>1 DEF Entries
  <2>4. f.no >= x.done[f.who] + 1 /\ x.done[f.who] \in Nat
    BY <2>2, <2>3 DEF InFlight, Streaming
  <2>5. f.who # s
    <3>1. SUFFICES ASSUME f.who = s
                   PROVE  FALSE
      OBVIOUS
    <3>2. f.no < e.no
      BY <1>3, <1>5, <2>2, <3>1 DEF InOrder
    <3>3. QED
      BY <1>3, <1>4, <1>5, <2>3, <2>4, <3>1, <3>2
  <2>6. f.who = OtherStream(s)
    BY <2>3, <2>5 DEF Streams, OtherStream
  <2>7. x.done[f.who] >= e.after
    BY <1>1, <1>8, <2>6 DEF MayRun
  <2>8. ~(f.no <= e.after)
    BY <2>3, <2>4, <2>7
  <2>9. ~Clash(n, e.job, f.job)
    BY <1>3, <1>5, <2>2, <2>5, <2>8 DEF InOrder
  <2>10. QED
    BY <2>1, <2>5, <2>9
<1>10. QED
  BY <1>1, <1>3, <1>5, <1>8, <1>9

(* Whichever stream runs its next job, what is pending afterwards still      *)
(* leads to the memory of the machine.                                       *)
LEMMA RunHead ==
  ASSUME NEW n, NEW ln, NEW m, NEW x \in Streaming, NEW p, NEW a, Pending(n, ln, x, m, p, a),
         NEW s \in Streams, MayRun(x, s)
  PROVE  /\ Ran(x, s) \in Streaming
         /\ \E q : Pending(n, ln, Ran(x, s), ApplyTo(n, ln, m, Head(x.queue[s]).job), q, a)
<1>1. PICK z \in DOMAIN p :
            /\ p[z].who = s /\ p[z].no = x.done[s] + 1
            /\ p[z].job = Head(x.queue[s]).job /\ p[z].after = Head(x.queue[s]).after
            /\ \A i \in DOMAIN p : i < z => p[i].who # s /\ ~Clash(n, p[z].job, p[i].job)
  BY HeadFirst
<1>2. p \in Seq(Entries)
  BY DEF Pending
<1>3. PICK N \in Nat : N = Len(p)
  BY <1>2
<1>4. DOMAIN p = 1 .. N /\ z \in 1 .. N /\ N >= 1
  BY <1>1, <1>2, <1>3
<1>5. PICK o \in Streams : o = OtherStream(s) /\ o # s /\ \A r \in Streams : r = s \/ r = o
  BY DEF Streams, OtherStream
<1>6. PICK D \in Nat : D = x.done[s]
  BY DEF Streaming
<1>7. PICK w \in Seq([job : Jobs, after : Nat]) : w = x.queue[s]
  BY DEF Streaming
<1>8. PICK L \in Nat : L = Len(w)
  OBVIOUS
<1>9. PICK v \in Seq([job : Jobs, after : Nat]) : v = Tail(w)
  <2>1. w # <<>>
    BY <1>7 DEF MayRun
  <2>2. Tail(w) \in Seq([job : Jobs, after : Nat])
    BY <2>1
  <2>3. QED
    BY <2>2
<1>10. L >= 1 /\ Len(v) = L - 1 /\ \A i \in 1 .. L - 1 : v[i] = w[i + 1]
  BY <1>7, <1>8, <1>9 DEF MayRun
<1>11. PICK y : y = Ran(x, s)
  OBVIOUS
<1>12. /\ y \in Streaming
       /\ y.queue[s] = v /\ y.queue[o] = x.queue[o]
       /\ y.done[s] = D + 1 /\ y.done[o] = x.done[o]
       /\ y.fence = x.fence /\ y.event = x.event
  <2>1. PICK u : u = [x.queue EXCEPT ![s] = v]
    OBVIOUS
  <2>2. x.queue \in [Streams -> Seq([job : Jobs, after : Nat])] /\ x.done \in [Streams -> Nat]
    BY DEF Streaming
  <2>3. u \in [Streams -> Seq([job : Jobs, after : Nat])] /\ u[o] = x.queue[o] /\ u[s] = v
    BY <1>5, <2>1, <2>2
  <2>4. PICK d : d = [x.done EXCEPT ![s] = D + 1]
    OBVIOUS
  <2>5. d \in [Streams -> Nat] /\ d[o] = x.done[o] /\ d[s] = D + 1
    BY <1>5, <2>2, <2>4
  <2>6. y = [queue |-> u, done |-> d, fence |-> x.fence, event |-> x.event]
    BY <1>6, <1>7, <1>9, <1>11, <2>1, <2>4 DEF Ran
  <2>7. y \in Streaming
    BY <2>3, <2>5, <2>6 DEF Streaming
  <2>8. QED
    BY <2>3, <2>5, <2>6, <2>7
<1>13. PICK q : q = [i \in 1 .. N - 1 |-> IF i < z THEN p[i] ELSE p[i + 1]]
  OBVIOUS
<1>14. PICK at : at = [i \in 1 .. N - 1 |-> IF i < z THEN i ELSE i + 1]
  OBVIOUS
<1>15. \A i \in 1 .. N - 1 : at[i] \in DOMAIN p /\ at[i] # z /\ q[i] = p[at[i]]
  BY <1>4, <1>13, <1>14
<1>16. \A i, k \in 1 .. N - 1 : i < k => at[i] < at[k]
  BY <1>4, <1>14
<1>17. \A k \in DOMAIN p : k # z => \E i \in 1 .. N - 1 : at[i] = k
  <2> TAKE k \in DOMAIN p
  <2> HAVE k # z
  <2>1. CASE k < z
    BY <1>4, <1>14, <2>1
  <2>2. CASE k > z
    <3>1. PICK i \in 1 .. N - 1 : i = k - 1
      BY <1>4, <2>2
    <3>2. at[i] = k
      BY <1>4, <1>14, <2>2, <3>1
    <3>3. QED
      BY <3>2
  <2>3. QED
    BY <1>4, <2>1, <2>2
<1>18. q \in Seq(Entries) /\ DOMAIN q = 1 .. N - 1 /\ Len(q) = N - 1
  <2>1. \A i \in 1 .. N - 1 : p[at[i]] \in Entries
    BY <1>2, <1>15
  <2>2. PICK k \in Nat : k = N - 1
    BY <1>4
  <2>3. DOMAIN q = 1 .. k /\ \A i \in 1 .. k : q[i] \in Entries
    BY <1>13, <1>15, <2>1, <2>2
  <2>4. q \in [1 .. k -> Entries]
    BY <1>13, <2>2, <2>3
  <2>5. QED
    BY <2>2, <2>3, <2>4
<1>19. ASSUME NEW i \in 1 .. N - 1
       PROVE  InFlight(n, y, a, q[i])
  <2>1. PICK e \in Entries : e = p[at[i]]
    BY <1>2, <1>15
  <2>2. InFlight(n, x, a, e)
    BY <1>15, <2>1 DEF Pending
  <2>3. e.who \in Streams /\ e.no \in Nat
    BY <2>1 DEF Entries
  <2>4. /\ e.no \in y.done[e.who] + 1 .. y.done[e.who] + Len(y.queue[e.who])
        /\ y.queue[e.who][e.no - y.done[e.who]] = [job |-> e.job, after |-> e.after]
    <3>1. CASE e.who = s
      <4>1. e.no # D + 1
        BY <1>1, <1>6, <1>15, <2>1, <3>1, Numbered
      <4>2. e.no \in D + 1 .. D + L /\ w[e.no - D] = [job |-> e.job, after |-> e.after]
        BY <1>6, <1>7, <1>8, <2>2, <3>1 DEF InFlight
      <4>3. e.no - (D + 1) \in 1 .. L - 1 /\ (e.no - (D + 1)) + 1 = e.no - D
        BY <2>3, <4>1, <4>2
      <4>4. v[e.no - (D + 1)] = w[e.no - D]
        BY <1>10, <4>3
      <4>5. e.no \in (D + 1) + 1 .. (D + 1) + (L - 1)
        BY <2>3, <4>1, <4>2
      <4>6. QED
        BY <1>10, <1>12, <3>1, <4>2, <4>4, <4>5
    <3>2. CASE e.who = o
      BY <1>12, <2>2, <3>2 DEF InFlight
    <3>3. QED
      BY <1>5, <2>3, <3>1, <3>2
  <2>5. InFlight(n, y, a, e)
    BY <1>12, <2>2, <2>4 DEF InFlight
  <2>6. QED
    BY <1>15, <2>1, <2>5
<1>20. ASSUME NEW r \in Streams, NEW i \in 1 .. Len(y.queue[r])
       PROVE  \E k \in DOMAIN q : q[k].who = r /\ q[k].no = y.done[r] + i
  <2>1. \E k \in DOMAIN p : k # z /\ p[k].who = r /\ p[k].no = y.done[r] + i
    <3>1. CASE r = s
      <4>1. i \in 1 .. L - 1 /\ i + 1 \in 1 .. L
        BY <1>10, <1>12, <3>1
      <4>2. PICK k \in DOMAIN p : p[k].who = s /\ p[k].no = D + (i + 1)
        BY <1>6, <1>7, <1>8, <4>1 DEF Pending
      <4>3. D + (i + 1) = (D + 1) + i /\ D + (i + 1) # D + 1
        BY <4>1
      <4>4. k # z
        BY <1>1, <1>6, <4>2, <4>3
      <4>5. QED
        BY <1>12, <3>1, <4>2, <4>3, <4>4
    <3>2. CASE r = o
      <4>1. PICK k \in DOMAIN p : p[k].who = r /\ p[k].no = x.done[r] + i
        BY <1>12, <3>2 DEF Pending
      <4>2. QED
        BY <1>1, <1>5, <1>12, <3>2, <4>1
    <3>3. QED
      BY <1>5, <3>1, <3>2
  <2>2. PICK k \in DOMAIN p : k # z /\ p[k].who = r /\ p[k].no = y.done[r] + i
    BY <2>1
  <2>3. PICK h \in 1 .. N - 1 : at[h] = k
    BY <1>17, <2>2
  <2>4. h \in DOMAIN q /\ q[h] = p[k]
    BY <1>15, <1>18, <2>3
  <2>5. QED
    BY <2>2, <2>4
<1>21. \A i, k \in 1 .. N - 1 : i < k => InOrder(n, q[i], q[k])
  <2>1. \A i, k \in DOMAIN p : i < k => InOrder(n, p[i], p[k])
    BY DEF Pending
  <2>2. QED
    BY <1>15, <1>16, <2>1
<1>22. PICK m1 : m1 = ApplyTo(n, ln, m, Head(x.queue[s]).job)
  OBVIOUS
<1>23. Reaches(n, ln, m1, q, a.mem)
  <2>1. Reaches(n, ln, m, p, a.mem)
    BY DEF Pending
  <2>2. \A i \in 1 .. z : Reads(n, p[i].job) \subseteq Cells
    <3>1. \A i \in DOMAIN p : Reads(n, p[i].job) \subseteq Cells
      BY DEF Pending, InFlight
    <3>2. \A i \in 1 .. z : i \in DOMAIN p
      BY <1>4
    <3>3. QED
      BY <3>1, <3>2
  <2>3. \A i \in 1 .. z - 1 : ~Clash(n, p[z].job, p[i].job)
    BY <1>1, <1>4
  <2>4. /\ z \in 1 .. Len(p) /\ Len(q) = Len(p) - 1
        /\ \A i \in 1 .. Len(p) - 1 : q[i] = IF i < z THEN p[i] ELSE p[i + 1]
    BY <1>3, <1>4, <1>13, <1>18
  <2>5. Reaches(n, ln, ApplyTo(n, ln, m, p[z].job), q, a.mem)
    BY ONLY <1>2, <1>18, <2>1, <2>2, <2>3, <2>4, Sooner
  <2>6. QED
    BY <1>1, <1>22, <2>5
<1>24. a.ready => y.done["comm"] >= y.event
  <2>1. y.done["comm"] >= x.done["comm"] /\ y.done["comm"] \in Nat /\ x.done["comm"] \in Nat
        /\ x.event \in Nat
    BY <1>5, <1>6, <1>12 DEF Streaming, Streams
  <2>2. QED
    BY <1>12, <2>1 DEF Pending
<1>25. a.fresh => \/ y.done["comm"] >= y.fence["default"]
                  \/ \E k \in DOMAIN q : q[k].who = "default" /\ q[k].after = y.fence["default"]
  <2>1. /\ y.done["comm"] >= x.done["comm"] /\ y.done["comm"] \in Nat /\ x.done["comm"] \in Nat
        /\ x.fence["default"] \in Nat /\ y.fence = x.fence
    BY <1>5, <1>6, <1>12 DEF Streaming, Streams
  <2> SUFFICES ASSUME a.fresh
               PROVE  \/ y.done["comm"] >= y.fence["default"]
                      \/ \E k \in DOMAIN q : q[k].who = "default" /\ q[k].after = y.fence["default"]
    OBVIOUS
  <2>2. CASE x.done["comm"] >= x.fence["default"]
    BY <2>1, <2>2
  <2>3. CASE \E k \in DOMAIN p : p[k].who = "default" /\ p[k].after = x.fence["default"]
    <3>1. PICK k \in DOMAIN p : p[k].who = "default" /\ p[k].after = x.fence["default"]
      BY <2>3
    <3>2. CASE k = z
      <4>1. s = "default" /\ Head(x.queue[s]).after = x.fence["default"]
        BY <1>1, <3>1, <3>2
      <4>2. x.done["comm"] >= x.fence["default"]
        BY <4>1 DEF MayRun, OtherStream
      <4>3. QED
        BY <2>1, <4>2
    <3>3. CASE k # z
      BY <1>15, <1>17, <1>18, <2>1, <3>1, <3>3
    <3>4. QED
      BY <3>2, <3>3
  <2>4. QED
    BY <2>2, <2>3 DEF Pending
<1>26. Pending(n, ln, y, m1, q, a)
  BY <1>18, <1>19, <1>20, <1>21, <1>23, <1>24, <1>25 DEF Pending
<1>27. QED
  BY <1>11, <1>12, <1>22, <1>26

(* Two jobs that may run at once do not clash.                               *)
LEMMA HeadsApart ==
  ASSUME NEW n, NEW ln, NEW m, NEW x \in Streaming, NEW p, NEW a, Pending(n, ln, x, m, p, a),
         MayRun(x, "default"), MayRun(x, "comm")
  PROVE  ~Clash(n, Head(x.queue["default"]).job, Head(x.queue["comm"]).job)
<1>0. "default" \in Streams /\ "comm" \in Streams
  BY DEF Streams
<1>1. PICK k \in DOMAIN p :
            /\ p[k].who = "default" /\ p[k].job = Head(x.queue["default"]).job
            /\ \A i \in DOMAIN p : i < k => ~Clash(n, p[k].job, p[i].job)
  BY <1>0, HeadFirst
<1>2. PICK z \in DOMAIN p :
            /\ p[z].who = "comm" /\ p[z].job = Head(x.queue["comm"]).job
            /\ \A i \in DOMAIN p : i < z => ~Clash(n, p[z].job, p[i].job)
  BY <1>0, HeadFirst
<1>3. k \in Nat /\ z \in Nat /\ k # z
  BY <1>1, <1>2 DEF Pending
<1>4. QED
  BY <1>1, <1>2, <1>3, ClashBack

(* What the thread may compute now does not clash with the head of a queue.  *)
LEMMA ThreadApart ==
  ASSUME NEW n, NEW ln, NEW m, NEW x \in Streaming, NEW p, NEW a, Pending(n, ln, x, m, p, a),
         NEW s \in Streams, MayRun(x, s), NEW i \in Instr, i.op = "cpu", Ok(n, a, i)
  PROVE  ~Clash(n, i.job, Head(x.queue[s]).job)
<1>1. PICK k \in DOMAIN p : /\ p[k].who = s /\ p[k].no = x.done[s] + 1
                            /\ p[k].job = Head(x.queue[s]).job
  BY HeadFirst
<1>2. PICK e \in Entries : e = p[k]
  BY DEF Pending
<1>3. InFlight(n, x, a, e) /\ e.no \in Nat /\ e.job \in Jobs
  BY <1>2 DEF Pending, Entries
<1>4. CASE s = "comm"
  <2>1. x.done["comm"] >= x.event /\ x.done["comm"] \in Nat /\ x.event \in Nat
    BY DEF Ok, Pending, Streaming, Streams
  <2>2. e.no > x.event
    BY <1>1, <1>2, <1>4, <2>1
  <2>3. e.job \in a.ur
    BY <1>1, <1>2, <1>3, <1>4, <2>2 DEF InFlight
  <2>4. QED
    BY <1>1, <1>2, <2>3 DEF Ok
<1>5. CASE s = "default"
  <2>1. e.job.kind \in DefaultKinds
    BY <1>1, <1>2, <1>3, <1>5 DEF InFlight, KindsOn
  <2>2. i.job \in Jobs /\ i.job.kind = "cpu"
    BY DEF Ok, Instr
  <2>3. ~Clash(n, i.job, e.job)
    BY <1>3, <2>1, <2>2, CpuApart
  <2>4. QED
    BY <1>1, <1>2, <2>3
<1>6. QED
  BY <1>4, <1>5 DEF Streams

\* A program: it ends where the tokens are read.
Ended(prog) == prog \in Seq(Instr) /\ \A i \in 1 .. Len(prog) : prog[i].op = "tolist" <=> i = Len(prog)

(* The thread launches up to the first thing it must wait for.               *)
LEMMA NextFound ==
  ASSUME NEW prog, Ended(prog), prog # <<>>
  PROVE  /\ NextBlocking(prog) \in 1 .. Len(prog)
         /\ prog[NextBlocking(prog)].op \in Blocking
         /\ \A i \in 1 .. NextBlocking(prog) - 1 : prog[i].op \notin Blocking
<1> DEFINE T == {i \in 1 .. Len(prog) : prog[i].op \in Blocking}
<1>1. PICK N \in Nat : N = Len(prog) /\ N >= 1 /\ DOMAIN prog = 1 .. N
  BY DEF Ended
<1>2. N \in T
  BY <1>1 DEF Ended, Blocking
<1>3. T \in SUBSET Nat
  OBVIOUS
<1>4. PICK k \in T : \A i \in T : k <= i
  <2> HIDE DEF T
  <2>1. T # {}
    BY <1>2
  <2>2. QED
    BY <1>3, <2>1, LeastNatural
<1>5. k \in DOMAIN prog /\ prog[k].op \in Blocking
  BY <1>1, <1>4
<1>6. \A j \in 1 .. k - 1 : prog[j].op \notin Blocking
  <2> TAKE j \in 1 .. k - 1
  <2>1. j \in 1 .. Len(prog) /\ ~(k <= j)
    BY <1>1, <1>4
  <2>2. j \notin T
    BY <1>4, <2>1
  <2>3. QED
    BY <2>1, <2>2
<1>7. \E i \in DOMAIN prog : prog[i].op \in Blocking /\ \A j \in 1 .. i - 1 : prog[j].op \notin Blocking
  BY <1>5, <1>6
<1>8. /\ NextBlocking(prog) \in DOMAIN prog /\ prog[NextBlocking(prog)].op \in Blocking
      /\ \A j \in 1 .. NextBlocking(prog) - 1 : prog[j].op \notin Blocking
  BY <1>7 DEF NextBlocking
<1>9. QED
  BY <1>1, <1>8

(* What is left of a program is one.                                         *)
LEMMA EndedLater ==
  ASSUME NEW prog, Ended(prog), NEW k \in 1 .. Len(prog)
  PROVE  Ended(SubSeq(prog, k, Len(prog)))
<1>1. PICK N \in Nat : N = Len(prog)
  BY DEF Ended
<1>2. PICK q : q = SubSeq(prog, k, N)
  OBVIOUS
<1>3. k \in 1 .. N /\ prog \in Seq(Instr)
  BY <1>1 DEF Ended
<1>4. q \in Seq(Instr) /\ Len(q) = N - k + 1 /\ \A i \in 1 .. N - k + 1 : q[i] = prog[k + i - 1]
  <2>1. Len(q) = N - k + 1 /\ \A i \in 1 .. N - k + 1 : q[i] = prog[k + i - 1]
    BY <1>1, <1>2, <1>3
  <2>2. \A i \in k .. N : prog[i] \in Instr
    BY <1>1, <1>3
  <2>3. q \in Seq(Instr)
    BY <1>1, <1>2, <1>3, <2>2
  <2>4. QED
    BY <2>1, <2>3
<1>5. \A i \in 1 .. Len(q) : q[i].op = "tolist" <=> i = Len(q)
  <2> TAKE i \in 1 .. Len(q)
  <2>1. PICK j \in 1 .. N : j = k + i - 1
    BY <1>3, <1>4
  <2>2. q[i] = prog[j]
    BY <1>4, <2>1
  <2>3. j = N <=> i = Len(q)
    BY <1>3, <1>4, <2>1
  <2>4. QED
    BY <1>1, <2>2, <2>3 DEF Ended
<1>6. Ended(q)
  BY <1>4, <1>5 DEF Ended
<1>7. QED
  BY <1>1, <1>2, <1>6

(* A program without its first instruction.                                  *)
LEMMA EndedTail ==
  ASSUME NEW prog, Ended(prog), prog # <<>>, prog[1].op # "tolist"
  PROVE  Ended(Tail(prog)) /\ Tail(prog) # <<>>
<1>1. PICK N \in Nat : N = Len(prog) /\ N >= 1
  BY DEF Ended
<1>2. N # 1
  BY <1>1 DEF Ended
<1>3. PICK k \in 1 .. Len(prog) : k = 2
  BY <1>1, <1>2
<1>4. Ended(SubSeq(prog, k, Len(prog)))
  BY EndedLater
<1>5. PICK q : q = Tail(prog)
  OBVIOUS
<1>6. q = SubSeq(prog, k, Len(prog))
  BY <1>1, <1>2, <1>3, <1>5 DEF Ended
<1>7. Len(q) = N - 1 /\ q # <<>>
  <2>1. prog \in Seq(Instr) /\ prog # <<>>
    BY DEF Ended
  <2>2. Len(Tail(prog)) = Len(prog) - 1 /\ Tail(prog) \in Seq(Instr)
    BY <2>1
  <2>3. Len(q) = N - 1 /\ N - 1 >= 1
    BY <1>1, <1>2, <1>5, <2>2
  <2>4. QED
    BY <2>3
<1>8. QED
  BY <1>4, <1>5, <1>6, <1>7

(* All that the thread launches at once.                                     *)
LEMMA LaunchAll ==
  ASSUME NEW n, NEW ln, NEW m, NEW x \in Streaming, NEW p0, NEW a, Pending(n, ln, x, m, p0, a),
         NEW prog, Ended(prog), prog # <<>>, NEW b, Safe(n, ln, a, prog, b),
         NEW k, k = NextBlocking(prog)
  PROVE  /\ LaunchedAll(x, SubSeq(prog, 1, k - 1)) \in Streaming
         /\ LaunchedAll(x, SubSeq(prog, 1, k - 1)).done = x.done
         /\ \E p, c : /\ Pending(n, ln, LaunchedAll(x, SubSeq(prog, 1, k - 1)), m, p, c)
                      /\ Safe(n, ln, c, SubSeq(prog, k, Len(prog)), b)
<1>1. /\ k \in 1 .. Len(prog) /\ prog[k].op \in Blocking
      /\ \A i \in 1 .. k - 1 : prog[i].op \notin Blocking
  BY NextFound
<1>2. PICK N \in Nat : N = Len(prog)
  BY DEF Ended
<1>3. PICK K \in Nat : K = k - 1
  BY <1>1, <1>2
<1>4. k \in 1 .. N /\ K + 1 = k /\ K <= N - 1
  BY <1>1, <1>2, <1>3
<1>5. PICK q : q = SubSeq(prog, 1, k - 1)
  OBVIOUS
<1>6. Len(q) = K /\ DOMAIN q = 1 .. K /\ \A i \in 1 .. K : q[i] = prog[i]
  <2>1. Len(SubSeq(prog, 1, K)) = K /\ DOMAIN SubSeq(prog, 1, K) = 1 .. K
        /\ \A i \in 1 .. K : SubSeq(prog, 1, K)[i] = prog[1 + i - 1]
    BY <1>2, <1>4 DEF Ended
  <2>2. \A i \in 1 .. K : 1 + i - 1 = i
    OBVIOUS
  <2>3. QED
    BY <1>3, <1>5, <2>1, <2>2
<1>7. PICK t : /\ t[0] = a /\ t[N] = b
               /\ \A i \in 1 .. N : Ok(n, t[i - 1], prog[i]) /\ t[i] = Go(n, ln, t[i - 1], prog[i])
  BY <1>2 DEF Safe
<1>8. PICK y : /\ y[0] = x
               /\ \A i \in 1 .. K : y[i] = Step(y[i - 1], q[i])
               /\ LaunchedAll(x, q) = y[K]
  <2>1. DOMAIN q = 1 .. K /\ K \in Nat
    BY <1>6
  <2>2. \E y : StepsOf(x, q, K, y)
    BY ONLY <2>1, FoldSteps
  <2>3. QED
    BY <2>2 DEF StepsOf
<1> DEFINE T == {i \in 0 .. K : /\ y[i] \in Streaming /\ y[i].done = x.done
                           /\ \E p : Pending(n, ln, y[i], m, p, t[i])}
<1>9. 0 \in T
  <2>1. y[0] \in Streaming /\ y[0].done = x.done /\ Pending(n, ln, y[0], m, p0, t[0])
    BY <1>7, <1>8
  <2>2. QED
    BY <2>1
<1>10. ASSUME NEW i \in 0 .. K - 1, i \in T
       PROVE  i + 1 \in T
  <2>1. PICK p : Pending(n, ln, y[i], m, p, t[i])
    BY <1>10
  <2>2. PICK j \in 1 .. K : j = i + 1 /\ j - 1 = i
    OBVIOUS
  <2>3. PICK e \in Instr : e = prog[j]
    BY <1>2, <1>4, <2>2 DEF Ended
  <2>4. PICK z \in Streaming : z = y[i]
    BY <1>10
  <2>5. PICK c : c = t[i]
    OBVIOUS
  <2>6. y[j] = Step(z, e) /\ t[j] = Go(n, ln, c, e) /\ Ok(n, c, e)
    <3>1. j \in 1 .. N /\ q[j] = prog[j]
      BY <1>4, <1>6, <2>2
    <3>2. QED
      BY <1>7, <1>8, <2>2, <2>3, <2>4, <2>5, <3>1
  <2>7. e.op \in Streams \/ e.op \in {"comm_waits", "default_waits", "record"}
    <3>1. e.op \notin Blocking
      BY <1>1, <1>3, <2>2, <2>3
    <3>2. e.op \in Ops
      BY <2>3 DEF Instr
    <3>3. QED
      BY <3>1, <3>2 DEF Blocking, Ops
  <2>d. Step(z, e).done = x.done
    <3>1. z.done = x.done
      BY <1>10, <2>4
    <3>2. Step(z, e).done = z.done
      BY <2>7 DEF Step, Streaming, Streams
    <3>3. QED
      BY <3>1, <3>2
  <2>8. Pending(n, ln, z, m, p, c)
    BY <2>1, <2>4, <2>5
  <2>9. CASE e.op \in Streams
    <3>1. Step(z, e) \in Streaming /\ \E r : Pending(n, ln, Step(z, e), m, r, Go(n, ln, c, e))
      BY <2>6, <2>8, <2>9, LaunchJob
    <3>2. QED
      BY <2>2, <2>6, <2>d, <3>1
  <2>10. CASE e.op \in {"comm_waits", "default_waits", "record"}
    <3>1. Step(z, e) \in Streaming /\ Pending(n, ln, Step(z, e), m, p, Go(n, ln, c, e))
      BY <2>8, <2>10, LaunchMark
    <3>2. QED
      BY <2>2, <2>6, <2>d, <3>1
  <2>11. QED
    BY <2>7, <2>9, <2>10
<1>11. K \in T
  <2> HIDE DEF T
  <2>1. \A i \in 0 .. K : i \in T
    BY <1>9, <1>10, Upward
  <2>2. QED
    BY <2>1
<1>12. y[K] \in Streaming /\ y[K].done = x.done /\ \E p : Pending(n, ln, y[K], m, p, t[K])
  BY <1>11
<1>13. PICK r : r = SubSeq(prog, k, Len(prog))
  OBVIOUS
<1>14. PICK M \in Nat : M = N - K
  BY <1>4
<1>15. Len(r) = M /\ \A i \in 1 .. M : r[i] = prog[K + i]
  <2>1. Len(r) = N - k + 1 /\ \A i \in 1 .. N - k + 1 : r[i] = prog[k + i - 1]
    BY <1>1, <1>2, <1>13 DEF Ended
  <2>2. N - k + 1 = M /\ \A i \in 1 .. M : k + i - 1 = K + i
    BY <1>4, <1>14
  <2>3. QED
    BY <2>1, <2>2
<1>16. PICK u : u = [i \in 0 .. M |-> t[K + i]]
  OBVIOUS
<1>17. u[0] = t[K] /\ u[M] = b
  <2>1. 0 \in 0 .. M /\ M \in 0 .. M /\ K + 0 = K /\ K + M = N
    BY <1>14
  <2>2. QED
    BY <1>7, <1>16, <2>1
<1>18. \A i \in 1 .. M : Ok(n, u[i - 1], r[i]) /\ u[i] = Go(n, ln, u[i - 1], r[i])
  <2> TAKE i \in 1 .. M
  <2>1. PICK j \in 1 .. N : j = K + i
    BY <1>14
  <2>2. Ok(n, t[j - 1], prog[j]) /\ t[j] = Go(n, ln, t[j - 1], prog[j])
    BY <1>7
  <2>3. i \in 0 .. M /\ i - 1 \in 0 .. M /\ K + (i - 1) = j - 1
    BY <2>1
  <2>4. u[i] = t[j] /\ u[i - 1] = t[j - 1] /\ r[i] = prog[j]
    BY <1>15, <1>16, <2>1, <2>3
  <2>5. QED
    BY <2>2, <2>4
<1>19. Safe(n, ln, t[K], r, b)
  BY <1>15, <1>17, <1>18 DEF Safe
<1>20. QED
  BY <1>5, <1>8, <1>12, <1>13, <1>19

-------------------------------------------------------------------------------
\* An iteration: its batches, the requests S that have KV during its forward
\* pass, and their lengths ln before it.

Bs(n) == DOMAIN n.batches
OnGpu(n) == UNION {n.batches[b].gprf \union n.batches[b].gdec : b \in Bs(n)}
Cprf(n)  == UNION {n.batches[b].cprf : b \in Bs(n)}
Depth == 0 .. Layers - 1

Fit(n, S, ln) ==
    /\ Bs(n) \subseteq {1, 2} /\ S \subseteq Reqs
    /\ \A b \in Bs(n) :
         /\ n.batches[b].cprf \subseteq S /\ n.batches[b].gprf \subseteq S
         /\ n.batches[b].gdec \subseteq S /\ n.batches[b].cdec \subseteq S
    /\ Cprf(n) \intersect OnGpu(n) = {}
    /\ \A b \in Bs(n) :
         /\ n.batches[b].gprf \intersect n.batches[b].gdec = {}
         /\ n.batches[b].cdec \intersect (Cprf(n) \union OnGpu(n)) = {}
    /\ \A b1, b2 \in Bs(n) : b1 # b2 => Members(n.batches[b1]) \intersect Members(n.batches[b2]) = {}
    /\ \A r \in OnGpu(n) \union Cprf(n) : n.g[r] \in GpuBlocks
    /\ \A r \in S \ OnGpu(n) : n.c[r] \in CpuBlocks
    /\ \A r, q \in S \ OnGpu(n) : n.c[r] = n.c[q] => r = q
    /\ \A r, q \in OnGpu(n) : n.g[r] = n.g[q] => r = q
    /\ \A r, q \in Cprf(n) : n.g[r] = n.g[q] => r = q
    /\ ~ExtraLayer => \A r \in OnGpu(n), q \in Cprf(n) : n.g[r] # n.g[q]
    /\ \A b \in Bs(n) : \A r \in Prefs(n.batches[b]) : ln[r] = 0
    /\ \A r \in S : ln[r] \in Nat

\* Where the KV of r at layer l is kept.
Home(n, r, l) == IF r \in OnGpu(n) THEN <<"k_cache", l, n.g[r]>> ELSE <<"k_swap", l, n.c[r]>>

\* The KV of r is up to the new token in the first v[r] layers, and in the
\* others as it was, if there was any.
KvAt(n, S, ln, m, v) ==
    \A r \in S : \A l \in Depth :
        /\ l < v[r] => m[Home(n, r, l)] = <<r, ln[r] + 1>>
        /\ l >= v[r] /\ (\A b \in Bs(n) : r \notin Prefs(n.batches[b])) =>
              m[Home(n, r, l)] = <<r, ln[r]>>
At(v, T, l) == \A r \in T : v[r] = l
Raise(S, v, T, l) == [r \in S |-> IF r \in T THEN l ELSE v[r]]

\* The buffers.
Bufs == {"qkv", "o_gpu", "o_cpu", "emb"} \X {1, 2} \union {<<"qkv_cpu">>, <<"out_cpu">>}

(* The members of a batch.                                                   *)
LEMMA InBatch ==
  ASSUME NEW batch, NEW r
  PROVE  /\ r \in Members(batch) <=> r \in batch.cprf \union batch.gprf \union batch.gdec \union batch.cdec
         /\ r \in Prefs(batch) <=> r \in batch.cprf \union batch.gprf
  BY DEF Members, Prefs

(* Of whom a batch consists.                                                 *)
LEMMA BatchFacts ==
  ASSUME NEW n, NEW S, NEW ln, Fit(n, S, ln), NEW b \in Bs(n)
  PROVE  /\ b \in {1, 2}
         /\ n.batches[b].cprf \subseteq Cprf(n) /\ n.batches[b].cprf \subseteq S
         /\ n.batches[b].gprf \subseteq OnGpu(n) /\ n.batches[b].gprf \subseteq S
         /\ n.batches[b].gdec \subseteq OnGpu(n) /\ n.batches[b].gdec \subseteq S
         /\ n.batches[b].cdec \subseteq S /\ n.batches[b].cdec \intersect OnGpu(n) = {}
         /\ n.batches[b].cprf \intersect OnGpu(n) = {}
         /\ n.batches[b].cdec \intersect n.batches[b].cprf = {}
         /\ n.batches[b].gprf \intersect n.batches[b].gdec = {}
<1>1. n.batches[b].cprf \subseteq Cprf(n)
  BY DEF Cprf
<1>2. n.batches[b].gprf \subseteq OnGpu(n) /\ n.batches[b].gdec \subseteq OnGpu(n)
  BY DEF OnGpu
<1>3. QED
  BY <1>1, <1>2 DEF Fit

(* No two layers or requests share a place.                                  *)
LEMMA HomesDiffer ==
  ASSUME NEW n, NEW S, NEW ln, Fit(n, S, ln), NEW r \in S, NEW q \in S, NEW l \in Depth, NEW k \in Depth
  PROVE  /\ Home(n, r, l) \in Cells
         /\ Home(n, r, l) = Home(n, q, k) => r = q /\ l = k
         /\ Home(n, r, l) \notin Bufs
<1>0. Layers \in Nat /\ l \in 0 .. Layers
  BY PipelineAssumption DEF Depth
<1>1. CASE r \in OnGpu(n)
  <2>1. Home(n, r, l) = <<"k_cache", l, n.g[r]>> /\ n.g[r] \in GpuBlocks
    BY <1>1 DEF Home, Fit
  <2>2. Home(n, r, l) \in Cells
    BY <1>0, <2>1 DEF Cells
  <2>3. Home(n, r, l) = Home(n, q, k) => q \in OnGpu(n) /\ n.g[r] = n.g[q] /\ l = k
    BY <2>1 DEF Home
  <2>4. Home(n, r, l) \notin Bufs
    BY <2>1 DEF Bufs
  <2>5. QED
    BY <1>1, <2>2, <2>3, <2>4 DEF Fit
<1>2. CASE r \notin OnGpu(n)
  <2>1. Home(n, r, l) = <<"k_swap", l, n.c[r]>> /\ n.c[r] \in CpuBlocks
    BY <1>2 DEF Home, Fit
  <2>2. Home(n, r, l) \in Cells
    BY <2>1 DEF Cells, Depth
  <2>3. Home(n, r, l) = Home(n, q, k) => q \notin OnGpu(n) /\ n.c[r] = n.c[q] /\ l = k
    BY <2>1 DEF Home
  <2>4. Home(n, r, l) \notin Bufs
    BY <2>1 DEF Bufs
  <2>5. QED
    BY <1>2, <2>2, <2>3, <2>4 DEF Fit
<1>3. QED
  BY <1>1, <1>2

\* The place a prefill to the CPU is stored in before it is swapped out.
Temp(n, r, l) == <<"k_cache", CprfLayer(l), n.g[r]>>

(* It is nobody's place, and no other prefill's.                             *)
LEMMA TempsDiffer ==
  ASSUME NEW n, NEW S, NEW ln, Fit(n, S, ln), NEW r \in Cprf(n), NEW l \in Depth
  PROVE  /\ Temp(n, r, l) \in Cells /\ Temp(n, r, l) \notin Bufs
         /\ \A q \in S : \A k \in Depth : Temp(n, r, l) # Home(n, q, k)
         /\ \A q \in Cprf(n) : \A k \in Depth : Temp(n, r, l) = Temp(n, q, k) => r = q
<1>0. Layers \in Nat /\ l \in 0 .. Layers /\ Layers \in 0 .. Layers
  BY PipelineAssumption DEF Depth
<1>1. CprfLayer(l) \in 0 .. Layers /\ n.g[r] \in GpuBlocks
  BY <1>0 DEF CprfLayer, Fit
<1>2. Temp(n, r, l) \in Cells /\ Temp(n, r, l) \notin Bufs
  BY <1>1 DEF Temp, Cells, Bufs
<1>3. ASSUME NEW q \in S, NEW k \in Depth
      PROVE  Temp(n, r, l) # Home(n, q, k)
  <2>1. CASE q \in OnGpu(n) /\ ExtraLayer
    <3>1. Home(n, q, k) = <<"k_cache", k, n.g[q]>> /\ Temp(n, r, l) = <<"k_cache", Layers, n.g[r]>>
      BY <2>1 DEF Home, Temp, CprfLayer
    <3>2. k # Layers
      BY <1>0 DEF Depth
    <3>3. QED
      BY <3>1, <3>2
  <2>2. CASE q \in OnGpu(n) /\ ~ExtraLayer
    <3>1. Home(n, q, k)[3] = n.g[q] /\ Temp(n, r, l)[3] = n.g[r]
      BY <2>2 DEF Home, Temp
    <3>2. n.g[q] # n.g[r]
      BY <2>2 DEF Fit
    <3>3. QED
      BY <3>1, <3>2
  <2>3. CASE q \notin OnGpu(n)
    <3>1. Home(n, q, k)[1] = "k_swap" /\ Temp(n, r, l)[1] = "k_cache"
      BY <2>3 DEF Home, Temp
    <3>2. QED
      BY <3>1
  <2>4. QED
    BY <2>1, <2>2, <2>3
<1>4. ASSUME NEW q \in Cprf(n), NEW k \in Depth, Temp(n, r, l) = Temp(n, q, k)
      PROVE  r = q
  <2>1. Temp(n, r, l)[3] = n.g[r] /\ Temp(n, q, k)[3] = n.g[q]
    BY DEF Temp
  <2>2. n.g[r] = n.g[q]
    BY <1>4, <2>1
  <2>3. QED
    BY <2>2 DEF Fit
<1>5. QED
  BY <1>2, <1>3, <1>4

\* Layer l of the requests of T has the new token, and no other KV changed.
OneMoreLayer(n, S, ln, T, l, m, m2) ==
    /\ \A r \in T : m2[Home(n, r, l)] = <<r, ln[r] + 1>>
    /\ \A r \in S : \A k \in Depth :
         r \notin T \/ k # l => m2[Home(n, r, k)] = m[Home(n, r, k)]

(* One layer more.                                                           *)
LEMMA KvRaised ==
  ASSUME NEW n, NEW S, NEW ln, Fit(n, S, ln), NEW m, NEW v \in [S -> Nat], KvAt(n, S, ln, m, v),
         NEW T \in SUBSET S, NEW l \in Depth, At(v, T, l), NEW m2, OneMoreLayer(n, S, ln, T, l, m, m2)
  PROVE  Raise(S, v, T, l + 1) \in [S -> Nat] /\ KvAt(n, S, ln, m2, Raise(S, v, T, l + 1))
<1>1. PICK w : w = Raise(S, v, T, l + 1)
  OBVIOUS
<1>0. /\ \A r \in T : m2[Home(n, r, l)] = <<r, ln[r] + 1>>
      /\ \A r \in S : \A k \in Depth :
           r \notin T \/ k # l => m2[Home(n, r, k)] = m[Home(n, r, k)]
  BY DEF OneMoreLayer
<1>2. l \in Nat
  BY DEF Depth
<1>3. w \in [S -> Nat] /\ \A r \in S : w[r] = IF r \in T THEN l + 1 ELSE v[r]
  BY <1>1, <1>2 DEF Raise
<1>4. ASSUME NEW r \in S, NEW k \in Depth
      PROVE  /\ k < w[r] => m2[Home(n, r, k)] = <<r, ln[r] + 1>>
             /\ k >= w[r] /\ (\A b \in Bs(n) : r \notin Prefs(n.batches[b])) =>
                    m2[Home(n, r, k)] = <<r, ln[r]>>
  <2>0. k \in Nat
    BY DEF Depth
  <2>1. CASE r \in T /\ k = l
    <3>1. k < w[r] /\ ~(k >= w[r])
      BY <1>2, <1>3, <2>1
    <3>2. QED
      BY <1>0, <2>1, <3>1
  <2>2. CASE r \in T /\ k # l
    <3>1. v[r] = l /\ w[r] = l + 1
      BY <1>3, <2>2 DEF At
    <3>2. (k < w[r] <=> k < v[r]) /\ (k >= w[r] => k >= v[r])
      BY <1>2, <2>0, <2>2, <3>1
    <3>3. QED
      BY <1>0, <2>2, <3>2 DEF KvAt
  <2>3. CASE r \notin T
    BY <1>0, <1>3, <2>3 DEF KvAt
  <2>4. QED
    BY <2>1, <2>2, <2>3
<1>5. KvAt(n, S, ln, m2, w)
  BY <1>4 DEF KvAt
<1>6. QED
  BY <1>1, <1>3, <1>5

(* What a job writes, and that it writes nothing else.                       *)
LEMMA Applied ==
  ASSUME NEW n, NEW ln, NEW m, NEW j, NEW c \in Cells
  PROVE  ApplyTo(n, ln, m, j)[c] = IF c \in Writes(n, j) THEN Worth(n, ln, m, j, c) ELSE m[c]
  BY DEF ApplyTo

-------------------------------------------------------------------------------
\* What each job does to the memory.

\* Nothing but t changed; no buffer outside X; no prefill that is stored, of R.
Only(m, m2, t) == \A c \in Cells : c # t => m2[c] = m[c]
BufsKept(m, m2, X) == \A c \in Bufs : c \notin X => m2[c] = m[c]
TempsKept(n, m, m2, R) == \A r \in R : \A k \in Depth : m2[Temp(n, r, k)] = m[Temp(n, r, k)]

\* Cell c has the tag of layer l; or that of layer l of batch b.
Holds(m, c, l) == m[c] = <<l>>
HoldsOf(m, c, b, l) == m[c] = <<b, l>>

(* A job of the model is a job.                                              *)
LEMMA JobIs ==
  ASSUME NEW kind \in DefaultKinds \union CommKinds \union {"cpu"}, NEW b \in {1, 2}, NEW l \in Depth
  PROVE  /\ Job(kind, b, l) \in Jobs
         /\ Job(kind, b, l).kind = kind /\ Job(kind, b, l).b = b /\ Job(kind, b, l).l = l
  BY DEF Job, Jobs, Depth

(* The buffers are cells.                                                    *)
LEMMA BufsAre == Bufs \subseteq Cells
  BY DEF Bufs, Cells

(* What only changes a buffer leaves the KV alone.                           *)
LEMMA OnlyBuf ==
  ASSUME NEW n, NEW S, NEW ln, Fit(n, S, ln), NEW m, NEW m2, NEW t \in Bufs, Only(m, m2, t)
  PROVE  /\ \A v : KvAt(n, S, ln, m, v) => KvAt(n, S, ln, m2, v)
         /\ BufsKept(m, m2, {t}) /\ TempsKept(n, m, m2, Cprf(n))
<1>1. \A r \in S : \A l \in Depth : m2[Home(n, r, l)] = m[Home(n, r, l)]
  <2> TAKE r \in S
  <2> TAKE l \in Depth
  <2>1. Home(n, r, l) \in Cells /\ Home(n, r, l) \notin Bufs
    BY HomesDiffer
  <2>2. QED
    BY <2>1 DEF Only
<1>2. ASSUME NEW v, KvAt(n, S, ln, m, v)
      PROVE  KvAt(n, S, ln, m2, v)
  BY <1>1, <1>2 DEF KvAt
<1>3. TempsKept(n, m, m2, Cprf(n))
  <2> SUFFICES ASSUME NEW r \in Cprf(n), NEW l \in Depth
               PROVE  m2[Temp(n, r, l)] = m[Temp(n, r, l)]
    BY DEF TempsKept
  <2>1. Temp(n, r, l) \in Cells /\ Temp(n, r, l) \notin Bufs
    BY TempsDiffer
  <2>2. QED
    BY <2>1 DEF Only
<1>4. BufsKept(m, m2, {t})
  BY BufsAre DEF BufsKept, Only
<1>5. QED
  BY <1>2, <1>3, <1>4

(* The jobs that write one buffer.                                           *)
LEMMA Embed ==
  ASSUME NEW n, NEW ln, NEW m, NEW b \in {1, 2}, NEW m2, m2 = ApplyTo(n, ln, m, Job("embed", b, 0))
  PROVE  Holds(m2, <<"emb", b>>, 0) /\ Only(m, m2, <<"emb", b>>)
<1>1. PICK j : j = Job("embed", b, 0)
  OBVIOUS
<1>2. j.kind = "embed" /\ j.b = b
  BY <1>1 DEF Job
<1>3. Writes(n, j) = {<<"emb", b>>}
  BY <1>2 DEF Writes
<1>4. <<"emb", b>> \in Cells
  BY DEF Cells
<1>5. Worth(n, ln, m, j, <<"emb", b>>) = <<0>>
  BY <1>2 DEF Worth
<1>6. QED
  BY <1>1, <1>3, <1>4, <1>5, Applied DEF Only, Holds

(* The input projection, of an embedding of the same layer.                  *)
LEMMA PreprojJob ==
  ASSUME NEW n, NEW ln, NEW m, NEW b \in {1, 2}, NEW l, Holds(m, <<"emb", b>>, l),
         NEW m2, m2 = ApplyTo(n, ln, m, Job("preproj", b, l))
  PROVE  Holds(m2, <<"qkv", b>>, l) /\ Only(m, m2, <<"qkv", b>>)
<1>1. PICK j : j = Job("preproj", b, l)
  OBVIOUS
<1>2. j.kind = "preproj" /\ j.b = b /\ j.l = l
  BY <1>1 DEF Job
<1>3. Writes(n, j) = {<<"qkv", b>>}
  BY <1>2 DEF Writes
<1>4. <<"qkv", b>> \in Cells
  BY DEF Cells
<1>5. Worth(n, ln, m, j, <<"qkv", b>>) = <<l>>
  BY <1>2 DEF Worth, If, Holds
<1>6. QED
  BY <1>1, <1>3, <1>4, <1>5, Applied DEF Only, Holds

(* A tag is put together.                                                    *)
LEMMA ListsJoined ==
  ASSUME NEW X, NEW b \in X, NEW l \in X, NEW p \in Seq(X), NEW q \in Seq(X), p = <<b>>, q = <<l>>
  PROVE  p \o q = <<b, l>>
<1>1. Len(p) = 1 /\ p[1] = b /\ Len(q) = 1 /\ q[1] = l
  OBVIOUS
<1>2. PICK r : r = p \o q
  OBVIOUS
<1>3. r \in Seq(X) /\ Len(r) = 2
  BY <1>1, <1>2
<1>4. r[1] = b
  BY <1>1, <1>2
<1>5. r[2] = l
  BY <1>1, <1>2
<1>6. r = <<b, l>>
  BY <1>3, <1>4, <1>5
<1>7. QED
  BY <1>2, <1>6

(* So the tag that send_qkv puts together is a pair.                         *)
LEMMA PairJoined ==
  ASSUME NEW b, NEW l
  PROVE  <<b>> \o <<l>> = <<b, l>>
<1>1. PICK X : b \in X /\ l \in X
  <2>1. b \in {b, l} /\ l \in {b, l}
    OBVIOUS
  <2>2. QED
    BY <2>1
<1>2. <<b>> \in Seq(X) /\ <<l>> \in Seq(X)
  BY <1>1
<1>3. QED
  BY <1>1, <1>2, ListsJoined

(* The copy of a batch's q, k and v to the CPU.                              *)
LEMMA SendQkvJob ==
  ASSUME NEW n, NEW ln, NEW m, NEW b \in {1, 2}, NEW l, Holds(m, <<"qkv", b>>, l),
         NEW m2, m2 = ApplyTo(n, ln, m, Job("send_qkv", b, l))
  PROVE  HoldsOf(m2, <<"qkv_cpu">>, b, l) /\ Only(m, m2, <<"qkv_cpu">>)
<1>1. PICK j : j = Job("send_qkv", b, l)
  OBVIOUS
<1>2. j.kind = "send_qkv" /\ j.b = b /\ j.l = l
  BY <1>1 DEF Job
<1>t. PICK t : t = <<"qkv_cpu">>
  OBVIOUS
<1>3. Writes(n, j) = {t}
  BY <1>2, <1>t DEF Writes
<1>4. t \in Cells
  BY <1>t DEF Cells
<1>5. Worth(n, ln, m, j, t) = <<b>> \o <<l>>
  BY <1>2 DEF Worth, Holds
<1>6. <<b>> \o <<l>> = <<b, l>>
  BY PairJoined
<1>7. m2[t] = <<b, l>>
  <2>1. m2[t] = Worth(n, ln, m, j, t)
    BY <1>1, <1>3, <1>4, Applied
  <2>2. QED
    BY ONLY <1>5, <1>6, <2>1
<1>8. \A c \in Cells : c # t => m2[c] = m[c]
  BY <1>1, <1>3, Applied
<1>9. QED
  BY <1>t, <1>7, <1>8 DEF Only, HoldsOf

(* The copy of the CPU's output to the GPU.                                  *)
LEMMA SendOJob ==
  ASSUME NEW n, NEW ln, NEW m, NEW b \in {1, 2}, NEW l, HoldsOf(m, <<"out_cpu">>, b, l),
         NEW m2, m2 = ApplyTo(n, ln, m, Job("send_o", b, l))
  PROVE  HoldsOf(m2, <<"o_cpu", b>>, b, l) /\ Only(m, m2, <<"o_cpu", b>>)
<1>1. PICK j : j = Job("send_o", b, l)
  OBVIOUS
<1>2. j.kind = "send_o" /\ j.b = b
  BY <1>1 DEF Job
<1>3. Writes(n, j) = {<<"o_cpu", b>>}
  BY <1>2 DEF Writes
<1>4. <<"o_cpu", b>> \in Cells
  BY DEF Cells
<1>5. Worth(n, ln, m, j, <<"o_cpu", b>>) = <<b, l>>
  BY <1>2 DEF Worth, HoldsOf
<1>6. QED
  BY <1>1, <1>3, <1>4, <1>5, Applied DEF Only, HoldsOf

\* What the output projection of batch b at layer l needs.
Att(n, m, b, l) ==
    /\ Prefs(n.batches[b]) \union n.batches[b].gdec # {} => Holds(m, <<"o_gpu", b>>, l)
    /\ n.batches[b].cdec # {} => HoldsOf(m, <<"o_cpu", b>>, b, l)

(* The output projection, of attention outputs of the same layer.            *)
LEMMA PostprojJob ==
  ASSUME NEW n, NEW ln, NEW m, NEW b \in {1, 2}, NEW l, Att(n, m, b, l),
         NEW m2, m2 = ApplyTo(n, ln, m, Job("postproj", b, l))
  PROVE  Holds(m2, <<"emb", b>>, l + 1) /\ Only(m, m2, <<"emb", b>>)
<1>1. PICK j : j = Job("postproj", b, l)
  OBVIOUS
<1>2. j.kind = "postproj" /\ j.b = b /\ j.l = l
  BY <1>1 DEF Job
<1>3. Writes(n, j) = {<<"emb", b>>}
  BY <1>2 DEF Writes
<1>4. <<"emb", b>> \in Cells
  BY DEF Cells
<1>5. Worth(n, ln, m, j, <<"emb", b>>) = <<l + 1>>
  BY <1>2 DEF Worth, If, Att, Holds, HoldsOf
<1>6. QED
  BY <1>1, <1>3, <1>4, <1>5, Applied DEF Only, Holds

\* What the attention of a batch on the GPU makes of memory m.
KernelAttends(n, S, ln, m, m2, w, b, l) ==
    /\ Holds(m2, <<"o_gpu", b>>, l) /\ w \in [S -> Nat] /\ KvAt(n, S, ln, m2, w)
    /\ BufsKept(m, m2, {<<"o_gpu", b>>}) /\ TempsKept(n, m, m2, Cprf(n))

(* Attention on the GPU appends to its decodes' KV and to no other's.        *)
LEMMA AttentionJob ==
  ASSUME NEW n, NEW S, NEW ln, Fit(n, S, ln), NEW m, NEW v \in [S -> Nat], KvAt(n, S, ln, m, v),
         NEW b \in Bs(n), NEW l \in Depth, Holds(m, <<"qkv", b>>, l), At(v, n.batches[b].gdec, l),
         NEW m2, m2 = ApplyTo(n, ln, m, Job("attention", b, l)),
         NEW w, w = Raise(S, v, n.batches[b].gdec, l + 1)
  PROVE  KernelAttends(n, S, ln, m, m2, w, b, l)
<1>1. PICK j : j = Job("attention", b, l)
  OBVIOUS
<1>2. j.kind = "attention" /\ j.b = b /\ j.l = l
  BY <1>1 DEF Job
<1>3. PICK T \in SUBSET S : T = n.batches[b].gdec
  BY BatchFacts
<1>4. T \subseteq OnGpu(n) /\ b \in {1, 2}
  BY <1>3, BatchFacts
<1>5. \A r \in T : Home(n, r, l) = <<"k_cache", l, n.g[r]>>
  BY <1>4 DEF Home
<1>6. GdecCells(n, b, l) = {Home(n, r, l) : r \in T}
  BY <1>3, <1>5 DEF GdecCells
<1>7. Writes(n, j) = {<<"o_gpu", b>>} \union {Home(n, r, l) : r \in T}
  BY <1>2, <1>6 DEF Writes
<1>8. ASSUME NEW r \in T
      PROVE  Owner(n, j, Home(n, r, l)) = r
  <2>1. Home(n, r, l)[3] = n.g[r]
    BY <1>5
  <2>2. Owner(n, j, Home(n, r, l)) = CHOOSE q \in T : n.g[q] = n.g[r]
    BY <1>2, <1>3, <2>1 DEF Owner
  <2>3. \A q \in T : n.g[q] = n.g[r] => q = r
    BY <1>4 DEF Fit
  <2>4. QED
    BY <2>2, <2>3
<1>9. \A r \in T : m[Home(n, r, l)] = <<r, ln[r]>>
  <2> TAKE r \in T
  <2>1. v[r] = l /\ l \in Nat
    BY <1>3 DEF At, Depth
  <2>2. \A b2 \in Bs(n) : r \notin Prefs(n.batches[b2])
    <3> TAKE b2 \in Bs(n)
    <3>1. CASE b2 = b
      BY <1>3, <1>4, <3>1, BatchFacts, InBatch
    <3>2. CASE b2 # b
      <4>1. r \in Members(n.batches[b])
        BY <1>3, InBatch
      <4>2. r \notin Members(n.batches[b2])
        BY <3>2, <4>1 DEF Fit
      <4>3. QED
        BY <4>2, InBatch
    <3>3. QED
      BY <3>1, <3>2
  <2>3. QED
    BY <2>1, <2>2 DEF KvAt
<1>10. \A c \in GdecCells(n, b, l) : Kept(n, ln, m, j, c)
  BY <1>6, <1>8, <1>9 DEF Kept
<1>11. ASSUME NEW r \in T
       PROVE  m2[Home(n, r, l)] = <<r, ln[r] + 1>>
  <2>1. PICK c : c = Home(n, r, l)
    OBVIOUS
  <2>2. c \in Cells /\ c \in Writes(n, j)
    BY <1>3, <1>7, <2>1, HomesDiffer
  <2>3. Len(c) = 3
    BY <1>5, <2>1
  <2>4. Kept(n, ln, m, j, c) /\ Owner(n, j, c) = r
    BY <1>6, <1>8, <1>10, <2>1
  <2>5. Worth(n, ln, m, j, c) = <<r, ln[r] + 1>>
    BY <1>2, <2>3, <2>4 DEF Worth, If, Holds
  <2>6. QED
    BY <1>1, <2>1, <2>2, <2>5, Applied
<1>12. m2[<<"o_gpu", b>>] = <<l>>
  <2>1. PICK c : c = <<"o_gpu", b>>
    OBVIOUS
  <2>2. c \in Cells /\ c \in Writes(n, j) /\ Len(c) = 2
    BY <1>4, <1>7, <2>1 DEF Cells
  <2>3. Worth(n, ln, m, j, c) = <<l>>
    BY <1>2, <1>10, <2>2 DEF Worth, If, Holds
  <2>4. QED
    BY <1>1, <2>1, <2>2, <2>3, Applied
<1>13. ASSUME NEW c \in Cells, c # <<"o_gpu", b>>, \A r \in T : c # Home(n, r, l)
       PROVE  m2[c] = m[c]
  BY <1>1, <1>7, <1>13, Applied
<1>14. <<"o_gpu", b>> \in Bufs
  BY <1>4 DEF Bufs
<1>15. ASSUME NEW r \in S, NEW k \in Depth, r \notin T \/ k # l
       PROVE  m2[Home(n, r, k)] = m[Home(n, r, k)]
  <2>1. Home(n, r, k) \in Cells /\ Home(n, r, k) # <<"o_gpu", b>>
    BY <1>14, HomesDiffer
  <2>2. \A q \in T : Home(n, r, k) # Home(n, q, l)
    BY <1>3, <1>15, HomesDiffer
  <2>3. QED
    BY <1>13, <2>1, <2>2
<1>16. w \in [S -> Nat] /\ KvAt(n, S, ln, m2, w)
  <2>1. Raise(S, v, T, l + 1) \in [S -> Nat] /\ KvAt(n, S, ln, m2, Raise(S, v, T, l + 1))
    <3>1. At(v, T, l)
      BY <1>3
    <3>2. \A r \in S : \A k \in Depth : r \notin T \/ k # l => m2[Home(n, r, k)] = m[Home(n, r, k)]
      BY <1>15
    <3>3. Fit(n, S, ln) /\ v \in [S -> Nat] /\ KvAt(n, S, ln, m, v) /\ l \in Depth
      OBVIOUS
    <3>4. OneMoreLayer(n, S, ln, T, l, m, m2)
      BY <1>11, <3>2 DEF OneMoreLayer
    <3>5. QED
      BY ONLY <3>1, <3>3, <3>4, KvRaised
  <2>2. QED
    BY <1>3, <2>1
<1>17. BufsKept(m, m2, {<<"o_gpu", b>>})
  <2> SUFFICES ASSUME NEW c \in Bufs, c # <<"o_gpu", b>>
               PROVE  m2[c] = m[c]
    BY DEF BufsKept
  <2>1. \A r \in T : c # Home(n, r, l)
    BY <1>3, HomesDiffer
  <2>2. QED
    BY <1>13, <2>1, BufsAre
<1>18. TempsKept(n, m, m2, Cprf(n))
  <2> SUFFICES ASSUME NEW r \in Cprf(n), NEW k \in Depth
               PROVE  m2[Temp(n, r, k)] = m[Temp(n, r, k)]
    BY DEF TempsKept
  <2>1. /\ Temp(n, r, k) \in Cells /\ Temp(n, r, k) # <<"o_gpu", b>>
        /\ \A q \in T : Temp(n, r, k) # Home(n, q, l)
    BY <1>3, <1>14, TempsDiffer
  <2>2. QED
    BY <1>13, <2>1
<1>19. QED
  BY <1>12, <1>16, <1>17, <1>18 DEF Holds, KernelAttends

(* A request of a batch that is no prefill is a prefill of no batch.         *)
LEMMA NoPrefill ==
  ASSUME NEW n, NEW S, NEW ln, Fit(n, S, ln), NEW b \in Bs(n),
         NEW r \in n.batches[b].gdec \union n.batches[b].cdec
  PROVE  \A b2 \in Bs(n) : r \notin Prefs(n.batches[b2])
<1> TAKE b2 \in Bs(n)
<1>1. CASE b2 = b
  BY <1>1, BatchFacts, InBatch
<1>2. CASE b2 # b
  <2>1. r \in Members(n.batches[b])
    BY InBatch
  <2>2. r \notin Members(n.batches[b2])
    BY <1>2, <2>1 DEF Fit
  <2>3. QED
    BY <2>2, InBatch
<1>3. QED
  BY <1>1, <1>2

(* Attention on the CPU appends to its decodes' KV and to no other's.        *)
LEMMA CpuJob ==
  ASSUME NEW n, NEW S, NEW ln, Fit(n, S, ln), NEW m, NEW v \in [S -> Nat], KvAt(n, S, ln, m, v),
         NEW b \in Bs(n), NEW l \in Depth, HoldsOf(m, <<"qkv_cpu">>, b, l), At(v, n.batches[b].cdec, l),
         NEW m2, m2 = ApplyTo(n, ln, m, Job("cpu", b, l)),
         NEW w, w = Raise(S, v, n.batches[b].cdec, l + 1)
  PROVE  /\ HoldsOf(m2, <<"out_cpu">>, b, l) /\ w \in [S -> Nat] /\ KvAt(n, S, ln, m2, w)
         /\ BufsKept(m, m2, {<<"out_cpu">>}) /\ TempsKept(n, m, m2, Cprf(n))
<1>1. PICK j : j = Job("cpu", b, l)
  OBVIOUS
<1>2. j.kind = "cpu" /\ j.b = b /\ j.l = l
  BY <1>1 DEF Job
<1>3. PICK T \in SUBSET S : T = n.batches[b].cdec
  BY BatchFacts
<1>4. T \subseteq S \ OnGpu(n) /\ b \in {1, 2}
  BY <1>3, BatchFacts
<1>5. \A r \in T : Home(n, r, l) = <<"k_swap", l, n.c[r]>>
  BY <1>4 DEF Home
<1>6. CdecCells(n, b, l) = {Home(n, r, l) : r \in T}
  BY <1>3, <1>5 DEF CdecCells
<1>t. PICK t : t = <<"out_cpu">>
  OBVIOUS
<1>7. Writes(n, j) = {t} \union {Home(n, r, l) : r \in T}
  BY <1>2, <1>6, <1>t DEF Writes
<1>8. ASSUME NEW r \in T
      PROVE  Owner(n, j, Home(n, r, l)) = r
  <2>1. Home(n, r, l)[3] = n.c[r]
    BY <1>5
  <2>2. Owner(n, j, Home(n, r, l)) = CHOOSE q \in T : n.c[q] = n.c[r]
    BY <1>2, <1>3, <2>1 DEF Owner
  <2>3. \A q \in T : n.c[q] = n.c[r] => q = r
    BY <1>4 DEF Fit
  <2>4. QED
    BY <2>2, <2>3
<1>9. \A r \in T : m[Home(n, r, l)] = <<r, ln[r]>>
  <2> TAKE r \in T
  <2>1. v[r] = l /\ l \in Nat
    BY <1>3 DEF At, Depth
  <2>2. \A b2 \in Bs(n) : r \notin Prefs(n.batches[b2])
    BY <1>3, NoPrefill
  <2>3. QED
    BY <2>1, <2>2 DEF KvAt
<1>10. \A c \in CdecCells(n, b, l) : Kept(n, ln, m, j, c)
  BY <1>6, <1>8, <1>9 DEF Kept
<1>11. ASSUME NEW r \in T
       PROVE  m2[Home(n, r, l)] = <<r, ln[r] + 1>>
  <2>1. PICK c : c = Home(n, r, l)
    OBVIOUS
  <2>2. c \in Cells /\ c \in Writes(n, j)
    BY <1>3, <1>7, <2>1, HomesDiffer
  <2>3. Len(c) = 3
    BY <1>5, <2>1
  <2>4. Kept(n, ln, m, j, c) /\ Owner(n, j, c) = r
    BY <1>6, <1>8, <1>10, <2>1
  <2>5. Worth(n, ln, m, j, c) = <<r, ln[r] + 1>>
    BY <1>2, <2>3, <2>4 DEF Worth, If, Holds, HoldsOf
  <2>6. QED
    BY <1>1, <2>1, <2>2, <2>5, Applied
<1>12. m2[t] = <<b, l>>
  <2>1. Len(t) = 1
    BY <1>t
  <2>2. t \in Cells /\ t \in Writes(n, j)
    BY <1>7, <1>t DEF Cells
  <2>3. Worth(n, ln, m, j, t) = <<b, l>>
    <3>1. m[<<"qkv_cpu">>] = <<j.b, j.l>> /\ \A d \in CdecCells(n, j.b, j.l) : Kept(n, ln, m, j, d)
      BY <1>2, <1>10 DEF HoldsOf
    <3>2. Worth(n, ln, m, j, t) = <<j.b, j.l>>
      BY <1>2, <2>1, <3>1 DEF Worth, If, Holds, HoldsOf
    <3>3. QED
      BY <1>2, <3>2
  <2>4. m2[t] = Worth(n, ln, m, j, t)
    BY <1>1, <2>2, Applied
  <2>5. QED
    BY ONLY <2>3, <2>4
<1>13. ASSUME NEW c \in Cells, c # t, \A r \in T : c # Home(n, r, l)
       PROVE  m2[c] = m[c]
  BY <1>1, <1>7, <1>13, Applied
<1>14. t \in Bufs
  BY <1>t DEF Bufs
<1>15. ASSUME NEW r \in S, NEW k \in Depth, r \notin T \/ k # l
       PROVE  m2[Home(n, r, k)] = m[Home(n, r, k)]
  <2>1. Home(n, r, k) \in Cells /\ Home(n, r, k) # t
    BY <1>14, HomesDiffer
  <2>2. \A q \in T : Home(n, r, k) # Home(n, q, l)
    BY <1>3, <1>15, HomesDiffer
  <2>3. QED
    BY <1>13, <2>1, <2>2
<1>16. w \in [S -> Nat] /\ KvAt(n, S, ln, m2, w)
  <2>1. Raise(S, v, T, l + 1) \in [S -> Nat] /\ KvAt(n, S, ln, m2, Raise(S, v, T, l + 1))
    <3>1. At(v, T, l)
      BY <1>3
    <3>2. \A r \in S : \A k \in Depth : r \notin T \/ k # l => m2[Home(n, r, k)] = m[Home(n, r, k)]
      BY <1>15
    <3>3. Fit(n, S, ln) /\ v \in [S -> Nat] /\ KvAt(n, S, ln, m, v) /\ l \in Depth
      OBVIOUS
    <3>4. OneMoreLayer(n, S, ln, T, l, m, m2)
      BY <1>11, <3>2 DEF OneMoreLayer
    <3>5. QED
      BY ONLY <3>1, <3>3, <3>4, KvRaised
  <2>2. QED
    BY <1>3, <2>1
<1>17. BufsKept(m, m2, {t})
  <2> SUFFICES ASSUME NEW c \in Bufs, c # t
               PROVE  m2[c] = m[c]
    BY DEF BufsKept
  <2>1. \A r \in T : c # Home(n, r, l)
    BY <1>3, HomesDiffer
  <2>2. QED
    BY <1>13, <2>1, BufsAre
<1>18. TempsKept(n, m, m2, Cprf(n))
  <2> SUFFICES ASSUME NEW r \in Cprf(n), NEW k \in Depth
               PROVE  m2[Temp(n, r, k)] = m[Temp(n, r, k)]
    BY DEF TempsKept
  <2>1. /\ Temp(n, r, k) \in Cells /\ Temp(n, r, k) # t
        /\ \A q \in T : Temp(n, r, k) # Home(n, q, l)
    BY <1>3, <1>14, TempsDiffer
  <2>2. QED
    BY <1>13, <2>1
<1>19. QED
  BY <1>t, <1>12, <1>16, <1>17, <1>18 DEF HoldsOf

\* The prefills of batch b that go to the CPU are stored at layer l.
Stored(n, m, b, l) == \A r \in n.batches[b].cprf : m[Temp(n, r, l)] = <<r, 1>>

(* Where the KV of a prefill is stored.                                      *)
LEMMA PrefCells ==
  ASSUME NEW n, NEW S, NEW ln, Fit(n, S, ln), NEW b \in Bs(n), NEW l
  PROVE  /\ \A r \in n.batches[b].gprf : PrefCell(n, b, r, l) = Home(n, r, l)
         /\ \A r \in n.batches[b].cprf : PrefCell(n, b, r, l) = Temp(n, r, l)
<1>1. \A r \in n.batches[b].gprf : PrefCell(n, b, r, l) = Home(n, r, l)
  <2> TAKE r \in n.batches[b].gprf
  <2>1. r \in OnGpu(n) /\ r \notin n.batches[b].cprf
    BY BatchFacts
  <2>2. QED
    BY <2>1 DEF PrefCell, Home
<1>2. \A r \in n.batches[b].cprf : PrefCell(n, b, r, l) = Temp(n, r, l)
  BY DEF PrefCell, Temp
<1>3. QED
  BY <1>1, <1>2

(* Storing puts the KV of the prefills to the GPU in its place, and that of  *)
(* the others where they are swapped out from.                               *)
LEMMA StoreJob ==
  ASSUME NEW n, NEW S, NEW ln, Fit(n, S, ln), NEW m, NEW v \in [S -> Nat], KvAt(n, S, ln, m, v),
         NEW b \in Bs(n), NEW l \in Depth, Holds(m, <<"qkv", b>>, l), At(v, n.batches[b].gprf, l),
         NEW m2, m2 = ApplyTo(n, ln, m, Job("store", b, l)),
         NEW w, w = Raise(S, v, n.batches[b].gprf, l + 1)
  PROVE  /\ Stored(n, m2, b, l) /\ w \in [S -> Nat] /\ KvAt(n, S, ln, m2, w)
         /\ BufsKept(m, m2, {}) /\ TempsKept(n, m, m2, Cprf(n) \ n.batches[b].cprf)
<1>1. PICK j : j = Job("store", b, l)
  OBVIOUS
<1>2. j.kind = "store" /\ j.b = b /\ j.l = l
  BY <1>1 DEF Job
<1>3. PICK T \in SUBSET S : T = n.batches[b].gprf
  BY BatchFacts
<1>4. PICK R \in SUBSET Cprf(n) : R = n.batches[b].cprf
  BY BatchFacts
<1>5. T \subseteq OnGpu(n) /\ b \in {1, 2} /\ Prefs(n.batches[b]) = R \union T
  BY <1>3, <1>4, BatchFacts DEF Prefs
<1>6. /\ \A r \in T : PrefCell(n, b, r, l) = Home(n, r, l)
      /\ \A r \in R : PrefCell(n, b, r, l) = Temp(n, r, l)
  BY <1>3, <1>4, PrefCells
<1>7. Writes(n, j) = {PrefCell(n, b, r, l) : r \in R \union T}
  BY <1>2, <1>5 DEF Writes
<1>8. \A r, q \in R \union T : PrefCell(n, b, r, l) = PrefCell(n, b, q, l) => r = q
  <2> TAKE r, q \in R \union T
  <2>1. CASE r \in T /\ q \in T
    BY <1>3, <1>6, <2>1, HomesDiffer
  <2>2. CASE r \in R /\ q \in R
    BY <1>4, <1>6, <2>2, TempsDiffer
  <2>3. CASE r \in T /\ q \in R
    BY <1>3, <1>4, <1>6, <2>3, TempsDiffer
  <2>4. CASE r \in R /\ q \in T
    BY <1>3, <1>4, <1>6, <2>4, TempsDiffer
  <2>5. QED
    BY <2>1, <2>2, <2>3, <2>4
<1>9. ASSUME NEW r \in R \union T
      PROVE  m2[PrefCell(n, b, r, l)] = <<r, 1>>
  <2>1. PICK c : c = PrefCell(n, b, r, l)
    OBVIOUS
  <2>2. c \in Cells
    <3>1. CASE r \in T
      BY <1>3, <1>6, <2>1, <3>1, HomesDiffer
    <3>2. CASE r \in R
      BY <1>4, <1>6, <2>1, <3>2, TempsDiffer
    <3>3. QED
      BY <3>1, <3>2
  <2>3. Owner(n, j, c) = r
    <3>1. Owner(n, j, c) = CHOOSE q \in R \union T : PrefCell(n, b, q, l) = c
      BY <1>2, <1>5 DEF Owner
    <3>2. \A q \in R \union T : PrefCell(n, b, q, l) = c => q = r
      BY <1>8, <2>1
    <3>3. QED
      BY <2>1, <3>1, <3>2
  <2>4. Worth(n, ln, m, j, c) = <<r, 1>>
    BY <1>2, <2>3 DEF Worth, If, Holds, HoldsOf
  <2>5. c \in Writes(n, j)
    BY <1>7, <2>1
  <2>6. QED
    BY <1>1, <2>1, <2>2, <2>4, <2>5, Applied
<1>10. ASSUME NEW c \in Cells, \A r \in T : c # Home(n, r, l), \A r \in R : c # Temp(n, r, l)
       PROVE  m2[c] = m[c]
  <2>1. c \notin Writes(n, j)
    BY <1>6, <1>7, <1>10
  <2>2. QED
    BY <1>1, <2>1, Applied
<1>11. \A r \in T : m2[Home(n, r, l)] = <<r, ln[r] + 1>>
  <2> TAKE r \in T
  <2>1. ln[r] = 0
    BY <1>5 DEF Fit
  <2>2. ln[r] + 1 = 1
    BY <2>1
  <2>3. QED
    BY <1>6, <1>9, <2>2
<1>12. Stored(n, m2, b, l)
  BY <1>4, <1>6, <1>9 DEF Stored
<1>13. ASSUME NEW r \in S, NEW k \in Depth, r \notin T \/ k # l
       PROVE  m2[Home(n, r, k)] = m[Home(n, r, k)]
  <2>1. Home(n, r, k) \in Cells
    BY HomesDiffer
  <2>2. \A q \in T : Home(n, r, k) # Home(n, q, l)
    BY <1>3, <1>13, HomesDiffer
  <2>3. \A q \in R : Home(n, r, k) # Temp(n, q, l)
    BY TempsDiffer
  <2>4. QED
    BY <1>10, <2>1, <2>2, <2>3
<1>14. w \in [S -> Nat] /\ KvAt(n, S, ln, m2, w)
  <2>1. Raise(S, v, T, l + 1) \in [S -> Nat] /\ KvAt(n, S, ln, m2, Raise(S, v, T, l + 1))
    <3>1. At(v, T, l)
      BY <1>3
    <3>2. \A r \in S : \A k \in Depth : r \notin T \/ k # l => m2[Home(n, r, k)] = m[Home(n, r, k)]
      BY <1>13
    <3>3. Fit(n, S, ln) /\ v \in [S -> Nat] /\ KvAt(n, S, ln, m, v) /\ l \in Depth
      OBVIOUS
    <3>4. OneMoreLayer(n, S, ln, T, l, m, m2)
      BY <1>11, <3>2 DEF OneMoreLayer
    <3>5. QED
      BY ONLY <3>1, <3>3, <3>4, KvRaised
  <2>2. QED
    BY <1>3, <2>1
<1>15. BufsKept(m, m2, {})
  <2> SUFFICES ASSUME NEW c \in Bufs
               PROVE  m2[c] = m[c]
    BY DEF BufsKept
  <2>1. (\A r \in T : c # Home(n, r, l)) /\ (\A r \in R : c # Temp(n, r, l))
    BY <1>3, <1>4, HomesDiffer, TempsDiffer
  <2>2. QED
    BY <1>10, <2>1, BufsAre
<1>16. TempsKept(n, m, m2, Cprf(n) \ n.batches[b].cprf)
  <2> SUFFICES ASSUME NEW r \in Cprf(n) \ R, NEW k \in Depth
               PROVE  m2[Temp(n, r, k)] = m[Temp(n, r, k)]
    BY <1>4 DEF TempsKept
  <2>1. /\ Temp(n, r, k) \in Cells
        /\ \A q \in T : Temp(n, r, k) # Home(n, q, l)
        /\ \A q \in R : Temp(n, r, k) # Temp(n, q, l)
    BY <1>3, <1>4, TempsDiffer
  <2>2. QED
    BY <1>10, <2>1
<1>17. QED
  BY <1>12, <1>14, <1>15, <1>16

\* A copy of blocks between the GPU cache and the swap space.
SwapJob(copies) == [kind |-> "swap", b |-> 1, l |-> 0, copies |-> copies]

(* A swap puts what it reads where it writes, if its copies are a function   *)
(* of the cells they write.                                                  *)
LEMMA SwapCopies ==
  ASSUME NEW n, NEW ln, NEW m, NEW copies, NEW m2, m2 = ApplyTo(n, ln, m, SwapJob(copies)),
         \A p, q \in copies : p[2] = q[2] => p = q
  PROVE  /\ \A p \in copies : p[2] \in Cells => m2[p[2]] = m[p[1]]
         /\ \A c \in Cells : (\A p \in copies : p[2] # c) => m2[c] = m[c]
<1>1. PICK j : j = SwapJob(copies)
  OBVIOUS
<1>2. j.kind = "swap" /\ j.copies = copies
  BY <1>1 DEF SwapJob
<1>3. Writes(n, j) = {p[2] : p \in copies}
  BY <1>2 DEF Writes
<1>4. ASSUME NEW p \in copies, p[2] \in Cells
      PROVE  m2[p[2]] = m[p[1]]
  <2>1. PICK c : c = p[2]
    OBVIOUS
  <2>2. c \in Writes(n, j) /\ c \in Cells
    BY <1>3, <1>4, <2>1
  <2>3. (CHOOSE q \in copies : q[2] = c) = p
    BY <2>1
  <2>4. Worth(n, ln, m, j, c) = m[(CHOOSE q \in j.copies : q[2] = c)[1]]
    BY <1>2 DEF Worth
  <2>5. Worth(n, ln, m, j, c) = m[p[1]]
    BY <1>2, <2>3, <2>4
  <2>6. QED
    BY <1>1, <2>1, <2>2, <2>5, Applied
<1>5. \A c \in Cells : (\A p \in copies : p[2] # c) => m2[c] = m[c]
  BY <1>1, <1>3, Applied
<1>6. QED
  BY <1>4, <1>5

(* The copies of a batch's prefills to the CPU.                              *)
LEMMA CprfPairs ==
  ASSUME NEW n, NEW S, NEW ln, Fit(n, S, ln), NEW b \in Bs(n), NEW l \in Depth
  PROVE  /\ CprfCopies(n, b, l) = {<<Temp(n, r, l), Home(n, r, l)>> : r \in n.batches[b].cprf}
         /\ CprfCopies(n, b, l) \in SUBSET (Cells \X Cells)
<1>1. PICK R : R = n.batches[b].cprf
  OBVIOUS
<1>2. R \subseteq Cprf(n) /\ R \subseteq S /\ R \intersect OnGpu(n) = {}
  BY <1>1, BatchFacts
<1>3. \A r \in R : Home(n, r, l) = <<"k_swap", l, n.c[r]>> /\ Temp(n, r, l) = <<"k_cache", CprfLayer(l), n.g[r]>>
  BY <1>2 DEF Home, Temp
<1>4. CprfCopies(n, b, l) = {<<Temp(n, r, l), Home(n, r, l)>> : r \in R}
  BY <1>1, <1>3 DEF CprfCopies
<1>5. \A r \in R : Temp(n, r, l) \in Cells /\ Home(n, r, l) \in Cells
  BY <1>2, HomesDiffer, TempsDiffer
<1>6. QED
  BY <1>1, <1>4, <1>5

(* Swapping the stored prefills out puts them in their places.               *)
LEMMA SwapOutJob ==
  ASSUME NEW n, NEW S, NEW ln, Fit(n, S, ln), NEW m, NEW v \in [S -> Nat], KvAt(n, S, ln, m, v),
         NEW b \in Bs(n), NEW l \in Depth, Stored(n, m, b, l), At(v, n.batches[b].cprf, l),
         NEW m2, m2 = ApplyTo(n, ln, m, SwapJob(CprfCopies(n, b, l))),
         NEW w, w = Raise(S, v, n.batches[b].cprf, l + 1)
  PROVE  /\ w \in [S -> Nat] /\ KvAt(n, S, ln, m2, w)
         /\ BufsKept(m, m2, {}) /\ TempsKept(n, m, m2, Cprf(n))
<1>1. PICK R \in SUBSET S : R = n.batches[b].cprf
  BY BatchFacts
<1>2. R \subseteq Cprf(n)
  BY <1>1, BatchFacts
<1>3. PICK cc : cc = CprfCopies(n, b, l)
  OBVIOUS
<1>4. cc = {<<Temp(n, r, l), Home(n, r, l)>> : r \in R}
  BY <1>1, <1>3, CprfPairs
<1>5. \A p, q \in cc : p[2] = q[2] => p = q
  <2> TAKE p, q \in cc
  <2>1. PICK r \in R : p = <<Temp(n, r, l), Home(n, r, l)>>
    BY <1>4
  <2>2. PICK u \in R : q = <<Temp(n, u, l), Home(n, u, l)>>
    BY <1>4
  <2>3. Home(n, r, l) = Home(n, u, l) => r = u
    BY <1>1, HomesDiffer
  <2>4. QED
    BY <2>1, <2>2, <2>3
<1>6. /\ \A p \in cc : p[2] \in Cells => m2[p[2]] = m[p[1]]
      /\ \A c \in Cells : (\A p \in cc : p[2] # c) => m2[c] = m[c]
  BY <1>3, <1>5, SwapCopies
<1>7. \A r \in R : m2[Home(n, r, l)] = <<r, ln[r] + 1>>
  <2> TAKE r \in R
  <2>1. PICK p \in cc : p = <<Temp(n, r, l), Home(n, r, l)>>
    BY <1>4
  <2>2. Home(n, r, l) \in Cells
    BY <1>1, HomesDiffer
  <2>3. m2[Home(n, r, l)] = m[Temp(n, r, l)]
    BY <1>6, <2>1, <2>2
  <2>4. r \in Prefs(n.batches[b])
    BY <1>1, InBatch
  <2>5. ln[r] = 0
    BY <2>4 DEF Fit
  <2>6. ln[r] + 1 = 1
    BY <2>5
  <2>7. QED
    BY <1>1, <2>3, <2>6 DEF Stored
<1>8. ASSUME NEW c \in Cells, \A r \in R : c # Home(n, r, l)
      PROVE  m2[c] = m[c]
  <2>1. \A p \in cc : p[2] # c
    BY <1>4, <1>8
  <2>2. QED
    BY <1>6, <2>1
<1>9. ASSUME NEW r \in S, NEW k \in Depth, r \notin R \/ k # l
      PROVE  m2[Home(n, r, k)] = m[Home(n, r, k)]
  <2>1. Home(n, r, k) \in Cells /\ \A q \in R : Home(n, r, k) # Home(n, q, l)
    BY <1>1, <1>9, HomesDiffer
  <2>2. QED
    BY <1>8, <2>1
<1>10. w \in [S -> Nat] /\ KvAt(n, S, ln, m2, w)
  <2>1. Raise(S, v, R, l + 1) \in [S -> Nat] /\ KvAt(n, S, ln, m2, Raise(S, v, R, l + 1))
    <3>1. At(v, R, l)
      BY <1>1
    <3>2. \A r \in S : \A k \in Depth : r \notin R \/ k # l => m2[Home(n, r, k)] = m[Home(n, r, k)]
      BY <1>9
    <3>3. Fit(n, S, ln) /\ v \in [S -> Nat] /\ KvAt(n, S, ln, m, v) /\ l \in Depth
      OBVIOUS
    <3>4. OneMoreLayer(n, S, ln, R, l, m, m2)
      BY <1>7, <3>2 DEF OneMoreLayer
    <3>5. QED
      BY ONLY <3>1, <3>3, <3>4, KvRaised
  <2>2. QED
    BY <1>1, <2>1
<1>11. BufsKept(m, m2, {})
  <2> SUFFICES ASSUME NEW c \in Bufs
               PROVE  m2[c] = m[c]
    BY DEF BufsKept
  <2>1. \A r \in R : c # Home(n, r, l)
    BY <1>1, HomesDiffer
  <2>2. QED
    BY <1>8, <2>1, BufsAre
<1>12. TempsKept(n, m, m2, Cprf(n))
  <2> SUFFICES ASSUME NEW r \in Cprf(n), NEW k \in Depth
               PROVE  m2[Temp(n, r, k)] = m[Temp(n, r, k)]
    BY DEF TempsKept
  <2>1. Temp(n, r, k) \in Cells /\ \A q \in R : Temp(n, r, k) # Home(n, q, l)
    BY <1>1, TempsDiffer
  <2>2. QED
    BY <1>8, <2>1
<1>13. QED
  BY <1>10, <1>11, <1>12

-------------------------------------------------------------------------------
\* Which jobs clash.

\* A swap of KV, whatever its blocks.
KvCells == {c \in Cells : c \notin Bufs}
KvSwaps == {j \in Jobs : j.kind = "swap" /\ j.copies \in SUBSET (KvCells \X KvCells)}

(* What the jobs read are cells.                                             *)
LEMMA ReadsCells ==
  ASSUME NEW n, NEW S, NEW ln, Fit(n, S, ln), NEW b \in Bs(n), NEW l \in Depth
  PROVE  /\ Reads(n, Job("embed", b, 0)) \subseteq Cells
         /\ Reads(n, Job("preproj", b, l)) \subseteq Cells
         /\ Reads(n, Job("store", b, l)) \subseteq Cells
         /\ Reads(n, Job("attention", b, l)) \subseteq Cells
         /\ Reads(n, Job("send_qkv", b, l)) \subseteq Cells
         /\ Reads(n, Job("cpu", b, l)) \subseteq Cells
         /\ Reads(n, Job("send_o", b, l)) \subseteq Cells
         /\ Reads(n, Job("postproj", b, l)) \subseteq Cells
<1>1. b \in {1, 2}
  BY BatchFacts
<1>2. {<<"qkv", b>>, <<"o_gpu", b>>, <<"o_cpu", b>>, <<"emb", b>>, <<"qkv_cpu">>, <<"out_cpu">>} \subseteq Cells
  BY <1>1 DEF Cells
<1>3. GdecCells(n, b, l) \subseteq Cells
  <2>1. \A r \in n.batches[b].gdec : <<"k_cache", l, n.g[r]>> = Home(n, r, l) /\ Home(n, r, l) \in Cells
    BY BatchFacts, HomesDiffer DEF Home
  <2>2. QED
    BY <2>1 DEF GdecCells
<1>4. CdecCells(n, b, l) \subseteq Cells
  <2>1. \A r \in n.batches[b].cdec : <<"k_swap", l, n.c[r]>> = Home(n, r, l) /\ Home(n, r, l) \in Cells
    BY BatchFacts, HomesDiffer DEF Home
  <2>2. QED
    BY <2>1 DEF CdecCells
<1>5. /\ Reads(n, Job("embed", b, 0)) = {}
      /\ Reads(n, Job("preproj", b, l)) = {<<"emb", b>>}
      /\ Reads(n, Job("store", b, l)) = {<<"qkv", b>>}
      /\ Reads(n, Job("attention", b, l)) = {<<"qkv", b>>} \union GdecCells(n, b, l)
      /\ Reads(n, Job("send_qkv", b, l)) = {<<"qkv", b>>}
      /\ Reads(n, Job("cpu", b, l)) = {<<"qkv_cpu">>} \union CdecCells(n, b, l)
      /\ Reads(n, Job("send_o", b, l)) = {<<"out_cpu">>}
      /\ Reads(n, Job("postproj", b, l)) = {<<"o_gpu", b>>, <<"o_cpu", b>>}
  BY DEF Reads, Job
<1>6. QED
  BY <1>2, <1>3, <1>4, <1>5

\* The jobs of one kind and batch.
Of(kind, b) == {Job(kind, b, l) : l \in Depth}

(* What the jobs that use only buffers use.                                  *)
LEMMA BufJobs ==
  ASSUME NEW n, NEW b \in {1, 2}, NEW l
  PROVE  /\ Reads(n, Job("embed", b, l)) = {} /\ Writes(n, Job("embed", b, l)) = {<<"emb", b>>}
         /\ Reads(n, Job("preproj", b, l)) = {<<"emb", b>>}
         /\ Writes(n, Job("preproj", b, l)) = {<<"qkv", b>>}
         /\ Reads(n, Job("send_qkv", b, l)) = {<<"qkv", b>>}
         /\ Writes(n, Job("send_qkv", b, l)) = {<<"qkv_cpu">>}
         /\ Reads(n, Job("send_o", b, l)) = {<<"out_cpu">>}
         /\ Writes(n, Job("send_o", b, l)) = {<<"o_cpu", b>>}
         /\ Reads(n, Job("postproj", b, l)) = {<<"o_gpu", b>>, <<"o_cpu", b>>}
         /\ Writes(n, Job("postproj", b, l)) = {<<"emb", b>>}
  BY DEF Reads, Writes, Job

(* All of it is buffers.                                                     *)
LEMMA BufJobsBufs ==
  ASSUME NEW n, NEW b \in {1, 2}, NEW l,
         NEW kind \in {"embed", "preproj", "send_qkv", "send_o", "postproj"}
  PROVE  Reads(n, Job(kind, b, l)) \subseteq Bufs /\ Writes(n, Job(kind, b, l)) \subseteq Bufs
<1>1. {<<"qkv", b>>, <<"o_gpu", b>>, <<"o_cpu", b>>, <<"emb", b>>, <<"qkv_cpu">>, <<"out_cpu">>} \subseteq Bufs
  BY DEF Bufs
<1>2. QED
  BY <1>1, BufJobs

(* A swap uses only KV.                                                      *)
LEMMA SwapsKv ==
  ASSUME NEW n, NEW k \in KvSwaps
  PROVE  /\ \A c \in Reads(n, k) \union Writes(n, k) : c \notin Bufs
         /\ Reads(n, k) \subseteq Cells
<1>1. k.kind = "swap" /\ k.copies \in SUBSET (KvCells \X KvCells)
  BY DEF KvSwaps
<1>2. Reads(n, k) = {p[1] : p \in k.copies} /\ Writes(n, k) = {p[2] : p \in k.copies}
  BY <1>1 DEF Reads, Writes
<1>3. \A p \in k.copies : p[1] \in KvCells /\ p[2] \in KvCells
  BY <1>1
<1>4. QED
  BY <1>2, <1>3 DEF KvCells

(* Jobs that use only buffers are apart from swaps.                          *)
LEMMA BufsApartSwaps ==
  ASSUME NEW n, NEW b \in {1, 2}, NEW l, NEW k \in KvSwaps,
         NEW kind \in {"embed", "preproj", "send_qkv", "send_o", "postproj"}
  PROVE  ~Clash(n, Job(kind, b, l), k)
<1>1. PICK j : j = Job(kind, b, l)
  OBVIOUS
<1>2. Reads(n, j) \subseteq Bufs /\ Writes(n, j) \subseteq Bufs
  BY <1>1, BufJobsBufs
<1>3. \A c \in Reads(n, k) \union Writes(n, k) : c \notin Bufs
  BY SwapsKv
<1>4. ~Clash(n, j, k)
  BY <1>2, <1>3 DEF Clash
<1>5. QED
  BY <1>1, <1>4

(* A batch's projections are apart from sending the other's q, k and v.      *)
LEMMA ProjApartSend ==
  ASSUME NEW n, NEW b \in {1, 2}, NEW d \in {1, 2}, b # d, NEW l, NEW k
  PROVE  /\ ~Clash(n, Job("preproj", b, l), Job("send_qkv", d, k))
         /\ ~Clash(n, Job("postproj", b, l), Job("send_qkv", d, k))
<1>1. /\ <<"qkv", b>> # <<"qkv", d>> /\ <<"emb", b>> # <<"qkv", d>>
      /\ \A kind \in {"qkv", "emb", "o_gpu", "o_cpu"} : <<kind, b>> # <<"qkv_cpu">>
  OBVIOUS
<1>2. QED
  BY <1>1, BufJobs DEF Clash

(* Attention's footprint.                                                    *)
LEMMA AttentionUses ==
  ASSUME NEW n, NEW S, NEW ln, Fit(n, S, ln), NEW b \in Bs(n), NEW l \in Depth
  PROVE  /\ \A c \in Reads(n, Job("attention", b, l)) \union Writes(n, Job("attention", b, l)) :
               \/ c = <<"qkv", b>> /\ c \notin Writes(n, Job("attention", b, l))
               \/ c = <<"o_gpu", b>>
               \/ \E r \in n.batches[b].gdec : c = Home(n, r, l)
         /\ \A c \in Reads(n, Job("cpu", b, l)) \union Writes(n, Job("cpu", b, l)) :
               \/ c \in {<<"qkv_cpu">>, <<"out_cpu">>}
               \/ \E r \in n.batches[b].cdec : c = Home(n, r, l)
<1>1. PICK j : j = Job("attention", b, l)
  OBVIOUS
<1>2. j.kind = "attention" /\ j.b = b /\ j.l = l
  BY <1>1 DEF Job
<1>3. \A r \in n.batches[b].gdec : <<"k_cache", l, n.g[r]>> = Home(n, r, l)
  BY BatchFacts DEF Home
<1>4. GdecCells(n, b, l) = {Home(n, r, l) : r \in n.batches[b].gdec}
  BY <1>3 DEF GdecCells
<1>5. /\ Reads(n, j) = {<<"qkv", b>>} \union GdecCells(n, b, l)
      /\ Writes(n, j) = {<<"o_gpu", b>>} \union GdecCells(n, b, l)
  BY <1>2 DEF Reads, Writes
<1>6. <<"qkv", b>> \in Bufs /\ \A r \in n.batches[b].gdec : Home(n, r, l) \notin Bufs
  BY BatchFacts, HomesDiffer DEF Bufs
<1>7. PICK k : k = Job("cpu", b, l)
  OBVIOUS
<1>8. k.kind = "cpu" /\ k.b = b /\ k.l = l
  BY <1>7 DEF Job
<1>9. \A r \in n.batches[b].cdec : <<"k_swap", l, n.c[r]>> = Home(n, r, l)
  BY BatchFacts DEF Home
<1>10. CdecCells(n, b, l) = {Home(n, r, l) : r \in n.batches[b].cdec}
  BY <1>9 DEF CdecCells
<1>11. /\ Reads(n, k) = {<<"qkv_cpu">>} \union CdecCells(n, b, l)
       /\ Writes(n, k) = {<<"out_cpu">>} \union CdecCells(n, b, l)
  BY <1>8 DEF Reads, Writes
<1>12. \A c \in Reads(n, j) \union Writes(n, j) :
               \/ c = <<"qkv", b>> /\ c \notin Writes(n, j)
               \/ c = <<"o_gpu", b>>
               \/ \E r \in n.batches[b].gdec : c = Home(n, r, l)
  <2> TAKE c \in Reads(n, j) \union Writes(n, j)
  <2>1. c = <<"qkv", b>> \/ c = <<"o_gpu", b>> \/ \E r \in n.batches[b].gdec : c = Home(n, r, l)
    BY <1>4, <1>5
  <2>2. c = <<"qkv", b>> => c # <<"o_gpu", b>> /\ \A r \in n.batches[b].gdec : c # Home(n, r, l)
    BY <1>6
  <2>3. QED
    BY <1>4, <1>5, <2>1, <2>2
<1>13. \A c \in Reads(n, k) \union Writes(n, k) :
               \/ c \in {<<"qkv_cpu">>, <<"out_cpu">>}
               \/ \E r \in n.batches[b].cdec : c = Home(n, r, l)
  BY <1>10, <1>11
<1>14. QED
  BY <1>1, <1>7, <1>12, <1>13

(* It is apart from sending the same q, k and v to the CPU, which only reads *)
(* them too.                                                                 *)
LEMMA AttentionApartSend ==
  ASSUME NEW n, NEW S, NEW ln, Fit(n, S, ln), NEW b \in Bs(n), NEW l \in Depth, NEW k
  PROVE  ~Clash(n, Job("attention", b, l), Job("send_qkv", b, k))
<1>1. PICK j : j = Job("attention", b, l)
  OBVIOUS
<1>2. \A c \in Reads(n, j) \union Writes(n, j) :
               \/ c = <<"qkv", b>> /\ c \notin Writes(n, j)
               \/ c = <<"o_gpu", b>>
               \/ \E r \in n.batches[b].gdec : c = Home(n, r, l)
  BY <1>1, AttentionUses
<1>3. b \in {1, 2} /\ \A r \in n.batches[b].gdec : Home(n, r, l) \notin Bufs
  BY BatchFacts, HomesDiffer
<1>4. /\ Reads(n, Job("send_qkv", b, k)) = {<<"qkv", b>>}
      /\ Writes(n, Job("send_qkv", b, k)) = {<<"qkv_cpu">>}
  BY <1>3, BufJobs
<1>5. /\ <<"qkv", b>> \in Bufs /\ <<"qkv_cpu">> \in Bufs
      /\ <<"qkv", b>> # <<"qkv_cpu">> /\ <<"qkv", b>> # <<"o_gpu", b>> /\ <<"o_gpu", b>> # <<"qkv_cpu">>
  BY <1>3 DEF Bufs
<1>6. ~Clash(n, j, Job("send_qkv", b, k))
  <2>1. \A c \in Reads(n, j) \union Writes(n, j) : c # <<"qkv_cpu">>
    BY <1>2, <1>3, <1>5
  <2>2. <<"qkv", b>> \notin Writes(n, j)
    BY <1>2, <1>3, <1>5
  <2>3. QED
    BY <1>4, <2>1, <2>2 DEF Clash
<1>7. QED
  BY <1>1, <1>6

(* Swapping prefills out is apart from every attention.                      *)
LEMMA SwapOutApart ==
  ASSUME NEW n, NEW S, NEW ln, Fit(n, S, ln), NEW b \in Bs(n), NEW d \in Bs(n),
         NEW l \in Depth, NEW k \in Depth
  PROVE  /\ SwapJob(CprfCopies(n, b, l)) \in KvSwaps
         /\ ~Clash(n, Job("attention", d, k), SwapJob(CprfCopies(n, b, l)))
         /\ ~Clash(n, Job("cpu", d, k), SwapJob(CprfCopies(n, b, l)))
<1>1. PICK R \in SUBSET S : R = n.batches[b].cprf
  BY BatchFacts
<1>2. R \subseteq Cprf(n)
  BY <1>1, BatchFacts
<1>3. PICK cc : cc = CprfCopies(n, b, l)
  OBVIOUS
<1>4. cc = {<<Temp(n, r, l), Home(n, r, l)>> : r \in R}
  BY <1>1, <1>3, CprfPairs
<1>5. PICK w : w = SwapJob(cc)
  OBVIOUS
<1>6. w.kind = "swap" /\ w.copies = cc
  BY <1>5 DEF SwapJob
<1>7. \A r \in R : /\ Temp(n, r, l) \in Cells /\ Temp(n, r, l) \notin Bufs
                   /\ Home(n, r, l) \in Cells /\ Home(n, r, l) \notin Bufs
  BY <1>1, <1>2, HomesDiffer, TempsDiffer
<1>8. w \in KvSwaps
  <2>1. cc \in SUBSET (KvCells \X KvCells)
    BY <1>4, <1>7 DEF KvCells
  <2>2. KvCells \subseteq Cells
    BY DEF KvCells
  <2>3. cc \in SUBSET (Cells \X Cells)
    BY <2>1, <2>2
  <2>4. 0 \in 0 .. Layers - 1
    BY PipelineAssumption
  <2>5. w \in Jobs
    BY <1>5, <2>3, <2>4 DEF SwapJob, Jobs, CommKinds
  <2>6. QED
    BY <1>6, <2>1, <2>5 DEF KvSwaps
<1>9. \A c \in Reads(n, w) \union Writes(n, w) :
         \E r \in R : c = Temp(n, r, l) \/ c = Home(n, r, l)
  <2>1. Reads(n, w) = {p[1] : p \in cc} /\ Writes(n, w) = {p[2] : p \in cc}
    BY <1>6 DEF Reads, Writes
  <2>2. QED
    BY <1>4, <2>1
<1>10. n.batches[d].gdec \subseteq S /\ n.batches[d].cdec \subseteq S
       /\ n.batches[d].gdec \intersect R = {} /\ n.batches[d].cdec \intersect R = {}
  <2>1. n.batches[d].gdec \subseteq OnGpu(n) /\ n.batches[d].gdec \subseteq S /\ n.batches[d].cdec \subseteq S
    BY BatchFacts
  <2>2. QED
    BY <1>2, <2>1 DEF Fit
<1>11. ASSUME NEW T \in SUBSET S, T \intersect R = {}, NEW q \in T
       PROVE  Home(n, q, k) \notin Reads(n, w) \union Writes(n, w)
  <2>1. \A r \in R : Home(n, q, k) # Home(n, r, l)
    BY <1>1, <1>11, HomesDiffer
  <2>2. \A r \in R : Home(n, q, k) # Temp(n, r, l)
    BY <1>2, <1>11, TempsDiffer
  <2>3. QED
    BY <1>9, <2>1, <2>2
<1>12. \A c \in Bufs : c \notin Reads(n, w) \union Writes(n, w)
  BY <1>7, <1>9
<1>13. ~Clash(n, Job("attention", d, k), w)
  <2>1. PICK j : j = Job("attention", d, k)
    OBVIOUS
  <2>2. \A c \in Reads(n, j) \union Writes(n, j) :
               \/ c \in {<<"qkv", d>>, <<"o_gpu", d>>}
               \/ \E r \in n.batches[d].gdec : c = Home(n, r, k)
    BY <2>1, AttentionUses
  <2>3. {<<"qkv", d>>, <<"o_gpu", d>>} \subseteq Bufs
    BY BatchFacts DEF Bufs
  <2>4. \A c \in Reads(n, j) \union Writes(n, j) : c \notin Reads(n, w) \union Writes(n, w)
    BY <1>10, <1>11, <1>12, <2>2, <2>3
  <2>5. ~Clash(n, j, w)
    BY <2>4 DEF Clash
  <2>6. QED
    BY <2>1, <2>5
<1>14. ~Clash(n, Job("cpu", d, k), w)
  <2>1. PICK j : j = Job("cpu", d, k)
    OBVIOUS
  <2>2. \A c \in Reads(n, j) \union Writes(n, j) :
               \/ c \in {<<"qkv_cpu">>, <<"out_cpu">>}
               \/ \E r \in n.batches[d].cdec : c = Home(n, r, k)
    BY <2>1, AttentionUses
  <2>3. {<<"qkv_cpu">>, <<"out_cpu">>} \subseteq Bufs
    BY DEF Bufs
  <2>4. \A c \in Reads(n, j) \union Writes(n, j) : c \notin Reads(n, w) \union Writes(n, w)
    BY <1>10, <1>11, <1>12, <2>2, <2>3
  <2>5. ~Clash(n, j, w)
    BY <2>4 DEF Clash
  <2>6. QED
    BY <2>1, <2>5
<1>15. QED
  BY <1>3, <1>5, <1>8, <1>13, <1>14

(* Sending the CPU's output back is apart from all that may run on the GPU   *)
(* meanwhile.                                                                *)
LEMMA SendOApart ==
  ASSUME NEW n, NEW S, NEW ln, Fit(n, S, ln), NEW b \in Bs(n), NEW d \in Bs(n),
         NEW l, NEW k \in Depth
  PROVE  /\ ~Clash(n, Job("send_o", b, l), Job("preproj", d, k))
         /\ ~Clash(n, Job("send_o", b, l), Job("store", d, k))
         /\ ~Clash(n, Job("send_o", b, l), Job("attention", d, k))
         /\ b # d => ~Clash(n, Job("send_o", b, l), Job("postproj", d, k))
<1>1. b \in {1, 2} /\ d \in {1, 2}
  BY BatchFacts
<1>2. PICK j : j = Job("send_o", b, l)
  OBVIOUS
<1>3. Reads(n, j) = {<<"out_cpu">>} /\ Writes(n, j) = {<<"o_cpu", b>>}
  BY <1>1, <1>2, BufJobs
<1>4. <<"out_cpu">> \in Bufs /\ <<"o_cpu", b>> \in Bufs
  BY <1>1 DEF Bufs
<1>5. \A kind \in {"qkv", "emb", "o_gpu", "o_cpu"} : <<kind, d>> # <<"out_cpu">>
  OBVIOUS
<1>6. ~Clash(n, j, Job("preproj", d, k))
  <2>1. <<"o_cpu", b>> # <<"emb", d>> /\ <<"o_cpu", b>> # <<"qkv", d>>
    OBVIOUS
  <2>2. QED
    BY <1>1, <1>3, <1>5, <2>1, BufJobs DEF Clash
<1>7. b # d => ~Clash(n, j, Job("postproj", d, k))
  <2>1. <<"o_cpu", b>> # <<"emb", d>> /\ <<"o_cpu", b>> # <<"o_gpu", d>>
        /\ (b # d => <<"o_cpu", b>> # <<"o_cpu", d>>)
    OBVIOUS
  <2>2. QED
    BY <1>1, <1>3, <1>5, <2>1, BufJobs DEF Clash
<1>8. ~Clash(n, j, Job("attention", d, k))
  <2>1. PICK i : i = Job("attention", d, k)
    OBVIOUS
  <2>2. \A c \in Reads(n, i) \union Writes(n, i) :
               \/ c \in {<<"qkv", d>>, <<"o_gpu", d>>}
               \/ \E r \in n.batches[d].gdec : c = Home(n, r, k)
    BY <2>1, AttentionUses
  <2>3. \A r \in n.batches[d].gdec : Home(n, r, k) \notin Bufs
    BY BatchFacts, HomesDiffer
  <2>4. <<"o_cpu", b>> # <<"qkv", d>> /\ <<"o_cpu", b>> # <<"o_gpu", d>>
    OBVIOUS
  <2>5. \A c \in Reads(n, i) \union Writes(n, i) : c # <<"out_cpu">> /\ c # <<"o_cpu", b>>
    BY <1>4, <1>5, <2>2, <2>3, <2>4
  <2>6. ~Clash(n, j, i)
    BY <1>3, <2>5 DEF Clash
  <2>7. QED
    BY <2>1, <2>6
<1>9. ~Clash(n, j, Job("store", d, k))
  <2>1. PICK i : i = Job("store", d, k)
    OBVIOUS
  <2>2. i.kind = "store" /\ i.b = d /\ i.l = k
    BY <2>1 DEF Job
  <2>3. Reads(n, i) = {<<"qkv", d>>} /\ Writes(n, i) = {PrefCell(n, d, r, k) : r \in Prefs(n.batches[d])}
    BY <2>2 DEF Reads, Writes
  <2>4. \A r \in Prefs(n.batches[d]) : PrefCell(n, d, r, k)[1] = "k_cache"
    BY DEF PrefCell
  <2>5. <<"o_cpu", b>>[1] = "o_cpu" /\ <<"out_cpu">>[1] = "out_cpu" /\ <<"o_cpu", b>> # <<"qkv", d>>
    OBVIOUS
  <2>6. \A c \in Reads(n, i) \union Writes(n, i) : c # <<"out_cpu">> /\ c # <<"o_cpu", b>>
    BY <1>5, <2>3, <2>4, <2>5
  <2>7. ~Clash(n, j, i)
    BY <1>3, <2>6 DEF Clash
  <2>8. QED
    BY <2>1, <2>7
<1>10. QED
  BY <1>2, <1>6, <1>7, <1>8, <1>9

-------------------------------------------------------------------------------
\* Programs, from the parts they are put together of.

\* Everything but the end of the iteration, and what it does to the machine.
Work == {i \in Instr : i.op # "tolist"}
Gets(n, ln, a, prog, c) == prog \in Seq(Work) /\ Safe(n, ln, a, prog, c)

(* Nothing to do.                                                            *)
LEMMA GetsNone ==
  ASSUME NEW n, NEW ln, NEW a
  PROVE  Gets(n, ln, a, <<>>, a)
<1>1. <<>> \in Seq(Work)
  OBVIOUS
<1>2. QED
  BY <1>1, SafeNone DEF Gets

(* One program after the other.                                              *)
LEMMA GetsThen ==
  ASSUME NEW n, NEW ln, NEW a, NEW b, NEW c, NEW p, NEW q,
         Gets(n, ln, a, p, b), Gets(n, ln, b, q, c)
  PROVE  Gets(n, ln, a, p \o q, c)
<1>1. p \in Seq(Work) /\ q \in Seq(Work) /\ Safe(n, ln, a, p, b) /\ Safe(n, ln, b, q, c)
  BY DEF Gets
<1>2. Work \subseteq Instr
  BY DEF Work
<1>3. p \in Seq(Instr) /\ q \in Seq(Instr) /\ p \o q \in Seq(Work)
  BY <1>1, <1>2
<1>4. Safe(n, ln, a, p \o q, c)
  BY ONLY <1>1, <1>3, SafeThen
<1>5. QED
  BY <1>3, <1>4 DEF Gets

(* One instruction.                                                          *)
LEMMA GetsOne ==
  ASSUME NEW n, NEW ln, NEW a, NEW i \in Work, Ok(n, a, i)
  PROVE  Gets(n, ln, a, <<i>>, Go(n, ln, a, i))
<1>1. i \in Instr
  BY DEF Work
<1>2. Safe(n, ln, a, <<i>>, Go(n, ln, a, i))
  BY <1>1, SafeOne
<1>3. <<i>> \in Seq(Work)
  OBVIOUS
<1>4. QED
  BY <1>2, <1>3 DEF Gets

\* prog takes the machine from a to c, where the memory is m, and D, C and U have
\* not been waited for.
Moved(n, ln, a, prog, c, m, D, C, U) ==
    /\ Gets(n, ln, a, prog, c) /\ c.mem = m
    /\ c.un["default"] = D /\ c.un["comm"] = C /\ c.ur = U

\* The program of one job.
One(s, j) == <<[op |-> s, job |-> j]>>

(* A kernel on the default stream.                                           *)
LEMMA GetsDefault ==
  ASSUME NEW n, NEW ln, NEW a, NEW j \in Jobs, j.kind \in DefaultKinds, Reads(n, j) \subseteq Cells,
         \A k \in a.un["default"] : ~Clash(n, j, k)
  PROVE  \E c : /\ Moved(n, ln, a, One("default", j), c, ApplyTo(n, ln, a.mem, j),
                         a.un["default"], a.un["comm"] \union {j}, a.ur)
                /\ c.fresh
<1>1. PICK i : i = [op |-> "default", job |-> j]
  OBVIOUS
<1>2. i.op = "default" /\ i.job = j
  BY <1>1
<1>3. i \in Work
  BY <1>1 DEF Work, Instr, Ops, Streams
<1>4. Ok(n, a, i)
  BY <1>2 DEF Ok
<1>5. PICK c : c = Go(n, ln, a, i)
  OBVIOUS
<1>6. /\ c.mem = ApplyTo(n, ln, a.mem, j)
      /\ c.un["default"] = a.un["default"] /\ c.un["comm"] = a.un["comm"] \union {j}
      /\ c.ur = a.ur /\ c.fresh
  BY <1>2, <1>5 DEF Go, Streams, OtherStream, Waits
<1>7. Gets(n, ln, a, <<i>>, c)
  BY <1>3, <1>4, <1>5, GetsOne
<1>8. One("default", j) = <<i>>
  BY <1>1 DEF One
<1>9. QED
  BY <1>6, <1>7, <1>8 DEF Moved

(* A copy on the communication stream.                                       *)
LEMMA GetsComm ==
  ASSUME NEW n, NEW ln, NEW a, NEW j \in Jobs, j.kind \in CommKinds, Reads(n, j) \subseteq Cells,
         \A k \in a.un["comm"] : ~Clash(n, j, k)
  PROVE  \E c : Moved(n, ln, a, One("comm", j), c, ApplyTo(n, ln, a.mem, j),
                      a.un["default"] \union {j}, a.un["comm"], a.ur \union {j})
<1>1. PICK i : i = [op |-> "comm", job |-> j]
  OBVIOUS
<1>2. i.op = "comm" /\ i.job = j
  BY <1>1
<1>3. i \in Work
  BY <1>1 DEF Work, Instr, Ops, Streams
<1>4. Ok(n, a, i)
  BY <1>2 DEF Ok
<1>5. PICK c : c = Go(n, ln, a, i)
  OBVIOUS
<1>6. /\ c.mem = ApplyTo(n, ln, a.mem, j)
      /\ c.un["comm"] = a.un["comm"] /\ c.un["default"] = a.un["default"] \union {j}
      /\ c.ur = a.ur \union {j}
  BY <1>2, <1>5 DEF Go, Streams, OtherStream, Waits
<1>7. Gets(n, ln, a, <<i>>, c)
  BY <1>3, <1>4, <1>5, GetsOne
<1>8. One("comm", j) = <<i>>
  BY <1>1 DEF One
<1>9. QED
  BY <1>6, <1>7, <1>8 DEF Moved

(* A job that is nothing but a wait.                                         *)
LEMMA DoWork ==
  ASSUME NEW op \in Ops \ {"tolist"}, NEW b \in {1, 2}, NEW l \in Depth
  PROVE  \E i \in Work : i.op = op /\ i.job = Job("cpu", b, l) /\ Do(op, b, l) = <<i>>
<1>1. PICK i : i = [op |-> op, job |-> Job("cpu", b, l)]
  OBVIOUS
<1>2. Job("cpu", b, l) \in Jobs
  BY JobIs
<1>3. i \in Work
  BY <1>1, <1>2 DEF Work, Instr
<1>4. i.op = op /\ i.job = Job("cpu", b, l) /\ Do(op, b, l) = <<i>>
  BY <1>1 DEF Do
<1>5. QED
  BY <1>3, <1>4

(* The default stream waits for the other.                                   *)
LEMMA GetsComputeWaits ==
  ASSUME NEW n, NEW ln, NEW a
  PROVE  \E c : Moved(n, ln, a, ComputeWaitComm, c, a.mem, {}, a.un["comm"], a.ur)
<1>0. 0 \in Depth
  BY PipelineAssumption DEF Depth
<1>1. PICK i \in Work : i.op = "default_waits" /\ ComputeWaitComm = <<i>>
  <2>1. "default_waits" \in Ops \ {"tolist"}
    BY DEF Ops
  <2>2. QED
    BY <1>0, <2>1, DoWork DEF ComputeWaitComm
<1>2. Ok(n, a, i)
  BY <1>1 DEF Ok, Streams
<1>3. PICK c : c = Go(n, ln, a, i)
  OBVIOUS
<1>4. /\ c.mem = a.mem /\ c.un["default"] = {} /\ c.un["comm"] = a.un["comm"]
      /\ c.ur = a.ur
  BY <1>1, <1>3 DEF Go, Streams, OtherStream, Waits
<1>5. Gets(n, ln, a, <<i>>, c)
  BY <1>2, <1>3, GetsOne
<1>6. QED
  BY <1>1, <1>4, <1>5 DEF Moved

(* The communication stream waits for the default one.                       *)
LEMMA GetsCommWaits ==
  ASSUME NEW n, NEW ln, NEW a
  PROVE  \E c : Moved(n, ln, a, CommWaitCompute, c, a.mem, a.un["default"], {}, a.ur)
<1>0. 0 \in Depth
  BY PipelineAssumption DEF Depth
<1>1. PICK i \in Work : i.op = "comm_waits" /\ CommWaitCompute = <<i>>
  <2>1. "comm_waits" \in Ops \ {"tolist"}
    BY DEF Ops
  <2>2. QED
    BY <1>0, <2>1, DoWork DEF CommWaitCompute
<1>2. Ok(n, a, i)
  BY <1>1 DEF Ok, Streams
<1>3. PICK c : c = Go(n, ln, a, i)
  OBVIOUS
<1>4. /\ c.mem = a.mem /\ c.un["comm"] = {} /\ c.un["default"] = a.un["default"]
      /\ c.ur = a.ur
  BY <1>1, <1>3 DEF Go, Streams, OtherStream, Waits
<1>5. Gets(n, ln, a, <<i>>, c)
  BY <1>2, <1>3, GetsOne
<1>6. QED
  BY <1>1, <1>4, <1>5 DEF Moved

(* The event is recorded.                                                    *)
LEMMA GetsRecord ==
  ASSUME NEW n, NEW ln, NEW a, NEW b \in {1, 2}, NEW l \in Depth
  PROVE  \E c : Moved(n, ln, a, Do("record", b, l), c, a.mem, a.un["default"], a.un["comm"], {})
<1>1. PICK i \in Work : i.op = "record" /\ Do("record", b, l) = <<i>>
  <2>1. "record" \in Ops \ {"tolist"}
    BY DEF Ops
  <2>2. QED
    BY <2>1, DoWork
<1>2. Ok(n, a, i)
  BY <1>1 DEF Ok, Streams
<1>3. PICK c : c = Go(n, ln, a, i)
  OBVIOUS
<1>4. /\ c.mem = a.mem /\ c.un["comm"] = a.un["comm"]
      /\ c.un["default"] = a.un["default"] /\ c.ur = {}
  BY <1>1, <1>3 DEF Go, Streams, OtherStream, Waits
<1>5. Gets(n, ln, a, <<i>>, c)
  BY <1>2, <1>3, GetsOne
<1>6. QED
  BY <1>1, <1>4, <1>5 DEF Moved

(* The thread waits for the event, and computes on the CPU what clashes with *)
(* nothing that came after it.                                               *)
LEMMA GetsCpu ==
  ASSUME NEW n, NEW ln, NEW a, NEW b \in {1, 2}, NEW l \in Depth,
         Reads(n, Job("cpu", b, l)) \subseteq Cells,
         \A k \in a.ur : ~Clash(n, Job("cpu", b, l), k)
  PROVE  \E c : Moved(n, ln, a, Do("sync", b, l) \o Do("cpu", b, l), c,
                      ApplyTo(n, ln, a.mem, Job("cpu", b, l)), a.un["default"], a.un["comm"], a.ur)
<1>1. PICK i \in Work : i.op = "sync" /\ Do("sync", b, l) = <<i>>
  <2>1. "sync" \in Ops \ {"tolist"}
    BY DEF Ops
  <2>2. QED
    BY <2>1, DoWork
<1>2. Ok(n, a, i)
  BY <1>1 DEF Ok, Streams
<1>3. PICK c : c = Go(n, ln, a, i)
  OBVIOUS
<1>4. /\ c.mem = a.mem /\ c.un["comm"] = a.un["comm"]
      /\ c.un["default"] = a.un["default"] /\ c.ur = a.ur /\ c.ready
  BY <1>1, <1>3 DEF Go, Streams, OtherStream, Waits
<1>5. Gets(n, ln, a, <<i>>, c)
  BY <1>2, <1>3, GetsOne
<1>6. PICK k \in Work : k.op = "cpu" /\ k.job = Job("cpu", b, l) /\ Do("cpu", b, l) = <<k>>
  <2>1. "cpu" \in Ops \ {"tolist"}
    BY DEF Ops
  <2>2. QED
    BY <2>1, DoWork
<1>7. Job("cpu", b, l).kind = "cpu"
  BY JobIs
<1>8. Ok(n, c, k)
  BY <1>4, <1>6, <1>7 DEF Ok, Streams
<1>9. PICK e : e = Go(n, ln, c, k)
  OBVIOUS
<1>10. /\ e.mem = ApplyTo(n, ln, c.mem, Job("cpu", b, l))
       /\ e.un["comm"] = c.un["comm"] /\ e.un["default"] = c.un["default"] /\ e.ur = c.ur
  BY <1>6, <1>9 DEF Go, Streams, OtherStream, Waits
<1>11. Gets(n, ln, c, <<k>>, e)
  BY <1>8, <1>9, GetsOne
<1>12. Gets(n, ln, a, <<i>> \o <<k>>, e)
  BY <1>5, <1>11, GetsThen
<1>13. QED
  BY <1>1, <1>4, <1>6, <1>10, <1>12 DEF Moved

-------------------------------------------------------------------------------
\* Where a batch is in its forward pass.  v[r] says how many layers have the
\* KV of the new token of r.

\* The machine's memory has what v says, and nothing is new for a request that
\* is in no batch.
Still(n, S, v) == \A r \in S : (\A d \in Bs(n) : r \notin Members(n.batches[d])) => v[r] = 0
St(n, S, ln, m, v) == v \in [S -> Nat] /\ KvAt(n, S, ln, m, v) /\ Still(n, S, v)

\* Batch b has gone through l layers; its q, k and v of layer l are there and
\* its prefills stored; it has attended; and its prefills are swapped out, too.
Through(n, m, v, b, l) == Holds(m, <<"emb", b>>, l) /\ At(v, Members(n.batches[b]), l)
Projected(n, m, v, b, l) ==
    /\ Holds(m, <<"qkv", b>>, l) /\ Stored(n, m, b, l)
    /\ At(v, n.batches[b].gprf, l + 1)
    /\ At(v, n.batches[b].cprf \union n.batches[b].gdec \union n.batches[b].cdec, l)
Attended(n, m, v, b, l) ==
    /\ Att(n, m, b, l) /\ Stored(n, m, b, l)
    /\ At(v, n.batches[b].gprf \union n.batches[b].gdec \union n.batches[b].cdec, l + 1)
    /\ At(v, n.batches[b].cprf, l)
Attending(n, m, v, b, l) == Att(n, m, b, l) /\ At(v, Members(n.batches[b]), l + 1)
\* Its q, k and v are on the CPU, too.
QkvSent(n, m, b, l) == n.batches[b].cdec # {} => HoldsOf(m, <<"qkv_cpu">>, b, l)

\* From m to m2 nothing of batch d changes.
Of4(d) == {<<"emb", d>>, <<"qkv", d>>, <<"o_gpu", d>>, <<"o_cpu", d>>}
Aside(n, m, v, m2, v2, d) ==
    /\ \A c \in Of4(d) : m2[c] = m[c]
    /\ TempsKept(n, m, m2, n.batches[d].cprf)
    /\ \A r \in Members(n.batches[d]) : v2[r] = v[r]
Others(n, m, v, m2, v2, b) == \A d \in Bs(n) : d # b => Aside(n, m, v, m2, v2, d)

(* A batch stays where it is.                                                *)
LEMMA AsideStays ==
  ASSUME NEW n, NEW m, NEW v, NEW m2, NEW v2, NEW d, Aside(n, m, v, m2, v2, d), NEW l
  PROVE  /\ Through(n, m, v, d, l) => Through(n, m2, v2, d, l)
         /\ Attending(n, m, v, d, l) => Attending(n, m2, v2, d, l)
         /\ l \in Depth /\ Projected(n, m, v, d, l) => Projected(n, m2, v2, d, l)
         /\ l \in Depth /\ Attended(n, m, v, d, l) => Attended(n, m2, v2, d, l)
<1>1. /\ m2[<<"emb", d>>] = m[<<"emb", d>>] /\ m2[<<"qkv", d>>] = m[<<"qkv", d>>]
      /\ m2[<<"o_gpu", d>>] = m[<<"o_gpu", d>>] /\ m2[<<"o_cpu", d>>] = m[<<"o_cpu", d>>]
  BY DEF Aside, Of4
<1>2. \A r \in Members(n.batches[d]) : v2[r] = v[r]
  BY DEF Aside
<1>3. \A T \in SUBSET Members(n.batches[d]) : \A k : At(v, T, k) => At(v2, T, k)
  BY <1>2 DEF At
<1>4. /\ Members(n.batches[d]) \in SUBSET Members(n.batches[d])
      /\ n.batches[d].gprf \in SUBSET Members(n.batches[d])
      /\ n.batches[d].cprf \in SUBSET Members(n.batches[d])
      /\ n.batches[d].gprf \union n.batches[d].gdec \union n.batches[d].cdec \in SUBSET Members(n.batches[d])
      /\ n.batches[d].cprf \union n.batches[d].gdec \union n.batches[d].cdec \in SUBSET Members(n.batches[d])
  BY InBatch
<1>5. l \in Depth /\ Stored(n, m, d, l) => Stored(n, m2, d, l)
  BY DEF Stored, Aside, TempsKept
<1>6. Att(n, m, d, l) => Att(n, m2, d, l)
  BY <1>1 DEF Att, Holds, HoldsOf
<1>7. Through(n, m, v, d, l) => Through(n, m2, v2, d, l)
  BY <1>1, <1>3, <1>4 DEF Through, Holds
<1>8. Attending(n, m, v, d, l) => Attending(n, m2, v2, d, l)
  BY <1>3, <1>4, <1>6 DEF Attending
<1>9. l \in Depth /\ Projected(n, m, v, d, l) => Projected(n, m2, v2, d, l)
  BY <1>1, <1>3, <1>4, <1>5 DEF Projected, Holds
<1>10. l \in Depth /\ Attended(n, m, v, d, l) => Attended(n, m2, v2, d, l)
  BY <1>3, <1>4, <1>5, <1>6 DEF Attended
<1>11. QED
  BY <1>7, <1>8, <1>9, <1>10

(* Nothing of the others changes in two steps if it does not in each.        *)
LEMMA OthersThen ==
  ASSUME NEW n, NEW b, NEW m, NEW v, NEW m2, NEW v2, NEW m3, NEW v3,
         Others(n, m, v, m2, v2, b), Others(n, m2, v2, m3, v3, b)
  PROVE  Others(n, m, v, m3, v3, b)
BY DEF Others, Aside, TempsKept

(* Nor if nothing changes at all.                                            *)
LEMMA OthersSame ==
  ASSUME NEW n, NEW b, NEW m, NEW v
  PROVE  Others(n, m, v, m, v, b)
BY DEF Others, Aside, TempsKept

(* A job of batch b leaves the others as they are, if it raises requests of  *)
(* b only and changes no buffer of theirs.                                   *)
LEMMA OthersOf ==
  ASSUME NEW n, NEW S, NEW ln, Fit(n, S, ln), NEW b \in Bs(n), NEW m, NEW m2, NEW v,
         NEW X, BufsKept(m, m2, X), \A d \in {1, 2} : d # b => Of4(d) \intersect X = {},
         TempsKept(n, m, m2, Cprf(n) \ n.batches[b].cprf),
         NEW T \in SUBSET Members(n.batches[b]), NEW l, NEW v2, v2 = Raise(S, v, T, l)
  PROVE  Others(n, m, v, m2, v2, b)
<1> SUFFICES ASSUME NEW d \in Bs(n), d # b
             PROVE  Aside(n, m, v, m2, v2, d)
  BY DEF Others
<1>1. b \in {1, 2} /\ d \in {1, 2}
  BY BatchFacts
<1>2. Members(n.batches[d]) \subseteq S
  BY BatchFacts, InBatch
<1>3. Members(n.batches[d]) \intersect Members(n.batches[b]) = {}
  BY DEF Fit
<1>4. \A r \in Members(n.batches[d]) : v2[r] = v[r]
  BY <1>2, <1>3 DEF Raise
<1>5. Of4(d) \subseteq Bufs
  BY <1>1 DEF Of4, Bufs
<1>6. \A c \in Of4(d) : m2[c] = m[c]
  BY <1>1, <1>5 DEF BufsKept
<1>7. n.batches[d].cprf \subseteq Cprf(n) \ n.batches[b].cprf
  BY <1>3, BatchFacts, InBatch
<1>8. TempsKept(n, m, m2, n.batches[d].cprf)
  BY <1>7 DEF TempsKept
<1>9. QED
  BY <1>4, <1>6, <1>8 DEF Aside

(* Raising requests of a batch is nothing to those in none.                  *)
LEMMA RaiseStill ==
  ASSUME NEW n, NEW S, NEW b \in Bs(n), NEW T \in SUBSET Members(n.batches[b]), NEW v, Still(n, S, v),
         NEW l, NEW v2, v2 = Raise(S, v, T, l)
  PROVE  Still(n, S, v2)
BY DEF Still, Raise

(* A job that only changes one buffer, which is not the others'.             *)
LEMMA OthersBuf ==
  ASSUME NEW n, NEW S, NEW ln, Fit(n, S, ln), NEW b \in Bs(n), NEW m, NEW m2, NEW v, St(n, S, ln, m, v),
         NEW t \in Of4(b) \union {<<"qkv_cpu">>, <<"out_cpu">>}, Only(m, m2, t)
  PROVE  /\ St(n, S, ln, m2, v) /\ Others(n, m, v, m2, v, b)
         /\ BufsKept(m, m2, {t}) /\ TempsKept(n, m, m2, Cprf(n))
<1>1. b \in {1, 2}
  BY BatchFacts
<1>2. t \in Bufs
  BY <1>1 DEF Of4, Bufs
<1>3. /\ KvAt(n, S, ln, m2, v) /\ BufsKept(m, m2, {t}) /\ TempsKept(n, m, m2, Cprf(n))
  BY <1>2, OnlyBuf DEF St
<1>4. \A d \in {1, 2} : d # b => Of4(d) \intersect {t} = {}
  <2>1. \A d : /\ <<"qkv_cpu">> \notin Of4(d) /\ <<"out_cpu">> \notin Of4(d)
    BY DEF Of4
  <2>2. \A d : d # b => Of4(d) \intersect Of4(b) = {}
    BY DEF Of4
  <2>3. QED
    BY <2>1, <2>2
<1>5. v = Raise(S, v, {}, 0)
  BY DEF St, Raise
<1>6. {} \in SUBSET Members(n.batches[b])
  OBVIOUS
<1>7. TempsKept(n, m, m2, Cprf(n) \ n.batches[b].cprf)
  BY <1>3 DEF TempsKept
<1>8. Others(n, m, v, m2, v, b)
  BY ONLY Fit(n, S, ln), <1>3, <1>4, <1>5, <1>6, <1>7, OthersOf
<1>9. QED
  BY <1>3, <1>8 DEF St

-------------------------------------------------------------------------------
\* What each part of a layer does, from any place in the program where it is.

(* The requests that are raised are one layer further, and the others where  *)
(* they were.                                                                *)
LEMMA RaiseAt ==
  ASSUME NEW S, NEW v \in [S -> Nat], NEW T \in SUBSET S, NEW l, NEW w, w = Raise(S, v, T, l)
  PROVE  /\ At(w, T, l)
         /\ \A U \in SUBSET S : U \intersect T = {} => \A k : At(v, U, k) => At(w, U, k)
<1>1. \A r \in S : w[r] = IF r \in T THEN l ELSE v[r]
  BY DEF Raise
<1>2. At(w, T, l)
  BY <1>1 DEF At
<1>3. ASSUME NEW U \in SUBSET S, U \intersect T = {}, NEW k, At(v, U, k)
      PROVE  At(w, U, k)
  BY <1>1, <1>3 DEF At
<1>4. QED
  BY <1>2, <1>3

(* The members of a batch, one part after the other.                         *)
LEMMA AtMembers ==
  ASSUME NEW n, NEW b, NEW v, NEW l
  PROVE  At(v, Members(n.batches[b]), l) <=>
           /\ At(v, n.batches[b].cprf, l) /\ At(v, n.batches[b].gprf, l)
           /\ At(v, n.batches[b].gdec, l) /\ At(v, n.batches[b].cdec, l)
BY InBatch DEF At

\* prog takes the machine from a to c and the layers from v to w, and leaves the
\* batches other than b as they are.
Runs(n, S, ln, a, v, b, prog, c, w) ==
    Gets(n, ln, a, prog, c) /\ St(n, S, ln, c.mem, w) /\ Others(n, a.mem, v, c.mem, w, b)
\* What comes between leaves the q, k and v on the CPU alone.
SameSent(a, c) == c.mem[<<"qkv_cpu">>] = a.mem[<<"qkv_cpu">>]
\* Jobs not waited for at c are those not waited for at a, or new ones.
Unwaited(a, c, D, C, U) ==
    /\ c.un["default"] \subseteq a.un["default"] \union D
    /\ c.un["comm"] \subseteq a.un["comm"] \union C
    /\ c.ur \subseteq a.ur \union U

(* One part after the other.                                                 *)
LEMMA RunsThen ==
  ASSUME NEW n, NEW S, NEW ln, NEW b, NEW a, NEW v, NEW c, NEW w, NEW e, NEW x, NEW p, NEW q,
         Runs(n, S, ln, a, v, b, p, c, w), Runs(n, S, ln, c, w, b, q, e, x)
  PROVE  Runs(n, S, ln, a, v, b, p \o q, e, x)
<1>1. /\ Gets(n, ln, a, p, c) /\ Others(n, a.mem, v, c.mem, w, b)
      /\ Gets(n, ln, c, q, e) /\ St(n, S, ln, e.mem, x) /\ Others(n, c.mem, w, e.mem, x, b)
  BY DEF Runs
<1>2. Gets(n, ln, a, p \o q, e)
  BY <1>1, GetsThen
<1>3. Others(n, a.mem, v, e.mem, x, b)
  BY <1>1, OthersThen
<1>4. QED
  BY <1>1, <1>2, <1>3 DEF Runs

(* Nothing to do.                                                            *)
LEMMA RunsNone ==
  ASSUME NEW n, NEW S, NEW ln, NEW b, NEW a, NEW v, St(n, S, ln, a.mem, v)
  PROVE  Runs(n, S, ln, a, v, b, <<>>, a, v) /\ SameSent(a, a) /\ \A D, C, U : Unwaited(a, a, D, C, U)
BY GetsNone, OthersSame DEF Runs, SameSent, Unwaited

(* A wait.                                                                   *)
LEMMA RunsSame ==
  ASSUME NEW n, NEW S, NEW ln, NEW b, NEW a, NEW v, St(n, S, ln, a.mem, v), NEW p,
         NEW c, NEW D, NEW C, NEW U, Moved(n, ln, a, p, c, a.mem, D, C, U)
  PROVE  Runs(n, S, ln, a, v, b, p, c, v) /\ SameSent(a, c)
BY OthersSame DEF Runs, SameSent, Moved

\* The program that stores the KV of the prefills.
Storing(n, b, l) == When(Prefs(n.batches[b]) # {}, ComputeWaitComm \o On("default", "store", b, l))

(* Storing the KV of the prefills, once everything on the other stream that  *)
(* may use it is waited for.                                                 *)
LEMMA StoreRuns ==
  ASSUME NEW n, NEW S, NEW ln, Fit(n, S, ln), NEW a, NEW v, St(n, S, ln, a.mem, v),
         NEW b \in Bs(n), NEW l \in Depth,
         Holds(a.mem, <<"qkv", b>>, l), At(v, Members(n.batches[b]), l)
  PROVE  \E c, w :
           /\ Runs(n, S, ln, a, v, b, Storing(n, b, l), c, w) /\ SameSent(a, c)
           /\ Projected(n, c.mem, w, b, l) /\ Unwaited(a, c, {}, Of("store", b), {})
<1> DEFINE R == Prefs(n.batches[b])
<1>0. /\ n.batches[b].cprf \subseteq S /\ n.batches[b].gprf \subseteq S
      /\ n.batches[b].gdec \subseteq S /\ n.batches[b].cdec \subseteq S
      /\ n.batches[b].gprf \intersect (n.batches[b].cprf \union n.batches[b].gdec \union n.batches[b].cdec) = {}
      /\ b \in {1, 2}
  BY BatchFacts
<1>1. /\ At(v, n.batches[b].cprf, l) /\ At(v, n.batches[b].gprf, l)
      /\ At(v, n.batches[b].cprf \union n.batches[b].gdec \union n.batches[b].cdec, l)
  <2>1. /\ At(v, n.batches[b].cprf, l) /\ At(v, n.batches[b].gprf, l)
        /\ At(v, n.batches[b].gdec, l) /\ At(v, n.batches[b].cdec, l)
    BY AtMembers
  <2>2. QED
    BY <2>1 DEF At
<1>2. CASE R = {}
  <2>1. n.batches[b].cprf = {} /\ n.batches[b].gprf = {}
    BY <1>2 DEF Prefs
  <2>2. Stored(n, a.mem, b, l) /\ At(v, n.batches[b].gprf, l + 1)
    BY <2>1 DEF Stored, At
  <2>3. Projected(n, a.mem, v, b, l)
    BY <1>1, <2>2 DEF Projected
  <2>4. Storing(n, b, l) = <<>>
    BY <1>2 DEF When, Storing
  <2>5. QED
    BY <2>3, <2>4, RunsNone
<1>3. CASE R # {}
  <2>1. PICK c1 : Moved(n, ln, a, ComputeWaitComm, c1, a.mem, {}, a.un["comm"], a.ur)
    BY GetsComputeWaits
  <2>2. PICK j \in Jobs : j = Job("store", b, l) /\ j.kind = "store"
    BY <1>0, JobIs DEF DefaultKinds
  <2>3. Reads(n, j) \subseteq Cells
    BY <2>2, ReadsCells
  <2>4. PICK c : Moved(n, ln, c1, One("default", j), c, ApplyTo(n, ln, c1.mem, j),
                       c1.un["default"], c1.un["comm"] \union {j}, c1.ur)
    <3>1. j.kind \in DefaultKinds
      BY <2>2 DEF DefaultKinds
    <3>2. \A k \in c1.un["default"] : ~Clash(n, j, k)
      BY <2>1 DEF Moved
    <3>3. QED
      BY <2>3, <3>1, <3>2, GetsDefault
  <2>5. One("default", j) = On("default", "store", b, l)
    BY <2>2 DEF One, On
  <2>6. Storing(n, b, l) = ComputeWaitComm \o One("default", j)
    BY <1>3, <2>5 DEF When, Storing
  <2>7. /\ Gets(n, ln, a, ComputeWaitComm, c1) /\ Gets(n, ln, c1, One("default", j), c)
        /\ c.mem = ApplyTo(n, ln, a.mem, Job("store", b, l))
        /\ c.un["default"] = {} /\ c.un["comm"] = a.un["comm"] \union {j} /\ c.ur = a.ur
    BY <2>1, <2>2, <2>4 DEF Moved
  <2>8. PICK w : w = Raise(S, v, n.batches[b].gprf, l + 1)
    OBVIOUS
  <2>9. /\ Stored(n, c.mem, b, l) /\ w \in [S -> Nat] /\ KvAt(n, S, ln, c.mem, w)
        /\ BufsKept(a.mem, c.mem, {}) /\ TempsKept(n, a.mem, c.mem, Cprf(n) \ n.batches[b].cprf)
    <3>0. b \in Bs(n) /\ l \in Depth /\ Holds(a.mem, <<"qkv", b>>, l)
      OBVIOUS
    <3>1. c.mem = ApplyTo(n, ln, a.mem, Job("store", b, l))
      BY <2>7
    <3>2. v \in [S -> Nat] /\ KvAt(n, S, ln, a.mem, v)
      BY DEF St
    <3>3. At(v, n.batches[b].gprf, l)
      BY <1>1
    <3>4. PICK m, m2 : m = a.mem /\ m2 = c.mem
      OBVIOUS
    <3>5. b \in Bs(n) /\ l \in Depth
      OBVIOUS
    <3>6. Holds(m, <<"qkv", b>>, l)
      BY <3>4
    <3>7. m2 = ApplyTo(n, ln, m, Job("store", b, l))
      BY <3>1, <3>4
    <3>8. v \in [S -> Nat]
      BY <3>2
    <3>9. KvAt(n, S, ln, m, v)
      BY <3>2, <3>4
    <3>10. /\ Stored(n, m2, b, l) /\ w \in [S -> Nat] /\ KvAt(n, S, ln, m2, w)
           /\ BufsKept(m, m2, {}) /\ TempsKept(n, m, m2, Cprf(n) \ n.batches[b].cprf)
      BY ONLY Fit(n, S, ln), <2>8, <3>3, <3>5, <3>6, <3>7, <3>8, <3>9, StoreJob
    <3>11. QED
      BY <3>4, <3>10
  <2>10. At(w, n.batches[b].gprf, l + 1)
         /\ At(w, n.batches[b].cprf \union n.batches[b].gdec \union n.batches[b].cdec, l)
    BY <1>0, <1>1, <2>8, RaiseAt DEF St
  <2>11. <<"qkv", b>> \in Bufs /\ <<"qkv_cpu">> \in Bufs
    BY <1>0 DEF Bufs
  <2>12. Holds(c.mem, <<"qkv", b>>, l) /\ SameSent(a, c)
    BY <2>9, <2>11 DEF BufsKept, Holds, SameSent
  <2>13. Projected(n, c.mem, w, b, l)
    BY <2>9, <2>10, <2>12 DEF Projected
  <2>s. Still(n, S, w)
    <3>1. n.batches[b].gprf \in SUBSET Members(n.batches[b])
      BY InBatch
    <3>2. Still(n, S, v)
      BY DEF St
    <3>3. QED
      BY ONLY b \in Bs(n), <2>8, <3>1, <3>2, RaiseStill
  <2>14. Others(n, a.mem, v, c.mem, w, b)
    <3>1. n.batches[b].gprf \in SUBSET Members(n.batches[b])
      BY InBatch
    <3>2. \A d \in {1, 2} : d # b => Of4(d) \intersect {} = {}
      OBVIOUS
    <3>3. QED
      BY ONLY Fit(n, S, ln), b \in Bs(n), <2>8, <2>9, <3>1, <3>2, OthersOf
  <2>15. j \in Of("store", b)
    BY <2>2 DEF Of
  <2>16. Runs(n, S, ln, a, v, b, Storing(n, b, l), c, w)
    BY <2>6, <2>7, <2>9, <2>14, <2>s, GetsThen DEF St, Runs
  <2>17. Unwaited(a, c, {}, Of("store", b), {})
    BY <2>7, <2>15 DEF Unwaited
  <2>18. QED
    BY <2>12, <2>13, <2>16, <2>17
<1>4. QED
  BY <1>2, <1>3

(* The projections before attention, while the other batch's q, k and v may  *)
(* be on their way to the CPU.                                               *)
LEMMA PreprojRuns ==
  ASSUME NEW n, NEW S, NEW ln, Fit(n, S, ln), NEW a, NEW v, St(n, S, ln, a.mem, v),
         NEW b \in Bs(n), NEW l \in Depth, Through(n, a.mem, v, b, l),
         a.un["default"] \subseteq KvSwaps \union Of("send_qkv", 3 - b)
  PROVE  \E c, w :
           /\ Runs(n, S, ln, a, v, b, Preproj(n, b, l), c, w) /\ SameSent(a, c)
           /\ Projected(n, c.mem, w, b, l)
           /\ Unwaited(a, c, {}, Of("preproj", b) \union Of("store", b), {})
<1>0. b \in {1, 2} /\ 3 - b \in {1, 2} /\ 3 - b # b
  BY BatchFacts
<1>1. PICK j \in Jobs : j = Job("preproj", b, l) /\ j.kind = "preproj"
  BY <1>0, JobIs DEF DefaultKinds
<1>2. Reads(n, j) \subseteq Cells
  BY <1>1, ReadsCells
<1>3. ASSUME NEW k \in a.un["default"]
      PROVE  ~Clash(n, j, k)
  <2>1. CASE k \in KvSwaps
    BY <1>0, <1>1, <2>1, BufsApartSwaps
  <2>2. CASE k \in Of("send_qkv", 3 - b)
    <3>1. PICK h \in Depth : k = Job("send_qkv", 3 - b, h)
      BY <2>2 DEF Of
    <3>2. QED
      BY <1>0, <1>1, <3>1, ProjApartSend
  <2>3. QED
    BY <2>1, <2>2
<1>4. PICK c : Moved(n, ln, a, One("default", j), c, ApplyTo(n, ln, a.mem, j),
                     a.un["default"], a.un["comm"] \union {j}, a.ur)
  <2>1. j.kind \in DefaultKinds
    BY <1>1 DEF DefaultKinds
  <2>2. QED
    BY <1>2, <1>3, <2>1, GetsDefault
<1>5. One("default", j) = On("default", "preproj", b, l)
  BY <1>1 DEF One, On
<1>6. Holds(c.mem, <<"qkv", b>>, l) /\ Only(a.mem, c.mem, <<"qkv", b>>)
  <2>1. Holds(a.mem, <<"emb", b>>, l)
    BY DEF Through
  <2>2. c.mem = ApplyTo(n, ln, a.mem, Job("preproj", b, l))
    BY <1>1, <1>4 DEF Moved
  <2>3. QED
    BY ONLY <1>0, <2>1, <2>2, PreprojJob
<1>7. St(n, S, ln, c.mem, v) /\ Others(n, a.mem, v, c.mem, v, b) /\ BufsKept(a.mem, c.mem, {<<"qkv", b>>})
  <2>1. <<"qkv", b>> \in Of4(b) \union {<<"qkv_cpu">>, <<"out_cpu">>}
    BY DEF Of4
  <2>2. QED
    BY ONLY Fit(n, S, ln), b \in Bs(n), St(n, S, ln, a.mem, v), <1>6, <2>1, OthersBuf
<1>8. SameSent(a, c)
  <2>1. <<"qkv_cpu">> \in Bufs /\ <<"qkv_cpu">> # <<"qkv", b>>
    BY DEF Bufs
  <2>2. QED
    BY <1>7, <2>1 DEF BufsKept, SameSent
<1>9. At(v, Members(n.batches[b]), l)
  BY DEF Through
<1>10. PICK e, w : /\ Runs(n, S, ln, c, v, b, Storing(n, b, l), e, w) /\ SameSent(c, e)
                   /\ Projected(n, e.mem, w, b, l) /\ Unwaited(c, e, {}, Of("store", b), {})
  BY <1>6, <1>7, <1>9, StoreRuns
<1>11. Runs(n, S, ln, a, v, b, One("default", j), c, v)
  BY <1>4, <1>7 DEF Runs, Moved
<1>12. Preproj(n, b, l) = One("default", j) \o Storing(n, b, l)
  BY <1>5 DEF Preproj, Storing
<1>13. Runs(n, S, ln, a, v, b, Preproj(n, b, l), e, w)
  BY <1>10, <1>11, <1>12, RunsThen
<1>14. j \in Of("preproj", b)
  BY <1>1 DEF Of
<1>15. Unwaited(a, e, {}, Of("preproj", b) \union Of("store", b), {})
  BY <1>4, <1>10, <1>14 DEF Unwaited, Moved
<1>16. SameSent(a, e)
  BY <1>8, <1>10 DEF SameSent
<1>17. QED
  BY <1>10, <1>13, <1>15, <1>16

\* The copies of stored prefills to the CPU.
SwapOuts(n) == {SwapJob(CprfCopies(n, d, k)) : d \in Bs(n), k \in Depth}

(* They are swaps of KV, apart from every attention.                         *)
LEMMA SwapOutsApart ==
  ASSUME NEW n, NEW S, NEW ln, Fit(n, S, ln), NEW j \in SwapOuts(n), NEW b \in Bs(n), NEW l \in Depth
  PROVE  j \in KvSwaps /\ ~Clash(n, Job("attention", b, l), j) /\ ~Clash(n, Job("cpu", b, l), j)
<1>1. PICK d \in Bs(n), k \in Depth : j = SwapJob(CprfCopies(n, d, k))
  BY DEF SwapOuts
<1>2. QED
  BY <1>1, SwapOutApart

(* The buffers on the CPU are no batch's own.                                *)
LEMMA AsideCpu ==
  ASSUME NEW n, NEW S, NEW ln, Fit(n, S, ln), NEW m, NEW m2, NEW v, St(n, S, ln, m, v),
         NEW t \in {<<"qkv_cpu">>, <<"out_cpu">>}, Only(m, m2, t), NEW b \in Bs(n)
  PROVE  /\ St(n, S, ln, m2, v) /\ Others(n, m, v, m2, v, b) /\ Aside(n, m, v, m2, v, b)
<1>1. b \in {1, 2}
  BY BatchFacts
<1>2. t \in Of4(b) \union {<<"qkv_cpu">>, <<"out_cpu">>}
  OBVIOUS
<1>3. /\ St(n, S, ln, m2, v) /\ Others(n, m, v, m2, v, b)
      /\ BufsKept(m, m2, {t}) /\ TempsKept(n, m, m2, Cprf(n))
  BY <1>2, OthersBuf
<1>4. TempsKept(n, m, m2, n.batches[b].cprf)
  BY <1>3, BatchFacts DEF TempsKept
<1>5. t \notin Of4(b) /\ Of4(b) \subseteq Bufs
  BY <1>1 DEF Of4, Bufs
<1>6. \A c \in Of4(b) : m2[c] = m[c]
  BY <1>3, <1>5 DEF BufsKept
<1>7. QED
  BY <1>3, <1>4, <1>6 DEF Aside

(* q, k and v go to the CPU behind the projections.                          *)
LEMMA TransferRuns ==
  ASSUME NEW n, NEW S, NEW ln, Fit(n, S, ln), NEW a, NEW v, St(n, S, ln, a.mem, v),
         NEW b \in Bs(n), NEW l \in Depth, Projected(n, a.mem, v, b, l)
  PROVE  \E c : /\ Runs(n, S, ln, a, v, b, TransferQkv(n, b, l), c, v)
                /\ Projected(n, c.mem, v, b, l) /\ QkvSent(n, c.mem, b, l)
                /\ c.un["comm"] = {} /\ c.un["default"] \subseteq a.un["default"] \union Of("send_qkv", b)
                /\ n.batches[b].cdec # {} => c.ur = {}
<1>0. b \in {1, 2}
  BY BatchFacts
<1>1. PICK c1 : Moved(n, ln, a, CommWaitCompute, c1, a.mem, a.un["default"], {}, a.ur)
  BY GetsCommWaits
<1>2. Runs(n, S, ln, a, v, b, CommWaitCompute, c1, v) /\ c1.mem = a.mem
  BY <1>1, RunsSame DEF Moved
<1>3. CASE n.batches[b].cdec = {}
  <2>1. PICK e : e = When(n.batches[b].cdec # {}, On("comm", "send_qkv", b, l) \o Do("record", b, l))
    OBVIOUS
  <2>2. e = <<>>
    BY <1>3, <2>1 DEF When
  <2>3. TransferQkv(n, b, l) = CommWaitCompute \o e
    BY <2>1 DEF TransferQkv
  <2>4. Runs(n, S, ln, c1, v, b, e, c1, v)
    BY <1>2, <2>2, RunsNone DEF Runs
  <2>5. Runs(n, S, ln, a, v, b, TransferQkv(n, b, l), c1, v)
    BY <1>2, <2>3, <2>4, RunsThen
  <2>6. QkvSent(n, c1.mem, b, l)
    BY <1>3 DEF QkvSent
  <2>7. QED
    BY <1>1, <1>2, <1>3, <2>5, <2>6 DEF Moved
<1>4. CASE n.batches[b].cdec # {}
  <2>1. PICK j \in Jobs : j = Job("send_qkv", b, l) /\ j.kind = "send_qkv"
    BY <1>0, JobIs DEF CommKinds
  <2>2. PICK c2 : Moved(n, ln, c1, One("comm", j), c2, ApplyTo(n, ln, c1.mem, j),
                        c1.un["default"] \union {j}, c1.un["comm"], c1.ur \union {j})
    <3>1. j.kind \in CommKinds
      BY <2>1 DEF CommKinds
    <3>2. \A k \in c1.un["comm"] : ~Clash(n, j, k)
      BY <1>1 DEF Moved
    <3>3. Reads(n, j) \subseteq Cells
      BY <2>1, ReadsCells
    <3>4. QED
      BY <3>1, <3>2, <3>3, GetsComm
  <2>3. HoldsOf(c2.mem, <<"qkv_cpu">>, b, l) /\ Only(c1.mem, c2.mem, <<"qkv_cpu">>)
    <3>1. Holds(c1.mem, <<"qkv", b>>, l)
      BY <1>2 DEF Projected
    <3>2. c2.mem = ApplyTo(n, ln, c1.mem, Job("send_qkv", b, l))
      BY <2>1, <2>2 DEF Moved
    <3>3. QED
      BY ONLY <1>0, <3>1, <3>2, SendQkvJob
  <2>4. /\ St(n, S, ln, c2.mem, v) /\ Others(n, c1.mem, v, c2.mem, v, b) /\ Aside(n, c1.mem, v, c2.mem, v, b)
    <3>1. <<"qkv_cpu">> \in {<<"qkv_cpu">>, <<"out_cpu">>}
      OBVIOUS
    <3>2. St(n, S, ln, c1.mem, v)
      BY <1>2 DEF Runs
    <3>3. QED
      BY ONLY Fit(n, S, ln), b \in Bs(n), <2>3, <3>1, <3>2, AsideCpu
  <2>5. Projected(n, c2.mem, v, b, l)
    BY <1>2, <2>4, AsideStays
  <2>6. Runs(n, S, ln, c1, v, b, One("comm", j), c2, v)
    BY <2>2, <2>4 DEF Runs, Moved
  <2>7. PICK c : Moved(n, ln, c2, Do("record", b, l), c, c2.mem, c2.un["default"], c2.un["comm"], {})
    BY <1>0, GetsRecord
  <2>8. Runs(n, S, ln, c2, v, b, Do("record", b, l), c, v) /\ c.mem = c2.mem
    BY <2>4, <2>7, RunsSame DEF Moved
  <2>9. TransferQkv(n, b, l) = CommWaitCompute \o (One("comm", j) \o Do("record", b, l))
    BY <1>4, <2>1 DEF TransferQkv, When, One, On
  <2>10. Runs(n, S, ln, c1, v, b, One("comm", j) \o Do("record", b, l), c, v)
    BY <2>6, <2>8, RunsThen
  <2>11. Runs(n, S, ln, a, v, b, TransferQkv(n, b, l), c, v)
    BY <1>2, <2>9, <2>10, RunsThen
  <2>12. j \in Of("send_qkv", b)
    BY <2>1 DEF Of
  <2>13. c.un["comm"] = {} /\ c.un["default"] \subseteq a.un["default"] \union Of("send_qkv", b) /\ c.ur = {}
    BY <1>1, <2>2, <2>7, <2>12 DEF Moved
  <2>14. Projected(n, c.mem, v, b, l) /\ QkvSent(n, c.mem, b, l)
    BY <2>3, <2>5, <2>8 DEF QkvSent
  <2>15. QED
    BY <2>11, <2>13, <2>14
<1>5. QED
  BY <1>3, <1>4

(* The stored prefills go to their places in the swap space.                 *)
LEMMA SwapOutRuns ==
  ASSUME NEW n, NEW S, NEW ln, Fit(n, S, ln), NEW a, NEW v, St(n, S, ln, a.mem, v),
         NEW b \in Bs(n), NEW l \in Depth, Attended(n, a.mem, v, b, l),
         \A k \in a.un["comm"] : \E d \in Bs(n) : k \in Of("attention", d)
  PROVE  \E c, w : /\ Runs(n, S, ln, a, v, b, SwapOutBlocks(n, b, l), c, w) /\ SameSent(a, c)
                   /\ Attending(n, c.mem, w, b, l)
                   /\ Unwaited(a, c, SwapOuts(n), {}, SwapOuts(n))
<1>0. b \in {1, 2} /\ n.batches[b].cprf \subseteq S /\ n.batches[b].gprf \subseteq S
      /\ n.batches[b].gdec \subseteq S /\ n.batches[b].cdec \subseteq S
  BY BatchFacts
<1>1. PICK T \in SUBSET S : T = n.batches[b].gprf \union n.batches[b].gdec \union n.batches[b].cdec
  BY <1>0
<1>2. T \intersect n.batches[b].cprf = {}
  BY <1>1, BatchFacts
<1>3. At(v, T, l + 1) /\ At(v, n.batches[b].cprf, l) /\ Stored(n, a.mem, b, l) /\ Att(n, a.mem, b, l)
  BY <1>1 DEF Attended
<1>4. CASE n.batches[b].cprf = {}
  <2>1. CprfCopies(n, b, l) = {}
    BY <1>4 DEF CprfCopies
  <2>2. SwapOutBlocks(n, b, l) = <<>>
    BY <2>1 DEF SwapOutBlocks, SwapBlocks
  <2>3. At(v, Members(n.batches[b]), l + 1)
    BY <1>1, <1>3, <1>4, InBatch DEF At
  <2>4. Attending(n, a.mem, v, b, l)
    BY <1>3, <2>3 DEF Attending
  <2>5. QED
    BY <2>2, <2>4, RunsNone
<1>5. CASE n.batches[b].cprf # {}
  <2>0. CprfCopies(n, b, l) # {}
    BY <1>5 DEF CprfCopies
  <2>1. PICK j : j = SwapJob(CprfCopies(n, b, l))
    OBVIOUS
  <2>2. j \in SwapOuts(n)
    BY <2>1 DEF SwapOuts
  <2>3. j \in KvSwaps
    BY <2>2, SwapOutsApart
  <2>4. j \in Jobs /\ j.kind \in CommKinds /\ Reads(n, j) \subseteq Cells
    BY <2>3, SwapsKv DEF KvSwaps, CommKinds
  <2>5. ASSUME NEW k \in a.un["comm"]
        PROVE  ~Clash(n, j, k)
    <3>1. PICK d \in Bs(n), h \in Depth : k = Job("attention", d, h)
      BY <2>5 DEF Of
    <3>2. QED
      BY <2>2, <3>1, SwapOutsApart, ClashBack
  <2>6. PICK c : Moved(n, ln, a, One("comm", j), c, ApplyTo(n, ln, a.mem, j),
                       a.un["default"] \union {j}, a.un["comm"], a.ur \union {j})
    BY <2>4, <2>5, GetsComm
  <2>7. SwapOutBlocks(n, b, l) = One("comm", j)
    BY <2>0, <2>1 DEF SwapOutBlocks, SwapBlocks, One, SwapJob
  <2>8. PICK w : w = Raise(S, v, n.batches[b].cprf, l + 1)
    OBVIOUS
  <2>9. /\ w \in [S -> Nat] /\ KvAt(n, S, ln, c.mem, w)
        /\ BufsKept(a.mem, c.mem, {}) /\ TempsKept(n, a.mem, c.mem, Cprf(n))
    <3>1. PICK m, m2 : m = a.mem /\ m2 = c.mem
      OBVIOUS
    <3>2. b \in Bs(n) /\ l \in Depth
      OBVIOUS
    <3>3. m2 = ApplyTo(n, ln, m, SwapJob(CprfCopies(n, b, l)))
      BY <2>1, <2>6, <3>1 DEF Moved
    <3>4. v \in [S -> Nat]
      BY DEF St
    <3>5. KvAt(n, S, ln, m, v)
      BY <3>1 DEF St
    <3>6. Stored(n, m, b, l)
      BY <1>3, <3>1
    <3>7. At(v, n.batches[b].cprf, l)
      BY <1>3
    <3>8. /\ w \in [S -> Nat] /\ KvAt(n, S, ln, m2, w)
          /\ BufsKept(m, m2, {}) /\ TempsKept(n, m, m2, Cprf(n))
      BY ONLY Fit(n, S, ln), <2>8, <3>2, <3>3, <3>4, <3>5, <3>6, <3>7, SwapOutJob
    <3>9. QED
      BY <3>1, <3>8
  <2>10. At(w, n.batches[b].cprf, l + 1) /\ At(w, T, l + 1)
    BY <1>0, <1>2, <1>3, <2>8, RaiseAt DEF St
  <2>11. At(w, Members(n.batches[b]), l + 1)
    BY <1>1, <2>10, InBatch DEF At
  <2>12. /\ <<"o_gpu", b>> \in Bufs /\ <<"o_cpu", b>> \in Bufs /\ <<"qkv_cpu">> \in Bufs
    BY <1>0 DEF Bufs
  <2>13. Att(n, c.mem, b, l) /\ SameSent(a, c)
    BY <1>3, <2>9, <2>12 DEF BufsKept, SameSent, Att, Holds, HoldsOf
  <2>14. Attending(n, c.mem, w, b, l)
    BY <2>11, <2>13 DEF Attending
  <2>s. Still(n, S, w)
    <3>1. n.batches[b].cprf \in SUBSET Members(n.batches[b])
      BY InBatch
    <3>2. Still(n, S, v)
      BY DEF St
    <3>3. QED
      BY ONLY b \in Bs(n), <2>8, <3>1, <3>2, RaiseStill
  <2>15. Others(n, a.mem, v, c.mem, w, b)
    <3>1. n.batches[b].cprf \in SUBSET Members(n.batches[b])
      BY InBatch
    <3>2. \A d \in {1, 2} : d # b => Of4(d) \intersect {} = {}
      OBVIOUS
    <3>3. BufsKept(a.mem, c.mem, {})
      BY <2>9
    <3>4. TempsKept(n, a.mem, c.mem, Cprf(n) \ n.batches[b].cprf)
      BY <2>9 DEF TempsKept
    <3>5. QED
      BY ONLY Fit(n, S, ln), b \in Bs(n), <2>8, <3>1, <3>2, <3>3, <3>4, OthersOf
  <2>16. Runs(n, S, ln, a, v, b, SwapOutBlocks(n, b, l), c, w)
    BY <2>6, <2>7, <2>9, <2>15, <2>s DEF St, Runs, Moved
  <2>17. Unwaited(a, c, SwapOuts(n), {}, SwapOuts(n))
    BY <2>2, <2>6 DEF Unwaited, Moved
  <2>18. QED
    BY <2>13, <2>14, <2>16, <2>17
<1>6. QED
  BY <1>4, <1>5

(* The projections after attention, while the other batch's q, k and v and   *)
(* stored prefills may be on their way.                                      *)
LEMMA PostprojRuns ==
  ASSUME NEW n, NEW S, NEW ln, Fit(n, S, ln), NEW a, NEW v, St(n, S, ln, a.mem, v),
         NEW b \in Bs(n), NEW l \in Depth, Attending(n, a.mem, v, b, l),
         a.un["default"] \subseteq KvSwaps \union Of("send_qkv", 3 - b)
  PROVE  \E c : /\ Runs(n, S, ln, a, v, b, Postproj(b, l), c, v) /\ SameSent(a, c)
                /\ Through(n, c.mem, v, b, l + 1)
                /\ Unwaited(a, c, {}, Of("postproj", b), {}) /\ c.fresh
<1>0. b \in {1, 2} /\ 3 - b \in {1, 2} /\ 3 - b # b
  BY BatchFacts
<1>1. PICK j \in Jobs : j = Job("postproj", b, l) /\ j.kind = "postproj"
  BY <1>0, JobIs DEF DefaultKinds
<1>2. Reads(n, j) \subseteq Cells
  BY <1>1, ReadsCells
<1>3. ASSUME NEW k \in a.un["default"]
      PROVE  ~Clash(n, j, k)
  <2>1. CASE k \in KvSwaps
    BY <1>0, <1>1, <2>1, BufsApartSwaps
  <2>2. CASE k \in Of("send_qkv", 3 - b)
    <3>1. PICK h \in Depth : k = Job("send_qkv", 3 - b, h)
      BY <2>2 DEF Of
    <3>2. QED
      BY <1>0, <1>1, <3>1, ProjApartSend
  <2>3. QED
    BY <2>1, <2>2
<1>4. PICK c : /\ Moved(n, ln, a, One("default", j), c, ApplyTo(n, ln, a.mem, j),
                        a.un["default"], a.un["comm"] \union {j}, a.ur)
               /\ c.fresh
  <2>1. j.kind \in DefaultKinds
    BY <1>1 DEF DefaultKinds
  <2>2. QED
    BY <1>2, <1>3, <2>1, GetsDefault
<1>5. One("default", j) = Postproj(b, l)
  BY <1>1 DEF One, On, Postproj
<1>6. Holds(c.mem, <<"emb", b>>, l + 1) /\ Only(a.mem, c.mem, <<"emb", b>>)
  <2>1. Att(n, a.mem, b, l)
    BY DEF Attending
  <2>2. c.mem = ApplyTo(n, ln, a.mem, Job("postproj", b, l))
    BY <1>1, <1>4 DEF Moved
  <2>3. QED
    BY ONLY <1>0, <2>1, <2>2, PostprojJob
<1>7. St(n, S, ln, c.mem, v) /\ Others(n, a.mem, v, c.mem, v, b) /\ BufsKept(a.mem, c.mem, {<<"emb", b>>})
  <2>1. <<"emb", b>> \in Of4(b) \union {<<"qkv_cpu">>, <<"out_cpu">>}
    BY DEF Of4
  <2>2. QED
    BY ONLY Fit(n, S, ln), b \in Bs(n), St(n, S, ln, a.mem, v), <1>6, <2>1, OthersBuf
<1>8. SameSent(a, c)
  <2>1. <<"qkv_cpu">> \in Bufs /\ <<"qkv_cpu">> # <<"emb", b>>
    BY DEF Bufs
  <2>2. QED
    BY <1>7, <2>1 DEF BufsKept, SameSent
<1>9. Through(n, c.mem, v, b, l + 1)
  BY <1>6 DEF Attending, Through
<1>10. Runs(n, S, ln, a, v, b, Postproj(b, l), c, v)
  BY <1>4, <1>5, <1>7 DEF Runs, Moved
<1>11. j \in Of("postproj", b)
  BY <1>1 DEF Of
<1>12. Unwaited(a, c, {}, Of("postproj", b), {})
  BY <1>4, <1>11 DEF Unwaited, Moved
<1>13. QED
  BY <1>4, <1>8, <1>9, <1>10, <1>12

\* Batch b has attended on the GPU, and not yet on the CPU.
Halfway(n, m, v, b, l) ==
    /\ Prefs(n.batches[b]) \union n.batches[b].gdec # {} => Holds(m, <<"o_gpu", b>>, l)
    /\ Stored(n, m, b, l)
    /\ At(v, n.batches[b].gprf \union n.batches[b].gdec, l + 1)
    /\ At(v, n.batches[b].cprf \union n.batches[b].cdec, l)

\* Its two halves.
GpuAttention(n, b, l) ==
    When(Prefs(n.batches[b]) \union n.batches[b].gdec # {}, On("default", "attention", b, l))
CpuAttention(n, b, l) ==
    When(n.batches[b].cdec # {}, Do("sync", b, l) \o Do("cpu", b, l) \o On("comm", "send_o", b, l))

(* Attention on the GPU, while stored prefills and the batch's own q, k and  *)
(* v may be on their way to the CPU.                                         *)
LEMMA GpuAttends ==
  ASSUME NEW n, NEW S, NEW ln, Fit(n, S, ln), NEW a, NEW v, St(n, S, ln, a.mem, v),
         NEW b \in Bs(n), NEW l \in Depth, Projected(n, a.mem, v, b, l),
         a.un["default"] \subseteq SwapOuts(n) \union Of("send_qkv", b)
  PROVE  \E c, w : /\ Runs(n, S, ln, a, v, b, GpuAttention(n, b, l), c, w) /\ SameSent(a, c)
                   /\ Halfway(n, c.mem, w, b, l)
                   /\ Unwaited(a, c, {}, Of("attention", b), {})
<1>0. b \in {1, 2} /\ n.batches[b].cprf \subseteq S /\ n.batches[b].gprf \subseteq S
      /\ n.batches[b].gdec \subseteq S /\ n.batches[b].cdec \subseteq S
  BY BatchFacts
<1>1. PICK T \in SUBSET S : T = n.batches[b].cprf \union n.batches[b].cdec
  BY <1>0
<1>2. T \intersect n.batches[b].gdec = {} /\ n.batches[b].gprf \intersect n.batches[b].gdec = {}
  BY <1>1, BatchFacts
<1>3. /\ Holds(a.mem, <<"qkv", b>>, l) /\ Stored(n, a.mem, b, l)
      /\ At(v, n.batches[b].gprf, l + 1) /\ At(v, n.batches[b].gdec, l) /\ At(v, T, l)
  BY <1>1 DEF Projected, At
<1>4. CASE Prefs(n.batches[b]) \union n.batches[b].gdec = {}
  <2>1. GpuAttention(n, b, l) = <<>>
    BY <1>4 DEF GpuAttention, When
  <2>2. n.batches[b].gdec = {}
    BY <1>4
  <2>3. Halfway(n, a.mem, v, b, l)
    BY <1>1, <1>3, <1>4, <2>2 DEF Halfway, At
  <2>4. QED
    BY <2>1, <2>3, RunsNone
<1>5. CASE Prefs(n.batches[b]) \union n.batches[b].gdec # {}
  <2>1. PICK j \in Jobs : j = Job("attention", b, l) /\ j.kind = "attention"
    <3>1. "attention" \in DefaultKinds \union CommKinds \union {"cpu"}
      BY DEF DefaultKinds
    <3>2. b \in {1, 2} /\ l \in Depth
      BY <1>0
    <3>3. QED
      BY ONLY <3>1, <3>2, JobIs
  <2>2. Reads(n, j) \subseteq Cells
    BY <2>1, ReadsCells
  <2>3. ASSUME NEW k \in a.un["default"]
        PROVE  ~Clash(n, j, k)
    <3>1. CASE k \in SwapOuts(n)
      BY <2>1, <3>1, SwapOutsApart
    <3>2. CASE k \in Of("send_qkv", b)
      <4>1. PICK h \in Depth : k = Job("send_qkv", b, h)
        BY <3>2 DEF Of
      <4>2. QED
        BY <2>1, <4>1, AttentionApartSend
    <3>3. QED
      BY <3>1, <3>2
  <2>4. PICK c : Moved(n, ln, a, One("default", j), c, ApplyTo(n, ln, a.mem, j),
                       a.un["default"], a.un["comm"] \union {j}, a.ur)
    <3>1. j.kind \in DefaultKinds
      BY <2>1 DEF DefaultKinds
    <3>2. QED
      BY <2>2, <2>3, <3>1, GetsDefault
  <2>5. GpuAttention(n, b, l) = One("default", j)
    BY <1>5, <2>1 DEF One, On, GpuAttention, When
  <2>6. PICK w : w = Raise(S, v, n.batches[b].gdec, l + 1)
    OBVIOUS
  <2>7. /\ Holds(c.mem, <<"o_gpu", b>>, l) /\ w \in [S -> Nat] /\ KvAt(n, S, ln, c.mem, w)
        /\ BufsKept(a.mem, c.mem, {<<"o_gpu", b>>}) /\ TempsKept(n, a.mem, c.mem, Cprf(n))
    <3>1. PICK m, m2 : m = a.mem /\ m2 = c.mem
      OBVIOUS
    <3>2. b \in Bs(n) /\ l \in Depth
      OBVIOUS
    <3>3. m2 = ApplyTo(n, ln, m, Job("attention", b, l))
      BY <2>1, <2>4, <3>1 DEF Moved
    <3>4. v \in [S -> Nat]
      BY DEF St
    <3>5. KvAt(n, S, ln, m, v)
      BY <3>1 DEF St
    <3>6. Holds(m, <<"qkv", b>>, l)
      BY <1>3, <3>1
    <3>7. At(v, n.batches[b].gdec, l)
      BY <1>3
    <3>8. KernelAttends(n, S, ln, m, m2, w, b, l)
      BY ONLY Fit(n, S, ln), <2>6, <3>2, <3>3, <3>4, <3>5, <3>6, <3>7, AttentionJob
    <3>9. QED
      BY <3>1, <3>8 DEF KernelAttends
  <2>8. At(w, n.batches[b].gdec, l + 1) /\ At(w, T, l) /\ At(w, n.batches[b].gprf, l + 1)
    BY <1>0, <1>2, <1>3, <2>6, RaiseAt DEF St
  <2>9. Stored(n, c.mem, b, l)
    BY <1>3, <2>7, BatchFacts DEF Stored, TempsKept
  <2>10. Halfway(n, c.mem, w, b, l)
    BY <1>1, <2>7, <2>8, <2>9 DEF Halfway, At
  <2>11. SameSent(a, c)
    <3>1. <<"qkv_cpu">> \in Bufs /\ <<"qkv_cpu">> # <<"o_gpu", b>>
      BY DEF Bufs
    <3>2. QED
      BY <2>7, <3>1 DEF BufsKept, SameSent
  <2>s. Still(n, S, w)
    <3>1. n.batches[b].gdec \in SUBSET Members(n.batches[b])
      BY InBatch
    <3>2. Still(n, S, v)
      BY DEF St
    <3>3. QED
      BY ONLY b \in Bs(n), <2>6, <3>1, <3>2, RaiseStill
  <2>12. Others(n, a.mem, v, c.mem, w, b)
    <3>1. n.batches[b].gdec \in SUBSET Members(n.batches[b])
      BY InBatch
    <3>2. \A d \in {1, 2} : d # b => Of4(d) \intersect {<<"o_gpu", b>>} = {}
      BY DEF Of4
    <3>3. BufsKept(a.mem, c.mem, {<<"o_gpu", b>>})
      BY <2>7
    <3>4. TempsKept(n, a.mem, c.mem, Cprf(n) \ n.batches[b].cprf)
      BY <2>7 DEF TempsKept
    <3>5. QED
      BY ONLY Fit(n, S, ln), b \in Bs(n), <2>6, <3>1, <3>2, <3>3, <3>4, OthersOf
  <2>13. Runs(n, S, ln, a, v, b, GpuAttention(n, b, l), c, w)
    BY <2>4, <2>5, <2>7, <2>12, <2>s DEF St, Runs, Moved
  <2>14. j \in Of("attention", b)
    BY <2>1 DEF Of
  <2>15. Unwaited(a, c, {}, Of("attention", b), {})
    BY <2>4, <2>14 DEF Unwaited, Moved
  <2>16. QED
    BY <2>10, <2>11, <2>13, <2>15
<1>6. QED
  BY <1>4, <1>5

\* k is a kernel that may run beside the copy of b's output to the GPU.
BesideSend(n, b, k) ==
    \E d \in Bs(n), h \in Depth : \/ k = Job("preproj", d, h)
                                  \/ k = Job("store", d, h)
                                  \/ k = Job("attention", d, h)
                                  \/ d # b /\ k = Job("postproj", d, h)

(* It does not clash with it.                                                *)
LEMMA BesideApart ==
  ASSUME NEW n, NEW S, NEW ln, Fit(n, S, ln), NEW b \in Bs(n), NEW l, NEW k, BesideSend(n, b, k)
  PROVE  ~Clash(n, Job("send_o", b, l), k)
<1>1. PICK d \in Bs(n), h \in Depth : \/ k = Job("preproj", d, h)
                                      \/ k = Job("store", d, h)
                                      \/ k = Job("attention", d, h)
                                      \/ d # b /\ k = Job("postproj", d, h)
  BY DEF BesideSend
<1>2. /\ ~Clash(n, Job("send_o", b, l), Job("preproj", d, h))
      /\ ~Clash(n, Job("send_o", b, l), Job("store", d, h))
      /\ ~Clash(n, Job("send_o", b, l), Job("attention", d, h))
      /\ b # d => ~Clash(n, Job("send_o", b, l), Job("postproj", d, h))
  BY SendOApart
<1>3. QED
  BY <1>1, <1>2

(* Attention on the CPU, once q, k and v are there, while stored prefills    *)
(* may be on their way.                                                      *)
LEMMA CpuAttends ==
  ASSUME NEW n, NEW S, NEW ln, Fit(n, S, ln), NEW a, NEW v, St(n, S, ln, a.mem, v),
         NEW b \in Bs(n), NEW l \in Depth, Halfway(n, a.mem, v, b, l), QkvSent(n, a.mem, b, l),
         n.batches[b].cdec # {} => a.ur \subseteq SwapOuts(n),
         n.batches[b].cdec # {} => (\A k \in a.un["comm"] : BesideSend(n, b, k))
  PROVE  \E c, w : /\ Runs(n, S, ln, a, v, b, CpuAttention(n, b, l), c, w)
                   /\ Attended(n, c.mem, w, b, l) /\ c.un["comm"] = a.un["comm"]
<1>0. b \in {1, 2} /\ n.batches[b].cprf \subseteq S /\ n.batches[b].gprf \subseteq S
      /\ n.batches[b].gdec \subseteq S /\ n.batches[b].cdec \subseteq S
  BY BatchFacts
<1>1. PICK T \in SUBSET S : T = n.batches[b].gprf \union n.batches[b].gdec
  BY <1>0
<1>2. /\ T \intersect n.batches[b].cdec = {} /\ n.batches[b].cprf \intersect n.batches[b].cdec = {}
  BY <1>1, BatchFacts
<1>3. /\ Stored(n, a.mem, b, l) /\ At(v, T, l + 1)
      /\ At(v, n.batches[b].cprf, l) /\ At(v, n.batches[b].cdec, l)
      /\ Prefs(n.batches[b]) \union n.batches[b].gdec # {} => Holds(a.mem, <<"o_gpu", b>>, l)
  BY <1>1 DEF Halfway, At
<1>4. CASE n.batches[b].cdec = {}
  <2>1. CpuAttention(n, b, l) = <<>>
    BY <1>4 DEF CpuAttention, When
  <2>2. Att(n, a.mem, b, l)
    BY <1>3, <1>4 DEF Att
  <2>3. Attended(n, a.mem, v, b, l)
    BY <1>1, <1>3, <1>4, <2>2 DEF Attended, At
  <2>4. QED
    BY <2>1, <2>3, RunsNone
<1>5. CASE n.batches[b].cdec # {}
  <2>1. PICK c1 : Moved(n, ln, a, Do("sync", b, l) \o Do("cpu", b, l), c1,
                        ApplyTo(n, ln, a.mem, Job("cpu", b, l)), a.un["default"], a.un["comm"], a.ur)
    <3>1. Reads(n, Job("cpu", b, l)) \subseteq Cells
      BY ReadsCells
    <3>2. \A k \in a.ur : ~Clash(n, Job("cpu", b, l), k)
      BY <1>5, SwapOutsApart
    <3>3. QED
      BY <1>0, <3>1, <3>2, GetsCpu
  <2>2. PICK w : w = Raise(S, v, n.batches[b].cdec, l + 1)
    OBVIOUS
  <2>3. /\ HoldsOf(c1.mem, <<"out_cpu">>, b, l) /\ w \in [S -> Nat] /\ KvAt(n, S, ln, c1.mem, w)
        /\ BufsKept(a.mem, c1.mem, {<<"out_cpu">>}) /\ TempsKept(n, a.mem, c1.mem, Cprf(n))
    <3>1. PICK m, m2 : m = a.mem /\ m2 = c1.mem
      OBVIOUS
    <3>2. b \in Bs(n) /\ l \in Depth
      OBVIOUS
    <3>3. m2 = ApplyTo(n, ln, m, Job("cpu", b, l))
      BY <2>1, <3>1 DEF Moved
    <3>4. v \in [S -> Nat]
      BY DEF St
    <3>5. KvAt(n, S, ln, m, v)
      BY <3>1 DEF St
    <3>6. HoldsOf(m, <<"qkv_cpu">>, b, l)
      BY <1>5, <3>1 DEF QkvSent
    <3>7. At(v, n.batches[b].cdec, l)
      BY <1>3
    <3>8. /\ HoldsOf(m2, <<"out_cpu">>, b, l) /\ w \in [S -> Nat] /\ KvAt(n, S, ln, m2, w)
          /\ BufsKept(m, m2, {<<"out_cpu">>}) /\ TempsKept(n, m, m2, Cprf(n))
      BY ONLY Fit(n, S, ln), <2>2, <3>2, <3>3, <3>4, <3>5, <3>6, <3>7, CpuJob
    <3>9. QED
      BY <3>1, <3>8
  <2>4. At(w, n.batches[b].cdec, l + 1) /\ At(w, T, l + 1) /\ At(w, n.batches[b].cprf, l)
    BY <1>0, <1>2, <1>3, <2>2, RaiseAt DEF St
  <2>s. Still(n, S, w)
    <3>1. n.batches[b].cdec \in SUBSET Members(n.batches[b])
      BY InBatch
    <3>2. Still(n, S, v)
      BY DEF St
    <3>3. QED
      BY ONLY b \in Bs(n), <2>2, <3>1, <3>2, RaiseStill
  <2>5. Others(n, a.mem, v, c1.mem, w, b)
    <3>1. n.batches[b].cdec \in SUBSET Members(n.batches[b])
      BY InBatch
    <3>2. \A d \in {1, 2} : d # b => Of4(d) \intersect {<<"out_cpu">>} = {}
      BY DEF Of4
    <3>3. BufsKept(a.mem, c1.mem, {<<"out_cpu">>})
      BY <2>3
    <3>4. TempsKept(n, a.mem, c1.mem, Cprf(n) \ n.batches[b].cprf)
      BY <2>3 DEF TempsKept
    <3>5. QED
      BY ONLY Fit(n, S, ln), b \in Bs(n), <2>2, <3>1, <3>2, <3>3, <3>4, OthersOf
  <2>6. Runs(n, S, ln, a, v, b, Do("sync", b, l) \o Do("cpu", b, l), c1, w)
    BY <2>1, <2>3, <2>5, <2>s DEF St, Runs, Moved
  <2>7. PICK j \in Jobs : j = Job("send_o", b, l) /\ j.kind = "send_o"
    <3>1. "send_o" \in DefaultKinds \union CommKinds \union {"cpu"}
      BY DEF CommKinds
    <3>2. b \in {1, 2} /\ l \in Depth
      BY <1>0
    <3>3. QED
      BY ONLY <3>1, <3>2, JobIs
  <2>8. PICK c : Moved(n, ln, c1, One("comm", j), c, ApplyTo(n, ln, c1.mem, j),
                       c1.un["default"] \union {j}, c1.un["comm"], c1.ur \union {j})
    <3>1. j.kind \in CommKinds
      BY <2>7 DEF CommKinds
    <3>2. \A k \in c1.un["comm"] : ~Clash(n, j, k)
      BY <1>5, <2>1, <2>7, BesideApart DEF Moved
    <3>3. Reads(n, j) \subseteq Cells
      BY <2>7, ReadsCells
    <3>4. QED
      BY <3>1, <3>2, <3>3, GetsComm
  <2>9. HoldsOf(c.mem, <<"o_cpu", b>>, b, l) /\ Only(c1.mem, c.mem, <<"o_cpu", b>>)
    <3>1. HoldsOf(c1.mem, <<"out_cpu">>, b, l)
      BY <2>3
    <3>2. c.mem = ApplyTo(n, ln, c1.mem, Job("send_o", b, l))
      BY <2>7, <2>8 DEF Moved
    <3>3. QED
      BY ONLY <1>0, <3>1, <3>2, SendOJob
  <2>10. St(n, S, ln, c.mem, w) /\ Others(n, c1.mem, w, c.mem, w, b) /\ BufsKept(c1.mem, c.mem, {<<"o_cpu", b>>})
         /\ TempsKept(n, c1.mem, c.mem, Cprf(n))
    <3>1. <<"o_cpu", b>> \in Of4(b) \union {<<"qkv_cpu">>, <<"out_cpu">>}
      BY DEF Of4
    <3>2. St(n, S, ln, c1.mem, w)
      BY <2>3, <2>s DEF St
    <3>3. QED
      BY ONLY Fit(n, S, ln), b \in Bs(n), <2>9, <3>1, <3>2, OthersBuf
  <2>11. Runs(n, S, ln, c1, w, b, One("comm", j), c, w)
    BY <2>8, <2>10 DEF Runs, Moved
  <2>12. CpuAttention(n, b, l) = (Do("sync", b, l) \o Do("cpu", b, l)) \o One("comm", j)
    BY <1>5, <2>7 DEF CpuAttention, When, One, On
  <2>13. Runs(n, S, ln, a, v, b, CpuAttention(n, b, l), c, w)
    BY <2>6, <2>11, <2>12, RunsThen
  <2>14. Stored(n, c.mem, b, l)
    BY <1>3, <2>3, <2>10, BatchFacts DEF Stored, TempsKept
  <2>15. Prefs(n.batches[b]) \union n.batches[b].gdec # {} => Holds(c.mem, <<"o_gpu", b>>, l)
    <3>1. <<"o_gpu", b>> \in Bufs /\ <<"o_gpu", b>> # <<"out_cpu">> /\ <<"o_gpu", b>> # <<"o_cpu", b>>
      BY <1>0 DEF Bufs
    <3>2. c.mem[<<"o_gpu", b>>] = a.mem[<<"o_gpu", b>>]
      BY <2>3, <2>10, <3>1 DEF BufsKept
    <3>3. QED
      BY <1>3, <3>2 DEF Holds
  <2>16. Attended(n, c.mem, w, b, l)
    BY <1>1, <2>4, <2>9, <2>14, <2>15 DEF Attended, Att, At
  <2>17. c.un["comm"] = a.un["comm"]
    BY <2>1, <2>8 DEF Moved
  <2>18. QED
    BY <2>13, <2>16, <2>17
<1>6. QED
  BY <1>4, <1>5

(* Attention: of the two halves, and everything on the communication stream  *)
(* is waited for afterwards.                                                 *)
LEMMA AttentionRuns ==
  ASSUME NEW n, NEW S, NEW ln, Fit(n, S, ln), NEW a, NEW v, St(n, S, ln, a.mem, v),
         NEW b \in Bs(n), NEW l \in Depth, Projected(n, a.mem, v, b, l), QkvSent(n, a.mem, b, l),
         a.un["default"] \subseteq SwapOuts(n) \union Of("send_qkv", b),
         n.batches[b].cdec # {} => a.ur \subseteq SwapOuts(n),
         n.batches[b].cdec # {} => (\A k \in a.un["comm"] : BesideSend(n, b, k))
  PROVE  \E c, w : /\ Runs(n, S, ln, a, v, b, Attention(n, b, l), c, w)
                   /\ Attended(n, c.mem, w, b, l) /\ c.un["default"] = {}
                   /\ c.un["comm"] \subseteq a.un["comm"] \union Of("attention", b)
<1>1. PICK c1, v1 : /\ Runs(n, S, ln, a, v, b, GpuAttention(n, b, l), c1, v1) /\ SameSent(a, c1)
                    /\ Halfway(n, c1.mem, v1, b, l)
                    /\ Unwaited(a, c1, {}, Of("attention", b), {})
  BY GpuAttends
<1>2. /\ St(n, S, ln, c1.mem, v1) /\ QkvSent(n, c1.mem, b, l)
      /\ n.batches[b].cdec # {} => c1.ur \subseteq SwapOuts(n)
      /\ n.batches[b].cdec # {} => (\A k \in c1.un["comm"] : BesideSend(n, b, k))
  <2>1. \A k \in Of("attention", b) : BesideSend(n, b, k)
    BY DEF BesideSend, Of
  <2>2. QkvSent(n, c1.mem, b, l)
    BY <1>1 DEF QkvSent, SameSent, HoldsOf
  <2>3. QED
    BY <1>1, <2>1, <2>2 DEF Runs, Unwaited
<1>3. PICK c2, v2 : /\ Runs(n, S, ln, c1, v1, b, CpuAttention(n, b, l), c2, v2)
                    /\ Attended(n, c2.mem, v2, b, l) /\ c2.un["comm"] = c1.un["comm"]
  BY <1>1, <1>2, CpuAttends
<1>4. PICK c : Moved(n, ln, c2, ComputeWaitComm, c, c2.mem, {}, c2.un["comm"], c2.ur)
  BY GetsComputeWaits
<1>5. Runs(n, S, ln, c2, v2, b, ComputeWaitComm, c, v2) /\ c.mem = c2.mem
  <2>1. St(n, S, ln, c2.mem, v2)
    BY <1>3 DEF Runs
  <2>2. QED
    BY <1>4, <2>1, RunsSame DEF Moved
<1>6. Attention(n, b, l) = (GpuAttention(n, b, l) \o CpuAttention(n, b, l)) \o ComputeWaitComm
  BY DEF Attention, GpuAttention, CpuAttention
<1>7. Runs(n, S, ln, a, v, b, GpuAttention(n, b, l) \o CpuAttention(n, b, l), c2, v2)
  BY <1>1, <1>3, RunsThen
<1>8. Runs(n, S, ln, a, v, b, Attention(n, b, l), c, v2)
  BY <1>5, <1>6, <1>7, RunsThen
<1>9. c.un["default"] = {} /\ c.un["comm"] \subseteq a.un["comm"] \union Of("attention", b)
  BY <1>1, <1>3, <1>4 DEF Moved, Unwaited
<1>10. QED
  BY <1>3, <1>5, <1>8, <1>9

-------------------------------------------------------------------------------
\* The forward pass, from its parts.

\* prog takes the machine from a to c, whose memory has what w says.
Steps(n, S, ln, a, prog, c, w) == Gets(n, ln, a, prog, c) /\ St(n, S, ln, c.mem, w)

(* What a part does to one batch leaves the other where it is.               *)
LEMMA RunsBeside ==
  ASSUME NEW n, NEW S, NEW ln, NEW a, NEW v, NEW b, NEW p, NEW c, NEW w,
         Runs(n, S, ln, a, v, b, p, c, w), NEW d \in Bs(n), d # b, NEW l \in Depth
  PROVE  /\ Steps(n, S, ln, a, p, c, w) /\ St(n, S, ln, c.mem, w)
         /\ Through(n, a.mem, v, d, l) => Through(n, c.mem, w, d, l)
         /\ Projected(n, a.mem, v, d, l) => Projected(n, c.mem, w, d, l)
         /\ Attended(n, a.mem, v, d, l) => Attended(n, c.mem, w, d, l)
<1>1. Aside(n, a.mem, v, c.mem, w, d)
  BY DEF Runs, Others
<1>2. PICK m, m2 : m = a.mem /\ m2 = c.mem
  OBVIOUS
<1>3. Aside(n, m, v, m2, w, d)
  BY <1>1, <1>2
<1>4. /\ Through(n, m, v, d, l) => Through(n, m2, w, d, l)
      /\ l \in Depth /\ Projected(n, m, v, d, l) => Projected(n, m2, w, d, l)
      /\ l \in Depth /\ Attended(n, m, v, d, l) => Attended(n, m2, w, d, l)
  BY ONLY <1>3, AsideStays
<1>5. QED
  BY <1>2, <1>4 DEF Runs, Steps

(* One part after the other.                                                 *)
LEMMA StepsThen ==
  ASSUME NEW n, NEW S, NEW ln, NEW a, NEW p, NEW c, NEW w, NEW q, NEW e, NEW x,
         Steps(n, S, ln, a, p, c, w), Steps(n, S, ln, c, q, e, x)
  PROVE  Steps(n, S, ln, a, p \o q, e, x)
BY GetsThen DEF Steps

(* The copies of q, k and v stay.                                            *)
LEMMA SentStays ==
  ASSUME NEW n, NEW a, NEW c, SameSent(a, c), NEW b, NEW l, QkvSent(n, a.mem, b, l)
  PROVE  QkvSent(n, c.mem, b, l)
BY DEF QkvSent, SameSent, HoldsOf

(* The swap-outs of the forward pass are swaps of KV.                        *)
LEMMA SwapOutsAre ==
  ASSUME NEW n, NEW S, NEW ln, Fit(n, S, ln)
  PROVE  SwapOuts(n) \subseteq KvSwaps
<1>1. ASSUME NEW j \in SwapOuts(n)
      PROVE  j \in KvSwaps
  <2>1. PICK d \in Bs(n), k \in Depth : j = SwapJob(CprfCopies(n, d, k))
    BY DEF SwapOuts
  <2>2. QED
    BY <2>1, SwapOutsApart
<1>2. QED
  BY <1>1

(* A layer of the pass with one batch.                                       *)
LEMMA ForwardRuns ==
  ASSUME NEW n, NEW S, NEW ln, Fit(n, S, ln), NEW a, NEW v, St(n, S, ln, a.mem, v),
         1 \in Bs(n), NEW l \in Depth, Through(n, a.mem, v, 1, l),
         a.un["default"] \subseteq SwapOuts(n)
  PROVE  \E c, w : /\ Steps(n, S, ln, a, Forward(n, l), c, w) /\ Through(n, c.mem, w, 1, l + 1)
                   /\ c.un["default"] \subseteq SwapOuts(n) /\ c.fresh
<1>0. SwapOuts(n) \subseteq KvSwaps
  BY SwapOutsAre
<1>1. PICK c1, w1 : /\ Runs(n, S, ln, a, v, 1, Preproj(n, 1, l), c1, w1)
                    /\ Projected(n, c1.mem, w1, 1, l)
                    /\ Unwaited(a, c1, {}, Of("preproj", 1) \union Of("store", 1), {})
  <2>1. a.un["default"] \subseteq KvSwaps \union Of("send_qkv", 3 - 1)
    BY <1>0
  <2>2. QED
    BY <2>1, PreprojRuns
<1>2. PICK c2 : /\ Runs(n, S, ln, c1, w1, 1, TransferQkv(n, 1, l), c2, w1)
                /\ Projected(n, c2.mem, w1, 1, l) /\ QkvSent(n, c2.mem, 1, l)
                /\ c2.un["comm"] = {} /\ c2.un["default"] \subseteq c1.un["default"] \union Of("send_qkv", 1)
                /\ n.batches[1].cdec # {} => c2.ur = {}
  <2>1. St(n, S, ln, c1.mem, w1)
    BY <1>1 DEF Runs
  <2>2. QED
    BY <1>1, <2>1, TransferRuns
<1>3. PICK c3, w3 : /\ Runs(n, S, ln, c2, w1, 1, Attention(n, 1, l), c3, w3)
                    /\ Attended(n, c3.mem, w3, 1, l) /\ c3.un["default"] = {}
                    /\ c3.un["comm"] \subseteq c2.un["comm"] \union Of("attention", 1)
  <2>1. St(n, S, ln, c2.mem, w1)
    BY <1>2 DEF Runs
  <2>2. c2.un["default"] \subseteq SwapOuts(n) \union Of("send_qkv", 1)
    BY <1>1, <1>2 DEF Unwaited
  <2>3. n.batches[1].cdec # {} => c2.ur \subseteq SwapOuts(n)
    BY <1>2
  <2>4. n.batches[1].cdec # {} => (\A k \in c2.un["comm"] : BesideSend(n, 1, k))
    BY <1>2
  <2>5. QED
    BY <1>2, <2>1, <2>2, <2>3, <2>4, AttentionRuns
<1>4. PICK c4, w4 : /\ Runs(n, S, ln, c3, w3, 1, SwapOutBlocks(n, 1, l), c4, w4)
                    /\ Attending(n, c4.mem, w4, 1, l)
                    /\ Unwaited(c3, c4, SwapOuts(n), {}, SwapOuts(n))
  <2>1. St(n, S, ln, c3.mem, w3)
    BY <1>3 DEF Runs
  <2>2. \A k \in c3.un["comm"] : \E d \in Bs(n) : k \in Of("attention", d)
    BY <1>2, <1>3
  <2>3. QED
    BY <1>3, <2>1, <2>2, SwapOutRuns
<1>5. PICK c : /\ Runs(n, S, ln, c4, w4, 1, Postproj(1, l), c, w4)
               /\ Through(n, c.mem, w4, 1, l + 1)
               /\ Unwaited(c4, c, {}, Of("postproj", 1), {}) /\ c.fresh
  <2>1. St(n, S, ln, c4.mem, w4)
    BY <1>4 DEF Runs
  <2>2. c4.un["default"] \subseteq KvSwaps \union Of("send_qkv", 3 - 1)
    BY <1>0, <1>3, <1>4 DEF Unwaited
  <2>3. QED
    BY <1>4, <2>1, <2>2, PostprojRuns
<1>6. Runs(n, S, ln, a, v, 1, Preproj(n, 1, l) \o TransferQkv(n, 1, l), c2, w1)
  BY <1>1, <1>2, RunsThen
<1>7. Runs(n, S, ln, a, v, 1, Preproj(n, 1, l) \o TransferQkv(n, 1, l) \o Attention(n, 1, l), c3, w3)
  BY <1>3, <1>6, RunsThen
<1>8. Runs(n, S, ln, a, v, 1, Preproj(n, 1, l) \o TransferQkv(n, 1, l) \o Attention(n, 1, l)
                               \o SwapOutBlocks(n, 1, l), c4, w4)
  BY <1>4, <1>7, RunsThen
<1>9. Runs(n, S, ln, a, v, 1, Forward(n, l), c, w4)
  BY <1>5, <1>8, RunsThen DEF Forward
<1>10. c.un["default"] \subseteq SwapOuts(n)
  BY <1>3, <1>4, <1>5 DEF Unwaited
<1>11. QED
  BY <1>5, <1>9, <1>10 DEF Runs, Steps

(* A stage of the pass with two.                                             *)
LEMMA StageRuns ==
  ASSUME NEW n, NEW S, NEW ln, Fit(n, S, ln), NEW a, NEW v, St(n, S, ln, a.mem, v),
         NEW b \in Bs(n), NEW d \in Bs(n), d = 3 - b, NEW l \in Depth, l + 1 \in Depth, NEW m \in Depth,
         Attended(n, a.mem, v, b, l), Projected(n, a.mem, v, d, m), a.un["default"] = {}
  PROVE  \E c, w : /\ Steps(n, S, ln, a, ForwardPipelineStage(n, b, l, m), c, w)
                   /\ Projected(n, c.mem, w, b, l + 1) /\ Attended(n, c.mem, w, d, m)
                   /\ c.un["default"] = {}
<1>0. SwapOuts(n) \subseteq KvSwaps /\ b # d /\ b = 3 - d /\ b \in {1, 2} /\ d \in {1, 2}
  <2>1. b \in {1, 2}
    BY BatchFacts
  <2>2. SwapOuts(n) \subseteq KvSwaps
    BY SwapOutsAre
  <2>3. QED
    BY <2>1, <2>2
<1>1. PICK c1 : /\ Runs(n, S, ln, a, v, d, TransferQkv(n, d, m), c1, v)
                /\ Projected(n, c1.mem, v, d, m) /\ QkvSent(n, c1.mem, d, m)
                /\ c1.un["comm"] = {} /\ c1.un["default"] \subseteq a.un["default"] \union Of("send_qkv", d)
                /\ n.batches[d].cdec # {} => c1.ur = {}
  BY TransferRuns
<1>2. /\ Steps(n, S, ln, a, TransferQkv(n, d, m), c1, v) /\ St(n, S, ln, c1.mem, v)
      /\ Attended(n, c1.mem, v, b, l)
  BY <1>0, <1>1, RunsBeside
<1>3. PICK c2, w2 : /\ Runs(n, S, ln, c1, v, b, SwapOutBlocks(n, b, l), c2, w2) /\ SameSent(c1, c2)
                    /\ Attending(n, c2.mem, w2, b, l)
                    /\ Unwaited(c1, c2, SwapOuts(n), {}, SwapOuts(n))
  <2>1. \A k \in c1.un["comm"] : \E e \in Bs(n) : k \in Of("attention", e)
    BY <1>1
  <2>2. QED
    BY <1>2, <2>1, SwapOutRuns
<1>4. /\ Steps(n, S, ln, c1, SwapOutBlocks(n, b, l), c2, w2) /\ St(n, S, ln, c2.mem, w2)
      /\ Projected(n, c2.mem, w2, d, m) /\ QkvSent(n, c2.mem, d, m)
  <2>1. QkvSent(n, c2.mem, d, m)
    BY <1>1, <1>3, SentStays
  <2>2. d # b /\ Projected(n, c1.mem, v, d, m)
    BY <1>0, <1>1
  <2>3. Runs(n, S, ln, c1, v, b, SwapOutBlocks(n, b, l), c2, w2)
    BY <1>3
  <2>4. /\ Steps(n, S, ln, c1, SwapOutBlocks(n, b, l), c2, w2) /\ St(n, S, ln, c2.mem, w2)
        /\ Projected(n, c1.mem, v, d, m) => Projected(n, c2.mem, w2, d, m)
    BY <2>2, <2>3, RunsBeside
  <2>5. QED
    BY <2>1, <2>2, <2>4
<1>5. PICK c3 : /\ Runs(n, S, ln, c2, w2, b, Postproj(b, l), c3, w2) /\ SameSent(c2, c3)
                /\ Through(n, c3.mem, w2, b, l + 1)
                /\ Unwaited(c2, c3, {}, Of("postproj", b), {})
  <2>1. c2.un["default"] \subseteq KvSwaps \union Of("send_qkv", 3 - b)
    BY <1>0, <1>1, <1>3 DEF Unwaited
  <2>2. QED
    BY <1>3, <1>4, <2>1, PostprojRuns
<1>6. /\ Steps(n, S, ln, c2, Postproj(b, l), c3, w2) /\ St(n, S, ln, c3.mem, w2)
      /\ Projected(n, c3.mem, w2, d, m) /\ QkvSent(n, c3.mem, d, m)
  <2>1. QkvSent(n, c3.mem, d, m)
    BY <1>4, <1>5, SentStays
  <2>2. d # b /\ Projected(n, c2.mem, w2, d, m)
    BY <1>0, <1>4
  <2>3. QED
    BY <1>5, <2>1, <2>2, RunsBeside
<1>7. PICK c4, w4 : /\ Runs(n, S, ln, c3, w2, b, Preproj(n, b, l + 1), c4, w4) /\ SameSent(c3, c4)
                    /\ Projected(n, c4.mem, w4, b, l + 1)
                    /\ Unwaited(c3, c4, {}, Of("preproj", b) \union Of("store", b), {})
  <2>1. c3.un["default"] \subseteq KvSwaps \union Of("send_qkv", 3 - b)
    BY <1>0, <1>1, <1>3, <1>5 DEF Unwaited
  <2>2. QED
    BY <1>5, <1>6, <2>1, PreprojRuns
<1>8. /\ Steps(n, S, ln, c3, Preproj(n, b, l + 1), c4, w4) /\ St(n, S, ln, c4.mem, w4)
      /\ Projected(n, c4.mem, w4, d, m) /\ QkvSent(n, c4.mem, d, m)
  <2>1. QkvSent(n, c4.mem, d, m)
    BY <1>6, <1>7, SentStays
  <2>2. d # b /\ Projected(n, c3.mem, w2, d, m)
    BY <1>0, <1>6
  <2>3. QED
    BY <1>7, <2>1, <2>2, RunsBeside
<1>9. PICK c, w : /\ Runs(n, S, ln, c4, w4, d, Attention(n, d, m), c, w)
                  /\ Attended(n, c.mem, w, d, m) /\ c.un["default"] = {}
  <2>1. c4.un["default"] \subseteq SwapOuts(n) \union Of("send_qkv", d)
    BY <1>1, <1>3, <1>5, <1>7 DEF Unwaited
  <2>2. n.batches[d].cdec # {} => c4.ur \subseteq SwapOuts(n)
    BY <1>1, <1>3, <1>5, <1>7 DEF Unwaited
  <2>3. c4.un["comm"] \subseteq Of("postproj", b) \union (Of("preproj", b) \union Of("store", b))
    BY <1>1, <1>3, <1>5, <1>7 DEF Unwaited
  <2>4. ASSUME NEW k \in c4.un["comm"]
        PROVE  BesideSend(n, d, k)
    <3>1. \E h \in Depth : k = Job("postproj", b, h) \/ k = Job("preproj", b, h) \/ k = Job("store", b, h)
      BY <2>3 DEF Of
    <3>2. QED
      BY <1>0, <3>1 DEF BesideSend
  <2>5. QED
    BY <1>8, <2>1, <2>2, <2>4, AttentionRuns
<1>10. Steps(n, S, ln, c4, Attention(n, d, m), c, w) /\ Projected(n, c.mem, w, b, l + 1)
  BY <1>0, <1>7, <1>9, RunsBeside
<1>11. Steps(n, S, ln, a, TransferQkv(n, d, m) \o SwapOutBlocks(n, b, l) \o Postproj(b, l), c3, w2)
  BY <1>2, <1>4, <1>6, StepsThen
<1>12. Steps(n, S, ln, a, ForwardPipelineStage(n, b, l, m), c, w)
  <2>1. Steps(n, S, ln, a, (TransferQkv(n, d, m) \o SwapOutBlocks(n, b, l) \o Postproj(b, l))
                           \o Preproj(n, b, l + 1) \o Attention(n, d, m), c, w)
    BY <1>8, <1>10, <1>11, StepsThen
  <2>2. QED
    BY <2>1 DEF ForwardPipelineStage
<1>13. QED
  BY <1>9, <1>10, <1>12

-------------------------------------------------------------------------------
\* The whole forward pass.

\* prog has taken the one batch through l layers.
Passed(n, S, ln, a, prog, l, c, w) ==
    /\ Steps(n, S, ln, a, prog, c, w) /\ Through(n, c.mem, w, 1, l)
    /\ c.un["default"] \subseteq SwapOuts(n) /\ c.fresh

(* One batch.                                                                *)
LEMMA SequentialRuns ==
  ASSUME NEW n, NEW S, NEW ln, Fit(n, S, ln), NEW a, NEW v, St(n, S, ln, a.mem, v),
         1 \in Bs(n), Through(n, a.mem, v, 1, 0)
  PROVE  \E c, w : /\ Steps(n, S, ln, a, ForwardSequential(n), c, w) /\ Through(n, c.mem, w, 1, Layers)
                   /\ c.un["default"] \subseteq KvSwaps /\ c.fresh
<1>0. Layers \in Nat \ {0} /\ SwapOuts(n) \subseteq KvSwaps
  BY SwapOutsAre, PipelineAssumption
<1>1. PICK a1 : Moved(n, ln, a, ComputeWaitComm, a1, a.mem, {}, a.un["comm"], a.ur)
  BY GetsComputeWaits
<1>2. Steps(n, S, ln, a, ComputeWaitComm, a1, v) /\ a1.mem = a.mem /\ a1.un["default"] = {}
  BY <1>1 DEF Moved, Steps
<1>3. PICK parts : parts = [i \in 1 .. Layers |-> Forward(n, i - 1)]
  OBVIOUS
<1>4. DOMAIN parts = 1 .. Layers /\ Len(parts) = Layers
  BY <1>0, <1>3
<1>5. PICK x : /\ x[1] = parts[1]
               /\ \A i \in 2 .. Layers : x[i] = x[i - 1] \o parts[i]
               /\ FlattenSeq(parts) = x[Layers]
  BY ONLY <1>0, <1>4, FlattenSteps
<1> DEFINE T == {i \in Nat : i = 0 \/ \E c, w : Passed(n, S, ln, a1, x[i], i, c, w)}
<1>6. 0 \in T
  OBVIOUS
<1>7. ASSUME NEW i \in 0 .. Layers - 1, i \in T
      PROVE  i + 1 \in T
  <2>0. i \in Depth /\ i + 1 \in 1 .. Layers /\ (i + 1) - 1 = i
    BY <1>0 DEF Depth
  <2>1. parts[i + 1] = Forward(n, i)
    BY <1>3, <2>0
  <2>2. CASE i = 0
    <3>1. PICK c, w : /\ Steps(n, S, ln, a1, Forward(n, i), c, w) /\ Through(n, c.mem, w, 1, i + 1)
                      /\ c.un["default"] \subseteq SwapOuts(n) /\ c.fresh
      <4>1. St(n, S, ln, a1.mem, v) /\ Through(n, a1.mem, v, 1, i) /\ a1.un["default"] \subseteq SwapOuts(n)
        BY <1>2, <2>2
      <4>2. QED
        BY <2>0, <4>1, ForwardRuns
    <3>2. x[i + 1] = Forward(n, i)
      BY <1>5, <2>1, <2>2
    <3>3. Passed(n, S, ln, a1, x[i + 1], i + 1, c, w)
      BY <3>1, <3>2 DEF Passed
    <3>4. QED
      BY <2>0, <3>3
  <2>3. CASE i # 0
    <3>1. PICK c1, w1 : Passed(n, S, ln, a1, x[i], i, c1, w1)
      BY <1>7, <2>3
    <3>2. PICK c, w : /\ Steps(n, S, ln, c1, Forward(n, i), c, w) /\ Through(n, c.mem, w, 1, i + 1)
                      /\ c.un["default"] \subseteq SwapOuts(n) /\ c.fresh
      <4>1. St(n, S, ln, c1.mem, w1) /\ Through(n, c1.mem, w1, 1, i) /\ c1.un["default"] \subseteq SwapOuts(n)
        BY <3>1 DEF Passed, Steps
      <4>2. QED
        BY <2>0, <4>1, ForwardRuns
    <3>3. x[i + 1] = x[i] \o Forward(n, i)
      <4>1. i + 1 \in 2 .. Layers
        BY <1>0, <2>3
      <4>2. QED
        BY <1>5, <2>0, <2>1, <4>1
    <3>4. Steps(n, S, ln, a1, x[i + 1], c, w)
      BY <3>1, <3>2, <3>3, StepsThen DEF Passed
    <3>5. Passed(n, S, ln, a1, x[i + 1], i + 1, c, w)
      BY <3>2, <3>4 DEF Passed
    <3>6. QED
      BY <2>0, <3>5
  <2>4. QED
    BY <2>2, <2>3
<1>8. Layers \in T
  <2> HIDE DEF T
  <2>1. \A i \in 0 .. Layers : i \in T
    BY <1>0, <1>6, <1>7, Upward
  <2>2. QED
    BY <1>0, <2>1
<1>9. PICK c, w : Passed(n, S, ln, a1, x[Layers], Layers, c, w)
  BY <1>0, <1>8
<1>10. ForwardSequential(n) = ComputeWaitComm \o x[Layers]
  BY <1>3, <1>5 DEF ForwardSequential
<1>11. Steps(n, S, ln, a, ForwardSequential(n), c, w)
  BY <1>2, <1>9, <1>10, StepsThen DEF Passed
<1>12. QED
  BY <1>0, <1>9, <1>11 DEF Passed

\* prog has taken the first batch to the attention of layer l and the second to
\* the projections before it.
Staggered(n, S, ln, a, prog, l, c, w) ==
    /\ Steps(n, S, ln, a, prog, c, w)
    /\ Attended(n, c.mem, w, 1, l) /\ Projected(n, c.mem, w, 2, l) /\ c.un["default"] = {}

(* The first stage.                                                          *)
LEMMA FirstStageRuns ==
  ASSUME NEW n, NEW S, NEW ln, Fit(n, S, ln), NEW a, NEW v, St(n, S, ln, a.mem, v),
         Bs(n) = {1, 2}, Through(n, a.mem, v, 1, 0), Through(n, a.mem, v, 2, 0),
         a.un["default"] \subseteq KvSwaps
  PROVE  \E c, w : Staggered(n, S, ln, a, ForwardFirstStage(n), 0, c, w)
<1>0. 0 \in Depth /\ 1 \in Bs(n) /\ 2 \in Bs(n)
  BY PipelineAssumption DEF Depth
<1>1. PICK c1, w1 : /\ Runs(n, S, ln, a, v, 1, Preproj(n, 1, 0), c1, w1)
                    /\ Projected(n, c1.mem, w1, 1, 0)
  BY <1>0, PreprojRuns
<1>2. /\ Steps(n, S, ln, a, Preproj(n, 1, 0), c1, w1) /\ St(n, S, ln, c1.mem, w1)
      /\ Through(n, c1.mem, w1, 2, 0)
  BY <1>0, <1>1, RunsBeside
<1>3. PICK c2 : Moved(n, ln, c1, ComputeWaitComm, c2, c1.mem, {}, c1.un["comm"], c1.ur)
  BY GetsComputeWaits
<1>4. /\ Steps(n, S, ln, c1, ComputeWaitComm, c2, w1) /\ c2.mem = c1.mem /\ c2.un["default"] = {}
      /\ St(n, S, ln, c2.mem, w1)
  BY <1>2, <1>3 DEF Moved, Steps
<1>5. PICK c3 : /\ Runs(n, S, ln, c2, w1, 1, TransferQkv(n, 1, 0), c3, w1)
                /\ Projected(n, c3.mem, w1, 1, 0) /\ QkvSent(n, c3.mem, 1, 0)
                /\ c3.un["comm"] = {} /\ c3.un["default"] \subseteq c2.un["default"] \union Of("send_qkv", 1)
                /\ n.batches[1].cdec # {} => c3.ur = {}
  <2>1. Projected(n, c2.mem, w1, 1, 0)
    BY <1>1, <1>4
  <2>2. QED
    BY <1>0, <1>4, <2>1, TransferRuns
<1>6. /\ Steps(n, S, ln, c2, TransferQkv(n, 1, 0), c3, w1) /\ St(n, S, ln, c3.mem, w1)
      /\ Through(n, c3.mem, w1, 2, 0)
  <2>1. Through(n, c2.mem, w1, 2, 0)
    BY <1>2, <1>4
  <2>2. QED
    BY <1>0, <1>5, <2>1, RunsBeside
<1>7. PICK c4, w4 : /\ Runs(n, S, ln, c3, w1, 2, Preproj(n, 2, 0), c4, w4) /\ SameSent(c3, c4)
                    /\ Projected(n, c4.mem, w4, 2, 0)
                    /\ Unwaited(c3, c4, {}, Of("preproj", 2) \union Of("store", 2), {})
  <2>1. c3.un["default"] \subseteq KvSwaps \union Of("send_qkv", 3 - 2)
    BY <1>4, <1>5
  <2>2. QED
    BY <1>0, <1>6, <2>1, PreprojRuns
<1>8. /\ Steps(n, S, ln, c3, Preproj(n, 2, 0), c4, w4) /\ St(n, S, ln, c4.mem, w4)
      /\ Projected(n, c4.mem, w4, 1, 0) /\ QkvSent(n, c4.mem, 1, 0)
  <2>1. QkvSent(n, c4.mem, 1, 0)
    BY <1>5, <1>7, SentStays
  <2>2. QED
    BY <1>0, <1>5, <1>7, <2>1, RunsBeside
<1>9. PICK c, w : /\ Runs(n, S, ln, c4, w4, 1, Attention(n, 1, 0), c, w)
                  /\ Attended(n, c.mem, w, 1, 0) /\ c.un["default"] = {}
  <2>1. c4.un["default"] \subseteq SwapOuts(n) \union Of("send_qkv", 1)
    BY <1>4, <1>5, <1>7 DEF Unwaited
  <2>2. n.batches[1].cdec # {} => c4.ur \subseteq SwapOuts(n)
    BY <1>5, <1>7 DEF Unwaited
  <2>3. c4.un["comm"] \subseteq Of("preproj", 2) \union Of("store", 2)
    BY <1>5, <1>7 DEF Unwaited
  <2>4. ASSUME NEW k \in c4.un["comm"]
        PROVE  BesideSend(n, 1, k)
    <3>1. \E h \in Depth : k = Job("preproj", 2, h) \/ k = Job("store", 2, h)
      BY <2>3 DEF Of
    <3>2. QED
      BY <1>0, <3>1 DEF BesideSend
  <2>5. QED
    BY <1>0, <1>8, <2>1, <2>2, <2>4, AttentionRuns
<1>10. Steps(n, S, ln, c4, Attention(n, 1, 0), c, w) /\ Projected(n, c.mem, w, 2, 0)
  BY <1>0, <1>7, <1>9, RunsBeside
<1>11. Steps(n, S, ln, a, Preproj(n, 1, 0) \o ComputeWaitComm \o TransferQkv(n, 1, 0), c3, w1)
  BY <1>2, <1>4, <1>6, StepsThen
<1>12. Steps(n, S, ln, a, ForwardFirstStage(n), c, w)
  <2>1. Steps(n, S, ln, a, (Preproj(n, 1, 0) \o ComputeWaitComm \o TransferQkv(n, 1, 0))
                           \o Preproj(n, 2, 0) \o Attention(n, 1, 0), c, w)
    BY <1>8, <1>10, <1>11, StepsThen
  <2>2. QED
    BY <2>1 DEF ForwardFirstStage
<1>13. QED
  BY <1>9, <1>10, <1>12 DEF Staggered

(* A layer of both.                                                          *)
LEMMA DoubleRuns ==
  ASSUME NEW n, NEW S, NEW ln, Fit(n, S, ln), NEW a, NEW v, St(n, S, ln, a.mem, v),
         Bs(n) = {1, 2}, NEW l \in Depth, l + 1 \in Depth,
         Attended(n, a.mem, v, 1, l), Projected(n, a.mem, v, 2, l), a.un["default"] = {}
  PROVE  \E c, w : Staggered(n, S, ln, a, ForwardDouble(n, l), l + 1, c, w)
<1>0. 1 \in Bs(n) /\ 2 \in Bs(n) /\ 2 = 3 - 1 /\ 1 = 3 - 2
  OBVIOUS
<1>2. PICK c1, w1 : /\ Steps(n, S, ln, a, ForwardPipelineStage(n, 1, l, l), c1, w1)
                    /\ Projected(n, c1.mem, w1, 1, l + 1) /\ Attended(n, c1.mem, w1, 2, l)
                    /\ c1.un["default"] = {}
  BY <1>0, StageRuns
<1>3. PICK c, w : /\ Steps(n, S, ln, c1, ForwardPipelineStage(n, 2, l, l + 1), c, w)
                  /\ Projected(n, c.mem, w, 2, l + 1) /\ Attended(n, c.mem, w, 1, l + 1)
                  /\ c.un["default"] = {}
  <2>1. St(n, S, ln, c1.mem, w1)
    BY <1>2 DEF Steps
  <2>2. QED
    BY <1>0, <1>2, <2>1, StageRuns
<1>4. Steps(n, S, ln, a, ForwardDouble(n, l), c, w)
  BY <1>2, <1>3, StepsThen DEF ForwardDouble
<1>5. QED
  BY <1>3, <1>4 DEF Staggered

(* The last stage: the second batch has no prefills to swap out.             *)
LEMMA LastStageRuns ==
  ASSUME NEW n, NEW S, NEW ln, Fit(n, S, ln), NEW a, NEW v, St(n, S, ln, a.mem, v),
         Bs(n) = {1, 2}, n.batches[2].cprf = {},
         Attended(n, a.mem, v, 1, Layers - 1), Projected(n, a.mem, v, 2, Layers - 1),
         a.un["default"] = {}
  PROVE  \E c, w : /\ Steps(n, S, ln, a, ForwardLastStage(n), c, w)
                   /\ Through(n, c.mem, w, 1, Layers) /\ Through(n, c.mem, w, 2, Layers)
                   /\ c.un["default"] \subseteq KvSwaps /\ c.fresh
<1>0. /\ 1 \in Bs(n) /\ 2 \in Bs(n) /\ 2 = 3 - 1 /\ 1 = 3 - 2 /\ Layers - 1 \in Depth
      /\ (Layers - 1) + 1 = Layers
  BY PipelineAssumption DEF Depth
<1>s. SwapOuts(n) \subseteq KvSwaps
  BY SwapOutsAre
<1>1. PICK l \in Depth : l = Layers - 1 /\ l + 1 = Layers
  BY <1>0
<1>2. Attended(n, a.mem, v, 1, l) /\ Projected(n, a.mem, v, 2, l)
  BY <1>1
<1>3. PICK c1 : /\ Runs(n, S, ln, a, v, 2, TransferQkv(n, 2, l), c1, v)
                /\ Projected(n, c1.mem, v, 2, l) /\ QkvSent(n, c1.mem, 2, l)
                /\ c1.un["comm"] = {} /\ c1.un["default"] \subseteq a.un["default"] \union Of("send_qkv", 2)
                /\ n.batches[2].cdec # {} => c1.ur = {}
  BY <1>0, <1>2, TransferRuns
<1>4. /\ Steps(n, S, ln, a, TransferQkv(n, 2, l), c1, v) /\ St(n, S, ln, c1.mem, v)
      /\ Attended(n, c1.mem, v, 1, l)
  BY <1>0, <1>2, <1>3, RunsBeside
<1>5. PICK c2, w2 : /\ Runs(n, S, ln, c1, v, 1, SwapOutBlocks(n, 1, l), c2, w2) /\ SameSent(c1, c2)
                    /\ Attending(n, c2.mem, w2, 1, l)
                    /\ Unwaited(c1, c2, SwapOuts(n), {}, SwapOuts(n))
  <2>1. \A k \in c1.un["comm"] : \E e \in Bs(n) : k \in Of("attention", e)
    BY <1>3
  <2>2. QED
    BY <1>0, <1>4, <2>1, SwapOutRuns
<1>6. /\ Steps(n, S, ln, c1, SwapOutBlocks(n, 1, l), c2, w2) /\ St(n, S, ln, c2.mem, w2)
      /\ Projected(n, c2.mem, w2, 2, l) /\ QkvSent(n, c2.mem, 2, l)
  <2>1. QkvSent(n, c2.mem, 2, l)
    BY <1>3, <1>5, SentStays
  <2>2. QED
    BY <1>0, <1>3, <1>5, <2>1, RunsBeside
<1>7. PICK c3 : /\ Runs(n, S, ln, c2, w2, 1, Postproj(1, l), c3, w2) /\ SameSent(c2, c3)
                /\ Through(n, c3.mem, w2, 1, l + 1)
                /\ Unwaited(c2, c3, {}, Of("postproj", 1), {})
  <2>1. c2.un["default"] \subseteq KvSwaps \union Of("send_qkv", 3 - 1)
    BY <1>0, <1>s, <1>3, <1>5 DEF Unwaited
  <2>2. QED
    BY <1>0, <1>5, <1>6, <2>1, PostprojRuns
<1>8. /\ Steps(n, S, ln, c2, Postproj(1, l), c3, w2) /\ St(n, S, ln, c3.mem, w2)
      /\ Projected(n, c3.mem, w2, 2, l) /\ QkvSent(n, c3.mem, 2, l)
  <2>1. QkvSent(n, c3.mem, 2, l)
    BY <1>6, <1>7, SentStays
  <2>2. QED
    BY <1>0, <1>6, <1>7, <2>1, RunsBeside
<1>9. PICK c4, w4 : /\ Runs(n, S, ln, c3, w2, 2, Attention(n, 2, l), c4, w4)
                    /\ Attended(n, c4.mem, w4, 2, l) /\ c4.un["default"] = {}
  <2>1. c3.un["default"] \subseteq SwapOuts(n) \union Of("send_qkv", 2)
    BY <1>3, <1>5, <1>7 DEF Unwaited
  <2>2. n.batches[2].cdec # {} => c3.ur \subseteq SwapOuts(n)
    BY <1>3, <1>5, <1>7 DEF Unwaited
  <2>3. c3.un["comm"] \subseteq Of("postproj", 1)
    BY <1>3, <1>5, <1>7 DEF Unwaited
  <2>4. ASSUME NEW k \in c3.un["comm"]
        PROVE  BesideSend(n, 2, k)
    <3>1. \E h \in Depth : k = Job("postproj", 1, h)
      BY <2>3 DEF Of
    <3>2. QED
      BY <1>0, <3>1 DEF BesideSend
  <2>5. QED
    BY <1>0, <1>8, <2>1, <2>2, <2>4, AttentionRuns
<1>10. /\ Steps(n, S, ln, c3, Attention(n, 2, l), c4, w4) /\ St(n, S, ln, c4.mem, w4)
       /\ Aside(n, c3.mem, w2, c4.mem, w4, 1)
  BY <1>0, <1>9 DEF Runs, Others, Steps
<1>11. Through(n, c4.mem, w4, 1, l + 1)
  <2>1. PICK m, m2 : m = c3.mem /\ m2 = c4.mem
    OBVIOUS
  <2>2. Aside(n, m, w2, m2, w4, 1) /\ Through(n, m, w2, 1, l + 1)
    BY <1>7, <1>10, <2>1
  <2>3. Through(n, m2, w4, 1, l + 1)
    BY ONLY <2>2, AsideStays
  <2>4. QED
    BY <2>1, <2>3
<1>12. Attending(n, c4.mem, w4, 2, l)
  <2>1. At(w4, n.batches[2].gprf \union n.batches[2].gdec \union n.batches[2].cdec, l + 1)
        /\ Att(n, c4.mem, 2, l)
    BY <1>9 DEF Attended
  <2>2. Members(n.batches[2]) = n.batches[2].gprf \union n.batches[2].gdec \union n.batches[2].cdec
    BY InBatch
  <2>3. QED
    BY <2>1, <2>2 DEF Attending
<1>13. PICK c : /\ Runs(n, S, ln, c4, w4, 2, Postproj(2, l), c, w4)
                /\ Through(n, c.mem, w4, 2, l + 1)
                /\ Unwaited(c4, c, {}, Of("postproj", 2), {}) /\ c.fresh
  <2>1. c4.un["default"] \subseteq KvSwaps \union Of("send_qkv", 3 - 2)
    BY <1>9
  <2>2. QED
    BY <1>0, <1>10, <1>12, <2>1, PostprojRuns
<1>14. Steps(n, S, ln, c4, Postproj(2, l), c, w4) /\ Aside(n, c4.mem, w4, c.mem, w4, 1)
  BY <1>0, <1>13 DEF Runs, Others, Steps
<1>15. Through(n, c.mem, w4, 1, l + 1)
  <2>1. PICK m, m2 : m = c4.mem /\ m2 = c.mem
    OBVIOUS
  <2>2. Aside(n, m, w4, m2, w4, 1) /\ Through(n, m, w4, 1, l + 1)
    BY <1>11, <1>14, <2>1
  <2>3. Through(n, m2, w4, 1, l + 1)
    BY ONLY <2>2, AsideStays
  <2>4. QED
    BY <2>1, <2>3
<1>16. Steps(n, S, ln, a, TransferQkv(n, 2, l) \o SwapOutBlocks(n, 1, l) \o Postproj(1, l), c3, w2)
  BY <1>4, <1>6, <1>8, StepsThen
<1>17. Steps(n, S, ln, a, ForwardLastStage(n), c, w4)
  <2>1. Steps(n, S, ln, a, (TransferQkv(n, 2, l) \o SwapOutBlocks(n, 1, l) \o Postproj(1, l))
                           \o Attention(n, 2, l) \o Postproj(2, l), c, w4)
    BY <1>10, <1>14, <1>16, StepsThen
  <2>2. QED
    BY <1>1, <2>1 DEF ForwardLastStage
<1>18. c.un["default"] \subseteq KvSwaps
  BY <1>9, <1>13 DEF Unwaited
<1>19. QED
  BY <1>1, <1>13, <1>15, <1>17, <1>18

(* Nothing is put together of nothing.                                       *)
LEMMA NothingFlat == FlattenSeq(<<>>) = <<>>
<1>1. Len(<<>>) = 0
  OBVIOUS
<1>2. QED
  BY <1>1 DEF FlattenSeq

(* Two batches.                                                              *)
LEMMA PipelineRuns ==
  ASSUME NEW n, NEW S, NEW ln, Fit(n, S, ln), NEW a, NEW v, St(n, S, ln, a.mem, v),
         Bs(n) = {1, 2}, n.batches[2].cprf = {},
         Through(n, a.mem, v, 1, 0), Through(n, a.mem, v, 2, 0), a.un["default"] \subseteq KvSwaps
  PROVE  \E c, w : /\ Steps(n, S, ln, a, ForwardPipeline(n), c, w)
                   /\ Through(n, c.mem, w, 1, Layers) /\ Through(n, c.mem, w, 2, Layers)
                   /\ c.un["default"] \subseteq KvSwaps /\ c.fresh
<1>0. Layers \in Nat \ {0}
  BY PipelineAssumption
<1>1. PICK c1, w1 : Staggered(n, S, ln, a, ForwardFirstStage(n), 0, c1, w1)
  BY FirstStageRuns
<1>2. PICK mid : mid = FlattenSeq([i \in 1 .. Layers - 1 |-> ForwardDouble(n, i - 1)])
  OBVIOUS
<1>3. \E c, w : Staggered(n, S, ln, c1, mid, Layers - 1, c, w)
  <2>1. CASE Layers = 1
    <3>1. mid = <<>>
      <4>1. PICK parts : parts = [i \in 1 .. Layers - 1 |-> ForwardDouble(n, i - 1)]
        OBVIOUS
      <4>2. parts = <<>>
        BY <2>1, <4>1
      <4>3. FlattenSeq(<<>>) = <<>>
        BY NothingFlat
      <4>4. QED
        BY <1>2, <4>1, <4>2, <4>3
    <3>2. Steps(n, S, ln, c1, mid, c1, w1)
      BY <1>1, <3>1, GetsNone DEF Staggered, Steps
    <3>3. Staggered(n, S, ln, c1, mid, Layers - 1, c1, w1)
      BY <1>1, <2>1, <3>2 DEF Staggered
    <3>4. QED
      BY <3>3
  <2>2. CASE Layers # 1
    <3>0. PICK N \in Nat \ {0} : N = Layers - 1
      BY <1>0, <2>2
    <3>1. PICK parts : parts = [i \in 1 .. N |-> ForwardDouble(n, i - 1)]
      OBVIOUS
    <3>2. DOMAIN parts = 1 .. N /\ Len(parts) = N /\ mid = FlattenSeq(parts)
      BY <1>2, <3>0, <3>1
    <3>3. PICK x : /\ x[1] = parts[1]
                   /\ \A i \in 2 .. N : x[i] = x[i - 1] \o parts[i]
                   /\ FlattenSeq(parts) = x[N]
      BY ONLY N \in Nat \ {0}, <3>2, FlattenSteps
    <3> DEFINE T == {i \in Nat : i = 0 \/ \E c, w : Staggered(n, S, ln, c1, x[i], i, c, w)}
    <3>4. 0 \in T
      OBVIOUS
    <3>5. ASSUME NEW i \in 0 .. N - 1, i \in T
          PROVE  i + 1 \in T
      <4>0. i \in Depth /\ i + 1 \in Depth /\ i + 1 \in 1 .. N /\ (i + 1) - 1 = i /\ i + 1 \in Nat
        BY <1>0, <3>0 DEF Depth
      <4>1. parts[i + 1] = ForwardDouble(n, i)
        BY <3>1, <4>0
      <4>2. CASE i = 0
        <5>1. x[i + 1] = ForwardDouble(n, i)
          BY <3>3, <4>1, <4>2
        <5>2. /\ St(n, S, ln, c1.mem, w1) /\ c1.un["default"] = {}
              /\ Attended(n, c1.mem, w1, 1, i) /\ Projected(n, c1.mem, w1, 2, i)
          BY <1>1, <4>2 DEF Staggered, Steps
        <5>3. \E c, w : Staggered(n, S, ln, c1, ForwardDouble(n, i), i + 1, c, w)
          BY <4>0, <5>2, DoubleRuns
        <5>4. QED
          BY <4>0, <5>1, <5>3
      <4>3. CASE i # 0
        <5>1. PICK c2, w2 : Staggered(n, S, ln, c1, x[i], i, c2, w2)
          BY <3>5, <4>3
        <5>2. /\ St(n, S, ln, c2.mem, w2) /\ c2.un["default"] = {}
              /\ Attended(n, c2.mem, w2, 1, i) /\ Projected(n, c2.mem, w2, 2, i)
          BY <5>1 DEF Staggered, Steps
        <5>3. PICK c, w : Staggered(n, S, ln, c2, ForwardDouble(n, i), i + 1, c, w)
          BY <4>0, <5>2, DoubleRuns
        <5>4. x[i + 1] = x[i] \o ForwardDouble(n, i)
          <6>1. i + 1 \in 2 .. N
            BY <4>0, <4>3
          <6>2. QED
            BY <3>3, <4>0, <4>1, <6>1
        <5>5. Steps(n, S, ln, c1, x[i + 1], c, w)
          BY <5>1, <5>3, <5>4, StepsThen DEF Staggered
        <5>6. Staggered(n, S, ln, c1, x[i + 1], i + 1, c, w)
          BY <5>3, <5>5 DEF Staggered
        <5>7. QED
          BY <4>0, <5>6
      <4>4. QED
        BY <4>2, <4>3
    <3>6. N \in T
      <4> HIDE DEF T
      <4>1. \A i \in 0 .. N : i \in T
        BY <3>4, <3>5, Upward
      <4>2. QED
        BY <4>1
    <3>7. QED
      BY <3>0, <3>2, <3>3, <3>6
  <2>3. QED
    BY <2>1, <2>2
<1>4. PICK c2, w2 : Staggered(n, S, ln, c1, mid, Layers - 1, c2, w2)
  BY <1>3
<1>5. PICK c, w : /\ Steps(n, S, ln, c2, ForwardLastStage(n), c, w)
                  /\ Through(n, c.mem, w, 1, Layers) /\ Through(n, c.mem, w, 2, Layers)
                  /\ c.un["default"] \subseteq KvSwaps /\ c.fresh
  BY <1>4, LastStageRuns DEF Staggered, Steps
<1>6. Steps(n, S, ln, a, ForwardFirstStage(n) \o mid \o ForwardLastStage(n), c, w)
  BY <1>1, <1>4, <1>5, StepsThen DEF Staggered
<1>7. QED
  BY <1>2, <1>5, <1>6 DEF ForwardPipeline

-------------------------------------------------------------------------------
\* Before the forward pass: the swaps of the scheduler.

\* The requests whose KV an iteration finds, where they had it (pl is the block
\* tables before the iteration), and those it moves.
Kvs(n, S) == {r \in S : \A b \in Bs(n) : r \notin Prefs(n.batches[b])}
Old(pl, r, l) == IF pl[r].dev = "gpu" THEN <<"k_cache", l, pl[r].blk>> ELSE <<"k_swap", l, pl[r].blk>>
Movers(n) == n.out \union n.in

\* The copies take what is moved from its old place to its new one, which is
\* nobody's old one.
MovesFit(n, S, pl) ==
    /\ Movers(n) \subseteq Kvs(n, S)
    /\ \A l \in Depth : IterCopies(n, l) = {<<Old(pl, r, l), Home(n, r, l)>> : r \in Movers(n)}
    /\ \A r \in Kvs(n, S) : \A l \in Depth : Old(pl, r, l) \in KvCells
    /\ \A r \in Kvs(n, S) \ Movers(n) : \A l \in Depth : Old(pl, r, l) = Home(n, r, l)
    /\ \A r \in Movers(n), q \in Kvs(n, S) : \A l, k \in Depth : Home(n, r, l) # Old(pl, q, k)

\* The first i layers are moved.
OldKv(n, S, ln, m, pl, i) ==
    \A r \in Kvs(n, S) : \A l \in Depth :
        /\ r \in Movers(n) /\ l >= i => m[Old(pl, r, l)] = <<r, ln[r]>>
        /\ r \notin Movers(n) \/ l < i => m[Home(n, r, l)] = <<r, ln[r]>>

\* The machine when there are no kernels in flight.
Quiet(c) == c.un["comm"] = {} /\ c.un["default"] \subseteq KvSwaps

(* What the copies of one layer do to the memory.                            *)
LEMMA MovesJob ==
  ASSUME NEW n, NEW S, NEW ln, Fit(n, S, ln), NEW pl, MovesFit(n, S, pl), NEW i \in Depth,
         NEW m, OldKv(n, S, ln, m, pl, i),
         NEW m2, m2 = ApplyTo(n, ln, m, SwapJob(IterCopies(n, i)))
  PROVE  OldKv(n, S, ln, m2, pl, i + 1)
<1>1. PICK cc : cc = IterCopies(n, i)
  OBVIOUS
<1>2. PICK M : M = Movers(n) /\ M \subseteq Kvs(n, S) /\ M \subseteq S
  BY DEF MovesFit, Kvs
<1>3. cc = {<<Old(pl, r, i), Home(n, r, i)>> : r \in M}
  BY <1>1, <1>2 DEF MovesFit
<1>4. \A p, q \in cc : p[2] = q[2] => p = q
  <2> TAKE p, q \in cc
  <2>1. PICK r \in M : p = <<Old(pl, r, i), Home(n, r, i)>>
    BY <1>3
  <2>2. PICK s \in M : q = <<Old(pl, s, i), Home(n, s, i)>>
    BY <1>3
  <2>3. p[2] = Home(n, r, i) /\ q[2] = Home(n, s, i)
    BY <2>1, <2>2
  <2>4. Home(n, r, i) = Home(n, s, i) => r = s
    <3>1. r \in S /\ s \in S
      BY <1>2
    <3>2. QED
      BY <3>1, HomesDiffer
  <2>5. QED
    BY <2>1, <2>2, <2>3, <2>4
<1>5. /\ \A p \in cc : p[2] \in Cells => m2[p[2]] = m[p[1]]
      /\ \A c \in Cells : (\A p \in cc : p[2] # c) => m2[c] = m[c]
  BY <1>1, <1>4, SwapCopies
<1>6. \A r \in M : m2[Home(n, r, i)] = m[Old(pl, r, i)]
  <2> TAKE r \in M
  <2>1. PICK p \in cc : p = <<Old(pl, r, i), Home(n, r, i)>>
    BY <1>3
  <2>2. p[1] = Old(pl, r, i) /\ p[2] = Home(n, r, i)
    BY <2>1
  <2>3. p[2] \in Cells
    BY <1>2, <2>2, HomesDiffer
  <2>4. QED
    BY <1>5, <2>2, <2>3
<1>7. ASSUME NEW c \in Cells, \A r \in M : c # Home(n, r, i)
      PROVE  m2[c] = m[c]
  <2>1. \A p \in cc : p[2] # c
    BY <1>3, <1>7
  <2>2. QED
    BY <1>5, <2>1
<1>8. ASSUME NEW r \in Kvs(n, S), NEW l \in Depth, r \in M, l >= i + 1
      PROVE  m2[Old(pl, r, l)] = <<r, ln[r]>>
  <2>1. l >= i
    BY <1>8 DEF Depth
  <2>2. m[Old(pl, r, l)] = <<r, ln[r]>>
    BY <1>2, <1>8, <2>1 DEF OldKv
  <2>3. \A q \in M : Old(pl, r, l) # Home(n, q, i)
    BY <1>2 DEF MovesFit
  <2>4. Old(pl, r, l) \in Cells
    BY DEF MovesFit, KvCells
  <2>5. QED
    BY <1>7, <2>2, <2>3, <2>4
<1>9. ASSUME NEW r \in Kvs(n, S), NEW l \in Depth, r \notin M \/ l < i
      PROVE  m2[Home(n, r, l)] = <<r, ln[r]>>
  <2>1. m[Home(n, r, l)] = <<r, ln[r]>>
    BY <1>2, <1>9 DEF OldKv
  <2>2. r \in S
    BY DEF Kvs
  <2>3. \A q \in M : Home(n, r, l) # Home(n, q, i)
    <3> TAKE q \in M
    <3>1. r # q \/ l # i
      BY <1>9 DEF Depth
    <3>2. QED
      BY <1>2, <2>2, <3>1, HomesDiffer
  <2>4. Home(n, r, l) \in Cells
    BY <2>2, HomesDiffer
  <2>5. QED
    BY <1>7, <2>1, <2>3, <2>4
<1>10. ASSUME NEW r \in M
       PROVE  m2[Home(n, r, i)] = <<r, ln[r]>>
  <2>1. r \in Kvs(n, S) /\ i >= i
    BY <1>2 DEF Depth
  <2>2. m[Old(pl, r, i)] = <<r, ln[r]>>
    BY <1>2, <2>1 DEF OldKv
  <2>3. QED
    BY <1>6, <2>2
<1>11. ASSUME NEW r \in Kvs(n, S), NEW l \in Depth, r \notin M \/ l < i + 1
       PROVE  m2[Home(n, r, l)] = <<r, ln[r]>>
  <2>1. r \notin M \/ l < i \/ l = i
    BY <1>11 DEF Depth
  <2>2. CASE r \notin M \/ l < i
    BY <1>9, <2>2
  <2>3. CASE r \in M /\ l = i
    BY <1>10, <2>3
  <2>4. QED
    BY <2>1, <2>2, <2>3
<1>12. QED
  BY <1>2, <1>8, <1>11 DEF OldKv

(* The copies of one layer.                                                  *)
LEMMA MovesRuns ==
  ASSUME NEW n, NEW S, NEW ln, Fit(n, S, ln), NEW pl, MovesFit(n, S, pl), NEW i \in Depth,
         NEW a, OldKv(n, S, ln, a.mem, pl, i), Quiet(a)
  PROVE  \E c : /\ Gets(n, ln, a, SwapBlocks(IterCopies(n, i)), c)
                /\ OldKv(n, S, ln, c.mem, pl, i + 1) /\ Quiet(c)
<1>1. PICK cc : cc = IterCopies(n, i)
  OBVIOUS
<1>2. cc = {<<Old(pl, r, i), Home(n, r, i)>> : r \in Movers(n)} /\ Movers(n) \subseteq Kvs(n, S)
  BY <1>1 DEF MovesFit
<1>3. CASE cc = {}
  <2>1. SwapBlocks(IterCopies(n, i)) = <<>>
    BY <1>1, <1>3 DEF SwapBlocks
  <2>2. Movers(n) = {}
    BY <1>2, <1>3
  <2>3. OldKv(n, S, ln, a.mem, pl, i + 1)
    BY <2>2 DEF OldKv
  <2>4. QED
    BY <2>1, <2>3, GetsNone
<1>4. CASE cc # {}
  <2>1. PICK j : j = SwapJob(cc)
    OBVIOUS
  <2>2. j.kind = "swap" /\ j.b = 1 /\ j.l = 0 /\ j.copies = cc
    BY <2>1 DEF SwapJob
  <2>3. \A r \in Movers(n) : Old(pl, r, i) \in KvCells /\ Home(n, r, i) \in KvCells
    <3> TAKE r \in Movers(n)
    <3>1. r \in Kvs(n, S) /\ r \in S
      BY <1>2 DEF Kvs
    <3>2. QED
      BY <3>1, HomesDiffer DEF MovesFit, KvCells
  <2>4. cc \in SUBSET (KvCells \X KvCells)
    BY <1>2, <2>3
  <2>5. j \in KvSwaps
    <3>1. KvCells \subseteq Cells
      BY DEF KvCells
    <3>2. cc \in SUBSET (Cells \X Cells)
      BY <2>4, <3>1
    <3>3. 0 \in 0 .. Layers - 1 /\ "swap" \in DefaultKinds \union CommKinds \union {"cpu"}
      BY PipelineAssumption DEF CommKinds
    <3>4. j \in Jobs
      BY <2>1, <3>2, <3>3 DEF SwapJob, Jobs
    <3>5. QED
      BY <2>2, <2>4, <3>4 DEF KvSwaps
  <2>6. j \in Jobs /\ j.kind \in CommKinds /\ Reads(n, j) \subseteq Cells
    BY <2>5, SwapsKv DEF KvSwaps, CommKinds
  <2>7. PICK c : Moved(n, ln, a, One("comm", j), c, ApplyTo(n, ln, a.mem, j),
                       a.un["default"] \union {j}, a.un["comm"], a.ur \union {j})
    <3>1. \A k \in a.un["comm"] : ~Clash(n, j, k)
      BY DEF Quiet
    <3>2. QED
      BY <2>6, <3>1, GetsComm
  <2>8. SwapBlocks(IterCopies(n, i)) = One("comm", j)
    BY <1>1, <1>4, <2>1 DEF SwapBlocks, One, SwapJob
  <2>9. Gets(n, ln, a, SwapBlocks(IterCopies(n, i)), c) /\ Quiet(c)
    BY <2>5, <2>7, <2>8 DEF Moved, Quiet
  <2>10. OldKv(n, S, ln, c.mem, pl, i + 1)
    <3>1. PICK m, m2 : m = a.mem /\ m2 = c.mem
      OBVIOUS
    <3>2. OldKv(n, S, ln, m, pl, i)
      BY <3>1
    <3>3. m2 = ApplyTo(n, ln, m, SwapJob(IterCopies(n, i)))
      BY <1>1, <2>1, <2>7, <3>1 DEF Moved
    <3>4. OldKv(n, S, ln, m2, pl, i + 1)
      BY ONLY Fit(n, S, ln), MovesFit(n, S, pl), i \in Depth, <3>2, <3>3, MovesJob
    <3>5. QED
      BY <3>1, <3>4
  <2>11. QED
    BY <2>9, <2>10
<1>5. QED
  BY <1>3, <1>4

\* prog has moved l layers.
MovedTo(n, S, ln, a, prog, pl, l, c) ==
    Gets(n, ln, a, prog, c) /\ OldKv(n, S, ln, c.mem, pl, l) /\ Quiet(c)

\* The program of all the swaps.
SwapsWork(n) == FlattenSeq([i \in 1 .. Layers |-> SwapBlocks(IterCopies(n, i - 1))])

(* The copies of all layers: the KV of every request is where the iteration  *)
(* wants it.                                                                 *)
LEMMA AllMoves ==
  ASSUME NEW n, NEW S, NEW ln, Fit(n, S, ln), NEW pl, MovesFit(n, S, pl),
         NEW a, OldKv(n, S, ln, a.mem, pl, 0), Quiet(a)
  PROVE  \E c, v : Steps(n, S, ln, a, SwapsWork(n), c, v) /\ Quiet(c) /\ v = [r \in S |-> 0]
<1>0. Layers \in Nat \ {0}
  BY PipelineAssumption
<1>1. PICK parts : parts = [i \in 1 .. Layers |-> SwapBlocks(IterCopies(n, i - 1))]
  OBVIOUS
<1>2. DOMAIN parts = 1 .. Layers /\ Len(parts) = Layers
  BY <1>0, <1>1
<1>3. PICK x : /\ x[1] = parts[1]
               /\ \A i \in 2 .. Layers : x[i] = x[i - 1] \o parts[i]
               /\ FlattenSeq(parts) = x[Layers]
  BY ONLY <1>0, <1>2, FlattenSteps
<1> DEFINE T == {i \in Nat : i = 0 \/ \E c : MovedTo(n, S, ln, a, x[i], pl, i, c)}
<1>4. 0 \in T
  OBVIOUS
<1>5. ASSUME NEW i \in 0 .. Layers - 1, i \in T
      PROVE  i + 1 \in T
  <2>0. i \in Depth /\ i + 1 \in 1 .. Layers /\ (i + 1) - 1 = i /\ i + 1 \in Nat
    BY <1>0 DEF Depth
  <2>1. parts[i + 1] = SwapBlocks(IterCopies(n, i))
    BY <1>1, <2>0
  <2>2. CASE i = 0
    <3>1. PICK c : /\ Gets(n, ln, a, SwapBlocks(IterCopies(n, i)), c)
                   /\ OldKv(n, S, ln, c.mem, pl, i + 1) /\ Quiet(c)
      BY <2>0, <2>2, MovesRuns
    <3>2. x[i + 1] = SwapBlocks(IterCopies(n, i))
      BY <1>3, <2>1, <2>2
    <3>3. MovedTo(n, S, ln, a, x[i + 1], pl, i + 1, c)
      BY <3>1, <3>2 DEF MovedTo
    <3>4. QED
      BY <2>0, <3>3
  <2>3. CASE i # 0
    <3>1. PICK c1 : MovedTo(n, S, ln, a, x[i], pl, i, c1)
      BY <1>5, <2>3
    <3>2. PICK c : /\ Gets(n, ln, c1, SwapBlocks(IterCopies(n, i)), c)
                   /\ OldKv(n, S, ln, c.mem, pl, i + 1) /\ Quiet(c)
      BY <2>0, <3>1, MovesRuns DEF MovedTo
    <3>3. x[i + 1] = x[i] \o SwapBlocks(IterCopies(n, i))
      <4>1. i + 1 \in 2 .. Layers
        BY <1>0, <2>3
      <4>2. QED
        BY <1>3, <2>0, <2>1, <4>1
    <3>4. Gets(n, ln, a, x[i + 1], c)
      BY <3>1, <3>2, <3>3, GetsThen DEF MovedTo
    <3>5. MovedTo(n, S, ln, a, x[i + 1], pl, i + 1, c)
      BY <3>2, <3>4 DEF MovedTo
    <3>6. QED
      BY <2>0, <3>5
  <2>4. QED
    BY <2>2, <2>3
<1>6. Layers \in T
  <2> HIDE DEF T
  <2>1. \A i \in 0 .. Layers : i \in T
    BY <1>0, <1>4, <1>5, Upward
  <2>2. QED
    BY <1>0, <2>1
<1>7. PICK c : MovedTo(n, S, ln, a, x[Layers], pl, Layers, c)
  BY <1>0, <1>6
<1>8. PICK v : v = [r \in S |-> 0]
  OBVIOUS
<1>9. St(n, S, ln, c.mem, v)
  <2>1. v \in [S -> Nat] /\ \A r \in S : v[r] = 0
    BY <1>8
  <2>2. Still(n, S, v)
    BY <2>1 DEF Still
  <2>3. KvAt(n, S, ln, c.mem, v)
    <3> SUFFICES ASSUME NEW r \in S, NEW l \in Depth
                 PROVE  /\ l < v[r] => c.mem[Home(n, r, l)] = <<r, ln[r] + 1>>
                        /\ l >= v[r] /\ (\A b \in Bs(n) : r \notin Prefs(n.batches[b])) =>
                              c.mem[Home(n, r, l)] = <<r, ln[r]>>
      BY DEF KvAt
    <3>1. ~(l < v[r]) /\ l < Layers
      BY <1>0, <2>1 DEF Depth
    <3>2. (\A b \in Bs(n) : r \notin Prefs(n.batches[b])) => r \in Kvs(n, S)
      BY DEF Kvs
    <3>3. r \in Kvs(n, S) => c.mem[Home(n, r, l)] = <<r, ln[r]>>
      BY <1>7, <3>1 DEF MovedTo, OldKv
    <3>4. QED
      BY <3>1, <3>2, <3>3
  <2>4. QED
    BY <2>1, <2>2, <2>3 DEF St
<1>10. QED
  BY <1>1, <1>3, <1>7, <1>8, <1>9 DEF MovedTo, Steps, SwapsWork

-------------------------------------------------------------------------------
\* The whole iteration.

\* The batches there are: one, or a second one without prefills.
Shape(n) ==
    \/ Len(n.batches) = 1 /\ Bs(n) = {1}
    \/ Len(n.batches) = 2 /\ Bs(n) = {1, 2} /\ n.batches[2].cprf = {}

(* A batch begins.                                                           *)
LEMMA EmbedRuns ==
  ASSUME NEW n, NEW S, NEW ln, Fit(n, S, ln), NEW a, NEW v, St(n, S, ln, a.mem, v),
         NEW b \in Bs(n), At(v, Members(n.batches[b]), 0), a.un["default"] \subseteq KvSwaps
  PROVE  \E c : /\ Runs(n, S, ln, a, v, b, On("default", "embed", b, 0), c, v)
                /\ Through(n, c.mem, v, b, 0) /\ c.un["default"] \subseteq KvSwaps
<1>1. b \in {1, 2} /\ 0 \in Depth
  BY BatchFacts, PipelineAssumption DEF Depth
<1>2. PICK j : j = Job("embed", b, 0)
  OBVIOUS
<1>3. j \in Jobs /\ j.kind \in DefaultKinds
  <2>1. "embed" \in DefaultKinds
    BY DEF DefaultKinds
  <2>2. "embed" \in DefaultKinds \union CommKinds \union {"cpu"}
    BY <2>1
  <2>3. Job("embed", b, 0) \in Jobs /\ Job("embed", b, 0).kind = "embed"
    BY ONLY <1>1, <2>2, JobIs
  <2>4. QED
    BY <1>2, <2>1, <2>3
<1>4. Reads(n, j) \subseteq Cells
  BY <1>1, <1>2, ReadsCells
<1>5. \A k \in a.un["default"] : ~Clash(n, j, k)
  BY <1>1, <1>2, BufsApartSwaps
<1>6. PICK c : Moved(n, ln, a, One("default", j), c, ApplyTo(n, ln, a.mem, j),
                     a.un["default"], a.un["comm"] \union {j}, a.ur)
  BY <1>3, <1>4, <1>5, GetsDefault
<1>7. PICK m, m2 : m = a.mem /\ m2 = c.mem
  OBVIOUS
<1>8. m2 = ApplyTo(n, ln, m, Job("embed", b, 0))
  BY <1>2, <1>6, <1>7 DEF Moved
<1>9. Holds(m2, <<"emb", b>>, 0) /\ Only(m, m2, <<"emb", b>>)
  BY ONLY <1>1, <1>8, Embed
<1>10. PICK t \in Of4(b) \union {<<"qkv_cpu">>, <<"out_cpu">>} : t = <<"emb", b>>
  BY DEF Of4
<1>11. St(n, S, ln, m2, v) /\ Others(n, m, v, m2, v, b)
  <2>1. Only(m, m2, t)
    BY <1>9, <1>10
  <2>2. St(n, S, ln, m, v)
    BY <1>7
  <2>3. QED
    BY ONLY Fit(n, S, ln), b \in Bs(n), <1>10, <2>1, <2>2, OthersBuf
<1>12. One("default", j) = On("default", "embed", b, 0)
  BY <1>2 DEF One, On
<1>13. Gets(n, ln, a, On("default", "embed", b, 0), c) /\ c.un["default"] = a.un["default"]
  BY <1>6, <1>12 DEF Moved
<1>14. Runs(n, S, ln, a, v, b, On("default", "embed", b, 0), c, v)
  BY <1>7, <1>11, <1>13 DEF Runs
<1>15. Through(n, c.mem, v, b, 0)
  BY <1>7, <1>9 DEF Through
<1>16. QED
  BY <1>13, <1>14, <1>15

(* All batches begin.                                                        *)
LEMMA EmbedsRun ==
  ASSUME NEW n, NEW S, NEW ln, Fit(n, S, ln), Shape(n), NEW a, NEW v, St(n, S, ln, a.mem, v),
         \A b \in Bs(n) : At(v, Members(n.batches[b]), 0), a.un["default"] \subseteq KvSwaps
  PROVE  \E c : /\ Steps(n, S, ln, a, FlattenSeq([b \in DOMAIN n.batches |-> On("default", "embed", b, 0)]), c, v)
                /\ \A b \in Bs(n) : Through(n, c.mem, v, b, 0)
                /\ c.un["default"] \subseteq KvSwaps
<1>1. PICK parts : parts = [b \in DOMAIN n.batches |-> On("default", "embed", b, 0)]
  OBVIOUS
<1>2. 1 \in Bs(n)
  BY DEF Shape
<1>3. PICK c : /\ Runs(n, S, ln, a, v, 1, On("default", "embed", 1, 0), c, v)
               /\ Through(n, c.mem, v, 1, 0) /\ c.un["default"] \subseteq KvSwaps
  BY <1>2, EmbedRuns
<1>4. Steps(n, S, ln, a, On("default", "embed", 1, 0), c, v) /\ St(n, S, ln, c.mem, v)
  BY <1>3 DEF Runs, Steps
<1>5. CASE Bs(n) = {1}
  <2>1. DOMAIN parts = 1 .. 1 /\ parts[1] = On("default", "embed", 1, 0)
    BY <1>1, <1>5 DEF Bs
  <2>2. Len(parts) = 1
    BY <1>1, <2>1
  <2>3. 1 \in Nat \ {0}
    OBVIOUS
  <2>4. PICK x : x[1] = parts[1] /\ FlattenSeq(parts) = x[1]
    BY ONLY <2>1, <2>2, <2>3, FlattenSteps
  <2>5. QED
    BY <1>1, <1>3, <1>4, <1>5, <2>1, <2>4
<1>6. CASE Bs(n) = {1, 2}
  <2>1. DOMAIN parts = 1 .. 2 /\ parts[1] = On("default", "embed", 1, 0) /\ parts[2] = On("default", "embed", 2, 0)
    <3>1. {1, 2} = 1 .. 2
      OBVIOUS
    <3>2. QED
      BY <1>1, <1>6, <3>1 DEF Bs
  <2>2. Len(parts) = 2
    BY <1>1, <2>1
  <2>3. 2 \in Nat \ {0} /\ 2 \in 2 .. 2 /\ 2 - 1 = 1
    OBVIOUS
  <2>4. PICK x : /\ x[1] = parts[1]
                 /\ \A i \in 2 .. 2 : x[i] = x[i - 1] \o parts[i]
                 /\ FlattenSeq(parts) = x[2]
    BY ONLY <2>1, <2>2, <2>3, FlattenSteps
  <2>5. FlattenSeq(parts) = On("default", "embed", 1, 0) \o On("default", "embed", 2, 0)
    BY <2>1, <2>3, <2>4
  <2>6. PICK e : /\ Runs(n, S, ln, c, v, 2, On("default", "embed", 2, 0), e, v)
                 /\ Through(n, e.mem, v, 2, 0) /\ e.un["default"] \subseteq KvSwaps
    <3>1. 2 \in Bs(n) /\ At(v, Members(n.batches[2]), 0)
      BY <1>6
    <3>2. QED
      BY <1>3, <1>4, <3>1, EmbedRuns
  <2>7. Steps(n, S, ln, c, On("default", "embed", 2, 0), e, v) /\ Through(n, e.mem, v, 1, 0)
    <3>1. 0 \in Depth /\ 1 \in Bs(n) /\ 1 # 2
      BY <1>2, PipelineAssumption DEF Depth
    <3>2. QED
      BY <1>3, <2>6, <3>1, RunsBeside
  <2>8. Steps(n, S, ln, a, FlattenSeq(parts), e, v)
    BY <1>4, <2>5, <2>7, StepsThen
  <2>9. \A b \in Bs(n) : Through(n, e.mem, v, b, 0)
    BY <1>6, <2>6, <2>7
  <2>10. QED
    BY <1>1, <2>6, <2>8, <2>9
<1>7. QED
  BY <1>5, <1>6 DEF Shape

\* The machine when all batches have gone through all layers.
Finished(n, S, ln, c, w) ==
    /\ St(n, S, ln, c.mem, w) /\ \A d \in Bs(n) : Through(n, c.mem, w, d, Layers)
    /\ c.un["default"] \subseteq KvSwaps /\ c.fresh

\* All of the iteration but reading the tokens.
BatchesWork(n) ==
    FlattenSeq([b \in DOMAIN n.batches |-> On("default", "embed", b, 0)])
    \o (IF Len(n.batches) = 1 THEN ForwardSequential(n) ELSE ForwardPipeline(n))

(* The batches go through all layers.                                        *)
LEMMA BatchesRun ==
  ASSUME NEW n, NEW S, NEW ln, Fit(n, S, ln), Shape(n), NEW a, NEW v, St(n, S, ln, a.mem, v),
         \A b \in Bs(n) : At(v, Members(n.batches[b]), 0), a.un["default"] \subseteq KvSwaps
  PROVE  \E c, w : Steps(n, S, ln, a, BatchesWork(n), c, w) /\ Finished(n, S, ln, c, w)
<1>1. PICK p : p = FlattenSeq([b \in DOMAIN n.batches |-> On("default", "embed", b, 0)])
  OBVIOUS
<1>2. PICK c : /\ Steps(n, S, ln, a, p, c, v)
               /\ \A b \in Bs(n) : Through(n, c.mem, v, b, 0)
               /\ c.un["default"] \subseteq KvSwaps
  BY <1>1, EmbedsRun
<1>3. St(n, S, ln, c.mem, v)
  BY <1>2 DEF Steps
<1>4. CASE Len(n.batches) = 1
  <2>1. Bs(n) = {1}
    BY <1>4 DEF Shape
  <2>2. PICK e, w : /\ Steps(n, S, ln, c, ForwardSequential(n), e, w) /\ Through(n, e.mem, w, 1, Layers)
                    /\ e.un["default"] \subseteq KvSwaps /\ e.fresh
    BY <1>2, <1>3, <2>1, SequentialRuns
  <2>3. BatchesWork(n) = p \o ForwardSequential(n)
    BY <1>1, <1>4 DEF BatchesWork
  <2>4. Steps(n, S, ln, a, BatchesWork(n), e, w)
    BY <1>2, <2>2, <2>3, StepsThen
  <2>5. Finished(n, S, ln, e, w)
    BY <2>1, <2>2 DEF Finished, Steps
  <2>6. QED
    BY <2>4, <2>5
<1>5. CASE Len(n.batches) = 2
  <2>1. Bs(n) = {1, 2} /\ n.batches[2].cprf = {}
    BY <1>5 DEF Shape
  <2>2. PICK e, w : /\ Steps(n, S, ln, c, ForwardPipeline(n), e, w)
                    /\ Through(n, e.mem, w, 1, Layers) /\ Through(n, e.mem, w, 2, Layers)
                    /\ e.un["default"] \subseteq KvSwaps /\ e.fresh
    BY <1>2, <1>3, <2>1, PipelineRuns
  <2>3. BatchesWork(n) = p \o ForwardPipeline(n)
    BY <1>1, <1>5 DEF BatchesWork
  <2>4. Steps(n, S, ln, a, BatchesWork(n), e, w)
    BY <1>2, <2>2, <2>3, StepsThen
  <2>5. Finished(n, S, ln, e, w)
    BY <2>1, <2>2 DEF Finished, Steps
  <2>6. QED
    BY <2>4, <2>5
<1>6. QED
  BY <1>4, <1>5 DEF Shape

(* Lists put together from three parts.                                      *)
LEMMA ThreeParts ==
  ASSUME NEW X, NEW p \in Seq(X), NEW q \in Seq(X), NEW r \in Seq(X)
  PROVE  p \o (q \o r) = (p \o q) \o r
  OBVIOUS

(* The iteration reads the tokens last, and before that takes the machine    *)
(* through all of it.                                                        *)
LEMMA IterationRuns ==
  ASSUME NEW n, NEW S, NEW ln, Fit(n, S, ln), Shape(n), NEW pl, MovesFit(n, S, pl),
         NEW a, OldKv(n, S, ln, a.mem, pl, 0), Quiet(a)
  PROVE  \E b, w : /\ Safe(n, ln, a, DoOneIteration(n), b) /\ Finished(n, S, ln, b, w)
                   /\ Ended(DoOneIteration(n)) /\ DoOneIteration(n) # <<>>
<1>1. PICK p : p = SwapsWork(n)
  OBVIOUS
<1>2. PICK c, v : Steps(n, S, ln, a, p, c, v) /\ Quiet(c) /\ v = [r \in S |-> 0]
  BY <1>1, AllMoves
<1>3. \A b \in Bs(n) : At(v, Members(n.batches[b]), 0)
  <2> TAKE b \in Bs(n)
  <2>1. Members(n.batches[b]) \subseteq S
    BY BatchFacts, InBatch
  <2>2. QED
    BY <1>2, <2>1 DEF At
<1>4. PICK e, w : Steps(n, S, ln, c, BatchesWork(n), e, w) /\ Finished(n, S, ln, e, w)
  BY <1>2, <1>3, BatchesRun DEF Steps, Quiet
<1>5. PICK q : q = p \o BatchesWork(n)
  OBVIOUS
<1>6. q \in Seq(Work) /\ Safe(n, ln, a, q, e)
  BY <1>2, <1>4, <1>5, GetsThen DEF Steps, Gets
<1>7. PICK i \in Instr : i.op = "tolist" /\ Do("tolist", 1, 0) = <<i>>
  <2>1. "cpu" \in DefaultKinds \union CommKinds \union {"cpu"} /\ 1 \in {1, 2} /\ 0 \in Depth
    BY PipelineAssumption DEF Depth
  <2>2. Job("cpu", 1, 0) \in Jobs
    BY ONLY <2>1, JobIs
  <2>3. PICK i : i = [op |-> "tolist", job |-> Job("cpu", 1, 0)]
    OBVIOUS
  <2>4. i \in Instr /\ i.op = "tolist"
    BY <2>2, <2>3 DEF Instr, Ops
  <2>5. Do("tolist", 1, 0) = <<i>>
    BY <2>3 DEF Do
  <2>6. QED
    BY <2>4, <2>5
<1>8. Ok(n, e, i)
  BY <1>7 DEF Ok, Streams
<1>9. PICK b : b = Go(n, ln, e, i)
  OBVIOUS
<1>10. b.mem = e.mem /\ b.un["default"] = e.un["default"] /\ (b.fresh <=> e.fresh)
  BY <1>7, <1>9 DEF Go, Streams, OtherStream, Waits
<1>11. Finished(n, S, ln, b, w)
  BY <1>4, <1>10 DEF Finished
<1>12. DoOneIteration(n) = q \o <<i>>
  <2>1. p \in Seq(Work) /\ BatchesWork(n) \in Seq(Work)
    BY <1>2, <1>4 DEF Steps, Gets
  <2>2. PICK f, g : /\ f = FlattenSeq([d \in DOMAIN n.batches |-> On("default", "embed", d, 0)])
                    /\ g = IF Len(n.batches) = 1 THEN ForwardSequential(n) ELSE ForwardPipeline(n)
    OBVIOUS
  <2>3. BatchesWork(n) = f \o g /\ ForwardBatches(n) = f \o g \o <<i>>
    BY <1>7, <2>2 DEF BatchesWork, ForwardBatches
  <2>4. DoOneIteration(n) = p \o (BatchesWork(n) \o <<i>>)
    BY <1>1, <2>3 DEF DoOneIteration, SwapsWork
  <2>5. p \in Seq(Instr) /\ BatchesWork(n) \in Seq(Instr) /\ <<i>> \in Seq(Instr)
    BY <2>1 DEF Work
  <2>6. p \o (BatchesWork(n) \o <<i>>) = (p \o BatchesWork(n)) \o <<i>>
    BY ONLY <2>5, ThreeParts
  <2>7. QED
    BY <1>5, <2>4, <2>6
<1>13. Safe(n, ln, a, q \o <<i>>, b)
  <2>1. q \in Seq(Instr) /\ <<i>> \in Seq(Instr)
    BY <1>6 DEF Work
  <2>2. Safe(n, ln, e, <<i>>, b)
    BY <1>8, <1>9, SafeOne
  <2>3. QED
    BY <1>6, <2>1, <2>2, SafeThen
<1>14. Ended(q \o <<i>>) /\ q \o <<i>> # <<>>
  <2>1. q \in Seq(Instr) /\ \A k \in 1 .. Len(q) : q[k].op # "tolist"
    BY <1>6 DEF Work
  <2>2. PICK u : u = q \o <<i>>
    OBVIOUS
  <2>n. PICK N \in Nat : N = Len(q)
    BY <2>1
  <2>3. /\ u \in Seq(Instr) /\ Len(u) = N + 1 /\ u[N + 1] = i
        /\ \A k \in 1 .. N : u[k] = q[k]
    BY <2>1, <2>2, <2>n
  <2>4. \A k \in 1 .. N + 1 : u[k].op = "tolist" <=> k = N + 1
    <3> TAKE k \in 1 .. N + 1
    <3>1. CASE k = N + 1
      BY <1>7, <2>3, <3>1
    <3>2. CASE k # N + 1
      <4>1. k \in 1 .. N
        BY <3>2
      <4>2. QED
        BY <2>1, <2>n, <2>3, <3>2, <4>1
    <3>3. QED
      BY <3>1, <3>2
  <2>5. Ended(u)
    BY <2>3, <2>4 DEF Ended
  <2>6. u # <<>>
    BY <2>3
  <2>7. QED
    BY <2>2, <2>5, <2>6
<1>15. QED
  BY <1>11, <1>12, <1>13, <1>14

-------------------------------------------------------------------------------
\* Between iterations: only swaps are in flight.

\* The machine with memory m that has nothing to do, and has waited for nothing
\* but swaps.
Rest(m) == [mem |-> m, un |-> [s \in Streams |-> IF s = "default" THEN KvSwaps ELSE {}],
            ur |-> KvSwaps, ready |-> FALSE, fresh |-> FALSE]

(* A swap does the same in every iteration.                                  *)
LEMMA SwapsAlike ==
  ASSUME NEW j \in KvSwaps, NEW n, NEW ln, NEW n2, NEW ln2, NEW m
  PROVE  ApplyTo(n, ln, m, j) = ApplyTo(n2, ln2, m, j)
<1>1. j.kind = "swap"
  BY DEF KvSwaps
<1>2. Writes(n, j) = Writes(n2, j)
  BY <1>1 DEF Writes
<1>3. \A c : Worth(n, ln, m, j, c) = Worth(n2, ln2, m, j, c)
  BY <1>1 DEF Worth
<1>4. QED
  BY <1>2, <1>3 DEF ApplyTo

(* Once the default stream has nothing left and what it last waited for is   *)
(* done, only swaps are in flight.                                           *)
LEMMA OnlySwaps ==
  ASSUME NEW n, NEW ln, NEW x \in Streaming, NEW m, NEW p, NEW a, Pending(n, ln, x, m, p, a),
         x.queue["default"] = <<>>, x.done["comm"] >= x.fence["default"],
         a.un["default"] \subseteq KvSwaps
  PROVE  \A k \in DOMAIN p : p[k].who = "comm" /\ p[k].job \in KvSwaps
<1> TAKE k \in DOMAIN p
<1>1. p[k] \in Entries /\ InFlight(n, x, a, p[k])
  BY DEF Pending
<1>2. PICK e \in Entries : e = p[k]
  BY <1>1
<1>3. e.no \in x.done[e.who] + 1 .. x.done[e.who] + Len(x.queue[e.who])
  BY <1>1, <1>2 DEF InFlight
<1>4. e.who \in Streams /\ e.no \in Nat
  BY DEF Entries
<1>5. x.done["default"] \in Nat /\ x.done["comm"] \in Nat /\ x.fence["default"] \in Nat
  BY DEF Streaming, Streams
<1>6. e.who # "default"
  <2>1. SUFFICES ASSUME e.who = "default" PROVE FALSE
    OBVIOUS
  <2>2. Len(x.queue["default"]) = 0
    OBVIOUS
  <2>3. e.no \in x.done["default"] + 1 .. x.done["default"] + 0
    BY <1>3, <2>1, <2>2
  <2>4. QED
    BY <1>4, <1>5, <2>3
<1>7. e.who = "comm"
  BY <1>4, <1>6 DEF Streams
<1>8. e.no > x.fence["default"]
  <2>1. x.done["comm"] + 1 <= e.no
    BY <1>3, <1>7
  <2>2. QED
    BY <1>4, <1>5, <2>1
<1>9. e.job \in a.un["default"]
  BY <1>1, <1>2, <1>7, <1>8 DEF InFlight, OtherStream
<1>10. QED
  BY <1>2, <1>7, <1>9

(* They are what is in flight for any next iteration, too.                   *)
LEMMA CarriedOver ==
  ASSUME NEW n, NEW ln, NEW x \in Streaming, NEW m, NEW p, NEW a, Pending(n, ln, x, m, p, a),
         x.queue["default"] = <<>>, x.done["comm"] >= x.fence["default"],
         a.un["default"] \subseteq KvSwaps, NEW n2, NEW ln2, NEW m2, m2 = a.mem
  PROVE  Pending(n2, ln2, x, m, p, Rest(m2))
<1>1. \A k \in DOMAIN p : p[k].who = "comm" /\ p[k].job \in KvSwaps
  BY OnlySwaps
<1>2. PICK c : c = Rest(m2)
  OBVIOUS
<1>3. c.mem = m2 /\ c.un["default"] = KvSwaps /\ c.ur = KvSwaps /\ ~c.ready /\ ~c.fresh
  BY <1>2 DEF Rest, Streams
<1>4. p \in Seq(Entries)
  BY DEF Pending
<1>5. \A k \in DOMAIN p : InFlight(n2, x, c, p[k])
  <2> TAKE k \in DOMAIN p
  <2>1. InFlight(n, x, a, p[k])
    BY DEF Pending
  <2>2. p[k].who = "comm" /\ p[k].job \in KvSwaps
    BY <1>1
  <2>3. Reads(n2, p[k].job) \subseteq Cells
    BY <2>2, SwapsKv
  <2>4. /\ p[k].no > x.fence[OtherStream(p[k].who)] => p[k].job \in c.un[OtherStream(p[k].who)]
        /\ p[k].job \in c.ur
    BY <1>3, <2>2 DEF OtherStream
  <2>5. QED
    BY <2>1, <2>3, <2>4 DEF InFlight
<1>6. \A i, k \in DOMAIN p : i < k => InOrder(n2, p[i], p[k])
  <2> TAKE i, k \in DOMAIN p
  <2>1. i < k => InOrder(n, p[i], p[k])
    BY DEF Pending
  <2>2. p[i].who = p[k].who
    BY <1>1
  <2>3. QED
    BY <2>1, <2>2 DEF InOrder
<1>7. Reaches(n2, ln2, m, p, m2)
  <2>1. Reaches(n, ln, m, p, m2)
    BY DEF Pending
  <2>2. PICK t : /\ t[0] = m /\ t[Len(p)] = m2
                 /\ \A k \in 1 .. Len(p) : t[k] = ApplyTo(n, ln, t[k - 1], p[k].job)
    BY <2>1 DEF Reaches
  <2>3. \A k \in 1 .. Len(p) : t[k] = ApplyTo(n2, ln2, t[k - 1], p[k].job)
    <3> TAKE k \in 1 .. Len(p)
    <3>1. p[k].job \in KvSwaps
      BY <1>1, <1>4
    <3>2. ApplyTo(n, ln, t[k - 1], p[k].job) = ApplyTo(n2, ln2, t[k - 1], p[k].job)
      BY <3>1, SwapsAlike
    <3>3. QED
      BY <2>2, <3>2
  <2>4. QED
    BY <2>2, <2>3 DEF Reaches
<1>8. \A s \in Streams : \A i \in 1 .. Len(x.queue[s]) :
         \E k \in DOMAIN p : p[k].who = s /\ p[k].no = x.done[s] + i
  BY DEF Pending
<1>9. Pending(n2, ln2, x, m, p, c)
  BY <1>3, <1>4, <1>5, <1>6, <1>7, <1>8 DEF Pending
<1>10. QED
  BY <1>2, <1>9

(* A swap changes no buffer.                                                 *)
LEMMA SwapKeepsBufs ==
  ASSUME NEW n, NEW ln, NEW m, NEW j \in KvSwaps, NEW c \in Bufs
  PROVE  ApplyTo(n, ln, m, j)[c] = m[c]
<1>1. c \in Cells /\ c \notin Writes(n, j)
  BY SwapsKv, BufsAre
<1>2. QED
  BY <1>1, Applied

(* What is in flight between iterations changes no buffer.                   *)
LEMMA SwapsKeepBufs ==
  ASSUME NEW n, NEW ln, NEW m, NEW m2, NEW p \in Seq(Entries), Reaches(n, ln, m, p, m2),
         \A k \in DOMAIN p : p[k].job \in KvSwaps, NEW c \in Bufs
  PROVE  m[c] = m2[c]
<1>1. PICK t : /\ t[0] = m /\ t[Len(p)] = m2
               /\ \A k \in 1 .. Len(p) : t[k] = ApplyTo(n, ln, t[k - 1], p[k].job)
  BY DEF Reaches
<1>2. PICK N \in Nat : N = Len(p)
  OBVIOUS
<1> DEFINE T == {i \in 0 .. N : t[i][c] = m[c]}
<1>3. 0 \in T
  BY <1>1
<1>4. ASSUME NEW i \in 0 .. N - 1, i \in T
      PROVE  i + 1 \in T
  <2>1. PICK k \in 1 .. N : k = i + 1 /\ k - 1 = i
    OBVIOUS
  <2>2. t[k] = ApplyTo(n, ln, t[i], p[k].job) /\ p[k].job \in KvSwaps
    BY <1>1, <1>2, <2>1
  <2>3. t[k][c] = t[i][c]
    BY <2>2, SwapKeepsBufs
  <2>4. QED
    BY <1>4, <2>1, <2>3
<1>5. N \in T
  <2> HIDE DEF T
  <2>1. \A i \in 0 .. N : i \in T
    BY <1>3, <1>4, Upward
  <2>2. QED
    BY <2>1
<1>6. QED
  BY <1>1, <1>2, <1>5

(* When nothing is in flight the memory is that of the machine.              *)
LEMMA NothingPending ==
  ASSUME NEW n, NEW ln, NEW x \in Streaming, NEW m, NEW p, NEW a, Pending(n, ln, x, m, p, a),
         \A s \in Streams : x.queue[s] = <<>>
  PROVE  a.mem = m
<1>1. p \in Seq(Entries) /\ Reaches(n, ln, m, p, a.mem)
  BY DEF Pending
<1>2. Len(p) = 0
  <2>1. SUFFICES ASSUME Len(p) # 0 PROVE FALSE
    OBVIOUS
  <2>2. 1 \in DOMAIN p
    BY <1>1, <2>1
  <2>3. p[1] \in Entries /\ InFlight(n, x, a, p[1])
    BY <1>1, <2>2 DEF Pending
  <2>4. PICK e \in Entries : e = p[1]
    BY <2>3
  <2>5. e.who \in Streams /\ x.done[e.who] \in Nat
    BY DEF Entries, Streaming
  <2>6. x.queue[e.who] = <<>>
    BY <2>5
  <2>7. Len(x.queue[e.who]) = 0
    BY <2>6
  <2>8. e.no \in x.done[e.who] + 1 .. x.done[e.who] + Len(x.queue[e.who])
    BY <2>3, <2>4 DEF InFlight
  <2>9. e.no \in x.done[e.who] + 1 .. x.done[e.who]
    BY <2>5, <2>7, <2>8
  <2>10. QED
    BY <2>5, <2>9
<1>3. QED
  BY <1>1, <1>2 DEF Reaches

-------------------------------------------------------------------------------
\* What the scheduler sends.

\* The block tables: no two requests share a block, and a new one has no KV.
Placed(pl) == {r \in Reqs : pl[r].dev \in {"gpu", "cpu"}}
Tables(pl, ln) ==
    /\ \A r \in Reqs : /\ pl[r].dev \in {"new", "gpu", "cpu", "done"}
                       /\ pl[r].dev = "gpu" => pl[r].blk \in GpuBlocks
                       /\ pl[r].dev = "cpu" => pl[r].blk \in CpuBlocks
                       /\ pl[r].dev = "new" => ln[r] = 0
                       /\ ln[r] \in Nat
    /\ \A r, q \in Placed(pl) : pl[r].dev = pl[q].dev /\ pl[r].blk = pl[q].blk => r = q

\* Who gets a new block on the GPU, and who on the CPU.
Outs == {"out", "out1", "out2"}
ToGpu == {"in", "gprf"} \union (IF ExtraLayer THEN {} ELSE {"cprf"})
ToCpu == Outs \union {"cprf"}
AllRoles == {"none", "gprf", "cprf", "gdec", "out", "out1", "out2", "cdec1", "cdec2", "in"}

\* The roles fit the block tables pl, and the iteration n and the tables pl2
\* after it follow from them.
Planned(pl, role, n, pl2) ==
    /\ Schedulable(role)
    /\ n.batches = BatchesOf(role) /\ n.out = InRoles(role, Outs) /\ n.in = InRoles(role, {"in"})
    /\ \A r \in Reqs :
         /\ role[r] \in AllRoles
         /\ role[r] = "none" => pl[r].dev \in {"new", "cpu", "done"}
         /\ role[r] \in {"gprf", "cprf"} => pl[r].dev = "new"
         /\ role[r] \in {"gdec"} \union Outs => pl[r].dev = "gpu" /\ n.g[r] = pl[r].blk
         /\ role[r] \in {"cdec1", "cdec2", "in"} => pl[r].dev = "cpu"
         /\ role[r] \notin ToCpu => n.c[r] = pl[r].blk
         /\ role[r] \in ToCpu => pl2[r] = [dev |-> "cpu", blk |-> n.c[r]] /\ n.c[r] \in CpuBlocks
         /\ role[r] \in ToGpu \union {"cprf"} => n.g[r] \in GpuBlocks
         /\ role[r] \in {"in", "gprf"} => pl2[r] = [dev |-> "gpu", blk |-> n.g[r]]
         /\ role[r] \in {"none", "gdec", "cdec1", "cdec2"} => pl2[r] = pl[r]
    /\ \A r, q \in Reqs :
         /\ role[r] \in ToGpu /\ role[q] \in ToGpu /\ n.g[r] = n.g[q] => r = q
         /\ role[r] = "cprf" /\ role[q] = "cprf" /\ n.g[r] = n.g[q] => r = q
         /\ role[r] \in ToCpu /\ role[q] \in ToCpu /\ n.c[r] = n.c[q] => r = q
         /\ role[r] \in ToGpu /\ pl[q].dev = "gpu" /\ role[q] \notin Outs => n.g[r] # pl[q].blk
         /\ role[r] \in ToCpu /\ pl[q].dev = "cpu" /\ role[q] # "in" => n.c[r] # pl[q].blk

(* New blocks are free ones, and no two requests get the same.               *)
LEMMA NewBlocks ==
  ASSUME NEW T, NEW F, NEW f \in Injections(T, F)
  PROVE  DOMAIN f = T /\ (\A r \in T : f[r] \in F) /\ \A r, q \in T : f[r] = f[q] => r = q
  BY DEF Injections

(* Every iteration the scheduler sends is planned so.                        *)
LEMMA Plans ==
  ASSUME Tables(place, len), DoIteration
  PROVE  \E role, n, pl2 : /\ Planned(place, role, n, pl2) /\ place' = pl2
                           /\ iter' = n /\ program' = DoOneIteration(n)
<1>1. PICK role \in [Reqs -> UNION {Roles(r) : r \in Reqs}] :
        /\ \A r \in Reqs : role[r] \in Roles(r)
        /\ LET out == InRoles(role, {"out", "out1", "out2"})
               in == InRoles(role, {"in"})
               cprf == InRoles(role, {"cprf"})
               toGpu == in \union InRoles(role, {"gprf"}) \union (IF ExtraLayer THEN {} ELSE cprf)
               toCpu == out \union cprf
               gpuFree == GpuBlocks \ BlocksOf(Held("gpu") \ out)
               cpuFree == CpuBlocks \ BlocksOf(Held("cpu") \ in)
           IN  /\ Schedulable(role)
               /\ \E gNew \in Injections(toGpu, gpuFree), cNew \in Injections(toCpu, cpuFree),
                     itm \in Injections(IF ExtraLayer THEN cprf ELSE {}, GpuBlocks) :
                    LET n == [batches |-> BatchesOf(role), out |-> out, in |-> in,
                              g |-> [r \in Reqs |-> IF r \in DOMAIN gNew THEN gNew[r]
                                                    ELSE IF r \in DOMAIN itm THEN itm[r]
                                                    ELSE place[r].blk],
                              c |-> [r \in Reqs |-> IF r \in DOMAIN cNew THEN cNew[r]
                                                    ELSE place[r].blk]]
                    IN  /\ iter' = n
                        /\ program' = DoOneIteration(n)
                        /\ place' = [r \in Reqs |->
                                       IF r \in toCpu THEN [dev |-> "cpu", blk |-> cNew[r]]
                                       ELSE IF r \in toGpu THEN [dev |-> "gpu", blk |-> gNew[r]]
                                       ELSE place[r]]
  BY DEF DoIteration
<1> DEFINE out == InRoles(role, {"out", "out1", "out2"})
           in == InRoles(role, {"in"})
           cprf == InRoles(role, {"cprf"})
           toGpu == in \union InRoles(role, {"gprf"}) \union (IF ExtraLayer THEN {} ELSE cprf)
           toCpu == out \union cprf
           gpuFree == GpuBlocks \ BlocksOf(Held("gpu") \ out)
           cpuFree == CpuBlocks \ BlocksOf(Held("cpu") \ in)
           T3 == IF ExtraLayer THEN cprf ELSE {}
<1>2. out = InRoles(role, Outs)
  BY DEF Outs
<1>3. PICK gNew \in Injections(toGpu, gpuFree), cNew \in Injections(toCpu, cpuFree),
           itm \in Injections(T3, GpuBlocks) :
        LET n == [batches |-> BatchesOf(role), out |-> out, in |-> in,
                  g |-> [r \in Reqs |-> IF r \in DOMAIN gNew THEN gNew[r]
                                        ELSE IF r \in DOMAIN itm THEN itm[r]
                                        ELSE place[r].blk],
                  c |-> [r \in Reqs |-> IF r \in DOMAIN cNew THEN cNew[r]
                                        ELSE place[r].blk]]
        IN  /\ iter' = n
            /\ program' = DoOneIteration(n)
            /\ place' = [r \in Reqs |->
                           IF r \in toCpu THEN [dev |-> "cpu", blk |-> cNew[r]]
                           ELSE IF r \in toGpu THEN [dev |-> "gpu", blk |-> gNew[r]]
                           ELSE place[r]]
  BY <1>1
<1>4. Schedulable(role)
  BY <1>1
<1>5. PICK n : n = [batches |-> BatchesOf(role), out |-> out, in |-> in,
                    g |-> [r \in Reqs |-> IF r \in DOMAIN gNew THEN gNew[r]
                                          ELSE IF r \in DOMAIN itm THEN itm[r]
                                          ELSE place[r].blk],
                    c |-> [r \in Reqs |-> IF r \in DOMAIN cNew THEN cNew[r]
                                          ELSE place[r].blk]]
  OBVIOUS
<1>6. PICK pl2 : pl2 = [r \in Reqs |->
                          IF r \in toCpu THEN [dev |-> "cpu", blk |-> cNew[r]]
                          ELSE IF r \in toGpu THEN [dev |-> "gpu", blk |-> gNew[r]]
                          ELSE place[r]]
  OBVIOUS
<1>7. iter' = n /\ program' = DoOneIteration(n) /\ place' = pl2
  BY <1>3, <1>5, <1>6
<1>8. /\ DOMAIN gNew = toGpu /\ (\A r \in toGpu : gNew[r] \in gpuFree)
      /\ \A r, q \in toGpu : gNew[r] = gNew[q] => r = q
  <2> HIDE DEF toGpu, gpuFree
  <2>1. QED
    BY ONLY <1>3, NewBlocks
<1>9. /\ DOMAIN cNew = toCpu /\ (\A r \in toCpu : cNew[r] \in cpuFree)
      /\ \A r, q \in toCpu : cNew[r] = cNew[q] => r = q
  <2> HIDE DEF toCpu, cpuFree
  <2>1. QED
    BY ONLY <1>3, NewBlocks
<1>10. /\ DOMAIN itm = T3 /\ (\A r \in T3 : itm[r] \in GpuBlocks)
       /\ \A r, q \in T3 : itm[r] = itm[q] => r = q
  <2> HIDE DEF T3
  <2>1. QED
    BY ONLY <1>3, NewBlocks
<1>11. /\ n.batches = BatchesOf(role) /\ n.out = InRoles(role, Outs) /\ n.in = InRoles(role, {"in"})
       /\ \A r \in Reqs : n.g[r] = IF r \in toGpu THEN gNew[r] ELSE IF r \in T3 THEN itm[r] ELSE place[r].blk
       /\ \A r \in Reqs : n.c[r] = IF r \in toCpu THEN cNew[r] ELSE place[r].blk
  <2> HIDE DEF toGpu, toCpu, T3
  <2>1. QED
    BY <1>2, <1>5, <1>8, <1>9, <1>10
<1>12. \A r \in Reqs : /\ r \in toGpu <=> role[r] \in ToGpu
                       /\ r \in toCpu <=> role[r] \in ToCpu
                       /\ r \in T3 <=> ExtraLayer /\ role[r] = "cprf"
  BY DEF InRoles, ToGpu, ToCpu, Outs
<1>13. \A r \in Reqs : /\ role[r] \in ToGpu => n.g[r] = gNew[r] /\ n.g[r] \in gpuFree
                       /\ ExtraLayer /\ role[r] = "cprf" => n.g[r] = itm[r] /\ n.g[r] \in GpuBlocks
                       /\ role[r] \notin ToGpu \union {"cprf"} => n.g[r] = place[r].blk
                       /\ role[r] \in ToCpu => n.c[r] = cNew[r] /\ n.c[r] \in cpuFree
                       /\ role[r] \notin ToCpu => n.c[r] = place[r].blk
  <2> TAKE r \in Reqs
  <2> HIDE DEF toGpu, toCpu, T3, gpuFree, cpuFree
  <2>1. ExtraLayer /\ role[r] = "cprf" => role[r] \notin ToGpu
    BY DEF ToGpu
  <2>2. role[r] \notin ToGpu \union {"cprf"} => r \notin toGpu /\ r \notin T3
    BY <1>12
  <2>3. QED
    BY <1>8, <1>9, <1>10, <1>11, <1>12, <2>1, <2>2
<1>14. \A r \in Reqs :
         /\ role[r] \in AllRoles
         /\ role[r] = "none" => place[r].dev \in {"new", "cpu", "done"}
         /\ role[r] \in {"gprf", "cprf"} => place[r].dev = "new"
         /\ role[r] \in {"gdec"} \union Outs => place[r].dev = "gpu"
         /\ role[r] \in {"cdec1", "cdec2", "in"} => place[r].dev = "cpu"
  BY <1>1 DEF Roles, AllRoles, Outs, Tables
<1>15. /\ \A x \in gpuFree : /\ x \in GpuBlocks
                             /\ \A q \in Reqs : place[q].dev = "gpu" /\ role[q] \notin Outs => x # place[q].blk
       /\ \A x \in cpuFree : /\ x \in CpuBlocks
                             /\ \A q \in Reqs : place[q].dev = "cpu" /\ role[q] # "in" => x # place[q].blk
  BY DEF BlocksOf, Held, InRoles, Outs
<1>16. \A r \in Reqs :
         /\ role[r] \in ToCpu => pl2[r] = [dev |-> "cpu", blk |-> n.c[r]]
         /\ role[r] \in {"in", "gprf"} => pl2[r] = [dev |-> "gpu", blk |-> n.g[r]]
         /\ role[r] \in {"none", "gdec", "cdec1", "cdec2"} => pl2[r] = place[r]
  <2> TAKE r \in Reqs
  <2> HIDE DEF toGpu, toCpu, T3, gpuFree, cpuFree
  <2>1. pl2[r] = IF r \in toCpu THEN [dev |-> "cpu", blk |-> cNew[r]]
                 ELSE IF r \in toGpu THEN [dev |-> "gpu", blk |-> gNew[r]]
                 ELSE place[r]
    BY <1>6
  <2>2. role[r] \in {"in", "gprf"} => role[r] \in ToGpu /\ role[r] \notin ToCpu
    BY DEF ToGpu, ToCpu, Outs
  <2>3. role[r] \in {"none", "gdec", "cdec1", "cdec2"} => role[r] \notin ToGpu /\ role[r] \notin ToCpu
    BY DEF ToGpu, ToCpu, Outs
  <2>4. QED
    BY <1>12, <1>13, <2>1, <2>2, <2>3
<1> HIDE DEF out, in, cprf, toGpu, toCpu, T3, gpuFree, cpuFree
<1>17. ASSUME NEW r \in Reqs
       PROVE  /\ role[r] \in AllRoles
              /\ role[r] = "none" => place[r].dev \in {"new", "cpu", "done"}
              /\ role[r] \in {"gprf", "cprf"} => place[r].dev = "new"
              /\ role[r] \in {"gdec"} \union Outs => place[r].dev = "gpu" /\ n.g[r] = place[r].blk
              /\ role[r] \in {"cdec1", "cdec2", "in"} => place[r].dev = "cpu"
              /\ role[r] \notin ToCpu => n.c[r] = place[r].blk
              /\ role[r] \in ToCpu => pl2[r] = [dev |-> "cpu", blk |-> n.c[r]] /\ n.c[r] \in CpuBlocks
              /\ role[r] \in ToGpu \union {"cprf"} => n.g[r] \in GpuBlocks
              /\ role[r] \in {"in", "gprf"} => pl2[r] = [dev |-> "gpu", blk |-> n.g[r]]
              /\ role[r] \in {"none", "gdec", "cdec1", "cdec2"} => pl2[r] = place[r]
  <2>1. role[r] \in {"gdec"} \union Outs => role[r] \notin ToGpu \union {"cprf"}
    BY DEF ToGpu, Outs
  <2>2. role[r] \in ToGpu \union {"cprf"} => n.g[r] \in GpuBlocks
    BY <1>13, <1>15 DEF ToGpu
  <2>3. role[r] \in ToCpu => n.c[r] \in CpuBlocks
    BY <1>13, <1>15
  <2>4. QED
    BY <1>13, <1>14, <1>16, <2>1, <2>2, <2>3
<1>18. ASSUME NEW r \in Reqs, NEW q \in Reqs
       PROVE  /\ role[r] \in ToGpu /\ role[q] \in ToGpu /\ n.g[r] = n.g[q] => r = q
              /\ role[r] = "cprf" /\ role[q] = "cprf" /\ n.g[r] = n.g[q] => r = q
              /\ role[r] \in ToCpu /\ role[q] \in ToCpu /\ n.c[r] = n.c[q] => r = q
              /\ role[r] \in ToGpu /\ place[q].dev = "gpu" /\ role[q] \notin Outs => n.g[r] # place[q].blk
              /\ role[r] \in ToCpu /\ place[q].dev = "cpu" /\ role[q] # "in" => n.c[r] # place[q].blk
  <2>1. role[r] \in ToGpu /\ role[q] \in ToGpu /\ n.g[r] = n.g[q] => r = q
    BY <1>8, <1>12, <1>13
  <2>2. role[r] = "cprf" /\ role[q] = "cprf" /\ n.g[r] = n.g[q] => r = q
    <3>1. CASE ExtraLayer
      BY <1>10, <1>12, <1>13, <3>1
    <3>2. CASE ~ExtraLayer
      BY <2>1, <3>2 DEF ToGpu
    <3>3. QED
      BY <3>1, <3>2
  <2>3. role[r] \in ToCpu /\ role[q] \in ToCpu /\ n.c[r] = n.c[q] => r = q
    BY <1>9, <1>12, <1>13
  <2>4. role[r] \in ToGpu /\ place[q].dev = "gpu" /\ role[q] \notin Outs => n.g[r] # place[q].blk
    BY <1>13, <1>15
  <2>5. role[r] \in ToCpu /\ place[q].dev = "cpu" /\ role[q] # "in" => n.c[r] # place[q].blk
    BY <1>13, <1>15
  <2>6. QED
    BY <2>1, <2>2, <2>3, <2>4, <2>5
<1>19. Planned(place, role, n, pl2)
  <2>1. /\ n.batches = BatchesOf(role) /\ n.out = InRoles(role, Outs) /\ n.in = InRoles(role, {"in"})
    BY <1>11
  <2>2. QED
    BY <1>4, <1>17, <1>18, <2>1 DEF Planned
<1>20. QED
  BY <1>7, <1>19

-------------------------------------------------------------------------------
\* What the plan gives the iteration.

\* Who is in batch b.
Who(role, n, b) ==
    /\ \A r : r \in n.batches[b].cprf <=> b = 1 /\ r \in Reqs /\ role[r] = "cprf"
    /\ \A r : r \in n.batches[b].gprf <=> b = 1 /\ r \in Reqs /\ role[r] = "gprf"
    /\ \A r : r \in n.batches[b].gdec <=> b = 1 /\ r \in Reqs /\ role[r] \in {"gdec", "in"}
    /\ \A r : r \in n.batches[b].cdec <=>
                 r \in Reqs /\ role[r] \in (IF b = 1 THEN {"cdec1", "out1"} ELSE {"cdec2", "out2"})

(* The batches are those of the roles.                                       *)
LEMMA BatchRoles ==
  ASSUME NEW pl, NEW role, NEW n, NEW pl2, Planned(pl, role, n, pl2)
  PROVE  /\ Shape(n) /\ 1 \in Bs(n) /\ Bs(n) \subseteq {1, 2}
         /\ \A b \in Bs(n) : Who(role, n, b)
<1>1. PICK first : first = [cprf |-> InRoles(role, {"cprf"}), gprf |-> InRoles(role, {"gprf"}),
                            gdec |-> InRoles(role, {"gdec", "in"}), cdec |-> InRoles(role, {"cdec1", "out1"})]
  OBVIOUS
<1>2. PICK second : second = [cprf |-> {}, gprf |-> {}, gdec |-> {}, cdec |-> InRoles(role, {"cdec2", "out2"})]
  OBVIOUS
<1>3. n.batches = <<first>> \/ n.batches = <<first, second>>
  BY <1>1, <1>2 DEF Planned, BatchesOf
<1>4. /\ \A r : r \in first.cprf <=> r \in Reqs /\ role[r] = "cprf"
      /\ \A r : r \in first.gprf <=> r \in Reqs /\ role[r] = "gprf"
      /\ \A r : r \in first.gdec <=> r \in Reqs /\ role[r] \in {"gdec", "in"}
      /\ \A r : r \in first.cdec <=> r \in Reqs /\ role[r] \in {"cdec1", "out1"}
  BY <1>1 DEF InRoles
<1>5. /\ second.cprf = {} /\ second.gprf = {} /\ second.gdec = {}
      /\ \A r : r \in second.cdec <=> r \in Reqs /\ role[r] \in {"cdec2", "out2"}
  BY <1>2 DEF InRoles
<1>6. CASE n.batches = <<first>>
  <2>1. Len(n.batches) = 1 /\ Bs(n) = {1} /\ n.batches[1] = first
    BY <1>6 DEF Bs
  <2>2. Who(role, n, 1)
    BY <1>4, <2>1 DEF Who
  <2>3. QED
    BY <2>1, <2>2 DEF Shape
<1>7. CASE n.batches = <<first, second>>
  <2>1. Len(n.batches) = 2 /\ Bs(n) = {1, 2} /\ n.batches[1] = first /\ n.batches[2] = second
    BY <1>7 DEF Bs
  <2>2. Who(role, n, 1)
    BY <1>4, <2>1 DEF Who
  <2>3. Who(role, n, 2)
    BY <1>5, <2>1 DEF Who
  <2>4. QED
    BY <1>5, <2>1, <2>2, <2>3 DEF Shape
<1>8. QED
  BY <1>3, <1>6, <1>7

(* Who attends on the GPU, and who is stored there on the way to the CPU.    *)
LEMMA GpuRoles ==
  ASSUME NEW pl, NEW role, NEW n, NEW pl2, Planned(pl, role, n, pl2)
  PROVE  /\ \A r : r \in OnGpu(n) <=> r \in Reqs /\ role[r] \in {"gprf", "gdec", "in"}
         /\ \A r : r \in Cprf(n) <=> r \in Reqs /\ role[r] = "cprf"
         /\ \A r : r \in Movers(n) <=> r \in Reqs /\ role[r] \in Outs \union {"in"}
         /\ \A b \in Bs(n) : \A r \in Prefs(n.batches[b]) : r \in Reqs /\ role[r] \in {"gprf", "cprf"}
<1>1. 1 \in Bs(n) /\ \A b \in Bs(n) : Who(role, n, b)
  BY BatchRoles
<1>2. \A r : r \in OnGpu(n) <=> r \in Reqs /\ role[r] \in {"gprf", "gdec", "in"}
  <2> TAKE r
  <2>1. r \in OnGpu(n) <=> \E b \in Bs(n) : r \in n.batches[b].gprf \/ r \in n.batches[b].gdec
    BY DEF OnGpu
  <2>2. QED
    BY <1>1, <2>1 DEF Who
<1>3. \A r : r \in Cprf(n) <=> r \in Reqs /\ role[r] = "cprf"
  <2> TAKE r
  <2>1. r \in Cprf(n) <=> \E b \in Bs(n) : r \in n.batches[b].cprf
    BY DEF Cprf
  <2>2. QED
    BY <1>1, <2>1 DEF Who
<1>4. \A r : r \in Movers(n) <=> r \in Reqs /\ role[r] \in Outs \union {"in"}
  BY DEF Planned, Movers, InRoles
<1>5. \A b \in Bs(n) : \A r \in Prefs(n.batches[b]) : r \in Reqs /\ role[r] \in {"gprf", "cprf"}
  BY <1>1, InBatch DEF Who
<1>6. QED
  BY <1>2, <1>3, <1>4, <1>5

(* Who is in the block tables after it, and where: on the GPU those who      *)
(* attend there.                                                             *)
LEMMA PlacesThen ==
  ASSUME NEW pl, NEW ln, Tables(pl, ln), NEW role, NEW n, NEW pl2, Planned(pl, role, n, pl2),
         NEW r \in Reqs
  PROVE  /\ pl2[r].dev \in {"new", "gpu", "cpu", "done"}
         /\ r \in Placed(pl2) <=> pl[r].dev \in {"gpu", "cpu"} \/ role[r] \in {"gprf", "cprf"}
         /\ pl2[r].dev = "gpu" <=> r \in OnGpu(n)
         /\ pl2[r].dev = "gpu" => pl2[r].blk = n.g[r] /\ n.g[r] \in GpuBlocks
         /\ pl2[r].dev = "cpu" => pl2[r].blk = n.c[r] /\ n.c[r] \in CpuBlocks
         /\ pl2[r].dev = "new" => pl[r].dev = "new"
<1>1. r \in OnGpu(n) <=> role[r] \in {"gprf", "gdec", "in"}
  BY GpuRoles
<1>2. role[r] \in AllRoles
  BY DEF Planned
<1>3. CASE role[r] \in ToCpu
  <2>0. pl2[r] = [dev |-> "cpu", blk |-> n.c[r]] /\ n.c[r] \in CpuBlocks
    BY <1>3 DEF Planned
  <2>1. pl2[r].dev = "cpu" /\ pl2[r].blk = n.c[r] /\ n.c[r] \in CpuBlocks
    BY <2>0
  <2>2. role[r] \notin {"gprf", "gdec", "in"}
    BY <1>3 DEF ToCpu, Outs
  <2>3. role[r] = "cprf" \/ pl[r].dev = "gpu"
    BY <1>3 DEF Planned, ToCpu
  <2>4. QED
    BY <1>1, <2>1, <2>2, <2>3 DEF Placed
<1>4. CASE role[r] \in {"in", "gprf"}
  <2>0. pl2[r] = [dev |-> "gpu", blk |-> n.g[r]]
    BY <1>4 DEF Planned
  <2>1. pl2[r].dev = "gpu" /\ pl2[r].blk = n.g[r]
    BY <2>0
  <2>2. n.g[r] \in GpuBlocks
    BY <1>4 DEF Planned, ToGpu
  <2>3. role[r] = "gprf" \/ pl[r].dev = "cpu"
    BY <1>4 DEF Planned
  <2>4. QED
    BY <1>1, <1>4, <2>1, <2>2, <2>3 DEF Placed
<1>5. CASE role[r] = "gdec"
  <2>1. pl2[r] = pl[r] /\ pl[r].dev = "gpu" /\ n.g[r] = pl[r].blk
    BY <1>5 DEF Planned
  <2>2. QED
    BY <1>1, <1>5, <2>1 DEF Placed, Tables
<1>6. CASE role[r] \in {"none", "cdec1", "cdec2"}
  <2>1. pl2[r] = pl[r] /\ pl[r].dev \in {"new", "cpu", "done"}
    BY <1>6 DEF Planned
  <2>2. n.c[r] = pl[r].blk
    BY <1>6 DEF Planned, ToCpu, Outs
  <2>3. QED
    BY <1>1, <1>6, <2>1, <2>2 DEF Placed, Tables
<1>7. role[r] \in ToCpu \/ role[r] \in {"in", "gprf"} \/ role[r] = "gdec" \/ role[r] \in {"none", "cdec1", "cdec2"}
  BY <1>2 DEF AllRoles, ToCpu, Outs
<1>8. QED
  BY <1>3, <1>4, <1>5, <1>6, <1>7

(* No two on the GPU share a block.                                          *)
LEMMA GpuApart ==
  ASSUME NEW pl, NEW ln, Tables(pl, ln), NEW role, NEW n, NEW pl2, Planned(pl, role, n, pl2),
         NEW r \in Reqs, NEW q \in Reqs, n.g[r] = n.g[q]
  PROVE  /\ role[r] \in {"gprf", "gdec", "in"} /\ role[q] \in {"gprf", "gdec", "in"} => r = q
         /\ role[r] = "cprf" /\ role[q] = "cprf" => r = q
         /\ ~ (~ExtraLayer /\ role[r] \in {"gprf", "gdec", "in"} /\ role[q] = "cprf")
<1>1. \A s \in Reqs : role[s] = "gdec" => s \in Placed(pl) /\ pl[s].dev = "gpu" /\ n.g[s] = pl[s].blk
  BY DEF Planned, Placed
<1>2. \A s, t \in Reqs : role[s] \in ToGpu /\ role[t] = "gdec" => n.g[s] # n.g[t]
  <2> TAKE s, t \in Reqs
  <2>1. role[t] = "gdec" => role[t] \notin Outs
    BY DEF Outs
  <2>2. QED
    BY <1>1, <2>1 DEF Planned
<1>3. \A s, t \in Reqs : role[s] = "gdec" /\ role[t] = "gdec" /\ n.g[s] = n.g[t] => s = t
  BY <1>1 DEF Tables
<1>4. \A s, t \in Reqs : role[s] \in ToGpu /\ role[t] \in ToGpu /\ n.g[s] = n.g[t] => s = t
  BY DEF Planned
<1>5. role[r] \in {"gprf", "in"} => role[r] \in ToGpu
  BY DEF ToGpu
<1>6. role[q] \in {"gprf", "in"} => role[q] \in ToGpu
  BY DEF ToGpu
<1>7. ~ExtraLayer => \A s \in Reqs : role[s] = "cprf" => role[s] \in ToGpu
  BY DEF ToGpu
<1>8. role[r] = "cprf" /\ role[q] = "cprf" => r = q
  BY DEF Planned
<1>9. QED
  BY <1>2, <1>3, <1>4, <1>5, <1>6, <1>7, <1>8

(* No two off the GPU share one.                                             *)
LEMMA SwapSpaceApart ==
  ASSUME NEW pl, NEW ln, Tables(pl, ln), NEW role, NEW n, NEW pl2, Planned(pl, role, n, pl2),
         NEW r \in Placed(pl2) \ OnGpu(n), NEW q \in Placed(pl2) \ OnGpu(n), n.c[r] = n.c[q]
  PROVE  r = q
<1>1. r \in Reqs /\ q \in Reqs
  BY DEF Placed
<1>2. \A s \in Reqs : s \in OnGpu(n) <=> role[s] \in {"gprf", "gdec", "in"}
  BY GpuRoles
<1>3. \A s \in Placed(pl2) \ OnGpu(n) : role[s] \notin ToCpu =>
        s \in Placed(pl) /\ pl[s].dev = "cpu" /\ n.c[s] = pl[s].blk /\ role[s] # "in"
  <2> TAKE s \in Placed(pl2) \ OnGpu(n)
  <2>1. s \in Reqs
    BY DEF Placed
  <2>2. HAVE role[s] \notin ToCpu
  <2>3. role[s] \in AllRoles /\ role[s] \notin {"gprf", "gdec", "in"}
    BY <1>2, <2>1 DEF Planned
  <2>4. role[s] \in {"none", "cdec1", "cdec2"}
    BY <2>2, <2>3 DEF AllRoles, ToCpu, Outs
  <2>5. pl2[s] = pl[s] /\ pl[s].dev \in {"new", "cpu", "done"} /\ n.c[s] = pl[s].blk
    BY <2>1, <2>2, <2>4 DEF Planned
  <2>6. pl2[s].dev \in {"gpu", "cpu"}
    BY DEF Placed
  <2>7. QED
    BY <2>1, <2>4, <2>5, <2>6 DEF Placed
<1>4. \A s, t \in Reqs : /\ role[s] \in ToCpu /\ role[t] \in ToCpu /\ n.c[s] = n.c[t] => s = t
                         /\ role[s] \in ToCpu /\ pl[t].dev = "cpu" /\ role[t] # "in" => n.c[s] # pl[t].blk
  BY DEF Planned
<1>5. CASE role[r] \in ToCpu /\ role[q] \in ToCpu
  BY <1>1, <1>4, <1>5
<1>6. CASE role[r] \in ToCpu /\ role[q] \notin ToCpu
  BY <1>1, <1>3, <1>4, <1>6
<1>7. CASE role[r] \notin ToCpu /\ role[q] \in ToCpu
  BY <1>1, <1>3, <1>4, <1>7
<1>8. CASE role[r] \notin ToCpu /\ role[q] \notin ToCpu
  BY <1>3, <1>8 DEF Tables
<1>9. QED
  BY <1>5, <1>6, <1>7, <1>8

-------------------------------------------------------------------------------
\* The iteration fits, and its swaps do.

\* The KV of everybody is where the block tables say.
InPlace(m, pl, ln) == \A r \in Placed(pl) : \A l \in Depth : m[Old(pl, r, l)] = <<r, ln[r]>>

(* Requests in a batch have KV after it begins.                              *)
LEMMA MembersPlaced ==
  ASSUME NEW pl, NEW ln, Tables(pl, ln), NEW role, NEW n, NEW pl2, Planned(pl, role, n, pl2),
         NEW r \in Reqs, role[r] \in {"cprf", "gprf", "gdec", "in", "cdec1", "cdec2"} \union Outs
  PROVE  r \in Placed(pl2)
<1>1. role[r] \in {"gprf", "cprf"} \/ role[r] \in {"gdec"} \union Outs \/ role[r] \in {"cdec1", "cdec2", "in"}
  OBVIOUS
<1>2. role[r] \in {"gdec"} \union Outs => pl[r].dev = "gpu"
  BY DEF Planned
<1>3. role[r] \in {"cdec1", "cdec2", "in"} => pl[r].dev = "cpu"
  BY DEF Planned
<1>4. QED
  BY <1>1, <1>2, <1>3, PlacesThen

(* The iteration the scheduler sends fits its forward pass.                  *)
LEMMA PlanFits ==
  ASSUME NEW pl, NEW ln, Tables(pl, ln), NEW role, NEW n, NEW pl2, Planned(pl, role, n, pl2)
  PROVE  Fit(n, Placed(pl2), ln)
<1>1. PICK S : S = Placed(pl2)
  OBVIOUS
<1>2. Bs(n) \subseteq {1, 2} /\ \A b \in Bs(n) : Who(role, n, b)
  BY BatchRoles
<1>3. /\ \A r : r \in OnGpu(n) <=> r \in Reqs /\ role[r] \in {"gprf", "gdec", "in"}
      /\ \A r : r \in Cprf(n) <=> r \in Reqs /\ role[r] = "cprf"
      /\ \A b \in Bs(n) : \A r \in Prefs(n.batches[b]) : r \in Reqs /\ role[r] \in {"gprf", "cprf"}
  BY GpuRoles
<1>4. S \subseteq Reqs
  BY <1>1 DEF Placed
<1>5. \A r \in Reqs : role[r] \in {"cprf", "gprf", "gdec", "in", "cdec1", "cdec2"} \union Outs => r \in S
  BY <1>1, MembersPlaced
<1>6. \A b \in Bs(n) :
         /\ n.batches[b].cprf \subseteq S /\ n.batches[b].gprf \subseteq S
         /\ n.batches[b].gdec \subseteq S /\ n.batches[b].cdec \subseteq S
  <2> TAKE b \in Bs(n)
  <2>1. Who(role, n, b)
    BY <1>2
  <2>2. \A r : r \in n.batches[b].cdec => r \in Reqs /\ role[r] \in {"cdec1", "cdec2"} \union Outs
    BY <2>1 DEF Who, Outs
  <2>3. \A r : /\ r \in n.batches[b].cprf => r \in Reqs /\ role[r] = "cprf"
               /\ r \in n.batches[b].gprf => r \in Reqs /\ role[r] = "gprf"
               /\ r \in n.batches[b].gdec => r \in Reqs /\ role[r] \in {"gdec", "in"}
    BY <2>1 DEF Who
  <2>4. QED
    BY <1>5, <2>2, <2>3
<1>7. Cprf(n) \intersect OnGpu(n) = {}
  BY <1>3
<1>8. \A b \in Bs(n) : /\ n.batches[b].gprf \intersect n.batches[b].gdec = {}
                       /\ n.batches[b].cdec \intersect (Cprf(n) \union OnGpu(n)) = {}
  BY <1>2, <1>3 DEF Who
<1>9. \A b1, b2 \in Bs(n) : b1 # b2 => Members(n.batches[b1]) \intersect Members(n.batches[b2]) = {}
  <2> TAKE b1, b2 \in Bs(n)
  <2>1. Who(role, n, b1) /\ Who(role, n, b2) /\ b1 \in {1, 2} /\ b2 \in {1, 2}
    BY <1>2
  <2>2. ASSUME NEW r \in Members(n.batches[b1]), r \in Members(n.batches[b2])
        PROVE  b1 = b2
    <3>1. ASSUME NEW b \in {1, 2}, Who(role, n, b), r \in Members(n.batches[b])
          PROVE  role[r] \in {"cdec2", "out2"} <=> b = 2
      BY <3>1, InBatch DEF Who
    <3>2. QED
      BY <2>1, <2>2, <3>1
  <2>3. QED
    BY <2>2
<1>10. \A r \in OnGpu(n) \union Cprf(n) : n.g[r] \in GpuBlocks
  <2>1. \A r \in Cprf(n) : n.g[r] \in GpuBlocks
    BY <1>3 DEF Planned
  <2>2. \A r \in OnGpu(n) : n.g[r] \in GpuBlocks
    BY <1>3, PlacesThen
  <2>3. QED
    BY <2>1, <2>2
<1>11. \A r \in S \ OnGpu(n) : n.c[r] \in CpuBlocks
  <2> TAKE r \in S \ OnGpu(n)
  <2>1. r \in Reqs /\ pl2[r].dev \in {"gpu", "cpu"}
    BY <1>1 DEF Placed
  <2>2. QED
    BY <2>1, PlacesThen
<1>12. \A r, q \in S \ OnGpu(n) : n.c[r] = n.c[q] => r = q
  BY <1>1, SwapSpaceApart
<1>13. \A r, q \in OnGpu(n) : n.g[r] = n.g[q] => r = q
  BY <1>3, GpuApart
<1>14. \A r, q \in Cprf(n) : n.g[r] = n.g[q] => r = q
  BY <1>3, GpuApart
<1>15. ~ExtraLayer => \A r \in OnGpu(n), q \in Cprf(n) : n.g[r] # n.g[q]
  BY <1>3, GpuApart
<1>16. \A b \in Bs(n) : \A r \in Prefs(n.batches[b]) : ln[r] = 0
  BY <1>3 DEF Planned, Tables
<1>17. \A r \in S : ln[r] \in Nat
  BY <1>4 DEF Tables
<1>18. Fit(n, S, ln)
  BY <1>2, <1>4, <1>6, <1>7, <1>8, <1>9, <1>10, <1>11, <1>12, <1>13, <1>14, <1>15, <1>16, <1>17 DEF Fit
<1>19. QED
  BY <1>1, <1>18

(* The forward pass has the KV where the new block tables say.               *)
LEMMA HomeThen ==
  ASSUME NEW pl, NEW ln, Tables(pl, ln), NEW role, NEW n, NEW pl2, Planned(pl, role, n, pl2),
         NEW r \in Placed(pl2), NEW l
  PROVE  Home(n, r, l) = Old(pl2, r, l)
<1>1. r \in Reqs /\ pl2[r].dev \in {"gpu", "cpu"}
  BY DEF Placed
<1>2. /\ pl2[r].dev = "gpu" <=> r \in OnGpu(n)
      /\ pl2[r].dev = "gpu" => pl2[r].blk = n.g[r]
      /\ pl2[r].dev = "cpu" => pl2[r].blk = n.c[r]
  BY <1>1, PlacesThen
<1>3. QED
  BY <1>1, <1>2 DEF Home, Old

(* The new block tables are sound.                                           *)
LEMMA TablesThen ==
  ASSUME NEW pl, NEW ln, Tables(pl, ln), NEW role, NEW n, NEW pl2, Planned(pl, role, n, pl2)
  PROVE  Tables(pl2, ln)
<1>1. ASSUME NEW r \in Reqs
      PROVE  /\ pl2[r].dev \in {"new", "gpu", "cpu", "done"}
             /\ pl2[r].dev = "gpu" => pl2[r].blk \in GpuBlocks
             /\ pl2[r].dev = "cpu" => pl2[r].blk \in CpuBlocks
             /\ pl2[r].dev = "new" => ln[r] = 0
             /\ ln[r] \in Nat
  <2>1. /\ pl2[r].dev \in {"new", "gpu", "cpu", "done"}
        /\ pl2[r].dev = "gpu" => pl2[r].blk = n.g[r] /\ n.g[r] \in GpuBlocks
        /\ pl2[r].dev = "cpu" => pl2[r].blk = n.c[r] /\ n.c[r] \in CpuBlocks
        /\ pl2[r].dev = "new" => pl[r].dev = "new"
    BY PlacesThen
  <2>2. QED
    BY <2>1 DEF Tables
<1>2. ASSUME NEW r \in Placed(pl2), NEW q \in Placed(pl2), pl2[r].dev = pl2[q].dev, pl2[r].blk = pl2[q].blk
      PROVE  r = q
  <2>1. /\ r \in Reqs /\ pl2[r].dev \in {"gpu", "cpu"}
        /\ q \in Reqs /\ pl2[q].dev \in {"gpu", "cpu"}
    BY DEF Placed
  <2>0. /\ pl2[r].dev = "gpu" <=> r \in OnGpu(n)
        /\ pl2[r].dev = "gpu" => pl2[r].blk = n.g[r]
        /\ pl2[r].dev = "cpu" => pl2[r].blk = n.c[r]
    BY <2>1, PlacesThen
  <2>q. /\ pl2[q].dev = "gpu" <=> q \in OnGpu(n)
        /\ pl2[q].dev = "gpu" => pl2[q].blk = n.g[q]
        /\ pl2[q].dev = "cpu" => pl2[q].blk = n.c[q]
    BY <2>1, PlacesThen
  <2>2. CASE pl2[r].dev = "gpu"
    <3>0. pl2[r].dev = "gpu" /\ pl2[q].dev = "gpu" /\ pl2[r].blk = pl2[q].blk
      BY <1>2, <2>2
    <3>a. pl2[r].blk = n.g[r] /\ pl2[q].blk = n.g[q]
      BY <2>0, <2>q, <3>0
    <3>b. r \in OnGpu(n) /\ q \in OnGpu(n)
      BY <2>0, <2>q, <3>0
    <3>1. r \in OnGpu(n) /\ q \in OnGpu(n) /\ n.g[r] = n.g[q]
      BY <3>0, <3>a, <3>b
    <3>2. QED
      BY <2>1, <3>1, GpuRoles, GpuApart
  <2>3. CASE pl2[r].dev = "cpu"
    <3>0. pl2[r].dev = "cpu" /\ pl2[q].dev = "cpu" /\ pl2[r].blk = pl2[q].blk
      BY <1>2, <2>3
    <3>a. pl2[r].blk = n.c[r] /\ pl2[q].blk = n.c[q]
      BY <2>0, <2>q, <3>0
    <3>b. r \notin OnGpu(n) /\ q \notin OnGpu(n)
      BY <2>0, <2>q, <3>0
    <3>1. r \notin OnGpu(n) /\ q \notin OnGpu(n) /\ n.c[r] = n.c[q]
      BY <3>0, <3>a, <3>b
    <3>2. QED
      BY <3>1, SwapSpaceApart
  <2>4. QED
    BY <2>1, <2>2, <2>3
<1>3. QED
  BY <1>1, <1>2 DEF Tables

(* Requests with KV before it are those with KV in it that are no prefills.  *)
LEMMA KvsBefore ==
  ASSUME NEW pl, NEW ln, Tables(pl, ln), NEW role, NEW n, NEW pl2, Planned(pl, role, n, pl2),
         NEW r \in Kvs(n, Placed(pl2))
  PROVE  /\ r \in Placed(pl2) /\ r \in Placed(pl) /\ r \in Reqs
         /\ role[r] \in AllRoles /\ role[r] \notin {"gprf", "cprf"}
<1>1. r \in Placed(pl2) /\ \A b \in Bs(n) : r \notin Prefs(n.batches[b])
  BY DEF Kvs
<1>2. r \in Reqs
  BY <1>1 DEF Placed
<1>3. 1 \in Bs(n) /\ Who(role, n, 1)
  BY BatchRoles
<1>4. role[r] \notin {"gprf", "cprf"}
  BY <1>1, <1>2, <1>3, InBatch DEF Who
<1>5. pl[r].dev \in {"gpu", "cpu"}
  BY <1>1, <1>2, <1>4, PlacesThen
<1>6. role[r] \in AllRoles
  BY <1>2 DEF Planned
<1>7. QED
  BY <1>1, <1>2, <1>4, <1>5, <1>6 DEF Placed

(* What the swaps take goes where the forward pass wants it.                 *)
LEMMA PlanMoves ==
  ASSUME NEW pl, NEW ln, Tables(pl, ln), NEW role, NEW n, NEW pl2, Planned(pl, role, n, pl2)
  PROVE  MovesFit(n, Placed(pl2), pl)
<1>1. PICK S : S = Placed(pl2)
  OBVIOUS
<1>2. /\ \A r : r \in OnGpu(n) <=> r \in Reqs /\ role[r] \in {"gprf", "gdec", "in"}
      /\ \A r : r \in Movers(n) <=> r \in Reqs /\ role[r] \in Outs \union {"in"}
      /\ \A b \in Bs(n) : \A r \in Prefs(n.batches[b]) : r \in Reqs /\ role[r] \in {"gprf", "cprf"}
  BY GpuRoles
<1>3. Movers(n) \subseteq Kvs(n, S)
  <2> SUFFICES ASSUME NEW r \in Movers(n) PROVE r \in Kvs(n, S)
    OBVIOUS
  <2>1. r \in Reqs /\ role[r] \in Outs \union {"in"}
    BY <1>2
  <2>2. r \in S
    BY <1>1, <2>1, MembersPlaced
  <2>3. \A b \in Bs(n) : r \notin Prefs(n.batches[b])
    BY <1>2, <2>1 DEF Outs
  <2>4. QED
    BY <2>2, <2>3 DEF Kvs
<1>4. \A r \in n.out : /\ r \in Reqs /\ role[r] \in Outs /\ r \in Movers(n)
                       /\ pl[r].dev = "gpu" /\ n.g[r] = pl[r].blk /\ r \notin OnGpu(n)
  <2> TAKE r \in n.out
  <2>1. r \in Reqs /\ role[r] \in Outs
    BY DEF Planned, InRoles
  <2>2. pl[r].dev = "gpu" /\ n.g[r] = pl[r].blk
    BY <2>1 DEF Planned
  <2>3. r \notin OnGpu(n)
    BY <1>2, <2>1 DEF Outs
  <2>4. QED
    BY <2>1, <2>2, <2>3 DEF Movers
<1>5. \A r \in n.in : /\ r \in Reqs /\ role[r] = "in" /\ r \in Movers(n)
                      /\ pl[r].dev = "cpu" /\ n.c[r] = pl[r].blk /\ r \in OnGpu(n)
  <2> TAKE r \in n.in
  <2>1. r \in Reqs /\ role[r] = "in"
    BY DEF Planned, InRoles
  <2>2. pl[r].dev = "cpu"
    BY <2>1 DEF Planned
  <2>3. n.c[r] = pl[r].blk
    BY <2>1 DEF Planned, ToCpu, Outs
  <2>4. r \in OnGpu(n)
    BY <1>2, <2>1
  <2>5. QED
    BY <2>1, <2>2, <2>3, <2>4 DEF Movers
<1>6. ASSUME NEW l \in Depth
      PROVE  IterCopies(n, l) = {<<Old(pl, r, l), Home(n, r, l)>> : r \in Movers(n)}
  <2>1. \A r \in n.out : /\ Old(pl, r, l) = <<"k_cache", l, n.g[r]>>
                         /\ Home(n, r, l) = <<"k_swap", l, n.c[r]>>
    BY <1>4 DEF Old, Home
  <2>2. \A r \in n.in : /\ Old(pl, r, l) = <<"k_swap", l, n.c[r]>>
                        /\ Home(n, r, l) = <<"k_cache", l, n.g[r]>>
    BY <1>5 DEF Old, Home
  <2>3. PICK A : A = {<<Old(pl, r, l), Home(n, r, l)>> : r \in n.out}
    OBVIOUS
  <2>4. PICK B : B = {<<Old(pl, r, l), Home(n, r, l)>> : r \in n.in}
    OBVIOUS
  <2>5. A = {<< <<"k_cache", l, n.g[r]>>, <<"k_swap", l, n.c[r]>> >> : r \in n.out}
    BY <2>1, <2>3
  <2>6. B = {<< <<"k_swap", l, n.c[r]>>, <<"k_cache", l, n.g[r]>> >> : r \in n.in}
    BY <2>2, <2>4
  <2>7. IterCopies(n, l) = A \union B
    BY <2>5, <2>6 DEF IterCopies
  <2>8. A \union B = {<<Old(pl, r, l), Home(n, r, l)>> : r \in Movers(n)}
    BY <2>3, <2>4 DEF Movers
  <2>9. QED
    BY <2>7, <2>8
<1>7. ASSUME NEW r \in Kvs(n, S), NEW l \in Depth
      PROVE  Old(pl, r, l) \in KvCells
  <2>1. r \in Reqs /\ pl[r].dev \in {"gpu", "cpu"}
    BY <1>1, KvsBefore DEF Placed
  <2>2. Layers \in Nat /\ l \in 0 .. Layers /\ l \in 0 .. Layers - 1
    BY PipelineAssumption DEF Depth
  <2>3. CASE pl[r].dev = "gpu"
    <3>1. Old(pl, r, l) = <<"k_cache", l, pl[r].blk>> /\ pl[r].blk \in GpuBlocks
      BY <2>1, <2>3 DEF Old, Tables
    <3>2. QED
      BY <2>2, <3>1 DEF KvCells, Cells, Bufs
  <2>4. CASE pl[r].dev = "cpu"
    <3>1. Old(pl, r, l) = <<"k_swap", l, pl[r].blk>> /\ pl[r].blk \in CpuBlocks
      BY <2>1, <2>4 DEF Old, Tables
    <3>2. QED
      BY <2>2, <3>1 DEF KvCells, Cells, Bufs
  <2>5. QED
    BY <2>1, <2>3, <2>4
<1>8. ASSUME NEW r \in Kvs(n, S) \ Movers(n), NEW l \in Depth
      PROVE  Old(pl, r, l) = Home(n, r, l)
  <2>1. r \in Placed(pl2) /\ r \in Reqs /\ role[r] \in AllRoles /\ role[r] \notin {"gprf", "cprf"}
    BY <1>1, KvsBefore
  <2>2. role[r] \in {"none", "gdec", "cdec1", "cdec2"}
    BY <1>2, <2>1 DEF AllRoles, Outs
  <2>3. pl2[r] = pl[r]
    BY <2>1, <2>2 DEF Planned
  <2>4. Home(n, r, l) = Old(pl2, r, l)
    BY <2>1, HomeThen
  <2>5. QED
    BY <2>3, <2>4 DEF Old
<1>9. ASSUME NEW r \in Movers(n), NEW q \in Kvs(n, S), NEW l \in Depth, NEW k \in Depth
      PROVE  Home(n, r, l) # Old(pl, q, k)
  <2>1. q \in Reqs /\ pl[q].dev \in {"gpu", "cpu"}
    BY <1>1, KvsBefore DEF Placed
  <2>2. InRoles(role, {"in"}) = {} \/ InRoles(role, Outs) = {}
    BY DEF Planned, Schedulable, Outs
  <2>3. CASE role[r] = "in"
    <3>1. r \in Reqs /\ role[r] \in ToGpu /\ r \in OnGpu(n)
      BY <1>2, <2>3 DEF ToGpu
    <3>2. role[q] \notin Outs
      BY <2>1, <2>2, <2>3, <3>1 DEF InRoles
    <3>3. pl[q].dev = "gpu" => n.g[r] # pl[q].blk
      BY <2>1, <3>1, <3>2 DEF Planned
    <3>4. Home(n, r, l) = <<"k_cache", l, n.g[r]>>
      BY <3>1 DEF Home
    <3>5. QED
      BY <2>1, <3>3, <3>4 DEF Old
  <2>4. CASE role[r] \in Outs
    <3>1. r \in Reqs /\ role[r] \in ToCpu /\ r \notin OnGpu(n)
      BY <1>2, <2>4 DEF ToCpu, Outs
    <3>2. role[q] # "in"
      BY <2>1, <2>2, <2>4, <3>1 DEF InRoles
    <3>3. pl[q].dev = "cpu" => n.c[r] # pl[q].blk
      BY <2>1, <3>1, <3>2 DEF Planned
    <3>4. Home(n, r, l) = <<"k_swap", l, n.c[r]>>
      BY <3>1 DEF Home
    <3>5. QED
      BY <2>1, <3>3, <3>4 DEF Old
  <2>5. QED
    BY <1>2, <2>3, <2>4
<1>10. MovesFit(n, S, pl)
  BY <1>3, <1>6, <1>7, <1>8, <1>9 DEF MovesFit
<1>11. QED
  BY <1>1, <1>10

(* The swaps find the KV where the block tables had it.                      *)
LEMMA PlanKv ==
  ASSUME NEW pl, NEW ln, Tables(pl, ln), NEW role, NEW n, NEW pl2, Planned(pl, role, n, pl2),
         NEW m, InPlace(m, pl, ln)
  PROVE  OldKv(n, Placed(pl2), ln, m, pl, 0)
<1>1. PICK S : S = Placed(pl2) /\ MovesFit(n, S, pl)
  BY PlanMoves
<1>2. ASSUME NEW r \in Kvs(n, S), NEW l \in Depth
      PROVE  /\ m[Old(pl, r, l)] = <<r, ln[r]>>
             /\ r \notin Movers(n) \/ l < 0 => m[Home(n, r, l)] = <<r, ln[r]>>
  <2>1. r \in Placed(pl)
    BY <1>1, KvsBefore
  <2>2. m[Old(pl, r, l)] = <<r, ln[r]>>
    BY <2>1 DEF InPlace
  <2>3. ~(l < 0)
    BY DEF Depth
  <2>4. r \notin Movers(n) => Old(pl, r, l) = Home(n, r, l)
    BY <1>1 DEF MovesFit
  <2>5. QED
    BY <2>2, <2>3, <2>4
<1>3. QED
  BY <1>1, <1>2 DEF OldKv

-------------------------------------------------------------------------------
\* The invariant.

\* The streams as they are now.
Now == [queue |-> queue, done |-> done, fence |-> fence, event |-> event]

\* Between iterations: what is in flight leaves the KV where the block tables say.
AtRest ==
    /\ queue["default"] = <<>> /\ done["comm"] >= fence["default"]
    /\ \E p, m2 : Pending(iter, len, Now, mem, p, Rest(m2)) /\ InPlace(m2, place, len)

\* In one: what is in flight and what is left of the program take all batches
\* through all layers.
Working(p, a, b, w) ==
    /\ Pending(iter, len, Now, mem, p, a) /\ Safe(iter, len, a, program, b)
    /\ Finished(iter, Placed(place), len, b, w)
Busy ==
    /\ Ended(program) /\ Fit(iter, Placed(place), len)
    /\ \A r \in Placed(place) : \A l \in Depth : Home(iter, r, l) = Old(place, r, l)
    /\ \E p, a, b, w : Working(p, a, b, w)

PInv ==
    /\ Now \in Streaming /\ Tables(place, len)
    /\ program = <<>> => AtRest
    /\ program # <<>> => Busy

(* When all batches have gone through all layers, and the tokens that were   *)
(* computed count, the KV is in place.                                       *)
LEMMA EndKv ==
  ASSUME NEW pl, NEW ln, Tables(pl, ln), NEW n, Fit(n, Placed(pl), ln),
         \A r \in Placed(pl) : \A l \in Depth : Home(n, r, l) = Old(pl, r, l),
         NEW b, NEW w, Finished(n, Placed(pl), ln, b, w),
         NEW pl2, \A r \in Reqs : pl2[r] = pl[r] \/ pl2[r] = [dev |-> "done", blk |-> 0],
         NEW ln2, \A r \in Reqs : ln2[r] = IF r \in Active(n) THEN ln[r] + 1 ELSE ln[r]
  PROVE  InPlace(b.mem, pl2, ln2) /\ Tables(pl2, ln2)
<1>1. \A r \in Placed(pl2) : r \in Reqs /\ r \in Placed(pl) /\ pl2[r] = pl[r]
  BY DEF Placed
<1>2. \A r \in Active(n) : r \in Placed(pl) /\ \E d \in Bs(n) : r \in Members(n.batches[d])
  <2> TAKE r \in Active(n)
  <2>1. PICK d \in Bs(n) : r \in Members(n.batches[d])
    BY DEF Active, Bs
  <2>2. r \in Placed(pl)
    BY <2>1, BatchFacts, InBatch
  <2>3. QED
    BY <2>1, <2>2
<1>3. ASSUME NEW r \in Placed(pl2), NEW l \in Depth
      PROVE  b.mem[Old(pl2, r, l)] = <<r, ln2[r]>>
  <2>1. r \in Reqs /\ r \in Placed(pl) /\ pl2[r] = pl[r]
    BY <1>1
  <2>2. Old(pl2, r, l) = Home(n, r, l)
    BY <2>1 DEF Old
  <2>3. /\ l < w[r] => b.mem[Home(n, r, l)] = <<r, ln[r] + 1>>
        /\ l >= w[r] /\ (\A d \in Bs(n) : r \notin Prefs(n.batches[d])) =>
              b.mem[Home(n, r, l)] = <<r, ln[r]>>
    BY <2>1 DEF Finished, St, KvAt
  <2>4. CASE r \in Active(n)
    <3>1. PICK d \in Bs(n) : r \in Members(n.batches[d])
      BY <1>2, <2>4
    <3>2. w[r] = Layers
      BY <3>1 DEF Finished, Through, At
    <3>3. l < w[r]
      BY <3>2, PipelineAssumption DEF Depth
    <3>4. ln2[r] = ln[r] + 1
      BY <2>1, <2>4
    <3>5. QED
      BY <2>2, <2>3, <3>3, <3>4
  <2>5. CASE r \notin Active(n)
    <3>1. \A d \in Bs(n) : r \notin Members(n.batches[d])
      BY <2>5 DEF Active, Bs
    <3>2. w[r] = 0
      BY <2>1, <3>1 DEF Finished, St, Still
    <3>3. \A d \in Bs(n) : r \notin Prefs(n.batches[d])
      BY <3>1, InBatch
    <3>4. l >= w[r]
      BY <3>2, PipelineAssumption DEF Depth
    <3>5. ln2[r] = ln[r]
      BY <2>1, <2>5
    <3>6. QED
      BY <2>2, <2>3, <3>3, <3>4, <3>5
  <2>6. QED
    BY <2>4, <2>5
<1>4. ASSUME NEW r \in Reqs
      PROVE  /\ pl2[r].dev \in {"new", "gpu", "cpu", "done"}
             /\ pl2[r].dev = "gpu" => pl2[r].blk \in GpuBlocks
             /\ pl2[r].dev = "cpu" => pl2[r].blk \in CpuBlocks
             /\ pl2[r].dev = "new" => ln2[r] = 0
             /\ ln2[r] \in Nat
  <2>1. ln[r] \in Nat /\ ln2[r] \in Nat
    BY DEF Tables
  <2>2. CASE pl2[r] = [dev |-> "done", blk |-> 0]
    BY <2>1, <2>2
  <2>3. CASE pl2[r] = pl[r]
    <3>1. pl[r].dev = "new" => r \notin Active(n)
      BY <1>2 DEF Placed
    <3>2. QED
      BY <2>1, <2>3, <3>1 DEF Tables
  <2>4. QED
    BY <2>2, <2>3
<1>5. ASSUME NEW r \in Placed(pl2), NEW q \in Placed(pl2), pl2[r].dev = pl2[q].dev, pl2[r].blk = pl2[q].blk
      PROVE  r = q
  BY <1>1, <1>5 DEF Tables
<1>6. InPlace(b.mem, pl2, ln2)
  BY <1>3 DEF InPlace
<1>7. Tables(pl2, ln2)
  BY <1>4, <1>5 DEF Tables
<1>8. QED
  BY <1>6, <1>7

(* A stream's next job.                                                      *)
LEMMA RunStep ==
  ASSUME Now \in Streaming, NEW p, NEW a, Pending(iter, len, Now, mem, p, a),
         NEW s \in Streams, RunJob(s)
  PROVE  Now' \in Streaming /\ \E q : Pending(iter, len, Now', mem', q, a)
<1>1. PICK x : x = Now
  OBVIOUS
<1>2. x.queue = queue /\ x.done = done /\ x.fence = fence /\ x.event = event /\ x \in Streaming
  BY <1>1 DEF Now
<1>3. MayRun(x, s)
  BY <1>2 DEF RunJob, Ready, MayRun
<1>4. PICK n, ln, m : n = iter /\ ln = len /\ m = mem
  OBVIOUS
<1>5. Pending(n, ln, x, m, p, a)
  BY <1>1, <1>4
<1>6. PICK q : /\ Ran(x, s) \in Streaming
               /\ Pending(n, ln, Ran(x, s), ApplyTo(n, ln, m, Head(x.queue[s]).job), q, a)
  BY ONLY <1>2, <1>3, <1>5, s \in Streams, RunHead
<1>7. Now' = Ran(x, s)
  BY <1>2 DEF RunJob, Now, Ran
<1>8. mem' = ApplyTo(n, ln, m, Head(x.queue[s]).job)
  <2>1. Perform(iter, Head(queue[s]).job)
    BY DEF RunJob
  <2>2. mem' = ApplyTo(iter, len, mem, Head(queue[s]).job)
    BY <2>1, PerformApplies
  <2>3. QED
    BY <1>2, <1>4, <2>2
<1>9. QED
  BY <1>4, <1>6, <1>7, <1>8

(* Where the KV is at first.                                                 *)
LEMMA InitKv ==
  ASSUME Init
  PROVE  InPlace(mem, place, len) /\ Tables(place, len)
<1>1. PICK dev \in [Reqs -> {"new", "gpu", "cpu"}] :
        \E g \in Injections({r \in Reqs : dev[r] = "gpu"}, GpuBlocks),
           c \in Injections({r \in Reqs : dev[r] = "cpu"}, CpuBlocks) :
           /\ place = [r \in Reqs |-> CASE dev[r] = "gpu" -> [dev |-> "gpu", blk |-> g[r]]
                                        [] dev[r] = "cpu" -> [dev |-> "cpu", blk |-> c[r]]
                                        [] dev[r] = "new" -> Nowhere]
           /\ len = [r \in Reqs |-> IF dev[r] = "new" THEN 0 ELSE 1]
           /\ mem = [x \in Cells |->
                       IF \E r \in DOMAIN g : x[1] = "k_cache" /\ x[2] < Layers /\ x[3] = g[r]
                       THEN <<CHOOSE r \in DOMAIN g : x[3] = g[r], 1>>
                       ELSE IF \E r \in DOMAIN c : x[1] = "k_swap" /\ x[3] = c[r]
                       THEN <<CHOOSE r \in DOMAIN c : x[3] = c[r], 1>>
                       ELSE Bad]
  BY DEF Init
<1>2. PICK g \in Injections({r \in Reqs : dev[r] = "gpu"}, GpuBlocks),
           c \in Injections({r \in Reqs : dev[r] = "cpu"}, CpuBlocks) :
           /\ place = [r \in Reqs |-> CASE dev[r] = "gpu" -> [dev |-> "gpu", blk |-> g[r]]
                                        [] dev[r] = "cpu" -> [dev |-> "cpu", blk |-> c[r]]
                                        [] dev[r] = "new" -> Nowhere]
           /\ len = [r \in Reqs |-> IF dev[r] = "new" THEN 0 ELSE 1]
           /\ mem = [x \in Cells |->
                       IF \E r \in DOMAIN g : x[1] = "k_cache" /\ x[2] < Layers /\ x[3] = g[r]
                       THEN <<CHOOSE r \in DOMAIN g : x[3] = g[r], 1>>
                       ELSE IF \E r \in DOMAIN c : x[1] = "k_swap" /\ x[3] = c[r]
                       THEN <<CHOOSE r \in DOMAIN c : x[3] = c[r], 1>>
                       ELSE Bad]
  BY <1>1
<1>3. PICK G : G = {r \in Reqs : dev[r] = "gpu"}
  OBVIOUS
<1>4. PICK C : C = {r \in Reqs : dev[r] = "cpu"}
  OBVIOUS
<1>5. /\ DOMAIN g = G /\ (\A r \in G : g[r] \in GpuBlocks)
      /\ \A r, q \in G : g[r] = g[q] => r = q
  BY ONLY <1>2, <1>3, NewBlocks
<1>6. /\ DOMAIN c = C /\ (\A r \in C : c[r] \in CpuBlocks)
      /\ \A r, q \in C : c[r] = c[q] => r = q
  BY ONLY <1>2, <1>4, NewBlocks
<1>7. \A r \in Reqs : dev[r] \in {"new", "gpu", "cpu"}
  BY <1>1
<1>8. \A r \in Reqs : /\ dev[r] = "gpu" => place[r].dev = "gpu" /\ place[r].blk = g[r]
                      /\ dev[r] = "cpu" => place[r].dev = "cpu" /\ place[r].blk = c[r]
                      /\ dev[r] = "new" => place[r].dev = "new"
  BY <1>2 DEF Nowhere
<1>9. \A r \in Reqs : /\ dev[r] = "new" => len[r] = 0
                      /\ dev[r] # "new" => len[r] = 1
  BY <1>2
<1>10. /\ \A r \in G : r \in Reqs /\ dev[r] = "gpu"
       /\ \A r \in C : r \in Reqs /\ dev[r] = "cpu"
       /\ \A r \in Reqs : (dev[r] = "gpu" => r \in G) /\ (dev[r] = "cpu" => r \in C)
  BY <1>3, <1>4
<1>11. Tables(place, len)
  <2>1. ASSUME NEW r \in Reqs
        PROVE  /\ place[r].dev \in {"new", "gpu", "cpu", "done"}
               /\ place[r].dev = "gpu" => place[r].blk \in GpuBlocks
               /\ place[r].dev = "cpu" => place[r].blk \in CpuBlocks
               /\ place[r].dev = "new" => len[r] = 0
               /\ len[r] \in Nat
    BY <1>5, <1>6, <1>7, <1>8, <1>9, <1>10
  <2>2. ASSUME NEW r \in Placed(place), NEW q \in Placed(place),
               place[r].dev = place[q].dev, place[r].blk = place[q].blk
        PROVE  r = q
    <3>1. r \in Reqs /\ q \in Reqs /\ place[r].dev \in {"gpu", "cpu"}
      BY DEF Placed
    <3>2. CASE place[r].dev = "gpu"
      <4>1. place[q].dev = "gpu"
        BY <2>2, <3>2
      <4>2. dev[r] = "gpu" /\ dev[q] = "gpu"
        BY <1>7, <1>8, <3>1, <3>2, <4>1
      <4>3. place[r].blk = g[r] /\ place[q].blk = g[q] /\ r \in G /\ q \in G
        BY <1>8, <1>10, <3>1, <4>2
      <4>4. QED
        BY <1>5, <2>2, <4>3
    <3>3. CASE place[r].dev = "cpu"
      <4>1. place[q].dev = "cpu"
        BY <2>2, <3>3
      <4>2. dev[r] = "cpu" /\ dev[q] = "cpu"
        BY <1>7, <1>8, <3>1, <3>3, <4>1
      <4>3. place[r].blk = c[r] /\ place[q].blk = c[q] /\ r \in C /\ q \in C
        BY <1>8, <1>10, <3>1, <4>2
      <4>4. QED
        BY <1>6, <2>2, <4>3
    <3>4. QED
      BY <3>1, <3>2, <3>3
  <2>3. QED
    BY <2>1, <2>2 DEF Tables
<1>12. ASSUME NEW r \in Placed(place), NEW l \in Depth
       PROVE  mem[Old(place, r, l)] = <<r, len[r]>>
  <2>1. r \in Reqs /\ place[r].dev \in {"gpu", "cpu"}
    BY DEF Placed
  <2>2. len[r] = 1
    <3>1. dev[r] # "new"
      BY <1>8, <2>1
    <3>2. QED
      BY <1>9, <2>1, <3>1
  <2>3. l < Layers /\ l \in 0 .. Layers /\ l \in 0 .. Layers - 1
    BY PipelineAssumption DEF Depth
  <2>4. CASE place[r].dev = "gpu"
    <3>1. dev[r] = "gpu"
      BY <1>7, <1>8, <2>1, <2>4
    <3>2. r \in G /\ place[r].blk = g[r]
      BY <1>8, <1>10, <2>1, <3>1
    <3>3. PICK x : x = <<"k_cache", l, g[r]>>
      OBVIOUS
    <3>4. Old(place, r, l) = x /\ x[1] = "k_cache" /\ x[2] = l /\ x[3] = g[r]
      BY <2>4, <3>2, <3>3 DEF Old
    <3>5. x \in Cells
      BY <1>5, <2>3, <3>2, <3>3 DEF Cells
    <3>6. mem[x] = <<CHOOSE q \in DOMAIN g : x[3] = g[q], 1>>
      <4>1. \E q \in DOMAIN g : x[1] = "k_cache" /\ x[2] < Layers /\ x[3] = g[q]
        BY <1>5, <2>3, <3>2, <3>4
      <4>2. QED
        BY <1>2, <3>5, <4>1
    <3>7. (CHOOSE q \in DOMAIN g : x[3] = g[q]) = r
      BY <1>5, <3>2, <3>4
    <3>8. QED
      BY <2>2, <3>4, <3>6, <3>7
  <2>5. CASE place[r].dev = "cpu"
    <3>1. dev[r] = "cpu"
      BY <1>7, <1>8, <2>1, <2>5
    <3>2. r \in C /\ place[r].blk = c[r]
      BY <1>8, <1>10, <2>1, <3>1
    <3>3. PICK x : x = <<"k_swap", l, c[r]>>
      OBVIOUS
    <3>4. Old(place, r, l) = x /\ x[1] = "k_swap" /\ x[2] = l /\ x[3] = c[r]
      BY <2>5, <3>2, <3>3 DEF Old
    <3>5. x \in Cells
      BY <1>6, <2>3, <3>2, <3>3 DEF Cells
    <3>6. mem[x] = <<CHOOSE q \in DOMAIN c : x[3] = c[q], 1>>
      <4>1. ~ \E q \in DOMAIN g : x[1] = "k_cache" /\ x[2] < Layers /\ x[3] = g[q]
        BY <3>4
      <4>2. \E q \in DOMAIN c : x[1] = "k_swap" /\ x[3] = c[q]
        BY <1>6, <3>2, <3>4
      <4>3. QED
        BY <1>2, <3>5, <4>1, <4>2
    <3>7. (CHOOSE q \in DOMAIN c : x[3] = c[q]) = r
      BY <1>6, <3>2, <3>4
    <3>8. QED
      BY <2>2, <3>4, <3>6, <3>7
  <2>6. QED
    BY <2>1, <2>4, <2>5
<1>13. QED
  BY <1>11, <1>12 DEF InPlace

(* At first nothing is in flight.                                            *)
LEMMA PInvInit == Init => PInv
<1> SUFFICES ASSUME Init PROVE PInv
  OBVIOUS
<1>1. InPlace(mem, place, len) /\ Tables(place, len)
  BY InitKv
<1>2. program = <<>> /\ queue = [s \in Streams |-> <<>>] /\ event = 0
      /\ done = [s \in Streams |-> 0] /\ fence = [s \in Streams |-> 0]
  BY DEF Init
<1>3. PICK x : x = Now
  OBVIOUS
<1>4. /\ x.queue = [s \in Streams |-> <<>>] /\ x.done = [s \in Streams |-> 0]
      /\ x.fence = [s \in Streams |-> 0] /\ x.event = 0
  BY <1>2, <1>3 DEF Now
<1>5. x \in Streaming
  <2>1. <<>> \in Seq([job : Jobs, after : Nat])
    OBVIOUS
  <2>2. queue \in [Streams -> Seq([job : Jobs, after : Nat])]
    BY <1>2, <2>1
  <2>3. done \in [Streams -> Nat] /\ fence \in [Streams -> Nat] /\ event \in Nat
    BY <1>2
  <2>4. QED
    BY <1>3, <2>2, <2>3 DEF Now, Streaming
<1>6. PICK n, ln, m, c : n = iter /\ ln = len /\ m = mem /\ c = Rest(m)
  OBVIOUS
<1>7. Pending(n, ln, x, m, <<>>, c)
  <2>1. c.mem = m /\ ~c.ready /\ ~c.fresh
    BY <1>6 DEF Rest
  <2>2. PICK p : p = <<>>
    OBVIOUS
  <2>3. p \in Seq(Entries) /\ DOMAIN p = {} /\ Len(p) = 0
    BY <2>2
  <2>4. \A s \in Streams : 1 .. Len(x.queue[s]) = {}
    <3> TAKE s \in Streams
    <3>1. Len(x.queue[s]) = 0
      BY <1>4
    <3>2. QED
      BY <3>1
  <2>5. Reaches(n, ln, m, p, m)
    <3>1. PICK t : t = [i \in {0} |-> m]
      OBVIOUS
    <3>2. t[0] = m /\ 1 .. 0 = {}
      BY <3>1
    <3>3. QED
      BY <2>3, <3>2 DEF Reaches
  <2>6. Pending(n, ln, x, m, p, c)
    BY <2>1, <2>3, <2>4, <2>5 DEF Pending
  <2>7. QED
    BY <2>2, <2>6
<1>8. AtRest
  <2>1. queue["default"] = <<>> /\ done["comm"] >= fence["default"]
    BY <1>2 DEF Streams
  <2>2. QED
    BY <1>1, <1>3, <1>6, <1>7, <2>1 DEF AtRest
<1>9. QED
  BY <1>1, <1>2, <1>3, <1>5, <1>8 DEF PInv

(* The scheduler's iteration begins where the last one left the KV.          *)
LEMMA PInvDoIteration == PInv /\ DoIteration => PInv'
<1> SUFFICES ASSUME PInv, DoIteration PROVE PInv'
  OBVIOUS
<1>1. Tables(place, len) /\ program = <<>> /\ AtRest /\ Now \in Streaming
  BY DEF PInv, DoIteration
<1>2. PICK role, n, pl2 : /\ Planned(place, role, n, pl2) /\ place' = pl2
                          /\ iter' = n /\ program' = DoOneIteration(n)
  BY <1>1, Plans
<1>3. len' = len /\ queue' = queue /\ done' = done /\ fence' = fence /\ event' = event /\ mem' = mem
  BY DEF DoIteration
<1>4. PICK pl, ln, m, x : pl = place /\ ln = len /\ m = mem /\ x = Now
  OBVIOUS
<1>5. Now' = x
  BY <1>3, <1>4 DEF Now
<1>6. PICK p, m2 : Pending(iter, len, Now, mem, p, Rest(m2)) /\ InPlace(m2, place, len)
  BY <1>1 DEF AtRest
<1>7. PICK n0 : n0 = iter
  OBVIOUS
<1>8. PICK a : a = Rest(m2)
  OBVIOUS
<1>9. a.mem = m2 /\ a.un["default"] = KvSwaps /\ a.un["comm"] = {}
  BY <1>8 DEF Rest, Streams
<1>10. Tables(pl, ln) /\ Planned(pl, role, n, pl2) /\ InPlace(m2, pl, ln)
  BY <1>1, <1>2, <1>4, <1>6
<1>11. PICK S : S = Placed(pl2)
  OBVIOUS
<1>12. Fit(n, S, ln) /\ MovesFit(n, S, pl) /\ Shape(n)
  BY <1>10, <1>11, PlanFits, PlanMoves, BatchRoles
<1>13. OldKv(n, S, ln, a.mem, pl, 0)
  BY <1>9, <1>10, <1>11, PlanKv
<1>14. Quiet(a)
  BY <1>9 DEF Quiet
<1>15. PICK b, w : /\ Safe(n, ln, a, DoOneIteration(n), b) /\ Finished(n, S, ln, b, w)
                   /\ Ended(DoOneIteration(n)) /\ DoOneIteration(n) # <<>>
  BY <1>12, <1>13, <1>14, IterationRuns
<1>16. Pending(n, ln, x, m, p, a)
  <2>1. Pending(n0, ln, x, m, p, a) /\ x \in Streaming
    BY <1>1, <1>4, <1>6, <1>7, <1>8
  <2>2. x.queue["default"] = <<>> /\ x.done["comm"] >= x.fence["default"]
    BY <1>1, <1>4 DEF AtRest, Now
  <2>3. a.un["default"] \subseteq KvSwaps /\ m2 = a.mem
    BY <1>9
  <2>4. Pending(n, ln, x, m, p, Rest(m2))
    BY ONLY <2>1, <2>2, <2>3, CarriedOver
  <2>5. QED
    BY <1>8, <2>4
<1>17. Tables(pl2, ln)
  BY <1>10, TablesThen
<1>18. \A r \in S : \A l \in Depth : Home(n, r, l) = Old(pl2, r, l)
  BY <1>10, <1>11, HomeThen
<1>19. Now' \in Streaming /\ Tables(place', len') /\ program' # <<>>
  BY <1>1, <1>2, <1>3, <1>4, <1>5, <1>15, <1>17
<1>20. Busy'
  <2>1. Working(p, a, b, w)'
    BY <1>2, <1>3, <1>4, <1>5, <1>11, <1>15, <1>16 DEF Working
  <2>2. Ended(program') /\ Fit(iter', Placed(place'), len')
    BY <1>2, <1>3, <1>4, <1>11, <1>12, <1>15
  <2>3. \A r \in Placed(place') : \A l \in Depth : Home(iter', r, l) = Old(place', r, l)
    BY <1>2, <1>11, <1>18
  <2>4. QED
    BY <2>1, <2>2, <2>3 DEF Busy
<1>21. QED
  BY <1>19, <1>20 DEF PInv

\* What does not change while the iteration goes on.
Goes == UNCHANGED <<place, len, iter>>

(* The program goes on where what is pending and what is left still fit.     *)
LEMMA BusyGoes ==
  ASSUME PInv, program # <<>>, Goes, Now' \in Streaming, Ended(program'), program' # <<>>,
         NEW p, NEW a, NEW b, NEW w,
         Pending(iter, len, Now', mem', p, a), Safe(iter, len, a, program', b),
         Finished(iter, Placed(place), len, b, w)
  PROVE  PInv'
<1>1. Busy /\ Tables(place, len)
  BY DEF PInv
<1>2. iter' = iter /\ len' = len /\ place' = place
  BY DEF Goes
<1>3. Working(p, a, b, w)'
  BY <1>2 DEF Working
<1>4. /\ Fit(iter', Placed(place'), len') /\ Tables(place', len')
      /\ \A r \in Placed(place') : \A l \in Depth : Home(iter', r, l) = Old(place', r, l)
  BY <1>1, <1>2 DEF Busy
<1>5. Busy'
  BY <1>3, <1>4 DEF Busy
<1>6. QED
  BY <1>4, <1>5 DEF PInv

(* The thread launches what it may.                                          *)
LEMMA PInvLaunch == PInv /\ Launch => PInv'
<1> SUFFICES ASSUME PInv, Launch PROVE PInv'
  OBVIOUS
<1>1. program # <<>> /\ Busy /\ Now \in Streaming /\ Goes
  BY DEF PInv, Launch, Goes
<1>2. PICK p, a, b, w : Working(p, a, b, w)
  BY <1>1 DEF Busy
<1>3. PICK n, ln, m, x, prog : n = iter /\ ln = len /\ m = mem /\ x = Now /\ prog = program
  OBVIOUS
<1>4. x \in Streaming /\ Pending(n, ln, x, m, p, a) /\ Safe(n, ln, a, prog, b) /\ Ended(prog) /\ prog # <<>>
  BY <1>1, <1>2, <1>3 DEF Working, Busy
<1>5. PICK k : k = NextBlocking(prog)
  OBVIOUS
<1>6. k \in 1 .. Len(prog)
  BY <1>4, <1>5, NextFound
<1>7. PICK y : y = LaunchedAll(x, SubSeq(prog, 1, k - 1))
  OBVIOUS
<1>8. y \in Streaming /\ y.done = x.done /\ \E q, c : /\ Pending(n, ln, y, m, q, c)
                                   /\ Safe(n, ln, c, SubSeq(prog, k, Len(prog)), b)
  BY ONLY <1>4, <1>5, <1>7, LaunchAll
<1>9. PICK q, c : Pending(n, ln, y, m, q, c) /\ Safe(n, ln, c, SubSeq(prog, k, Len(prog)), b)
  BY <1>8
<1>10. /\ queue' = y.queue /\ fence' = y.fence /\ event' = y.event /\ done' = done /\ mem' = mem
       /\ program' = SubSeq(prog, k, Len(prog))
  BY <1>3, <1>5, <1>7 DEF Launch, LaunchedAll, Now
<1>11. Now' = y
  <2>1. y = [queue |-> y.queue, done |-> y.done, fence |-> y.fence, event |-> y.event]
    BY <1>8 DEF Streaming
  <2>2. x.done = done
    BY <1>3 DEF Now
  <2>3. QED
    BY <1>8, <1>10, <2>1, <2>2 DEF Now
<1>12. Ended(program') /\ program' # <<>>
  <2>1. Ended(SubSeq(prog, k, Len(prog)))
    BY <1>4, <1>6, EndedLater
  <2>2. SubSeq(prog, k, Len(prog)) # <<>>
    <3>1. PICK N \in Nat : N = Len(prog) /\ k \in 1 .. N
      BY <1>4, <1>6 DEF Ended
    <3>2. PICK u : u = SubSeq(prog, k, N)
      OBVIOUS
    <3>3. Len(u) = N - k + 1
      BY <1>4, <3>1, <3>2 DEF Ended
    <3>4. Len(u) # 0
      BY <3>1, <3>3
    <3>5. u # <<>>
      BY <3>4
    <3>6. QED
      BY <3>1, <3>2, <3>5
  <2>3. QED
    BY <1>10, <2>1, <2>2
<1>13. Pending(iter, len, Now', mem', q, c) /\ Safe(iter, len, c, program', b)
  BY <1>3, <1>9, <1>10, <1>11
<1>14. Finished(iter, Placed(place), len, b, w)
  BY <1>2 DEF Working
<1>15. Now' \in Streaming
  BY <1>8, <1>11
<1>16. QED
  BY ONLY PInv, <1>1, <1>12, <1>13, <1>14, <1>15, BusyGoes
(* The thread has waited for the event.                                      *)
LEMMA PInvSynchronize == PInv /\ Synchronize => PInv'
<1> SUFFICES ASSUME PInv, Synchronize PROVE PInv'
  OBVIOUS
<1>1. program # <<>> /\ Busy /\ Now \in Streaming /\ Goes
  BY DEF PInv, Synchronize, Goes
<1>2. PICK p, a, b, w : Working(p, a, b, w)
  BY <1>1 DEF Busy
<1>3. PICK n, ln, m, x, prog : n = iter /\ ln = len /\ m = mem /\ x = Now /\ prog = program
  OBVIOUS
<1>4. Pending(n, ln, x, m, p, a) /\ Safe(n, ln, a, prog, b) /\ Ended(prog) /\ prog # <<>>
  BY <1>1, <1>2, <1>3 DEF Working, Busy
<1>5. prog \in Seq(Instr) /\ prog[1] = Head(prog)
  BY <1>4 DEF Ended
<1>6. PICK i : i = prog[1]
  OBVIOUS
<1>7. i.op = "sync" /\ x.done["comm"] >= x.event
  BY <1>3, <1>5, <1>6 DEF Synchronize, Now
<1>8. PICK c : c = Go(n, ln, a, i)
  OBVIOUS
<1>9. Safe(n, ln, c, Tail(prog), b)
  BY <1>4, <1>5, <1>6, <1>8, SafeFirst
<1>10. Pending(n, ln, x, m, p, c)
  BY <1>4, <1>7, <1>8, SyncDone
<1>11. Ended(Tail(prog)) /\ Tail(prog) # <<>>
  BY <1>4, <1>6, <1>7, EndedTail
<1>12. program' = Tail(prog) /\ Now' = x /\ mem' = m
  BY <1>3 DEF Synchronize, Now
<1>13. Pending(iter, len, Now', mem', p, c) /\ Safe(iter, len, c, program', b)
  BY <1>3, <1>9, <1>10, <1>12
<1>14. Finished(iter, Placed(place), len, b, w) /\ Now' \in Streaming
  BY <1>1, <1>2, <1>3, <1>12 DEF Working
<1>15. Ended(program') /\ program' # <<>>
  BY <1>11, <1>12
<1>16. QED
  BY ONLY PInv, <1>1, <1>13, <1>14, <1>15, BusyGoes

(* The thread computes attention on the CPU.                                 *)
LEMMA PInvCpu == PInv /\ PagedAttentionCpu => PInv'
<1> SUFFICES ASSUME PInv, PagedAttentionCpu PROVE PInv'
  OBVIOUS
<1>1. program # <<>> /\ Busy /\ Now \in Streaming /\ Goes
  BY DEF PInv, PagedAttentionCpu, Goes
<1>2. PICK p, a, b, w : Working(p, a, b, w)
  BY <1>1 DEF Busy
<1>3. PICK n, ln, m, x, prog : n = iter /\ ln = len /\ m = mem /\ x = Now /\ prog = program
  OBVIOUS
<1>4. /\ Pending(n, ln, x, m, p, a) /\ Safe(n, ln, a, prog, b) /\ Ended(prog) /\ prog # <<>>
      /\ x \in Streaming
  BY <1>1, <1>2, <1>3 DEF Working, Busy
<1>5. prog \in Seq(Instr) /\ prog[1] = Head(prog) /\ prog[1] \in Instr
  BY <1>4 DEF Ended
<1>6. PICK i \in Instr : i = prog[1]
  BY <1>5
<1>7. i.op = "cpu"
  BY <1>3, <1>5, <1>6 DEF PagedAttentionCpu
<1>8. PICK c : c = Go(n, ln, a, i)
  OBVIOUS
<1>9. Ok(n, a, i) /\ Safe(n, ln, c, Tail(prog), b)
  BY <1>4, <1>5, <1>6, <1>8, SafeFirst
<1>10. Pending(n, ln, x, ApplyTo(n, ln, m, i.job), p, c)
  BY <1>4, <1>7, <1>8, <1>9, CpuDone
<1>11. Ended(Tail(prog)) /\ Tail(prog) # <<>>
  BY <1>4, <1>6, <1>7, EndedTail
<1>12. program' = Tail(prog) /\ Now' = x
  BY <1>3 DEF PagedAttentionCpu, Now
<1>13. mem' = ApplyTo(n, ln, m, i.job)
  <2>1. Perform(iter, Head(program).job)
    BY DEF PagedAttentionCpu
  <2>2. mem' = ApplyTo(iter, len, mem, Head(program).job)
    BY <2>1, PerformApplies
  <2>3. QED
    BY <1>3, <1>5, <1>6, <2>2
<1>14. Pending(iter, len, Now', mem', p, c) /\ Safe(iter, len, c, program', b)
  BY <1>3, <1>9, <1>10, <1>12, <1>13
<1>15. Finished(iter, Placed(place), len, b, w) /\ Now' \in Streaming
  BY <1>1, <1>2, <1>3, <1>12 DEF Working
<1>16. Ended(program') /\ program' # <<>>
  BY <1>11, <1>12
<1>17. QED
  BY ONLY PInv, <1>1, <1>14, <1>15, <1>16, BusyGoes

(* A stream runs its next job, during an iteration or between two.           *)
LEMMA PInvRunJob == ASSUME NEW s \in Streams PROVE PInv /\ RunJob(s) => PInv'
<1> SUFFICES ASSUME PInv, RunJob(s) PROVE PInv'
  OBVIOUS
<1>1. /\ place' = place /\ len' = len /\ iter' = iter /\ program' = program
      /\ fence' = fence /\ Goes
  BY DEF RunJob, Goes
<1>2. Now \in Streaming /\ Tables(place, len)
  BY DEF PInv
<1>3. CASE program # <<>>
  <2>1. Busy
    BY <1>3 DEF PInv
  <2>2. PICK p, a, b, w : Working(p, a, b, w)
    BY <2>1 DEF Busy
  <2>3. Pending(iter, len, Now, mem, p, a)
    BY <2>2 DEF Working
  <2>4. PICK q : Now' \in Streaming /\ Pending(iter, len, Now', mem', q, a)
    BY <1>2, <2>3, RunStep
  <2>5. Safe(iter, len, a, program', b) /\ Finished(iter, Placed(place), len, b, w)
    BY <1>1, <2>2 DEF Working
  <2>6. Ended(program') /\ program' # <<>>
    BY <1>1, <1>3, <2>1 DEF Busy
  <2>7. QED
    BY ONLY PInv, <1>1, <1>3, <2>4, <2>5, <2>6, BusyGoes
<1>4. CASE program = <<>>
  <2>1. AtRest
    BY <1>4 DEF PInv
  <2>2. PICK p, m2 : Pending(iter, len, Now, mem, p, Rest(m2)) /\ InPlace(m2, place, len)
    BY <2>1 DEF AtRest
  <2>3. PICK a : a = Rest(m2)
    OBVIOUS
  <2>4. PICK q : Now' \in Streaming /\ Pending(iter, len, Now', mem', q, a)
    BY <1>2, <2>2, <2>3, RunStep
  <2>5. s = "comm"
    BY <2>1 DEF AtRest, RunJob, Ready, Streams
  <2>6. done \in [Streams -> Nat] /\ fence \in [Streams -> Nat]
        /\ queue \in [Streams -> Seq([job : Jobs, after : Nat])]
    BY <1>2 DEF Now, Streaming
  <2>7. queue'["default"] = <<>> /\ done'["comm"] >= fence'["default"]
    <3>1. queue' = [queue EXCEPT !["comm"] = Tail(@)] /\ done' = [done EXCEPT !["comm"] = @ + 1]
      BY <2>5 DEF RunJob
    <3>2. queue'["default"] = queue["default"] /\ done'["comm"] = done["comm"] + 1
      BY <2>6, <3>1 DEF Streams
    <3>3. done["comm"] \in Nat /\ fence["default"] \in Nat
      BY <2>6 DEF Streams
    <3>4. QED
      BY <1>1, <2>1, <3>2, <3>3 DEF AtRest
  <2>8. AtRest'
    BY <1>1, <2>2, <2>3, <2>4, <2>7 DEF AtRest
  <2>9. QED
    BY <1>1, <1>2, <1>4, <2>4, <2>8 DEF PInv
<1>5. QED
  BY <1>3, <1>4

(* When the tokens are read, what is left in flight is swaps.                *)
LEMMA AtTheEnd ==
  ASSUME PInv, program # <<>>, Head(program).op = "tolist", queue["default"] = <<>>
  PROVE  \E p, a, b, w : /\ Working(p, a, b, w) /\ a.mem = b.mem /\ a.un["default"] \subseteq KvSwaps
                         /\ done["comm"] >= fence["default"] /\ Len(program) = 1
<1>1. Busy /\ Now \in Streaming
  BY DEF PInv
<1>2. PICK p, a, b, w : Working(p, a, b, w)
  BY <1>1 DEF Busy
<1>3. PICK n, ln, m, x, prog : n = iter /\ ln = len /\ m = mem /\ x = Now /\ prog = program
  OBVIOUS
<1>4. /\ Pending(n, ln, x, m, p, a) /\ Safe(n, ln, a, prog, b) /\ Ended(prog) /\ prog # <<>>
      /\ Finished(n, Placed(place), ln, b, w) /\ x \in Streaming
  BY <1>1, <1>2, <1>3 DEF Working, Busy
<1>5. prog \in Seq(Instr) /\ prog[1] = Head(prog)
  BY <1>4 DEF Ended
<1>6. PICK i : i = prog[1]
  OBVIOUS
<1>7. i.op = "tolist"
  BY <1>3, <1>5, <1>6
<1>8. Len(prog) = 1
  <2>1. PICK N \in Nat : N = Len(prog)
    BY <1>5
  <2>2. 1 \in 1 .. Len(prog)
    <3>1. N # 0
      BY <1>4, <1>5, <2>1
    <3>2. QED
      BY <2>1, <3>1
  <2>3. prog[1].op = "tolist" <=> 1 = Len(prog)
    BY <1>4, <2>2 DEF Ended
  <2>4. QED
    BY <1>6, <1>7, <2>3
<1>9. b = Go(n, ln, a, i)
  <2>1. PICK t : /\ t[0] = a /\ t[Len(prog)] = b
                 /\ \A k \in 1 .. Len(prog) : Ok(n, t[k - 1], prog[k]) /\ t[k] = Go(n, ln, t[k - 1], prog[k])
    BY <1>4 DEF Safe
  <2>2. 1 \in 1 .. Len(prog) /\ 1 - 1 = 0
    BY <1>8
  <2>3. QED
    BY <1>6, <1>8, <2>1, <2>2
<1>10. b.mem = a.mem /\ b.un["default"] = a.un["default"]
  BY <1>7, <1>9 DEF Go, Streams, OtherStream, Waits
<1>11. a.fresh /\ a.un["default"] \subseteq KvSwaps
  <2>1. b.fresh => a.fresh
    BY <1>7, <1>9 DEF Go, Streams
  <2>2. b.fresh /\ b.un["default"] \subseteq KvSwaps
    BY <1>4 DEF Finished
  <2>3. QED
    BY <1>10, <2>1, <2>2
<1>12. x.done["comm"] >= x.fence["default"]
  <2>1. SUFFICES ASSUME NEW k \in DOMAIN p, p[k].who = "default"
                 PROVE  FALSE
    BY <1>4, <1>11 DEF Pending
  <2>2. p[k] \in Entries /\ InFlight(n, x, a, p[k])
    BY <1>4 DEF Pending
  <2>3. PICK e \in Entries : e = p[k] /\ e.who = "default"
    BY <2>1, <2>2
  <2>4. e.no \in x.done["default"] + 1 .. x.done["default"] + Len(x.queue["default"])
    BY <2>2, <2>3 DEF InFlight
  <2>5. x.queue["default"] = <<>>
    BY <1>3 DEF Now
  <2>6. Len(x.queue["default"]) = 0
    BY <2>5
  <2>7. x.done["default"] \in Nat
    BY <1>4 DEF Streaming, Streams
  <2>8. e.no \in x.done["default"] + 1 .. x.done["default"]
    BY <2>4, <2>6, <2>7
  <2>9. QED
    BY <2>7, <2>8
<1>13. done["comm"] >= fence["default"] /\ Len(program) = 1
  BY <1>3, <1>8, <1>12 DEF Now
<1>14. QED
  BY <1>2, <1>10, <1>11, <1>13

(* The iteration ends with the KV in place for the next one.                 *)
LEMMA PInvEnd == PInv /\ EndIteration => PInv'
<1> SUFFICES ASSUME PInv, EndIteration PROVE PInv'
  OBVIOUS
<1>1. program # <<>> /\ Head(program).op = "tolist" /\ queue["default"] = <<>>
  BY DEF EndIteration
<1>2. PICK p, a, b, w : /\ Working(p, a, b, w) /\ a.mem = b.mem /\ a.un["default"] \subseteq KvSwaps
                        /\ done["comm"] >= fence["default"] /\ Len(program) = 1
  BY <1>1, AtTheEnd
<1>3. Busy /\ Now \in Streaming /\ Tables(place, len)
  BY <1>1 DEF PInv
<1>4. PICK n, ln, m, x, pl, pl2, ln2 :
        n = iter /\ ln = len /\ m = mem /\ x = Now /\ pl = place /\ pl2 = place' /\ ln2 = len'
  OBVIOUS
<1>5. program' = Tail(program) /\ iter' = n /\ Now' = x /\ mem' = m
  BY <1>4 DEF EndIteration, Now
<1>6. Pending(n, ln, x, m, p, a) /\ Finished(n, Placed(pl), ln, b, w)
  BY <1>2, <1>4 DEF Working
<1>7. \A r \in Reqs : pl2[r] = pl[r] \/ pl2[r] = [dev |-> "done", blk |-> 0]
  BY <1>4 DEF EndIteration
<1>8. \A r \in Reqs : ln2[r] = IF r \in Active(n) THEN ln[r] + 1 ELSE ln[r]
  BY <1>4 DEF EndIteration
<1>9. /\ Fit(n, Placed(pl), ln) /\ Tables(pl, ln)
      /\ \A r \in Placed(pl) : \A l \in Depth : Home(n, r, l) = Old(pl, r, l)
  BY <1>3, <1>4 DEF Busy
<1>10. InPlace(b.mem, pl2, ln2) /\ Tables(pl2, ln2)
  BY ONLY <1>6, <1>7, <1>8, <1>9, EndKv
<1>11. program' = <<>>
  <2>1. program \in Seq(Instr)
    BY <1>3 DEF Busy, Ended
  <2>2. PICK t : t = Tail(program)
    OBVIOUS
  <2>3. t \in Seq(Instr) /\ Len(t) = 0
    BY <1>1, <1>2, <2>1, <2>2
  <2>4. t = <<>>
    BY <2>3
  <2>5. QED
    BY <1>5, <2>2, <2>4
<1>12. PICK m2 : m2 = a.mem
  OBVIOUS
<1>13. Pending(n, ln2, x, m, p, Rest(m2))
  <2>1. x \in Streaming /\ x.queue["default"] = <<>> /\ x.done["comm"] >= x.fence["default"]
    BY <1>1, <1>2, <1>3, <1>4 DEF Now
  <2>2. a.un["default"] \subseteq KvSwaps
    BY <1>2
  <2>3. QED
    BY ONLY <1>6, <1>12, <2>1, <2>2, CarriedOver
<1>14. AtRest'
  <2>1. queue'["default"] = <<>> /\ done'["comm"] >= fence'["default"]
    BY <1>1, <1>2 DEF EndIteration
  <2>2. Pending(iter', len', Now', mem', p, Rest(m2)) /\ InPlace(m2, place', len')
    BY <1>2, <1>4, <1>5, <1>10, <1>12, <1>13
  <2>3. QED
    BY <2>1, <2>2 DEF AtRest
<1>15. QED
  BY <1>3, <1>4, <1>5, <1>10, <1>11, <1>14 DEF PInv

(* The invariant is one.                                                     *)
LEMMA PInvNext == PInv /\ [Next]_vars => PInv'
<1> SUFFICES ASSUME PInv, [Next]_vars PROVE PInv'
  OBVIOUS
<1>1. CASE DoIteration
  BY <1>1, PInvDoIteration
<1>2. CASE Launch
  BY <1>2, PInvLaunch
<1>3. CASE Synchronize
  BY <1>3, PInvSynchronize
<1>4. CASE PagedAttentionCpu
  BY <1>4, PInvCpu
<1>5. CASE EndIteration
  BY <1>5, PInvEnd
<1>6. CASE \E s \in Streams : RunJob(s)
  BY <1>6, PInvRunJob
<1>7. CASE UNCHANGED vars
  <2>1. /\ place' = place /\ len' = len /\ iter' = iter /\ program' = program /\ mem' = mem
        /\ queue' = queue /\ done' = done /\ fence' = fence /\ Now' = Now
    BY <1>7 DEF vars, Now
  <2>2. AtRest => AtRest'
    BY <2>1 DEF AtRest
  <2>3. Busy => Busy'
    <3>1. \A p, a, b, w : Working(p, a, b, w) => Working(p, a, b, w)'
      BY <2>1 DEF Working
    <3>2. QED
      BY <2>1, <3>1 DEF Busy
  <2>4. QED
    BY <2>1, <2>2, <2>3 DEF PInv
<1>8. QED
  BY <1>1, <1>2, <1>3, <1>4, <1>5, <1>6, <1>7 DEF Next

(* It holds always.                                                          *)
LEMMA PInvAlways == Spec => []PInv
  BY PInvInit, PInvNext, PTL DEF Spec

(* What is in flight, whatever the thread is at.                             *)
LEMMA SomePending ==
  ASSUME PInv
  PROVE  Now \in Streaming /\ \E p, a : Pending(iter, len, Now, mem, p, a)
<1>1. CASE program = <<>>
  BY <1>1 DEF PInv, AtRest
<1>2. CASE program # <<>>
  BY <1>2 DEF PInv, Busy, Working
<1>3. QED
  BY <1>1, <1>2

-------------------------------------------------------------------------------
\* What it says of the properties.

\* A stream, or the thread, may do job j.
StreamDoes(s, j) == MayRun(Now, s) /\ j = Head(Now.queue[s]).job
ThreadDoes(j) == program # <<>> /\ Head(program).op = "cpu" /\ j = Head(program).job

(* Who may be doing something.                                               *)
LEMMA DoingIs ==
  ASSUME NEW x \in Doing
  PROVE  \/ x.who \in Streams /\ StreamDoes(x.who, x.job)
         \/ x.who = "thread" /\ ThreadDoes(x.job)
<1>1. CASE x \in {[who |-> s, job |-> Head(queue[s]).job] : s \in {t \in Streams : Ready(t)}}
  <2>1. PICK s \in Streams : Ready(s) /\ x = [who |-> s, job |-> Head(queue[s]).job]
    BY <1>1
  <2>2. x.who = s /\ x.job = Head(queue[s]).job
    BY <2>1
  <2>3. QED
    BY <2>1, <2>2 DEF StreamDoes, MayRun, Now, Ready
<1>2. CASE program # <<>> /\ Head(program).op = "cpu" /\ x = [who |-> "thread", job |-> Head(program).job]
  BY <1>2 DEF ThreadDoes
<1>3. QED
  BY <1>1, <1>2 DEF Doing

(* The jobs that the two streams may run next do not clash.                  *)
LEMMA StreamsApart ==
  ASSUME PInv, NEW s \in Streams, NEW r \in Streams, s # r, NEW j, NEW k,
         StreamDoes(s, j), StreamDoes(r, k)
  PROVE  ~Clash(iter, j, k)
<1>1. Now \in Streaming
  BY DEF PInv
<1>2. PICK p, a : Pending(iter, len, Now, mem, p, a)
  BY SomePending
<1>3. PICK n, ln, m, x : n = iter /\ ln = len /\ m = mem /\ x = Now
  OBVIOUS
<1>4. x \in Streaming /\ Pending(n, ln, x, m, p, a)
  BY <1>1, <1>2, <1>3
<1>5. MayRun(x, s) /\ MayRun(x, r) /\ j = Head(x.queue[s]).job /\ k = Head(x.queue[r]).job
  BY <1>3 DEF StreamDoes
<1>6. \/ s = "default" /\ r = "comm"
      \/ s = "comm" /\ r = "default"
  BY DEF Streams
<1>7. MayRun(x, "default") /\ MayRun(x, "comm")
  BY <1>5, <1>6
<1>8. ~Clash(n, Head(x.queue["default"]).job, Head(x.queue["comm"]).job)
  BY ONLY <1>4, <1>7, HeadsApart
<1>9. ~Clash(n, j, k)
  <2>1. CASE s = "default" /\ r = "comm"
    BY <1>5, <1>8, <2>1
  <2>2. CASE s = "comm" /\ r = "default"
    <3>1. ~Clash(n, k, j)
      BY <1>5, <1>8, <2>2
    <3>2. QED
      BY <3>1, ClashBack
  <2>3. QED
    BY <1>6, <2>1, <2>2
<1>10. QED
  BY <1>3, <1>9

(* The attention on the CPU does not clash with what a stream may run next.  *)
LEMMA ThreadIsApart ==
  ASSUME PInv, NEW s \in Streams, NEW j, NEW k, ThreadDoes(j), StreamDoes(s, k)
  PROVE  ~Clash(iter, j, k)
<1>1. Busy /\ Now \in Streaming
  BY DEF PInv, ThreadDoes
<1>2. PICK p, a, b, w : Working(p, a, b, w)
  BY <1>1 DEF Busy
<1>3. PICK n, ln, m, x, prog : n = iter /\ ln = len /\ m = mem /\ x = Now /\ prog = program
  OBVIOUS
<1>4. Pending(n, ln, x, m, p, a) /\ Safe(n, ln, a, prog, b) /\ x \in Streaming
  BY <1>1, <1>2, <1>3 DEF Working
<1>5. prog \in Seq(Instr) /\ prog # <<>>
  BY <1>1, <1>3 DEF Busy, Ended, ThreadDoes
<1>6. Ok(n, a, prog[1])
  BY ONLY <1>4, <1>5, SafeFirst
<1>7. PICK i \in Instr : i = prog[1]
  BY <1>5
<1>8. i = Head(prog) /\ Ok(n, a, i)
  BY <1>5, <1>6, <1>7
<1>9. i.op = "cpu" /\ j = i.job
  BY <1>3, <1>8 DEF ThreadDoes
<1>10. MayRun(x, s) /\ k = Head(x.queue[s]).job
  BY <1>3 DEF StreamDoes
<1>11. i \in Instr /\ i.op = "cpu"
  BY <1>7, <1>9
<1>12. ~Clash(n, i.job, Head(x.queue[s]).job)
  <2>1. s \in Streams
    OBVIOUS
  <2>2. QED
    BY ONLY <1>4, <2>1, <1>10, <1>11, <1>8, ThreadApart
<1>13. ~Clash(n, j, k)
  BY <1>9, <1>10, <1>12
<1>14. n = iter
  BY <1>3
<1>15. QED
  BY ONLY <1>13, <1>14

(* No two of the streams and the thread meet on a cell that one writes.      *)
LEMMA RaceFreeHolds == PInv => RaceFree
<1> SUFFICES ASSUME PInv, NEW x \in Doing, NEW y \in Doing, x.who # y.who
             PROVE  Writes(iter, x.job) \intersect (Reads(iter, y.job) \union Writes(iter, y.job)) = {}
  BY DEF RaceFree
<1>1. PICK s, r, j, k : s = x.who /\ r = y.who /\ j = x.job /\ k = y.job
  OBVIOUS
<1>2. \/ s \in Streams /\ StreamDoes(s, j)
      \/ s = "thread" /\ ThreadDoes(j)
  BY <1>1, DoingIs
<1>3. \/ r \in Streams /\ StreamDoes(r, k)
      \/ r = "thread" /\ ThreadDoes(k)
  BY <1>1, DoingIs
<1>4. s # r
  BY <1>1
<1>5. ~Clash(iter, j, k)
  <2>1. CASE s \in Streams /\ StreamDoes(s, j) /\ r \in Streams /\ StreamDoes(r, k)
    BY <1>4, <2>1, StreamsApart
  <2>2. CASE ThreadDoes(j) /\ r \in Streams /\ StreamDoes(r, k)
    <3>1. ThreadDoes(j) /\ r \in Streams /\ StreamDoes(r, k)
      BY <2>2
    <3>2. QED
      BY ONLY PInv, <3>1, ThreadIsApart
  <2>3. CASE s \in Streams /\ StreamDoes(s, j) /\ ThreadDoes(k)
    <3>1. s \in Streams /\ StreamDoes(s, j) /\ ThreadDoes(k)
      BY <2>3
    <3>2. ~Clash(iter, k, j)
      BY ONLY PInv, <3>1, ThreadIsApart
    <3>3. QED
      BY <3>2, ClashBack
  <2>4. QED
    BY <1>2, <1>3, <1>4, <2>1, <2>2, <2>3
<1>6. Writes(iter, j) \intersect (Reads(iter, k) \union Writes(iter, k)) = {}
  BY <1>5 DEF Clash
<1>7. QED
  BY <1>1, <1>6

(* The swaps that may be left in flight when the tokens are read do not      *)
(* touch the outputs.                                                        *)
LEMMA OutputsRightHolds == PInv => OutputsRight
<1> SUFFICES ASSUME PInv, program # <<>>, Head(program).op = "tolist", queue["default"] = <<>>,
                    NEW d \in DOMAIN iter.batches
             PROVE  mem[<<"emb", d>>] = <<Layers>>
  BY DEF OutputsRight
<1>1. PICK p, a, b, w : /\ Working(p, a, b, w) /\ a.mem = b.mem /\ a.un["default"] \subseteq KvSwaps
                        /\ done["comm"] >= fence["default"]
  BY AtTheEnd
<1>2. Busy /\ Now \in Streaming
  BY DEF PInv
<1>3. PICK n, ln, m, x, m2, S : /\ n = iter /\ ln = len /\ m = mem /\ x = Now /\ m2 = a.mem
                                /\ S = Placed(place)
  OBVIOUS
<1>4. Pending(n, ln, x, m, p, a) /\ Finished(n, S, ln, b, w) /\ x \in Streaming /\ Fit(n, S, ln)
  BY <1>1, <1>2, <1>3 DEF Working, Busy
<1>5. x.queue["default"] = <<>> /\ x.done["comm"] >= x.fence["default"]
  BY <1>1, <1>3 DEF Now
<1>6. \A k \in DOMAIN p : p[k].who = "comm" /\ p[k].job \in KvSwaps
  <2>1. a.un["default"] \subseteq KvSwaps
    BY <1>1
  <2>2. QED
    BY ONLY <1>4, <1>5, <2>1, OnlySwaps
<1>7. p \in Seq(Entries) /\ Reaches(n, ln, m, p, m2)
  BY <1>3, <1>4 DEF Pending
<1>8. d \in Bs(n) /\ d \in {1, 2}
  <2>1. d \in Bs(n)
    BY <1>3 DEF Bs
  <2>2. QED
    BY <1>4, <2>1, BatchFacts
<1>9. PICK c : c = <<"emb", d>>
  OBVIOUS
<1>10. c \in Bufs
  BY <1>8, <1>9 DEF Bufs
<1>11. m[c] = m2[c]
  <2>1. \A k \in DOMAIN p : p[k].job \in KvSwaps
    BY <1>6
  <2>2. QED
    BY ONLY <1>7, <1>10, <2>1, SwapsKeepBufs
<1>12. b.mem[c] = <<Layers>>
  BY <1>4, <1>8, <1>9 DEF Finished, Through, Holds
<1>13. QED
  BY <1>1, <1>3, <1>9, <1>11, <1>12

(* With nothing in flight the memory is the one the invariant speaks of.     *)
LEMMA KvInPlaceHolds == PInv => KvInPlace
<1> SUFFICES ASSUME PInv, program = <<>>, \A s \in Streams : queue[s] = <<>>,
                    NEW r \in Reqs, NEW l \in 0 .. Layers - 1
             PROVE  /\ place[r].dev = "gpu" => mem[<<"k_cache", l, place[r].blk>>] = <<r, len[r]>>
                    /\ place[r].dev = "cpu" => mem[<<"k_swap", l, place[r].blk>>] = <<r, len[r]>>
  BY DEF KvInPlace
<1>1. Now \in Streaming /\ AtRest
  BY DEF PInv
<1>2. PICK p, m2 : Pending(iter, len, Now, mem, p, Rest(m2)) /\ InPlace(m2, place, len)
  BY <1>1 DEF AtRest
<1>3. PICK n, ln, m, x, a : n = iter /\ ln = len /\ m = mem /\ x = Now /\ a = Rest(m2)
  OBVIOUS
<1>4. Pending(n, ln, x, m, p, a) /\ x \in Streaming
  BY <1>1, <1>2, <1>3
<1>5. \A s \in Streams : x.queue[s] = <<>>
  BY <1>3 DEF Now
<1>6. a.mem = m
  BY ONLY <1>4, <1>5, NothingPending
<1>7. m2 = mem
  BY <1>3, <1>6 DEF Rest
<1>8. CASE place[r].dev = "gpu"
  <2>1. r \in Placed(place) /\ l \in Depth /\ Old(place, r, l) = <<"k_cache", l, place[r].blk>>
    BY <1>8 DEF Placed, Depth, Old
  <2>2. QED
    BY <1>2, <1>7, <1>8, <2>1 DEF InPlace
<1>9. CASE place[r].dev = "cpu"
  <2>1. r \in Placed(place) /\ l \in Depth /\ Old(place, r, l) = <<"k_swap", l, place[r].blk>>
    BY <1>9 DEF Placed, Depth, Old
  <2>2. QED
    BY <1>2, <1>7, <1>9, <2>1 DEF InPlace
<1>10. QED
  BY <1>8, <1>9

(* For any requests, blocks and layers, with and without the extra layer:    *)
(* no two of the streams and the thread ever may meet on a cell that one of  *)
(* them writes.  The wait_stream calls and the event suffice.                *)
THEOREM PipelineRaceFree == Spec => []RaceFree
  BY PInvAlways, RaceFreeHolds, PTL

(* Whenever post_layer reads the tokens, each batch's embedding is that of   *)
(* the last layer, computed from its own attention, the CPU's part included. *)
THEOREM PipelineOutputsRight == Spec => []OutputsRight
  BY PInvAlways, OutputsRightHolds, PTL

(* Whenever nothing is in flight between two iterations, all KV of every     *)
(* request is where its block table says, in every layer.                    *)
THEOREM PipelineKvInPlace == Spec => []KvInPlace
  BY PInvAlways, KvInPlaceHolds, PTL
=============================================================================
