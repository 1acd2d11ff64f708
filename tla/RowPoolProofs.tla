----------------------------- MODULE RowPoolProofs -----------------------------
(***************************************************************************)
(* What alloc and free do to the pool, for every size of it: they keep its *)
(* type and the ownership of rows.  Used by DirectKVProofs.                *)
(***************************************************************************)
EXTENDS RowPool, SequenceTheorems, TLAPS

\* The type of the pool's bookkeeping.
BooksOK ==
  /\ free \in Seq(Rows)
  /\ rowOf \in [Rids -> Rows \union {NoRow}]

(* The row pop() returns, and the list it leaves behind.                   *)
LEMMA PopLast ==
  ASSUME BooksOK, free # <<>>
  PROVE  /\ Len(free) \in Nat \ {0}
         /\ free[Len(free)] \in Rows
         /\ SubSeq(free, 1, Len(free) - 1) \in Seq(Rows)
         /\ Len(SubSeq(free, 1, Len(free) - 1)) = Len(free) - 1
         /\ \A i \in 1 .. Len(free) - 1 : SubSeq(free, 1, Len(free) - 1)[i] = free[i]
<1>1. /\ Len(free) \in Nat
      /\ free \in [1 .. Len(free) -> Rows]
  BY LenProperties DEF BooksOK
<1>2. Len(free) \in Nat \ {0}
  BY EmptySeq DEF BooksOK
<1>3. \A i \in 1 .. Len(free) - 1 : free[i] \in Rows
  BY <1>1
<1>4. /\ SubSeq(free, 1, Len(free) - 1) \in Seq(Rows)
      /\ Len(SubSeq(free, 1, Len(free) - 1)) =
           IF 1 <= Len(free) - 1 THEN Len(free) - 1 - 1 + 1 ELSE 0
      /\ \A i \in 1 .. Len(free) - 1 - 1 + 1 :
           SubSeq(free, 1, Len(free) - 1)[i] = free[1 + i - 1]
  <2>1. 1 \in Int /\ Len(free) - 1 \in Int
    BY <1>1
  <2> HIDE DEF BooksOK
  <2>2. QED
    BY <1>3, <2>1, SubSeqProperties
<1>5. QED
  BY <1>1, <1>2, <1>4

(* alloc pops a free row for an id that had none: the row was nobody's.    *)
LEMMA AllocKeepsOwnership ==
  ASSUME BooksOK, RowOwnership, RowPoolAssumption, NEW id \in Rids, Alloc(id)
  PROVE  BooksOK' /\ RowOwnership'
<1> DEFINE row == free[Len(free)]
<1>1. /\ rowOf[id] = NoRow
      /\ free # <<>>
      /\ free' = SubSeq(free, 1, Len(free) - 1)
      /\ rowOf' = [rowOf EXCEPT ![id] = row]
  BY DEF Alloc
<1>2. /\ Len(free) \in Nat \ {0}
      /\ row \in Rows
      /\ free' \in Seq(Rows)
      /\ Len(free') = Len(free) - 1
      /\ \A i \in 1 .. Len(free) - 1 : free'[i] = free[i]
  BY <1>1, PopLast
<1>3. row # NoRow
  BY <1>2 DEF RowPoolAssumption
<1>4. BooksOK'
  BY <1>1, <1>2 DEF BooksOK
<1>5. /\ Mapped' = Mapped \union {id}
      /\ id \notin Mapped
      /\ \A i \in Mapped : rowOf'[i] = rowOf[i]
      /\ rowOf'[id] = row
  BY <1>1, <1>3 DEF Mapped, BooksOK
<1>6. row \in FreeRows
  BY <1>2 DEF FreeRows
<1>7. FreeRows = FreeRows' \union {row}
  BY <1>2 DEF FreeRows
<1>8. row \notin FreeRows'
  BY <1>2 DEF FreeRows, RowOwnership
<1>9. \A i, j \in 1 .. Len(free') : free'[i] = free'[j] => i = j
  BY <1>2 DEF RowOwnership
<1>10. \A i \in Mapped' : rowOf'[i] \notin FreeRows'
  BY <1>5, <1>7, <1>8 DEF RowOwnership
<1>11. \A i1, i2 \in Mapped' : rowOf'[i1] = rowOf'[i2] => i1 = i2
  BY <1>5, <1>6 DEF RowOwnership
<1>12. Rows \subseteq FreeRows' \union {rowOf'[i] : i \in Mapped'}
  BY <1>5, <1>7 DEF RowOwnership
<1>13. QED
  BY <1>4, <1>9, <1>10, <1>11, <1>12 DEF RowOwnership, Rows

(* free appends the row of an id that had one and forgets the id.          *)
LEMMA FreeKeepsOwnership ==
  ASSUME BooksOK, RowOwnership, RowPoolAssumption, NEW id \in Rids, Free(id)
  PROVE  BooksOK' /\ RowOwnership'
<1> DEFINE row == rowOf[id]
<1>1. /\ row # NoRow
      /\ free' = Append(free, row)
      /\ rowOf' = [rowOf EXCEPT ![id] = NoRow]
  BY DEF Free
<1>2. row \in Rows
  BY <1>1 DEF BooksOK
<1>3. /\ Len(free) \in Nat
      /\ free' \in Seq(Rows)
      /\ Len(free') = Len(free) + 1
      /\ \A i \in 1 .. Len(free) : free'[i] = free[i]
      /\ free'[Len(free) + 1] = row
  BY <1>1, <1>2, AppendProperties, LenProperties DEF BooksOK
<1>4. BooksOK'
  BY <1>1, <1>3 DEF BooksOK
<1>5. /\ Mapped' = Mapped \ {id}
      /\ id \in Mapped
      /\ \A i \in Mapped' : rowOf'[i] = rowOf[i]
  BY <1>1 DEF Mapped, BooksOK
<1>6. FreeRows' = FreeRows \union {row}
  <2>1. 1 .. Len(free') = 1 .. Len(free) \union {Len(free) + 1}
    BY <1>3
  <2>2. QED
    BY <1>3, <2>1 DEF FreeRows
<1>7. row \notin FreeRows
  BY <1>5 DEF RowOwnership
<1>8. \A i, j \in 1 .. Len(free') : free'[i] = free'[j] => i = j
  BY <1>3, <1>7 DEF RowOwnership, FreeRows
<1>9. \A i \in Mapped' : rowOf'[i] \notin FreeRows'
  BY <1>5, <1>6 DEF RowOwnership
<1>10. \A i1, i2 \in Mapped' : rowOf'[i1] = rowOf'[i2] => i1 = i2
  BY <1>5 DEF RowOwnership
<1>11. Rows \subseteq FreeRows' \union {rowOf'[i] : i \in Mapped'}
  BY <1>5, <1>6 DEF RowOwnership
<1>12. QED
  BY <1>4, <1>8, <1>9, <1>10, <1>11 DEF RowOwnership, Rows

(* The pool starts with every row free, once.                              *)
LEMMA PoolInitOwnership ==
  ASSUME PoolInit, RowPoolAssumption
  PROVE  BooksOK /\ RowOwnership
<1>1. /\ Len(free) = MaxReqs
      /\ free \in Seq(Rows)
      /\ \A i \in 1 .. MaxReqs : free[i] = i - 1
  <2>1. MaxReqs \in Nat \ {0}
    BY DEF RowPoolAssumption
  <2>2. \A i \in 1 .. MaxReqs : i - 1 \in Rows
    BY <2>1 DEF Rows
  <2>3. free \in [1 .. MaxReqs -> Rows]
    BY <2>2 DEF PoolInit
  <2>4. QED
    BY <2>1, <2>3 DEF PoolInit
<1>2. BooksOK
  BY <1>1 DEF BooksOK, PoolInit
<1>3. Mapped = {}
  BY DEF Mapped, PoolInit
<1>4. FreeRows = Rows
  <2>1. MaxReqs \in Nat \ {0}
    BY DEF RowPoolAssumption
  <2>2. ASSUME NEW row \in Rows
        PROVE  row \in FreeRows
    <3>1. row + 1 \in 1 .. MaxReqs /\ (row + 1) - 1 = row
      BY <2>1 DEF Rows
    <3>2. free[row + 1] = row
      BY <1>1, <3>1
    <3>3. QED
      BY <1>1, <3>1, <3>2 DEF FreeRows
  <2>3. FreeRows \subseteq Rows
    BY <1>1, <2>1 DEF FreeRows, Rows
  <2>4. QED
    BY <2>2, <2>3
<1>5. QED
  BY <1>1, <1>2, <1>3, <1>4 DEF RowOwnership, RowPoolAssumption
================================================================================
