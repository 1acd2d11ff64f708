-------------------------------- MODULE RowPool --------------------------------
(***************************************************************************)
(* DirectKVRequestPool: a fixed set of rows of CPU-pinned KV memory, a     *)
(* last-in first-out free list of rows and the map from request ids to     *)
(* rows.  One layer's tensors stand for all of them: alloc zeroes the row  *)
(* in every layer and free touches none.                                   *)
(*                                                                         *)
(* A KV entry is abstracted to the token it was computed from, or Zero;    *)
(* K and V are always written together and are one entry here.             *)
(***************************************************************************)
EXTENDS Integers, Sequences

CONSTANTS
  Rids,     \* request ids the scheduler hands out (rows of req_to_token)
  MaxReqs,  \* max_reqs: number of rows of the pool
  Tile,     \* kernel tile, 64 in the code (_ALIGN, _TILE, kBlockN)
  MaxSeq,   \* max_seqlen_pad: positions of a row, a whole number of tiles
  NoRow,    \* "not in _req_to_row"
  Zero      \* content of a zeroed position

Rows == 0 .. MaxReqs - 1
Pos  == 0 .. MaxSeq - 1

ASSUME RowPoolAssumption ==
  /\ MaxReqs \in Nat \ {0}
  /\ Tile \in Nat \ {0}
  /\ MaxSeq \in Nat \ {0}
  /\ MaxSeq % Tile = 0
  /\ NoRow \notin Rows

VARIABLES
  free,    \* _free: list of free rows, popped and appended at its end
  rowOf,   \* _req_to_row: the row of an id, NoRow when it has none
  kv       \* k_pool / v_pool: content of every position of every row

poolVars == <<free, rowOf, kv>>

\* torch.zeros, zero_()
ZeroRow == [p \in Pos |-> Zero]

\* A plausible slip: one row too many on the free list.
PoolInitOneMore ==
  /\ free = [i \in 1 .. MaxReqs + 1 |-> i - 1]
  /\ rowOf = [id \in Rids |-> NoRow]
  /\ kv = [row \in Rows |-> ZeroRow]

\* __init__: list(range(max_reqs)), no id mapped, every row zeroed.
PoolInit ==
  /\ free = [i \in 1 .. MaxReqs |-> i - 1]
  /\ rowOf = [id \in Rids |-> NoRow]
  /\ kv = [row \in Rows |-> ZeroRow]

Mapped == {id \in Rids : rowOf[id] # NoRow}

\* Plausible slips of alloc and free, used by the mutation checks.
AllocNoZero(id) ==
  LET row == free[Len(free)] IN
  /\ rowOf[id] = NoRow /\ free # <<>>
  /\ free' = SubSeq(free, 1, Len(free) - 1)
  /\ rowOf' = [rowOf EXCEPT ![id] = row]
  /\ UNCHANGED kv

AllocNoPop(id) ==
  LET row == free[Len(free)] IN
  /\ rowOf[id] = NoRow /\ free # <<>>
  /\ free' = free
  /\ rowOf' = [rowOf EXCEPT ![id] = row]
  /\ kv' = [kv EXCEPT ![row] = ZeroRow]

\* alloc, row available: pop the last free row, map the id, zero the row.
Alloc(id) ==
  LET row == free[Len(free)] IN
  /\ rowOf[id] = NoRow
  /\ free # <<>>
  /\ free' = SubSeq(free, 1, Len(free) - 1)
  /\ rowOf' = [rowOf EXCEPT ![id] = row]
  /\ kv' = [kv EXCEPT ![row] = ZeroRow]

\* alloc, no row left: it raises RuntimeError and has changed nothing.
OutOfRows(id) == rowOf[id] = NoRow /\ free = <<>>

\* free: unmap the id and append its row; an unmapped id is a no-op.
Free(id) ==
  /\ rowOf[id] # NoRow
  /\ free' = Append(free, rowOf[id])
  /\ rowOf' = [rowOf EXCEPT ![id] = NoRow]
  /\ UNCHANGED kv

\* Writing contents c at positions first .. first + n - 1 of a row, through
\* the view get_kv returns.
Store(row, first, n, c) ==
  kv' = [kv EXCEPT ![row] =
           [p \in Pos |-> IF p \in first .. first + n - 1 THEN c[p] ELSE @[p]]]

--------------------------------------------------------------------------------

FreeRows == {free[i] : i \in 1 .. Len(free)}

(* Every row is either free exactly once or leased to exactly one id: no   *)
(* row leaks from the pool, none is handed out twice.  alloc and free keep *)
(* this only together with the caller's own set of active ids.             *)
RowOwnership ==
  /\ \A i, j \in 1 .. Len(free) : free[i] = free[j] => i = j
  /\ \A id \in Mapped : rowOf[id] \notin FreeRows
  /\ \A id1, id2 \in Mapped : rowOf[id1] = rowOf[id2] => id1 = id2
  /\ Rows \subseteq FreeRows \union {rowOf[id] : id \in Mapped}
================================================================================
