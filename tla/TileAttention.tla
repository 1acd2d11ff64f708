----------------------------- MODULE TileAttention -----------------------------
(***************************************************************************)
(* What one thread block of the fused kernel (src/csrc/directKV_kernel.cuh)*)
(* computes, without its pipeline: the KV tiles are taken in order, each   *)
(* is merged into every Q tile in turn, and each new tile is saved to host *)
(* memory before the next tile is begun.                                   *)
(***************************************************************************)
EXTENDS Integers, Sequences

CONSTANTS
  Past,    \* KV tiles the host memory already holds
  New,     \* KV tiles projected by this launch
  QTiles   \* Q tiles, over all query heads of the KV head

Tiles == 0 .. Past + New - 1
Qs    == 0 .. QTiles - 1
Parts == {"k", "v"}
NoTile == -1   \* content that is no tile's

VARIABLES
  out,     \* the tiles merged into the running output of each Q tile
  host     \* the tile found at each tile's place in host memory, K and V

AttentionInit ==
  /\ out = [q \in Qs |-> <<>>]
  /\ host = [part \in Parts |-> [n \in Tiles |-> IF n < Past THEN n ELSE NoTile]]

MergeNext(q) ==
  /\ Len(out[q]) \in Tiles
  /\ \A q1 \in Qs : Len(out[q1]) = IF q1 < q THEN Len(out[q]) + 1 ELSE Len(out[q])
  /\ out' = [out EXCEPT ![q] = Append(@, Len(@))]
  /\ UNCHANGED host

Save(part, n) ==
  /\ n >= Past /\ host[part][n] = NoTile
  /\ \A q \in Qs : Len(out[q]) \in {n, n + 1}
  /\ host' = [host EXCEPT ![part][n] = n]
  /\ UNCHANGED out

AttentionNext ==
  \/ \E q \in Qs : MergeNext(q)
  \/ \E part \in Parts, n \in Tiles : Save(part, n)

AttentionSpec == AttentionInit /\ [][AttentionNext]_<<out, host>>
================================================================================
