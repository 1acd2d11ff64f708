---------------------------- MODULE FlexGenTensors ----------------------------
(***************************************************************************)
(* FlexGen's tensors: what allocate, copy and general_copy do with tensors *)
(* on one device, split over GPU, CPU and disk, or compressed in groups,   *)
(* and what a layer's KV cache holds after each token when it lives in     *)
(* such a tensor.  FlexGenStage has the order of these operations; here    *)
(* each is a function from tensors to tensors.                             *)
(*                                                                         *)
(* A tensor is a function from <<row, column>>: rows are positions of the  *)
(* sequence, columns are batch * heads.  An index is a pair of half-open   *)
(* slices.                                                                 *)
(***************************************************************************)
EXTENDS Integers, Sequences

Slice(start, stop) == <<start, stop>>
In(x, slice) == slice[1] <= x /\ x < slice[2]
Index(rows, cols) == [rows |-> rows, cols |-> cols]
Cells(rows, cols) == (0 .. rows - 1) \X (0 .. cols - 1)
Greater(a, b) == IF a > b THEN a ELSE b
Smaller(a, b) == IF a < b THEN a ELSE b

\* What memory holds that was allocated and never written, and what a group
\* decompresses to with the scale of another one.
Empty == <<"empty", 0, 0>>
Garbage == <<"garbage", 0, 0>>

--------------------------------------------------------------------------------
(* general_copy                                                            *)

\* dst[di] = src[si], both on one device
CopyPlain(dst, di, src, si) ==
  [x \in DOMAIN dst |->
     IF In(x[1], di.rows) /\ In(x[2], di.cols)
     THEN src[<<x[1] - di.rows[1] + si.rows[1], x[2] - di.cols[1] + si.cols[1]>>]
     ELSE dst[x]]

\* The part of an index that meets the columns from start to stop.
CutIndices(idx, start, stop, base) ==
  [idx EXCEPT !.cols = Slice(Greater(@[1], start) - base, Smaller(@[2], stop) - base)]

\* A mixed tensor: a part per device, and the columns where parts begin.
Devices == 1 .. 3   \* gpu, cpu, disk
SegPoints(lens) == <<0, lens[1], lens[1] + lens[2], lens[1] + lens[2] + lens[3]>>

CopyToMixed(dst, di, src, si) ==
  [dst EXCEPT !.part = [i \in Devices |->
     LET a == dst.seg[i]
         b == dst.seg[i + 1] IN
     IF a = b THEN dst.part[i]
     ELSE CopyPlain(dst.part[i], CutIndices(di, a, b, a), src, CutIndices(si, a, b, 0))]]

\* One recursive call a device, skipping the parts of no columns.
CopyFromPart(dst, di, src, si, i) ==
  LET a == src.seg[i]
      b == src.seg[i + 1] IN
  IF a = b THEN dst
  ELSE CopyPlain(dst, CutIndices(di, a, b, 0), src.part[i], CutIndices(si, a, b, a))

CopyFromMixed(dst, di, src, si) ==
  CopyFromPart(CopyFromPart(CopyFromPart(dst, di, src, si, 1), di, src, si, 2), di, src, si, 3)

\* TorchMixedDevice.allocate
AllocateMixed(rows, lens) ==
  [seg  |-> SegPoints(lens),
   part |-> [i \in Devices |-> [x \in Cells(rows, lens[i]) |-> Empty]]]

\* What a mixed tensor holds at <<row, column>>.
PartOf(t, c) == CHOOSE i \in Devices : t.seg[i] <= c /\ c < t.seg[i + 1]
AtMixed(t, x) == t.part[PartOf(t, x[2])][<<x[1], x[2] - t.seg[PartOf(t, x[2])]>>]

--------------------------------------------------------------------------------
(* Where a cache and the weights go                                        *)

\* TorchMixedDevice.init_cache_one_gpu_batch: whole heads of a batch only.
SegLengths(width, heads, percent) ==
  LET Share(p) == (((width * p) \div 100) \div heads) * heads
      gpu == Share(percent.gpu)
      cpu == IF percent.disk = 0 THEN width - gpu ELSE Share(percent.cpu)
  IN  <<gpu, cpu, width - gpu - cpu>>

\* init_weight_list and get_choice: the middle of a weight decides its home.
WeightHome(sizes, percent, i) ==
  LET cumsum[j \in DOMAIN sizes] == sizes[j] + IF j = 1 THEN 0 ELSE cumsum[j - 1]
      total == cumsum[Len(sizes)]
      Before(p) == 100 * (2 * cumsum[i] - sizes[i]) < 2 * total * p
  IN  CASE Before(percent.disk) -> "disk"
        [] ~Before(percent.disk) /\ Before(percent.disk + percent.cpu) -> "cpu"
        [] OTHER -> "gpu"

--------------------------------------------------------------------------------
(* Group-wise compression of a weight, groups along the rows (group_dim 0). *)
(* Two rows share a byte, a group shares a scale.  What a row's half byte  *)
(* means depends on the scale it was made with: `tag` tells them apart.    *)
(* A cache is grouped along the third dimension, which every copy takes    *)
(* whole: it behaves as an uncompressed one on one device.                 *)

NumGroups(rows, g) == (rows + g - 1) \div g

\* TorchCompressedDevice.allocate rounds up to whole groups.
AllocateCompressed(rows, g) ==
  [rows  |-> rows, group |-> g,
   data  |-> [r \in 0 .. NumGroups(rows, g) * g - 1 |-> [val |-> Empty, tag |-> 0]],
   scale |-> [k \in 0 .. NumGroups(rows, g) - 1 |-> 0]]

\* compress: pads with zeros to whole groups, quantizes, packs.
Compress(vals, rows, g, tag) ==
  [rows  |-> rows, group |-> g,
   data  |-> [r \in 0 .. NumGroups(rows, g) * g - 1 |->
                [val |-> IF r < rows THEN vals[r] ELSE Empty, tag |-> tag]],
   scale |-> [k \in 0 .. NumGroups(rows, g) - 1 |-> tag]]

\* decompress: unpacks, scales, drops the padding.
Decompress(t) ==
  [r \in 0 .. t.rows - 1 |->
     IF t.data[r].tag = t.scale[r \div t.group] THEN t.data[r].val ELSE Garbage]

\* get_compressed_indices, in bytes of two rows and in groups
DataSlice(slice) == Slice(slice[1] \div 2, (slice[2] + 1) \div 2)
ScaleSlice(slice, g) == Slice(slice[1] \div g, (slice[2] + g - 1) \div g)

\* general_copy_compressed
CopyCompressed(dst, ds, src, ss) ==
  LET dd == DataSlice(ds)
      sd == DataSlice(ss)
      dk == ScaleSlice(ds, dst.group)
      sk == ScaleSlice(ss, src.group) IN
  [dst EXCEPT
     !.data = [r \in DOMAIN dst.data |->
                 IF In(r \div 2, dd) THEN src.data[r + 2 * (sd[1] - dd[1])] ELSE dst.data[r]],
     !.scale = [k \in DOMAIN dst.scale |->
                  IF In(k, dk) THEN src.scale[k - dk[1] + sk[1]] ELSE dst.scale[k]]]

\* load_from_np compresses the file on the CPU and copies it home; smart_copy
\* copies it into a tensor of the GPU.  None stands for all rows.
LoadedWeight(vals, rows, g) ==
  LET all  == Slice(0, rows)
      home == CopyCompressed(AllocateCompressed(rows, g), all, Compress(vals, rows, g, 1), all)
  IN  CopyCompressed(AllocateCompressed(rows, g), all, home, all)

--------------------------------------------------------------------------------
(* A layer's cache through a generation.  A policy is a record: prompt,    *)
(* gen (tokens to generate), batch, heads, percent, cpuCompute.            *)

Width(p)    == p.batch * p.heads
Capacity(p) == p.prompt + p.gen - 1
Lens(p)     == SegLengths(Width(p), p.heads, p.percent)

\* k of the tokens at the positions from `first` on, and of nothing else
Fresh(p, first, rows) == [x \in Cells(rows, Width(p)) |-> <<first + x[1], x[2]>>]

\* store_cache: the prompt's rows after prefill, the newest row after a decode
HomeAfter(p, home, i) ==
  LET rows == IF i = 0 THEN p.prompt ELSE 1
      pos  == p.prompt + i
      all  == Index(Slice(0, rows), Slice(0, Width(p)))
      idx  == IF i = 0 THEN all ELSE Index(Slice(pos - rows, pos), Slice(0, Width(p))) IN
  IF i = p.gen - 1 THEN home
  ELSE CopyToMixed(home, idx, Fresh(p, IF i = 0 THEN 0 ELSE pos - 1, rows), all)

\* The cache before token i is computed.
HomeBefore(p, i) ==
  LET home[n \in 0 .. i] ==
        IF n = 0 THEN AllocateMixed(Capacity(p), Lens(p)) ELSE HomeAfter(p, home[n - 1], n - 1)
  IN  home[i]

Blank(rows, cols) == [x \in Cells(rows, cols) |-> Empty]

\* Direct copy: a new tensor of the rows so far, the one to come included.
LoadDirect(p, home, i) ==
  LET idx == Index(Slice(0, p.prompt + i), Slice(0, Width(p))) IN
  CopyFromMixed(Blank(p.prompt + i, Width(p)), idx, home, idx)

\* To the CPU workspace, from the columns `first` on.
LoadWorkspace(p, home, i, first) ==
  LET idx == Index(Slice(0, p.prompt + i - 1), Slice(first, Width(p))) IN
  CopyFromMixed(Blank(Capacity(p), Width(p)), idx, home, idx)

WithNewRow(p, t, i) ==
  [x \in DOMAIN t |-> IF x[1] = p.prompt + i - 1 THEN <<x[1], x[2]>> ELSE t[x]]

\* load_cache's paths and what mha_gen and _mixed_device_attention attend to
Attended(p, i) ==
  LET home == HomeBefore(p, i)
      seg  == home.seg[2]                      \* columns on the GPU
      gpu  == WithNewRow(p, home.part[1], i)
      cpu  == WithNewRow(p, LoadWorkspace(p, home, i, seg), i) IN
  CASE ~p.cpuCompute -> WithNewRow(p, LoadDirect(p, home, i), i)
    [] p.cpuCompute /\ (seg = 0 \/ seg = Width(p)) ->
         WithNewRow(p, LoadWorkspace(p, home, i, 0), i)
    [] OTHER ->
         [x \in Cells(Capacity(p), Width(p)) |->
            IF x[2] < seg THEN gpu[x] ELSE cpu[x]]

--------------------------------------------------------------------------------
(* Reference definitions                                                   *)

\* dst[idx] = src[idx] in numpy's meaning, at <<row, column>>
Assigned(old, idx, new, x) ==
  IF In(x[1], idx.rows) /\ In(x[2], idx.cols) THEN new[x] ELSE old

(* Attention of token i sees, in every column, the entry of every position  *)
(* up to its own, wherever the cache's columns live.                        *)
SeesEveryPosition(p, i) ==
  \A x \in Cells(p.prompt + i, Width(p)) : Attended(p, i)[x] = <<x[1], x[2]>>

(* A compressed weight reads back as it was on disk, padding aside.         *)
ReadsBack(vals, rows, g) ==
  Decompress(LoadedWeight(vals, rows, g)) = [r \in 0 .. rows - 1 |-> vals[r]]
===============================================================================
