------------------------------ MODULE TokenPool ------------------------------
(* DirectKVTokenToKVPool: the pinned pool that stands in for SGLang's own     *)
(* pool of token slots.  A pool has, for each layer from start_layer to       *)
(* end_layer, a buffer of keys and one of values over the slots 0 .. size;    *)
(* slot 0 is the one SGLang pads with.  Its copies block, so that each        *)
(* operation is one function of the pool.                                     *)
EXTENDS Integers, Sequences, SequencesExt

Dtypes == {"float16", "bfloat16"}
ConstructorRaises(dtype) == dtype \notin Dtypes

\* _create_buffers
NumLayers(pool) == pool.endLayer - pool.startLayer + 1
CreateBuffers(startLayer, endLayer, size, zero) ==
  LET buffers == [l \in 1 .. endLayer - startLayer + 1 |-> [slot \in 0 .. size |-> zero]] IN
  [startLayer |-> startLayer, endLayer |-> endLayer, size |-> size, k |-> buffers, v |-> buffers]

\* get_kv_size_bytes
KvSizeBytes(pool, heads, headDim, vHeadDim, itemsize) ==
  LET perDim == NumLayers(pool) * (pool.size + 1) * heads * itemsize IN
  <<perDim * headDim, perDim * vHeadDim>>

\* A Python list also takes an index below zero: it counts from the end.
At(list, i) == IF i < 0 THEN Len(list) + i + 1 ELSE i + 1
KeyBufferAt(pool, layerId) == At(pool.k, layerId - pool.startLayer)

Gather(buffer, loc) == [i \in DOMAIN loc |-> buffer[loc[i]]]
Scatter(buffer, loc, values) ==
  FoldLeft(LAMBDA b, i : [b EXCEPT ![loc[i]] = values[i]], buffer, [i \in DOMAIN loc |-> i])

GetKeyBuffer(pool, layerId)   == pool.k[KeyBufferAt(pool, layerId)]
GetValueBuffer(pool, layerId) == pool.v[KeyBufferAt(pool, layerId)]

\* set_kv_buffer; `override` is layer_id_override, or <<>>
SetKvBuffer(pool, layerId, override, loc, cacheK, cacheV) ==
  LET l == KeyBufferAt(pool, IF override = <<>> THEN layerId ELSE override[1]) IN
  [pool EXCEPT !.k[l] = Scatter(@, loc, cacheK), !.v[l] = Scatter(@, loc, cacheV)]

\* move_kv_cache: the slots are read before any of them is written.
MoveKvCache(pool, tgt, src) ==
  LET moved(buffer) == Scatter(buffer, tgt, Gather(buffer, src)) IN
  [pool EXCEPT !.k = [l \in DOMAIN @ |-> moved(@[l])],
               !.v = [l \in DOMAIN @ |-> moved(@[l])]]

\* load_from_host_per_layer
LoadFromHostPerLayer(pool, host, hostIndices, deviceIndices, layerId) ==
  LET l == KeyBufferAt(pool, layerId)
      h == KeyBufferAt(host, layerId) IN
  [pool EXCEPT !.k[l] = Scatter(@, deviceIndices, Gather(host.k[h], hostIndices)),
               !.v[l] = Scatter(@, deviceIndices, Gather(host.v[h], hostIndices))]

\* backup_to_host_all_layer
BackupToHostAllLayer(pool, host, hostIndices, deviceIndices) ==
  FoldLeft(LAMBDA hp, l :
             LET h == KeyBufferAt(hp, pool.startLayer + l - 1) IN
             [hp EXCEPT !.k[h] = Scatter(@, hostIndices, Gather(pool.k[l], deviceIndices)),
                        !.v[h] = Scatter(@, hostIndices, Gather(pool.v[l], deviceIndices))],
           host, [l \in DOMAIN pool.k |-> l])
================================================================================
