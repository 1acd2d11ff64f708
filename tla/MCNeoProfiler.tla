---------------------------- MODULE MCNeoProfiler ----------------------------
(***************************************************************************)
(* An instance of NeoProfiler for TLC: blocks of four tokens, sequences of *)
(* two or four blocks, and hardware whose times are linear in the width    *)
(* and in the tokens, so that every prediction has a known right value.    *)
(***************************************************************************)
EXTENDS NeoProfiler

Small  == [block |-> 4, blocksPerSeq |-> 3, tokens |-> 12, batch |-> 3, cpuBlocks |-> 7]
Large  == [block |-> 4, blocksPerSeq |-> 4, tokens |-> 15, batch |-> 5, cpuBlocks |-> 16]
Narrow == [block |-> 4, blocksPerSeq |-> 3, tokens |-> 9, batch |-> 4, cpuBlocks |-> 3]
MCConfigs == {Small, Large, Narrow}

MCLinrTime(S) == 2 * S + 3
MCPrefTime(S) == 3 * S + 1
MCGdecTime(N) == N + 2
MCCdecTime(S, N) == 5 * S + 2 * N + 1
===============================================================================
