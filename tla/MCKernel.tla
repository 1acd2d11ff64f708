-------------------------------- MODULE MCKernel --------------------------------
(***************************************************************************)
(* An instance of KernelPipeline for TLC: past and new tiles, an odd number*)
(* of chunks and of Q tiles, so that stages and phases shift from one tile *)
(* to the next.                                                            *)
(***************************************************************************)
EXTENDS KernelPipeline
=================================================================================
