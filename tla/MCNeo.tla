------------------------------- MODULE MCNeo -------------------------------
(* Instances of Neo's server for TLC. *)
EXTENDS NeoScheduler

MCReqs == 1 .. 4
MCIds == 0 .. 2
MCPromptLen == <<2, 1, 5, 2>>
MCMaxOut == <<4, 4, 2, 5>>
=============================================================================
