----------------------------- MODULE MCKzMemory -----------------------------
(* The pools of memory.c with fewer blocks each, and sizes on both sides of
   every limit: 8, 24 and 56 bytes are what fits behind an 8 byte header. *)
EXTENDS KzMemory

MCPoolSize == <<16, 32, 64>>
MCPoolNum  == <<3, 3, 2>>
MCSizes    == {1, 8, 9, 24, 25, 56, 57}
=============================================================================
