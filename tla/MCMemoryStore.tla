--------------------------- MODULE MCMemoryStore ---------------------------
(***************************************************************************)
(* Buffers are interchangeable, and so are threads; symmetry is used only  *)
(* where no liveness is checked.                                           *)
(***************************************************************************)
EXTENDS MemoryStore, TLC

Symmetry == Permutations(Threads) \union Permutations(Streams)
=============================================================================
