------------------------------ MODULE MCTieredKV ------------------------------
(* TieredKV on small pools.  LastBlock is named by the code, the other blocks  *)
(* and the sequences are interchangeable.                                      *)
EXTENDS TieredKV, TLC

Symmetry ==
    Permutations(GpuBlocks \ {LastBlock}) \cup Permutations(CpuBlocks)
      \cup Permutations(SeqIds)
===============================================================================
