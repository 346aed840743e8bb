---------------------------- MODULE MCBlockManager ----------------------------
(* BlockManager on a few blocks and sequences, up to renaming of either. *)
EXTENDS BlockManager, TLC

\* Three sequences share blocks as long as there is no snapshot, two with one.
SnapshotsOfTwo == saved = <<>> \/ (Len(saved) = MaxLen /\ Cardinality(Live) <= 2)

Symmetry == Permutations(Blocks) \cup Permutations(SeqIds)
===============================================================================
