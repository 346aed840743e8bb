----------------------------- MODULE MCShardMesh -----------------------------
\* Two calls on two stages. With the loop in the coordinator one of them is of
\* three prompts, enough to overlap the stages; with the remote loop of two.
EXTENDS ShardMesh

ShortBatches == [loop \in BOOLEAN |-> IF loop THEN <<2, 1>> ELSE <<3, 1>>]
=============================================================================
