---------------------------- MODULE SequenceStore ----------------------------
(***************************************************************************)
(* What the KV cache promises to the engine, with no blocks in it.         *)
(*                                                                         *)
(* Every live sequence owns a private string of KV entries, one entry per  *)
(* token, named by the sequence that computed it.  A sequence is created   *)
(* empty, grows at its end, is cut back to a prefix, is copied, saved as a *)
(* snapshot, loaded from it, and dropped.  Nothing that happens to one     *)
(* sequence is visible in another.  BlockManager implements this with      *)
(* blocks that several sequences share.                                    *)
(***************************************************************************)
EXTENDS Naturals, Sequences

CONSTANTS SeqIds,   \* the sequence ids the engine and its callers use
          MaxLen    \* the longest sequence

VARIABLES live,     \* the sequences that exist
          store,    \* store[s] = the KV entries of s, <<>> when s is not live
          saved     \* the KV entries of the last snapshot taken

vars == <<live, store, saved>>

Init ==
    /\ live = {}
    /\ store = [s \in SeqIds |-> <<>>]
    /\ saved = <<>>

Create(s) ==
    /\ s \notin live
    /\ live' = live \cup {s}
    /\ UNCHANGED <<store, saved>>

Drop(s) ==
    /\ s \in live
    /\ live' = live \ {s}
    /\ store' = [store EXCEPT ![s] = <<>>]
    /\ UNCHANGED saved

\* The child starts as an exact copy and is independent from then on.
Copy(s, child) ==
    /\ s \in live
    /\ child \notin live
    /\ live' = live \cup {child}
    /\ store' = [store EXCEPT ![child] = store[s]]
    /\ UNCHANGED saved

Cut(s, n) ==
    /\ s \in live
    /\ n < Len(store[s])
    /\ store' = [store EXCEPT ![s] = SubSeq(store[s], 1, n)]
    /\ UNCHANGED <<live, saved>>

\* Each sequence of the batch appends n entries of its own.
Extend(batch, n) ==
    /\ batch \subseteq live
    /\ store' = [s \in SeqIds |->
                    IF s \in batch
                      THEN store[s] \o [i \in 1..n |-> s]
                      ELSE store[s]]
    /\ UNCHANGED <<live, saved>>

Save(s) ==
    /\ s \in live
    /\ saved' = store[s]
    /\ UNCHANGED <<live, store>>

Load(s) ==
    /\ s \notin live
    /\ live' = live \cup {s}
    /\ store' = [store EXCEPT ![s] = saved]
    /\ UNCHANGED saved

Next ==
    \/ \E s \in SeqIds : Create(s) \/ Drop(s) \/ Save(s) \/ Load(s)
    \/ \E s, child \in SeqIds : Copy(s, child)
    \/ \E s \in SeqIds, n \in 0..MaxLen : Cut(s, n)
    \/ \E batch \in SUBSET SeqIds, n \in 1..MaxLen : Extend(batch, n)

Spec == Init /\ [][Next]_vars
==============================================================================
