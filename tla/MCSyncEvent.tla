----------------------------- MODULE MCSyncEvent -----------------------------
(* TLC instances of SyncEvent: arrays of two different handles. *)
EXTENDS SyncEvent, TLC

MCPairs == {a \in [1..2 -> Handle] : a[1] # a[2]}
MCOnePair == {CHOOSE a \in MCPairs : TRUE}
Symmetry == Permutations(Waiter) \cup Permutations(Handle)
=============================================================================
