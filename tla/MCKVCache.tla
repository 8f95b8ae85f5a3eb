----------------------------- MODULE MCKVCache -----------------------------
(***************************************************************************)
(* Instances of KVCache for TLC.                                           *)
(***************************************************************************)
EXTENDS KVCache, TLC

CONSTANTS k1, k2, k3

(* Two keys share a shard, the third has one to itself. *)
TwoAndOne == (k1 :> 1) @@ (k2 :> 1) @@ (k3 :> 2)

AllOne == [k \in Keys |-> 1]

Symmetry == Permutations({k1, k2}) \cup Permutations(Numbers) \cup Permutations(Threads)
=============================================================================
