------------------------------ MODULE MCPubSub ------------------------------
(***************************************************************************)
(* PubSub on small instances for TLC.                                      *)
(***************************************************************************)
EXTENDS PubSub, TLC

AllPolicies == PolicyNames

Symmetry == Permutations(Subs) \cup Permutations(Publishers)
=============================================================================
