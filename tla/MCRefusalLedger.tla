--------------------------- MODULE MCRefusalLedger ---------------------------
(* RefusalLedger for TLC: one receipt type whose freshness is given in ticks. *)
EXTENDS RefusalLedger, TLC

CONSTANT MutationTtl

RefusalTypes == {"refusal.mutation"}

RefusalTtl == "refusal.mutation" :> MutationTtl

Symmetry == Permutations(Operator) \cup Permutations(Auditor) \cup Permutations(Policy)
================================================================================
