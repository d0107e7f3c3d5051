------------------------------ MODULE MCPbsChain ------------------------------
(* PbsChain for TLC: the freshness of each receipt type as a function.        *)
EXTENDS PbsChain, TLC

CONSTANTS ManifestTtl, BeatTtl

PbsTypes == {"pbs.manifest", "pbs.attestation"}
PbsTtl == "pbs.manifest" :> ManifestTtl @@ "pbs.attestation" :> BeatTtl

Symmetry == Permutations(Run) \cup Permutations(Env)
================================================================================
