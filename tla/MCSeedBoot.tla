------------------------------ MODULE MCSeedBoot ------------------------------
(* SeedBoot for TLC.  Processes without a configured seed are interchangeable *)
(* and so are the seeds nobody configured.                                    *)
EXTENDS SeedBoot, TLC

CONSTANTS Configured, ConfiguredSeed    \* who has a seed in its environment

Environment == [p \in Proc |-> IF p \in Configured THEN ConfiguredSeed ELSE NoSeed]

Symmetry ==
    Permutations(Proc \ Configured) \cup Permutations(Seed \ {ConfiguredSeed})
================================================================================
