\* Two processes share the file, a third has its seed from the environment;
\* writes may fail and the host may crash.
SPECIFICATION Spec
SYMMETRY Symmetry
CONSTANTS
    Proc = {p1, p2, p3}
    Seed = {s0, s1, s2, s3}
    NoSeed = NoSeed
    EnvSeed <- Environment
    Configured = {p3}
    ConfiguredSeed = s0
    Absent = Absent
    Torn = Torn
    ReadMayFail = FALSE
    WriteMayFail = TRUE
    HostMayCrash = TRUE
    MaxCrash = 3
INVARIANTS ConfiguredSeedRules
PROPERTIES SettledSeedKept
