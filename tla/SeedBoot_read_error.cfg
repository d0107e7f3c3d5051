\* One process; reading a good seed file may throw once in a while.
SPECIFICATION Spec
CONSTANTS
    Proc = {p1}
    Seed = {s1, s2, s3, s4, s5}
    NoSeed = NoSeed
    EnvSeed <- Environment
    Configured = {}
    ConfiguredSeed = NoSeed
    Absent = Absent
    Torn = Torn
    ReadMayFail = TRUE
    WriteMayFail = FALSE
    HostMayCrash = FALSE
    MaxCrash = 4
INVARIANT KeyStable
