\* One process, healthy disk, up to 4 kills at any point of its boots.
SPECIFICATION FairSpec
CONSTANTS
    Proc = {p1}
    Seed = {s1, s2, s3, s4, s5}
    NoSeed = NoSeed
    EnvSeed <- Environment
    Configured = {}
    ConfiguredSeed = NoSeed
    Absent = Absent
    Torn = Torn
    ReadMayFail = FALSE
    WriteMayFail = FALSE
    HostMayCrash = FALSE
    MaxCrash = 4
INVARIANTS TypeOK KeyStable
PROPERTIES ImplementsIdentity ServesWhatIsStored
