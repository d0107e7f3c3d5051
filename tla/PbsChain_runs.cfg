\* Two runs, time passes: forks, late answers, restarts and beats of another run.
SPECIFICATION Spec
SYMMETRY Symmetry
CONSTANTS
    ReceiptType <- PbsTypes
    Ttl <- PbsTtl
    Leeway = 1
    Run = {r1, r2}
    Env = {e1, e2}
    Nothing = Nothing
    ServiceKey = "service"
    MaxClock = 1
    MaxSeq = 2
    MaxFault = 1
    MaxReceipts = 3
    ManifestTtl = 1
    BeatTtl = 0
INVARIANTS TypeOK FinalRootIsHistory AcceptedBeatsShareEnvironment AgentLogVerifies
