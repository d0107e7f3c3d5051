\* One run that drifts after provisioning.
SPECIFICATION Spec
CONSTANTS
    ReceiptType <- PbsTypes
    Ttl <- PbsTtl
    Leeway = 1
    Run = {r1}
    Env = {e1, e2}
    Nothing = Nothing
    ServiceKey = "service"
    MaxClock = 0
    MaxSeq = 2
    MaxFault = 0
    MaxReceipts = 2
    ManifestTtl = 0
    BeatTtl = 0
INVARIANT DriftBreaksChain
