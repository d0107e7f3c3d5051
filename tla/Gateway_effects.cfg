\* One run, two attestors, a regime that requires both and one that requires one.
SPECIFICATION Spec
SYMMETRY Symmetry
CONSTANTS
    ReceiptType <- GatewayTypes
    Ttl <- GatewayTtl
    Leeway = 1
    NoThreshold = NoThreshold
    Run = {r1}
    Kid = {a1, a2}
    Regime = {"business_hours", "after_hours"}
    Class = {"tool_call"}
    Manifold <- ChosenManifold
    Score = {1}
    Threshold = 2
    Key = {"k1", "k2"}
    MaxLatency = 1
    MaxClock = 4
    MaxReceipts = 4
    DriftTtl = 1
    RegimeTtl = 3
    AttestationTtl = 2
INVARIANTS TypeOK SilentMonitorStops ThresholdIsLive
