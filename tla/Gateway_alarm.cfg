\* A monitor that raises an alarm above its threshold.
SPECIFICATION Spec
SYMMETRY Symmetry
CONSTANTS
    ReceiptType <- GatewayTypes
    Ttl <- GatewayTtl
    Leeway = 1
    NoThreshold = NoThreshold
    Run = {r1}
    Kid = {a1, a2}
    Regime = {"business_hours", "after_hours"}
    Class = {"tool_call"}
    Manifold <- ChosenManifold
    Score = {1, 3}
    Threshold = 2
    Key = {"k1", "k2"}
    MaxLatency = 1
    MaxClock = 3
    MaxReceipts = 4
    DriftTtl = 0
    RegimeTtl = 2
    AttestationTtl = 1
INVARIANT EffectIsBelowThreshold
