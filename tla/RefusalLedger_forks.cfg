\* Two operators change one policy, two auditors are shown what was signed; and the
\* other histories the service's receipts tell.
SPECIFICATION LedgersSpec
SYMMETRY Symmetry
CONSTANTS
    ReceiptType <- RefusalTypes
    Ttl <- RefusalTtl
    Leeway = 1
    Operator = {o1, o2}
    Auditor = {a1, a2}
    Policy = {s1, s2}
    NoRequest = NoRequest
    ServiceKey = "service"
    MaxClock = 1
    MaxVersion = 4
    MaxFault = 2
    MaxReceipts = 4
    MutationTtl = 0
    Span = {"a", "b"}
    NoSpan = NoSpan
    AlteredAsked <- SmallDisclosures
    MaxSpans = 2
    MaxCern = 2
    ToolId = {"t", "u"}
    Digest = {"dt", "du", "i", "r", "q"}
    Holder = {"x", "y"}
    NameDigest <- SmallNames
    ReuseCall <- SmallCalls
    ColdUs = 1200
    ChainUs = 40
    NoDigest = NoDigest
    MaxLog = 4
    Client = {"c", "d"}
    Window = 2
    RateMax = 2
    SweepAbove = 1
    MaxTime = 4
    MaxRequests = 3
INVARIANTS TypeOK ForkConsistency OwnLogVerifies
    VanishedSpansAreDisclosed NewSpansAreAnnounced
    ReuseIsOfTheLatestProof
    NoMoreThanTwiceTheRate
\* All changes are made, all receipts signed and audited.
CHECK_DEADLOCK FALSE
