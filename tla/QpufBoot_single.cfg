\* One process, nothing fails, up to 3 kills at any point of its boots; and the
\* products the service signs once it is up.
SPECIFICATION ProductsSpec
CONSTANTS
    Proc = {p1}
    Secret = {s1, s2, s3}
    Challenge = {c1, c2, c3}
    None = None
    Absent = Absent
    Torn = Torn
    Faults = {}
    MaxKill = 3
    Undefined = Undefined
    IntMax = 4
    Text = {"a", "b"}
    Optional = {Undefined, "a"}
    Claim <- SmallClaims
    Amount = {1, 4}
    MaxStrength = 1
    MaxList = 3
    MaxEdits = 1
    Ppm = 7
    TermsAsked <- SmallTerms
    Measured <- SmallMeasured
    Cost = {1}
    MaxCalls = 3
    MaxRepeats = 1
    Io = {"x", "y"}
    Reported <- SmallReports
    MaxSteps = 4
    Tool = {"read", "drop"}
    ToolHash = {"h1", "h2"}
    ReadLike = {"read"}
    ScopeAsked <- SmallScopes
    AgentStep <- SmallActs
    NumberId = {3}
    NoHash = NoHash
    MaxScopes = 2
    MaxAgentSteps = 2
    Member <- SmallMembers
    MethodAsked = {"majority", "quorum", "weighted", "judge", "vote"}
    ParamsAsked <- SmallParams
    MaxPanel = 3
    MaxAgain = 1
    Served <- SmallServed
    ExpectedAsked = {Undefined, "m"}
    FlagAsked <- SmallFlags
    MaxServed = 3
    Item <- SmallItems
    SignTypesAsked <- SmallSignTypes
    Suite = {"sha-256", "sha-384"}
    Time = {100, 200}
    MaxItems = 3
    Class = {"pii", "code"}
    Caps <- SmallCaps
    CapsSent <- SmallCapsSent
    Rows = {3}
    NoBreak = NoBreak
    MaxWindows = 3
INVARIANTS TypeOK KeyStable NeverTurnedAway
    ReceiptsSurviveTheWire 
    ReconcilesExactly PaysWhatWasPromised
    SealedInCausalOrder VerifiedRunIsSealedRun
    AcceptedActionsAreInScope ActionsSurviveTheWire
    VerdictIsOrderFree AcceptedVerdictIsThePanels
    SwapRaisesTheFlag FindingsAreOfTheSession
    TypedVerdictIsRight
    CapIsNotPassedUnseen
PROPERTIES ImplementsIdentity
\* Once every process serves or gave up and no kill is left, the boots are over;
\* a product is over once it was signed and shown.
CHECK_DEADLOCK FALSE
