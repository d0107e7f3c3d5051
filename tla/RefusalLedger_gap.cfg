\* One operator loses an answer and goes on.
SPECIFICATION Spec
CONSTANTS
    ReceiptType <- RefusalTypes
    Ttl <- RefusalTtl
    Leeway = 1
    Operator = {o1}
    Auditor = {a1}
    Policy = {s1, s2}
    NoRequest = NoRequest
    ServiceKey = "service"
    MaxClock = 0
    MaxVersion = 3
    MaxFault = 1
    MaxReceipts = 3
    MutationTtl = 0
INVARIANT MissingBreaksChain
\* All changes are made, all receipts signed and audited.
CHECK_DEADLOCK FALSE
