\* One process; writing the enrollment record may fail.
SPECIFICATION Spec
CONSTANTS
    Proc = {p1}
    Secret = {s1, s2, s3}
    Challenge = {c1, c2, c3}
    None = None
    Absent = Absent
    Torn = Torn
    Faults = {"enroll_write"}
    MaxKill = 2
INVARIANT KeyStable
\* Once every process serves or gave up and no kill is left, the boots are over.
CHECK_DEADLOCK FALSE
