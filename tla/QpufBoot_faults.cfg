\* Two processes share the files; writes and the entropy source may fail.
SPECIFICATION Spec
SYMMETRY Symmetry
CONSTANTS
    Proc = {p1, p2}
    Secret = {s1, s2, s3}
    Challenge = {c1, c2}
    None = None
    Absent = Absent
    Torn = Torn
    Faults = {"secret_write", "enroll_write", "entropy"}
    MaxKill = 2
PROPERTIES ForeignStaysClosed EnrolledStaysOpen
\* Once every process serves or gave up and no kill is left, the boots are over.
CHECK_DEADLOCK FALSE
