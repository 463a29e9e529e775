\* A scan, a close and a payment race at two tables through two sessions, and
\* any statement may fail.
CONSTANTS
    t1 = t1
    t2 = t2
    i1 = i1
    i2 = i2
    s1 = s1
    c1 = c1
    p1 = p1
    Nil = Nil
    Tables = {t1, t2}
    Sessions = {i1, i2}
    Scans = {s1}
    Closes = {c1}
    Payments = {p1}
    PaymentStatus = {"PAID"}
    Faults = TRUE
SPECIFICATION Spec
INVARIANT OneActivePerTable
INVARIANT ScanAnswersOwnTable
PROPERTY ClosedOnlyOnPurpose
PROPERTY ReopenedOnlyByPayment
PROPERTY PaymentChangesExplained
PROPERTY ImplementsOccupancy
SYMMETRY TableSymmetry
