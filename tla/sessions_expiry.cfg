\* Two scans and a payment at one table; no statement fails, and scans keep
\* running.
CONSTANTS
    t1 = t1
    i1 = i1
    i2 = i2
    s1 = s1
    s2 = s2
    p1 = p1
    Nil = Nil
    Tables = {t1}
    Sessions = {i1, i2}
    Scans = {s1, s2}
    Closes = {}
    Payments = {p1}
    PaymentStatus = {"PAID"}
    Faults = FALSE
SPECIFICATION FairHistorySpec
INVARIANT ScanReplacesExpiredSession
PROPERTY ExpiredSessionIsClosed
