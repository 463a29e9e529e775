\* A session, its order and every kind of request that changes them: a scan, a
\* close, a payment, a customer and a member of staff.
CONSTANTS
    t1 = t1
    i1 = i1
    s1 = s1
    c1 = c1
    p1 = p1
    o1 = o1
    b1 = b1
    q1 = q1
    u1 = u1
    Nil = Nil
    Tables = {t1}
    Sessions = {i1}
    Scans = {s1}
    Closes = {c1}
    Payments = {p1}
    PaymentStatus = {"PENDING"}
    Orders = {o1}
    Keys = {}
    Bodies = {b1}
    Placements = {q1}
    Staff = {u1}
    Faults = FALSE
SPECIFICATION HistorySpec
PROPERTY UnforcedCloseLeavesNewcomers
PROPERTY SealedStaysSealed
PROPERTY ComponentsKeepTheirSpecs
SYMMETRY Symmetry
