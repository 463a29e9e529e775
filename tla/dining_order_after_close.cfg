\* A customer orders while staff close the session.
CONSTANTS
    t1 = t1
    i1 = i1
    i2 = i2
    s1 = s1
    c1 = c1
    o1 = o1
    o2 = o2
    b1 = b1
    q1 = q1
    Nil = Nil
    Tables = {t1}
    Sessions = {i1, i2}
    Scans = {s1}
    Closes = {c1}
    Payments = {}
    PaymentStatus = {"PENDING"}
    Orders = {o1, o2}
    Keys = {}
    Bodies = {b1}
    Placements = {q1}
    Staff = {}
    Faults = FALSE
SPECIFICATION Spec
PROPERTY OrdersEnterActiveSession
SYMMETRY Symmetry
