\* Two staff members race on one order; any statement may fail.
CONSTANTS
    i1 = i1
    o1 = o1
    b1 = b1
    p1 = p1
    u1 = u1
    u2 = u2
    Nil = Nil
    Sessions = {i1}
    Orders = {o1}
    Keys = {}
    Bodies = {b1}
    Placements = {p1}
    Staff = {u1, u2}
    Faults = TRUE
SPECIFICATION HistorySpec
INVARIANT StatusEarned
INVARIANT FinalStatusSent
PROPERTY ImplementsLifecycle
SYMMETRY StaffSymmetry
