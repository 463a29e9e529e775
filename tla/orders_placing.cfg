\* Two customers of one session order, retry and race with and without a key
\* and with two bodies, while the session comes and goes; any statement may fail.
CONSTANTS
    i1 = i1
    o1 = o1
    o2 = o2
    o3 = o3
    k1 = k1
    b1 = b1
    b2 = b2
    p1 = p1
    p2 = p2
    Nil = Nil
    Sessions = {i1}
    Orders = {o1, o2, o3}
    Keys = {k1}
    Bodies = {b1, b2}
    Placements = {p1, p2}
    Staff = {}
    Faults = TRUE
SPECIFICATION AnswersSpec
INVARIANT OneOrderPerKey
INVARIANT AnswersMatchOrders
PROPERTY UnkeyedNeverShared
SYMMETRY PlacementSymmetry
