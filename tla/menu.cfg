\* Two members of staff change one category and two items while a guest browses and
\* orders; any request may end early.
CONSTANTS
    k1 = k1
    i1 = i1
    i2 = i2
    p1 = p1
    p2 = p2
    u1 = u1
    u2 = u2
    g1 = g1
    Nil = Nil
    Categories = {k1}
    Items = {i1, i2}
    Prices = {p1, p2}
    Staff = {u1, u2}
    Guests = {g1}
SPECIFICATION HistorySpec
INVARIANT SoldAsOffered
PROPERTY GoneStaysGone
PROPERTY UnforcedDeleteLeavesNewcomers
SYMMETRY Symmetry
