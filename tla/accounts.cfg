\* Two workers serve registrations, logins and the requests of owners about two
\* restaurants, three people, one appointment and one slug; any request may end early.
CONSTANTS
    e1 = e1
    e2 = e2
    e3 = e3
    r1 = r1
    r2 = r2
    b1 = b1
    a1 = a1
    w1 = w1
    w2 = w2
    Nil = Nil
    Emails = {e1, e2, e3}
    Restaurants = {r1, r2}
    Bases = {b1}
    Appointments = {a1}
    Workers = {w1, w2}
SPECIFICATION Spec
INVARIANT AuthorityIsCurrent
INVARIANT CreatedIsWhole
PROPERTY StaffChangesByOwner
SYMMETRY Symmetry
