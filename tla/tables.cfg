\* Two members of staff change two tables while a guest scans and sessions come and
\* go; any request may end early.
CONSTANTS
    t1 = t1
    t2 = t2
    c1 = c1
    c2 = c2
    q1 = q1
    q2 = q2
    q3 = q3
    u1 = u1
    u2 = u2
    g1 = g1
    Nil = Nil
    Tables = {t1, t2}
    Codes = {c1, c2}
    Tokens = {q1, q2, q3}
    Staff = {u1, u2}
    Guests = {g1}
SPECIFICATION Spec
INVARIANT CodesAndTokensUnique
INVARIANT SeatedTableStays
PROPERTY RevokedStaysRevoked
SYMMETRY Symmetry
