\* Two connections to either of two sessions, one of which has a token in two
\* spellings; two updates about either, channels of one message, and every
\* goroutine keeps running.
CONSTANTS
    c1 = c1
    c2 = c2
    i1 = i1
    i2 = i2
    u1 = u1
    u2 = u2
    Clients = {c1, c2}
    Sessions = {i1, i2}
    Tokens <- MCTokens
    Twice = i1
    Canonical = canonical
    Other = upper
    Updates = {u1, u2}
    Capacity = 1
SPECIFICATION FairHistorySpec
INVARIANT SendsFindOpenChannels
INVARIANT RegistryExact
INVARIANT OnlyOwnUpdates
INVARIANT LostOnlyBehindFullQueue
PROPERTY GoneIsForgotten
