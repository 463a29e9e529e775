\* The process starts in one of three environments and is stopped at any time: two
\* reorders that may cross, a deletion of one of their rows, updates that may be of
\* the deleted row, and a request that may be for a websocket, over two connections.
CONSTANTS
    Nil = Nil
    Requests = {"r1", "r2", "r3"}
    Sockets = {"r3"}
    Environments <- MCEnvironments
    Rows = {"a", "b", "c"}
    First <- MCFirst
    Home <- MCHome
    Sorts = {1, 2}
    Bodies <- MCBodies
    MaxOpenConns = 2
SPECIFICATION FairSpec
INVARIANT CountersAddUp
INVARIANT CutOnlyAfterDeadline
INVARIANT HeldOnlyByTransactions
PROPERTY ImplementsArrangement
PROPERTY NothingHangs
\* The process exits.
CHECK_DEADLOCK FALSE
