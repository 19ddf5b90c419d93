\* One descriptor for connections, which the acceptor gives out again, two pool
\* threads, a caller of set_exit_flag(), resets, responses in two pieces.
SPECIFICATION FairSpec
CONSTANTS
    Conns = {c1}
    Acceptor = Acceptor
    Stopper = Stopper
    Threads = {t1, t2}
    Executors = {1, 2, 3}
    ExitCallers = {x1}
    MayReset = TRUE
    None = None
    NoConn = NoConn
    MaxBytes = 1
    MaxParts = 2
INVARIANTS
    TypeOK
    ConnectionsOwned
    EventsHaveHandlers
    NothingMissed
PROPERTIES
    ResultNotCut
    RequestsAnswered
    StopHonoured
