\* Three threads and three executors.  The destructor stops the program for good,
\* and it may hang (DestructorReturns).
SPECIFICATION FairSpec
CONSTANTS
    Threads = {t1, t2, t3}
    Executors = {e1, e2, e3}
    None = None
INVARIANTS
    TypeOK
    OwnedAndFreed
    NoIdleWhileWork
PROPERTIES
    ImplementsJobQueue
CHECK_DEADLOCK FALSE
