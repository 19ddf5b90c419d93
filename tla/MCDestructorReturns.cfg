SPECIFICATION FairSpec
CONSTANTS
    Threads = {t1, t2}
    Executors = {e1}
    None = None
PROPERTY DestructorReturns
CHECK_DEADLOCK FALSE
