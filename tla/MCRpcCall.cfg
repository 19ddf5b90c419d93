\* Two calls, two interceptors, two dispatchers.
SPECIFICATION Spec
CONSTANTS
    Requests = {r1, r2}
    Interceptors = {i1, i2}
    Names = {"system.listMethods", "echo"}
    Users = {"alice", ""}
    Plugins <- SmallPlugins
    MaxDispatchers = 2
    None = None
SYMMETRY Symmetry
INVARIANTS
    TypeOK
    DeletedOnce
    AnsweredOnce
    InterceptorsNest
    RunsForAdmitted
