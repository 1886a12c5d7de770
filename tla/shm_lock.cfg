\* Three processes that lock, check, die and restart, with a file made once.
SPECIFICATION FairSpec
CONSTANTS
    Proc = {p1, p2, p3}
    Free = Free
    Dead = Dead
    Hazards = {}
INVARIANTS
    TypeOK
    MutualExclusion
    HolderOwns
PROPERTIES
    ImplementsSharedLock
    LockProgress
