\* Every list with fixed routes: four clients, one frame in a run.
SPECIFICATION Spec
CONSTANTS
    NumInst = 4
    NumPayload = 16
    MaxFrames = 1
    BytesPerFrame = 3
    MaxPending = 1
    NoFile = TRUE
    Files <- TwoFiles
    Lists <- AllLists
INVARIANTS
    TypeOK
    FramesOnlyAfterGo
    EndCountFinal
    EndBeforeClose
    DistinctAddresses
    RoutesServed
PROPERTIES
    GreetingFirst
