\* A readout list and its event builder, no faults: two connections at most.
SPECIFICATION FairSpec
CONSTANTS
    NumInst = 2
    NumPayload = 2
    MaxFrames = 2
    BytesPerFrame = 3
    MaxActive = 8
    MaxPending = 2
    Configs <- RunConfigs
    NoConfig = NoConfig
    Faults = {}
INVARIANTS
    TypeOK
    FramesOnlyAfterGo
    EndCountFinal
    EndClosesAll
PROPERTIES
    ImplementsRunStream
    TransitionEnds
    EndDelivered
