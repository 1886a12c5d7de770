\* The same with every fault but a file edited during a run.
SPECIFICATION Spec
CONSTANTS
    NumInst = 2
    NumPayload = 1
    MaxFrames = 1
    BytesPerFrame = 3
    MaxActive = 8
    MaxPending = 2
    Configs <- FaultConfigs
    NoConfig = NoConfig
    Faults = {"load", "init", "config", "link", "crash"}
INVARIANTS
    
    
    StreamsAgree
PROPERTIES
    NoEventLost
