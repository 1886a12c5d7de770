\* A user event longer than the FIFO: 600 words, which it takes in rounds.
SPECIFICATION Spec
CONSTANTS
    Depth = 512
    Chunks = {54}
    Keys = {"ip", "mac"}
    GoMasks = {5}
    BankLens = {600}
    EmuPorts = {6000}
    Levels = {5}
    MaxTrig = 1
INVARIANTS NoWordLost
CHECK_DEADLOCK FALSE
