\* The status sender through runs, pauses, resets and wraps of the counter.
SPECIFICATION FairSpec
CONSTANTS
    Word = 4
    MaxFrames = 9
INVARIANTS
    TypeOK
    SenderScope
PROPERTIES
    EvtNumExact
    StopReturns
