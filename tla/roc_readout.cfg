\* Runs of the CODA ROC list: triggers acknowledged or not, a user event that
\* fits the empty FIFO and one that fits none, links that fail.
SPECIFICATION FairSpec
CONSTANTS
    Depth = 512
    Chunks = {127}
    Keys = {"ip", "mac"}
    GoMasks = {5, 7}
    BankLens = {500, 600}
    EmuPorts = {6000, 70000}
    Levels = {0, 5}
    MaxTrig = 1
INVARIANTS TypeOK EventsWhole EbAsConfigured
PROPERTIES RunOrder HandlersEnd 
CHECK_DEADLOCK FALSE
