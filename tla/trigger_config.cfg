\* Two runs of every firmware: every setting alone, and all of them together.
SPECIFICATION FairSpec
CONSTANTS
    NumTrg = 3
    NumHps = 3
    NumMult = 1
    NumFee = 2
    NumCompton = 3
    Firmwares <- AllFirmwares
    Scenarios <- AllScenarios
INVARIANTS
    TypeOK
    OnlyThisFile
    SettingsHeld
    
PROPERTIES
    ReadEnds
