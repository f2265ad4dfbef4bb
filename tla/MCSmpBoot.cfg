SPECIFICATION FairSpec
CONSTANTS
    MAX_NUMCPU = 3
    Firmware <- SmallFirmware
    MaxElapsed = 0
INVARIANTS
    TypeOK
    OwnCpu
    NoCrash
PROPERTIES
    AllRun
CHECK_DEADLOCK FALSE
