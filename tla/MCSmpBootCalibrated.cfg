SPECIFICATION Spec
CONSTANTS
    MAX_NUMCPU = 4
    Firmware <- PlainFirmware
    MaxElapsed = 12
INVARIANTS
    CalibratedByPit
CHECK_DEADLOCK FALSE
