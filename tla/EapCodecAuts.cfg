CONSTANTS
    Length <- MCLength
    LengthMod = 65536
    MaxAttr = 3
    Stray <- MCStray
SPECIFICATION Spec
INVARIANT
    EveryPacketDecodes
CHECK_DEADLOCK FALSE
