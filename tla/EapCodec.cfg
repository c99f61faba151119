CONSTANTS
    Length <- MCLength
    LengthMod = 448
    MaxAttr = 3
    Stray <- MCStray
SPECIFICATION FairSpec
INVARIANTS
    TypeOK
    RoundTrip
    Decodes
    WholeBlocks
    MacIsWhereItWasRead
PROPERTY
    Terminates
CHECK_DEADLOCK FALSE
