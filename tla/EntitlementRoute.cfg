CONSTANTS
    s1 = s1
    s2 = s2
    h = h
    b1 = b1
    b2 = b2
    b3 = b3
    r1 = r1
    r2 = r2
    Session = {s1, s2}
    Header = {s1, s2, h}
    Body = {b1, b2, b3}
    Text <- MCText
    Answer <- MCAnswer
    Relay = {r1, r2}
    None = None
    RelayAsk <- MCRelayAsk
    TokenAsk <- MCTokenAsk
    RowsOf <- MCRowsOf
    Faults = {"redisRead", "redisWrite", "db", "crash", "expiry"}
SPECIFICATION Spec
INVARIANTS
    TypeOK
    FormatsAgree
    OffersAreComplete
    OffersAreEligible
    NotEntitledGetsNothing
PROPERTIES
    ReplayRepeats
SYMMETRY Symmetric
