CONSTANTS
    id1 = id1
    id2 = id2
    id3 = id3
    id4 = id4
    s1 = s1
    s2 = s2
    s3 = s3
    r1 = r1
    r2 = r2
    ReauthId = {id1, id2, id3}
    Session = {s1, s2}
    Req = {r1, r2}
    None = None
    MaxCounter = 3
    Faults = {"redisRead", "db", "crash"}
SPECIFICATION Spec
INVARIANTS
    TypeOK
    GrantsAreOffered
    UsableIsEarned
    CounterIsDepth
    DeliveredStaysUsable
    NoRotationAfterReply
PROPERTIES
    ImplementsPromise
SYMMETRY Symmetric
