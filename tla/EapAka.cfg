CONSTANTS
    i1 = i1
    i2 = i2
    s1 = s1
    s2 = s2
    v1 = v1
    v2 = v2
    v3 = v3
    id1 = id1
    id2 = id2
    r1 = r1
    r2 = r2
    Imsi = {i1}
    Known = {i1}
    Session = {s1}
    Vec = {v1, v2}
    ReauthId = {id1, id2}
    Req = {r1, r2}
    None = None
    IdMod = 2
    Drawn = {0}
    Faults = {"redisRead", "redisWrite", "db", "expiry", "crash"}
SPECIFICATION Spec
INVARIANTS
    TypeOK
    GrantsAreEarned
    StoredKeysAreShared
PROPERTIES
    DeadSessionsStayDead
    ImplementsPromise
    EnrolsForReauth
SYMMETRY Symmetric
