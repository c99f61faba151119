CONSTANTS
    alice = alice
    bob = bob
    t1 = t1
    t2 = t2
    j1 = j1
    j2 = j2
    Sub = {alice, bob}
    Token = {t1, t2}
    Job = {j1, j2}
    None = None
    TTL = 2
    MaxTime = 5
    Faults = {"redisRead", "redisWrite", "db", "crash"}
SPECIFICATION Spec
INVARIANTS
    TypeOK
    CacheIsBacked
    RefusedForCause
PROPERTIES
    AcceptedWhileValid
    ImplementsPromise
SYMMETRY Symmetric
