CONSTANTS
    alice = alice
    bob = bob
    stranger = stranger
    uuid1 = uuid1
    uuid2 = uuid2
    rand1 = rand1
    rand2 = rand2
    rand3 = rand3
    rand4 = rand4
    j1 = j1
    j2 = j2
    Imsi = {alice, bob, stranger}
    Known = {alice, bob}
    RowId = {uuid1, uuid2}
    IdOf <- MCIdOf
    None = None
    WordMod = 4
    Advance = 3
    SqnMod = 8
    Rand = {rand1, rand2, rand3, rand4}
    Job = {j1, j2}
    UsimSqn = {0, 1, 6}
    Faults = {"db", "kms", "lost"}
SPECIFICATION Spec
INVARIANTS
    TypeOK
    ResyncAnswersOwnUsim
    OneResyncIsEnough
PROPERTY
    UsimsMoveByResync
SYMMETRY Symmetric
