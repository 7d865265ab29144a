SPECIFICATION DataSpec
CONSTANTS
    Profiles = {p1, p2}
    MaxEdits = 1
    MaxWrites = 4
    MaxPending = 3
    NoProfile = noProfile
    Base = 2
    MaxHead = 2
    Rules = {r1, r2, r3}
    MaxWaiting = 1
    MaxFraction = 2
    Generators = {a, b}
    SequenceSize = 2
    MaxTime = 3
SYMMETRY SameProfiles
INVARIANTS ListAgrees EditsKept CurrentExists KeysInOrder IdsUnique
CHECK_DEADLOCK FALSE
