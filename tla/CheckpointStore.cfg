SPECIFICATION Spec
CONSTANTS
    Stores = {s1, s2}
    NoStore = NoStore
    Files = {f1, f2, f3}
    NoFile = NoFile
    Torn = Torn
    Absent = Absent
    MaxForeign = 0
    MaxSequence = 3
    Projections <- MCProjections
SYMMETRY Symmetry
INVARIANTS
    HandedOutSurvives
    IdleKnowsDisk
    RecoveryCopyOnDisk
PROPERTIES
    ImplementsRegister
