SPECIFICATION CallSpec
CONSTANTS
    Stores = {s1}
    NoStore = NoStore
    Files = {f1, f2, f3}
    NoFile = NoFile
    Torn = Torn
    Absent = Absent
    MaxForeign = 1
    MaxSequence = 2
    Projections <- FewProjections
PROPERTIES
    NoSilentOverwrite
    CallsEnd
CHECK_DEADLOCK FALSE
