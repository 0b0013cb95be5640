SPECIFICATION Spec
CONSTANTS
    Readers = {r1}
    NumFields = 3
    MaxSequence = 7
INVARIANTS
    NoTornSnapshot
PROPERTIES
    QuietReadSucceeds
