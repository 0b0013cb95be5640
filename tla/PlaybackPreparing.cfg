CONSTANTS
    short = short
    long = long
    NoSong = NoSong
    Songs <- MCSongs
    Length <- MCLength
    MaxBlock = 2
    MaxGeneration = 4
    MaxPublications = 16
SPECIFICATION Spec
INVARIANT PreparingIsInternal
