CONSTANTS
    Files <- MCFiles
    DefaultTempo = 4
    MaxTime = 16
    None = None
    Options <- MCOptions
    CueBytes = 3
    MetadataBytes = 2
    OperationBytes = 2
    Rates = {3, 4}
    Blocks = {0, 1, 2}
    Second = 5
    NotRendered = NotRendered
SPECIFICATION SongSpec
INVARIANTS TimesAreExact ClockIsExact EachEventOnce LyricsAreTheText LyricsOnTime
PROPERTY ReadsTheFormat
CHECK_DEADLOCK FALSE
