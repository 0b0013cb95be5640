SPECIFICATION BackendSpec
CONSTANTS
    short = short
    long = long
    NoSong = NoSong
    Songs <- MCSongs
    Length <- MCLength
    MaxBlock = 2
    MaxGeneration = 4
    MaxPublications = 16
    console = console
    other = other
    Controllers = {console, other}
    ChannelCount = 2
    Gains = {0, 1}
    Presets <- MCPresets
    Revisions = 3
    MaxUpdates = 3
INVARIANTS
    LyricsFollowAudio
    ExhaustedIsSilent
    NoLostUpdate
    SilencedStaySilent
PROPERTIES
    ImplementsGate
    ClockMovesForward
    PlaybackEnds
    CatchesUp
