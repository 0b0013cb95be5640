SPECIFICATION Spec
CONSTANTS
    songs = songs
    disc = disc
    other = other
    upper = upper
    lower = lower
    Paths <- MCPaths
    Nested <- MCNested
    Locators <- MCLocators
    Fold <- MCFold
    Overrides = {title}
    NoPath = NoPath
    NoOverride = NoOverride
    Absent <- MCAbsent
    MaxValue = 5
INVARIANTS
    LiveIsDurable
    SourceIsCurrent
    OneEntryPerFile
    StagedIsAcceptable
PROPERTIES
    IdentityNeverReused
