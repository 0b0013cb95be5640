SPECIFICATION SessionSpec
CONSTANTS
    songs = songs
    tune = tune
    Paths <- MCPaths
    Nested = {}
    Locators <- MCLocators
    Fold <- MCFold
    Overrides = {title}
    NoPath = NoPath
    NoOverride = NoOverride
    Absent <- MCAbsent
    MaxValue = 3
INVARIANTS
    CallerKnowsTheStore
    ExitIsHonest
    SilentWhileSaving
