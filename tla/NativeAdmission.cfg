CONSTANTS
    s = s
    d1 = d1
    d2 = d2
    a = a
    b = b
    Dirs = {s, d1, d2}
    Store = s
    Top = Top
    Names = {a, b}
    FirstPlace <- MCFirstPlace
    StorePath <- MCStorePath
    Paths <- MCPaths
    RootIds = {1, 2}
    NoDir = NoDir
    Detached = Detached
    NoRoot = NoRoot
SPECIFICATION Spec
INVARIANTS NoFalseAlarm GuardsApart QuietCommitIsSound
PROPERTY GuardsNeverRefreshed
