SPECIFICATION Spec
CONSTANTS
    Dirs = {music, disc}
    Locators = {1, 2}
    MaxVersion = 1
    Worlds <- MCWorlds
    Valid <- MCValid
    None = None
INVARIANTS
    ScanIsSnapshot
    PreparedStillThere
    PreparedIsRecorded
   
