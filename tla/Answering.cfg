CONSTANTS
    MaxSlots = 6
    Windows <- MCWindows
    Zones <- MCZones
    Detected <- MCDetected
    NoZone = NoZone
    Feeds <- MCFeeds
    MaxTaps = 4
SPECIFICATION Spec
INVARIANTS
    TypeOK
    GridIsExact
    SavedAsEdited
    ReopenKeepsAnswers
