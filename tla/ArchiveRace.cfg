SPECIFICATION Spec
CONSTANTS
    Regions = {"leaf"}
    Actors = {"custodian", "operator", "reviewer"}
    Params = {"rh"}
    UsableParams = {"rh"}
    Manifests <- MCManifests
    IntMax = 47
    NoOne = NoOne
    NoManifest = NoManifest
    Cases = {"k1"}
    Start <- MCStart
    Past <- MCPast
    Commands <- MCSignTwice
    Clients = {"c1", "c2"}
    Calls <- MCRace
    MaxEvents = 11
    MaxBundles = 3
    MaxFaults = 1
    Remembered = {}
    NoRow = NoRow
    NoEntry = NoEntry
    NoResponse = NoResponse
    NoFile = NoFile
    NoCall = NoCall
INVARIANTS
    DatabaseSound
    SealedIsBundled
    FileIsOnTimeline
PROPERTIES
    SealedForGood
