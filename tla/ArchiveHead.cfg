SPECIFICATION Spec
CONSTANTS
    Regions = {"leaf"}
    Actors = {"custodian", "operator", "reviewer"}
    Params = {"rh"}
    UsableParams = {"rh"}
    Manifests <- MCManifests
    IntMax = 47
    NoOne = NoOne
    NoManifest = NoManifest
    Cases = {"k1"}
    Start <- MCStart
    Past <- MCPast
    Commands <- MCSignTwice
    Clients = {"c1", "c2"}
    Calls <- MCAlone
    MaxEvents = 12
    MaxBundles = 3
    MaxFaults = 0
    Remembered = {}
    NoRow = NoRow
    NoEntry = NoEntry
    NoResponse = NoResponse
    NoFile = NoFile
    NoCall = NoCall
INVARIANT EvidenceVerifies
