SPECIFICATION Spec
CONSTANTS
    Regions = {r1, r2}
    Actors = {ann, bo}
    rh = rh
    lux = lux
    Params = {rh, lux}
    UsableParams = {rh, lux}
    Manifests = {m}
    NoOne = NoOne
    NoManifest = NoManifest
    IntMax = 31
    PlanBodies <- MCPlanBodies
    Hours = {12, 24}
    MaxPlans = 2
    MaxTrials = 2
    MaxStability = 3
SYMMETRY Symmetry
INVARIANTS
    TypeOK
    SnapshotValid
    ReleaseGate
    StableIsLongEnough
    DeviationHolds
    ApprovedPlanIsCurrent
    ReleaseInReach
    CoverageAgrees
    HistoryAgrees
    TrialGateAgrees
    NextStepAgrees
    ProgressAgrees
    EligibilityAgrees
PROPERTIES
    EvidenceKept
    GatesAreOneWay
    SyncFits
    SyncReadsBack
CHECK_DEADLOCK FALSE
