SPECIFICATION Spec
CONSTANTS
    Regions = {r1, r2}
    Actors = {ann, bo}
    rh = rh
    lux = lux
    Params = {rh, lux}
    UsableParams = {rh}
    Manifests = {m}
    NoOne = NoOne
    NoManifest = NoManifest
    IntMax = 31
    PlanBodies <- MCPlanBodies
    Hours = {12, 24}
    MaxPlans = 2
    MaxTrials = 2
    MaxStability = 3
SYMMETRY Symmetry
INVARIANT ApprovedIsExecutable
CHECK_DEADLOCK FALSE
