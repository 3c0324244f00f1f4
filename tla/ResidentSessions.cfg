CONSTANTS
    Clients = {c1, c2}
    Requests <- MixedRequests
    Forms = {"text", "json"}
    MaxCrashes = 1
    MaxGone = 1
    NoFile = NoFile
    Stale = Stale
    Nobody = Nobody
SPECIFICATION Spec
CHECK_DEADLOCK FALSE
SYMMETRY ClientSymmetry
INVARIANTS
    OrphansNeedARace
    FailedStartNeedsARace
    TurnedAwayForCause
    
