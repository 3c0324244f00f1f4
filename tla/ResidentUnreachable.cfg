CONSTANTS
    Clients = {c1, c2}
    Requests <- PlainRequests
    Forms = {"text"}
    MaxCrashes = 0
    MaxGone = 0
    NoFile = NoFile
    Stale = Stale
    Nobody = Nobody
SPECIFICATION Spec
CHECK_DEADLOCK FALSE
INVARIANT NoUnreachableCopy
