CONSTANTS
    Clients = {c1, c2}
    Requests <- PlainRequests
    Forms = {"text"}
    MaxCrashes = 1
    MaxGone = 1
    NoFile = NoFile
    Stale = Stale
    Nobody = Nobody
SPECIFICATION LiveSpec
CHECK_DEADLOCK FALSE
PROPERTIES
    EveryClientEnds
    EveryDaemonEnds
