CONSTANTS
    Files <- Renamed
    Workers = {w1}
    PerWorker = 1
    ReaderSlots = 1
    Limit = 5
    Titles = {"A", "B", "C"}
    CategoryBase = 9
    MaxFaults = 0
    None = None
SPECIFICATION Spec
INVARIANT RenamedOnce
