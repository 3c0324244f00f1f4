CONSTANTS
    Files <- TwoFiles
    Workers = {w1, w2, w3}
    PerWorker = 1
    ReaderSlots = 1
    Limit = 6
    Titles = {"A", "B", "C", "D"}
    CategoryBase = 9
    MaxFaults = 3
    None = None
SPECIFICATION LiveSpec
CHECK_DEADLOCK FALSE
INVARIANTS
    StoreConsistent
    EveryLineLands
    
    LaterModificationWins
    SendsNeverBlock
PROPERTIES
    Ends

