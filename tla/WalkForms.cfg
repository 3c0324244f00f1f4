CONSTANTS
    a = a
    b = b
    c = c
    d = d
    x = x
    y = y
    Nodes = {a, b, c, d, x}
    Start = a
    Labels = {"e", "f", "none", "two", "less"}
    Star = Star
    Graphs <- AllGraphs
    Groups <- AskedGroups
    Promised = {"e"}
    QuantifierBound = 3
    FrontierBound = 4
    None = None
    Weight <- Weights
SPECIFICATION AskedSpec
INVARIANTS
    CompleteOrRefused
    GroundsAnswered
    EquidistantOnce
    LightestAnswered
    SettledInOrder
    RefusedForCause
    
PROPERTIES
    Ends
