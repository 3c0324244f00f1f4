CONSTANTS
    a = a
    b = b
    c = c
    d = d
    x = x
    y = y
    Nodes = {a, b, c, d, x, y}
    Start = a
    Labels = {"e", "f"}
    Star = Star
    Graphs <- LapseGraphs
    Groups <- LapseGroups
    Promised = {"e"}
    QuantifierBound = 6
    FrontierBound = 4
    None = None
    Weight <- Weights
SPECIFICATION Spec
INVARIANT PromiseChangesNoAnswer
