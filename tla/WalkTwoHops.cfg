CONSTANTS
    a = a
    b = b
    c = c
    d = d
    x = x
    y = y
    Nodes = {a, b, c, d}
    Start = a
    Labels = {"e"}
    Star = Star
    Graphs <- PlainGraphs
    Groups <- TwoHops
    Promised = {}
    QuantifierBound = 4
    FrontierBound = 9
    None = None
    Weight <- Weights
SPECIFICATION Spec
INVARIANTS
    DistanceIsExact
