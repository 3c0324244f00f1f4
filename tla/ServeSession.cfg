CONSTANTS
    children = children
    links = links
    Requests = {children, links}
    Askers <- SomeAskers
    Tools <- SomeTools
    MaxEdits = 2
    None = None
    Nothing = Nothing
    Bad = Bad
SPECIFICATION LiveSpec
INVARIANT WiresAgree
PROPERTIES
    KeepsPromise
    CallsReturn
