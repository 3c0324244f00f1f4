SPECIFICATION QuaiSpec
CONSTANTS
  frag = frag  first = first  second = second  third = third  bare = bare  page = page  url = url
  Frags = {frag}
  Texts = {first, second, third}
  Bodies = {first, second}
  MaxNo = 2
  Blank = Blank
  None = None
  NoState = NoState
  Procs = {p1, p2}
  Starts <- MCStarts
  Asks <- MCAsks
  Defs <- MCDefs
  MaxStarts = 3
  MaxFaults = 1
  Sources = {bare, page, url}
  Bare = bare
  Schemed <- MCSchemed
  PageNames <- MCPageNames
  Moved <- MCMoved
  CellDefs <- MCCellDefs
  MaxSpecs = 2
  MaxPages = 2
  MaxDepth = 2
  MaxModel = 1
  MaxUndone = 1
SYMMETRY Sessions2
INVARIANTS LabelsHold TablesParse HistoryResumes NumbersAreFresh AnswersOwnLines ContextMounted CellsNumbered
  
CHECK_DEADLOCK FALSE
