SPECIFICATION Spec
CONSTANTS
  g = g  h = h  c = c  d = d
  Procs = {p1, p2}
  Grammars = {g, h}
  Contents = {c, d}
  Directory <- MCDirectory
  Length <- MCLength
  Symbols = {"file", "item", "name"}
  Trees <- MCTrees
  Parses <- MCParses
  MaxFaults = 1
  None = None
  Torn = Torn
INVARIANTS Transparent OnlyOwnAccepted TornByTheDisk StoredIsFound
