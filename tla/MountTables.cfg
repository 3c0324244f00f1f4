SPECIFICATION Spec
CONSTANTS
  j = j  t = t  read = read  d = d
  dir = dir  note = note  db = db  web = web  gone = gone
  None = None
  Notations = {j, t}
  Readings = {j, t, read}
  Doc <- MCDoc
  Graft = 32
  Source <- MCSource
  Documents = {d}
  MaxMounts = 2
  MaxTexts = 1
  MaxIds = 2
  MaxTests = 2
INVARIANTS OneIdPerNode TreeAgrees 
PROPERTIES IdsKeep
