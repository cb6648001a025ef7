SPECIFICATION Spec
CONSTANTS
  comp = comp
  sub = sub
  agent = agent
  flow = flow
  home = home
  away = away
  w1 = w1
  w2 = w2
  Absent = Absent
  None = None
  Entities <- MCEntities
  Kind <- MCKind
  MayRefer <- MCMayRefer
  Repositories = {home, away}
  Home <- MCHome
  Commands = {w1, w2}
  MaxFailures = 2
  MaxCrashes = 1
INVARIANT FoldersFollowRecords
SYMMETRY CommandSymmetry
PROPERTY StoreImplemented
