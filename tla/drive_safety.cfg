\* Two calls, folders that may be moved, paged polls, every failure.
SPECIFICATION Spec
CONSTANTS
  d1 = d1
  f1 = f1
  f2 = f2
  r1 = r1
  StartDrives <- NestedFolders
  Docs = {}
  Dirs = {f1, f2}
  Roots = {r1}
  NoNode = NoNode
  Outside = Outside
  Gone = Gone
  Calls = {c1, c2}
  NoCall = NoCall
  NoFile = NoFile
  Malformed = Malformed
  Partial = Partial
  NoState = NoState
  NoReply = NoReply
  Failed = Failed
  MaxLog = 2
  MaxFaults = 1
  PageSize = 1
  MoveDirs = TRUE
SYMMETRY CallSymmetry
INVARIANTS
  TypeOK
  LoadedIsCurrent
  DeltaScoped
  StoredInScope
PROPERTY
  StoreSpec
