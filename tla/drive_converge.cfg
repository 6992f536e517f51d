\* One call, two roots, folders that stay put, polls of one page, two failures.
SPECIFICATION FairSpec
CONSTANTS
  d1 = d1
  f1 = f1
  f2 = f2
  r1 = r1
  StartDrives <- NestedDrive
  Docs = {d1}
  Dirs = {f1}
  Roots = {r1, r2}
  NoNode = NoNode
  Outside = Outside
  Gone = Gone
  Calls = {c1}
  NoCall = NoCall
  NoFile = NoFile
  Malformed = Malformed
  Partial = Partial
  NoState = NoState
  NoReply = NoReply
  Failed = Failed
  MaxLog = 2
  MaxFaults = 2
  PageSize = 1000
  MoveDirs = FALSE
INVARIANTS
  NoLostChange
PROPERTY
  ConvergesUnlessOrphaned
