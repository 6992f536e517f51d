\* A file moves into a folder that leaves another, which is trashed: one poll.
SPECIFICATION OneWindowSpec
CONSTANTS
  d1 = d1
  f1 = f1
  f2 = f2
  r1 = r1
  StartDrives <- FileAndFolders
  Docs = {d1}
  Dirs = {f1, f2}
  Roots = {r1}
  NoNode = NoNode
  Outside = Outside
  Gone = Gone
  Calls = {c1}
  NoCall = NoCall
  NoFile = NoFile
  Malformed = Malformed
  Partial = Partial
  NoState = NoState
  NoReply = NoReply
  Failed = Failed
  MaxLog = 4
  MaxFaults = 0
  PageSize = 1000
  MoveDirs = TRUE
INVARIANT
  NoLostChange
