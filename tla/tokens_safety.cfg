\* Two handlers and auth over one token file, with failures and kills.
SPECIFICATION FairSpec
CONSTANTS
  Calls = {c1, c2}
  Auth = Auth
  NoCall = NoCall
  NoToken = NoToken
  NoFile = NoFile
  Malformed = Malformed
  Partial = Partial
  NoReply = NoReply
  MaxExpired = 1
  MaxConsents = 1
  MaxFaults = 2
INVARIANTS
  TypeOK
  WholeFile
  LastIsDurable
PROPERTY
  Answered
