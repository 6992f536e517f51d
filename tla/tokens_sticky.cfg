\* auth is run after a first RPC found no token file.
SPECIFICATION Spec
CONSTANTS
  Calls = {c1}
  Auth = Auth
  NoCall = NoCall
  NoToken = NoToken
  NoFile = NoFile
  Malformed = Malformed
  Partial = Partial
  NoReply = NoReply
  MaxExpired = 0
  MaxConsents = 1
  MaxFaults = 0
PROPERTY
  RemedyWorks
