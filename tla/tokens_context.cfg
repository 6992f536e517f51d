\* The RPC that resolved the token source has returned.
SPECIFICATION Spec
CONSTANTS
  Calls = {c1}
  Auth = Auth
  NoCall = NoCall
  NoToken = NoToken
  NoFile = NoFile
  Malformed = Malformed
  Partial = Partial
  NoReply = NoReply
  MaxExpired = 1
  MaxConsents = 0
  MaxFaults = 0
INVARIANT
  StaysAuthorized
