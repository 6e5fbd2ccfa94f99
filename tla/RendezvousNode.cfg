SPECIFICATION FairSpec
CONSTANTS
  trusted = trusted
  other = other
  a1 = a1
  a2 = a2
  Client = {trusted, other}
  Server = server
  Attempt = {a1, a2}
  Caller <- Callers
  JsonNonce = {json}
  JsonPath <- JsonPaths
  Trusted = {trusted}
  lan = lan
  nat = nat
  Path = {lan, nat}
  Closing = {trusted, server}
  None = None
INVARIANTS
  SessionIsAgreedOrNamed
  HeardMeansOnePath
  ReturnedIsSession
  ClosedHoldsNothing
PROPERTIES
  ConnectSettles
CHECK_DEADLOCK FALSE
