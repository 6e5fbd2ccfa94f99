\* main, the task that advertises and the one that answers messages, one call
\* each after main's; two STUN servers.
\* Responses of up to two attributes, with two addresses.
SPECIFICATION FairSpec
CONSTANTS
  StunServers <- TwoServers
  Loop = {advertise, answer}
  Rounds = 1
  None = None
  TxnId <- Id
  Responses <- UpToTwo
INVARIANTS
  ResponsesAreRead
  AnswerIsOwn
  CachedIsCurrent
PROPERTIES
  RefreshReturns
CHECK_DEADLOCK FALSE
