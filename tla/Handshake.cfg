\* All messages, repeated and out of order, without skew. It ends with the clock.
SPECIFICATION FairSpec
CONSTANTS
  None = None
  Self = "peer-local"
  Message <- WholeExchange
  AckTimeout = 1
  ProbeTimeout = 1
  Skew = 0
  Horizon = 3
INVARIANT NoReplay
INVARIANT AcceptedInOrder
PROPERTY BindingPinned
PROPERTY TimedStatesEnd
CHECK_DEADLOCK FALSE
