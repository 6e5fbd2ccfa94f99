\* Channels of one slot; the terminal ends with its input or with its node.
SPECIFICATION ConsoleSpec
CONSTANTS
  c1 = c1
  c2 = c2
  m = m
  p = p
  Call <- MCCall
  Message <- MCMessage
  Page <- MCPage
  EventSlots = 1
  MaxEvents = 2
  Blank = Blank
  LineSlots = 1
  MaxLines = 2
  NoSession = NoSession
CHECK_DEADLOCK FALSE
INVARIANT LinesInOrder
INVARIANT MessagesGoToActive
INVARIANT PageShowsActive
PROPERTY ConsoleEnds
