\* One session, three frames, commands or interrupts, for two commands.  Every
\* frame may be lost, duplicated or reordered; the answer to f1 may be too long.
SPECIFICATION FairSpec
CONSTANTS
  Session = {s1}
  FrameId = {f1, f2, f3}
  Task = {t1, t2}
  Long = {f1}
  Dir = {home}
  HomeDir = home
  None = None
INVARIANTS
  SlotHolderWillCleanUp
  OverlapBoundedByInterrupts
  NoKillWithoutInterrupt
PROPERTIES
  CancelStopsChild
  EveryCommandAnswered
CHECK_DEADLOCK FALSE
