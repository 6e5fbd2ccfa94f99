\* Three pictures of two, two and one chunks, two frame ids.
SPECIFICATION Spec
CONSTANTS
  Picture = {big, large, small}
  small = small
  Total <- Lengths
  FrameId = {i1, i2}
  None = None
INVARIANTS
  ShownIsWhole
  ArrivedIsShown
CHECK_DEADLOCK FALSE
