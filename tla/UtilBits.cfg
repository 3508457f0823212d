CONSTANTS
  Width = 8
  UsizeSpan = 256
  Sizes = {}
  Aligns = {}
SPECIFICATION Spec
INVARIANTS RemainderIsMask LeastMultiple
CHECK_DEADLOCK FALSE
