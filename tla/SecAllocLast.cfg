CONSTANTS
  UsizeSpan = 256
  Sizes = {0, 5, 8, 13, 24}
  Aligns = {4, 16, 64}
  Handles = {h1, h2, h3}
  Zero = Zero
  PageSize = 32
  PageAddrs = {64, 224}
  DebugAssertions = FALSE
  Std = TRUE
SYMMETRY HandleSymmetry
SPECIFICATION Spec
INVARIANT LastAllocationRecognised
CHECK_DEADLOCK FALSE
