CONSTANTS
  UsizeSpan = 128
  Sizes = {0, 5, 8, 13, 24}
  Aligns = {8, 16}
  Handles = {h1, h2}
  Zero = Zero
  PageSize = 40
  PageAddrs = {64}
  DebugAssertions = FALSE
  Std = TRUE
SPECIFICATION PSpec
INVARIANT ShrinksInProvenance
CHECK_DEADLOCK FALSE
