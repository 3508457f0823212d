CONSTANTS
  UsizeSpan = 128
  Sizes = {0, 5, 8, 13}
  Aligns = {8, 16}
  Handles = {h1, h2}
  Zero = Zero
  PageSize = 32
  PageAddrs = {64}
  DebugAssertions = FALSE
  Std = TRUE
SPECIFICATION PSpec
INVARIANTS GivenPointersSuffice DeallocatesInProvenance
CHECK_DEADLOCK FALSE
