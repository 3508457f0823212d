CONSTANTS
  UsizeSpan = 256
  Sizes = {0, 5, 8, 13, 24, 40}
  Aligns = {4, 16}
  Handles = {h1, h2, h3, h4}
  Zero = Zero
  PageSize = 32
  PageAddrs = {64, 224}
  DebugAssertions = FALSE
  Std = TRUE
SYMMETRY HandleSymmetry
SPECIFICATION LifoSpec
INVARIANT NoFragmentation
PROPERTIES ImplementsStack NothingMoves
CHECK_DEADLOCK FALSE
