CONSTANTS
  UsizeSpan = 16
  Sizes = {0, 1, 2}
  Aligns = {1, 2}
  Handles = {h1, h2}
  Zero = Zero
  Junk = Junk
  HeapBase = 11
  HeapSize = 4
  Slack = 1
  UsesSlack = TRUE
  Api = "Allocator"
  DebugAssertions = FALSE
SYMMETRY HandleSymmetry
SPECIFICATION Spec
INVARIANT ZeroizedBeforeDeallocation
