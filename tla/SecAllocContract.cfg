\* A debug build without std: the drop asserts that nothing leaks.
CONSTANTS
  UsizeSpan = 256
  Sizes = {0, 5, 8, 13, 24, 40}
  Aligns = {4, 16, 64}
  Handles = {h1, h2}
  Zero = Zero
  PageSize = 32
  PageAddrs = {48, 64, 224}
  DebugAssertions = TRUE
  Std = FALSE
SYMMETRY HandleSymmetry
SPECIFICATION Spec
INVARIANTS
  RefusedOnlyWhenFull
  FullPageWhenEmpty
PROPERTIES
  ImplementsAllocator
  DropReportsLeaks
CHECK_DEADLOCK FALSE
