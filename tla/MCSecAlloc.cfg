\* A debug build of the std crate: the drop aborts on a leak.
CONSTANTS
  UsizeSpan = 256
  Sizes = {0, 5, 8, 24}
  Aligns = {4, 16, 64}
  Handles = {h1, h2, h3}
  Zero = Zero
  PageSize = 32
  PageAddrs = {64, 224}
  DebugAssertions = TRUE
  Std = TRUE
SYMMETRY HandleSymmetry
SPECIFICATION Spec
INVARIANTS
  TypeOK
  Disjoint
  BelowTop
  BytesExact
  DataInPlace
  LayoutHonoured
  consistency_check
PROPERTY DropReportsLeaks
CHECK_DEADLOCK FALSE
