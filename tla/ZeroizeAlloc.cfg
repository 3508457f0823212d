CONSTANTS
  UsizeSpan = 16
  Sizes = {0, 1, 2}
  Aligns = {1}
  Handles = {h1, h2, h3}
  Zero = Zero
  Junk = Junk
  HeapBase = 11
  HeapSize = 4
  Slack = 1
  UsesSlack = FALSE
  Api = "Allocator"
  DebugAssertions = FALSE
SYMMETRY HandleSymmetry
SPECIFICATION Spec
INVARIANTS IInv Accounted NothingRemains
PROPERTY ImplementsAllocator
