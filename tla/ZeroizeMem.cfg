CONSTANTS
  MemBase = 5
  MemSize = 4
  UsizeSpan = 10
  Zero = Zero
  Secret = Secret
  OtherData = {o1, o2}
SPECIFICATION Spec
INVARIANTS WipeInv NothingElided
PROPERTY ZeroizesAtOnce
