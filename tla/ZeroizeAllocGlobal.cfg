CONSTANTS
  UsizeSpan = 16
  Sizes = {0, 1, 2, 8}
  Aligns = {1, 2}
  Handles = {h1, h2}
  Zero = Zero
  Junk = Junk
  HeapBase = 11
  HeapSize = 4
  Slack = 0
  UsesSlack = FALSE
  Api = "GlobalAlloc"
  DebugAssertions = TRUE
SPECIFICATION FairSpec
PROPERTIES StrayDataWiped CallsReturn
CHECK_DEADLOCK FALSE
