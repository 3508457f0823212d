CONSTANTS
  Owners = {o1, o2, o3}
  Pages = {p1, p2, p3}
  NoPage = NoPage
  PageSize = 4
  LockLimit = 2
  Platform = "windows"
  Refusable = {p1}
SPECIFICATION FairSpec
INVARIANTS IInv MappedByOwners LocksByOwners DataNeverSwapped
PROPERTIES ConstructsAtomically ConstructorReturns
