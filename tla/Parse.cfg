SPECIFICATION FairSpec
CONSTANTS
  p1 = p1
  p2 = p2
  p3 = p3
  Parsers = {p1, p2, p3}
  Docs <- AllDocs
  Settings = {1, 2, 3}
  Names = {"a", "b"}
  Original = 1
  Sizes = {0, 5, 7, 9}
  Zero = 0
  Omitted = Omitted
CHECK_DEADLOCK FALSE
INVARIANTS TypeOK DefaultsRestored OwnDefaults IInv
PROPERTY EveryParseEnds
