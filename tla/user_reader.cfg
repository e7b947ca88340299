SPECIFICATION ReaderSpec
CONSTANTS
  NumRings = 2
  Batch = 2
  Cap = 3
  Senders = {1}
  MaxCreations <- MCMaxCreations
  MaxRate = 2
INVARIANTS
  ZeroDiscardsNothing
  ReportOffByOne
PROPERTIES
  ConnectsWhenAllExist
  ServedWhenOthersQuiet
CHECK_DEADLOCK FALSE
