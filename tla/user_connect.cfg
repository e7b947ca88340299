SPECIFICATION ReaderSpec
CONSTANTS
  NumRings = 2
  Batch = 2
  Cap = 3
  Senders = {1}
  MaxCreations <- MCMaxCreations
  MaxRate = 2
INVARIANT
  ConnectWaits
CHECK_DEADLOCK FALSE
