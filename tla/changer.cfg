SPECIFICATION Spec
CONSTANTS
  f = f
  g = g
  z = z
  Keys <- MCKeys
  ZeroKey = z
  Depth = 2
  Width = 2
  ChainLength = 2
  MinCap = 1000
  HashFamily <- MCHashFamily
  ThreshNum = 1
  ThreshDen = 3
  MaxFiles = 3
  MaxPackets = 3
INVARIANTS
  TypeOK
  NoGhostChange
  SparseExact
  ChangeExists
PROPERTY
  RefinesMonitor
CHECK_DEADLOCK FALSE
