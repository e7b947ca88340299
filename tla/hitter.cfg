SPECIFICATION Spec
CONSTANTS
  f = f
  g = g
  h = h
  z = z
  Keys <- MCKeys
  ZeroKey = z
  Depth = 3
  Width = 1
  ChainLength = 2
  MinCap = 1000
  HashFamily <- MCHashFamily
  MAX_CAPLEN = 1500
  Packets <- MCPackets
  ThreshNum = 2
  ThreshDen = 5
  MaxFiles = 2
  MaxPackets = 4
INVARIANTS
  TypeOK
  SparseReport
  RecallDefined
  ColumnMassExact
CHECK_DEADLOCK FALSE
