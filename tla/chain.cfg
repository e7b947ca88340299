SPECIFICATION Spec
CONSTANTS
  f = f
  g = g
  h = h
  z = z
  Keys <- MCKeys
  ZeroKey = z
  Vals = {1, 2}
  Depth = 2
  Width = 4
  ChainLength = 2
  MinCap = 3
  HashFamily <- MCHashFamily
  MaxArrivals = 8
CHECK_DEADLOCK FALSE
INVARIANTS
  TypeOK
  NoPhantomFlow
  FewFlowsExact
  CrashOnlySaturated
PROPERTIES
  LandsHome
  NeverLowered
  FreeNeighbourKeepsVictim
  RefinesFlowTable
