SPECIFICATION Spec
CONSTANTS
  f = f
  g = g
  h = h
  z = z
  Keys <- MCKeys
  ZeroKey = z
  NulFirst <- MCNulFirst
  Depth = 2
  Width = 4
  MinCap = 4
  HashFamily <- MCHashFamily
  MaxArrivals = 9
INVARIANTS
  OneBucketPerFlow
  ReportsWithinStream
  PointQueryAgrees
PROPERTIES
  RefinesFlowTable
