SPECIFICATION Spec
CONSTANTS
  f = f
  g = g
  z = z
  Keys <- MCKeys
  ZeroKey = z
  NulFirst <- MCNulFirst
  Depth = 2
  Width = 2
  HashFamily <- MCHashFamily
  Sketches = {1, 2}
  Arrays <- MCArrays
  MaxArrivals = 5
INVARIANTS
  EstimatesBracket
  MajorityReported
