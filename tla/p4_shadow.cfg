SPECIFICATION Spec
CONSTANTS
  f1 = f1
  f2 = f2
  f3 = f3
  f4 = f4
  f5 = f5
  A = A
  B = B
  C = C
  D = D
  none = none
  Flows <- MCFlows
  Keys <- MCKeys
  KeyOf <- MCKeyOf
  NoKey = none
  Size = 3
  HashFamily <- MCHashFamily
  MaxPackets = 8
INVARIANT
  AllMirror
CHECK_DEADLOCK FALSE
