SPECIFICATION Spec
CONSTANTS
  N = 8
  B = 2
  Extras = {"flush"}
  MaxSeq = 9
INVARIANT
  ReaderLag
