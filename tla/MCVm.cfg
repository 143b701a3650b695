SPECIFICATION Spec
CONSTANTS
  NBUF = 2
  BSIZ = 1
  NBLK = 5
  KEEP = 1
  Sizes <- OneByte
  Vals <- ZeroOne
  Unset = unset
  unset = unset
INVARIANTS TypeOK PointersGood OneCopy
PROPERTIES ImplementsMemory
