SPECIFICATION Spec
CONSTANTS
  Slots <- Three
  Requests <- Small
  HDR = 6
  ACHUNKS = 4
  AFUDGE = 1
  W = 128
  START = 2
  SKEW = 4
  SP = 70
  SAFETY = 2
  None = none
  none = none
INVARIANTS HeapSound
PROPERTIES ImplementsAllocator
