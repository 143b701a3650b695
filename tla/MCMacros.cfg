CONSTANTS
  Programs <- Small
  Opcodes <- Names
  Instructions = {"byte"}
  INSIZ = 100
  HDR = 3
  BUF = 5
  SLINSIZ = 14
SPECIFICATION Spec
CHECK_DEADLOCK FALSE
INVARIANTS ExpandsRight BodiesKept
PROPERTY ComesToAnEnd
