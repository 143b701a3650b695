SPECIFICATION Spec
CONSTANTS
    StkLen = 8
    Programs <- MCPrograms
    Main = "m"
    FileNames = {"m", "<h>", "<k>"}
    MaxDepth = 12
    MaxArgs = 3
    PbSize = 60
    CStkSize = 3
    FStack = 2
INVARIANTS LinesTrue OutputRight
PROPERTY ComesToAnEnd
CHECK_DEADLOCK FALSE
