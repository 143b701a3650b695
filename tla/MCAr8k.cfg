SPECIFICATION Spec
CONSTANTS
  Paths <- AB
  Tail14 <- TailOf
  RunsOn <- RunOn
  Archives <- SomeArchives
  Dirs <- SomeDirs
  Lists <- SomeLists
  Wild <- SomeHeaders
  BLK = 4
  MAXCMDS = 2
  MAXFAULTS = 1
  None = none
  none = none
INVARIANTS CommandDone NothingLost
