SPECIFICATION Spec
CONSTANTS
  Names <- MCNames
  SegNameTyp <- MCSegNameTyp
  Content <- MCContent
  Commands <- PlainCommands
  Garbage = {9}
  SEGNO = 6
  MODNO = 5
  MAPNO = 20
  SYMPNO = 40
  SYMNO = 18
  FILNO = 4
  SYMHASH = 7
  SEGHASH = 3
INVARIANTS
  Pass2Replays
  ImageLinked
  RelocatableOutput
PROPERTIES
  Terminates
