SPECIFICATION Spec
CONSTANTS
  Names = {"f", "g"}
  Openings <- SomeOpenings
  Contents <- SomeContents
  Bytes <- SomeBytes
  Seeks <- SomeSeeks
  Beyond = {0}
  Traps = {}
  MAXFILES = 2
  MAXCCBS = 2
  BUFSIZ = 2
  MAXLEN = 4
  None = none
  none = none
  EOF <- MinusOne
  CR = 13
  LF = 10
  SUB = 26
  FF = 255
INVARIANTS StreamsOwnChannels
PROPERTIES ImplementsStreams
