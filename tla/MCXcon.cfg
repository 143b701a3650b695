CONSTANTS
  HashOrder <- SomeNames
  Commands <- SmallPrograms
  SECSIZ = 4
  OBJSIZ = 17
SPECIFICATION Spec
INVARIANTS
  NoPhaseError
  ListsHold
  ObjectFaithful
  TextInPlace
  GlobalsNamed
