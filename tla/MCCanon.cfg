SPECIFICATION Spec
CONSTANTS
    IntBits = 4
    HICREG = 2
    Endless = 12
    Trees0 <- MCTrees0
    Environments <- MCEnvironments
INVARIANTS ValueKept EffectsKept OrderedForSkeletons
PROPERTY ComesToAnEnd
CHECK_DEADLOCK FALSE
