SPECIFICATION Spec
CONSTANTS
    Globals = {"x"}
    Fuel = 25
    SWSIZE = 7
    MaxShort = 7
    Programs <- MCPrograms
    Values <- MCValues
INVARIANTS
    SameAction
    LabelsLand
    ErrorsExact
CHECK_DEADLOCK FALSE
