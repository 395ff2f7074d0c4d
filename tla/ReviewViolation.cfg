SPECIFICATION Spec
CONSTANTS
    NumSteps = 2
    StagedSteps = {1}
    ReusableSteps = {1}
    MaxCommands = 2
    MaxFaults = 1
    MaxOthers = 0
INVARIANT ReviewedBeforeRepeat
CHECK_DEADLOCK FALSE
