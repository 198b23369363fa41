SPECIFICATION Spec
CONSTANTS
    Step = {1, 2}
    Name = {1, 2}
    MaxNeeds = 2
INVARIANT CycleErrorMeansCycle
CHECK_DEADLOCK FALSE
