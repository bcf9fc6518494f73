SPECIFICATION DispatchSpec
CONSTANTS
    often = often
    once = once
    broken = broken
    Schedules = {often, once, broken}
    Unparsable = {broken}
    Fires <- MCFires
    Recipients = 2
    Unset = Unset
    MaxTime = 3
    MaxFaults = 1
    MaxRestarts = 1
INVARIANTS
    AtLeastOnce
    OnePerFiring
CHECK_DEADLOCK FALSE
