\* Two requests of the user: two steps, or an invalid number. In between, after one
\* step, the machine cannot be shown.
CONSTANTS
    Invalid = Invalid
    NoQueue = NoQueue
    Nothing = Nothing
    StepCounts = {2, Invalid}
    Unreadable = {1}
    MaxClicks = 2
    MaxOpen = 1
    MaxCycles = 2
SPECIFICATION Spec
INVARIANT TypeOK
PROPERTIES StepsAsAsked ScreenCatchesUp MachineStops
CHECK_DEADLOCK FALSE
