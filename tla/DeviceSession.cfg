SPECIFICATION Spec
CONSTANTS
    Devices = {d1, d2}
    Sender = d1
    Port = port
    NoDevice = none
    MaxRuns <- RunsOf
    MaxSent <- SentBy
    MaxDisturbances = 1
INVARIANT RegisteredAnswers
PROPERTIES SentInOrder KeepsRegistration RunningSendsAsItself StopReturns FreePortIsTaken
CHECK_DEADLOCK FALSE
