SPECIFICATION Spec
CONSTANTS
    NumberOfIOPorts = 1
    Devices = {d1}
    NoDevice = NoDevice
    MaxStatus = 1
    MaxPending = 0
    MaxInput = 1
    MaxOutput = 1
PROPERTY StopEnds
