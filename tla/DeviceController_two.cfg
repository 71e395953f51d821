SPECIFICATION Spec
CONSTANTS
    NumberOfIOPorts = 2
    Devices = {d1}
    NoDevice = NoDevice
    MaxStatus = 1
    MaxPending = 0
    MaxInput = 0
    MaxOutput = 0
PROPERTY PingsGoOn
