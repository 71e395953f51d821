SPECIFICATION Spec
CONSTANTS
    NumberOfIOPorts = 1
    Devices = {d1, d2}
    NoDevice = NoDevice
    MaxStatus = 1
    MaxPending = 1
    MaxInput = 2
    MaxOutput = 1
SYMMETRY DeviceSymmetry
INVARIANTS TypeOK PortConsistent FreshInput InputMatchesInterrupts RegistrationsAnnounced
PROPERTIES NoDisplacement ImplementsIOPort
