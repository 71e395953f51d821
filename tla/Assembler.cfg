SPECIFICATION Spec
CONSTANTS
    ByteSize = 20
    RamSize = 400
    RegistryAddress = 400
    RegistrySize = 1
    StatusAddress = 401
    StatusSize = 1
    DeviceTables <- MCDeviceTables
    Signature <- MCSignature
    NumberOfInterrupts = 2
    OperandBufferSize = 10
    CommandLines <- MCCommandLines
    Upper <- MCUpper
    LabelLines = 4
    ScopeLines = 4
INVARIANTS FrameSlots DecodedAsWritten
PROPERTIES LabelsSettled
CHECK_DEADLOCK FALSE
