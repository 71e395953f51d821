SPECIFICATION Spec
CONSTANTS
    ByteSize = 4
    RamSize = 2
    RegistryAddress = 2
    RegistrySize = 1
    StatusAddress = 3
    StatusSize = 1
    DeviceTables <- MCDeviceTables
    OperandBufferSize = 10
    BottomOfStack = 1
    InstructionAddress = 1
    Destinations <- MCDestinations
    FirstSources <- MCFirstSources
    SecondSources <- MCSecondSources
    JumpTargets <- MCJumpTargets
    MinCell = 0
    MaxCell = 4
    NoInstruction = NoInstruction
INVARIANTS TypeOK DecodedAsAssembled
PROPERTIES ResultExact OnlyDestination SameBits JumpsRight
