SPECIFICATION Spec
CONSTANTS
    InterruptNumbers = {5}
    ByteSize = 4
    BottomOfStack = 10
    Code = {0, 1}
    MaxLength = 1
    Targets = {0}
    Counts = {0, 1}
    PushedBytes = {3}
    PushedWords = {6}
    MaxPushes = 2
    MaxPending = 0
INVARIANTS TypeOK StackIntact FramePointerChain HandlersMasked
PROPERTIES KeepsConvention HaltEnds
VIEW LiveView
