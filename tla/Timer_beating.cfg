SPECIFICATION Spec
CONSTANTS
    NumberOfSubtimers = 2
    SubtimerOperands <- SubtimerNumbers
    ConfigOperands <- Operands
    StepModulus = 2
    MaxPending = 2
INVARIANT KeepsBeating
