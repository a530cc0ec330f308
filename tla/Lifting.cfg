SPECIFICATION Spec
CONSTANTS
    Programs <- MCPrograms
    MaxAttempts = 2
    MaxLength = 4
INVARIANT ControlFlowLifted
INVARIANT RelocationsFound
INVARIANT CloneIsomorphic
