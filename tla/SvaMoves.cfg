SPECIFICATION Spec
CONSTANTS
    Masks <- MCMasks
    Subtargets <- MCSubtargets
    Variants = {TRUE, FALSE}
INVARIANT RegistersRestored
INVARIANT ArrayKept
INVARIANT PayloadReady
INVARIANT AppMemoryUntouched
CHECK_DEADLOCK FALSE
