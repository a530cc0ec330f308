SPECIFICATION Spec
CONSTANTS
    Regs = {r1}
    r1 = r1
    Functions <- MCFunctions
INVARIANT LivenessSoundIfSettled
INVARIANT LivenessPrecise
PROPERTY LivenessSettles
