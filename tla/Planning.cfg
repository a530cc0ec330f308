SPECIFICATION Spec
CONSTANTS
    NumVGPRs = 2
    NumAGPRs = 2
    NumSGPRs = 3
    Modules <- MCModules
    Subtargets = {"gfx908", "gfx90a", "gfx940"}
INVARIANT PlansComplete
INVARIANT ArrayKeptWhenFixed
INVARIANT OwnValuesPreserved
