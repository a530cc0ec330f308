SPECIFICATION Spec
CONSTANTS
    Regs = {"r", "q"}
    Applications <- MCApplications
INVARIANT UsesDominated
PROPERTY ImplementsHookedApplication
