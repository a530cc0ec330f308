SPECIFICATION Spec
CONSTANTS
    build1 = build1
    build2 = build2
    other = other
    name1 = name1
    name2 = name2
    Handles = {h1, h2, h3}
    Symbols = {s1}
    Codes <- MCCodes
    KernelName <- MCKernelName
    Presets = {p, q}
    None = None
    Mixed = Mixed
    ReusesHandles = TRUE
    Revisions = {TRUE, FALSE}
    MaxReaders = 2
INVARIANT CacheFreshAtFirst
INVARIANT OverrideFaithful
INVARIANT InstrumentedDieWithOriginal
PROPERTY ReadersDestroyed
SYMMETRY HandleSymmetry
CHECK_DEADLOCK FALSE
