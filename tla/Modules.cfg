SPECIFICATION FairSpec
CONSTANTS
    t1 = t1
    t2 = t2
    k1 = k1
    k2 = k2
    a1 = a1
    a2 = a2
    m1 = m1
    m2 = m2
    Threads = {t1, t2}
    Kernels = {k1, k2}
    Presets = {"p"}
    Agents = {a1, a2}
    Isas = {"gfx908"}
    Hooks = {"h"}
    Modules = {m1, m2}
    AgentOf <- MCAgentOf
    IsaOf <- MCIsaOf
    VariablesOf <- MCVariablesOf
    None = None
    Revisions = {TRUE, FALSE}
    MaxTasks = 2
    MaxCopies = 3
INVARIANT WrongOnlyIf
INVARIANT OncePerPreset
INVARIANT VariablesOwn
INVARIANT RegistrationSucceeds
PROPERTY TasksEnd
