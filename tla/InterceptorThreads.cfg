SPECIFICATION Spec
CONSTANTS
    Library = "hsa"
    Threads = {t1, t2}
    Ops = {q}
    PacketSubmit = submit
    QueueCreate = q
    InternalOps = {q}
    UserCallbacks = {cb1, cb2}
    MaxDepth = 1
INVARIANT UserOpsWrapped
INVARIANT QueuesIntercepted
INVARIANT CallbackStable
SYMMETRY ThreadSymmetry
