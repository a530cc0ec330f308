SPECIFICATION FairSpec
CONSTANTS
    Library = "hip"
    Threads = {t1}
    Ops = {r, s}
    PacketSubmit = submit
    QueueCreate = q
    InternalOps = {r}
    UserCallbacks = {cb1, cb2}
    MaxDepth = 2
INVARIANT InternalOpsWrapped
PROPERTY FrozenTableFixed
PROPERTY CallsReturn
