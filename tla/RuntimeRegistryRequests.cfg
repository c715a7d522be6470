CONSTANTS
    Users = {u1, u2, u3}
    Workspaces = {a, b}
    Runtimes = {x1, x2}
    Instances = {i1, i2, i3}
    None = None
SPECIFICATION FairSpec
CHECK_DEADLOCK FALSE
INVARIANTS TypeOK OneRuntimePerWorkspace UsedRuntimeIsReady ShutdownClosesStorages
PROPERTY RequestsEnd
