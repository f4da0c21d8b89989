SPECIFICATION Spec
CONSTANTS
    d1 = d1
    d2 = d2
    d2_padded = d2_padded
    hostA = hostA
    hostB = hostB
    t1 = t1
    t2 = t2
    t3 = t3
    t4 = t4
    r1 = r1
    r2 = r2
    r3 = r3
    None = None
    Ids = {d1, d2, d2_padded}
    Trim <- MC_Trim
    Hosts = {hostA, hostB}
    Tasks = {t1, t2, t3}
    Handlers = {r1}
    Configs <- MC_TwoDevices
    Snapshots <- MC_Snapshots
    MaxMutators = 1
    MaxReaders = 0
INVARIANTS
    TypeOK
    PollsAreRegistered
    StateFromOwnHost
PROPERTIES
    SyncReachesGoal
    RequestsAnswered
    PolledForever
    ImplementsDevicePolling
