SPECIFICATION Spec
CONSTANTS
    d1 = d1
    d2 = d2
    d2_padded = d2_padded
    hostA = hostA
    hostB = hostB
    t1 = t1
    t2 = t2
    t3 = t3
    t4 = t4
    r1 = r1
    r2 = r2
    r3 = r3
    None = None
    Ids = {d1}
    Trim <- MC_Trim
    Hosts = {hostA, hostB}
    Tasks = {t1, t2, t3}
    Handlers = {r1, r2}
    Configs <- MC_OneDevice
    Snapshots <- MC_NoSnapshots
    MaxMutators = 2
    MaxReaders = 0
INVARIANTS
    PollsAreRegistered
