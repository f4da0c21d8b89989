SPECIFICATION Spec
CONSTANTS
    None = None
    plug = plug
    bulb = bulb
    h1 = h1
    h2 = h2
    t1 = t1
    core = core
    user = user
    Ids = {plug, bulb}
    Hosts = {h1, h2}
    Tasks = {t1}
    Requests = {core, user}
    MaxAsks = 2
    MaxChanges = 4
    MaxFailures = 1
SYMMETRY MC_Symmetry
CHECK_DEADLOCK FALSE
INVARIANTS TypeOK SuccessShowsEffect EffectIsAnnounced FailureIsExcused RefreshCoversAll
