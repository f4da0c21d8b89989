SPECIFICATION Spec
CONSTANTS
    lan1 = lan1
    lan2 = lan2
    lan3 = lan3
    host1 = host1
    host2 = host2
    host3 = host3
    Targets = {lan1, lan2, lan3}
    Hosts = {host1, host2, host3}
    Cancelled = TRUE
    None = None
SYMMETRY Symmetry
CHECK_DEADLOCK FALSE
INVARIANT ConnectionsClosed
INVARIANT AnswerIsComplete
