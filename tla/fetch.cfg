SPECIFICATION Spec
CONSTANTS
    poll = poll
    r1 = r1
    r2 = r2
    None = None
    Pollers = {poll}
    Requests = {r1}
    HasContainer = TRUE
    MaxChanges = 3
    MaxFailures = 1
INVARIANTS
    TypeOK
    BeliefMatches
PROPERTIES
    AnswersAreFresh
    StoredConverges
    CoreConverges
