SPECIFICATION Spec
CONSTANTS
    Builds <- MCBuilds
    Script <- MCScript
    Environments <- MCEnvironments
    Clients = {c1, c2}
    c1 = c1
    c2 = c2
    TTL = 1
    MaxForced = 1
    MaxFaults = 1
    MaxStarts = 2
    MaxCalls = 1
PROPERTY ImplementsHistory
INVARIANT InvalidationLands
INVARIANT LateUsersAreCancelled
PROPERTY OpensOnOwn
PROPERTY Resumes
CHECK_DEADLOCK FALSE
