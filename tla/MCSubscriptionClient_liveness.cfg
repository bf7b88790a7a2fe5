\* Progress of subscribe and terminate under fair scheduling of the driver
\* and the server.  No symmetry: it is unsound with liveness checking.
CONSTANTS
    s1 = s1
    s2 = s2
    q1 = q1
    q2 = q2
    Ids <- MCIds
    Queries <- MCQueries
    BufSizes = {0, 1}
    MaxEvents = 2
    MaxDup = 0
    OneSubPerQuery = TRUE
    BlockingSends = FALSE
SPECIFICATION FairSpec
PROPERTY SubscribeResolves
PROPERTY TerminateCompletes
PROPERTY PendingEventuallyCleared
