\* Sends to a full bounded channel wait for room, and the caller inside
\* terminate no longer polls its channel: terminate never returns.  The
\* stop is the violation looked for, so deadlock is left to the property.
CONSTANTS
    s1 = s1
    s2 = s2
    q1 = q1
    q2 = q2
    Ids <- MCIds
    Queries <- MCQueries
    BufSizes = {1}
    MaxEvents = 2
    MaxDup = 0
    OneSubPerQuery = TRUE
    BlockingSends = TRUE
SPECIFICATION FairSpec
CHECK_DEADLOCK FALSE
PROPERTY TerminateCompletes
