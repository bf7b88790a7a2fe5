\* The composed client refines the abstract subscription lifecycle; with two
\* events per run and capacity-1 channels a sink is evicted while Cancelling.
CONSTANTS
    s1 = s1
    s2 = s2
    q1 = q1
    q2 = q2
    Ids <- MCIds
    Queries <- MCQueries
    BufSizes = {1}
    MaxEvents = 2
    MaxDup = 1
    OneSubPerQuery = TRUE
    BlockingSends = FALSE
SPECIFICATION Spec
PROPERTY LifecycleRefined
