\* Bounded event channels of capacity 1: a slow consumer is evicted.
CONSTANTS
    s1 = s1
    s2 = s2
    q1 = q1
    q2 = q2
    Ids <- MCIds
    Queries <- MCQueries
    BufSizes = {1}
    MaxEvents = 2
    MaxDup = 0
    OneSubPerQuery = TRUE
    BlockingSends = FALSE
SPECIFICATION Spec
INVARIANT HeldSubscriptionRouted
