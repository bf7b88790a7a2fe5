\* Safety of routing: two subscribers, a bounded and an unbounded channel,
\* a server that lets both subscribe to one query (fan-out).
CONSTANTS
    s1 = s1
    s2 = s2
    q1 = q1
    q2 = q2
    Ids <- MCIds
    Queries <- MCQueries
    BufSizes = {0, 1}
    MaxEvents = 3
    MaxDup = 0
    OneSubPerQuery = FALSE
    BlockingSends = FALSE
SPECIFICATION Spec
SYMMETRY MCSymmetry
INVARIANT DeliveryExact
