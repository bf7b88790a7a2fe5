\* add/confirm_add under two queries: Uniqueness is expected to fail.
CONSTANTS
    s1 = s1
    s2 = s2
    q1 = q1
    q2 = q2
    Ids <- MCIds
    Queries <- MCQueries
    BufSizes = {0}
    MaxEvents = 1
SPECIFICATION Spec
INVARIANT Uniqueness
