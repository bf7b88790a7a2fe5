\* One duplicated response on the inbound stream: a second copy of a
\* subscribe acknowledgement is taken for the unsubscribe's answer.
CONSTANTS
    s1 = s1
    s2 = s2
    q1 = q1
    q2 = q2
    Ids <- MCIds
    Queries <- MCQueries
    BufSizes = {0}
    MaxEvents = 0
    MaxDup = 1
    OneSubPerQuery = TRUE
    BlockingSends = FALSE
SPECIFICATION Spec
INVARIANT AnswersGenuine
