SPECIFICATION FairSpec
CONSTANTS
    w1 = w1
    w2 = w2
    p1 = p1
    Clients = {c1, c2}
    Webhooks = {w1, w2}
    Projects = {p1, p2}
    Owner <- OwnerOf
    Keys = {k1}
    NoKey = NoKey
    MaxEvents = 3
    MaxFailures = 1
INVARIANT TypeOK
INVARIANT OneEventPerKey
INVARIANT AnswersAreTrue
INVARIANT EventsAreWhole
PROPERTY FansOutToTheActive
PROPERTY RetriesAreAnswered
CHECK_DEADLOCK FALSE
