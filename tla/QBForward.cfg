SPECIFICATION FairSpec
CONSTANTS
    g1 = g1  g2 = g2  n1 = n1  n2 = n2  t1 = t1  c1 = c1  p1 = p1
    Group = {g1, g2}
    Name = {n1, n2}
    Owns <- Shared
    Trid = {t1}
    Client = {c1}
    Proxy = {p1}
    Failing = {g1}
    Mortal = {g2, p1, c1}
    MaxDeaths = 1
    MaxWork = 2
    MaxRequests = 2
    MaxAdmin = 1
INVARIANTS
    TypeOK
    AnswerTrue
    PendingAccounted
    QueuesServed
PROPERTIES
    Answered
CHECK_DEADLOCK FALSE
