SPECIFICATION Spec
CONSTANTS
    q1 = q1  t1 = t1  t2 = t2  c1 = c1  c2 = c2
    Queue = {q1}
    Trid = {t1, t2}
    NoTrid = NoTrid
    Client = {c1, c2}
    Uses <- OwnTrid
    Retries <- OneRetry
    GroupError = GroupError
    MaxMessages = 2
    MaxCrashes = 1
    Batch = 2
    Selectors = {0}
    Readable <- QueuesOnly
    FullQueues = {c1}
    Mortal = {c2}
INVARIANTS
    TypeOK
    CountersAgree
    AtomicEnqueueDurable
    OutcomeDurable
    RetriesBounded
    DeadForgotten
CHECK_DEADLOCK FALSE
