SPECIFICATION Spec
CONSTANTS
    q1 = q1  t1 = t1  t2 = t2  c1 = c1  c2 = c2
    Queue = {q1}
    Trid = {t1, t2}
    NoTrid = NoTrid
    Client = {c1, c2}
    Uses <- AnyTrid
    Retries <- NoRetries
    GroupError = GroupError
    MaxMessages = 1
    MaxCrashes = 0
    Batch = 2
    Selectors = {0}
    Readable <- QueuesOnly
    FullQueues = {}
    Mortal = {}
INVARIANT WaiterPending
CHECK_DEADLOCK FALSE
