SPECIFICATION Spec
CONSTANTS
    t1 = t1  r1 = r1  r2 = r2
    Trid = {t1}
    RM = {r1, r2}
    ResourceId = {r1, r2}
    Process = {t1}
    Owner <- OwnerSelf
    Concurrency <- One
    MaxInstances = 1
    MaxRequests = 1
    ScaleTo = {}
    OpenResults <- OkOnly
    PrepareResults <- PrepareFails
    CommitResults <- OkOnly
    RollbackResults <- OkOnly
    FullQueues = {}
    Mortal = {}
    LateInvolved = FALSE
    Timeouts = FALSE
INVARIANTS
    ReplyMatches
CHECK_DEADLOCK FALSE
