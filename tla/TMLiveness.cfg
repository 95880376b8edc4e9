SPECIFICATION FairSpec
CONSTANTS
    t1 = t1  r1 = r1  r2 = r2  r3 = r3
    Trid = {t1}
    RM = {r1, r2, r3}
    ResourceId = {r1, r2, r3}
    Process = {t1}
    Owner <- OwnerSelf
    Concurrency <- One
    MaxInstances = 1
    MaxRequests = 1
    ScaleTo = {}
    OpenResults <- OkOnly
    PrepareResults <- PrepareFails
    CommitResults <- OkOnly
    RollbackResults <- OkOnly
    FullQueues = {t1}
    Mortal = {t1}
    LateInvolved = FALSE
    Timeouts = FALSE
PROPERTIES
    Answered
    OrphanResolved
CHECK_DEADLOCK FALSE
