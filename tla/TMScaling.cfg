SPECIFICATION Spec
CONSTANTS
    t1 = t1  t2 = t2  t3 = t3  r1 = r1
    Trid = {t1, t2, t3}
    RM = {r1}
    ResourceId = {r1}
    Process = {t1, t2, t3}
    Owner <- OwnerSelf
    Concurrency <- One
    MaxInstances = 2
    MaxRequests = 1
    ScaleTo = {1, 2}
    OpenResults <- OpenAny
    PrepareResults <- PrepareAny
    CommitResults <- OkOnly
    RollbackResults <- OkOnly
    FullQueues = {}
    Mortal = {}
    LateInvolved = FALSE
    Timeouts = FALSE
SYMMETRY Symmetry
INVARIANTS
    PendingOnlyWhenBusy
    InstanceAccounted
CHECK_DEADLOCK FALSE
