SPECIFICATION Spec
CONSTANTS
    t1 = t1  r1 = r1  r2 = r2  r3 = r3  r9 = r9
    Trid = {t1}
    RM = {r1, r2, r3}
    ResourceId = {r1, r2, r3, r9}
    Process = {t1}
    Owner <- OwnerSelf
    Concurrency <- One
    MaxInstances = 1
    MaxRequests = 2
    ScaleTo = {}
    OpenResults <- OkOnly
    PrepareResults <- PrepareAny
    CommitResults <- OkOnly
    RollbackResults <- OkOnly
    FullQueues = {t1}
    Mortal = {t1}
    LateInvolved = TRUE
    Timeouts = TRUE
INVARIANTS
    TypeOK
    RequestAccounted
    CommitOnlyPrepared
    FinalReply
    NoStaleRows
PROPERTIES
    ImplementsAtomicCommit
CHECK_DEADLOCK FALSE
