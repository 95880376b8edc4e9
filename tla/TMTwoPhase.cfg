SPECIFICATION Spec
CONSTANTS
    t1 = t1  t2 = t2  r1 = r1  r2 = r2
    Trid = {t1, t2}
    RM = {r1, r2}
    ResourceId = {r1, r2}
    Process = {t1, t2}
    Owner <- OwnerSelf
    Concurrency <- One
    MaxInstances = 1
    MaxRequests = 1
    ScaleTo = {}
    OpenResults <- OkOnly
    PrepareResults <- PrepareAny
    CommitResults <- CommitAny
    RollbackResults <- OkOnly
    FullQueues = {}
    Mortal = {}
    LateInvolved = FALSE
    Timeouts = FALSE
SYMMETRY Symmetry
INVARIANTS
    RequestAccounted
    Atomicity
    DecisionDurable
    FinalReply
CHECK_DEADLOCK FALSE
