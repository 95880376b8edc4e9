SPECIFICATION Spec
CONSTANTS
    c = c  s1 = s1  s2 = s2  r1 = r1  r2 = r2  r3 = r3
    Clients = {c}
    Servers = {s1, s2}
    RM = {r1, r2, r3}
    Fixed <- StaticRMs
    Dynamic <- DynamicRMs
    Targets <- CallChain
    Program <- Programs
    Services <- Modes
    Controls = {"chained", "stacked"}
    MaxTrans <- Starts
    MaxCalls = 2
    MaxFailed = 1
CONSTRAINT NothingLeftBehind
INVARIANTS
    TypeOK
    CommitCoversWork
    FailureHonoured
    AssociationCurrent
PROPERTIES
    OutcomeFinal
CHECK_DEADLOCK FALSE
