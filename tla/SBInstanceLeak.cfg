SPECIFICATION Spec
CONSTANTS
    c1 = c1  c2 = c2  s1 = s1  s2 = s2
    Caller = {c1, c2}
    Forward = Forward
    Service = {s1}
    MaxPid = 2
    Configured = 1
    ScaleTo = {0, 2}
    MaxScales = 0
    MaxLookups <- TwoAndOne
    Timeouts = TRUE
    Killable = {}
    Mortal = {}
INVARIANT BusyForSomebody
CHECK_DEADLOCK FALSE
