\* A message of two parts, an empty one and one of another sender that may die half way.
SPECIFICATION FairSpec
CONSTANTS
    a = a
    b = b
    m1 = m1
    m2 = m2
    m3 = m3
    e1 = e1
    request = request
    event = event
    Sender = {a, b}
    Message = {m1, m2, m3}
    Event = {e1}
    From <- MCFrom
    Type <- MCType
    Size <- MCSize
    PayloadMax = 2
    Capacity = 2
    NonBlocking = {m1}
    Abandoned = {m1}
    Mortal = {b}
INVARIANTS
    TypeOK
    Intact
    OneRangeMissing
PROPERTIES
    ImplementsMailbox
    Delivered
CHECK_DEADLOCK FALSE
