SPECIFICATION FairSpec
CONSTANTS
    Body = {b1, b2}
    NoBody = NoBody
    MaxRequests = 5
INVARIANTS
    AckedResponseRetained
    CachedAnswerExists
PROPERTIES
    StreamSpec
    EveryRequestAnswered
\* The client may stop sending.
CHECK_DEADLOCK FALSE
