SPECIFICATION FairSpec
CONSTANTS
    BufferSize = 1
    Device = {d1}
    Call = {c1, c2}
    NoChan = NoChan
    MaxPollers = 2
INVARIANTS
    NoLostWakeup
    NoDoubleClose
    
PROPERTIES
    EnsurePollingTerminates
\* Requests are bounded and may be used up.
CHECK_DEADLOCK FALSE
