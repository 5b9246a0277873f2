SPECIFICATION DeviceListsSpec
CONSTANTS
    b1 = b1
    b2 = b2
    Body = {b1, b2}
    NoBody = NoBody
    MaxRequests = 3
    Target = {"t"}
    KeyKind = {"otk"}
    MaxChanges = 2
    MaxFaults = 2
SYMMETRY BodySymmetry
CONSTRAINT UntilLoss
INVARIANTS
    NoChangeLost
    NoChangeRepeated
    KeysReachClient
    WaitingIsPoked
\* The homeserver's changes and the client's requests are bounded.
CHECK_DEADLOCK FALSE
