SPECIFICATION FairSpec
CONSTANTS
    Device = {d1, d2}
    Room = {r1}
    NoDevice = NoDevice
    NoQueue = NoQueue
    MaxEvents = 2
INVARIANTS
    RoomOrderKept
    TxnIDBeforeEvent
    ReleasedOnceReported
PROPERTIES
    EventuallyPublished
\* The homeserver has a bounded number of events.
CHECK_DEADLOCK FALSE
