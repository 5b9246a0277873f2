SPECIFICATION FairSpec
CONSTANTS
    MaxMsgs = 3
    Limit = 2
    MaxRestarts = 1
INVARIANTS
    NothingLost
    DeliveredOnceInOrder
PROPERTIES
    EventuallyDelivered
