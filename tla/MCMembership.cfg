SPECIFICATION MembershipSpec
CONSTANTS
    User = {"a", "b"}
    Creator = "a"
    Streams <- MCStreams
    TimelineLimit = 2
    MaxTimelineLimit = 9
    MaxFaults = 1
    Client = {"b"}
INVARIANTS
    MapsAgree
    CachesConverge
    EventsReachMembers
    InitialStateOnce
\* The stream of events ends.
CHECK_DEADLOCK FALSE
