SPECIFICATION Spec
CONSTANTS
    User = {"a", "b"}
    Creator = "a"
    Streams <- MCStreams
    TimelineLimit = 2
    MaxTimelineLimit = 2
    MaxFaults = 1
INVARIANTS
    SnapshotsReplayEvents
    StateAfterPosition
    StateAgreesWithHomeserver
    TimelinesFaithful
    InvitesRetired
    ReachableSnapshotsKept
\* The stream of events ends.
CHECK_DEADLOCK FALSE
