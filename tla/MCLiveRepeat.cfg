SPECIFICATION Spec
CONSTANTS
    Room = {"a", "b", "c"}
    Subscriptions = {{}, {"b"}}
    Streams <- MCStreams
    Ranges <- MCRanges
    TimelineLimit = 2
    BufferSize = 2
    MaxUpdates = 2
\* The stream ends, and a connection whose buffer overflowed takes no requests.
CHECK_DEADLOCK FALSE
INVARIANT NoRepeats
