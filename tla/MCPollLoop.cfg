SPECIFICATION FairSpec
CONSTANTS
    Device = {d1, d2}
    Room = {r1, r2}
    BadRoom = {r2}
    MaxStream = 2
    MaxFaults = 2
    Streams <- MCStreams
    d1 = d1
    d2 = d2
INVARIANTS
    SinceNeverAheadOfData
    ToDeviceStoredOnce
    TablesConverge
PROPERTIES
    EveryResponseProcessed
\* The homeserver has a bounded number of items.
CHECK_DEADLOCK FALSE
