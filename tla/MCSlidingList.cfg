SPECIFICATION Spec
CONSTANTS
    Room = {r1, r2, r3, r4, r5}
    Undefined = Undefined
    RangeChoices <- MCRanges
    MaxBatch = 1
    MaxChanges = 1
    DefaultRanges <- MCDefault
SYMMETRY RoomSymmetry
CONSTRAINT UntilPanic
INVARIANTS
    ClientAgrees
PROPERTIES
    OnlyLastRoomUnsent
