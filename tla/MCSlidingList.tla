--------------------------- MODULE MCSlidingList ---------------------------
EXTENDS SlidingList, TLC

\* The first window always starts at the top, as the client's DEFAULT_RANGES; the
\* second is anywhere below it.
MCDefault == << <<0, 1>> >>
MCRanges == {MCDefault} \cup
    {Append(MCDefault, r) : r \in {<<2, 3>>, <<3, 4>>, <<2, 4>>}}

\* Nothing is claimed after a panic.
UntilPanic == ~panicked

RoomSymmetry == Permutations(Room)
=============================================================================
