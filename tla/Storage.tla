------------------------------- MODULE Storage -------------------------------
(***************************************************************************)
(* The queries connections make about the events of a room                 *)
(* (state/storage.go), as operators on the tables of Accumulator.          *)
(***************************************************************************)
EXTENDS Accumulator

NoEvent == 0

\* rooms.latest_nid when it is not past pos, else the newest event up to pos
\* (LatestEventInRooms, LatestEventNIDInRooms); NoEvent when there is none.
LatestEventNIDInRooms(pos) ==
    LET upTo == {n \in NIDs : n <= pos}
    IN  IF room.snap # 0 /\ room.latest <= pos THEN room.latest
        ELSE IF upTo = {} THEN NoEvent ELSE MaxOf(upTo)

-----------------------------------------------------------------------------
(* RoomStateAfterEventPosition: the NIDs of the state after pos.           *)

\* An event without a snapshot before it is taken to be part of the state
\* block, and the state after it to be the current state.
BaseSnapshotID(n) == IF events[n].before = 0 THEN room.snap ELSE events[n].before

\* Mutant of RollForward: the replaced event stays.
RollForwardAdds(n, base) == IF events[n].ev.isState THEN base \cup {n} ELSE base

\* Roll the snapshot forward over the latest event itself.
RollForward(n, base) ==
    IF ~events[n].ev.isState THEN base
    ELSE (base \ {events[n].replaces}) \cup {n}

RoomStateAfterEventPosition(pos) ==
    LET n == LatestEventNIDInRooms(pos)
    IN  IF n = NoEvent THEN {} ELSE RollForward(n, snapshots[BaseSnapshotID(n)])

\* The same query for given tuples works on rows: the row that the latest
\* event replaces is exchanged for it, and a latest event that replaces
\* nothing is appended.
FilteredState(pos, tuples) ==
    LET n    == LatestEventNIDInRooms(pos)
        base == {m \in snapshots[BaseSnapshotID(n)] : tupleKey(events[m]) \in tuples}
        rows == Ascending(base)
        subst == [i \in DOMAIN rows |-> IF rows[i] = events[n].replaces THEN n ELSE rows[i]]
    IN  IF n = NoEvent THEN <<>>
        ELSE IF events[n].replaces = 0 /\ tupleKey(events[n]) \in tuples
        THEN Append(subst, n) ELSE subst

-----------------------------------------------------------------------------
(* Which events a user may see.                                            *)

\* SelectEventsWithTypeStateKeyInRooms.
MembershipNIDs(u, from, to) ==
    Ascending({n \in NIDs : /\ from < n /\ n <= to
                            /\ events[n].ev.type = "member" /\ events[n].ev.key = u})

\* determineJoinedRoomsFromMemberships: the NID of the join that the user's
\* last leave or ban does not follow; 0 when not joined.
JoinedSince(logs) ==
    LET value(i) == events[logs[i]].ev.value
        left == {i \in DOMAIN logs : value(i) \in {"leave", "ban"}}
        joins == {i \in DOMAIN logs : value(i) = "join" /\ \A j \in left : j < i}
    IN  IF joins = {} THEN 0 ELSE logs[CHOOSE i \in joins : \A j \in joins : i <= j]

JoinedRoomsAfterPosition(u, pos) == JoinedSince(MembershipNIDs(u, 0, pos)) # 0

\* calculateVisibleEventNIDs goes through the log.  joined is where the range
\* of the current join starts, -1 when not joined; range is the last range.
VisibleStep(acc, n) ==
    LET value == events[n].ev.value
    IN  CASE acc.joined >= 0 /\ value \in {"leave", "ban"} ->
               [joined |-> -1, range |-> <<acc.joined, n>>]
          [] acc.joined < 0 /\ value = "join" -> [acc EXCEPT !.joined = n]
          [] acc.joined < 0 /\ value = "invite" -> [acc EXCEPT !.range = <<n, n>>]
          [] OTHER -> acc

calculateVisibleEventNIDs(isJoined, from, to, logs) ==
    LET start == [joined |-> IF isJoined THEN from ELSE -1, range |-> <<0, 0>>]
        end   == FoldLeft(VisibleStep, start, logs)
    IN  IF logs = <<>> THEN <<from, to>>
        ELSE IF end.joined >= 0 THEN <<end.joined, to>> ELSE end.range

\* visibleEventNIDsBetweenForRooms.  A room without any log of the user, to
\* which the user was not joined before, is not in the result: NoRange.
NoRange == <<0, 0>>
VisibleEventNIDsBetween(u, from, to) ==
    LET isJoined == from # 0 /\ JoinedRoomsAfterPosition(u, from)
        logs     == MembershipNIDs(u, from, to)
    IN  IF isJoined \/ logs # <<>> THEN calculateVisibleEventNIDs(isJoined, from, to, logs)
        ELSE NoRange

\* SelectLatestEventsBetween: the newest limit timeline events, cut off at an
\* event whose predecessor is not known.
TimelineBetween(lo, hi, limit) ==
    LET nids   == Reverse(Ascending({n \in NIDs : lo <= n /\ n <= hi /\ ~events[n].isState}))
        newest == SubSeq(nids, 1, IF limit < Len(nids) THEN limit ELSE Len(nids))
        gaps   == {i \in DOMAIN newest : events[newest[i]].missing}
    IN  IF gaps = {} THEN newest
        ELSE SubSeq(newest, 1, CHOOSE i \in gaps : \A j \in gaps : i <= j)

\* LatestEventsInRooms, newest last.
LatestEventsInRooms(u, to, limit) ==
    LET range == VisibleEventNIDsBetween(u, 0, to)
    IN  Reverse(TimelineBetween(range[1], range[2], limit))
=============================================================================
