----------------------------- MODULE RoomPollers -----------------------------
(***************************************************************************)
(* The pollers of several users feed one room into the database.           *)
(*                                                                         *)
(* The homeserver (external) has a stream of the room's events; a sync     *)
(* from token s at head h returns, for a joined user, the last events of   *)
(* the room as a timeline and what the events before them changed as a     *)
(* state block.  A poller hands the block to Initialise and the timeline   *)
(* to Accumulate (parseRoomsResponse); in between, the callbacks of other  *)
(* pollers run, and a failed call makes it sync again from the same token. *)
(***************************************************************************)
EXTENDS Storage

CONSTANTS User, Creator,
          Streams,          \* the streams of events the room may have
          TimelineLimit,    \* events in a timeline, after a poller's first sync
          MaxTimelineLimit, \* Storage.MaxTimelineLimit
          MaxFaults         \* bound: failed calls

ASSUME RoomPollersAssumption ==
    /\ Creator \in User
    /\ {TimelineLimit, MaxTimelineLimit} \subseteq Nat \ {0}
    /\ MaxFaults \in Nat

VARIABLES stream, head, \* the homeserver: the room's events, and how many exist yet
          since,     \* per user: the since token of the poller
          resp,      \* per user: what remains to be done of the response
          faults,    \* history: failed calls so far
          overtaken, \* history: how older data was stored after newer data
          dropped    \* history: unknown events the timeline filter took for old

upstream == <<stream, head, since, resp>>
history == <<faults, overtaken, dropped>>
vars == <<accumulatorVars, upstream, history>>

-----------------------------------------------------------------------------
(* The homeserver.                                                         *)

MemberEvents(u, from, to) ==
    {i \in DOMAIN stream : /\ from < i /\ i <= to
                           /\ stream[i].type = "member" /\ stream[i].key = u}
LastMember(u, n) == MaxOf({0} \cup MemberEvents(u, 0, n))
MembershipAt(u, n) ==
    IF LastMember(u, n) = 0 THEN "leave" ELSE stream[LastMember(u, n)].value

Send ==
    /\ head < Len(stream)
    /\ head' = head + 1
    /\ UNCHANGED <<accumulatorVars, stream, since, resp, history>>

\* What a sync of u from token s at head h says about the room.
Section(u, s, h) ==
    LET now == MembershipAt(u, h)
        changed == LastMember(u, h) > s
    IN  CASE now = "join" /\ h > s -> "join"
          [] now = "invite" /\ changed -> "invite"
          [] now = "leave" /\ changed /\ s > 0 -> "leave"
          [] OTHER -> "none"

Response(u, s, h) ==
    LET newlyJoined == s = 0 \/ MembershipAt(u, s) # "join"
        joins    == {i \in MemberEvents(u, s, h) : stream[i].value = "join"}
        leaving  == Section(u, s, h) = "leave"
        last     == IF leaving THEN LastMember(u, h) ELSE h
        floor    == IF ~leaving THEN (IF newlyJoined THEN 0 ELSE s)
                    ELSE IF newlyJoined /\ joins = {} THEN last - 1 ELSE s
        limit    == IF s = 0 THEN 1 ELSE TimelineLimit
        first    == MaxOf({floor, last - limit}) + 1
        block    == {i \in (floor + 1)..(first - 1) : stream[i].isState}
        newest   == {i \in block : \A j \in block :
                       <<stream[i].type, stream[i].key>> = <<stream[j].type, stream[j].key>>
                         => j <= i}
    IN  [state    |-> [i \in 1..Cardinality(newest) |-> stream[Ascending(newest)[i]]],
         timeline |-> SubSeq(stream, first, last),
         limited  |-> first > floor + 1]

-----------------------------------------------------------------------------
(* The pollers.  resp[u].todo is the next callback, resp[u].upto the token *)
(* that is stored once all are done.                                       *)

Idle == [todo |-> "sync", upto |-> 0]

Init ==
    /\ AccumulatorInit
    /\ stream \in Streams
    /\ head = 2
    /\ since = [u \in User |-> 0]
    /\ resp = [u \in User |-> Idle]
    /\ faults = 0
    /\ overtaken = {}
    /\ dropped = {}

Todo(u, todo) == resp' = [resp EXCEPT ![u].todo = todo]
Finish(u) ==
    /\ resp' = [resp EXCEPT ![u] = Idle]
    /\ since' = [since EXCEPT ![u] = resp[u].upto]

DoSyncV2(u) ==
    LET h == head
        section == Section(u, since[u], h)
        r == Response(u, since[u], h)
    IN  /\ resp[u].todo = "sync" /\ since[u] < h
        /\ IF section = "none"
           THEN since' = [since EXCEPT ![u] = h] /\ UNCHANGED resp
           ELSE /\ resp' = [resp EXCEPT ![u] =
                     [upto |-> h,
                      todo |-> IF section = "invite" THEN "invite"
                               ELSE IF section = "join" /\ r.state # <<>> THEN "state"
                               ELSE "timeline"]]
                /\ UNCHANGED since
        /\ UNCHANGED <<accumulatorVars, stream, head, history>>

\* Events are stored although the database already has newer ones ("late"), or,
\* from a room that was left, although older ones are missing ("ahead").
Frontier == MaxOf({0} \cup {events[n].ev.id : n \in NIDs})
NoteOrder(part, leaving) ==
    overtaken' = overtaken
        \cup (IF NewNIDs # {} /\ part[Len(part)].id < Frontier THEN {"late"} ELSE {})
        \cup (IF NewNIDs # {} /\ leaving /\ part[1].id > Frontier + 1 THEN {"ahead"} ELSE {})

InitialiseRoom(u) ==
    LET r == Response(u, since[u], resp[u].upto)
    IN  /\ resp[u].todo = "state"
        /\ Initialise(r.state)
        /\ NoteOrder(r.state, FALSE)
        \* on a DataError the rest of the room is skipped, and the token advances (a
        \* create event that is missing in a state block is never in its timeline)
        /\ IF InitialiseFails(r.state) THEN Finish(u) ELSE Todo(u, "timeline") /\ UNCHANGED since
        /\ UNCHANGED <<stream, head, faults, dropped>>

AccumulateRoom(u) ==
    LET r == Response(u, since[u], resp[u].upto)
        leaving == Section(u, since[u], resp[u].upto) = "leave"
        kept == ToSet(filterToNewTimelineEvents(r.timeline))
    IN  /\ resp[u].todo = "timeline"
        /\ Accumulate(r.timeline, r.limited)
        /\ NoteOrder(r.timeline, leaving)
        /\ dropped' = dropped \cup
             {e.id : e \in {e \in ToSet(r.timeline) \ kept : Unknown(e)}}
        /\ IF leaving THEN Todo(u, "left") /\ UNCHANGED since ELSE Finish(u)
        /\ UNCHANGED <<stream, head, faults>>

OnLeftRoom(u) ==
    /\ resp[u].todo = "left"
    /\ RemoveInvite(u)
    /\ Finish(u)
    /\ UNCHANGED <<stream, head, history>>

\* The newest membership of u in the database, as an event ID.
KnownMembership(u) ==
    MaxOf({0} \cup {events[n].ev.id : n \in {m \in NIDs : tupleKey(events[m]) = <<"member", u>>}})

OnInvite(u) ==
    /\ resp[u].todo = "invite"
    /\ InsertInvite(u, LastMember(u, resp[u].upto))
    /\ overtaken' = IF KnownMembership(u) > LastMember(u, resp[u].upto)
                    THEN overtaken \cup {"invite"} ELSE overtaken
    /\ Finish(u)
    /\ UNCHANGED <<stream, head, faults, dropped>>

\* A callback fails: nothing of its transaction is stored, and the poller
\* syncs again from the token it has.  (Failing at the first callback of a
\* response is the same as not having asked for it yet.)
CallbackFails(u) ==
    /\ resp[u].todo \in {"timeline", "left"} /\ faults < MaxFaults
    /\ faults' = faults + 1
    /\ resp' = [resp EXCEPT ![u] = Idle]
    /\ UNCHANGED <<accumulatorVars, stream, head, since, overtaken, dropped>>

\* Cleaner.
Clean ==
    /\ RemoveInaccessibleStateSnapshots(MaxTimelineLimit)
    /\ snapshots' # snapshots
    /\ UNCHANGED <<upstream, history>>

Next ==
    \/ Send
    \/ \E u \in User : \/ DoSyncV2(u) \/ InitialiseRoom(u) \/ AccumulateRoom(u)
                       \/ OnLeftRoom(u) \/ OnInvite(u) \/ CallbackFails(u)
    \/ Clean

Spec == Init /\ [][Next]_vars

-----------------------------------------------------------------------------
(* Properties.                                                             *)

\* No older data was stored after newer data, nor newer data before older.
InOrder == overtaken \subseteq {"invite"}

StateNIDs(upTo) == {n \in NIDs : n <= upTo /\ events[n].ev.isState}
NewestPerTuple(S) ==
    {n \in S : \A m \in S : tupleKey(events[m]) = tupleKey(events[n]) => m <= n}

\* However state blocks and timelines of several pollers interleave and
\* repeat, the current snapshot of the room holds exactly the newest stored
\* event of every (type, state key), and the snapshot recorded before a
\* timeline event holds the newest of those stored before it (Initialise,
\* Accumulate, calculateNewSnapshot).
SnapshotsReplayEvents ==
    /\ room.snap # 0 => snapshots[room.snap] = NewestPerTuple(StateNIDs(Len(events)))
    /\ \A n \in NIDs : LET b == events[n].before IN
         b # 0 /\ snapshots[b] # Deleted => snapshots[b] = NewestPerTuple(StateNIDs(n - 1))

\* RoomStateAfterEventPosition returns, for a position at which a timeline
\* event is the latest or which is not behind the database, the state after
\* that position and no further; the query for given tuples returns the event
\* of every tuple exactly once when the latest event is of the timeline.
StateAfterPosition ==
    \A pos \in NIDs :
      LET n == LatestEventNIDInRooms(pos)
          want == NewestPerTuple(StateNIDs(pos))
          tuples == {<<"member", u>> : u \in User} \cup {<<"name", "">>}
          got == FilteredState(pos, tuples)
      IN  (n # NoEvent /\ snapshots[BaseSnapshotID(n)] # Deleted) =>
            /\ pos >= room.latest \/ events[n].before # 0
                 => RoomStateAfterEventPosition(pos) = want
            /\ events[n].before # 0
                 => /\ IsInjective(got)
                    /\ ToSet(got) = {m \in want : tupleKey(events[m]) \in tuples}

\* As long as no older data was stored after newer data, the current snapshot
\* is the homeserver's state at the newest event stored, whatever gaps the
\* timelines had and whichever calls failed; space children and encryption
\* follow it; and that event is not older than what any poller of a joined
\* user has acknowledged.
StateAgreesWithHomeserver ==
    (InOrder /\ room.snap # 0) =>
        LET upTo == {i \in DOMAIN stream : i <= Frontier /\ stream[i].isState}
            same(i, j) == <<stream[i].type, stream[i].key>> = <<stream[j].type, stream[j].key>>
            newest == {i \in upTo : \A j \in upTo : same(i, j) => j <= i}
        IN  /\ {events[n].ev.id : n \in snapshots[room.snap]} = newest
            /\ spaces = {stream[i].key : i \in {j \in newest :
                             stream[j].type = "space.child" /\ stream[j].value = "via"}}
            /\ room.encrypted <=> \E i \in upTo : stream[i].type = "encryption"
            /\ \A u \in User : MembershipAt(u, since[u]) = "join" /\ since[u] > 0
                                 => Frontier >= since[u]

\* A timeline read for a user holds only events from the user's last stay in
\* the room, the event that ended it included, or the user's own membership
\* events (calculateVisibleEventNIDs).  It has no unmarked gap except around an
\* event that was stored from a state block, or that filterToNewTimelineEvents
\* took for old: apart from these, two consecutive events of a timeline are
\* consecutive events of the room (missing_previous).
TimelinesFaithful ==
    InOrder =>
      \A u \in User, pos \in NIDs :
        LET t == LatestEventsInRooms(u, pos, Len(stream))
            id(i) == events[t[i]].ev.id
        IN  /\ \A i \in DOMAIN t :
                 MembershipAt(u, id(i)) = "join" \/ id(i) \in MemberEvents(u, 0, id(i))
            /\ \A i \in 1..(Len(t) - 1) :
                 LET between == (id(i) + 1)..(id(i + 1) - 1)
                 IN  /\ id(i) < id(i + 1)
                     /\ between # {} =>
                          \/ between \cap dropped # {}
                          \/ \E n \in NIDs : events[n].ev.id \in between /\ events[n].isState

\* An invite is kept only while no later membership of the user is stored,
\* unless it was stored after that membership (RemoveSupersededInvites,
\* OnLeftRoom).
InvitesRetired ==
    overtaken = {} =>
      \A i \in invites : LET known == KnownMembership(i.user)
                         IN  known > i.invite => stream[known].value = "invite"

\* The snapshots that reads of the newest MaxTimelineLimit timeline events
\* need survive RemoveInaccessibleStateSnapshots, as long as state blocks did
\* not add snapshots of their own after these events.
ReachableSnapshotsKept ==
    /\ room.snap # 0 => snapshots[room.snap] # Deleted
    /\ \A n \in NIDs :
         LET after == {m \in NIDs : m >= n}
         IN  /\ events[n].before # 0 /\ \A m \in after : ~events[m].isState
             /\ Cardinality(after) <= MaxTimelineLimit
             => snapshots[events[n].before] # Deleted
=============================================================================
