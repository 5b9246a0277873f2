-------------------------------- MODULE Live ---------------------------------
(***************************************************************************)
(* How the events of rooms reach the timelines of one connection           *)
(* (sync3/handler/connstate.go, connstate_live.go).  Room data loaded from *)
(* the database and live updates meet in a response: the database is ahead *)
(* of the payloads, payloads are ahead of the update buffer, and events of *)
(* different rooms overtake one another while TxnIDWaiter holds some of    *)
(* them back.                                                              *)
(*                                                                         *)
(* NIDs are positions in events.  The rooms of the list are sorted by      *)
(* recency; the timestamp of an event is its NID.  Responses reach the     *)
(* client once and in order (Conn).                                        *)
(***************************************************************************)
EXTENDS ListOps

CONSTANTS Room,
          Streams,       \* the streams of events that may happen
          Subscriptions, \* sets of room subscriptions the client may ask for
          Ranges,        \* windows the client may ask for, or AllRooms
          TimelineLimit,
          BufferSize,    \* maxPendingEventUpdates
          MaxUpdates     \* updates processed for one response, 100 in the code

ASSUME LiveAssumption ==
    /\ \A r \in Ranges : r # <<>> => Valid(r) /\ Inside(r, 0)
    /\ \A s \in Streams : Range(s) \subseteq
         [room : Room, kind : {"msg", "ignored", "join", "leave", "kick"}]
    /\ {TimelineLimit, BufferSize, MaxUpdates} \subseteq Nat \ {0}

VARIABLES stream,    \* the events of the homeserver
          events,    \* syncv3_events: the room and kind of each
          queue,     \* V2 payloads on their way
          joined,    \* JoinedRoomsTracker: the rooms of the user
          hasLeft,   \* UserRoomData.HasLeft, by room
          waiting,   \* updates in TxnIDWaiter or about to enter the buffer
          updates, bufferFull, \* connStateLive
          anchorLoadPosition, loadPositions, \* ConnState
          list, timestamps,    \* the list and what it is sorted by
          ranges, roomSubscriptions, \* what the client asked for, and has
          reqSubscriptions, \* of which only those of joined rooms are confirmed
          phase, resp, \* whether a request is being answered; its response
          timeline,  \* history: the NIDs sent, from the last initial data on
          firstSent, \* history: where that timeline starts
          synced     \* history: rooms sent with initial data and in view since

database == <<stream, events, queue>>
cacheVars == <<joined, hasLeft>>
connState == <<anchorLoadPosition, loadPositions, list, timestamps, ranges,
               roomSubscriptions, reqSubscriptions, resp, timeline,
               firstSent, synced>>
vars == <<database, cacheVars, waiting, updates, bufferFull, phase, connState>>

-----------------------------------------------------------------------------
(* The database.                                                           *)

NIDs == DOMAIN events
InRoom(r) == {n \in NIDs : events[n].room = r}
Leaves == {"leave", "kick"}
MaxOr0(S) == IF S = {} THEN 0 ELSE Max(S)

\* The user's membership as of a position; 0 if not joined, else the join.
LastJoin(r, to) == MaxOr0({n \in InRoom(r) : n <= to /\ events[n].kind = "join"})
LeftSince(r, join, to) == {n \in InRoom(r) : join < n /\ n <= to /\ events[n].kind \in Leaves}
JoinedAt(r, to) == LastJoin(r, to) # 0 /\ LeftSince(r, LastJoin(r, to), to) = {}

\* Mutant of VisibleNIDs: membership is not taken into account.
VisibleNIDsAll(r, to) == {n \in InRoom(r) : n <= to}

\* visibleEventNIDsBetweenForRooms: from the last join to the leave after it.
VisibleNIDs(r, to) ==
    LET join == LastJoin(r, to)
        left == LeftSince(r, join, to)
        last == IF left = {} THEN to ELSE Min(left)
    IN  {n \in InRoom(r) : join # 0 /\ join <= n /\ n <= last}

\* Handler2 stores the next event and notifies; a leave also comes in the leave
\* section of the user's own sync.
Store ==
    LET nid == Len(events) + 1
        payload(type) == [type |-> type, room |-> stream[nid].room, nid |-> nid]
    IN  /\ nid <= Len(stream)
        /\ events' = Append(events, stream[nid])
        /\ queue' = queue \o (IF stream[nid].kind \in Leaves
                              THEN <<payload("V2Accumulate"), payload("V2LeaveRoom")>>
                              ELSE <<payload("V2Accumulate")>>)
    /\ UNCHANGED stream
    /\ UNCHANGED <<cacheVars, waiting, updates, bufferFull, phase, connState>>

-----------------------------------------------------------------------------
(* The dispatcher and the user cache.  Updates carry a copy of the user's   *)
(* room data.  An event from OnLeftRoom has no NID.                        *)

Update(r, nid, kind, force, left) ==
    [room |-> r, nid |-> nid, kind |-> kind, force |-> force, left |-> left]

\* Dispatcher.OnNewEvent and UserCache.OnNewEvent.
OnNewEvent(p) ==
    LET kind == events[p.nid].kind
        told == p.room \in joined \/ kind = "join"
        force == kind = "join" /\ p.room \notin joined
    IN  /\ joined' = CASE kind = "join" -> joined \cup {p.room}
                       [] kind \in Leaves -> joined \ {p.room}
                       [] OTHER -> joined
        /\ waiting' = IF told /\ ~bufferFull
                      THEN Append(waiting, Update(p.room, p.nid, kind, force, hasLeft[p.room]))
                      ELSE waiting
        /\ UNCHANGED hasLeft

\* UserCache.OnLeftRoom.  Connections see it only after a kick.
OnLeftRoom(p) ==
    /\ hasLeft' = [hasLeft EXCEPT ![p.room] = TRUE]
    /\ waiting' = IF events[p.nid].kind = "kick" /\ ~bufferFull
                  THEN Append(waiting, Update(p.room, 0, "kick", FALSE, TRUE)) ELSE waiting
    /\ UNCHANGED joined

Dispatch ==
    /\ queue # <<>>
    /\ queue' = Tail(queue)
    /\ IF Head(queue).type = "V2Accumulate" THEN OnNewEvent(Head(queue)) ELSE OnLeftRoom(Head(queue))
    /\ UNCHANGED <<stream, events, updates, bufferFull, phase, connState>>

\* TxnIDWaiter publishes the updates of a room in order.
Published(i) == \A j \in 1..(i - 1) : waiting[j].room # waiting[i].room

\* Mutant of onUpdate: a full buffer drops the update.
onUpdateDrops(i) ==
    /\ waiting' = RemoveAt(waiting, i)
    /\ updates' = IF Len(updates) < BufferSize THEN Append(updates, waiting[i]) ELSE updates
    /\ UNCHANGED bufferFull

\* onUpdate: when the buffer stays full the connection is destroyed.
onUpdate(i) ==
    IF Len(updates) < BufferSize
    THEN /\ waiting' = RemoveAt(waiting, i)
         /\ updates' = Append(updates, waiting[i])
         /\ UNCHANGED bufferFull
    ELSE /\ bufferFull' = TRUE
         /\ waiting' = <<>>
         /\ UNCHANGED updates

Publish ==
    /\ ~bufferFull
    /\ \E i \in DOMAIN waiting : Published(i) /\ onUpdate(i)
    /\ UNCHANGED <<database, cacheVars, phase, connState>>

-----------------------------------------------------------------------------
(* Room data.                                                              *)

AllRooms == <<>>  \* slow_get_all_rooms: a list without windows

inWindow(l, rg) == IF rg = AllRooms THEN Range(l) ELSE visible(l, rg)

Ascending(S) ==
    [i \in 1..Cardinality(S) |-> CHOOSE n \in S : Cardinality({m \in S : m < n}) = i - 1]

\* LatestEventsInRooms: the newest events the user may see, up to a position.
LatestEvents(r, to) ==
    LET nids == Ascending(VisibleNIDs(r, to))
    IN  SubSeq(nids, Max({1, Len(nids) - TimelineLimit + 1}), Len(nids))

\* buildRooms and getInitialRoomData for a set of rooms, at an anchor: what they
\* do to loadPositions lp, and the timelines with initial data in place of tl.
\* A room the user never joined has no timeline, and its position stays.
LoadedPositions(lp, rooms, anchor) ==
    [r \in Room |-> IF r \in rooms /\ LatestEvents(r, anchor) # <<>>
                    THEN Last(LatestEvents(r, anchor)) ELSE lp[r]]

\* DiscardIgnoredMessages.
NotIgnored(n) == events[n].kind # "ignored"
InitialTimelines(tl, rooms, anchor) ==
    [r \in Room |-> IF r \in rooms THEN SelectSeq(LatestEvents(r, anchor), NotIgnored) ELSE tl[r]]
StartOfTimelines(first, rooms, anchor) ==
    [r \in Room |-> IF r \notin rooms THEN first[r]
                    ELSE IF LatestEvents(r, anchor) = <<>> THEN anchor + 1
                    ELSE Head(LatestEvents(r, anchor))]

\* Most recent first.
Sorted(rooms, ts) ==
    [i \in 1..Cardinality(rooms) |->
        CHOOSE r \in rooms : Cardinality({q \in rooms : ts[q] > ts[r]}) = i - 1]

-----------------------------------------------------------------------------
(* A request.                                                              *)

NoResponse == [ops |-> FALSE, rooms |-> FALSE, initial |-> FALSE, quota |-> 0, processed |-> 0]
HasData == resp.ops \/ resp.rooms

\* The latest event of a room in the global cache.
Undispatched == {p.nid : p \in {q \in Range(queue) : q.type = "V2Accumulate"}}
LastMessageTimestamp(r) == MaxOr0(InRoom(r) \ Undispatched)

\* load and LoadJoinedRooms, on the first request.  The database is ahead of
\* the caches, from which the timestamps come.
load ==
    LET pos == Len(events)
        rooms == {r \in Room : JoinedAt(r, pos)}
        ts == [r \in Room |-> LastMessageTimestamp(r)]
    IN  [anchor |-> pos, ts |-> ts, list |-> Sorted(rooms, ts),
         positions |-> [r \in Room |-> IF r \in rooms THEN MaxOr0(InRoom(r)) ELSE 0]]

Loaded == [anchor |-> anchorLoadPosition, ts |-> timestamps, list |-> list,
           positions |-> loadPositions]

InRanges(rs, l) == UNION {Range(SliceInto(rs[i], l)) : i \in DOMAIN rs}

\* The rooms newly subscribed to, those the user is not joined to left out.
buildRoomSubscriptions(subs) == (subs \ reqSubscriptions) \cap joined

\* OnIncomingRequest up to liveUpdate: buildRoomSubscriptions,
\* onIncomingListRequest and buildRooms.
OnIncomingRequest(next, subs) ==
    LET isInitial == anchorLoadPosition = 0
    IN  \E state \in {IF isInitial THEN load ELSE Loaded},
           delta \in {IF isInitial THEN [added |-> next, removed |-> <<>>] ELSE Delta(ranges, next)} :
          LET newSubs == buildRoomSubscriptions(subs)
              sendAll == isInitial /\ next = AllRooms
              inList == IF sendAll THEN Range(state.list) ELSE InRanges(delta.added, state.list)
              built == newSubs \cup inList
              confirmed == (roomSubscriptions \cap subs) \cup newSubs
              invalidates == \E i \in DOMAIN delta.removed : delta.removed[i][1] < Len(state.list)
          IN  /\ reqSubscriptions' = subs
              /\ roomSubscriptions' = confirmed
              /\ ranges' = next
              /\ anchorLoadPosition' = state.anchor
              /\ timestamps' = state.ts
              /\ list' = state.list
              /\ loadPositions' = LoadedPositions(state.positions, built, state.anchor)
              /\ timeline' = InitialTimelines(timeline, built, state.anchor)
              /\ firstSent' = StartOfTimelines(firstSent, built, state.anchor)
              /\ synced' = (synced \cup built) \cap (inWindow(state.list, next) \cup confirmed)
              /\ resp' = [NoResponse EXCEPT !.ops = sendAll \/ inList # {} \/ invalidates,
                                            !.rooms = built # {}, !.initial = isInitial]

Ask == phase = "idle" /\ ~bufferFull /\ phase' = "built"

\* Whether the list has windows is settled by the first request.
Request ==
    /\ Ask
    /\ \E next \in Ranges, subs \in Subscriptions :
         /\ anchorLoadPosition # 0 => ((next = AllRooms) <=> (ranges = AllRooms))
         /\ OnIncomingRequest(next, subs)
    /\ UNCHANGED <<database, cacheVars, waiting, updates, bufferFull>>

-----------------------------------------------------------------------------
(* Live updates.                                                           *)

\* Mutant of liveUpdate: updates are processed only while there is no data.
liveUpdateStarves ==
    /\ phase = "built"
    /\ phase' = IF HasData THEN "idle" ELSE "live"
    /\ resp' = IF HasData THEN NoResponse ELSE resp

\* liveUpdate.  A response that has data already is returned, but one that is
\* not the first takes the updates queued up to now with it.
liveUpdate ==
    /\ phase = "built"
    /\ phase' = CASE ~HasData -> "live"
                  [] HasData /\ ~resp.initial /\ updates # <<>> -> "catchup"
                  [] OTHER -> "idle"
    /\ resp' = IF phase' = "idle" THEN NoResponse ELSE [resp EXCEPT !.quota = Len(updates)]

StartLiveUpdate ==
    /\ liveUpdate
    /\ UNCHANGED <<database, cacheVars, waiting, updates, bufferFull, anchorLoadPosition,
                   loadPositions, list, timestamps, ranges, roomSubscriptions,
                   reqSubscriptions, timeline, firstSent, synced>>

\* SetRoom: what becomes of the room in the list.
ListOp(u) ==
    CASE has(list, u.room) /\ ~u.left -> "Change"
      [] has(list, u.room) /\ u.left -> "Del"
      [] ~has(list, u.room) /\ ~u.left -> "Add"
      [] OTHER -> "None"

\* resort and processLiveUpdateForList: the list after the update, the rooms to
\* send in full, and whether there is something to send.
resort(u, op, ts) ==
    LET rooms == CASE op = "Add" -> Range(list) \cup {u.room}
                   [] op = "Del" -> Range(list) \ {u.room}
                   [] OTHER -> Range(list)
        after == Sorted(rooms, ts)
        forced == IF u.force THEN {u.room} ELSE {}
        toSend(res) ==
            [list |-> after, subs |-> res.subs \cup forced, ops |-> res.ops # <<>>,
             hasUpdates |-> \/ resp.ops \/ res.ops # <<>> \/ res.subs # {}
                            \/ u.room \in visible(after, ranges)]
    IN  CASE op = "None" ->
               [list |-> list, subs |-> {}, ops |-> FALSE, hasUpdates |-> FALSE]
          [] op # "None" /\ ranges = AllRooms ->
               [list |-> after, subs |-> forced \cup (IF op = "Add" THEN {u.room} ELSE {}),
                ops |-> FALSE, hasUpdates |-> TRUE]
          [] OTHER -> toSend(CalculateListOps(ranges, list, after, u.room, op))

\* Behind what was loaded for the room, or sent by an ignored user.
Skipped(u) ==
    \/ u.nid # 0 /\ loadPositions[u.room] > 0 /\ u.nid < loadPositions[u.room]
    \/ u.kind = "ignored"

\* Whether the timeline does not have the event already.
AppendsEvent(u, lp) == u.nid # 0 /\ u.nid > lp[u.room]

\* processLiveUpdate for a room event.  Initial rooms are built first.
processLiveUpdate(u) ==
    LET r == u.room
        ts == [timestamps EXCEPT ![r] = u.nid]
        anchor == Max({anchorLoadPosition, u.nid})
        newSub == (({r} \cap reqSubscriptions) \ roomSubscriptions) \cap joined
        confirmed == roomSubscriptions \cup newSub
    IN  \E l \in {resort(u, ListOp(u), ts)} :
          LET built == newSub \cup l.subs
              hasUpdates == r \in confirmed \/ l.hasUpdates
              lp == LoadedPositions(loadPositions, built, anchor)
              tl == InitialTimelines(timeline, built, anchor)
          IN  /\ anchorLoadPosition' = anchor
              /\ timestamps' = ts
              /\ list' = l.list
              /\ roomSubscriptions' = confirmed
              /\ loadPositions' = IF hasUpdates /\ u.nid # 0 THEN [lp EXCEPT ![r] = u.nid] ELSE lp
              /\ timeline' = IF hasUpdates /\ AppendsEvent(u, lp)
                             THEN [tl EXCEPT ![r] = Append(@, u.nid)] ELSE tl
              /\ firstSent' = StartOfTimelines(firstSent, built, anchor)
              /\ synced' = (synced \cup built) \cap (inWindow(l.list, ranges) \cup confirmed)
              /\ resp' = [resp EXCEPT !.ops = @ \/ l.ops, !.rooms = @ \/ built # {} \/ hasUpdates,
                                      !.quota = @ - 1, !.processed = @ + 1]

Consume ==
    /\ updates # <<>>
    /\ \/ phase = "live" /\ (~HasData \/ resp.processed < MaxUpdates)
       \/ phase = "catchup" /\ resp.quota > 0
    /\ updates' = Tail(updates)

processUpdate ==
    /\ Consume
    /\ IF Skipped(Head(updates))
       THEN /\ resp' = [resp EXCEPT !.quota = @ - 1, !.processed = @ + 1]
            /\ UNCHANGED <<anchorLoadPosition, loadPositions, list, timestamps,
                           roomSubscriptions, timeline, firstSent, synced>>
       ELSE processLiveUpdate(Head(updates))
    /\ UNCHANGED <<database, cacheVars, waiting, bufferFull, phase, ranges, reqSubscriptions>>

\* A response is returned when there is data and no update is left, when enough
\* were processed, on timeout, and when the connection is destroyed.
Respond ==
    /\ \/ phase = "live" /\ (updates = <<>> \/ resp.processed >= MaxUpdates \/ bufferFull)
       \/ phase = "catchup" /\ resp.quota = 0
    /\ phase' = "idle"
    /\ resp' = NoResponse
    /\ UNCHANGED <<database, cacheVars, waiting, updates, bufferFull, anchorLoadPosition,
                   loadPositions, list, timestamps, ranges, roomSubscriptions,
                   reqSubscriptions, timeline, firstSent, synced>>

-----------------------------------------------------------------------------
\* The joins a stream begins with happened before.
Init ==
    /\ stream \in Streams
    /\ events = SubSeq(stream, 1, Max({i \in 0..Len(stream) :
                                         \A j \in 1..i : stream[j].kind = "join"}))
    /\ queue = <<>> /\ joined = {events[n].room : n \in NIDs} /\ hasLeft = [r \in Room |-> FALSE]
    /\ waiting = <<>> /\ updates = <<>> /\ bufferFull = FALSE
    /\ anchorLoadPosition = 0 /\ loadPositions = [r \in Room |-> 0]
    /\ list = <<>> /\ timestamps = [r \in Room |-> 0]
    /\ ranges = <<>> /\ roomSubscriptions = {} /\ reqSubscriptions = {}
    /\ phase = "idle" /\ resp = NoResponse
    /\ timeline = [r \in Room |-> <<>>] /\ firstSent = [r \in Room |-> 0] /\ synced = {}

Next ==
    \/ Store \/ Dispatch \/ Publish \/ Request \/ StartLiveUpdate \/ processUpdate \/ Respond

\* Payloads are handled, updates are published, requests are answered and the
\* client keeps asking.  (Ask and Consume are what Request and processUpdate do
\* to phase and to updates, so these are the steps that happen.)
Fairness ==
    /\ WF_vars(Dispatch) /\ WF_vars(Publish)
    /\ WF_phase(Ask) /\ WF_phase(liveUpdate) /\ WF_updates(Consume) /\ WF_phase(Respond)

Spec == Init /\ [][Next]_vars /\ Fairness

-----------------------------------------------------------------------------
(* Properties.                                                             *)

\* An event the user may see: they were joined, or it is their own leave.
MaySee(n) ==
    LET r == events[n].room IN JoinedAt(r, n) \/ JoinedAt(r, n - 1)

Pending(n) == \E u \in Range(queue) \cup Range(waiting) \cup Range(updates) : u.nid = n

\* While a connection lives and a room stays in view, its timeline has no gap:
\* every event since the initial data was sent, or is still on its way through
\* the payloads, TxnIDWaiter and the buffer.  It holds although the initial data
\* comes from the database, which is ahead of all three (loadPositions).
NoEventLost ==
    ~bufferFull =>
        \A r \in synced : \A n \in InRoom(r) :
            n >= firstSent[r] /\ MaySee(n) /\ NotIgnored(n) =>
                n \in Range(timeline[r]) \/ Pending(n)

\* Nothing from before a join, from after a leave or by an ignored user is sent,
\* whatever the race between memberships in the database, the tracker and the
\* buffer (TestSecurityLiveStreamEventLeftLeak).
OnlyVisibleEvents ==
    \A r \in Room : \A n \in Range(timeline[r]) : events[n].room = r /\ MaySee(n) /\ NotIgnored(n)

\* A client that changes its request every time, so that each response has data
\* at once, still gets the events of the rooms in view (the catch-up at the end
\* of liveUpdate).
EventsSent ==
    \A n \in 1..Max({Len(s) : s \in Streams}) :
        (n \in NIDs /\ events[n].room \in synced /\ Pending(n)) ~> (~Pending(n) \/ bufferFull)

\* What processLiveUpdate says of appending to a timeline: "we only append to the
\* timeline if we haven't already got this event".
NoRepeats ==
    \A r \in Room : IsInjective(timeline[r])
=============================================================================
