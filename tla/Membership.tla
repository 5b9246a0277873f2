----------------------------- MODULE Membership ------------------------------
(***************************************************************************)
(* The API half follows a room: the pollers store events and notify        *)
(* (RoomPollers), and one goroutine handles the payloads in order, long    *)
(* after the database moved on.  It feeds the JoinedRoomsTracker, the      *)
(* GlobalCache and, through the Dispatcher, the caches of registered users *)
(* (sync3/dispatcher.go, sync3/caches/global.go, the V2 payload methods of *)
(* sync3/handler/handler.go).                                              *)
(***************************************************************************)
EXTENDS RoomPollers

CONSTANT Client \* the users who have connections

ASSUME MembershipAssumption == Client \subseteq User

VARIABLES queue,     \* V2 payloads on their way to the API half
          roomIDToJoinedUsers, userIDToJoinedRooms, roomIDToInvitedUsers,
          metadata,  \* GlobalCache.roomIDToMetadata for the room
          userToReceiver, \* per user: the NID its cache was loaded at, or Unregistered
          last,      \* history: the event dispatched by this step, and to whom
          degraded,  \* history: OnNewInitialRoomState met a room with members
          stale,     \* history: a read failed, and nothing was reloaded since
          restarted  \* history: the process was restarted

R == "r"
INSTANCE Tracker WITH Room <- {R}

tracker == <<roomIDToJoinedUsers, userIDToJoinedRooms, roomIDToInvitedUsers>>
apiState == <<tracker, metadata, userToReceiver>>
apiHistory == <<degraded, stale, restarted>>
membershipVars == <<vars, queue, apiState, last, apiHistory>>

Unregistered == -1
NoDispatch == [nid |-> 0, heard |-> {}, registered |-> {}]

-----------------------------------------------------------------------------
(* The global cache.  A name is the ID of its event, 0 when it is empty.   *)

NewRoomMetadata ==
    [known |-> FALSE, name |-> 0, joinCount |-> 0, inviteCount |-> 0,
     counted |-> FALSE, heroes |-> {}, encrypted |-> FALSE, children |-> {}, reset |-> FALSE]

IsMembershipChange(e) == MembershipAt(e.key, e.id - 1) # e.value

NameOf(row) == IF row.redacted THEN 0 ELSE row.ev.id

\* GlobalCache.OnNewEvent for a member event: counts are those of the tracker.
\* counted says whether they were ever set.
OnMemberEvent(m, e, joinCount, inviteCount) ==
    LET change == IsMembershipChange(e)
    IN  [m EXCEPT !.joinCount = IF change THEN joinCount ELSE @,
                  !.inviteCount = IF change THEN inviteCount ELSE @,
                  !.counted = @ \/ change,
                  !.heroes = IF e.value \in {"join", "invite"} THEN @ \cup {e.key}
                             ELSE IF change THEN @ \ {e.key} ELSE @]

GlobalOnNewEvent(m, row, joinCount, inviteCount) ==
    LET e == row.ev
        k == [m EXCEPT !.known = TRUE]
    IN  CASE e.type = "name" -> [k EXCEPT !.name = NameOf(row)]
          [] e.type = "encryption" -> [k EXCEPT !.encrypted = TRUE]
          [] e.type = "space.child" -> [k EXCEPT !.children =
                 IF e.value = "via" THEN @ \cup {e.key} ELSE @ \ {e.key}]
          [] e.type = "member" -> OnMemberEvent(k, e, joinCount, inviteCount)
          [] OTHER -> k

CurrentRows == {events[n] : n \in SnapshotAt(room.snap)}
CurrentMembers(values) ==
    {row.ev.key : row \in {r \in CurrentRows : r.ev.type = "member" /\ r.ev.value \in values}}
CurrentName ==
    LET names == {r \in CurrentRows : r.ev.type = "name"}
    IN  IF names = {} THEN 0 ELSE NameOf(CHOOSE r \in names : TRUE)

\* Mutant of ResetMetadataState: a name that was redacted is kept.
ResetKeepsName(m) ==
    [m EXCEPT !.joinCount = Cardinality(CurrentMembers({"join"})),
              !.inviteCount = Cardinality(CurrentMembers({"invite"})),
              !.counted = TRUE,
              !.heroes = CurrentMembers({"join", "invite"}),
              !.encrypted = @ \/ \E r \in CurrentRows : r.ev.type = "encryption",
              !.children = {}, !.reset = TRUE]

\* The query selects neither space children nor users who left.
ResetMetadataState(m) ==
    [m EXCEPT !.name = IF \E r \in CurrentRows : r.ev.type = "name" THEN CurrentName ELSE @,
              !.joinCount = Cardinality(CurrentMembers({"join"})),
              !.inviteCount = Cardinality(CurrentMembers({"invite"})),
              !.counted = TRUE,
              !.heroes = CurrentMembers({"join", "invite"}),
              !.encrypted = @ \/ \E r \in CurrentRows : r.ev.type = "encryption",
              !.children = {}, !.reset = TRUE]

\* GlobalCache.OnInvalidateRoom: a room that is not in the cache is left alone.
GlobalOnInvalidateRoom == metadata' = IF metadata.known THEN ResetMetadataState(metadata) ELSE metadata

\* MetadataForAllRooms and AllJoinedMembers, for Startup.
StartupMetadata ==
    [known |-> events # <<>>,
     name |-> CurrentName,
     \* counts and heroes are loaded for rooms with a joined member only
     joinCount |-> Cardinality(CurrentMembers({"join"})),
     inviteCount |-> IF CurrentMembers({"join"}) = {} THEN 0
                     ELSE Cardinality(CurrentMembers({"invite"})),
     counted |-> CurrentMembers({"join"}) # {},
     heroes |-> IF CurrentMembers({"join"}) = {} THEN {} ELSE CurrentMembers({"join", "invite"}),
     encrypted |-> room.encrypted, children |-> spaces, reset |-> FALSE]

-----------------------------------------------------------------------------
(* The dispatcher.                                                         *)

Registered == {u \in User : userToReceiver[u] # Unregistered}

\* A user cache is built from the database and registered (SyncLiveHandler.
\* userCache).  OnRegistered loads the joined rooms at the latest position.
Register(u) ==
    /\ u \in Client \ Registered
    /\ userToReceiver' = [userToReceiver EXCEPT ![u] = Len(events)]
    /\ UNCHANGED <<vars, queue, tracker, metadata, apiHistory>>

UpdateTracker(e) ==
    CASE e.type = "member" /\ e.value = "invite" -> UsersInvitedToRoom({e.key}, R)
      [] e.type = "member" /\ e.value = "join"   -> UsersJoinedRoom({e.key}, R)
      [] e.type = "member" /\ e.value = "leave"  -> UserLeftRoom(e.key, R)
      [] OTHER -> UNCHANGED tracker

\* The target of a leave is told if it was aware of the room.
LeaveAfterJoinOrInvite(e) ==
    IF e.type = "member" /\ e.value = "leave" /\ WasJoinedOrInvited(e.key, R)
    THEN {e.key} ELSE {}

OnNewEvent(row, nid) ==
    LET told == (JoinedUsersForRoom(R)' \cup LeaveAfterJoinOrInvite(row.ev)) \cap Registered
    IN  /\ UpdateTracker(row.ev)
        /\ metadata' = GlobalOnNewEvent(metadata, row,
              Cardinality(JoinedUsersForRoom(R)'), NumInvitedUsersForRoom(R)')
        /\ last' = [nid |-> nid, heard |-> told, registered |-> Registered]

Pop == queue' = Tail(queue)
IsHead(type) == queue # <<>> /\ Head(queue).type = type

\* SyncLiveHandler.Accumulate: the events of the payload are read at once and
\* dispatched one by one; the payload "events" is the rest of its loop.
Dispatch(nids, rows) ==
    /\ OnNewEvent(rows[1], nids[1])
    /\ queue' = (IF Len(nids) = 1 THEN <<>>
                 ELSE <<[type |-> "events", nids |-> Tail(nids), rows |-> Tail(rows)]>>)
                \o Tail(queue)
    /\ UNCHANGED <<vars, userToReceiver, apiHistory>>

AccumulatePayload ==
    \/ /\ IsHead("V2Accumulate")
       /\ LET nids == Head(queue).nids IN Dispatch(nids, [i \in DOMAIN nids |-> events[nids[i]]])
    \/ IsHead("events") /\ Dispatch(Head(queue).nids, Head(queue).rows)

\* OnNewInitialRoomState: in bulk, unless the tracker already has members.
\* All events carry NID 0, which connections ignore.
OnNewInitialRoomState ==
    /\ IsHead("V2Initialise")
    /\ LET nids    == Head(queue).nids
           rows    == [i \in DOMAIN nids |-> events[nids[i]]]
           users(value) == {rows[i].ev.key : i \in {j \in DOMAIN rows :
                              rows[j].ev.type = "member" /\ rows[j].ev.value = value}}
       IN  /\ UsersJoinedAndInvited(users("join"), users("invite"), R)
           /\ metadata' = FoldLeft(LAMBDA m, row : GlobalOnNewEvent(m, row,
                              Cardinality(JoinedUsersForRoom(R)'),
                              NumInvitedUsersForRoom(R)'), metadata, rows)
    /\ degraded' = (degraded \/ JoinedUsersForRoom(R) # {})
    /\ Pop
    /\ UNCHANGED <<vars, userToReceiver, stale, restarted>>

OnStateRedaction ==
    /\ IsHead("V2StateRedaction")
    /\ GlobalOnInvalidateRoom
    /\ Pop
    /\ UNCHANGED <<vars, tracker, userToReceiver, apiHistory>>

\* FetchMemberships, ReloadMembershipsForRoom, UnregisterBulk.
InvolvedUsers == CurrentMembers({"join", "invite", "leave"})

\* Mutant of UnregisterInvolved: only users in the room lose their caches.
UnregisterJoined ==
    userToReceiver' = [u \in User |->
        IF u \in CurrentMembers({"join"}) /\ u \in roomIDToJoinedUsers[R]
        THEN Unregistered ELSE userToReceiver[u]]

UnregisterInvolved ==
    userToReceiver' = [u \in User |->
        IF u \in InvolvedUsers THEN Unregistered ELSE userToReceiver[u]]

OnInvalidateRoom ==
    /\ IsHead("V2InvalidateRoom")
    /\ GlobalOnInvalidateRoom
    /\ ReloadMembershipsForRoom(R, CurrentMembers({"join"}), CurrentMembers({"invite"}))
    /\ UnregisterInvolved
    /\ stale' = (stale /\ ~metadata.known)
    /\ Pop
    /\ UNCHANGED <<vars, degraded, restarted>>

\* A read of the database fails: the payload is dropped.  An invalidation whose
\* memberships cannot be fetched may have reset the global cache.
ReadFails ==
    /\ faults < MaxFaults /\ queue # <<>> /\ Head(queue).type # "events"
    /\ faults' = faults + 1
    /\ stale' = TRUE
    /\ \/ UNCHANGED metadata
       \/ IsHead("V2InvalidateRoom") /\ GlobalOnInvalidateRoom
    /\ Pop
    /\ UNCHANGED <<accumulatorVars, upstream, overtaken, dropped, tracker, userToReceiver>>
    /\ UNCHANGED <<degraded, restarted>>

\* The process restarts: the payloads and everything in memory are gone, and
\* pollers sync again from their tokens.  SyncLiveHandler.Startup loads the
\* tracker and the global cache before any poller runs.
Restart ==
    /\ faults < MaxFaults
    /\ faults' = faults + 1
    /\ restarted' = TRUE
    /\ queue' = <<>>
    /\ resp' = [u \in User |-> Idle]
    /\ Startup([r \in {R} |-> CurrentMembers({"join"})])
    /\ metadata' = StartupMetadata
    /\ userToReceiver' = [u \in User |-> Unregistered]
    /\ stale' = FALSE
    /\ UNCHANGED <<accumulatorVars, stream, head, since, overtaken, dropped, degraded>>

-----------------------------------------------------------------------------
MembershipInit ==
    /\ Init
    /\ queue = <<>>
    /\ TrackerInit
    /\ metadata = NewRoomMetadata
    /\ userToReceiver = [u \in User |-> Unregistered]
    /\ last = NoDispatch
    /\ degraded = FALSE
    /\ stale = FALSE
    /\ restarted = FALSE

\* Mutant of Notify: every state block is announced as the first one.
NotifyInitialise(u) ==
    \/ InitialiseRoom(u) /\ queue' = queue \o
          (IF NewNIDs = {} THEN <<>>
           ELSE <<[type |-> "V2Initialise", nids |-> Ascending(snapshots'[room'.snap])]>>)
    \/ AccumulateRoom(u) /\ queue' = queue \o AccumulatePayloads

\* Handler2.Initialise and Accumulate notify once the transaction is done.
Notify(u) ==
    \/ InitialiseRoom(u) /\ queue' = queue \o InitialisePayloads
    \/ AccumulateRoom(u) /\ queue' = queue \o AccumulatePayloads

\* The pollers, without the failures that RoomPollers has.
PollersNext ==
    /\ \/ \E u \in User : Notify(u)
       \/ Send /\ UNCHANGED queue
       \/ \E u \in User : (DoSyncV2(u) \/ OnLeftRoom(u) \/ OnInvite(u)) /\ UNCHANGED queue
    /\ UNCHANGED <<apiState, apiHistory>>

MembershipNext ==
    \/ AccumulatePayload
    \/ /\ \/ PollersNext
          \/ \E u \in User : Register(u)
          \/ OnNewInitialRoomState
          \/ OnStateRedaction \/ OnInvalidateRoom
          \/ ReadFails \/ Restart
       /\ last' = NoDispatch

MembershipSpec == MembershipInit /\ [][MembershipNext]_membershipVars

-----------------------------------------------------------------------------
(* Properties.                                                             *)

\* When every payload was handled, the tracker and the room metadata say what
\* the current snapshot in the database says, although reloads saw a database
\* that was ahead of the payloads and applied their events a second time, and
\* whatever was redacted.  A failed read is repaired by the next
\* invalidation.  Exceptions the code makes: invites are not loaded at a
\* restart; counts are not set by an initial state in which no membership
\* changed; space children are lost by a reset.
CachesConverge ==
    (queue = <<>> /\ room.snap # 0 /\ ~stale /\ metadata.known) =>
        /\ roomIDToJoinedUsers[R] = CurrentMembers({"join"})
        /\ roomIDToInvitedUsers[R] \subseteq CurrentMembers({"invite"})
        /\ ~restarted => roomIDToInvitedUsers[R] = CurrentMembers({"invite"})
        /\ metadata.name = CurrentName
        /\ metadata.encrypted = room.encrypted
        /\ metadata.counted => metadata.joinCount = Cardinality(CurrentMembers({"join"}))
        /\ metadata.counted /\ ~restarted =>
             /\ metadata.inviteCount = Cardinality(CurrentMembers({"invite"}))
             /\ metadata.heroes = CurrentMembers({"join", "invite"})
        /\ metadata.children \subseteq spaces
        /\ ~metadata.reset => metadata.children = spaces

\* The membership of u as of NID n in the database.
StoredMembership(u, n) ==
    LET S == {m \in NIDs : m <= n /\ tupleKey(events[m]) = <<"member", u>>}
    IN  IF S = {} THEN "none" ELSE events[MaxOf(S)].ev.value

\* An event that is newer than what the cache of a user was loaded from is
\* dispatched to that user exactly if the user is joined as of the event, or
\* the event is the user's own leave after a join or an invite - even when the
\* tracker was reloaded from a database that was ahead of the event
\* (Dispatcher.OnNewEvent, OnInvalidateRoom).  An invite from before a restart
\* does not count.
EventsReachMembers ==
    LET n == last.nid
        before(u) == StoredMembership(u, n - 1)
        leaves(u) == events[n].ev.type = "member" /\ events[n].ev.key = u
                       /\ events[n].ev.value = "leave"
    IN  (n # 0 /\ ~stale) =>
          \A u \in last.registered \cap Registered :
            (userToReceiver[u] < n /\ ~(restarted /\ leaves(u) /\ before(u) = "invite")) =>
              (u \in last.heard <=> \/ StoredMembership(u, n) = "join"
                                    \/ leaves(u) /\ before(u) \in {"join", "invite"})

\* A room is announced with its initial state only while the tracker knows no
\* member of it: "this should be impossible" in OnNewInitialRoomState.
InitialStateOnce == ~degraded
=============================================================================
