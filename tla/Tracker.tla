------------------------------- MODULE Tracker -------------------------------
(***************************************************************************)
(* JoinedRoomsTracker (sync3/tracker.go): who is joined or invited to which *)
(* room, kept twice, by room and by user.  Every method runs under the     *)
(* tracker's lock, so every method is one step.                            *)
(***************************************************************************)
EXTENDS FiniteSets

CONSTANTS Room, User

VARIABLES roomIDToJoinedUsers, userIDToJoinedRooms, roomIDToInvitedUsers

trackerVars == <<roomIDToJoinedUsers, userIDToJoinedRooms, roomIDToInvitedUsers>>

TrackerInit ==
    /\ roomIDToJoinedUsers = [r \in Room |-> {}]
    /\ userIDToJoinedRooms = [u \in User |-> {}]
    /\ roomIDToInvitedUsers = [r \in Room |-> {}]

-----------------------------------------------------------------------------
\* Startup replaces everything by the memberships found in the database.
Startup(joined) ==
    /\ roomIDToJoinedUsers' = joined
    /\ userIDToJoinedRooms' = [u \in User |-> {r \in Room : u \in joined[r]}]
    /\ roomIDToInvitedUsers' = [r \in Room |-> {}]

UsersJoinedRoom(users, r) ==
    /\ roomIDToJoinedUsers' = [roomIDToJoinedUsers EXCEPT ![r] = @ \cup users]
    /\ userIDToJoinedRooms' = [u \in User |->
         IF u \in users THEN userIDToJoinedRooms[u] \cup {r} ELSE userIDToJoinedRooms[u]]
    /\ roomIDToInvitedUsers' = [roomIDToInvitedUsers EXCEPT ![r] = @ \ users]

\* Mutant of LeftRooms: the rooms of the user are left alone.
KeptRooms(u, r) == userIDToJoinedRooms

LeftRooms(u, r) == [userIDToJoinedRooms EXCEPT ![u] = @ \ {r}]

UserLeftRoom(u, r) ==
    /\ roomIDToJoinedUsers' = [roomIDToJoinedUsers EXCEPT ![r] = @ \ {u}]
    /\ userIDToJoinedRooms' = LeftRooms(u, r)
    /\ roomIDToInvitedUsers' = [roomIDToInvitedUsers EXCEPT ![r] = @ \ {u}]

\* What UserLeftRoom returns: the user was aware of the room.
WasJoinedOrInvited(u, r) == u \in roomIDToJoinedUsers[r] \cup roomIDToInvitedUsers[r]

UsersInvitedToRoom(users, r) ==
    /\ roomIDToInvitedUsers' = [roomIDToInvitedUsers EXCEPT ![r] = @ \cup users]
    /\ UNCHANGED <<roomIDToJoinedUsers, userIDToJoinedRooms>>

\* UsersJoinedRoom followed by UsersInvitedToRoom, as OnNewInitialRoomState
\* calls them.
UsersJoinedAndInvited(joined, invited, r) ==
    /\ roomIDToJoinedUsers' = [roomIDToJoinedUsers EXCEPT ![r] = @ \cup joined]
    /\ userIDToJoinedRooms' = [u \in User |->
         IF u \in joined THEN userIDToJoinedRooms[u] \cup {r} ELSE userIDToJoinedRooms[u]]
    /\ roomIDToInvitedUsers' = [roomIDToInvitedUsers EXCEPT ![r] = (@ \ joined) \cup invited]

\* Users no longer joined are taken from the old set of the room.
ReloadMembershipsForRoom(r, joined, invited) ==
    /\ roomIDToJoinedUsers' = [roomIDToJoinedUsers EXCEPT ![r] = joined]
    /\ roomIDToInvitedUsers' = [roomIDToInvitedUsers EXCEPT ![r] = invited]
    /\ userIDToJoinedRooms' = [u \in User |->
         IF u \in joined THEN userIDToJoinedRooms[u] \cup {r}
         ELSE IF u \in roomIDToJoinedUsers[r] THEN userIDToJoinedRooms[u] \ {r}
         ELSE userIDToJoinedRooms[u]]

\* The getters.
JoinedUsersForRoom(r) == roomIDToJoinedUsers[r]
NumInvitedUsersForRoom(r) == Cardinality(roomIDToInvitedUsers[r])

-----------------------------------------------------------------------------
\* The tracker on its own, called in any order.
TrackerNext ==
    \/ \E joined \in [Room -> SUBSET User] : Startup(joined)
    \/ \E r \in Room :
      \/ \E u \in User : UserLeftRoom(u, r)
      \/ \E users \in SUBSET User : UsersJoinedRoom(users, r) \/ UsersInvitedToRoom(users, r)
      \/ \E joined, invited \in SUBSET User :
            \/ UsersJoinedAndInvited(joined, invited, r)
            \/ ReloadMembershipsForRoom(r, joined, invited)

TrackerSpec == TrackerInit /\ [][TrackerNext]_trackerVars

\* The two maps of joins describe the same memberships, however joins, leaves,
\* invites and reloads follow one another: a user is among the joined users of
\* exactly the rooms among that user's joined rooms.
MapsAgree ==
    \A u \in User, r \in Room : u \in roomIDToJoinedUsers[r] <=> r \in userIDToJoinedRooms[u]
=============================================================================
