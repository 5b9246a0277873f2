---------------------------- MODULE TrackerProofs ----------------------------
(***************************************************************************)
(* JoinedRoomsTracker keeps its two maps of joins in agreement, for any    *)
(* rooms and users and any order of calls.                                 *)
(***************************************************************************)
EXTENDS Tracker, TLAPS

\* The maps have an entry, possibly empty, for every room and every user.
TrackerTypeOK ==
    /\ roomIDToJoinedUsers \in [Room -> SUBSET User]
    /\ userIDToJoinedRooms \in [User -> SUBSET Room]
    /\ roomIDToInvitedUsers \in [Room -> SUBSET User]

IInv == TrackerTypeOK /\ MapsAgree

\* The tracker starts with empty maps, which agree.
LEMMA InitEstablishes == TrackerInit => IInv
BY DEF TrackerInit, IInv, TrackerTypeOK, MapsAgree

\* Loading the memberships at start-up fills both maps from the same rows.
LEMMA StartupPreserves ==
    ASSUME NEW joined \in [Room -> SUBSET User], Startup(joined)
    PROVE  IInv'
BY DEF Startup, IInv, TrackerTypeOK, MapsAgree

\* Joins are added to both maps.
LEMMA JoinPreserves ==
    ASSUME IInv, NEW r \in Room, NEW users \in SUBSET User, UsersJoinedRoom(users, r)
    PROVE  IInv'
BY DEF UsersJoinedRoom, IInv, TrackerTypeOK, MapsAgree

\* A leave is removed from both maps.
LEMMA LeavePreserves ==
    ASSUME IInv, NEW r \in Room, NEW u \in User, UserLeftRoom(u, r)
    PROVE  IInv'
BY DEF UserLeftRoom, LeftRooms, IInv, TrackerTypeOK, MapsAgree

\* Invites touch neither map of joins.
LEMMA InvitePreserves ==
    ASSUME IInv, NEW r \in Room, NEW users \in SUBSET User, UsersInvitedToRoom(users, r)
    PROVE  IInv'
BY DEF UsersInvitedToRoom, IInv, TrackerTypeOK, MapsAgree

\* An initial state block adds its joins to both maps.
LEMMA InitialStatePreserves ==
    ASSUME IInv, NEW r \in Room, NEW joined \in SUBSET User, NEW invited \in SUBSET User,
           UsersJoinedAndInvited(joined, invited, r)
    PROVE  IInv'
BY DEF UsersJoinedAndInvited, IInv, TrackerTypeOK, MapsAgree

\* A reload takes the users to remove from the old joined users of the room.
\* That these are all users listing the room is what MapsAgree says before it.
LEMMA ReloadPreserves ==
    ASSUME IInv, NEW r \in Room, NEW joined \in SUBSET User, NEW invited \in SUBSET User,
           ReloadMembershipsForRoom(r, joined, invited)
    PROVE  IInv'
BY DEF ReloadMembershipsForRoom, IInv, TrackerTypeOK, MapsAgree

\* However joins, leaves, invites, initial state, reloads and start-up follow one
\* another, a user is among the joined users of a room exactly when the room is
\* among that user's rooms (tracker.go keeps the two maps by hand).
THEOREM TrackerMapsAgree == TrackerSpec => []MapsAgree
<1>1. TrackerInit => IInv
  BY InitEstablishes
<1>2. IInv /\ [TrackerNext]_trackerVars => IInv'
  <2> SUFFICES ASSUME IInv, [TrackerNext]_trackerVars
               PROVE  IInv'
    OBVIOUS
  <2>1. CASE \E joined \in [Room -> SUBSET User] : Startup(joined)
    BY <2>1, StartupPreserves
  <2>2. ASSUME NEW r \in Room, NEW u \in User, UserLeftRoom(u, r)
        PROVE  IInv'
    BY <2>2, LeavePreserves
  <2>3. ASSUME NEW r \in Room, NEW users \in SUBSET User,
               UsersJoinedRoom(users, r) \/ UsersInvitedToRoom(users, r)
        PROVE  IInv'
    BY <2>3, JoinPreserves, InvitePreserves
  <2>4. ASSUME NEW r \in Room, NEW joined \in SUBSET User, NEW invited \in SUBSET User,
               \/ UsersJoinedAndInvited(joined, invited, r)
               \/ ReloadMembershipsForRoom(r, joined, invited)
        PROVE  IInv'
    BY <2>4, InitialStatePreserves, ReloadPreserves
  <2>5. CASE UNCHANGED trackerVars
    BY <2>5 DEF IInv, TrackerTypeOK, MapsAgree, trackerVars
  <2> QED
    BY <2>1, <2>2, <2>3, <2>4, <2>5 DEF TrackerNext
<1>3. IInv => MapsAgree
  BY DEF IInv
<1> QED
  BY <1>1, <1>2, <1>3, PTL DEF TrackerSpec
==============================================================================
