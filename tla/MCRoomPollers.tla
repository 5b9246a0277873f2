---------------------------- MODULE MCRoomPollers ----------------------------
(* Two users in a room.  The creator is a; b is invited, joins, leaves,     *)
(* comes back or rejects the invite, between messages and state changes.    *)
EXTENDS RoomPollers

Ev(type, key, value, isState) ==
    [id |-> 0, type |-> type, key |-> key, value |-> value, isState |-> isState, redacts |-> 0]

Name == Ev("name", "", "", TRUE)
Message == Ev("message", "", "", FALSE)
Encryption == Ev("encryption", "", "", TRUE)
Child(via) == Ev("space.child", "c", via, TRUE)
Member(u, value) == Ev("member", u, value, TRUE)
Invite == Member("b", "invite")
Join == Member("b", "join")
Leave == Member("b", "leave")

Room(evs) ==
    LET all == <<Ev("create", "", "", TRUE), Member("a", "join")>> \o evs
    IN  [i \in DOMAIN all |-> [all[i] EXCEPT !.id = i]]

MCStreams ==
    {Room(<<Invite, Join, Message, Leave>>),
     Room(<<Join, Name, Leave, Join>>),
     Room(<<Invite, Child("via"), Leave, Child("none")>>),
     Room(<<Message, Encryption, Name, Name>>)}
=============================================================================
