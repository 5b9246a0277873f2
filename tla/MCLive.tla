------------------------------- MODULE MCLive --------------------------------
(***************************************************************************)
(* Two or three rooms of one user.  In some streams the user joins the     *)
(* second room late, leaves and comes back, or is kicked.                  *)
(***************************************************************************)
EXTENDS Live

Ev(kind, r) == [room |-> r, kind |-> kind]
JoinA == Ev("join", "a")
JoinB == Ev("join", "b")
JoinC == Ev("join", "c")
MsgA == Ev("msg", "a")
MsgB == Ev("msg", "b")

MCStreams ==
    {<<JoinA, JoinB, JoinC, MsgA, MsgA, MsgB>>,
     <<JoinA, JoinB, Ev("ignored", "a"), MsgB, MsgA>>,
     <<JoinA, JoinB, Ev("leave", "a"), MsgA, JoinA>>,
     <<JoinA, JoinB, Ev("kick", "b"), MsgB, MsgA>>,
     <<JoinA, MsgA, JoinB, MsgB>>}

MCRanges == {<< <<0, 0>> >>, << <<0, 1>> >>, AllRooms}
=============================================================================
