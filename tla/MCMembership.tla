---------------------------- MODULE MCMembership -----------------------------
(* A room whose name is redacted, rooms whose other member comes and goes,   *)
(* and one in which the first state block has only a profile change.         *)
EXTENDS Membership

Ev(type, key, value, isState, redacts) ==
    [id |-> 0, type |-> type, key |-> key, value |-> value, isState |-> isState,
     redacts |-> redacts]
Member(u, value) == Ev("member", u, value, TRUE, 0)
Name == Ev("name", "", "", TRUE, 0)
Redact(id) == Ev("redaction", "", "", FALSE, id)
Child(via) == Ev("space.child", "c", via, TRUE, 0)

Room(evs) ==
    LET all == <<Ev("create", "", "", TRUE, 0), Member("a", "join")>> \o evs
    IN  [i \in DOMAIN all |-> [all[i] EXCEPT !.id = i]]

MCStreams ==
    {Room(<<Name, Member("b", "join"), Redact(3)>>),
     Room(<<Child("via"), Member("b", "invite"), Member("b", "leave")>>),
     Room(<<Member("b", "join"), Member("b", "leave")>>),
     Room(<<Member("a", "join"), Child("via")>>)}
=============================================================================
