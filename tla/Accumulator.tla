----------------------------- MODULE Accumulator -----------------------------
(***************************************************************************)
(* How the events of one room are stored (state/accumulator.go and the     *)
(* tables it writes).  Initialise takes the state block of a sync v2       *)
(* response and Accumulate its timeline.  Each runs in one transaction, so *)
(* each is one step.                                                       *)
(*                                                                         *)
(* The NID of an event is its position in events.  A snapshot is the set   *)
(* of NIDs of the state events it holds.                                   *)
(***************************************************************************)
EXTENDS Integers, Sequences, SequencesExt, FiniteSets

VARIABLES events,     \* syncv3_events
          snapshots,  \* syncv3_snapshots; Deleted where a row was removed
          room,       \* the row of syncv3_rooms; snap = 0 when there is none
          invites,    \* syncv3_invites: rows of a user and the invite, one per user
          spaces      \* syncv3_spaces: the children of the room

accumulatorVars == <<events, snapshots, room, invites, spaces>>

NIDs == DOMAIN events
Deleted == {}

AccumulatorInit ==
    /\ events = <<>>
    /\ snapshots = <<>>
    /\ room = [snap |-> 0, latest |-> 0, encrypted |-> FALSE]
    /\ invites = {}
    /\ spaces = {}

-----------------------------------------------------------------------------
(* The tables.                                                             *)

\* SelectUnknownEventIDs, and ON CONFLICT (event_id) DO NOTHING of Insert.
Unknown(e) == \A n \in NIDs : events[n].ev.id # e.id

Row(e, isState, missing) ==
    [ev |-> e, isState |-> isState, missing |-> missing,
     before |-> 0, replaces |-> 0, redacted |-> FALSE]

tupleKey(row) == <<row.ev.type, row.ev.key>>

\* Mutant of SupersededInvites: only a join supersedes an invite.
JoinedInvites(evs) ==
    {evs[i].key : i \in {j \in DOMAIN evs : evs[j].type = "member" /\ evs[j].value = "join"}}

\* RemoveSupersededInvites: the users whose last membership among evs is not
\* an invite.
SupersededInvites(evs) ==
    {evs[i].key : i \in {j \in DOMAIN evs :
        /\ evs[j].type = "member" /\ evs[j].value # "invite"
        /\ \A k \in DOMAIN evs : evs[k].type = "member" /\ evs[k].key = evs[j].key => k <= j}}

WithoutInvitesOf(users) == {i \in invites : i.user \notin users}

\* HandleSpaceUpdates: the last relation to a child among evs wins.
HandleSpaceUpdates(evs) ==
    LET last(via) == {evs[i].key : i \in {j \in DOMAIN evs :
            /\ evs[j].type = "space.child" /\ evs[j].value = via
            /\ \A k \in DOMAIN evs :
                 evs[k].type = "space.child" /\ evs[k].key = evs[j].key => k <= j}}
    IN  (spaces \cup last("via")) \ last("none")

\* Whether the events switch encryption on.  (The type of the room, its
\* predecessor and its replacement are left out.)
roomInfoDelta(evs) == \E i \in DOMAIN evs : evs[i].type = "encryption"

\* Encryption is never switched off.
Upsert(evs, snap, latest) ==
    [snap |-> snap, latest |-> latest, encrypted |-> room.encrypted \/ roomInfoDelta(evs)]

HasCreateEvent(evs) == \E i \in DOMAIN evs : evs[i].type = "create"

\* Mutant of Ingest: a replaced event stays in the snapshot.
IngestKeepsOld(tbl, old, new) == old \cup new

\* The state in a snapshot after new events were ingested in order of NID.
\* calculateNewSnapshot does this for one event, stateMap.Ingest for several.
Ingest(tbl, old, new) ==
    {n \in old \cup new : \A m \in new : tupleKey(tbl[m]) = tupleKey(tbl[n]) => m <= n}

SnapshotAt(id) == IF id = 0 THEN {} ELSE snapshots[id]

\* A set of NIDs in order.
Ascending(S) ==
    [i \in 1..Cardinality(S) |-> CHOOSE n \in S : Cardinality({m \in S : m < n}) = i - 1]
MaxOf(S) == CHOOSE n \in S : \A m \in S : m <= n

-----------------------------------------------------------------------------
(* Initialise.                                                             *)

\* Mutant of InitialiseFails: a room is initialised only once.
InitialiseFailsIfKnown(state) == room.snap # 0 \/ ~HasCreateEvent(state)

\* A room whose first state block has no create event: nothing is stored, and
\* the poller gets a DataError.
InitialiseFails(state) == room.snap = 0 /\ ~HasCreateEvent(state)

Initialise(state) ==
    LET new    == SelectSeq(state, Unknown)
        rows   == [i \in DOMAIN new |-> Row(new[i], TRUE, FALSE)]
        tbl    == events \o rows
        newIDs == (Len(events) + 1)..Len(tbl)
        snap   == Ingest(tbl, SnapshotAt(room.snap), newIDs)
    IN  IF new = <<>> \/ InitialiseFails(state)
        THEN UNCHANGED accumulatorVars
        ELSE /\ events' = tbl
             /\ snapshots' = Append(snapshots, snap)
             /\ room' = Upsert(state, Len(snapshots) + 1, MaxOf(snap))
             /\ invites' = WithoutInvitesOf(SupersededInvites(state))
             /\ spaces' = HandleSpaceUpdates(state)

-----------------------------------------------------------------------------
(* Accumulate.                                                             *)

\* filterToNewTimelineEvents: what follows the last event already known.  A
\* single event cannot be told to be old, and is kept.
seenIndex(timeline) ==
    LET seen == {i \in DOMAIN timeline : ~Unknown(timeline[i])}
    IN  IF seen = {} THEN 0 ELSE MaxOf(seen)

filterToNewTimelineEvents(timeline) ==
    IF Len(timeline) <= 1 THEN timeline
    ELSE SubSeq(timeline, seenIndex(timeline) + 1, Len(timeline))

\* Without a snapshot only a timeline that starts with the create event is
\* processed; any other is skipped without an error.
SkipsTimeline(new) == room.snap = 0 /\ new[1].type # "create"

\* Mutant of MissingPrevious: a limited timeline is stored like any other.
MissingPreviousNever(timeline, new, limited) == FALSE

MissingPrevious(timeline, new, limited) == limited /\ new[1].id = timeline[1].id

\* The state events of the batch whose NIDs are first..last, up to n.
StateUpTo(tbl, first, n) == {m \in first..n : tbl[m].ev.isState}

\* The snapshot before event n of a batch: each state event of the batch makes
\* a new one, which holds for the events after it.
BeforeSnapshotID(tbl, first, n) ==
    LET made == StateUpTo(tbl, first, n - 1)
    IN  IF made = {} THEN room.snap ELSE Len(snapshots) + Cardinality(made)

\* The NID an event replaces in the snapshot before it.
ReplacesNID(tbl, before, n) ==
    LET same == {m \in before : tbl[n].ev.isState /\ tupleKey(tbl[m]) = tupleKey(tbl[n])}
    IN  IF same = {} THEN 0 ELSE MaxOf(same)

Accumulate(timeline, limited) ==
    LET new     == filterToNewTimelineEvents(timeline)
        insert  == SelectSeq(new, Unknown)
        first   == Len(events) + 1
        rows    == [i \in DOMAIN insert |-> Row(insert[i], FALSE,
                      MissingPrevious(timeline, new, limited) /\ insert[i].id = timeline[1].id)]
        tbl     == events \o rows
        last    == Len(tbl)
        state   == StateUpTo(tbl, first, last)
        redacts == {tbl[n].ev.redacts : n \in first..last}
        before(n) == Ingest(tbl, SnapshotAt(room.snap), StateUpTo(tbl, first, n - 1))
        stateNIDs == Ascending(state)
    IN  IF insert = <<>> \/ SkipsTimeline(new)
        THEN UNCHANGED accumulatorVars
        ELSE /\ events' = [n \in 1..last |->
                  [tbl[n] EXCEPT
                     !.before = IF n < first THEN @ ELSE BeforeSnapshotID(tbl, first, n),
                     !.replaces = IF n < first THEN @ ELSE ReplacesNID(tbl, before(n), n),
                     !.redacted = @ \/ tbl[n].ev.id \in redacts]]
             /\ snapshots' = snapshots \o [i \in DOMAIN stateNIDs |->
                  Ingest(tbl, SnapshotAt(room.snap), StateUpTo(tbl, first, stateNIDs[i]))]
             /\ room' = Upsert(insert, IF state = {} THEN room.snap
                                       ELSE Len(snapshots) + Cardinality(state), last)
             /\ invites' = WithoutInvitesOf(SupersededInvites(insert))
             /\ spaces' = HandleSpaceUpdates(insert)

-----------------------------------------------------------------------------
(* What Handler2 tells the API half after the transaction.                 *)

NewNIDs == DOMAIN events' \ NIDs

\* The batch redacted an event of the state that is current after it.
IncludesStateRedaction ==
    \E n \in NewNIDs, m \in snapshots'[room'.snap] : events'[n].ev.redacts = events'[m].ev.id

InitialisePayloads ==
    IF NewNIDs = {} THEN <<>>
    ELSE IF room.snap # 0 THEN <<[type |-> "V2InvalidateRoom", nids |-> <<>>]>>
    ELSE <<[type |-> "V2Initialise", nids |-> Ascending(snapshots'[room'.snap])]>>

\* Consumers reload the state before they process the new events.
AccumulatePayloads ==
    IF NewNIDs = {} THEN <<>>
    ELSE (IF IncludesStateRedaction
          THEN <<[type |-> "V2StateRedaction", nids |-> <<>>]>> ELSE <<>>)
         \o <<[type |-> "V2Accumulate", nids |-> Ascending(NewNIDs)]>>

-----------------------------------------------------------------------------
(* The remaining writers.                                                  *)

InsertInvite(u, id) ==
    /\ invites' = WithoutInvitesOf({u}) \cup {[user |-> u, invite |-> id]}
    /\ UNCHANGED <<events, snapshots, room, spaces>>

RemoveInvite(u) ==
    /\ invites' = WithoutInvitesOf({u})
    /\ UNCHANGED <<events, snapshots, room, spaces>>

\* Mutant of NumToKeep: the current state is forgotten.
NumToKeepLimit(maxTimelineLimit) == maxTimelineLimit

\* RemoveInaccessibleStateSnapshots keeps the newest MaxTimelineLimit + 1.
NumToKeep(maxTimelineLimit) == maxTimelineLimit + 1
RemoveInaccessibleStateSnapshots(maxTimelineLimit) ==
    LET rows == {i \in DOMAIN snapshots : snapshots[i] # Deleted}
        rank(i) == Cardinality({j \in rows : j >= i})
    IN  /\ snapshots' = [i \in DOMAIN snapshots |->
             IF i \in rows /\ rank(i) > NumToKeep(maxTimelineLimit) THEN Deleted
             ELSE snapshots[i]]
        /\ UNCHANGED <<events, room, invites, spaces>>
=============================================================================
