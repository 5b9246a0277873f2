---------------------------- MODULE SlidingList ----------------------------
(***************************************************************************)
(* One sorted list of a connection and the client that follows windows of  *)
(* it.  The server (sync3/handler/connstate.go, connstate_live.go) answers *)
(* a request for new ranges with INVALIDATE and SYNC operations, then      *)
(* appends the DELETE and INSERT operations of each live update until it   *)
(* responds.  The client (client/sync.js) holds a map from positions to    *)
(* rooms and never sees the list itself.                                   *)
(***************************************************************************)
EXTENDS ListOps

CONSTANTS Room, Undefined,
          DefaultRanges,  \* the window a client always follows
          RangeChoices,   \* the windows a client may ask for
          MaxBatch,       \* live updates in one response
          MaxChanges      \* changes of the windows or the filters by the client

ASSUME RangesAssumption ==
    /\ DefaultRanges \in RangeChoices
    /\ \A r \in RangeChoices : Valid(r) /\ Inside(r, 0)

VARIABLES list,      \* intList: the rooms in order
          ranges,    \* the ranges of the last request; << >> before the first
          phase,     \* "idle", or "live" while the server works on a request
          ops,       \* resList.Ops of the response being built
          batch,     \* live updates processed for it
          subs,      \* rooms the last step sent in full
          panicked,  \* whether a live update has panicked
          inbox,     \* requests on their way to the server
          outbox,    \* responses the client has not received
          changes,   \* changes by the client so far
          active,    \* the client's activeRanges
          index      \* the client's roomIndexToRoomId

server == <<list, ranges, phase, ops, batch, subs, panicked>>
vars == <<server, inbox, outbox, changes, active, index>>

Lists == SetToAllKPermutations(Room)

request(reset) == [ranges |-> active, reset |-> reset]

Init ==
    /\ list \in Lists
    /\ ranges = << >> /\ phase = "idle" /\ ops = << >> /\ batch = 0
    /\ subs = {} /\ panicked = FALSE
    /\ active \in RangeChoices
    /\ inbox = <<request(FALSE)>> /\ outbox = << >>
    /\ changes = 0 /\ index = << >>

-----------------------------------------------------------------------------
(***************************************************************************)
(* The server answers a request.                                           *)
(***************************************************************************)
clampSliceRangeToListSize(r, n) == IF r[2] <= n - 1 THEN r ELSE <<r[1], n - 1>>

invalidated(removed, n) ==
    LET echoed == SelectSeq(removed, LAMBDA r : r[1] < n)
    IN [k \in DOMAIN echoed |->
          [op |-> "INVALIDATE", range |-> clampSliceRangeToListSize(echoed[k], n)]]

synced(added, l) ==
    LET sliced == SelectSeq(added, LAMBDA r : SliceInto(r, l) # << >>)
    IN [k \in DOMAIN sliced |->
          [op |-> "SYNC", range |-> clampSliceRangeToListSize(sliced[k], Len(l)),
           rooms |-> SliceInto(sliced[k], l)]]

\* onIncomingListRequest.  A change of sort order or of filters resets the list,
\* to newList.
onIncomingListRequest(newList) ==
    LET next == Head(inbox).ranges
        reset == Head(inbox).reset
        delta == IF ranges = << >>
                 THEN [added |-> next, removed |-> << >>]
                 ELSE Delta(ranges, next)
        removed == IF reset THEN ranges ELSE delta.removed
        sent == synced(IF reset THEN next ELSE delta.added, newList)
    IN /\ reset \/ newList = list
       /\ phase' = "live"
       /\ inbox' = Tail(inbox)
       /\ list' = newList
       /\ ranges' = next
       /\ ops' = invalidated(removed, Len(list)) \o sent
       /\ subs' = UNION {Range(sent[k].rooms) : k \in DOMAIN sent}
       /\ batch' = 0
       /\ UNCHANGED <<panicked, outbox, changes, active, index>>

Request ==
    /\ phase = "idle" /\ inbox # << >>
    /\ \E newList \in Lists : onIncomingListRequest(newList)

\* processLiveUpdateForList: one room is added, removed or moves.  A panic is
\* recovered by the connection, which answers with an error and forgets the
\* response; the list stays changed and the client asks again.
processLiveUpdateForList(room, listOp, after) ==
    LET res == CalculateListOps(ranges, list, after, room, listOp)
    IN /\ phase = "live" /\ batch < MaxBatch
       /\ list' = after
       /\ subs' = res.subs
       /\ IF res.panics
          THEN /\ phase' = "idle" /\ ops' = << >> /\ batch' = 0 /\ panicked' = TRUE
               /\ inbox' = IF inbox = << >> THEN <<request(FALSE)>> ELSE inbox
          ELSE /\ ops' = ops \o res.ops /\ batch' = batch + 1
               /\ UNCHANGED <<phase, panicked, inbox>>
       /\ UNCHANGED <<ranges, outbox, changes, active, index>>

ListOpAdd ==
    \E room \in Room, i \in 1..(Len(list) + 1) :
        /\ ~has(list, room)
        /\ processLiveUpdateForList(room, "Add", InsertAt(list, i, room))

ListOpDel ==
    \E room \in Range(list) : processLiveUpdateForList(room, "Del", Remove(list, room))

ListOpChange ==
    \E room \in Range(list), i \in DOMAIN list :
        processLiveUpdateForList(room, "Change", InsertAt(Remove(list, room), i, room))

\* The response is cached by the connection until the client acknowledges it.
Respond ==
    /\ phase = "live"
    /\ phase' = "idle"
    /\ outbox' = Append(outbox, ops)
    /\ ops' = << >> /\ subs' = {} /\ batch' = 0
    /\ UNCHANGED <<list, ranges, panicked, inbox, changes, active, index>>

-----------------------------------------------------------------------------
(***************************************************************************)
(* The client.  Reading a position the map does not hold gives undefined,  *)
(* and assigning undefined leaves the position in the map.                 *)
(***************************************************************************)
get(m, i) == IF i \in DOMAIN m THEN m[i] ELSE Undefined
put(m, i, v) == [j \in DOMAIN m \cup {i} |-> IF j = i THEN v ELSE m[j]]
delete(m, S) == [j \in DOMAIN m \ S |-> m[j]]

shift(m, S, by) ==
    LET moved == {i \in S : Inside(active, i)}
    IN [i \in DOMAIN m \cup moved |-> IF i \in moved THEN get(m, i - by) ELSE m[i]]
shiftRight(m, hi, low) == shift(m, (low + 1)..hi, 1)
shiftLeft(m, hi, low) == shift(m, low..(hi - 1), -1)

maxIndex(m) == Max(DOMAIN m \cup {-1})
removeEntry(m, i) ==
    LET max == maxIndex(m)
    IN IF max < 0 \/ i > max THEN m ELSE delete(shiftLeft(m, max, i), {max})
addEntry(m, i) ==
    LET max == maxIndex(m)
    IN IF max < 0 \/ i > max THEN m ELSE shiftRight(m, max + 1, i)

\* The effect of one operation on the map and on the gap a DELETE left.
applyOp(acc, op) ==
    LET m == acc.map
        gap == acc.gap
        deleted == delete(m, {op.index})
        room == CASE get(m, op.index) = Undefined -> m
                  [] gap < 0        -> addEntry(m, op.index)
                  [] gap > op.index -> shiftRight(m, gap, op.index)
                  [] OTHER          -> shiftLeft(m, op.index, gap)
        inRange == op.range[1]..op.range[2]
        toRooms == {i \in inRange : i - op.range[1] < Len(op.rooms)}
    IN CASE op.op = "DELETE" ->
              [map |-> IF gap # -1 THEN removeEntry(deleted, gap) ELSE deleted,
               gap |-> op.index]
         [] op.op = "INSERT" -> [map |-> put(room, op.index, op.room), gap |-> -1]
         [] op.op = "INVALIDATE" -> [acc EXCEPT !.map = delete(m, inRange)]
         [] op.op = "SYNC" ->
              [acc EXCEPT !.map = [i \in DOMAIN m \cup toRooms |->
                 IF i \in toRooms THEN at(op.rooms, i - op.range[1]) ELSE m[i]]]

applyOps(m, resOps) ==
    LET acc == FoldLeft(applyOp, [map |-> m, gap |-> -1], resOps)
    IN IF acc.gap = -1 THEN acc.map ELSE removeEntry(acc.map, acc.gap)

\* The client waits for its request in flight, applies the answer and asks again.
\* A response still to come answers that request too, when nothing in it is new.
Receive ==
    /\ outbox # << >>
    /\ outbox' = Tail(outbox)
    /\ index' = applyOps(index, Head(outbox))
    /\ inbox' = IF inbox = << >> /\ Len(outbox) = 1 /\ phase = "idle"
                THEN <<request(FALSE)>> ELSE inbox
    /\ UNCHANGED <<server, changes, active>>

\* The client changes what it wants, aborts the request in flight and asks again.
\* The server still works on the aborted request, and its response is the first
\* to come.
interrupt(reset) ==
    /\ changes < MaxChanges /\ DOMAIN index # {}
    /\ changes' = changes + 1
    /\ inbox' = Append(inbox, request(reset)')
    /\ UNCHANGED <<server, outbox>>

Scroll == active' \in RangeChoices \ {active} /\ interrupt(FALSE) /\ UNCHANGED index

setFilters == active' = DefaultRanges /\ index' = << >> /\ interrupt(TRUE)

LiveUpdate == ListOpAdd \/ ListOpDel \/ ListOpChange

Next == Request \/ LiveUpdate \/ Respond \/ Receive \/ Scroll \/ setFilters

Spec == Init /\ [][Next]_vars

-----------------------------------------------------------------------------
upToDate ==
    inbox = <<request(FALSE)>> /\ outbox = << >> /\ phase = "idle" /\ ranges = active

\* A client that has applied every response sees, at each position of its windows,
\* the room the server's list has there: the INSERT and DELETE operations of
\* CalculateListOps and the SYNC and INVALIDATE ones of onIncomingListRequest,
\* applied by the client's shifts, add up to the change of the list, also for
\* responses that were made before the client changed its windows or filters.
ClientAgrees ==
    upToDate /\ ~panicked =>
        \A i \in 0..(Len(list) - 1) : Inside(ranges, i) => get(index, i) = at(list, i)

entering == visible(list', ranges) \ visible(list, ranges)

\* The only room that a live update brings into a window without its data is the
\* last one of the list, after a deletion that leaves it at the end of its window.
OnlyLastRoomUnsent ==
    [][batch' = batch + 1 =>
         LET missed == entering \ subs'
         IN missed # {} => /\ Len(list') < Len(list) /\ ~Inside(ranges, Len(list'))
                           /\ missed = {Last(list')}]_vars
=============================================================================
