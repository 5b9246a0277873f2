------------------------------- MODULE TxnIDs -------------------------------
(***************************************************************************)
(* How the sender of an event gets to see its transaction ID.  Only the    *)
(* poller of the device that sent the event learns the ID, and any poller  *)
(* of the user may store the event first.  On the poller side              *)
(* PendingTransactionIDs (sync2/txnid.go) works out when no poller can     *)
(* still learn an ID; on the API side each connection of the user holds    *)
(* the event back in a TxnIDWaiter (sync3/handler/txn_id_waiter.go) until  *)
(* the ID is known, is known not to come, or a delay has passed.           *)
(*                                                                         *)
(* One user; a device has one poller and one connection.  Event n has NID  *)
(* n.  Events are V2Accumulate payloads; every other payload bypasses the  *)
(* waiter and is not modelled here.                                        *)
(***************************************************************************)
EXTENDS Naturals, Sequences, SequencesExt

CONSTANTS Device, Room, NoDevice, NoQueue,
          MaxEvents   \* bound: events of the homeserver

ASSUME TxnIDsAssumption == MaxEvents \in Nat /\ NoDevice \notin Device

Event == 1..MaxEvents
\* own: sent by the user, as a message; from: the device whose poller is told
\* the transaction ID.
EventInfo == {i \in [room : Room, own : BOOLEAN, from : Device \cup {NoDevice}] :
                i.from # NoDevice => i.own}

VARIABLES event,      \* the events of the homeserver
          seen,       \* per device: how many its poller has processed
          stored,     \* the events in the database
          txns,       \* syncv3_txns: <<device, event>>
          pending,    \* PendingTransactionIDs: event -> devices, or NoQueue
          chan,       \* the V2 payloads on their way to the API
          queues,     \* per connection: room -> queued events
          timers,     \* per connection: the events whose delay is running
          published,  \* per connection: the events published to it
          swept,      \* history: <<connection, event>> published by a timer or with
                      \* a later event of the room, not on account of its own ID
          forgotten   \* history: the entries the ttlcache dropped (bound: once each)

pollerVars == <<seen, stored, txns, pending, forgotten>>
apiVars == <<queues, timers, published, swept>>
vars == <<event, pollerVars, chan, apiVars>>

Init ==
    /\ event \in [Event -> EventInfo]
    /\ seen = [d \in Device |-> 0]
    /\ stored = {} /\ txns = {}
    /\ pending = [e \in Event |-> NoQueue]
    /\ chan = << >>
    /\ queues = [d \in Device |-> [r \in Room |-> NoQueue]]
    /\ timers = [d \in Device |-> {}]
    /\ published = [d \in Device |-> << >>]
    /\ swept = {} /\ forgotten = {}

-----------------------------------------------------------------------------
\* MissingTxnID: the devices left once d is known not to have the ID.  It is
\* the all clear if d was one of them and was the last.
remainingOf(e, d) == Device \ {d}
remaining(e, d) == (IF pending[e] = NoQueue THEN Device ELSE pending[e]) \ {d}
changed(e, d) == pending[e] = NoQueue \/ d \in pending[e]
allClearAtFirst(e, d) == changed(e, d)
allClear(e, d) == changed(e, d) /\ remaining(e, d) = {}

Accumulated(e, hasTxn) == [type |-> "V2Accumulate", e |-> e, hasTxn |-> hasTxn]
TransactionID(e) == [type |-> "V2TransactionID", e |-> e]

\* Handler.Accumulate for the next event of d's timeline.  The stored event
\* keeps the ID only if the first poller to see it had it.
Accumulate(d) ==
    LET e == seen[d] + 1
        hasTxn == event[e].from = d
        new == IF e \in stored THEN << >> ELSE <<Accumulated(e, hasTxn)>>
        lacks == ~hasTxn /\ event[e].own
        tell == IF hasTxn \/ (lacks /\ allClear(e, d))
                THEN <<TransactionID(e)>> ELSE << >>
    IN  /\ e \in Event
        /\ seen' = [seen EXCEPT ![d] = e]
        /\ stored' = stored \cup {e}
        /\ txns' = IF hasTxn THEN txns \cup {<<d, e>>} ELSE txns
        /\ pending' = [pending EXCEPT ![e] =
                         IF hasTxn THEN {}
                         ELSE IF lacks /\ changed(e, d) THEN remaining(e, d) ELSE @]
        /\ chan' = chan \o new \o tell
        /\ UNCHANGED <<event, forgotten, apiVars>>

\* The ttlcache forgets an entry after five minutes.
Forget(e) ==
    /\ pending[e] # NoQueue /\ e \notin forgotten
    /\ pending' = [pending EXCEPT ![e] = NoQueue]
    /\ forgotten' = forgotten \cup {e}
    /\ UNCHANGED <<event, seen, stored, txns, chan, apiVars>>

-----------------------------------------------------------------------------
\* An event is queued if its ID is missing or its room has a queue.
mustQueueIfMissing(q, e, hasTxn) == event[e].own /\ ~hasTxn
mustQueue(q, e, hasTxn) == q # NoQueue \/ (event[e].own /\ ~hasTxn)

timersFirstOnly(q, e) == IF q = NoQueue THEN {e} ELSE {}
timersStarted(q, e) == {e}

\* TxnIDWaiter.Ingest on every connection of the user.
Ingest(e, hasTxn) ==
    LET q(d) == queues[d][event[e].room]
        queued == {d \in Device : mustQueue(q(d), e, hasTxn)}
    IN  /\ queues' = [d \in Device |-> [queues[d] EXCEPT ![event[e].room] =
                        IF d \notin queued THEN @
                        ELSE IF @ = NoQueue THEN <<e>> ELSE Append(@, e)]]
        /\ timers' = [d \in Device |->
                        timers[d] \cup IF d \in queued THEN timersStarted(q(d), e) ELSE {}]
        /\ published' = [d \in Device |->
                           IF d \in queued THEN published[d] ELSE Append(published[d], e)]
        /\ UNCHANGED swept

\* PublishUpToNID takes the front of a queue up to the first event past nid,
\* and drops a queue that it empties.
upTo(q, nid) == LET past == {k \in DOMAIN q : q[k] > nid}
                IN  IF past = {} THEN Len(q)
                    ELSE (CHOOSE k \in past : \A j \in past : k <= j) - 1
takenFrom(q, nid) == IF q = NoQueue THEN << >> ELSE SubSeq(q, 1, upTo(q, nid))
leftIn(q, nid) == IF q = NoQueue \/ upTo(q, nid) = Len(q) THEN NoQueue
                  ELSE SubSeq(q, upTo(q, nid) + 1, Len(q))

PublishUpToNID(conns, r, nid) ==
    /\ queues' = [d \in Device |->
         IF d \in conns THEN [queues[d] EXCEPT ![r] = leftIn(@, nid)] ELSE queues[d]]
    /\ published' = [d \in Device |->
         IF d \in conns THEN published[d] \o takenFrom(queues[d][r], nid) ELSE published[d]]

Taken(d, e) == {<<d, x>> : x \in Range(takenFrom(queues[d][event[e].room], e))}

\* The API handles the next payload: an event goes to every connection, a
\* transaction ID or an all clear to ConnMap.ClearUpdateQueues.
OnPayload ==
    /\ chan # << >>
    /\ chan' = Tail(chan)
    /\ LET p == Head(chan)
       IN  \/ /\ p.type = "V2Accumulate"
              /\ Ingest(p.e, p.hasTxn)
           \/ /\ p.type = "V2TransactionID"
              /\ PublishUpToNID(Device, event[p.e].room, p.e)
              /\ swept' = swept \cup UNION {Taken(d, p.e) \ {<<d, p.e>>} : d \in Device}
              /\ UNCHANGED timers
    /\ UNCHANGED <<event, pollerVars>>

\* The delay of a queued event is over, whether or not it is still queued.
TimerFires(d, e) ==
    /\ e \in timers[d]
    /\ timers' = [timers EXCEPT ![d] = @ \ {e}]
    /\ PublishUpToNID({d}, event[e].room, e)
    /\ swept' = swept \cup Taken(d, e)
    /\ UNCHANGED <<event, pollerVars, chan>>

Next ==
    \/ \E d \in Device : Accumulate(d)
    \/ \E e \in Event : Forget(e)
    \/ OnPayload
    \/ \E d \in Device, e \in Event : TimerFires(d, e)

Spec == Init /\ [][Next]_vars

\* The API keeps handling payloads, and a timer that was started fires.
FairSpec ==
    /\ Spec
    /\ WF_vars(OnPayload)
    /\ \A d \in Device, e \in Event : WF_vars(TimerFires(d, e))

-----------------------------------------------------------------------------
\* What a connection has of a room, published or queued, is every event of the
\* room that has reached the API, in order: nothing overtakes a queued event,
\* is published twice or is left behind.
arrived == {e \in stored : \A k \in DOMAIN chan : chan[k].type = "V2Accumulate" => chan[k].e # e}
has(d, r) == SelectSeq(published[d], LAMBDA e : event[e].room = r)
               \o (IF queues[d][r] = NoQueue THEN << >> ELSE queues[d][r])
RoomOrderKept ==
    \A d \in Device, r \in Room :
        has(d, r) = SetToSortSeq({e \in arrived : event[e].room = r}, <)

\* When an event is published to the device that sent it, its transaction ID is
\* in the table, unless the delay has passed or a later event of the room was
\* released: no all clear is given while a poller may still learn the ID.
TxnIDBeforeEvent ==
    \A d \in Device : \A e \in Range(published[d]) :
        event[e].from = d /\ <<d, e>> \notin swept => <<d, e>> \in txns

\* Every event that is stored is published to every connection in the end, even
\* if no poller ever sees the ID.
EventuallyPublished ==
    \A d \in Device, e \in Event : e \in stored ~> e \in Range(published[d])

\* Once every poller has reported on an event of the user, the API holds it
\* back no longer: the last report is the all clear if no poller had the ID, in
\* whatever order they came (the race described in MissingTxnID).
ReleasedOnceReported ==
    \A d \in Device, e \in Event \ forgotten :
        /\ chan = << >> /\ event[e].own
        /\ \A x \in Device : seen[x] >= e
        => \A r \in Room : queues[d][r] # NoQueue => e \notin Range(queues[d][r])
============================================================================
