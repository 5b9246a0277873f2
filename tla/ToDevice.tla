------------------------------ MODULE ToDevice ------------------------------
(***************************************************************************)
(* To-device messages of one device, from the poller to the client: the    *)
(* table (state/to_device_table.go), the poller's InsertMessages, and the  *)
(* to_device extension (sync3/extensions/todevice.go), whose since token   *)
(* both acknowledges and asks for messages.  The extension makes three     *)
(* separate database calls, and the poller may run between any two.        *)
(*                                                                         *)
(* A message is its place in the poller's feed.  Of all the key requests   *)
(* and cancellations one pair, with one unique key, is enough.             *)
(***************************************************************************)
EXTENDS Integers, Sequences, FiniteSets, SequencesExt

CONSTANTS MaxMsgs,     \* bound: messages the poller receives
          Limit,       \* the client's limit of messages per response
          MaxRestarts  \* bound: restarts of the proxy

ASSUME ToDeviceAssumption ==
    MaxMsgs \in Nat /\ Limit \in Nat \ {0} /\ MaxRestarts \in Nat

Msg == 1..MaxMsgs

VARIABLES action,     \* what each message of the feed is
          fed,        \* how many of them the poller has inserted
          rows,       \* syncv3_to_device_messages
          nextval,    \* its sequence
          unackPos,   \* syncv3_to_device_ack_pos; 0 when there is no row
          lastSent,   \* deviceIDToSinceDebugOnly; -1 when the device is not in it
          req,        \* the extension's request, or its response on the way
          since,      \* the client's token; 0 when it has none
          received,   \* history: the messages the client has received
          cancelled,  \* history: the messages InsertMessages dropped or deleted
          restarts

table == <<rows, nextval, unackPos>>
client == <<since, received>>
history == <<cancelled, restarts>>
vars == <<action, fed, table, lastSent, req, client, history>>

NoRequest == [pc |-> "none"]

\* A cancellation follows the request it cancels, if that is in the feed at all.
Feeds == {f \in [Msg -> {"message", "request", "cancel"}] :
            \A m, n \in Msg : m # n /\ f[m] # "message" /\ f[n] # "message"
                                => f[m] # f[n] /\ (m < n => f[m] = "request")}

Init ==
    /\ action \in Feeds
    /\ fed = 0
    /\ rows = {} /\ nextval = 1 /\ unackPos = 0
    /\ lastSent = -1
    /\ req = NoRequest
    /\ since = 0 /\ received = << >>
    /\ cancelled = {} /\ restarts = 0

hasUniqueKey(m) == action[m] # "message"
msgsOf(R) == {r.msg : r \in R}

-----------------------------------------------------------------------------
\* Rows a cancellation deletes: those with its key past what was sent.
cancelledInDB(R) == {r \in R : hasUniqueKey(r.msg) /\ r.pos > unackPos}

\* InsertMessages, one transaction for the next n messages of the feed.  A
\* cancellation and the request it finds, in the table or in the same batch,
\* annihilate each other.
InsertMessages(n) ==
    LET batch == (fed + 1)..(fed + n)
        cancels == \E m \in batch : action[m] = "cancel"
        requests == \E m \in batch : action[m] = "request"
        deleted == IF cancels THEN cancelledInDB(rows) ELSE {}
        skipped == {m \in batch : /\ hasUniqueKey(m) /\ cancels
                                  /\ deleted # {} \/ requests}
        new == SetToSortSeq(batch \ skipped, <)
    IN  /\ fed + n <= MaxMsgs
        /\ fed' = fed + n
        /\ rows' = (rows \ deleted)
                     \cup {[pos |-> nextval + k - 1, msg |-> new[k]] : k \in 1..Len(new)}
        /\ nextval' = nextval + Len(new)
        /\ cancelled' = cancelled \cup skipped \cup msgsOf(deleted)
        /\ UNCHANGED <<action, unackPos, lastSent, req, client, restarts>>

-----------------------------------------------------------------------------
\* The client sends its token with the request that follows the last response.
ClientRequests ==
    /\ req.pc = "none"
    /\ req' = [pc |-> "start", since |-> since]
    /\ UNCHANGED <<action, fed, table, lastSent, client, history>>

\* The token the extension uses: none at all for the first request of a device
\* since the proxy started.
effectiveSince(s) == IF lastSent = -1 THEN 0 ELSE s

acknowledgedTooFar(R, from) == {r \in R : r.pos <= from + 1}
acknowledged(R, from) == {r \in R : r.pos <= from}

\* ProcessInitial up to DeleteMessagesUpToAndIncluding, whose failure is only
\* logged.
ProcessInitial ==
    LET from == effectiveSince(req.since)
    IN  /\ req.pc = "start"
        /\ req' = [pc |-> "select", since |-> from, from |-> from]
        /\ \/ rows' = rows \ IF from = 0 THEN {} ELSE acknowledged(rows, from)
           \/ UNCHANGED rows
        /\ UNCHANGED <<action, fed, nextval, unackPos, lastSent, client, history>>

\* Messages: the first rows after the token, in order, up to the limit.
afterSkipping(R, from) == {r \in R : r.pos > from + 1}
after(R, from) == {r \in R : r.pos > from}

Messages ==
    LET found == SetToSortSeq(after(rows, req.from), LAMBDA r, q : r.pos < q.pos)
        page == SubSeq(found, 1, IF Len(found) < Limit THEN Len(found) ELSE Limit)
    IN  /\ req.pc = "select"
        /\ req' = [pc |-> "ack", since |-> req.since,
                   msgs |-> [k \in DOMAIN page |-> page[k].msg],
                   upTo |-> IF page = << >> THEN req.from ELSE Last(page).pos]
        /\ UNCHANGED <<action, fed, table, lastSent, client, history>>

\* SetUnackedPosition, and the response.
SetUnackedPosition ==
    /\ req.pc = "ack"
    /\ unackPos' = req.upTo
    /\ lastSent' = req.upTo
    /\ req' = [req EXCEPT !.pc = "respond"]
    /\ UNCHANGED <<action, fed, rows, nextval, client, history>>

\* Either call fails: the response has no to_device section.
ExtensionFails ==
    /\ req.pc \in {"select", "ack"}
    /\ req' = NoRequest
    /\ UNCHANGED <<action, fed, table, lastSent, client, history>>

\* AppendLive: while the request waits, a DeviceEventsUpdate repeats it all.
AppendLive ==
    /\ req.pc = "respond"
    /\ \E r \in rows : r.pos > req.upTo
    /\ req' = [pc |-> "start", since |-> req.since]
    /\ UNCHANGED <<action, fed, table, lastSent, client, history>>

-----------------------------------------------------------------------------
\* The client receives the response and takes next_batch for its token.
nextBatchStale(r) == r.since
nextBatch(r) == r.upTo

ClientReceives ==
    /\ req.pc = "respond"
    /\ received' = received \o req.msgs
    /\ since' = nextBatch(req)
    /\ req' = NoRequest
    /\ UNCHANGED <<action, fed, table, lastSent, history>>

\* The response is lost and so is the connection that has it cached.
ResponseLost ==
    /\ req.pc = "respond"
    /\ req' = NoRequest
    /\ UNCHANGED <<action, fed, table, lastSent, client, history>>

Restart ==
    /\ restarts < MaxRestarts
    /\ restarts' = restarts + 1
    /\ lastSent' = -1
    /\ req' = NoRequest
    /\ UNCHANGED <<action, fed, table, client, cancelled>>

Next ==
    \/ \E n \in 1..2 : InsertMessages(n)
    \/ ClientRequests \/ ProcessInitial \/ Messages \/ SetUnackedPosition
    \/ ExtensionFails \/ AppendLive \/ ClientReceives \/ ResponseLost \/ Restart

Spec == Init /\ [][Next]_vars

\* The client keeps asking and a request keeps running; neither every database
\* call fails nor is every response lost.
FairSpec ==
    /\ Spec
    /\ WF_vars(ClientRequests) /\ WF_vars(ProcessInitial)
    /\ SF_vars(Messages) /\ SF_vars(SetUnackedPosition) /\ SF_vars(ClientReceives)

-----------------------------------------------------------------------------
\* A message the poller stored is in the table until the client has received it:
\* no token, stale, ignored or repeated, acknowledges a message unseen.
NothingLost ==
    \A m \in 1..fed : m \in cancelled \cup msgsOf(rows) \cup Range(received)

\* The client receives messages in the order of the feed, each once; only a
\* restart, after which the token is ignored, has messages sent again.
DeliveredOnceInOrder ==
    /\ restarts = 0 => \A i, j \in DOMAIN received : i < j => received[i] < received[j]
    /\ \A m \in Msg : Cardinality({k \in DOMAIN received : received[k] = m}) <= 1 + restarts

\* Every message is delivered in the end, or cancelled.
EventuallyDelivered ==
    \A m \in Msg : fed >= m ~> m \in cancelled \cup Range(received)
============================================================================
