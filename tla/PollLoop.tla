------------------------------ MODULE PollLoop ------------------------------
(***************************************************************************)
(* What a poller does with the sync v2 responses it receives: the poll     *)
(* loop (sync2/poller.go), the callbacks it makes into Handler             *)
(* (sync2/handler2/handler.go) and the rows they leave in the database.    *)
(* All pollers here belong to one user: each device has its own since      *)
(* token, inbox and key data, and they share rooms and account data.       *)
(*                                                                         *)
(* The homeserver is a stream of items, 1..head.  A sync from token s      *)
(* returns what the items after s left behind and the token head.  The     *)
(* executor of PollerMap runs one callback at a time, so a callback is one *)
(* step; between two callbacks anything may happen, a crash included.      *)
(***************************************************************************)
EXTENDS Naturals, FiniteSets

CONSTANTS Device, Room,
          BadRoom,    \* rooms whose state lacks a create event
          MaxStream,  \* bound: items the homeserver ever has
          Streams,    \* the streams of items it may have
          MaxFaults   \* bound: failed database calls and restarts

Pos == 1..MaxStream

\* An item is addressed to one device (a to-device message, a change of its
\* key counts together with a device list change), to the user, or to a room.
Item == [kind : {"to_device", "e2ee"}, to : Device]
          \cup [kind : {"account_data"}]
          \cup [kind : {"room"}, to : Room]

ASSUME PollLoopAssumption ==
    /\ MaxStream \in Nat /\ MaxFaults \in Nat /\ BadRoom \subseteq Room
    /\ Streams \subseteq [Pos -> Item]

VARIABLES stream, head,   \* the homeserver: its items, and how many exist yet
          hsDeleted,      \* the token up to which it has deleted a device's messages
          poller,         \* per device: the poll loop's state and its response
          accountDataMap, \* the last account data value Handler has seen
          unreadMap,      \* per room, the last unread counts it has seen
          dbSince, dbInbox, dbKeys, dbDeviceList, dbRoom, dbAccountData, dbUnread,
          faults          \* history: the failures so far

homeserver == <<stream, head, hsDeleted>>
seen == <<accountDataMap, unreadMap>>
db == <<dbSince, dbInbox, dbKeys, dbDeviceList, dbRoom, dbAccountData, dbUnread>>
vars == <<homeserver, poller, seen, db, faults>>

-----------------------------------------------------------------------------
\* The items of a kind in the positions after one token up to another.
Between(kind, from, upTo) ==
    {n \in Pos : from < n /\ n <= upTo /\ stream[n].kind = kind}
For(to, kind, from, upTo) ==
    {n \in Between(kind, from, upTo) : stream[n].to = to}

\* The latest value of data that is replaced rather than accumulated, as the
\* position that set it; 0 is no value.
Latest(S) == IF S = {} THEN 0 ELSE CHOOSE n \in S : \A m \in S : m <= n
accountDataAt(t) == Latest(Between("account_data", 0, t))
unreadAt(r, t) == Latest(For(r, "room", 0, t))
otkCountsAt(d, t) == Latest(For(d, "e2ee", 0, t))

Idle(since, otkCounts) ==
    [pc |-> "sync", since |-> since, otkCounts |-> otkCounts, nextBatch |-> 0,
     msgs |-> {}, rooms |-> {}, errs |-> {}]

Init ==
    /\ stream \in Streams
    /\ head = 0
    /\ hsDeleted = [d \in Device |-> 0]
    /\ poller = [d \in Device |-> Idle(0, 0)]
    /\ accountDataMap = 0
    /\ unreadMap = [r \in Room |-> 0]
    /\ dbSince = [d \in Device |-> 0]
    /\ dbInbox = [d \in Device |-> [n \in Pos |-> 0]]
    /\ dbKeys = [d \in Device |-> 0]
    /\ dbDeviceList = [d \in Device |-> {}]
    /\ dbRoom = {}
    /\ dbAccountData = 0
    /\ dbUnread = [r \in Room |-> 0]
    /\ faults = {}

-----------------------------------------------------------------------------
NewItem ==
    /\ head < MaxStream
    /\ head' = head + 1
    /\ UNCHANGED <<stream, hsDeleted, poller, seen, db, faults>>

\* DoSyncV2 succeeds.  Using a since token tells the homeserver that the
\* to-device messages up to it were received, and it deletes them.  (A request
\* that fails, or that returns nothing new, leaves the loop where it was.)
DoSyncV2(d) ==
    LET p == poller[d]
        deleted == IF hsDeleted[d] < p.since THEN p.since ELSE hsDeleted[d]
    IN  /\ p.pc = "sync" /\ p.since < head
        /\ hsDeleted' = [hsDeleted EXCEPT ![d] = deleted]
        /\ poller' = [poller EXCEPT ![d] =
             [@ EXCEPT !.pc = "e2ee", !.nextBatch = head,
                       !.msgs = For(d, "to_device", deleted, head)]]
        /\ UNCHANGED <<stream, head, seen, db, faults>>

\* A database call fails, or the process dies; each kind of failure once.
Fault(kind) ==
    /\ kind \notin faults /\ Cardinality(faults) < MaxFaults
    /\ faults' = faults \cup {kind}

\* A retriable error: the loop syncs again from the token it has.
RetryFromNext(d) == poller' = [poller EXCEPT ![d] = Idle(@.nextBatch, @.otkCounts)]
Retry(d) == poller' = [poller EXCEPT ![d] = Idle(@.since, @.otkCounts)]

\* The poller's copy of the key counts, set once the row is written.
KeysOnError(d) == poller[d].otkCounts

\* parseE2EEData: OnE2EEData upserts the device list changes and, if they
\* differ from the last ones this poller stored, the key counts.
parseE2EEData(d) ==
    LET p == poller[d]
        otkCounts == otkCountsAt(d, p.nextBatch)
        lists == For(d, "e2ee", p.since, p.nextBatch)
        changed == otkCounts # p.otkCounts
    IN  /\ p.pc = "e2ee"
        /\ \/ /\ dbDeviceList' = [dbDeviceList EXCEPT ![d] = @ \cup lists]
              /\ dbKeys' = IF changed THEN [dbKeys EXCEPT ![d] = otkCounts] ELSE dbKeys
              /\ poller' = [poller EXCEPT ![d] =
                   [@ EXCEPT !.pc = "account_data", !.otkCounts = otkCounts]]
              /\ UNCHANGED faults
           \/ /\ changed \/ lists # {}
              /\ Fault("e2ee")
              /\ poller' = [poller EXCEPT ![d] = Idle(@.since, KeysOnError(d))]
              /\ UNCHANGED <<dbDeviceList, dbKeys>>
        /\ UNCHANGED <<homeserver, seen, dbSince, dbInbox, dbRoom, dbAccountData,
                       dbUnread>>

roomsOf(p) == {r \in Room : For(r, "room", p.since, p.nextBatch) # {}}
ToRooms(d) == poller' = [poller EXCEPT ![d] =
                [@ EXCEPT !.pc = "rooms", !.rooms = roomsOf(poller[d]), !.errs = {}]]

\* OnAccountData skips a value equal to the last one seen.
anySeen(last, value) == last # 0
isDuplicateOf(last, value) == value = last

\* parseGlobalAccountData: a value that is not a duplicate is remembered, and
\* then written.
parseGlobalAccountData(d) ==
    LET p == poller[d]
        value == accountDataAt(p.nextBatch)
        present == Between("account_data", p.since, p.nextBatch) # {}
        dup == isDuplicateOf(accountDataMap, value)
    IN  /\ p.pc = "account_data"
        /\ \/ /\ present => dup
              /\ ToRooms(d)
              /\ UNCHANGED <<accountDataMap, dbAccountData, faults>>
           \/ /\ present /\ ~dup
              /\ accountDataMap' = value
              /\ \/ /\ dbAccountData' = value
                    /\ ToRooms(d)
                    /\ UNCHANGED faults
                 \/ /\ Fault("account_data")
                    /\ Retry(d)
                    /\ UNCHANGED dbAccountData
        /\ UNCHANGED <<homeserver, unreadMap, dbSince, dbInbox, dbKeys, dbDeviceList,
                       dbRoom, dbUnread>>

\* UpdateUnreadCounts: counts that differ from the last ones seen are
\* remembered, and then written; a failed write is only logged.
UpdateUnreadCounts(r, counts) ==
    \/ /\ counts = unreadMap[r]
       /\ UNCHANGED <<unreadMap, dbUnread, faults>>
    \/ /\ counts # unreadMap[r]
       /\ unreadMap' = [unreadMap EXCEPT ![r] = counts]
       /\ \/ /\ dbUnread' = [dbUnread EXCEPT ![r] = counts]
             /\ UNCHANGED faults
          \/ /\ Fault("unread")
             /\ UNCHANGED dbUnread

\* One room of parseRoomsResponse, in no particular order.  Initialise and
\* Accumulate drop a room without a create event with a DataError; any other
\* error leaves the room unwritten.  Otherwise its unread counts come last.  The
\* remaining rooms are processed anyway.
parseRoom(d, r) ==
    LET p == poller[d]
        next == [p EXCEPT !.rooms = @ \ {r}]
    IN  /\ p.pc = "rooms" /\ r \in p.rooms
        /\ \/ /\ r \notin BadRoom
              /\ dbRoom' = dbRoom \cup For(r, "room", p.since, p.nextBatch)
              /\ poller' = [poller EXCEPT ![d] = next]
              /\ UpdateUnreadCounts(r, unreadAt(r, p.nextBatch))
           \/ /\ r \in BadRoom
              /\ poller' = [poller EXCEPT ![d] = [next EXCEPT !.errs = @ \cup {"data"}]]
              /\ UNCHANGED <<dbRoom, unreadMap, dbUnread, faults>>
           \/ /\ Fault("room")
              /\ poller' = [poller EXCEPT ![d] = [next EXCEPT !.errs = @ \cup {"db"}]]
              /\ UNCHANGED <<dbRoom, unreadMap, dbUnread>>
        /\ UNCHANGED <<homeserver, accountDataMap, dbSince, dbInbox, dbKeys,
                       dbDeviceList, dbAccountData>>

\* Whether the errors of the rooms, retriable ones first, force a retry.
shouldRetryDataFirst(errs) == errs = {"db"}
shouldRetryAnyError(errs) == errs # {}
shouldRetry(errs) == "db" \in errs

parseRoomsReturns(d) ==
    LET p == poller[d]
    IN  /\ p.pc = "rooms" /\ p.rooms = {}
        /\ \/ shouldRetry(p.errs) /\ Retry(d)
           \/ ~shouldRetry(p.errs) /\ poller' = [poller EXCEPT ![d].pc = "to_device"]
        /\ UNCHANGED <<homeserver, seen, db, faults>>

\* parseToDeviceMessages is last, so that no later error has it repeated.
parseToDeviceMessages(d) ==
    LET p == poller[d]
    IN  /\ p.pc = "to_device"
        /\ \/ /\ dbInbox' = [dbInbox EXCEPT ![d] =
                   [n \in Pos |-> @[n] + IF n \in p.msgs THEN 1 ELSE 0]]
              /\ poller' = [poller EXCEPT ![d].pc = "advance"]
              /\ UNCHANGED faults
           \/ /\ p.msgs # {}
              /\ Fault("to_device")
              /\ Retry(d)
              /\ UNCHANGED dbInbox
        /\ UNCHANGED <<homeserver, seen, dbSince, dbKeys, dbDeviceList, dbRoom,
                       dbAccountData, dbUnread>>

nextSince(p) == p.nextBatch

\* The since token advances in memory.  It is stored if a minute has passed
\* since it last was, or the response had to-device messages; a failure to
\* store it is only logged.
mustStore(p) == p.msgs # {}

advance(d) ==
    LET p == poller[d]
    IN  /\ p.pc = "advance"
        /\ poller' = [poller EXCEPT ![d] = Idle(nextSince(p), p.otkCounts)]
        /\ \/ /\ dbSince' = [dbSince EXCEPT ![d] = nextSince(p)]
              /\ UNCHANGED faults
           \/ /\ ~mustStore(p)
              /\ UNCHANGED <<dbSince, faults>>
           \/ /\ Fault("since")
              /\ UNCHANGED dbSince
        /\ UNCHANGED <<homeserver, seen, dbInbox, dbKeys, dbDeviceList, dbRoom,
                       dbAccountData, dbUnread>>

\* The process dies and starts again: StartV2Pollers polls from the stored
\* tokens, and what was only in memory is gone.
Restart ==
    /\ Fault("crash")
    /\ poller' = [d \in Device |-> Idle(dbSince[d], 0)]
    /\ accountDataMap' = 0
    /\ unreadMap' = [r \in Room |-> 0]
    /\ UNCHANGED <<homeserver, db>>

PollerStep(d) ==
    \/ DoSyncV2(d) \/ parseE2EEData(d) \/ parseGlobalAccountData(d)
    \/ \E r \in Room : parseRoom(d, r)
    \/ parseRoomsReturns(d) \/ parseToDeviceMessages(d) \/ advance(d)

Next == NewItem \/ Restart \/ \E d \in Device : PollerStep(d)

Spec == Init /\ [][Next]_vars
FairSpec == Spec /\ \A d \in Device : WF_vars(PollerStep(d))

-----------------------------------------------------------------------------
\* What the database must hold before a device's token may pass t.
Stored(d, t) ==
    /\ \A n \in For(d, "to_device", 0, t) : dbInbox[d][n] > 0
    /\ For(d, "e2ee", 0, t) \subseteq dbDeviceList[d]
    /\ \A r \in Room \ BadRoom : For(r, "room", 0, t) \subseteq dbRoom

\* A since token, in memory or in the database, is never ahead of the data: no
\* error, retry or restart lets the loop skip a to-device message, a device
\* list change or an event of a well-formed room, even when another room of the
\* same response is malformed ("else we will lose data", parseRoomsResponse).
SinceNeverAheadOfData ==
    \A d \in Device : Stored(d, poller[d].since) /\ Stored(d, dbSince[d])

\* Each to-device message is stored once: the homeserver only deletes those that
\* are in the database, and however often a response is retried a message is
\* stored at most once more, for a restart ("so cannot see duplicates", poll).
ToDeviceStoredOnce ==
    \A d \in Device :
        /\ \A n \in For(d, "to_device", 0, hsDeleted[d]) : dbInbox[d][n] > 0
        /\ \A n \in Pos : dbInbox[d][n] <= IF "crash" \in faults THEN 2 ELSE 1

caughtUp(d) == poller[d].pc = "sync" /\ poller[d].since = head

\* A poller that has caught up has stored the latest key counts, although it
\* compares them with its own copy and skips the write when they agree.  Once
\* every poller of the user has caught up, the stored account data and the unread
\* counts are the latest, although the pollers share a cache of the last value
\* seen and deliver older and newer values in any order, unless a write failed.
TablesConverge ==
    /\ \A d \in Device : caughtUp(d) => dbKeys[d] = otkCountsAt(d, head)
    /\ (\A d \in Device : caughtUp(d)) /\ "account_data" \notin faults
         => dbAccountData = accountDataAt(head)
    /\ (\A d \in Device : caughtUp(d)) /\ "unread" \notin faults
         => \A r \in Room \ BadRoom : dbUnread[r] = unreadAt(r, head)

\* However calls fail, every poller catches up with the homeserver.
EveryResponseProcessed ==
    \A d \in Device : head = MaxStream ~> poller[d].since = MaxStream
============================================================================
