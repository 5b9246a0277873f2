# A formal model of the sliding sync proxy

TLA+ modules that model the sliding sync proxy in `src/`, TLC configurations
that check them on small instances, and TLAPS proofs about the connection
protocol and the membership tracker. `PROJECT.json` lists components, runs, the source lines
each definition stands for, known hazards and findings.

## The system

The proxy has two halves in one process, joined by a pubsub with one channel in
each direction, and a Postgres database they share.

```
homeserver --/sync v2--> poller (one per device) --> Handler2 --> database
                              ^                         |
                         ChanV3 (ensure polling)   ChanV2 (new data)
                              |                         v
client <--sliding sync-- Conn <-- ConnState <-- caches, dispatcher <-- SyncLiveHandler
```

* **Pollers** (`sync2`). `PollerMap` starts at most one `poller` per device. A
  poll loop calls `/sync`, hands each part of the response to `Handler2` in a
  fixed order through a single executor, then advances its since token.
* **Handler2** (`sync2/handler2`) writes to the database, keeps small caches to
  skip duplicates, and notifies the API half.
* **API** (`sync3`). `SyncLiveHandler` finds or creates a connection.
  `EnsurePoller` makes a request wait until its device is polled. `Conn` numbers
  and buffers responses. `ConnState` computes them: sorted lists with windows,
  room data, extensions, live updates.
* **Storage** (`state`): events and state snapshots, to-device inbox, device
  data, transaction IDs, small tables.
* **Demo client** (`client/sync.js`): the only implementation in the repository
  of what a client does with list operations.

### Inventory

| Part | State | Operations | What makes it hard |
|---|---|---|---|
| Conn | response buffer, last request, last position | OnIncomingRequest, handler return, error, panic | lost answers, retries, reordered and abandoned requests |
| PubSub | two bounded channels | Notify, Listen | a full channel drops its payload after a timeout |
| EnsurePoller | pendingPolls, wait channels | EnsurePolling, OnInitialSyncComplete, OnExpiredToken | late answers of earlier pollers, replaced channels |
| PollerMap, poller | pollers by device, terminated flag, first-sync WaitGroup | EnsurePolling, Poll, Terminate, ExpirePollers | two callers, the expiry ticker and a panicking loop |
| Poll loop, Handler2 | since token in memory and database, duplicate caches | one callback per part of a response | failed writes, retries, restarts between callbacks |
| To-device | inbox rows, unacked position, last since per device | insert, acknowledge, read, mark unacked | three separate statements; lost responses; restarts |
| Transaction IDs | pending devices per event, queues and timers per connection | Accumulate, all clear, Ingest, PublishUpToNID | pollers report in any order, delays, an expiring cache |
| Lists | sorted rooms, windows, the client's index | add, delete, move, new ranges, reset | boundaries of windows; responses in flight while the client scrolls |
| ConnState live, rooms | update buffer, loadPositions, timelines | request, liveUpdate, onUpdate, room data | snapshot and live event overlap; full buffer; starvation |
| ConnMap, session setup | TTL cache, index by user, user caches | CreateConn, expiry, registration, invalidation | callbacks in their own goroutine; payloads between two steps of a request |
| Dispatcher, tracker, global cache | membership maps, receivers, room metadata | OnNewEvent, initial state, reload, redaction | payloads are handled long after the database moved on |
| Device lists, E2EE | new and sent buckets, changed bits, ticker map | Upsert, Select with swap, emit | moved to sent before the response is sent |
| Accumulator, snapshots | events, snapshots, invites, spaces | Initialise, Accumulate, cleaner, reads at a position | concurrent, overlapping and repeated timelines |
| User cache, typing, receipts | per-user room data | OnUnreadCounts, ... | copies changed outside the lock |

## Modules

| Module | Models | State and actions |
|---|---|---|
| `Conn` | `sync3/conn.go` | `serverResponses`, `lastClientRequest`, `lastPos` are the fields of `Conn`; `holder` is the request that holds `c.mu` while the handler runs. `OnIncomingRequest` is the part before the handler; `HandlerReturns` and `HandlerFails` the part after it. `ClientSends`, `ClientGivesUp`, `ClientReceives` are the client. |
| `ResponseStream` | what a connection promises | the responses produced, and those the client consumed, in order and once |
| `ConnProofs` | | theorems about `Conn` |
| `PubSub` | `pubsub/pubsub.go` | the two channels; `Notify` may drop its payload when the channel is full |
| `EnsurePoller` | `sync3/handler/ensure_polling.go` | `pendingPolls`; `closed` is the set of closed channels; one action per stretch of code under `p.mu` |
| `PollerMap` | `PollerMap` and `poller` life cycle, `Handler.EnsurePolling`, `ExpireOldPollers` | `pollers` ever created, `Pollers` the map, `ensuring` the goroutines inside EnsurePolling |
| `PollerHandshake` | composition of the three above | payloads, requests, start-up workers and poll loops interleave |
| `PollLoop` | `poller.poll` and the callbacks of Handler2 | one action per callback, each of which may fail; `Restart` at any moment; `accountDataMap` and `unreadMap` are the duplicate caches |
| `ToDevice` | `to_device_table.go`, `extensions/todevice.go` | one action per database transaction |
| `TxnIDs` | `sync2/txnid.go`, `txn_id_waiter.go` | `pending` on the poller side, `queues` and `timers` per connection |
| `SliceRanges` | `sync3/range.go` | pure operators |
| `ListOps` | `sync3/ops.go` and the list part of `request.go` | pure operators; an index past the end of the list is a panic |
| `SlidingList` | list handling of `connstate.go` and `connstate_live.go`, with `client/sync.js` | server list and windows, requests and responses in flight, the client's index |
| `Accumulator` | `state/accumulator.go` and the tables it writes | `events` is the table in order of NID; a snapshot is a set of NIDs; `Initialise` and `Accumulate` are one transaction each |
| `Storage` | reads of `state/storage.go` | operators on the tables: state after a position, joined rooms, visible ranges, latest timelines |
| `RoomPollers` | room part of `parseRoomsResponse`, with the two above | pollers of several users feed one room; `CallbackFails`, `Clean` |
| `Tracker` | `sync3/tracker.go` | the three maps, one operator per method |
| `TrackerProofs` | | theorem about `Tracker` |
| `Membership` | `RoomPollers` with `dispatcher.go`, `caches/global.go` and the payload methods of `handler.go` | `queue` holds V2 payloads; one action per payload type; `ReadFails`, `Restart` |
| `DeviceLists` | device list and device data tables, ticker, e2ee extension, on top of `Conn` | `bucket`, `keyData`, `ChangedBits` are columns; `notifyMap` the ticker's map; `ext` what the running request read |
| `Live` | `connstate.go`, `connstate_live.go`, user cache callbacks | `events` and `queue` (database and payloads), `waiting` (TxnIDWaiter), `updates` (buffer), then the fields of `ConnState`; `timeline` is what the client has |
| `Sessions` | `connmap.go`, `setupConnection`, `userCache`, `OnInvalidateRoom` | `cache` and `userIDToConn` are the maps; `expiring` the callbacks under way; `request` where each request stands |

Modules named `MC...` instantiate these for TLC.

Homeserver, database server and client are external: the homeserver is a stream
of items and the database a set of rows changed atomically per transaction.
Bodies of requests, events and messages are abstracted to identities.
Operators whose comment begins with "Mutant of" are wrong versions of the
definition below them. They show that a property can fail, and no
specification uses them.

## What is checked

| Run | Instance | Shows |
|---|---|---|
| `conn` | 2 bodies, 5 requests | the buffer keeps what the client needs, retransmissions find their answer, `Conn` implements `ResponseStream`, requests are answered |
| `poller_handshake` | 1 device, 2 calls, 2 pollers, channels of size 1 | no sleeping on a channel nobody can close, no double close, one poller per device, with payloads dropped at a full channel; EnsurePolling returns, unless a payload was dropped, the token lookup failed or the loop panicked |
| `poll_loop` | 2 devices, 2 rooms (1 malformed), 2 items, 2 faults | the since token is never ahead of stored data; to-device messages are stored once; key counts, account data and unread counts converge; progress |
| `to_device` | 3 messages, limit 2, 1 restart | no message lost; delivered in order and once, up to a restart; eventually delivered |
| `txn_ids` | 2 devices, 1 room, 2 events | order per room; transaction ID before event; held back no longer than needed; eventually published |
| `sliding_list` | 5 rooms, window [0,1] and an optional second, 1 live update per response, 1 change by the client | the client's positions agree with the list; which rooms are sent in full |
| `accumulator` | 2 users, 4 streams of 6 events, timelines of 2, 1 failed callback | snapshots replay the events; state after a position is right; the state is the homeserver's; timelines show only a user's stays and no unmarked gap; invites are retired; the cleaner keeps what is reachable |
| `membership` | as above with 1 client, 4 streams of 4 or 5 events, 1 fault | the two maps of the tracker agree; caches converge to the database; every event reaches the users it concerns; initial state is announced once |
| `device_lists` | 1 changing user, 1 key kind, 3 requests, 2 changes, 2 faults | no device list change is lost or repeated; key counts reach the client; a waiting request is woken |
| `live` | 3 rooms, 5 streams of up to 6 events, buffer 2, 2 updates per response, 3 windows, 2 subscription sets | timelines have no gaps and only visible events; updates are not starved |
| `sessions` | 2 connection IDs, 3 requests, 2 expiries, 1 invalidation | no connection is leaked; an invalidation leaves none on a dead cache, with two exceptions |

One run is expected to fail. It states what a comment says and the code does not
do.

| Run | What happens |
|---|---|
| `live_repeats` | TxnIDWaiter holds two events of a room while another room's event moves the anchor on. Initial data of the room then has both events. When they are released the first is skipped, but it rewinds `loadPositions`, and the second is appended again (`connstate_live.go:231`). |

Properties name their exceptions in their comments, and each exception is one of
the divergences listed below.

### Bounds

* `conn`: five requests let a client retry, change its mind and acknowledge
  around a buffer of several responses.
* `poller_handshake`: two calls and two pollers are what an expiry and a
  replacement need. Channels of size 1 make the full channel common.
* `poll_loop`: two items are enough for a response that is retried with more in
  it, and two faults for a failure followed by a restart.
* `sliding_list`: five rooms and two windows give gaps, adjacent windows and
  windows past the end. With more than one live update per response a single
  DELETE followed by another makes the demo client lose a room (see below).
  `UntilPanic` stops exploring at a read past the end of the list (see below).
* `accumulator`, `membership`: two pollers whose responses cut one stream at
  different points give every overlap of two timelines; timelines of two out of
  six events make gaps. The streams cover invite and rejection, leaving and
  coming back, state that changes twice, spaces, encryption and redaction.
* `device_lists`: three requests let a response be lost and its retry overlap a
  swap. `UntilLoss` stops exploring where data is known to be lost.
* `live`: two updates per response stand for 100 in the code, and the buffer is
  as small, so that both limits are reached.
* `sessions`: two expiries and three requests let a late callback meet a newer
  connection while a third request registers.

Deadlock checking is off where the bounded input can be used up and the system
then rightly rests. It is on in `to_device` and `sliding_list`.

Symmetry is used only in runs without liveness: over rooms in `sliding_list`,
request bodies in `device_lists`, requests and connection IDs in `sessions`.

### Fairness

* `Conn`: answers are delivered; handlers return, since their context has a
  timeout; and each waiting request eventually gets `c.mu` (strong fairness:
  Go's mutex hands over to a starved waiter).
* `PollerHandshake`: goroutines that can run do, and Listen loops drain.
* `PollLoop`: poll loops keep running. Faults are bounded.
* `ToDevice`: the client keeps asking. Strong fairness on the reads, on marking
  and on reception says that not every call fails for ever.
* `TxnIDs`: payloads are handled and timers fire.
* `Live`: payloads are handled, TxnIDWaiter publishes, a request runs to its
  response and the client keeps asking. Nothing makes a client ask the same
  thing twice.

## What is proved

`ConnProofs` proves, for every set of bodies and every number of requests:

* `TypeCorrect`: `Spec => []TypeOK`.
* `AckedRetained`: the response the client received last stays buffered, so a
  client that follows the protocol is never told that its session expired.
* `CachedAnswer`: a retransmission answered from the buffer always finds a
  response.
* `ConnImplementsStream`: `Conn` implements `ResponseStream`.

The assumptions are those of `Conn` (`ConnAssumption`): `NoBody` is not a body
and `MaxRequests` is a natural number.

None of these is inductive alone. `IInv` adds:

* the buffer is the tail of the history with consecutive positions (`BufferInv`);
* the client's position lies inside it (`ClientInv`);
* no request in flight is ahead of the client, and the awaited one is level with
  it (`RequestInv`);
* a request without a position is alone (`FirstInv`);
* the last request processed produced the newest response (`LastInv`);
* the running handler remembers the response that is due (`HolderInv`), and a
  reply on its way is that response (`ReplyInv`);
* positions are never more than requests sent (`CountInv`), which types need.

Three lemmas give the purge and search loops in closed form over consecutive
positions. One lemma per action shows that it preserves `IInv`.

`TrackerProofs` proves `TrackerMapsAgree`: for any rooms and users and any order
of the tracker's methods, a user is among the joined users of a room exactly
when the room is among that user's rooms. The invariant is inductive once the
types of the maps are added. The case that needs it is a reload, which finds the
users to remove through one map and updates the other. There are no assumptions.

Model-checked only: everything else, and all liveness. Liveness under fairness
and facts by induction over data are outside what the prover handles.

## Known divergences without a run

Behaviour met while modelling that differs from what a comment says, or that a
reader would not expect. Each is described as an exception of a property, or
explains a bound.

Polling:

* A success of an ended poller that arrives late marks the entry of a newer
  EnsurePolling as done, although nothing polls (`ensure_polling.go:158`).
* A call waiting in EnsurePolling is released when the token expires and a
  second call replaces the entry. It then returns "not expired" although no sync
  happened (`ensure_polling.go:60`).
* `OnAccountData` caches the hash before the write. If the write fails its retry
  is skipped as a duplicate (`handler2/handler.go:503`). `UpdateUnreadCounts`
  does the same and swallows the error (`handler2/handler.go:466`).
* A key request cancelled between the read and `SetUnackedPosition` is sent
  without its cancellation (`todevice.go:117`).

Storage:

* A rejected invite's leave event is stored ahead of earlier events nobody knows
  yet. The next timeline then drops those (`accumulator.go:606`). State blocks of
  left rooms are ignored.
* A limited timeline whose first event is known from another poller's state
  block is stored without `missing_previous`, and events before one known from a
  state block are dropped.
* A late state block of unknown older events overwrites newer state.
* `RoomStateAfterEventPosition` at a position whose latest event came from a
  state block returns the current state, plus that event; the filtered query may
  return the event twice.
* `OnInvite` handled after another poller stored the join leaves a stale invite.
* Snapshots made by state blocks can push reachable ones out of
  `RemoveInaccessibleStateSnapshots`.

Caches and dispatcher:

* `ResetMetadataState` clears the space children and does not load them again.
* The tracker's `Startup` loads no invited users, so invite counts are low after
  a restart and a rejection of an older invite is not announced.
* An initial state block in which every member event is a mere profile change
  leaves the counts at 0 until the next membership change.
* `HasLeft` of a user's room is only reset by an invite (`user.go:629`): after
  leaving and joining without one, the room stays out of lists until the cache is
  rebuilt.
* `userCache()` reads counts, invites and account data before the cache is
  registered; payloads in between are missed. `OnUnreadCounts` on a cache that is
  still being registered can overwrite its join timing (`user.go:547`).
* `OnSpaceUpdate` emits an update of the child room with the parent's event.

Connections:

* The update of a voluntary leave has NID 0 and is dropped, so the room stays in
  live lists; a kick's leave event is sent twice.
* Once a response has list operations, later events of rooms outside the window
  are sent as well (`connstate_live.go:415`).
* After a failed `load` the list is empty, and rooms come back only with their
  next activity. A panic in liveUpdate loses the updates it had taken. If
  `LazyLoadTimelines` fails, initial rooms have empty timelines.
* A dead connection is closed but stays in the cache until it is replaced
  (`connmap.go:119`). A late expiry callback takes a newer connection with the
  same ID off the index by user, so that an invalidation misses it.
* A connection set up while OnInvalidateRoom runs can end on a user cache that is
  not registered any more. A failed registration can take out the cache of
  another request.
* Device list changes are lost if the handler panics after the swap, if the first
  read of a session fails, or if a session is lost while two responses to one
  position were not received. A failed read leaves a request waiting until its
  timeout.

Lists:

* Deleting the last room, when it is the first of a window that does not start at
  0, reads past the end of the list (`ops.go:85`).
* Deleting a room of a window with exactly one room below it brings that room in
  without its data (`ops.go:115`).
* `Delta` reports no lone single-element range that was added or removed, and
  can return inverted ranges for adjacent ones (`range.go:127`).
* With adjacent windows, or when the room just below a window is deleted, room
  data is sent again although nothing entered a window.
* The demo client loses a room when a lone DELETE is followed by another DELETE
  in one response (`client/sync.js:310`).
* A DELETE for an emptied list whose windows do not contain 0 is a null
  operation (`ops.go:64`).
* After a deletion shrinks the list below a window, the client keeps entries
  past the end. `ClientAgrees` speaks of positions the list has.
* A client that moves its first window while responses are in flight can
  disagree with the server. The demo client never does: its first window is
  fixed.

## Not modelled, and the plan

* Proofs: `NoLostWakeup` and `NoDoubleClose` of the handshake,
  `SinceNeverAheadOfData` of the poll loop, `NothingLost`, `RoomOrderKept`,
  `NoConnLeaked`, and the events the dispatcher sends.
* Typing, receipts and the account data extension forward data as it arrives.
  The one piece of shared state is the map of the device that reports typing for
  a room, which `OnLeftRoom` clears for every device.
* Unread counts, invites and spaces inside the user cache; required state, lazy
  members and heroes of room data.
* Sticky request parameters (`ApplyDelta`), several lists on one connection,
  comparators and filters. A list is a sequence that any legal change may reorder.
* Left out for good: SQL text, migrations, HTTP, metrics, tracing, room name and
  avatar calculation. They are I/O or pure formatting.
