------------------------------ MODULE Sessions -------------------------------
(***************************************************************************)
(* How the connections of one user come and go: setupConnection and        *)
(* OnInvalidateRoom (sync3/handler/handler.go) against ConnMap             *)
(* (sync3/connmap.go), whose indexes are changed by requests, by the       *)
(* expiry of a TTL cache and by payloads.  connIDToConn only counts        *)
(* connections for a metric and is left out.                               *)
(*                                                                         *)
(* The TTL cache is a library.  It calls back in a goroutine of its own,   *)
(* some time after the entry is gone.                                      *)
(***************************************************************************)
EXTENDS Integers, Sequences, FiniteSets

CONSTANTS ConnID,     \* the connections the user's clients name
          Request,    \* requests for a new connection, each made once
          MaxExpired, \* bound: entries that reach their TTL or whose buffer fills up
          MaxInvalidations \* bound: OnInvalidateRoom and OnExpiredToken

ASSUME SessionsAssumption == {MaxExpired, MaxInvalidations} \subseteq Nat

VARIABLES conns,        \* every Conn ever created
          cache,        \* the TTL cache: ConnID -> Conn, 0 if none
          userIDToConn, \* the Conns listed for the user
          expiring,     \* Conns whose callback has not run yet
          caches,       \* number of UserCaches ever created
          userCaches, receiver, \* SyncLiveHandler.userCaches, Dispatcher: 0 if none
          request,      \* per request: where setupConnection is
          invalidating, closing, \* where OnInvalidateRoom or OnExpiredToken is
          expired, invalidations \* history: see the bounds

connMap == <<conns, cache, userIDToConn, expiring>>
userCacheVars == <<caches, userCaches, receiver>>
payload == <<invalidating, closing>>
history == <<expired, invalidations>>
vars == <<connMap, userCacheVars, request, payload, history>>

Waiting == [pc |-> "start", uc |-> 0]

Init ==
    /\ conns = <<>> /\ cache = [c \in ConnID |-> 0]
    /\ userIDToConn = {} /\ expiring = {}
    /\ caches = 0 /\ userCaches = 0 /\ receiver = 0
    /\ request = [q \in Request |-> Waiting]
    /\ invalidating = "no" /\ closing = {} /\ expired = 0 /\ invalidations = 0

-----------------------------------------------------------------------------
(* ConnMap.  Each of its methods holds mu.                                 *)

\* Alive: the update buffer did not overflow.
Alive(i) == ~conns[i].full

\* closeConn.  It removes whatever the indexes hold for the ConnID, and destroys
\* the Conn it was given, which unsubscribes it from the user cache.
SameID(i) == {j \in userIDToConn : conns[j].cid = conns[i].cid}
Closed(i) == [conns EXCEPT ![i].closed = TRUE]

closeConn(i) ==
    /\ conns' = Closed(i)
    /\ userIDToConn' = userIDToConn \ SameID(i)

\* Conn, getConn: a request with a position.  A Conn that is not alive is
\* closed; the entry stays in the TTL cache.
Conn(c) ==
    /\ cache[c] # 0
    /\ ~Alive(cache[c])
    /\ closeConn(cache[c])
    /\ UNCHANGED <<cache, expiring, userCacheVars, request, payload, history>>

\* Mutant of Replaced: the old connection is only overwritten.
ReplacedOpen(c) == conns

\* CreateConn closes the Conn that the TTL cache holds for the ConnID.
Replaced(c) == IF cache[c] = 0 THEN conns ELSE Closed(cache[c])

CreateConn(q, c) ==
    LET new == Len(conns) + 1
        old == IF cache[c] = 0 THEN {} ELSE SameID(cache[c])
    IN  /\ request[q].pc = "create"
        /\ conns' = Append(Replaced(c),
                      [cid |-> c, uc |-> request[q].uc, full |-> FALSE, closed |-> FALSE,
                       stale |-> request[q].uc # receiver, unlisted |-> FALSE])
        /\ cache' = [cache EXCEPT ![c] = new]
        /\ userIDToConn' = (userIDToConn \ old) \cup {new}
        /\ request' = [request EXCEPT ![q].pc = "done"]
        /\ UNCHANGED <<expiring, userCacheVars, payload, history>>

\* The entry reaches its TTL.
Expire(c) ==
    /\ cache[c] # 0 /\ expired < MaxExpired
    /\ expired' = expired + 1
    /\ cache' = [cache EXCEPT ![c] = 0]
    /\ expiring' = expiring \cup {cache[c]}
    /\ UNCHANGED <<conns, userIDToConn, userCacheVars, request, payload,
                   invalidations>>

\* The callback.  By now there may be a newer Conn with the same ConnID: it loses
\* its place in userIDToConn.
closeConnExpires(i) ==
    /\ i \in expiring
    /\ expiring' = expiring \ {i}
    /\ conns' = [j \in DOMAIN conns |->
                   IF j = i THEN Closed(i)[j]
                   ELSE [conns[j] EXCEPT !.unlisted = @ \/ j \in SameID(i)]]
    /\ userIDToConn' = userIDToConn \ SameID(i)
    /\ UNCHANGED <<cache, userCacheVars, request, payload, history>>

\* connStateLive.onUpdate: the buffer is full, and the Conn destroys itself.
BufferFull(i) ==
    /\ ~conns[i].closed /\ expired < MaxExpired
    /\ expired' = expired + 1
    /\ conns' = [Closed(i) EXCEPT ![i].full = TRUE]
    /\ UNCHANGED <<cache, userIDToConn, expiring, userCacheVars, request,
                   payload, invalidations>>

\* Mutant of Listed: only the oldest connection is closed.
ListedOnce == {i \in userIDToConn : \A j \in userIDToConn : i <= j}

\* CloseConnsForUsers: the entries of the user's Conns leave the TTL cache, which
\* starts their callbacks.
Listed == userIDToConn
ListedIDs == {conns[i].cid : i \in Listed}

Remove(cids) ==
    /\ cache' = [c \in ConnID |-> IF c \in cids THEN 0 ELSE cache[c]]
    /\ expiring' = expiring \cup ({cache[c] : c \in cids} \ {0})
    /\ UNCHANGED <<conns, userIDToConn>>

-----------------------------------------------------------------------------
(* setupConnection, once the poller runs (EnsurePoller).                   *)

\* userCache: an existing cache is used, else one is filled from the database.
userCacheLoad(q) ==
    /\ request[q].pc = "start"
    /\ IF userCaches # 0
       THEN /\ request' = [request EXCEPT ![q] = [pc |-> "create", uc |-> userCaches]]
            /\ UNCHANGED caches
       ELSE /\ caches' = caches + 1
            /\ request' = [request EXCEPT ![q] = [pc |-> "store", uc |-> caches + 1]]
    /\ UNCHANGED <<connMap, userCaches, receiver, payload, history>>

\* Filling the cache failed.
userCacheFails(q) ==
    /\ request[q].pc = "store"
    /\ request' = [request EXCEPT ![q] = [pc |-> "done", uc |-> 0]]
    /\ UNCHANGED <<connMap, userCacheVars, payload, history>>

LoadOrStore(q) ==
    /\ request[q].pc = "store"
    /\ IF userCaches # 0
       THEN /\ request' = [request EXCEPT ![q] = [pc |-> "create", uc |-> userCaches]]
            /\ UNCHANGED userCaches
       ELSE /\ userCaches' = request[q].uc
            /\ request' = [request EXCEPT ![q].pc = "register"]
    /\ UNCHANGED <<connMap, caches, receiver, payload, history>>

\* Dispatcher.Register holds its lock while OnRegistered runs, which may fail: then
\* the receiver and the cache are taken out again, in two steps.  Connections that
\* lose their receiver in this way stay open: NoReceiver records them.
NoReceiver == [i \in DOMAIN conns |->
                 [conns[i] EXCEPT !.stale = @ \/ conns[i].uc = receiver]]

Register(q) ==
    /\ request[q].pc = "register"
    /\ receiver' = request[q].uc
    /\ conns' = NoReceiver
    /\ \E pc \in {"create", "unregister"} : request' = [request EXCEPT ![q].pc = pc]
    /\ UNCHANGED <<cache, userIDToConn, expiring, caches, userCaches, payload, history>>

Unregister(q) ==
    /\ request[q].pc = "unregister"
    /\ receiver' = 0
    /\ conns' = NoReceiver
    /\ request' = [request EXCEPT ![q].pc = "delete"]
    /\ UNCHANGED <<cache, userIDToConn, expiring, caches, userCaches, payload, history>>

Delete(q) ==
    /\ request[q].pc = "delete"
    /\ userCaches' = 0
    /\ request' = [request EXCEPT ![q] = [pc |-> "done", uc |-> 0]]
    /\ UNCHANGED <<connMap, caches, receiver, payload, history>>

-----------------------------------------------------------------------------
(* Payloads.                                                               *)

\* OnInvalidateRoom, for a room the user is involved in: UnregisterBulk, then
\* userCaches.Delete, then CloseConnsForUsers, if there was a receiver.
OnInvalidateRoom ==
    \/ /\ invalidating = "no" /\ receiver # 0 /\ invalidations < MaxInvalidations
       /\ invalidations' = invalidations + 1
       /\ receiver' = 0 /\ invalidating' = "unregistered"
       /\ UNCHANGED <<connMap, caches, userCaches>>
    \/ /\ invalidating = "unregistered"
       /\ userCaches' = 0 /\ invalidating' = "deleted"
       /\ UNCHANGED <<connMap, caches, receiver, invalidations>>
    \/ /\ invalidating = "deleted"
       /\ Remove(ListedIDs) /\ invalidating' = "no"
       /\ UNCHANGED <<userCacheVars, invalidations>>

HandleInvalidateRoom == OnInvalidateRoom /\ UNCHANGED <<request, closing, expired>>

\* OnExpiredToken: CloseConnsForDevice lists the connections under mu, and then
\* removes them one by one without it.
OnExpiredToken ==
    /\ invalidating = "no" /\ invalidations < MaxInvalidations
    /\ invalidations' = invalidations + 1
    /\ closing' = ListedIDs
    /\ invalidating' = "closing"
    /\ UNCHANGED <<connMap, userCacheVars, request, expired>>

CloseConnsForDevice ==
    /\ invalidating = "closing"
    /\ \/ /\ closing = {} /\ invalidating' = "no"
          /\ UNCHANGED <<connMap, closing>>
       \/ \E c \in closing : /\ closing' = closing \ {c} /\ Remove({c})
                             /\ UNCHANGED invalidating
    /\ UNCHANGED <<userCacheVars, request, history>>

-----------------------------------------------------------------------------
Next ==
    \/ \E q \in Request : \/ userCacheLoad(q) \/ userCacheFails(q) \/ LoadOrStore(q)
                          \/ Register(q) \/ Unregister(q) \/ Delete(q)
                          \/ \E c \in ConnID : CreateConn(q, c)
    \/ \E c \in ConnID : Conn(c) \/ Expire(c)
    \/ \E i \in DOMAIN conns : closeConnExpires(i) \/ BufferFull(i)
    \/ HandleInvalidateRoom \/ OnExpiredToken \/ CloseConnsForDevice

Spec == Init /\ [][Next]_vars

-----------------------------------------------------------------------------
(* Properties.                                                             *)

\* No connection is leaked: one that still listens to its user cache can be found
\* by its ConnID, or its callback is under way.  And a lookup finds no destroyed
\* connection, except one whose buffer overflowed, which getConn turns away.
NoConnLeaked ==
    /\ \A i \in DOMAIN conns :
         ~conns[i].closed => cache[conns[i].cid] = i \/ i \in expiring
    /\ \A c \in ConnID : cache[c] # 0 /\ Alive(cache[c]) => ~conns[cache[c]].closed

\* After OnInvalidateRoom no connection is left on a user cache that gets no
\* events any more, whatever requests create at the same time.  Two kinds of
\* connections escape: one created on a cache that was not the registered one
\* at that time, and one that a late callback struck off the list.
InvalidationClosesConns ==
    invalidating = "no" =>
        \A i \in DOMAIN conns :
            ~conns[i].closed /\ conns[i].uc # receiver =>
                i \in expiring \/ conns[i].stale \/ conns[i].unlisted
=============================================================================
