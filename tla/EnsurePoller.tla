---------------------------- MODULE EnsurePoller ----------------------------
(***************************************************************************)
(* The API side of poller start-up (sync3/handler/ensure_polling.go): every *)
(* request for a new connection calls EnsurePolling, which returns at once *)
(* when the device's poller is known to run, joins a start-up in progress, *)
(* or asks the pollers for one and waits for the answer on a channel.  A   *)
(* channel is named by the call that made it.                              *)
(*                                                                         *)
(* The tokens table is abstracted away: a request may come with a fresh    *)
(* token of its device, and looking up a token by its hash may fail.       *)
(***************************************************************************)
EXTENDS PubSub

CONSTANTS Device,    \* the devices of one user
          Call,      \* requests that set up a connection
          NoChan     \* the nil channel

ASSUME EnsurePollerAssumption == NoChan \notin Call

VARIABLES pendingPolls,  \* device -> NoEntry or pendingInfo
          closed,        \* channels that have been closed
          call           \* the goroutine of each request

apiVars == <<pendingPolls, closed, call>>

NoEntry == [done |-> FALSE, expired |-> FALSE, ch |-> NoChan]  \* zero value

Idle == [pc |-> "idle"]

EnsurePollerInit ==
    /\ pendingPolls = [d \in Device |-> NoEntry]
    /\ closed = {}
    /\ call = [c \in Call |-> Idle]

-----------------------------------------------------------------------------
\* Mutant of ClosedByExpiry: the waiters of an expired entry are forgotten.
ClosedByNothing(entry) == {}

\* The channel to close before an expired entry is replaced.
ClosedByExpiry(entry) == IF entry.expired THEN {entry.ch} \ {NoChan} ELSE {}

\* A request of device d: setupConnection identifies it by its token and calls
\* EnsurePolling, which runs under p.mu up to its Notify or its wait.
EnsurePolling(c, d) ==
    /\ call[c] = Idle
    /\ LET entry == pendingPolls[d]
       IN \/ \* known to be polling
             /\ entry.done /\ ~entry.expired
             /\ call' = [call EXCEPT ![c] = [pc |-> "returned", dev |-> d,
                                             expired |-> FALSE]]
             /\ UNCHANGED <<pendingPolls, closed>>
          \/ \* another call is already waiting
             /\ ~entry.expired /\ ~entry.done /\ entry.ch # NoChan
             /\ call' = [call EXCEPT ![c] = [pc |-> "wait", dev |-> d,
                                             ch |-> entry.ch]]
             /\ UNCHANGED <<pendingPolls, closed>>
          \/ \* never asked, or expired: start over
             /\ entry.expired \/ (~entry.done /\ entry.ch = NoChan)
             /\ closed' = closed \cup ClosedByExpiry(entry)
             /\ pendingPolls' = [pendingPolls EXCEPT ![d] =
                                   [done |-> FALSE, expired |-> FALSE, ch |-> c]]
             /\ call' = [call EXCEPT ![c] = [pc |-> "notify", dev |-> d]]
    /\ UNCHANGED pubsubVars

\* The channel made above is published, then waited on.
EnsurePollingNotify(c) ==
    /\ call[c].pc = "notify"
    /\ NotifyV3([by |-> c, dev |-> call[c].dev])
    /\ call' = [call EXCEPT ![c] = [pc |-> "wait", dev |-> call[c].dev, ch |-> c]]
    /\ UNCHANGED <<pendingPolls, closed>>

\* <-ch returned; the entry is read again under the lock.
EnsurePollingWakes(c) ==
    /\ call[c].pc = "wait"
    /\ call[c].ch \in closed
    /\ call' = [call EXCEPT ![c] = [pc |-> "returned", dev |-> call[c].dev,
                                    expired |-> pendingPolls[call[c].dev].expired]]
    /\ UNCHANGED <<pendingPolls, closed, pubsubVars>>

\* "expiry latches true"
LatchExpired(entry, success) == entry.expired \/ ~success

\* Mutant of Completed: the closed channel stays in the map.
CompletedKeepsChan(entry, success) ==
    [done |-> TRUE, expired |-> LatchExpired(entry, success), ch |-> entry.ch]

\* The entry of a device whose initial sync was reported.
Completed(entry, success) ==
    [done |-> TRUE, expired |-> LatchExpired(entry, success), ch |-> NoChan]

OnInitialSyncComplete(p) ==
    LET entry == pendingPolls[p.dev] IN
    /\ IF entry.done
         THEN UNCHANGED <<pendingPolls, closed>>
         ELSE /\ pendingPolls' = [pendingPolls EXCEPT ![p.dev] =
                                    Completed(entry, p.success)]
              /\ closed' = closed \cup ({entry.ch} \ {NoChan})
    /\ UNCHANGED call

\* An entry the map does not hold stays absent.
OnExpiredToken(p) ==
    /\ pendingPolls' =
         IF pendingPolls[p.dev] = NoEntry THEN pendingPolls
         ELSE [pendingPolls EXCEPT ![p.dev].expired = TRUE]
    /\ UNCHANGED <<closed, call>>
=============================================================================
