----------------------------- MODULE PollerMap ------------------------------
(***************************************************************************)
(* The poller side of poller start-up: PollerMap and the life of a poller  *)
(* (sync2/poller.go), driven by Handler.EnsurePolling, StartV2Pollers and  *)
(* ExpireOldPollers (sync2/handler2/handler.go).  What one poll does with  *)
(* the data it receives is left to the PollLoop module; here a poll        *)
(* succeeds, finds its token expired, or panics.                           *)
(***************************************************************************)
EXTENDS EnsurePoller

CONSTANT MaxPollers  \* bound: pollers ever created

ASSUME PollerMapAssumption == MaxPollers \in Nat /\ Call \cap Device = {}

VARIABLES pollers,   \* every poller ever created, the newest last
          Pollers,   \* the map: device -> index into pollers, or 0
          ensuring,  \* the goroutines inside PollerMap.EnsurePolling
          expirer,   \* the poller ExpirePollers has just terminated, or 0
          fault      \* history: a lookup failed or a poll panicked (bound: once)

pollerVars == <<pollers, Pollers, ensuring, expirer, fault>>

\* Goroutines that ensure a poller: one per request for one, and the worker of
\* StartV2Pollers that handles the device.
Ensurer == Call \cup Device
NotRunning == [pc |-> "none"]

index == 1..Len(pollers)
running(i) == i \in index /\ ~pollers[i].terminated

\* StartV2Pollers begins with the devices that have a token in the database.
PollerMapInit ==
    /\ pollers = << >>
    /\ Pollers = [d \in Device |-> 0]
    /\ \E S \in SUBSET Device :
         ensuring = [e \in Ensurer |->
                       IF e \in S THEN [pc |-> "start", dev |-> e] ELSE NotRunning]
    /\ expirer = 0
    /\ fault = FALSE

-----------------------------------------------------------------------------
\* Handler.EnsurePolling: the callback of a V3EnsurePolling payload.  A token
\* that is not in the table, or a failing database, ends it without an answer.
HandlerEnsurePolling ==
    \E p \in {chanV3[k] : k \in 1..Len(chanV3)} :
        /\ ListenV3(p)
        /\ \/ /\ ensuring' = [ensuring EXCEPT ![p.by] =
                                [pc |-> "start", dev |-> p.dev]]
              /\ UNCHANGED fault
           \/ /\ ~fault /\ fault' = TRUE
              /\ UNCHANGED ensuring
        /\ UNCHANGED <<apiVars, pollers, Pollers, expirer>>

\* Another device of the user has a poller, which need not have synced yet.
needToWait(d) == ~\E e \in Device \ {d} : running(Pollers[e])


NeedsPoller(d) == ~running(Pollers[d])

\* PollerMap.EnsurePolling under pollerMu.
PollerMapEnsurePolling(e) ==
    /\ ensuring[e].pc = "start"
    /\ LET d == ensuring[e].dev
       IN \/ /\ ~NeedsPoller(d)
             /\ ensuring' = [ensuring EXCEPT ![e] =
                               [pc |-> "waitOld", dev |-> d, i |-> Pollers[d]]]
             /\ UNCHANGED <<pollers, Pollers>>
          \/ /\ NeedsPoller(d)
             /\ Len(pollers) < MaxPollers
             /\ pollers' = Append(pollers,
                             [dev |-> d, phase |-> "polling", terminated |-> FALSE,
                              synced |-> FALSE, released |-> FALSE])
             /\ Pollers' = [Pollers EXCEPT ![d] = Len(pollers) + 1]
             /\ ensuring' = [ensuring EXCEPT ![e] =
                               [pc |-> IF needToWait(d) THEN "waitNew" ELSE "check",
                                dev |-> d, i |-> Len(pollers) + 1]]
    /\ UNCHANGED <<apiVars, pubsubVars, expirer, fault>>

\* WaitUntilInitialSync returned (or was skipped): a new poller that terminated
\* meanwhile is an error, an existing one never is.
EnsurePollingReturns(e) ==
    /\ ensuring[e].pc \in {"waitOld", "waitNew", "check"}
    /\ ensuring[e].pc # "check" => pollers[ensuring[e].i].released
    /\ ensuring' = [ensuring EXCEPT ![e] =
                      [pc |-> "notify", dev |-> ensuring[e].dev,
                       success |-> ensuring[e].pc = "waitOld" \/ running(ensuring[e].i)]]
    /\ UNCHANGED <<apiVars, pubsubVars, pollers, Pollers, expirer, fault>>

\* The caller of PollerMap.EnsurePolling reports the outcome.
EnsurePollingReports(e) ==
    /\ ensuring[e].pc = "notify"
    /\ NotifyV2([type |-> "InitialSyncComplete", dev |-> ensuring[e].dev,
                 success |-> ensuring[e].success])
    /\ ensuring' = [ensuring EXCEPT ![e] = NotRunning]
    /\ UNCHANGED <<apiVars, pollers, Pollers, expirer, fault>>

-----------------------------------------------------------------------------
(* The poll loop of poller i.                                              *)

\* A poll that succeeds; the first one releases WaitUntilInitialSync.
PollSucceeds(i) ==
    /\ pollers[i].phase = "polling" /\ running(i) /\ ~pollers[i].released
    /\ pollers' = [pollers EXCEPT ![i].synced = TRUE, ![i].released = TRUE]
    /\ UNCHANGED <<apiVars, pubsubVars, Pollers, ensuring, expirer, fault>>

\* The homeserver rejects the token, or too many polls failed: OnExpiredToken
\* deletes the row and tells the API; the poller terminates in the next step.
PollExpires(i) ==
    /\ pollers[i].phase = "polling" /\ running(i)
    /\ NotifyV2([type |-> "ExpiredToken", dev |-> pollers[i].dev])
    /\ pollers' = [pollers EXCEPT ![i].phase = "expiring"]
    /\ UNCHANGED <<apiVars, Pollers, ensuring, expirer, fault>>

\* Mutant of Ended: the loop ends without releasing the waiters.
EndedSilently(p) == [p EXCEPT !.phase = "ended", !.terminated = TRUE]

\* The loop is over: "always unblock EnsurePolling".
Ended(p) == [p EXCEPT !.phase = "ended", !.terminated = TRUE, !.released = TRUE]

PollTerminates(i) ==
    /\ pollers[i].phase = "expiring"
    /\ pollers' = [pollers EXCEPT ![i] = Ended(pollers[i])]
    /\ UNCHANGED <<apiVars, pubsubVars, Pollers, ensuring, expirer, fault>>

\* The loop finds that ExpirePollers terminated the poller.
PollFindsTerminated(i) ==
    /\ pollers[i].phase = "polling" /\ ~running(i)
    /\ pollers' = [pollers EXCEPT ![i] = Ended(pollers[i])]
    /\ UNCHANGED <<apiVars, pubsubVars, Pollers, ensuring, expirer, fault>>

\* A panic is recovered in a deferred function, after which the loop is gone.
PollPanics(i) ==
    /\ pollers[i].phase = "polling"
    /\ pollers' = [pollers EXCEPT ![i].phase = "ended"]
    /\ ~fault /\ fault' = TRUE
    /\ UNCHANGED <<apiVars, pubsubVars, Pollers, ensuring, expirer>>

\* ExpirePollers, on a ticker started once StartV2Pollers finished: terminate
\* an old device's poller, then expire its token.
ExpirePollers(d) ==
    /\ \A e \in Device : ensuring[e] = NotRunning
    /\ expirer = 0
    /\ running(Pollers[d])
    /\ pollers' = [pollers EXCEPT ![Pollers[d]].terminated = TRUE]
    /\ expirer' = Pollers[d]
    /\ UNCHANGED <<apiVars, pubsubVars, Pollers, ensuring, fault>>

ExpirePollersReports ==
    /\ expirer # 0
    /\ NotifyV2([type |-> "ExpiredToken", dev |-> pollers[expirer].dev])
    /\ expirer' = 0
    /\ UNCHANGED <<apiVars, pollers, Pollers, ensuring, fault>>
=============================================================================
