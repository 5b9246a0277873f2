-------------------------- MODULE PollerHandshake ---------------------------
(***************************************************************************)
(* EnsurePoller and PollerMap composed over the two pubsub channels.       *)
(***************************************************************************)
EXTENDS PollerMap

vars == <<apiVars, pubsubVars, pollerVars>>

Init == PubSubInit /\ EnsurePollerInit /\ PollerMapInit

\* The API's Listen loop.
OnV2Payload ==
    \E p \in {chanV2[k] : k \in 1..Len(chanV2)} :
        /\ ListenV2(p)
        /\ \/ p.type = "InitialSyncComplete" /\ OnInitialSyncComplete(p)
           \/ p.type = "ExpiredToken" /\ OnExpiredToken(p)
        /\ UNCHANGED pollerVars

ApiStep(c) == EnsurePollingNotify(c) \/ EnsurePollingWakes(c)

EnsurerStep(e) ==
    PollerMapEnsurePolling(e) \/ EnsurePollingReturns(e) \/ EnsurePollingReports(e)

PollStep(i) ==
    PollSucceeds(i) \/ PollExpires(i) \/ PollTerminates(i) \/ PollFindsTerminated(i)

Next ==
    \/ \E c \in Call, d \in Device : EnsurePolling(c, d) /\ UNCHANGED pollerVars
    \/ \E c \in Call : ApiStep(c) /\ UNCHANGED pollerVars
    \/ OnV2Payload
    \/ HandlerEnsurePolling
    \/ \E e \in Ensurer : EnsurerStep(e)
    \/ \E i \in index : PollStep(i) \/ PollPanics(i)
    \/ \E d \in Device : ExpirePollers(d)
    \/ ExpirePollersReports

Spec == Init /\ [][Next]_vars

\* While some goroutine or Listen loop can run, one of them does.  A poll ends,
\* with an answer or, after a bounded number of failures, by expiring the token.
Progress ==
    \/ \E c \in Call : ApiStep(c) /\ UNCHANGED pollerVars
    \/ OnV2Payload
    \/ HandlerEnsurePolling
    \/ \E e \in Ensurer : EnsurerStep(e)
    \/ \E i \in index : PollStep(i)
    \/ ExpirePollersReports

FairSpec == Spec /\ WF_vars(Progress)

-----------------------------------------------------------------------------
(* Properties.                                                             *)

\* No call of EnsurePolling sleeps on a channel nobody can close: the channel is
\* closed already or it is still the one in pendingPolls, also after an expiry
\* replaced the entry.
NoLostWakeup ==
    \A c \in Call :
        call[c].pc = "wait" =>
            \/ call[c].ch \in closed
            \/ pendingPolls[call[c].dev].ch = call[c].ch

\* A channel in pendingPolls is open, so that neither OnInitialSyncComplete nor
\* an EnsurePolling that finds the entry expired closes a channel twice, which
\* would panic.
NoDoubleClose ==
    \A d \in Device : pendingPolls[d].ch # NoChan => pendingPolls[d].ch \notin closed


OutOfPollers ==
    Len(pollers) = MaxPollers
      /\ \E e \in Ensurer : ensuring[e].pc = "start" /\ NeedsPoller(ensuring[e].dev)

\* A call of EnsurePolling returns, unless a payload was lost, the token could
\* not be looked up, or a poll loop panicked (bound: or no more pollers can be
\* created).
EnsurePollingTerminates ==
    \A c \in Call :
        call[c].pc = "wait" ~> \/ call[c].pc # "wait"
                               \/ lost \/ fault \/ OutOfPollers
=============================================================================
