------------------------------- MODULE PubSub -------------------------------
(***************************************************************************)
(* The in-process publish/subscribe of pubsub/pubsub.go: one bounded       *)
(* channel from the pollers to the API (ChanV2) and one back (ChanV3),     *)
(* each drained by one Listen loop.  Notify waits for room in the channel; *)
(* when it has waited too long it gives up, and its callers ignore the     *)
(* error, so the payload is lost.                                          *)
(***************************************************************************)
EXTENDS Naturals, Sequences

CONSTANT BufferSize  \* capacity of a channel

ASSUME PubSubAssumption == BufferSize \in Nat \ {0}

VARIABLES chanV2,  \* payloads on their way to the API
          chanV3,  \* payloads on their way to the pollers
          lost     \* history: a payload was given up

pubsubVars == <<chanV2, chanV3, lost>>

PubSubInit == chanV2 = << >> /\ chanV3 = << >> /\ lost = FALSE

\* What Notify makes of channel ch, and whether it gave up.
Notify(ch, p, newCh, newLost) ==
    \/ Len(ch) < BufferSize /\ newCh = Append(ch, p) /\ newLost = lost
    \/ Len(ch) = BufferSize /\ newCh = ch /\ newLost = TRUE

NotifyV2(p) == Notify(chanV2, p, chanV2', lost') /\ UNCHANGED chanV3

NotifyV3(p) == Notify(chanV3, p, chanV3', lost') /\ UNCHANGED chanV2

\* The Listen loops take the oldest payload and run its callback.
ListenV2(p) ==
    /\ chanV2 # << >> /\ p = Head(chanV2)
    /\ chanV2' = Tail(chanV2)
    /\ UNCHANGED <<chanV3, lost>>

ListenV3(p) ==
    /\ chanV3 # << >> /\ p = Head(chanV3)
    /\ chanV3' = Tail(chanV3)
    /\ UNCHANGED <<chanV2, lost>>
=============================================================================
