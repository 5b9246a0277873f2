--------------------------- MODULE ResponseStream ---------------------------
(***************************************************************************)
(* What a connection promises its client, with no positions, no buffer and *)
(* no retransmission: the handler produces a log of responses, and the     *)
(* client sees that log from its first entry on, in order, each entry      *)
(* exactly once.  A response is named by the request body whose processing *)
(* produced it.  Conn.tla implements this specification.                   *)
(***************************************************************************)
EXTENDS Naturals, Sequences

CONSTANT Body

VARIABLES log, seen

Init == log = << >> /\ seen = << >>

\* A new response is computed.  When an earlier response is still unseen, only
\* a request that differs from the last one processed may add another.
Produce(b) ==
    /\ Len(log) > Len(seen) => log[Len(log)] # b
    /\ log' = Append(log, b)
    /\ UNCHANGED seen

\* The client accepts the oldest response it has not seen.
Consume ==
    /\ Len(seen) < Len(log)
    /\ seen' = Append(seen, log[Len(seen) + 1])
    /\ UNCHANGED log

Next == Consume \/ \E b \in Body : Produce(b)

Spec == Init /\ [][Next]_<<log, seen>>
=============================================================================
