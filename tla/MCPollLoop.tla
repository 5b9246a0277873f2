----------------------------- MODULE MCPollLoop -----------------------------
(* Instances of PollLoop for TLC.  The two devices are interchangeable, so a *)
(* stream that addresses d2 before d1 adds nothing and is left out.          *)
EXTENDS PollLoop

CONSTANTS d1, d2

names(s, n, d) == s[n].kind \in {"to_device", "e2ee"} /\ s[n].to = d
MCStreams == {s \in [Pos -> Item] :
                \A n \in Pos : names(s, n, d2) => \E m \in 1..(n - 1) : names(s, m, d1)}
============================================================================
