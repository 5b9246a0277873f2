SPECIFICATION Spec
CONSTANTS
    ConnID = {c1, c2}
    Request = {q1, q2, q3}
    MaxExpired = 2
    MaxInvalidations = 1
SYMMETRY Symmetry
INVARIANTS
    NoConnLeaked
    InvalidationClosesConns
\* Requests are bounded and may be used up.
CHECK_DEADLOCK FALSE
