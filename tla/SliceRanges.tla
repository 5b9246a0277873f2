---------------------------- MODULE SliceRanges ----------------------------
(***************************************************************************)
(* sync3/range.go: the ranges of list positions a client asks for.  A      *)
(* range is a pair <<lo, hi>> of 0-based positions, closed at both ends; a *)
(* request has a sequence of them.                                         *)
(***************************************************************************)
EXTENDS Integers, Sequences, FiniteSets, FiniteSetsExt, SequencesExt

within(sr, i) == sr[1] <= i /\ i <= sr[2]

Valid(r) ==
    \A i \in DOMAIN r :
        /\ r[i][1] <= r[i][2] /\ r[i][1] >= 0
        /\ \A j \in (i + 1)..Len(r) :
             /\ ~\E k \in 1..2 : within(r[j], r[i][k])
             /\ ~\E k \in 1..2 : within(r[i], r[j][k])

Inside(r, i) == \E k \in DOMAIN r : within(r[k], i)

\* The range Inside returns with its answer.
rangeOf(r, i) == r[Min({k \in DOMAIN r : within(r[k], i)})]

\* The bound of a range closest to i in one direction, -1 if there is none.
ClosestInDirection(r, i, towardsZero) ==
    LET indexes == SortSeq(FlattenSeq(r), <)
        n == Len(indexes)
        above == {j \in 1..n : indexes[j] >= i}
        below == {j \in 1..n : indexes[j] <= i}
        up == Min(above)
        down == Max(below)
    IN IF towardsZero
       THEN CASE above = {} -> indexes[n]
              [] above # {} /\ indexes[up] = i /\ up % 2 = 1 -> i
              [] above # {} /\ up = 1 /\ indexes[up] # i -> -1
              [] OTHER -> indexes[up - 1]
       ELSE CASE below = {} -> indexes[1]
              [] below # {} /\ indexes[down] = i /\ down % 2 = 0 -> i
              [] below # {} /\ down = n /\ indexes[down] # i -> -1
              [] OTHER -> indexes[down + 1]

-----------------------------------------------------------------------------
(***************************************************************************)
(* Delta sweeps over the bounds of the old and the new ranges.             *)
(***************************************************************************)
points(r, isOld) ==
    FlattenSeq([k \in DOMAIN r |->
        <<[x |-> r[k][1], old |-> isOld, open |-> TRUE],
          [x |-> r[k][2], old |-> isOld, open |-> FALSE]>>])

\* Opening bounds before closing ones, then old before new.
sortsBefore(p, q) ==
    CASE p.x # q.x       -> p.x < q.x
      [] p.open # q.open -> p.open
      [] OTHER           -> p.old /\ ~q.old

\* The range that ends at p, in a sequence that is empty if it has no length.
createRange(p, last, merged) ==
    LET start == IF \/ merged # << >> /\ last.x <= merged[2]
                    \/ ~last.open
                 THEN last.x + 1 ELSE last.x
    IN IF p.x <= last.x THEN << >>
       ELSE << <<start, IF p.open THEN p.x - 1 ELSE p.x>> >>

sweep(acc, p) ==
    LET bothOpen == acc.openOld /\ acc.openNew
        made == IF bothOpen THEN << <<acc.last.x, p.x>> >>
                ELSE IF acc.openOld \/ acc.openNew
                     THEN createRange(p, acc.last, acc.merged)
                     ELSE << >>
    IN IF acc.last = p THEN acc
       ELSE [openOld |-> IF p.old THEN p.open ELSE acc.openOld,
             openNew |-> IF p.old THEN acc.openNew ELSE p.open,
             last    |-> p,
             merged  |-> IF made = << >> THEN acc.merged ELSE made[1],
             same    |-> IF bothOpen THEN acc.same \o made ELSE acc.same,
             added   |-> IF acc.openNew /\ ~bothOpen THEN acc.added \o made
                         ELSE acc.added,
             removed |-> IF acc.openOld /\ ~bothOpen THEN acc.removed \o made
                         ELSE acc.removed]

Delta(r, next) ==
    LET start == [openOld |-> FALSE, openNew |-> FALSE,
                  last |-> [x |-> -1, old |-> TRUE, open |-> FALSE],
                  merged |-> << >>,
                  same |-> << >>, added |-> << >>, removed |-> << >>]
        swept == FoldLeft(sweep, start,
                          SortSeq(points(r, TRUE) \o points(next, FALSE), sortsBefore))
    IN IF r = next
       THEN [added |-> << >>, removed |-> << >>, same |-> next]
       ELSE [added |-> swept.added, removed |-> swept.removed, same |-> swept.same]

\* SliceInto: the rooms of a list inside the range sr, cut at the end of the list;
\* none when the whole range lies past it.
SliceInto(sr, list) ==
    LET n == Len(list)
        capped(i) == IF i >= n THEN n - 1 ELSE i
    IN IF sr[1] >= n /\ sr[2] >= n THEN << >>
       ELSE SubSeq(list, capped(sr[1]) + 1, capped(sr[2]) + 1)
=============================================================================
