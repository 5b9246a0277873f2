------------------------------ MODULE ListOps ------------------------------
(***************************************************************************)
(* The list-moving algorithm of sync3/ops.go and sync3/request.go: what a  *)
(* change of one room in a sorted list means for the windows of it that a  *)
(* client follows.  A list is a sequence of rooms; position i is element   *)
(* i + 1.                                                                  *)
(***************************************************************************)
EXTENDS SliceRanges

at(list, i) == list[i + 1]
has(list, room) == \E i \in DOMAIN list : list[i] = room
indexOf(list, room) == (CHOOSE i \in DOMAIN list : list[i] = room) - 1

\* The rooms of a list inside the ranges.
visible(list, ranges) ==
    {at(list, i) : i \in {j \in 0..(Len(list) - 1) : Inside(ranges, j)}}

-----------------------------------------------------------------------------
jumpedOverRanges(ranges, from, to) ==
    LET lo == IF from < to THEN from ELSE to
        hi == IF from < to THEN to ELSE from
    IN SelectSeq(ranges, LAMBDA r : /\ r[1] > lo /\ r[1] < hi
                                    /\ r[2] > lo /\ r[2] < hi)

\* CalculateMoveIndexes: the moves inside the ranges that a move of a room in
\* the whole list amounts to.
CalculateMoveIndexes(ranges, from, to) ==
    LET fromIn == Inside(ranges, from)
        toIn == Inside(ranges, to)
        jumped == [k \in DOMAIN jumpedOverRanges(ranges, from, to) |->
                     LET r == jumpedOverRanges(ranges, from, to)[k]
                     IN IF from > to THEN <<r[2], r[1]>> ELSE <<r[1], r[2]>>]
    IN IF fromIn /\ toIn /\ rangeOf(ranges, from) = rangeOf(ranges, to)
       THEN << <<from, to>> >>
       ELSE (IF fromIn
             THEN << <<from, ClosestInDirection(ranges, from, to < from)>> >>
             ELSE << >>)
              \o (IF toIn
                  THEN << <<ClosestInDirection(ranges, to, from < to), to>> >>
                  ELSE << >>)
              \o jumped

WriteDeleteOp(i) == [op |-> "DELETE", index |-> i]
NullOp == [op |-> "null"]  \* the nil WriteDeleteOp returns for an index not tracked
WriteInsertOp(i, room) == [op |-> "INSERT", index |-> i, room |-> room]
WriteSwapOp(room, from, to) == <<WriteDeleteOp(from), WriteInsertOp(to, room)>>

\* Mutant of needsRoomData: only the room that was updated is ever sent.
needsRoomDataIfUpdated(updated, wasInsideRange) == updated /\ ~wasInsideRange

\* Whether the room that an INSERT names must be sent in full.
needsRoomData(updated, wasInsideRange) == ~updated \/ ~wasInsideRange

\* Mutant of deletesLast: also when the client does not hold the shifted room.
deletesLastAlways(ranges, after, move, room, listOp) ==
    listOp = "Del" /\ move[2] = Len(after) - 1

\* Whether a deletion ends in this move, whose INSERT must then be left out: the
\* client already holds the room that shifts into the last position.
deletesLast(ranges, after, move, room, listOp) ==
    /\ listOp = "Del" /\ move[2] = Len(after) - 1
    /\ at(after, move[2]) = room \/ Inside(ranges, Len(after))

\* CalculateListOps.  before and after are the list before and after it was
\* changed by adding, deleting or re-sorting room.
CalculateListOps(ranges, before, after, room, listOp) ==
    LET from == IF has(before, room) THEN indexOf(before, room) ELSE Len(before)
        to == IF listOp = "Del" THEN Len(after) - 1 ELSE indexOf(after, room)
        wasInsideRange == listOp # "Add" /\ Inside(ranges, from)
        moves == CalculateMoveIndexes(ranges, from, to)
        isNoop(m) == /\ at(after, m[2]) = room /\ m[1] = m[2]
                     /\ listOp = "Change" /\ wasInsideRange /\ Len(moves) = 1
        opsOf(m) == CASE isNoop(m) -> << >>
                      [] deletesLast(ranges, after, m, room, listOp) ->
                           <<WriteDeleteOp(m[1])>>
                      [] OTHER -> WriteSwapOp(at(after, m[2]), m[1], m[2])
        isSub(m) == Len(opsOf(m)) = 2 /\ needsRoomData(m[2] = to, wasInsideRange)
        result(ops, subs) == [ops |-> ops, subs |-> subs, panics |-> FALSE]
    IN CASE ~has(before, room) /\ listOp # "Add" -> result(<< >>, {})
         [] listOp = "Del" /\ after = << >> ->
              result(<<IF Inside(ranges, 0) THEN WriteDeleteOp(0) ELSE NullOp>>, {})
         [] \E m \in Range(moves) : m[2] >= Len(after) ->
              [result(<< >>, {}) EXCEPT !.panics = TRUE]  \* list.Get(listToIndex)
         [] OTHER ->
              result(FlattenSeq([k \in DOMAIN moves |-> opsOf(moves[k])]),
                     {at(after, m[2]) : m \in {n \in Range(moves) : isSub(n)}})
=============================================================================
