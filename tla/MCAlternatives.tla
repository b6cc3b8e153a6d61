--------------------------- MODULE MCAlternatives ---------------------------
(***************************************************************************)
(* A working day of seven slots, -1 .. 13 UTC; an hour has four ticks, a   *)
(* slot two, a cell of the schedule four: the last cell has only half of   *)
(* its time left.  The clock stands in the middle of the third slot and    *)
(* then at the start of the fourth, which is the middle of a cell.  Day 0  *)
(* is a Sunday.                                                            *)
(***************************************************************************)
EXTENDS Alternatives, Timeline

CONSTANTS r1, r2, r3, r4

MCRooms == {r1, r2, r3, r4}

Seating(capacity, name) == [open |-> TRUE, capacity |-> capacity, name |-> name]

\* r1 is the room asked for; r2 and r3 are as far from its capacity, r2 being too small
MCFirstRows ==
  (r1 :> Seating(4, 1)) @@ (r2 :> Seating(3, 2)) @@ (r3 :> Seating(5, 3)) @@ (r4 :> Seating(8, 5))

\* r1 and r2 are closed and opened; r4 becomes as big as r1, with a name that puts it first; then
\* r2 may become what r4 was, and a session that knows r4 of old cannot tell which comes first
MCUpdates ==
  (r1 :> {Seating(4, 1), [Seating(4, 1) EXCEPT !.open = FALSE]}) @@
  (r2 :> {Seating(3, 2), [Seating(3, 2) EXCEPT !.open = FALSE], Seating(8, 5)}) @@
  (r3 :> {}) @@
  (r4 :> {Seating(8, 5), Seating(4, 0)})

Meeting(room, start, end) == [room |-> room, start |-> start, end |-> end]

\* one or two slots in the middle of the day
MCAsks == {Meeting(r1, 5, 7), Meeting(r1, 7, 11)}

MCMeetings ==
  {Meeting(r1, 3, 5), Meeting(r1, 5, 9), Meeting(r1, 9, 11), Meeting(r1, 11, 13),
   Meeting(r3, 3, 7)}
=============================================================================
