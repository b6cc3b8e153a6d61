------------------------------ MODULE MCDrafts ------------------------------
(***************************************************************************)
(* Two rooms, a day of three slots, 1 .. 7 UTC, and what an LLM may make   *)
(* of a phrase: with and without a room, a day, an end, a company; a time  *)
(* that breaks the rules; something that is no booking.                    *)
(***************************************************************************)
EXTENDS Drafts

CONSTANTS r1, r2

MCRooms == {r1, r2}

Seating(capacity, name) == [open |-> TRUE, capacity |-> capacity, name |-> name]

MCFirstRows == (r1 :> Seating(2, 1)) @@ (r2 :> Seating(4, 2))

\* both are closed and opened, and the small one may become the big one
MCUpdates ==
  (r1 :> {Seating(2, 1), [Seating(2, 1) EXCEPT !.open = FALSE], Seating(6, 1)}) @@
  (r2 :> {Seating(4, 2), [Seating(4, 2) EXCEPT !.open = FALSE]})

Meeting(room, start, end) == [room |-> room, start |-> start, end |-> end]

MCMeetings == {Meeting(r1, 3, 5), Meeting(r2, 3, 7)}

Said(room, start) ==
  [booking |-> TRUE, room |-> room, date |-> None, start |-> start, end |-> None,
   duration |-> None, attendees |-> None]

MCPhrases ==
  {Said(r1, 4), Said(r2, 6), Said(r1, None), Said(None, None), Said(r1, 9), Said(None, 4),
   [Said(r1, 4) EXCEPT !.end = 8, !.date = 0], [Said(r2, 4) EXCEPT !.duration = 3],
   [Said(None, 4) EXCEPT !.attendees = 2], [Said(None, 6) EXCEPT !.attendees = 3],
   [Said(None, 4) EXCEPT !.attendees = 9], [Said(None, 9) EXCEPT !.attendees = 2],
   [Said(None, None) EXCEPT !.booking = FALSE]}
=============================================================================
