------------------------------ MODULE Timeline ------------------------------
(***************************************************************************)
(* What the schedule shows and where its links lead: build_row of          *)
(* app/web/timeline.py, the day and week views and the form of a new       *)
(* booking in app/web/routes.py, GET /schedule of app/api/rooms.py.        *)
(*                                                                         *)
(* All of it is computed from the office as one request finds it, so there *)
(* are no actions here: the properties hold in every state of the office,  *)
(* and the run of Alternatives takes the office through its states.        *)
(***************************************************************************)
EXTENDS Office

CONSTANTS
  Cell,     \* CELL_MINUTES
  Weekday0  \* the weekday of local day 0, Monday being 0

\* a link leads to a slot, and a form that is filled in asks for an hour, only with settings
\* like these; an hour after the last cell is still the same day
ASSUME TimelineAssumption ==
  /\ Cell \in Nat \ {0} /\ Cell % Slot = 0
  /\ Hour % Slot = 0 /\ WorkStart % Slot = 0 /\ WorkEnd % Slot = 0
  /\ WorkEnd + Hour <= Day
  /\ MinLength <= Slot /\ Hour <= MaxLength
  /\ Weekday0 \in 0 .. 6
-----------------------------------------------------------------------------
(***************************************************************************)
(* The views.                                                              *)
(***************************************************************************)

\* work_bounds of a local day
OpensOn(day) == day * Day + WorkStart - TzOffset
ClosesOn(day) == day * Day + WorkEnd - TzOffset

\* list_rooms: the open rooms, the biggest first
ListedRooms ==
  SetToSortSeq(OpenRooms,
               LAMBDA r, s : \/ row[r].capacity > row[s].capacity
                             \/ row[r].capacity = row[s].capacity /\ row[r].name < row[s].name)

\* bookings_between
Between(start, end) == {b \in booked : Meets(b, [start |-> start, end |-> end])}

\* the row of a room in the day view, and what the API answers for the room
DayRow(room, day) == {b \in Between(OpensOn(day), ClosesOn(day)) : b.room = room}

\* mutant of WeekStart: isoweekday instead of weekday
WeekStartIso(day) == day - (1 + ((day + Weekday0) % 7))

WeekStart(day) == day - ((day + Weekday0) % 7)

\* the room of the week view: the one asked for if it is listed, or else the first
WeekRoom(room) == IF room \in OpenRooms THEN room ELSE ListedRooms[1]

\* the row of a day in the week view of the week that has the selected day
WeekRow(room, selected, day) ==
  LET monday == WeekStart(selected) IN
  {b \in Between(OpensOn(monday), ClosesOn(monday + 6)) : b.room = room /\ DayOf(b.start) = day}

\* the cells of a row, by their starts
Cells(day) == {t \in OpensOn(day) .. ClosesOn(day) - 1 : (t - OpensOn(day)) % Cell = 0}

\* mutant of IsLink: a cell that has begun is no link
IsLinkAhead(t) == t > clock

IsLink(t) == t + Cell > clock
-----------------------------------------------------------------------------
(***************************************************************************)
(* The form of a new booking.                                              *)
(***************************************************************************)

\* time_options: what can be chosen as a start, or as an end
TimeOptions(includeEnd) ==
  {m \in WorkStart .. WorkEnd :
     /\ (m - WorkStart) % Slot = 0
     /\ IF includeEnd THEN m > WorkStart ELSE m < WorkEnd}

\* mutant of FilledEnd: always an hour
FilledEndHour(m) == (m + Hour) % Day

\* new_booking: the end filled in for a start, an hour later or the end of the working day; the
\* hour is added to a time of day, which starts again at midnight
FilledEnd(m) == IF (m + Hour) % Day < WorkEnd THEN (m + Hour) % Day ELSE WorkEnd

\* local_dt of a day and a time of day
At(day, m) == day * Day + m - TzOffset

TimeOfDay(t) == Local(t) % Day

\* what is posted when the form a link leads to is sent as it is
FromLink(room, t) ==
  [room |-> room, start |-> t, end |-> At(DayOf(t), FilledEnd(TimeOfDay(t)))]
-----------------------------------------------------------------------------
(***************************************************************************)
(* Properties.                                                             *)
(***************************************************************************)

\* the local days on which a start may be accepted now
Days == DayOf(clock) .. DayOf(clock + Horizon)

\* A booking of an open room is never missing from the schedule and never on a wrong day: the
\* day view shows it on its day and not on the days around it, and the week view of its day in
\* the row of its day alone.
BookingsAreShown ==
  \A b \in {c \in booked : c.room \in OpenRooms} :
    LET today == DayOf(b.start)
        week == WeekStart(today) .. WeekStart(today) + 6
    IN  /\ {d \in today - 1 .. today + 1 : b \in DayRow(b.room, d)} = {today}
        /\ {d \in week : b \in WeekRow(WeekRoom(b.room), today, d)} = {today}

\* The comment of Cell.href says None is past time that cannot be booked: so every start that
\* validate_times accepts now, the running slot included, lies in a cell that is a link.
NoBookableStartWithoutLink ==
  \A d \in Days : \A start \in OpensOn(d) .. ClosesOn(d) :
    (\E end \in start .. ClosesOn(d) : ValidTimes(start, end, clock))
    => \E t \in Cells(d) : t <= start /\ start < t + Cell /\ IsLink(t)

\* the form that the link of the cell at t opens has both its times to choose from and, sent as
\* it is, is accepted unless the time is taken, the horizon is passed, or the slot the cell
\* begins with is over while the cell is not
KeepsWord(r, d, t) ==
  LET m == FromLink(r, t) IN
  /\ TimeOfDay(m.start) \in TimeOptions(FALSE) /\ TimeOfDay(m.end) \in TimeOptions(TRUE)
  /\ \/ Verdict(m) = 201
     \/ Verdict(m) = 409 /\ \E b \in DayRow(r, d) : Meets(b, m)
     \/ Verdict(m) = 422 /\ (t > clock + Horizon \/ (t < FloorToSlot(clock) /\ clock < t + Cell))

\* A free place that is a link is a booking (README), as far as that is so: every link of an open
\* room leads to a form that keeps its word, save for the exceptions KeepsWord names.
LinkIsBooking ==
  \A r \in OpenRooms : \A d \in Days : \A t \in {c \in Cells(d) : IsLink(c)} :
    KeepsWord(r, d, t)
=============================================================================
