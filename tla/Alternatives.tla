---------------------------- MODULE Alternatives ----------------------------
(***************************************************************************)
(* The way out a 409 offers: free_slots_same_day, free_rooms and           *)
(* alternatives_for of app/services/bookings.py, and the client that takes *)
(* one of the slots offered.                                               *)
(*                                                                         *)
(* One refused request is followed through the office.  Its slots and its  *)
(* rooms are read by two statements; between them and after them others    *)
(* book and cancel, rooms are changed, and time passes.                    *)
(***************************************************************************)
EXTENDS Office

CONSTANTS
  Asks,             \* what the request followed may ask for
  MaxAlternatives,  \* MAX_ALTERNATIVES
  NoAsk

\* free_slots_same_day steps through the day from its start or from the running slot, so what
\* it offers is on the grid of validate_times only with settings like these
ASSUME GridAssumption == Hour % Slot = 0 /\ WorkStart % Slot = 0

ASSUME AlternativesAssumption ==
  /\ MaxAlternatives \in Nat \ {0}
  /\ Asks \subseteq [room : Rooms, start : Int, end : Int]
  /\ NoAsk \notin Asks

VARIABLES
  pc,      \* the next step of the request
  ask,     \* what it asked for
  now,     \* the "now" it took when it began
  known,   \* the rooms its session has loaded, as they were when it loaded them
  slots,   \* alternative_slots of its answer: the starts, each of the length asked for; the
           \* answer lists them in the order of time
  rooms,   \* alternative_rooms of its answer
  verdict  \* what the client got for the slot it took: 0 while it has not taken one

request == <<pc, ask, now, known, slots, rooms, verdict>>
vars == <<office, request>>

TypeOK ==
  /\ OfficeTypeOK
  /\ pc \in {"idle", "check", "slots", "rooms", "answered"}
  /\ ask \in Asks \cup {NoAsk}
  /\ now \in MinClock .. MaxClock
  /\ DOMAIN known \subseteq Rooms /\ known \in [DOMAIN known -> Row]
  /\ slots \subseteq Int
  /\ rooms \in Seq(Rooms)
  /\ verdict \in {0, 201, 404, 409, 422}

Init ==
  /\ OfficeInit
  /\ pc = "idle"
  /\ ask = NoAsk
  /\ now = MinClock
  /\ known = <<>>
  /\ slots = {}
  /\ rooms = <<>>
  /\ verdict = 0
-----------------------------------------------------------------------------
(***************************************************************************)
(* The algorithms.                                                         *)
(***************************************************************************)

Span(t, duration) == [start |-> t, end |-> t + duration]

\* the first start free_slots_same_day considers: max(day_start, floor_to_slot(now))
FirstStart(start) == IF FloorToSlot(now) > Opens(start) THEN FloorToSlot(now) ELSE Opens(start)

\* mutant of Candidates: the day taken from its start, whatever the time
CandidatesAllDay(room, start, end) ==
  {t \in Opens(start) .. Closes(start) - (end - start) :
     (t - Opens(start)) % Slot = 0 /\ ~Busy(room, Span(t, end - start))}

Candidates(room, start, end) ==
  {t \in FirstStart(start) .. Closes(start) - (end - start) :
     (t - FirstStart(start)) % Slot = 0 /\ ~Busy(room, Span(t, end - start))}

\* mutant of Pick: neighbours may overlap
PickOverlapping(picked, c, duration) ==
  IF Cardinality(picked) < MaxAlternatives
  THEN picked \cup {c} ELSE picked

\* one turn of the greedy loop
Pick(picked, c, duration) ==
  IF /\ Cardinality(picked) < MaxAlternatives
     /\ \A p \in picked : ~Meets(Span(c, duration), Span(p, duration))
  THEN picked \cup {c} ELSE picked

\* the turn of a start that may be no candidate
Turn(candidates, picked, c, duration) ==
  IF c \in candidates THEN Pick(picked, c, duration) ELSE picked

\* what the loop over sorted(candidates, key=abs(c - start)) has picked when it has come to a
\* distance from start: a stable sort of ascending times has the earlier of two first
Picked(candidates, start, duration) ==
  LET picked[d \in 0 .. Day] ==
        LET before == IF d = 0 THEN {} ELSE picked[d - 1]
        IN  Turn(candidates, Turn(candidates, before, start - d, duration), start + d, duration)
  IN  picked

FreeSlots(room, start, end) == Picked(Candidates(room, start, end), start, end - start)[Day]

\* what may be offered: the other rooms that are free for all of the interval, the most like the
\* one asked for first
RoomOffers(a) ==
  {FirstOf(s, MaxAlternatives) : s \in FreeRooms(a, 1, {a.room}, known[a.room].capacity, known)}
-----------------------------------------------------------------------------
(***************************************************************************)
(* The request.                                                            *)
(***************************************************************************)

\* get_room and validate_times, at the "now" of the request.  The form of the web has listed the
\* rooms before, the API loads the one asked for alone.
Arrive ==
  /\ pc = "idle"
  /\ \E a \in Asks :
       /\ a.room \in OpenRooms /\ ValidTimes(a.start, a.end, clock)
       /\ ask' = a
       /\ known' \in {Listing(<<>>), [r \in {a.room} |-> row[r]]}
  /\ now' = clock
  /\ pc' = "check"
  /\ verdict' = 0
  /\ UNCHANGED <<office, slots, rooms>>

\* find_conflicts: the room is taken and the request is refused, or the booking is made
FindTaken ==
  /\ pc = "check"
  /\ Busy(ask.room, ask)
  /\ pc' = "slots"
  /\ UNCHANGED <<office, ask, now, known, slots, rooms, verdict>>

FindFree ==
  /\ pc = "check"
  /\ ~Busy(ask.room, ask)
  /\ booked' = booked \cup {ask}
  /\ pc' = "idle"
  /\ ask' = NoAsk /\ known' = <<>>
  /\ UNCHANGED <<clock, row, now, slots, rooms, verdict>>

\* alternatives_for: two reads, one after the other
ReadSlots ==
  /\ pc = "slots"
  /\ slots' = FreeSlots(ask.room, ask.start, ask.end)
  /\ pc' = "rooms"
  /\ UNCHANGED <<office, ask, now, known, rooms, verdict>>

\* and with the answer the session ends
ReadRooms ==
  /\ pc = "rooms"
  /\ rooms' \in RoomOffers(ask)
  /\ pc' = "answered"
  /\ known' = <<>>
  /\ UNCHANGED <<office, ask, now, slots, verdict>>

\* the client asks for one of the slots it was offered
TakeSlot ==
  /\ pc = "answered"
  /\ \E t \in slots :
       LET m == [room |-> ask.room, start |-> t, end |-> t + (ask.end - ask.start)]
       IN  /\ verdict' = Verdict(m)
           /\ Enter(m)
  /\ pc' = "idle"
  /\ ask' = NoAsk
  /\ slots' = {} /\ rooms' = <<>>
  /\ UNCHANGED <<clock, row, now, known>>

\* or gives up
Leave ==
  /\ pc = "answered"
  /\ pc' = "idle"
  /\ ask' = NoAsk
  /\ slots' = {} /\ rooms' = <<>>
  /\ UNCHANGED <<office, now, known, verdict>>

Next ==
  \/ Arrive \/ FindTaken \/ FindFree \/ ReadSlots \/ ReadRooms \/ TakeSlot \/ Leave
  \/ OthersWork /\ UNCHANGED request

Spec == Init /\ [][Next]_vars
-----------------------------------------------------------------------------
(***************************************************************************)
(* Properties.  They speak of minutes and sets, the code of a stepping     *)
(* loop, a stable sort and a greedy choice.                                *)
(***************************************************************************)

Minutes(t, duration) == t .. t + duration - 1

\* nobody holds a minute of the slot at t in the room a asks for
FreeAt(t, a) ==
  \A b \in booked :
    b.room = a.room => Minutes(b.start, b.end - b.start) \cap Minutes(t, a.end - a.start) = {}

\* the starts of the day that validate_times accepts, the horizon aside
Bookable(a) ==
  {t \in Opens(a.start) .. Closes(a.start) :
     /\ Aligned(t)
     /\ WithinHours(t, t + (a.end - a.start))
     /\ NotPast(t, now)}

\* Every slot offered keeps the rules of validate_times, the horizon aside, at the time of the
\* request: the loop of free_slots_same_day never leaves the grid, the day or the present.
OffersKeepRules == ask # NoAsk => slots \subseteq Bookable(ask)

\* The slots of a 409 are real choices when they are read: each is free for all of its length,
\* and no two of them share a minute (the comment before the greedy loop).
OffersAreChoices ==
  [][pc = "slots" /\ pc' = "rooms" =>
       /\ \A t \in slots' : FreeAt(t, ask)
       /\ \A s, t \in slots' : s < t => s + (ask.end - ask.start) <= t]_vars

\* o is offered rather than t: it is nearer to the start asked for, or as near and earlier
Before(o, t, a) ==
  Abs(o - a.start) < Abs(t - a.start) \/ (Abs(o - a.start) = Abs(t - a.start) /\ o <= t)

\* The nearest slots are offered, as the docstring of free_slots_same_day says: a bookable free
\* slot is left out only for an offered one that is nearer and shares a minute with it, or
\* because all the places are taken by nearer ones.
NearestAreOffered ==
  [][pc = "slots" /\ pc' = "rooms" =>
       LET offered == slots'
           duration == ask.end - ask.start
       IN  \A t \in Bookable(ask) \ offered :
             FreeAt(t, ask) =>
               \/ \E o \in offered :
                    Before(o, t, ask) /\ Minutes(o, duration) \cap Minutes(t, duration) # {}
               \/ /\ Cardinality(offered) = MaxAlternatives
                  /\ \A o \in offered : Before(o, t, ask)]_vars

\* The rooms offered are open and free when they are read, and the best of those: none that
\* seats as many as the room asked for stands behind one that does not, or is left out for one,
\* and among equals in that the nearest capacity comes first (the docstring of free_rooms).  The
\* capacities are those the session has: a room that was loaded before is sorted as it was.
BestRoomsAreOffered ==
  [][pc = "rooms" /\ pc' = "answered" =>
       LET free == {r \in OpenRooms \ {ask.room} : FreeAt(ask.start, [ask EXCEPT !.room = r])}
           size(r) == Seen(known, r).capacity
           seats(r) == size(r) >= size(ask.room)
           off(r) == Abs(size(r) - size(ask.room))
           nobetter(s, r) == /\ seats(r) => seats(s)
                             /\ (seats(r) <=> seats(s)) => off(s) <= off(r)
       IN  /\ ToSet(rooms') \subseteq free
           /\ \A i, j \in DOMAIN rooms' : i < j => rooms'[i] # rooms'[j] /\ nobetter(rooms'[i], rooms'[j])
           /\ \A r \in free \ ToSet(rooms') :
                Len(rooms') = MaxAlternatives /\ \A s \in ToSet(rooms') : nobetter(s, r)]_vars
-----------------------------------------------------------------------------
\* README: the 409 brings slots the client can take.  A client that takes one before the clock
\* moves is then never told that it breaks a rule.
OfferIsBookable == verdict = 422 => clock > now
=============================================================================
