------------------------------- MODULE Office -------------------------------
(***************************************************************************)
(* The rooms, the bookings and the clock as one request sees them while    *)
(* others work: the queries of app/services/bookings.py that search them,  *)
(* and the steps by which other people change them.  A booking is made     *)
(* and a cancellation done in one step: Bookings shows that this is what   *)
(* they amount to.                                                         *)
(***************************************************************************)
EXTENDS TimeRules, Sequences, SequencesExt, FiniteSets

CONSTANTS
  Rooms,
  FirstRows,  \* the rooms as they stand at first
  Updates,    \* what PATCH may make of each of them
  Meetings,   \* what other people may book: records with a room, a start and an end
  MinClock,   \* bounds of the clock
  MaxClock

\* a row of the table rooms; a name is its place in the alphabet
Row == [open : BOOLEAN, capacity : Nat \ {0}, name : Nat]

ASSUME RoomsAssumption ==
  /\ IsFiniteSet(Rooms)
  /\ FirstRows \in [Rooms -> Row]
  /\ \A r, s \in Rooms : FirstRows[r].name = FirstRows[s].name => r = s
  /\ Updates \in [Rooms -> SUBSET Row]

ASSUME OthersAssumption ==
  /\ Meetings \subseteq [room : Rooms, start : Int, end : Int]
  /\ MinClock \in Int /\ MaxClock \in Int /\ MinClock <= MaxClock

VARIABLES
  clock,   \* now_utc()
  row,     \* the table rooms
  booked   \* the active bookings

office == <<clock, row, booked>>

OfficeTypeOK ==
  /\ clock \in MinClock .. MaxClock
  /\ row \in [Rooms -> Row]
  /\ booked \subseteq [room : Rooms, start : Int, end : Int]

OfficeInit ==
  /\ clock = MinClock
  /\ row = FirstRows
  /\ booked = {}
-----------------------------------------------------------------------------
(***************************************************************************)
(* The queries.                                                            *)
(***************************************************************************)

Meets(a, b) == a.start < b.end /\ b.start < a.end

\* mutant of Busy: bookings that merely touch the interval count
BusyTouching(room, i) ==
  \E b \in booked : b.room = room /\ b.start <= i.end /\ i.start <= b.end

\* find_conflicts finds something
Busy(room, i) == \E b \in booked : b.room = room /\ Meets(b, i)

Abs(n) == IF n < 0 THEN -n ELSE n

\* mutant of BetterRoom: the nearest capacity, be it too small
BetterRoomAnySize(target, a, b) ==
  LET off(x) == Abs(x.capacity - target)
  IN  off(a) < off(b) \/ (off(a) = off(b) /\ a.name < b.name)

\* the sort key of free_rooms: big enough first, then the nearest capacity, then the name
BetterRoom(target, a, b) ==
  LET small(x) == x.capacity < target
      off(x) == Abs(x.capacity - target)
  IN  \/ ~small(a) /\ small(b)
      \/ /\ small(a) <=> small(b)
         /\ \/ off(a) < off(b)
            \/ (off(a) = off(b) /\ a.name < b.name)

OpenRooms == {r \in Rooms : row[r].open}

\* the rooms open and free for all of i that seat least people, without those in but
RoomsFree(i, least, but) ==
  {r \in OpenRooms \ but : row[r].capacity >= least /\ ~Busy(r, i)}

\* A session keeps each Room it has loaded and does not load it again: what a request that has
\* the rooms of known sees of r, whatever the table says by now
Seen(known, r) == IF r \in DOMAIN known THEN known[r] ELSE row[r]

\* what it has when it has listed the open rooms too
Listing(known) == [r \in DOMAIN known \cup OpenRooms |-> Seen(known, r)]

\* the orders in which the sort of free_rooms may leave the rooms of S: two rows that were
\* loaded at different times may share a key, and the query sets no order
Sortings(S, target, known) ==
  LET places == 1 .. Cardinality(S)
  IN  {s \in Injection(places, S) : \A i, j \in places :
         i < j => ~BetterRoom(target, Seen(known, s[j]), Seen(known, s[i]))}

\* free_rooms: the rooms found by the table, sorted by what the session has
FreeRooms(i, least, but, target, known) == Sortings(RoomsFree(i, least, but), target, known)

\* r may be free[0] when the rooms of S were sorted
IsBest(r, S, target, known) ==
  r \in S /\ \A s \in S \ {r} : ~BetterRoom(target, Seen(known, s), Seen(known, r))

\* s[:n]
FirstOf(s, n) == SubSeq(s, 1, IF Len(s) < n THEN Len(s) ELSE n)

\* what create_booking answers for m
Verdict(m) ==
  IF ~row[m.room].open THEN 404
  ELSE IF ~ValidTimes(m.start, m.end, clock) THEN 422
  ELSE IF Busy(m.room, m) THEN 409
  ELSE 201

\* create_booking as its client sees it
Enter(m) == booked' = IF Verdict(m) = 201 THEN booked \cup {m} ELSE booked
-----------------------------------------------------------------------------
(***************************************************************************)
(* Other people.                                                           *)
(***************************************************************************)

Book(m) ==
  /\ Verdict(m) = 201
  /\ Enter(m)
  /\ UNCHANGED <<clock, row>>

Cancel(m) ==
  /\ m.end > clock
  /\ booked' = booked \ {m}
  /\ UNCHANGED <<clock, row>>

\* update_room: whether it is active, its capacity and its name, which no other room may have
UpdateRoom(r) ==
  /\ \E new \in Updates[r] :
       /\ \A s \in Rooms \ {r} : row[s].name # new.name
       /\ row' = [row EXCEPT ![r] = new]
  /\ UNCHANGED <<clock, booked>>

Tick ==
  /\ clock < MaxClock
  /\ clock' = clock + 1
  /\ UNCHANGED <<row, booked>>

OthersWork ==
  \/ \E m \in Meetings : Book(m)
  \/ \E m \in booked : Cancel(m)
  \/ \E r \in Rooms : UpdateRoom(r)
  \/ Tick
=============================================================================
