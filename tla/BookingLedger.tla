--------------------------- MODULE BookingLedger ---------------------------
(***************************************************************************)
(* What the booking service promises, with no request, transaction or      *)
(* clock in sight: a ledger of bookings in which a booking is entered      *)
(* whole when its room is free for all of it, may be cancelled once, and   *)
(* is never removed.  Bookings.tla implements this specification.          *)
(***************************************************************************)
EXTENDS Integers

CONSTANTS
  Ids,      \* booking ids
  Entries,  \* what may be booked: records with a room, a start and an end
  Absent    \* the value of an id that holds no booking

VARIABLE ledger

LedgerTypeOK ==
  ledger \in [Ids -> [entry : Entries, status : {"active", "cancelled"}] \cup {Absent}]

\* the constraint bookings_no_overlap: the same room, and half-open intervals that meet
Clash(d, e) == d.room = e.room /\ d.start < e.end /\ e.start < d.end

Holds(id) == ledger[id] # Absent /\ ledger[id].status = "active"

Free(e) == \A id \in Ids : Holds(id) => ~Clash(ledger[id].entry, e)

Book(id) ==
  /\ ledger[id] = Absent
  /\ \E e \in Entries :
       /\ e.start < e.end
       /\ Free(e)
       /\ ledger' = [ledger EXCEPT ![id] = [entry |-> e, status |-> "active"]]

Cancel(id) ==
  /\ Holds(id)
  /\ ledger' = [ledger EXCEPT ![id].status = "cancelled"]

Init == ledger = [id \in Ids |-> Absent]
Next == \E id \in Ids : Book(id) \/ Cancel(id)
Spec == Init /\ [][Next]_ledger
-----------------------------------------------------------------------------
\* Two active bookings of one room never claim the same minute: the main invariant the
\* comment of app/models.py states and the EXCLUDE constraint of migration 0001 enforces.
NoDoubleBooking ==
  \A i, j \in Ids : Holds(i) /\ Holds(j) /\ i # j => ~Clash(ledger[i].entry, ledger[j].entry)
=============================================================================
