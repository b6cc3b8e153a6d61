------------------------------ MODULE Bookings ------------------------------
(***************************************************************************)
(* The booking commands of app/services/bookings.py, run by concurrent     *)
(* requests over PostgreSQL (READ COMMITTED): create_booking with its      *)
(* pre-check, its savepoint and the exclusion constraint of migration      *)
(* 0001, and cancel_booking with its row lock.                             *)
(*                                                                         *)
(* A request is a process; each await on the database is a step, and other *)
(* requests may run between any two of them.  The booking a request        *)
(* creates is named by the request.  What PostgreSQL does to keep the      *)
(* constraint and the row locks is modelled from how the code uses them:   *)
(* an INSERT first writes its row and its index entry and then looks for   *)
(* rows that conflict, so that two inserts may find each other.            *)
(***************************************************************************)
EXTENDS TimeRules, FiniteSets

CONSTANTS
  Creates,    \* requests POST /bookings; also the ids of the bookings they make
  Cancels,    \* requests POST /bookings/{id}/cancel
  Users,
  Admins,
  Rooms,
  Inputs,     \* bodies of POST /bookings with the user who sends them
  Fragile,    \* the requests that may lose the process or the connection
  MinClock,   \* bounds of the clock
  MaxClock,
  Nobody      \* no request, no body

Requests == Creates \cup Cancels

ASSUME RequestsAssumption ==
  /\ Creates \cap Cancels = {}
  /\ Nobody \notin Requests \cup Inputs \cup [user : Users, id : Creates]
  /\ Nobody \notin [entry : Inputs, status : {"active", "cancelled"}]
  /\ Fragile \subseteq Requests
  /\ Admins \subseteq Users

ASSUME InputsAssumption ==
  Inputs \subseteq [user : Users, room : Rooms, start : Int, end : Int, titled : BOOLEAN]

ASSUME ClockAssumption == MinClock \in Int /\ MaxClock \in Int

VARIABLES
  clock,        \* now_utc()
  open,         \* rooms.is_active
  pc,           \* the next step of each request
  body,         \* body[c]: what c asks for, and the columns of its row
  wish,         \* wish[x]: who wants to cancel which booking
  now,          \* the "now" a request took when it began
  status,       \* the row of each booking, "pending" while its insert is not committed
  cancelledAt,  \* bookings.cancelled_at
  lockedBy,     \* the request holding the row lock of a booking
  waitFor,      \* the request whose transaction an insert waits for
  answer,       \* the HTTP status a request answered, 0 before it answers
  named         \* the bookings listed in the details of a 409 booking_conflict

db == <<open, status, cancelledAt, lockedBy>>
vars == <<clock, open, pc, body, wish, now, status, cancelledAt, lockedBy, waitFor,
          answer, named>>

Wishes == [user : Users, id : Creates]

TypeOK ==
  /\ clock \in Int
  /\ open \in [Rooms -> BOOLEAN]
  /\ pc \in [Requests -> {"idle", "room", "check", "insert", "exclude", "commit", "refresh",
                          "conflicts", "lock", "flush", "done"}]
  /\ body \in [Creates -> Inputs \cup {Nobody}]
  /\ wish \in [Cancels -> Wishes \cup {Nobody}]
  /\ now \in [Requests -> Int]
  /\ status \in [Creates -> {"absent", "pending", "active", "cancelled"}]
  /\ cancelledAt \in [Creates -> Int]
  /\ lockedBy \in [Creates -> Cancels \cup {Nobody}]
  /\ waitFor \in [Requests -> Requests \cup {Nobody}]
  /\ answer \in [Requests -> {0, 200, 201, 403, 404, 409, 422, 500}]
  /\ named \in [Creates -> SUBSET Creates]

Init ==
  /\ clock = MinClock
  /\ open \in [Rooms -> BOOLEAN]
  /\ pc = [r \in Requests |-> "idle"]
  /\ body = [c \in Creates |-> Nobody]
  /\ wish = [x \in Cancels |-> Nobody]
  /\ now = [r \in Requests |-> MinClock]
  /\ status = [c \in Creates |-> "absent"]
  /\ cancelledAt = [c \in Creates |-> MinClock]
  /\ lockedBy = [c \in Creates |-> Nobody]
  /\ waitFor = [r \in Requests |-> Nobody]
  /\ answer = [r \in Requests |-> 0]
  /\ named = [c \in Creates |-> {}]
-----------------------------------------------------------------------------
(***************************************************************************)
(* Rows, conflicts and transactions.                                       *)
(***************************************************************************)

Committed(c) == status[c] \in {"active", "cancelled"}

\* mutant of Overlaps: closed intervals
OverlapsClosed(a, b) == a.room = b.room /\ a.start <= b.end /\ b.start <= a.end

\* _overlaps and the operators of the exclusion constraint: the same room, half-open intervals
Overlaps(a, b) == a.room = b.room /\ a.start < b.end /\ b.start < a.end

\* the rows of s that overlap what c asks for
Rivals(c, s) == {d \in Creates \ {c} : status[d] \in s /\ Overlaps(body[d], body[c])}

\* find_conflicts: a snapshot of the committed active rows
Conflicts(c) == Rivals(c, {"active"})

\* a cancelling UPDATE has been sent and not committed
BeingCancelled(d) == lockedBy[d] # Nobody /\ pc[lockedBy[d]] = "commit"

\* the transaction an insert waits for has ended, or the part of it that wrote the row was undone
Over(r) == IF r \in Creates THEN status[r] # "pending" ELSE pc[r] # "commit"

\* mutant of RowFree: a SELECT without FOR UPDATE
RowFreeUnlocked(b) == TRUE

RowFree(b) == lockedBy[b] = Nobody

Goto(r, step) == pc' = [pc EXCEPT ![r] = step]

Reply(r, code) ==
  /\ Goto(r, "done")
  /\ answer' = [answer EXCEPT ![r] = code]
-----------------------------------------------------------------------------
(***************************************************************************)
(* POST /bookings: create_booking.                                         *)
(***************************************************************************)

ReceiveCreate(c) ==
  /\ pc[c] = "idle"
  /\ \E i \in Inputs : body' = [body EXCEPT ![c] = i]
  /\ now' = [now EXCEPT ![c] = clock]
  /\ Goto(c, "room")
  /\ UNCHANGED <<clock, db, wish, waitFor, answer, named>>

Acceptable(c) == body[c].titled /\ ValidTimes(body[c].start, body[c].end, now[c])

\* mutant of GetRoom: is_active is not looked at
GetRoomAnyway(c) ==
  /\ pc[c] = "room"
  /\ \/ ~Acceptable(c) /\ Reply(c, 422)
     \/ Acceptable(c) /\ Goto(c, "check") /\ UNCHANGED answer
  /\ UNCHANGED <<clock, db, body, wish, now, waitFor, named>>

\* get_room, then validate_times and clean_title without another await
GetRoom(c) ==
  /\ pc[c] = "room"
  /\ \/ ~open[body[c].room] /\ Reply(c, 404)
     \/ open[body[c].room] /\ ~Acceptable(c) /\ Reply(c, 422)
     \/ open[body[c].room] /\ Acceptable(c) /\ Goto(c, "check") /\ UNCHANGED answer
  /\ UNCHANGED <<clock, db, body, wish, now, waitFor, named>>

CheckConflicts(c) ==
  /\ pc[c] = "check"
  /\ \/ Conflicts(c) # {} /\ Goto(c, "conflicts")
     \/ Conflicts(c) = {} /\ Goto(c, "insert")
  /\ UNCHANGED <<clock, db, body, wish, now, waitFor, answer, named>>

\* the flush inside begin_nested: the row and its index entry are written
Insert(c) ==
  /\ pc[c] = "insert"
  /\ status' = [status EXCEPT ![c] = "pending"]
  /\ Goto(c, "exclude")
  /\ UNCHANGED <<clock, open, cancelledAt, lockedBy, body, wish, now, waitFor, answer, named>>

Unblocked(c) == pc[c] = "exclude" /\ (waitFor[c] # Nobody => Over(waitFor[c]))

StopWaiting(c) == waitFor' = [waitFor EXCEPT ![c] = Nobody]

\* mutant of ExclusionViolation: the same row is inserted again
ExclusionViolationAgain(c) ==
  /\ Unblocked(c)
  /\ \E d \in Conflicts(c) : ~BeingCancelled(d)
  /\ status' = [status EXCEPT ![c] = "absent"]
  /\ StopWaiting(c)
  /\ Goto(c, "insert")
  /\ UNCHANGED <<clock, open, cancelledAt, lockedBy, body, wish, now, answer, named>>

\* the constraint finds a committed row: 23P01 undoes the savepoint, create_booking catches it
ExclusionViolation(c) ==
  /\ Unblocked(c)
  /\ \E d \in Conflicts(c) : ~BeingCancelled(d)
  /\ status' = [status EXCEPT ![c] = "absent"]
  /\ StopWaiting(c)
  /\ Goto(c, "conflicts")
  /\ UNCHANGED <<clock, open, cancelledAt, lockedBy, body, wish, now, answer, named>>

\* the constraint finds a row that another transaction is writing, and waits for its end
WaitForRival(c) ==
  /\ Unblocked(c)
  /\ \/ \E d \in Rivals(c, {"pending"}) : waitFor' = [waitFor EXCEPT ![c] = d]
     \/ \E d \in Conflicts(c) :
          BeingCancelled(d) /\ waitFor' = [waitFor EXCEPT ![c] = lockedBy[d]]
  /\ UNCHANGED <<clock, db, pc, body, wish, now, answer, named>>

\* mutants of ExclusionClear: a second SELECT instead of the constraint, blind to rows not yet
\* committed; and one that trusts a cancellation before it is committed
ExclusionClearSelect(c) ==
  /\ Unblocked(c)
  /\ Conflicts(c) = {}
  /\ StopWaiting(c)
  /\ Goto(c, "commit")
  /\ UNCHANGED <<clock, db, body, wish, now, answer, named>>

ExclusionClearEager(c) ==
  /\ Unblocked(c)
  /\ Rivals(c, {"pending"}) = {}
  /\ \A d \in Conflicts(c) : BeingCancelled(d)
  /\ StopWaiting(c)
  /\ Goto(c, "commit")
  /\ UNCHANGED <<clock, db, body, wish, now, answer, named>>

\* the constraint finds nothing: begin_nested ends and the row stays
ExclusionClear(c) ==
  /\ Unblocked(c)
  /\ Rivals(c, {"pending", "active"}) = {}
  /\ StopWaiting(c)
  /\ Goto(c, "commit")
  /\ UNCHANGED <<clock, db, body, wish, now, answer, named>>

\* c is on a cycle of transactions that wait for each other
InDeadlock(c) ==
  \E S \in SUBSET Creates :
    /\ c \in S
    /\ \A s \in S : waitFor[s] # Nobody /\ ~Over(waitFor[s])
    /\ {waitFor[s] : s \in S} = S

\* PostgreSQL ends a cycle by failing one of its members with 40P01: not an IntegrityError,
\* so create_booking does not catch it and the request ends with a 500
DeadlockAbort(c) ==
  /\ pc[c] = "exclude"
  /\ InDeadlock(c)
  /\ status' = [status EXCEPT ![c] = "absent"]
  /\ StopWaiting(c)
  /\ Reply(c, 500)
  /\ UNCHANGED <<clock, open, cancelledAt, lockedBy, body, wish, now, named>>

\* mutant of CommitCreate: the row is refreshed and returned without a commit
CommitCreateForgotten(c) ==
  /\ pc[c] = "commit"
  /\ Goto(c, "refresh")
  /\ UNCHANGED <<clock, db, body, wish, now, waitFor, answer, named>>

CommitCreate(c) ==
  /\ pc[c] = "commit"
  /\ status' = [status EXCEPT ![c] = "active"]
  /\ Goto(c, "refresh")
  /\ UNCHANGED <<clock, open, cancelledAt, lockedBy, body, wish, now, waitFor, answer, named>>

Refresh(c) ==
  /\ pc[c] = "refresh"
  /\ Reply(c, 201)
  /\ UNCHANGED <<clock, db, body, wish, now, waitFor, named>>

\* mutant of ReadConflicts: the details name the booking of the same interval only
ReadConflictsSame(c) ==
  /\ pc[c] = "conflicts"
  /\ named' = [named EXCEPT ![c] = {d \in Conflicts(c) : body[d].start = body[c].start}]
  /\ Reply(c, 409)
  /\ UNCHANGED <<clock, db, body, wish, now, waitFor>>

\* _conflict_error reads the conflicts again, in a later snapshot than the one that found them
ReadConflicts(c) ==
  /\ pc[c] = "conflicts"
  /\ named' = [named EXCEPT ![c] = Conflicts(c)]
  /\ Reply(c, 409)
  /\ UNCHANGED <<clock, db, body, wish, now, waitFor>>

ServeCreate(c) ==
  \/ GetRoom(c) \/ CheckConflicts(c) \/ Insert(c)
  \/ ExclusionViolation(c) \/ WaitForRival(c) \/ ExclusionClear(c) \/ DeadlockAbort(c)
  \/ CommitCreate(c) \/ Refresh(c) \/ ReadConflicts(c)
-----------------------------------------------------------------------------
(***************************************************************************)
(* POST /bookings/{id}/cancel: cancel_booking.                             *)
(***************************************************************************)

ReceiveCancel(x) ==
  /\ pc[x] = "idle"
  /\ \E w \in Wishes : wish' = [wish EXCEPT ![x] = w]
  /\ now' = [now EXCEPT ![x] = clock]
  /\ Goto(x, "lock")
  /\ UNCHANGED <<clock, db, body, waitFor, answer, named>>

Authorised(x) == wish[x].user \in Admins \cup {body[wish[x].id].user}

\* mutant of Cancellable: the status is not looked at
CancellableTwice(x) == body[wish[x].id].end > now[x]

\* an active booking whose end is still ahead of the now taken on arrival
Cancellable(x) == status[wish[x].id] = "active" /\ body[wish[x].id].end > now[x]

\* SELECT ... FOR UPDATE waits for the row lock and sees the row as last committed; a refusal
\* ends the transaction, which gives the lock back
LockRow(x) ==
  /\ pc[x] = "lock"
  /\ LET b == wish[x].id IN
       \/ ~Committed(b) /\ Reply(x, 404) /\ UNCHANGED lockedBy
       \/ Committed(b) /\ RowFree(b) /\ ~Authorised(x) /\ Reply(x, 403) /\ UNCHANGED lockedBy
       \/ /\ Committed(b) /\ RowFree(b) /\ Authorised(x) /\ ~Cancellable(x)
          /\ Reply(x, 409)
          /\ UNCHANGED lockedBy
       \/ /\ Committed(b) /\ RowFree(b) /\ Authorised(x) /\ Cancellable(x)
          /\ lockedBy' = [lockedBy EXCEPT ![b] = x]
          /\ Goto(x, "flush")
          /\ UNCHANGED answer
  /\ UNCHANGED <<clock, open, status, cancelledAt, body, wish, now, waitFor, named>>

\* commit() sends the UPDATE ...
FlushCancel(x) ==
  /\ pc[x] = "flush"
  /\ Goto(x, "commit")
  /\ UNCHANGED <<clock, db, body, wish, now, waitFor, answer, named>>

\* ... and then COMMIT: the new status is visible and the row lock is released
SettleCancel(x) ==
  LET b == wish[x].id IN
  /\ status' = [status EXCEPT ![b] = "cancelled"]
  /\ cancelledAt' = [cancelledAt EXCEPT ![b] = now[x]]
  /\ lockedBy' = [lockedBy EXCEPT ![b] = Nobody]

CommitCancel(x) ==
  /\ pc[x] = "commit"
  /\ SettleCancel(x)
  /\ Reply(x, 200)
  /\ UNCHANGED <<clock, open, body, wish, now, waitFor, named>>

\* the COMMIT took effect but its acknowledgement was lost
CommitUnheard(x) ==
  /\ x \in Fragile
  /\ pc[x] = "commit"
  /\ SettleCancel(x)
  /\ Reply(x, 500)
  /\ UNCHANGED <<clock, open, body, wish, now, waitFor, named>>

ServeCancel(x) == LockRow(x) \/ FlushCancel(x) \/ CommitCancel(x)
-----------------------------------------------------------------------------
(***************************************************************************)
(* The surroundings: failures, the administrator and the clock.            *)
(***************************************************************************)

\* mutants of Fail: the open transaction survives; the failure takes a committed row with it
FailWithoutRollback(r) ==
  /\ r \in Fragile
  /\ pc[r] \notin {"idle", "done"}
  /\ lockedBy' = [c \in Creates |-> IF lockedBy[c] = r THEN Nobody ELSE lockedBy[c]]
  /\ StopWaiting(r)
  /\ Reply(r, 500)
  /\ UNCHANGED <<clock, open, status, cancelledAt, body, wish, now, named>>

FailErasing(r) ==
  /\ r \in Fragile
  /\ pc[r] \notin {"idle", "done"}
  /\ status' = [c \in Creates |-> IF c = r THEN "absent" ELSE status[c]]
  /\ lockedBy' = [c \in Creates |-> IF lockedBy[c] = r THEN Nobody ELSE lockedBy[c]]
  /\ StopWaiting(r)
  /\ Reply(r, 500)
  /\ UNCHANGED <<clock, open, cancelledAt, body, wish, now, named>>

\* the process or the connection of a request dies between two of its steps: the server rolls
\* its open transaction back, and what it had committed stays
Fail(r) ==
  /\ r \in Fragile
  /\ pc[r] \notin {"idle", "done"}
  /\ status' = [c \in Creates |-> IF c = r /\ status[c] = "pending" THEN "absent" ELSE status[c]]
  /\ lockedBy' = [c \in Creates |-> IF lockedBy[c] = r THEN Nobody ELSE lockedBy[c]]
  /\ StopWaiting(r)
  /\ Reply(r, 500)
  /\ UNCHANGED <<clock, open, cancelledAt, body, wish, now, named>>

\* update_room commits a new is_active
SwitchRoom(m) ==
  /\ open' = [open EXCEPT ![m] = ~@]
  /\ UNCHANGED <<clock, status, cancelledAt, lockedBy, pc, body, wish, now, waitFor, answer, named>>

Tick ==
  /\ clock < MaxClock
  /\ clock' = clock + 1
  /\ UNCHANGED <<db, pc, body, wish, now, waitFor, answer, named>>

Next ==
  \/ \E c \in Creates : ReceiveCreate(c) \/ ServeCreate(c)
  \/ \E x \in Cancels : ReceiveCancel(x) \/ ServeCancel(x) \/ CommitUnheard(x)
  \/ \E r \in Requests : Fail(r)
  \/ \E m \in Rooms : SwitchRoom(m)
  \/ Tick

Spec == Init /\ [][Next]_vars

\* asyncio resumes every request whose await is over, PostgreSQL ends every statement that need
\* not wait, and its deadlock detector runs on every wait that lasts
Fairness ==
  /\ \A c \in Creates : WF_vars(ServeCreate(c))
  /\ \A x \in Cancels : WF_vars(ServeCancel(x))

FairSpec == Spec /\ Fairness
-----------------------------------------------------------------------------
(***************************************************************************)
(* Properties.                                                             *)
(***************************************************************************)

\* the minutes a booking occupies, the end excluded
Minutes(b) == b.start .. b.end - 1

\* The main invariant of app/models.py: no minute of a room is held by two active bookings,
\* however the pre-checks, inserts, waits, commits, cancellations and failures interleave.
NoOverlap ==
  \A c, d \in Creates :
    /\ c # d
    /\ status[c] = "active" /\ status[d] = "active"
    /\ body[c].room = body[d].room
    => Minutes(body[c]) \cap Minutes(body[d]) = {}

\* An answer tells what became of the booking: 201 only for a row that is in the database, a
\* refusal or an unprovoked 500 only when the request left no row behind.
AnswerTellsTruth ==
  \A c \in Creates :
    /\ answer[c] = 201 => Committed(c)
    /\ answer[c] \in {403, 404, 409, 422} => status[c] = "absent"
    /\ answer[c] = 500 /\ c \notin Fragile => status[c] = "absent"

\* A 409 is never a mutual defeat: whoever is refused lost to a booking that was really made
\* for a common minute of that room, even when both requests raced past the pre-check.
LoserHasWinner ==
  \A c \in Creates :
    answer[c] = 409 =>
      \E d \in Creates \ {c} :
        /\ Committed(d)
        /\ body[d].room = body[c].room
        /\ Minutes(body[d]) \cap Minutes(body[c]) # {}

\* _conflict_error reads the conflicts again, after the pre-check or the constraint met them, so a
\* 409 may name nobody; but then what stood in the way was cancelled meanwhile.  As long as
\* nothing is cancelled the 409 says who holds the room.
UnnamedIsCancelled ==
  \A c \in Creates :
    answer[c] = 409 /\ named[c] = {} =>
      \E d \in Creates \ {c} : status[d] = "cancelled" /\ Overlaps(body[d], body[c])

\* Two cancellations do not overwrite each other (the FOR UPDATE comment of cancel_booking): of
\* all the requests that cancel one booking at most one is told it succeeded.
CancelledOnce ==
  \A x, y \in Cancels :
    answer[x] = 200 /\ answer[y] = 200 /\ wish[x].id = wish[y].id => x = y

\* History is not rewritten: a committed booking never disappears, a cancelled one stays
\* cancelled, and the time of its cancellation does not change.
HistoryKept ==
  [][\A c \in Creates :
       /\ status[c] = "active" => status'[c] \in {"active", "cancelled"}
       /\ status[c] = "cancelled" =>
            status'[c] = "cancelled" /\ cancelledAt'[c] = cancelledAt[c]]_vars

\* No meeting is booked that was already over when it was asked for, although a slot that has
\* begun may be: floor_to_slot gives back less than a slot.
NothingOverIsBooked ==
  \A c \in Creates : Committed(c) => body[c].end > now[c]

\* A cancellation request decided on a booking stays alone with it until its commit: the row it
\* is about to cancel is active, and it alone holds its lock.
LockProtects ==
  \A x \in Cancels :
    pc[x] \in {"flush", "commit"} => status[wish[x].id] = "active" /\ lockedBy[wish[x].id] = x

\* Where a create request stands tells what its row is.
RowFollowsRequest ==
  \A c \in Creates :
    /\ status[c] = "pending" <=> pc[c] \in {"exclude", "commit"}
    /\ pc[c] \in {"idle", "room", "check", "insert", "conflicts"} => status[c] = "absent"
    /\ pc[c] = "refresh" => Committed(c)

\* the row of c is past the exclusion constraint
Settled(c) == status[c] = "active" \/ pc[c] = "commit"

\* The strengthening of NoOverlap that every step preserves: a row that has passed the
\* constraint overlaps no other such row, before its commit as well as after it.
NoSettledOverlap ==
  \A c, d \in Creates : c # d /\ Settled(c) /\ Settled(d) => ~Overlaps(body[c], body[d])

\* A request that has arrived has its body or its wish.
RequestsGiven ==
  /\ \A c \in Creates : pc[c] # "idle" => body[c] \in Inputs
  /\ \A x \in Cancels : pc[x] # "idle" => wish[x] \in Wishes

\* The rules of time were met by every request beyond validate_times and by every row.
PastRules ==
  \A c \in Creates :
    \/ pc[c] \in {"check", "insert", "exclude", "commit", "refresh", "conflicts"}
    \/ status[c] # "absent"
    => Acceptable(c)

\* The inductive invariant behind the theorems of BookingsProofs.
IndInv ==
  /\ TypeOK /\ RequestsGiven /\ RowFollowsRequest /\ PastRules
  /\ LockProtects /\ NoSettledOverlap

\* The rows as the ledger of BookingLedger: a pending row is nobody's booking yet.
ledgerOfRows ==
  [c \in Creates |-> IF Committed(c) THEN [entry |-> body[c], status |-> status[c]] ELSE Nobody]

Ledger == INSTANCE BookingLedger WITH
  Ids <- Creates, Entries <- Inputs, Absent <- Nobody, ledger <- ledgerOfRows

\* The requests, transactions and failures together implement the ledger: every commit is one
\* booking of a free room or one cancellation, and no other step changes a booking.
ImplementsLedger == Ledger!Spec

\* Every request that arrives is answered: no wait for a row lock or for another insert lasts
\* forever, not even when inserts wait for each other.
EveryRequestAnswered ==
  \A r \in Requests : pc[r] # "idle" ~> pc[r] = "done"

\* the other bookings made in the room c asked for
MadeInRoomOf(c) ==
  {d \in Creates \ {c} : Committed(d) /\ body[c] # Nobody /\ body[d].room = body[c].room}

\* When the database fails a request to break a deadlock, the slot is not lost for everybody:
\* some booking of that room goes through.
DeadlockHasSurvivor == \A c \in Creates : answer[c] = 500 ~> MadeInRoomOf(c) # {}

AskedRoomIsOff(c) == body[c] # Nobody /\ ~open[body[c].room]

\* A room that is off when it is asked for and stays off is not booked: is_active is read once,
\* by get_room, and only a switch after the request came can let a booking of a closed room in.
ClosedRoomStaysFree ==
  \A c \in Creates :
    [](pc[c] = "room" /\ []AskedRoomIsOff(c) => []~Committed(c))
-----------------------------------------------------------------------------
(***************************************************************************)
(* What the repository says and the code does not keep.                    *)
(***************************************************************************)

\* The module comment of bookings.py: of two requests that both passed the pre-check the second
\* insert fails with 23P01 and answers the same conflict, so no race ends in a 500.
RaceEndsInConflict ==
  \A c \in Creates : answer[c] = 500 => c \in Fragile
=============================================================================
