--------------------------- MODULE BookingsProofs ---------------------------
(***************************************************************************)
(* Theorems about Bookings, for every set of requests, rooms, users and    *)
(* bodies and for every setting of the time rules.                         *)
(***************************************************************************)
EXTENDS Bookings, TLAPS

(***************************************************************************)
(* Types.                                                                  *)
(***************************************************************************)

\* Overwriting one value of a function keeps its type, whether or not it has that argument.
LEMMA ExceptType ==
  ASSUME NEW S, NEW T, NEW f \in [S -> T], NEW a, NEW v \in T
  PROVE  [f EXCEPT ![a] = v] \in [S -> T]
  OBVIOUS

LEMMA SettleTypeOK ==
  ASSUME TypeOK, NEW x \in Cancels, SettleCancel(x)
  PROVE  /\ status' \in [Creates -> {"absent", "pending", "active", "cancelled"}]
         /\ cancelledAt' \in [Creates -> Int]
         /\ lockedBy' \in [Creates -> Cancels \cup {Nobody}]
<1>1. now[x] \in Int
  BY DEF TypeOK, Requests
<1>2. status \in [Creates -> {"absent", "pending", "active", "cancelled"}]
  BY DEF TypeOK
<1>3. cancelledAt \in [Creates -> Int] /\ lockedBy \in [Creates -> Cancels \cup {Nobody}]
  BY DEF TypeOK
<1> QED
  BY <1>1, <1>2, <1>3, ExceptType, Zenon DEF SettleCancel

LEMMA InitTypeOK == Init => TypeOK
  BY RequestsAssumption, ClockAssumption DEF Init, TypeOK, Requests

\* One step of a create request keeps the types.
LEMMA CreateTypeOK ==
  ASSUME TypeOK, NEW c \in Creates, ReceiveCreate(c) \/ ServeCreate(c)
  PROVE  TypeOK'
<1> c \in Requests  BY DEF Requests
<1>1. CASE ReceiveCreate(c)
  BY <1>1 DEF TypeOK, ReceiveCreate, Goto, db
<1>2. CASE GetRoom(c)
  BY <1>2 DEF TypeOK, GetRoom, Reply, Goto, db
<1>3. CASE CheckConflicts(c)
  BY <1>3 DEF TypeOK, CheckConflicts, Goto, db
<1>4. CASE Insert(c)
  BY <1>4 DEF TypeOK, Insert, Goto
<1>5. CASE ExclusionViolation(c)
  BY <1>5 DEF TypeOK, ExclusionViolation, StopWaiting, Goto
<1>6. CASE WaitForRival(c)
  BY <1>6 DEF TypeOK, WaitForRival, Rivals, Conflicts, Requests, db
<1>7. CASE ExclusionClear(c)
  BY <1>7 DEF TypeOK, ExclusionClear, StopWaiting, Goto, db
<1>8. CASE DeadlockAbort(c)
  BY <1>8 DEF TypeOK, DeadlockAbort, StopWaiting, Reply, Goto
<1>9. CASE CommitCreate(c)
  BY <1>9 DEF TypeOK, CommitCreate, Goto
<1>10. CASE Refresh(c)
  BY <1>10 DEF TypeOK, Refresh, Reply, Goto, db
<1>11. CASE ReadConflicts(c)
  BY <1>11 DEF TypeOK, ReadConflicts, Conflicts, Rivals, Reply, Goto, db
<1> QED
  BY <1>1, <1>2, <1>3, <1>4, <1>5, <1>6, <1>7, <1>8, <1>9, <1>10, <1>11 DEF ServeCreate

\* One step of a cancelling request keeps the types.
LEMMA CancelTypeOK ==
  ASSUME TypeOK, NEW x \in Cancels, ReceiveCancel(x) \/ ServeCancel(x) \/ CommitUnheard(x)
  PROVE  TypeOK'
<1> x \in Requests  BY DEF Requests
<1>1. CASE ReceiveCancel(x)
  BY <1>1 DEF TypeOK, ReceiveCancel, Goto, db
<1>2. CASE LockRow(x)
  BY <1>2 DEF TypeOK, LockRow, Reply, Goto
<1>3. CASE FlushCancel(x)
  BY <1>3 DEF TypeOK, FlushCancel, Goto, db
<1>4. CASE CommitCancel(x)
  BY <1>4, SettleTypeOK DEF TypeOK, CommitCancel, Reply, Goto
<1>5. CASE CommitUnheard(x)
  BY <1>5, SettleTypeOK DEF TypeOK, CommitUnheard, Reply, Goto
<1> QED
  BY <1>1, <1>2, <1>3, <1>4, <1>5 DEF ServeCancel

LEMMA NextTypeOK == TypeOK /\ [Next]_vars => TypeOK'
<1> SUFFICES ASSUME TypeOK, [Next]_vars PROVE TypeOK'  OBVIOUS
<1>1. ASSUME NEW r \in Requests, Fail(r) PROVE TypeOK'
  BY <1>1 DEF TypeOK, Fail, StopWaiting, Reply, Goto
<1>2. ASSUME NEW m \in Rooms, SwitchRoom(m) PROVE TypeOK'
  BY <1>2 DEF TypeOK, SwitchRoom
<1>3. CASE Tick
  BY <1>3 DEF TypeOK, Tick, db
<1>4. CASE UNCHANGED vars
  BY <1>4 DEF TypeOK, vars
<1> QED
  BY <1>1, <1>2, <1>3, <1>4, CreateTypeOK, CancelTypeOK DEF Next

\* The state keeps the types TypeOK gives it: every row has one of its four states, every
\* request stands at a step of its handler and answers one of its status codes.
THEOREM TypeCorrect == Spec => []TypeOK
  BY InitTypeOK, NextTypeOK, PTL DEF Spec

(***************************************************************************)
(* The inductive invariant, step by step.                                  *)
(***************************************************************************)

LEMMA InitIndInv == Init => IndInv
  BY InitTypeOK
  DEF Init, IndInv, RequestsGiven, RowFollowsRequest, PastRules, LockProtects,
      NoSettledOverlap, Settled, Requests

LEMMA CreateRequestsGiven ==
  ASSUME IndInv, NEW c \in Creates, ReceiveCreate(c) \/ ServeCreate(c)
  PROVE  RequestsGiven'
<1> USE RequestsAssumption DEF IndInv, TypeOK, RequestsGiven, Requests
<1>1. CASE ReceiveCreate(c)
  BY <1>1 DEF ReceiveCreate, Goto, db
<1>2. CASE GetRoom(c)
  BY <1>2 DEF GetRoom, Reply, Goto, db
<1>3. CASE CheckConflicts(c)
  BY <1>3 DEF CheckConflicts, Goto, db
<1>4. CASE Insert(c)
  BY <1>4 DEF Insert, Goto
<1>5. CASE ExclusionViolation(c)
  BY <1>5 DEF ExclusionViolation, StopWaiting, Goto, Unblocked
<1>6. CASE WaitForRival(c)
  BY <1>6 DEF WaitForRival, Unblocked, db
<1>7. CASE ExclusionClear(c)
  BY <1>7 DEF ExclusionClear, StopWaiting, Goto, Unblocked, db
<1>8. CASE DeadlockAbort(c)
  BY <1>8 DEF DeadlockAbort, StopWaiting, Reply, Goto
<1>9. CASE CommitCreate(c)
  BY <1>9 DEF CommitCreate, Goto
<1>10. CASE Refresh(c)
  BY <1>10 DEF Refresh, Reply, Goto, db
<1>11. CASE ReadConflicts(c)
  BY <1>11 DEF ReadConflicts, Reply, Goto, db
<1> QED
  BY <1>1, <1>2, <1>3, <1>4, <1>5, <1>6, <1>7, <1>8, <1>9, <1>10, <1>11 DEF ServeCreate

LEMMA CreateRowFollows ==
  ASSUME IndInv, NEW c \in Creates, ReceiveCreate(c) \/ ServeCreate(c)
  PROVE  RowFollowsRequest'
<1> USE RequestsAssumption DEF IndInv, TypeOK, RowFollowsRequest, Requests, Committed
<1>1. CASE ReceiveCreate(c)
  BY <1>1 DEF ReceiveCreate, Goto, db
<1>2. CASE GetRoom(c)
  BY <1>2 DEF GetRoom, Reply, Goto, db
<1>3. CASE CheckConflicts(c)
  BY <1>3 DEF CheckConflicts, Goto, db
<1>4. CASE Insert(c)
  BY <1>4 DEF Insert, Goto
<1>5. CASE ExclusionViolation(c)
  BY <1>5 DEF ExclusionViolation, StopWaiting, Goto, Unblocked
<1>6. CASE WaitForRival(c)
  BY <1>6 DEF WaitForRival, Unblocked, db
<1>7. CASE ExclusionClear(c)
  BY <1>7 DEF ExclusionClear, StopWaiting, Goto, Unblocked, db
<1>8. CASE DeadlockAbort(c)
  BY <1>8 DEF DeadlockAbort, StopWaiting, Reply, Goto
<1>9. CASE CommitCreate(c)
  BY <1>9 DEF CommitCreate, Goto
<1>10. CASE Refresh(c)
  BY <1>10 DEF Refresh, Reply, Goto, db
<1>11. CASE ReadConflicts(c)
  BY <1>11 DEF ReadConflicts, Reply, Goto, db
<1> QED
  BY <1>1, <1>2, <1>3, <1>4, <1>5, <1>6, <1>7, <1>8, <1>9, <1>10, <1>11 DEF ServeCreate

LEMMA CreatePastRules ==
  ASSUME IndInv, NEW c \in Creates, ReceiveCreate(c) \/ ServeCreate(c)
  PROVE  PastRules'
<1> USE RequestsAssumption DEF IndInv, TypeOK, RowFollowsRequest, PastRules, Requests, Acceptable
<1>1. CASE ReceiveCreate(c)
  BY <1>1 DEF ReceiveCreate, Goto, db
<1>2. CASE GetRoom(c)
  BY <1>2 DEF GetRoom, Reply, Goto, db
<1>3. CASE CheckConflicts(c)
  BY <1>3 DEF CheckConflicts, Goto, db
<1>4. CASE Insert(c)
  BY <1>4 DEF Insert, Goto
<1>5. CASE ExclusionViolation(c)
  BY <1>5 DEF ExclusionViolation, StopWaiting, Goto, Unblocked
<1>6. CASE WaitForRival(c)
  BY <1>6 DEF WaitForRival, Unblocked, db
<1>7. CASE ExclusionClear(c)
  BY <1>7 DEF ExclusionClear, StopWaiting, Goto, Unblocked, db
<1>8. CASE DeadlockAbort(c)
  BY <1>8 DEF DeadlockAbort, StopWaiting, Reply, Goto
<1>9. CASE CommitCreate(c)
  BY <1>9 DEF CommitCreate, Goto
<1>10. CASE Refresh(c)
  BY <1>10 DEF Refresh, Reply, Goto, db
<1>11. CASE ReadConflicts(c)
  BY <1>11 DEF ReadConflicts, Reply, Goto, db
<1> QED
  BY <1>1, <1>2, <1>3, <1>4, <1>5, <1>6, <1>7, <1>8, <1>9, <1>10, <1>11 DEF ServeCreate

LEMMA CreateLockProtects ==
  ASSUME IndInv, NEW c \in Creates, ReceiveCreate(c) \/ ServeCreate(c)
  PROVE  LockProtects'
<1> USE RequestsAssumption DEF IndInv, TypeOK, RequestsGiven, RowFollowsRequest, LockProtects, Requests, Wishes
<1>1. CASE ReceiveCreate(c)
  BY <1>1 DEF ReceiveCreate, Goto, db
<1>2. CASE GetRoom(c)
  BY <1>2 DEF GetRoom, Reply, Goto, db
<1>3. CASE CheckConflicts(c)
  BY <1>3 DEF CheckConflicts, Goto, db
<1>4. CASE Insert(c)
  BY <1>4 DEF Insert, Goto
<1>5. CASE ExclusionViolation(c)
  BY <1>5 DEF ExclusionViolation, StopWaiting, Goto, Unblocked
<1>6. CASE WaitForRival(c)
  BY <1>6 DEF WaitForRival, Unblocked, db
<1>7. CASE ExclusionClear(c)
  BY <1>7 DEF ExclusionClear, StopWaiting, Goto, Unblocked, db
<1>8. CASE DeadlockAbort(c)
  BY <1>8 DEF DeadlockAbort, StopWaiting, Reply, Goto
<1>9. CASE CommitCreate(c)
  BY <1>9 DEF CommitCreate, Goto
<1>10. CASE Refresh(c)
  BY <1>10 DEF Refresh, Reply, Goto, db
<1>11. CASE ReadConflicts(c)
  BY <1>11 DEF ReadConflicts, Reply, Goto, db
<1> QED
  BY <1>1, <1>2, <1>3, <1>4, <1>5, <1>6, <1>7, <1>8, <1>9, <1>10, <1>11 DEF ServeCreate

LEMMA OverlapsSymmetric ==
  ASSUME NEW a, NEW b, Overlaps(a, b)
  PROVE  Overlaps(b, a)
  BY DEF Overlaps

LEMMA CreateNoSettledOverlap ==
  ASSUME IndInv, NEW c \in Creates, ReceiveCreate(c) \/ ServeCreate(c)
  PROVE  NoSettledOverlap'
<1> USE RequestsAssumption DEF IndInv, TypeOK, RowFollowsRequest, NoSettledOverlap, Settled, Requests
<1>1. CASE ReceiveCreate(c)
  BY <1>1 DEF ReceiveCreate, Goto, db
<1>2. CASE GetRoom(c)
  BY <1>2 DEF GetRoom, Reply, Goto, db
<1>3. CASE CheckConflicts(c)
  BY <1>3 DEF CheckConflicts, Goto, db
<1>4. CASE Insert(c)
  BY <1>4 DEF Insert, Goto
<1>5. CASE ExclusionViolation(c)
  BY <1>5 DEF ExclusionViolation, StopWaiting, Goto, Unblocked
<1>6. CASE WaitForRival(c)
  BY <1>6 DEF WaitForRival, Unblocked, db
<1>7. CASE ExclusionClear(c)
  <2>1. \A d \in Creates \ {c} : Settled(d) => ~Overlaps(body[d], body[c])
    BY <1>7 DEF ExclusionClear, Rivals
  <2>2. \A d \in Creates \ {c} : Settled(d)' => Settled(d)
    BY <1>7 DEF ExclusionClear, Goto, db
  <2>3. body' = body
    BY <1>7 DEF ExclusionClear
  <2> QED
    BY <2>1, <2>2, <2>3, OverlapsSymmetric
<1>8. CASE DeadlockAbort(c)
  BY <1>8 DEF DeadlockAbort, StopWaiting, Reply, Goto
<1>9. CASE CommitCreate(c)
  BY <1>9 DEF CommitCreate, Goto
<1>10. CASE Refresh(c)
  BY <1>10 DEF Refresh, Reply, Goto, db
<1>11. CASE ReadConflicts(c)
  BY <1>11 DEF ReadConflicts, Reply, Goto, db
<1> QED
  BY <1>1, <1>2, <1>3, <1>4, <1>5, <1>6, <1>7, <1>8, <1>9, <1>10, <1>11 DEF ServeCreate

LEMMA CancelIndInv ==
  ASSUME IndInv, NEW x \in Cancels, ReceiveCancel(x) \/ ServeCancel(x) \/ CommitUnheard(x)
  PROVE  IndInv'
<1> USE RequestsAssumption DEF IndInv, TypeOK, Requests
<1> DEFINE b == wish[x].id
<1>1. TypeOK'
  BY CancelTypeOK
<1>2. CASE ReceiveCancel(x)
  BY <1>1, <1>2
  DEF ReceiveCancel, Goto, db, RequestsGiven, RowFollowsRequest, PastRules, LockProtects,
      NoSettledOverlap, Settled, Acceptable, Committed
<1>3. CASE LockRow(x)
  <2>1. UNCHANGED <<status, body, wish, now>> /\ \A r \in Requests \ {x} : pc'[r] = pc[r]
    BY <1>3 DEF LockRow, Reply, Goto
  <2>2. RequestsGiven' /\ RowFollowsRequest' /\ PastRules' /\ NoSettledOverlap'
    BY <1>3, <2>1
    DEF LockRow, RequestsGiven, RowFollowsRequest, PastRules, NoSettledOverlap, Settled,
        Acceptable, Committed
  <2>3. LockProtects'
    BY <1>3, <2>1
    DEF LockRow, Reply, Goto, RequestsGiven, LockProtects, RowFree, Cancellable, Wishes
  <2> QED
    BY <1>1, <2>2, <2>3
<1>4. CASE FlushCancel(x)
  BY <1>1, <1>4
  DEF FlushCancel, Goto, db, RequestsGiven, RowFollowsRequest, PastRules, LockProtects,
      NoSettledOverlap, Settled, Acceptable, Committed
<1>5. ASSUME pc[x] = "commit", SettleCancel(x), pc' = [pc EXCEPT ![x] = "done"],
             UNCHANGED <<body, wish, now>>
      PROVE  IndInv'
  <2>1. b \in Creates /\ status[b] = "active"
    BY <1>5 DEF RequestsGiven, LockProtects, Wishes
  <2>2. /\ status' = [status EXCEPT ![b] = "cancelled"]
        /\ lockedBy' = [lockedBy EXCEPT ![b] = Nobody]
    BY <1>5 DEF SettleCancel
  <2>3. RequestsGiven'
    BY <1>5 DEF RequestsGiven
  <2>4. RowFollowsRequest'
    BY <1>5, <2>1, <2>2 DEF RowFollowsRequest, Committed
  <2>5. PastRules'
    BY <1>5, <2>1, <2>2 DEF PastRules, Acceptable
  <2>6. LockProtects'
    BY <1>5, <2>1, <2>2 DEF LockProtects, RequestsGiven, Wishes
  <2>7. NoSettledOverlap'
    BY <1>5, <2>1, <2>2 DEF NoSettledOverlap, Settled
  <2> QED
    BY <1>1, <2>3, <2>4, <2>5, <2>6, <2>7
<1>6. CASE CommitCancel(x)
  BY <1>5, <1>6 DEF CommitCancel, Reply, Goto
<1>7. CASE CommitUnheard(x)
  BY <1>5, <1>7 DEF CommitUnheard, Reply, Goto
<1> QED
  BY <1>2, <1>3, <1>4, <1>6, <1>7 DEF ServeCancel

LEMMA FailIndInv ==
  ASSUME IndInv, NEW r \in Requests, Fail(r)
  PROVE  IndInv'
<1> USE RequestsAssumption DEF IndInv, TypeOK, Requests
<1>1. TypeOK'
  BY NextTypeOK DEF Next
<1>2. RequestsGiven'
  BY DEF Fail, Reply, Goto, RequestsGiven
<1>3. RowFollowsRequest'
  BY DEF Fail, Reply, Goto, RowFollowsRequest, Committed
<1>4. PastRules'
  BY DEF Fail, Reply, Goto, PastRules, Acceptable, RowFollowsRequest
<1>5. LockProtects'
  BY DEF Fail, Reply, Goto, LockProtects, RequestsGiven, Wishes
<1>6. NoSettledOverlap'
  BY DEF Fail, Reply, Goto, NoSettledOverlap, Settled
<1> QED
  BY <1>1, <1>2, <1>3, <1>4, <1>5, <1>6

LEMMA NextIndInv == IndInv /\ [Next]_vars => IndInv'
<1> SUFFICES ASSUME IndInv, [Next]_vars PROVE IndInv'  OBVIOUS
<1>1. TypeOK'
  BY NextTypeOK DEF IndInv
<1>2. ASSUME NEW c \in Creates, ReceiveCreate(c) \/ ServeCreate(c) PROVE IndInv'
  BY <1>1, <1>2, CreateRequestsGiven, CreateRowFollows, CreatePastRules, CreateLockProtects,
     CreateNoSettledOverlap
  DEF IndInv
<1>3. ASSUME NEW m \in Rooms, SwitchRoom(m) PROVE IndInv'
  BY <1>1, <1>3
  DEF SwitchRoom, IndInv, RequestsGiven, RowFollowsRequest, PastRules, LockProtects,
      NoSettledOverlap, Settled, Acceptable, Committed
<1>4. CASE Tick
  BY <1>1, <1>4
  DEF Tick, db, IndInv, RequestsGiven, RowFollowsRequest, PastRules, LockProtects,
      NoSettledOverlap, Settled, Acceptable, Committed
<1>5. CASE UNCHANGED vars
  BY <1>1, <1>5
  DEF vars, IndInv, RequestsGiven, RowFollowsRequest, PastRules, LockProtects,
      NoSettledOverlap, Settled, Acceptable, Committed
<1> QED
  BY <1>2, <1>3, <1>4, <1>5, CancelIndInv, FailIndInv DEF Next

\* The inductive invariant holds in every reachable state.
THEOREM Invariance == Spec => []IndInv
  BY InitIndInv, NextIndInv, PTL DEF Spec

(***************************************************************************)
(* What follows from the invariant.                                        *)
(***************************************************************************)

\* Bookings that do not overlap in the sense of the constraint share no minute of a room.
LEMMA ApartMeansDisjoint ==
  ASSUME NEW a \in Inputs, NEW b \in Inputs, a.room = b.room, ~Overlaps(a, b)
  PROVE  Minutes(a) \cap Minutes(b) = {}
  BY InputsAssumption DEF Overlaps, Minutes

LEMMA IndInvNoOverlap == IndInv => NoOverlap
<1> SUFFICES ASSUME IndInv, NEW c \in Creates, NEW d \in Creates, c # d,
                    status[c] = "active", status[d] = "active", body[c].room = body[d].room
             PROVE  Minutes(body[c]) \cap Minutes(body[d]) = {}
  BY DEF NoOverlap
<1>1. ~Overlaps(body[c], body[d])
  BY DEF IndInv, NoSettledOverlap, Settled
<1>2. body[c] \in Inputs /\ body[d] \in Inputs
  BY DEF IndInv, RequestsGiven, RowFollowsRequest
<1> QED
  BY <1>1, <1>2, ApartMeansDisjoint

\* No minute of a room is ever held by two active bookings, for any number of concurrent
\* requests: the promise of app/models.py and of the exclusion constraint.
THEOREM NoOverlapHolds == Spec => []NoOverlap
  BY Invariance, IndInvNoOverlap, PTL

\* Going back no more than the remainder stays in the same block.
LEMMA ModBack ==
  ASSUME NEW n \in Nat \ {0}, NEW a \in Int, NEW k \in 0 .. (a % n)
  PROVE  (a - k) % n = (a % n) - k
<1>1. a = n * (a \div n) + (a % n) /\ a % n \in 0 .. n - 1
  OBVIOUS
<1>2. PICK q \in Int : q = a \div n
  OBVIOUS
<1>3. a - k = n * q + ((a % n) - k) /\ (a % n) - k \in 0 .. n - 1
  BY <1>1, <1>2
<1>4. \A m \in Int, r \in 0 .. n - 1 : (n * m + r) % n = r
  OBVIOUS
<1> QED
  BY <1>2, <1>3, <1>4

\* A slot boundary after the one the running slot began at lies after now.
LEMMA NextBoundaryIsAhead ==
  ASSUME NEW t \in Int, NEW m \in Int, Aligned(t), FloorToSlot(m) < t
  PROVE  m < t
<1> DEFINE h == Local(m) % Hour
           p == h % Slot
           k == m - t
<1>0. /\ Hour \in Nat \ {0} /\ Slot \in Nat \ {0}
      /\ Local(m) \in Int /\ h \in Nat /\ p \in 0 .. h
  <2>1. Hour \in Nat \ {0} /\ Slot \in Nat \ {0} /\ Local(m) \in Int
    BY CalendarAssumption, SettingsAssumption DEF Local
  <2>2. h \in Nat
    BY <2>1
  <2>3. \A a \in Nat, n \in Nat \ {0} : a % n \in 0 .. a
    OBVIOUS
  <2> HIDE DEF h
  <2> QED
    BY <2>1, <2>2, <2>3
<1> SUFFICES ASSUME t <= m PROVE FALSE
  OBVIOUS
<1>1. k \in 0 .. p /\ k < p
  BY <1>0 DEF FloorToSlot, PastSlot
<1>2. Local(t) = Local(m) - k
  BY CalendarAssumption DEF Local
<1>3. Local(t) % Hour = h - k
  <2>1. k \in 0 .. h
    BY <1>0, <1>1
  <2> QED
    BY <1>0, <1>2, <2>1, ModBack
<1>4. (h - k) % Slot = p - k
  <2> HIDE DEF h, k
  <2> QED
    BY <1>0, <1>1, ModBack
<1>5. PastSlot(t) = p - k
  BY <1>3, <1>4 DEF PastSlot
<1> QED
  BY <1>0, <1>1, <1>5 DEF Aligned

\* validate_times never lets a meeting through that is over already, whatever the slot length,
\* even one that does not divide the hour.
THEOREM AcceptedIsNotOver ==
  ASSUME NEW start \in Int, NEW end \in Int, NEW m \in Int, ValidTimes(start, end, m)
  PROVE  m < end
<1>1. FloorToSlot(m) \in Int
  BY CalendarAssumption, SettingsAssumption DEF FloorToSlot, PastSlot, Local
<1> QED
  BY <1>1, NextBoundaryIsAhead DEF ValidTimes, NotPast

LEMMA IndInvNothingOver == IndInv => NothingOverIsBooked
<1> SUFFICES ASSUME IndInv, NEW c \in Creates, Committed(c) PROVE body[c].end > now[c]
  BY DEF NothingOverIsBooked
<1>1. body[c] \in Inputs /\ now[c] \in Int
  BY DEF IndInv, TypeOK, Requests, RequestsGiven, RowFollowsRequest, Committed
<1>2. body[c].start \in Int /\ body[c].end \in Int
  BY <1>1, InputsAssumption
<1>3. ValidTimes(body[c].start, body[c].end, now[c])
  BY DEF IndInv, PastRules, Acceptable, Committed
<1> QED
  BY <1>1, <1>2, <1>3, AcceptedIsNotOver

\* No booking was over when it was asked for.
THEOREM NothingOverHolds == Spec => []NothingOverIsBooked
  BY Invariance, IndInvNothingOver, PTL

(***************************************************************************)
(* What a step does to the committed bookings.                             *)
(***************************************************************************)

\* the bookings that are visible to others, and all that is known of them, stay as they are
BookingsKept ==
  \A d \in Creates :
    /\ Committed(d)' <=> Committed(d)
    /\ Committed(d) => /\ status'[d] = status[d] /\ body'[d] = body[d]
                       /\ cancelledAt'[d] = cancelledAt[d]

Enters(c) ==
  /\ status[c] = "pending" /\ pc[c] = "commit"
  /\ status' = [status EXCEPT ![c] = "active"]
  /\ UNCHANGED <<body, cancelledAt>>

Leaves(b) ==
  /\ status[b] = "active"
  /\ status' = [status EXCEPT ![b] = "cancelled"]
  /\ body' = body
  /\ \A d \in Creates \ {b} : cancelledAt'[d] = cancelledAt[d]

\* Every step enters one booking, cancels one booking or leaves all of them alone.
LEMMA StepOnBookings ==
  ASSUME IndInv, [Next]_vars
  PROVE  BookingsKept \/ (\E c \in Creates : Enters(c) \/ Leaves(c))
<1> USE RequestsAssumption DEF IndInv, TypeOK, Requests, BookingsKept, Committed
<1>1. ASSUME NEW c \in Creates, ReceiveCreate(c) PROVE BookingsKept
  BY <1>1 DEF ReceiveCreate, RowFollowsRequest, db
<1>2. ASSUME NEW c \in Creates, GetRoom(c) \/ CheckConflicts(c) \/ WaitForRival(c)
                                \/ ExclusionClear(c) \/ Refresh(c) \/ ReadConflicts(c)
      PROVE  BookingsKept
  BY <1>2 DEF GetRoom, CheckConflicts, WaitForRival, ExclusionClear, Refresh, ReadConflicts, db
<1>3. ASSUME NEW c \in Creates, Insert(c) PROVE BookingsKept
  BY <1>3 DEF Insert, RowFollowsRequest
<1>4. ASSUME NEW c \in Creates, ExclusionViolation(c) \/ DeadlockAbort(c) PROVE BookingsKept
  BY <1>4 DEF ExclusionViolation, DeadlockAbort, Unblocked, RowFollowsRequest
<1>5. ASSUME NEW c \in Creates, CommitCreate(c) PROVE Enters(c)
  BY <1>5 DEF CommitCreate, Enters, RowFollowsRequest
<1>6. ASSUME NEW x \in Cancels, ReceiveCancel(x) \/ LockRow(x) \/ FlushCancel(x)
      PROVE  BookingsKept
  BY <1>6 DEF ReceiveCancel, LockRow, FlushCancel, db
<1>7. ASSUME NEW x \in Cancels, CommitCancel(x) \/ CommitUnheard(x)
      PROVE  \E b \in Creates : Leaves(b)
  <2>1. wish[x].id \in Creates /\ status[wish[x].id] = "active"
    BY <1>7 DEF CommitCancel, CommitUnheard, RequestsGiven, LockProtects, Wishes
  <2>2. Leaves(wish[x].id)
    BY <1>7, <2>1 DEF CommitCancel, CommitUnheard, SettleCancel, Leaves
  <2> QED
    BY <2>1, <2>2
<1>8. ASSUME NEW r \in Requests, Fail(r) PROVE BookingsKept
  BY <1>8 DEF Fail
<1>9. CASE (\E m \in Rooms : SwitchRoom(m)) \/ Tick \/ UNCHANGED vars
  BY <1>9 DEF SwitchRoom, Tick, vars, db
<1> QED
  BY <1>1, <1>2, <1>3, <1>4, <1>5, <1>6, <1>7, <1>8, <1>9 DEF Next, ServeCreate, ServeCancel

\* History is not rewritten: no step removes a committed booking, revives a cancelled one or
\* changes when it was cancelled.
THEOREM HistoryIsKept == Spec => HistoryKept
<1>1. ASSUME IndInv, [Next]_vars, NEW c \in Creates
      PROVE  /\ status[c] = "active" => status'[c] \in {"active", "cancelled"}
             /\ status[c] = "cancelled" =>
                  status'[c] = "cancelled" /\ cancelledAt'[c] = cancelledAt[c]
  <2>1. status \in [Creates -> {"absent", "pending", "active", "cancelled"}]
    BY <1>1 DEF IndInv, TypeOK
  <2>2. CASE BookingsKept
    BY <2>2 DEF BookingsKept, Committed
  <2>3. ASSUME NEW d \in Creates, Enters(d) \/ Leaves(d)
        PROVE  /\ status[c] = "active" => status'[c] \in {"active", "cancelled"}
               /\ status[c] = "cancelled" =>
                    status'[c] = "cancelled" /\ cancelledAt'[c] = cancelledAt[c]
    BY <2>1, <2>3 DEF Enters, Leaves
  <2> QED
    BY <1>1, <2>2, <2>3, StepOnBookings
<1>2. IndInv /\ [Next]_vars =>
        [\A c \in Creates :
           /\ status[c] = "active" => status'[c] \in {"active", "cancelled"}
           /\ status[c] = "cancelled" =>
                status'[c] = "cancelled" /\ cancelledAt'[c] = cancelledAt[c]]_vars
  BY <1>1
<1> QED
  BY <1>2, Invariance, PTL DEF Spec, HistoryKept

(***************************************************************************)
(* Bookings implements BookingLedger.                                      *)
(***************************************************************************)

LEMMA LedgerOfCommitted ==
  ASSUME IndInv, NEW c \in Creates, Committed(c)
  PROVE  /\ ledgerOfRows[c] = [entry |-> body[c], status |-> status[c]]
         /\ ledgerOfRows[c] # Nobody
<1>1. body[c] \in Inputs
  BY DEF IndInv, RequestsGiven, RowFollowsRequest, Committed
<1>2. status[c] \in {"active", "cancelled"}
  BY DEF Committed
<1>3. [entry |-> body[c], status |-> status[c]] # Nobody
  BY <1>1, <1>2, RequestsAssumption
<1> QED
  BY <1>3 DEF ledgerOfRows

LEMMA LedgerOfUncommitted ==
  ASSUME NEW c \in Creates, ~Committed(c)
  PROVE  ledgerOfRows[c] = Nobody
  BY DEF ledgerOfRows

LEMMA InitImplements == Init => Ledger!Init
  BY DEF Init, Ledger!Init, ledgerOfRows, Committed

LEMMA KeepsLedger ==
  ASSUME BookingsKept
  PROVE  UNCHANGED ledgerOfRows
<1>1. \A c \in Creates :
        (IF Committed(c) THEN [entry |-> body[c], status |-> status[c]] ELSE Nobody)'
          = IF Committed(c) THEN [entry |-> body[c], status |-> status[c]] ELSE Nobody
  BY DEF BookingsKept
<1> QED
  BY <1>1 DEF ledgerOfRows

LEMMA EntersBooks ==
  ASSUME IndInv, IndInv', NEW c \in Creates, Enters(c)
  PROVE  Ledger!Book(c)
<1> DEFINE e == body[c]
<1>1. /\ ~Committed(c) /\ Committed(c)' /\ status'[c] = "active" /\ body' = body
      /\ \A d \in Creates \ {c} : status'[d] = status[d] /\ (Committed(d)' <=> Committed(d))
  BY DEF Enters, Committed, IndInv, TypeOK
<1>2. ledgerOfRows[c] = Nobody
  BY <1>1, LedgerOfUncommitted
<1>3. e \in Inputs /\ e.start < e.end
  BY DEF Enters, IndInv, RequestsGiven, PastRules, Acceptable, ValidTimes
<1>4. Ledger!Free(e)
  <2> SUFFICES ASSUME NEW d \in Creates, Ledger!Holds(d)
               PROVE  ~Ledger!Clash(ledgerOfRows[d].entry, e)
    BY DEF Ledger!Free
  <2>1. Committed(d)
    BY LedgerOfUncommitted DEF Ledger!Holds
  <2>2. ledgerOfRows[d] = [entry |-> body[d], status |-> status[d]]
    BY <2>1, LedgerOfCommitted
  <2>3. status[d] = "active" /\ d # c
    BY <1>1, <2>1, <2>2 DEF Ledger!Holds
  <2>4. ~Overlaps(body[d], body[c])
    BY <2>3 DEF Enters, IndInv, NoSettledOverlap, Settled
  <2> QED
    BY <2>2, <2>4 DEF Overlaps, Ledger!Clash
<1>5. ledgerOfRows' = [ledgerOfRows EXCEPT ![c] = [entry |-> e, status |-> "active"]]
  BY <1>1 DEF ledgerOfRows
<1> QED
  BY <1>2, <1>3, <1>4, <1>5 DEF Ledger!Book

LEMMA LeavesCancels ==
  ASSUME IndInv, NEW b \in Creates, Leaves(b)
  PROVE  Ledger!Cancel(b)
<1>1. /\ Committed(b) /\ Committed(b)' /\ status'[b] = "cancelled" /\ body' = body
      /\ \A d \in Creates \ {b} : status'[d] = status[d] /\ (Committed(d)' <=> Committed(d))
  BY DEF Leaves, Committed, IndInv, TypeOK
<1>2. ledgerOfRows[b] = [entry |-> body[b], status |-> "active"] /\ ledgerOfRows[b] # Nobody
  BY <1>1, LedgerOfCommitted DEF Leaves
<1>3. ledgerOfRows' = [ledgerOfRows EXCEPT ![b] = [entry |-> body[b], status |-> "cancelled"]]
  BY <1>1 DEF ledgerOfRows
<1>4. [ledgerOfRows[b] EXCEPT !.status = "cancelled"] = [entry |-> body[b], status |-> "cancelled"]
  BY <1>2
<1>5. ledgerOfRows' = [ledgerOfRows EXCEPT ![b].status = "cancelled"]
  BY <1>3, <1>4
<1> QED
  BY <1>2, <1>5 DEF Ledger!Cancel, Ledger!Holds

LEMMA StepImplements ==
  ASSUME IndInv, IndInv', [Next]_vars
  PROVE  [Ledger!Next]_ledgerOfRows
<1>1. CASE BookingsKept
  BY <1>1, KeepsLedger
<1>2. ASSUME NEW c \in Creates, Enters(c) PROVE Ledger!Next
  BY <1>2, EntersBooks DEF Ledger!Next
<1>3. ASSUME NEW c \in Creates, Leaves(c) PROVE Ledger!Next
  BY <1>3, LeavesCancels DEF Ledger!Next
<1> QED
  BY <1>1, <1>2, <1>3, StepOnBookings

\* The concurrent requests, with their pre-checks, waits, deadlocks and failures, implement the
\* ledger: to an observer of the committed rows, bookings are made whole and one at a time.
THEOREM Implements == Spec => ImplementsLedger
  BY InitImplements, StepImplements, Invariance, PTL DEF Spec, ImplementsLedger, Ledger!Spec

(***************************************************************************)
(* What the requests are told.                                             *)
(***************************************************************************)

\* somebody else made a booking that overlaps what c asks for
Defeated(c) ==
  /\ body[c].start < body[c].end
  /\ \E d \in Creates \ {c} : Committed(d) /\ Overlaps(body[d], body[c])

AnswersLast == \A r \in Requests : answer[r] # 0 => pc[r] = "done"

ConflictsAreReal ==
  \A c \in Creates : pc[c] = "conflicts" \/ answer[c] = 409 => Defeated(c)

SuccessIsCancelled ==
  \A x \in Cancels :
    answer[x] = 200 => wish[x] \in Wishes /\ status[wish[x].id] = "cancelled"

AnswerInv ==
  AnswersLast /\ AnswerTellsTruth /\ ConflictsAreReal /\ SuccessIsCancelled /\ CancelledOnce

\* A request that has arrived keeps its body, its wish and its now, and one that is done stays done.
LEMMA RequestStays ==
  ASSUME TypeOK, [Next]_vars
  PROVE  /\ \A c \in Creates : pc[c] # "idle" => body'[c] = body[c]
         /\ \A x \in Cancels : pc[x] # "idle" => wish'[x] = wish[x]
         /\ \A r \in Requests : pc[r] = "done" => pc'[r] = "done" /\ answer'[r] = answer[r]
<1> USE RequestsAssumption DEF TypeOK, Requests
<1>1. ASSUME NEW c \in Creates, ReceiveCreate(c)
      PROVE  /\ \A d \in Creates : pc[d] # "idle" => body'[d] = body[d]
             /\ wish' = wish
             /\ \A r \in Requests : pc[r] = "done" => pc'[r] = "done" /\ answer'[r] = answer[r]
  BY <1>1 DEF ReceiveCreate, Goto
<1>2. ASSUME NEW c \in Creates, ServeCreate(c)
      PROVE  /\ UNCHANGED <<body, wish>>
             /\ \A r \in Requests : pc[r] = "done" => pc'[r] = "done" /\ answer'[r] = answer[r]
  BY <1>2
  DEF ServeCreate, GetRoom, CheckConflicts, Insert, ExclusionViolation, WaitForRival,
      ExclusionClear, DeadlockAbort, CommitCreate, Refresh, ReadConflicts, Unblocked, Goto, Reply
<1>3. ASSUME NEW x \in Cancels, ReceiveCancel(x)
      PROVE  /\ body' = body
             /\ \A y \in Cancels : pc[y] # "idle" => wish'[y] = wish[y]
             /\ \A r \in Requests : pc[r] = "done" => pc'[r] = "done" /\ answer'[r] = answer[r]
  BY <1>3 DEF ReceiveCancel, Goto
<1>4. ASSUME NEW x \in Cancels, ServeCancel(x) \/ CommitUnheard(x)
      PROVE  /\ UNCHANGED <<body, wish>>
             /\ \A r \in Requests : pc[r] = "done" => pc'[r] = "done" /\ answer'[r] = answer[r]
  BY <1>4 DEF ServeCancel, LockRow, FlushCancel, CommitCancel, CommitUnheard, Goto, Reply
<1>5. ASSUME NEW r \in Requests, Fail(r)
      PROVE  /\ UNCHANGED <<body, wish>>
             /\ \A q \in Requests : pc[q] = "done" => pc'[q] = "done" /\ answer'[q] = answer[q]
  BY <1>5 DEF Fail, Goto, Reply
<1>6. CASE (\E m \in Rooms : SwitchRoom(m)) \/ Tick \/ UNCHANGED vars
  BY <1>6 DEF SwitchRoom, Tick, vars
<1> QED
  BY <1>1, <1>2, <1>3, <1>4, <1>5, <1>6 DEF Next

\* A defeat lasts: the winner's booking may be cancelled but is never taken back.
LEMMA DefeatLasts ==
  ASSUME IndInv, [Next]_vars, NEW c \in Creates, pc[c] # "idle", Defeated(c)
  PROVE  Defeated(c)'
<1>1. PICK d \in Creates \ {c} : Committed(d) /\ Overlaps(body[d], body[c])
  BY DEF Defeated
<1>2. body'[c] = body[c]
  BY RequestStays DEF IndInv
<1>3. pc[d] # "idle"
  BY <1>1 DEF IndInv, RowFollowsRequest, Committed
<1>4. body'[d] = body[d]
  BY <1>3, RequestStays DEF IndInv
<1>5. Committed(d)'
  BY <1>1, StepOnBookings DEF BookingsKept, Enters, Leaves, Committed, IndInv, TypeOK
<1> QED
  BY <1>1, <1>2, <1>4, <1>5 DEF Defeated

\* Whoever is sent to read the conflicts has just met one.
LEMMA ConflictDefeats ==
  ASSUME IndInv, NEW c \in Creates, Acceptable(c), Conflicts(c) # {}
  PROVE  Defeated(c)
  BY DEF Conflicts, Rivals, Defeated, Committed, Acceptable, ValidTimes

LEMMA NextAnswersLast ==
  ASSUME IndInv, AnswersLast, [Next]_vars
  PROVE  AnswersLast'
<1> USE RequestsAssumption DEF IndInv, TypeOK, Requests, AnswersLast
<1>1. ASSUME NEW c \in Creates, ReceiveCreate(c) \/ ServeCreate(c) PROVE AnswersLast'
  BY <1>1
  DEF ReceiveCreate, ServeCreate, GetRoom, CheckConflicts, Insert, ExclusionViolation,
      WaitForRival, ExclusionClear, DeadlockAbort, CommitCreate, Refresh, ReadConflicts,
      Unblocked, Goto, Reply
<1>2. ASSUME NEW x \in Cancels, ReceiveCancel(x) \/ ServeCancel(x) \/ CommitUnheard(x)
      PROVE  AnswersLast'
  BY <1>2
  DEF ReceiveCancel, ServeCancel, LockRow, FlushCancel, CommitCancel, CommitUnheard, Goto, Reply
<1>3. ASSUME NEW r \in Requests, Fail(r) PROVE AnswersLast'
  BY <1>3 DEF Fail, Goto, Reply
<1>4. CASE (\E m \in Rooms : SwitchRoom(m)) \/ Tick \/ UNCHANGED vars
  BY <1>4 DEF SwitchRoom, Tick, vars
<1> QED
  BY <1>1, <1>2, <1>3, <1>4 DEF Next

\* How a create request comes by its answer, and what its row is then.
LEMMA NewAnswer ==
  ASSUME IndInv, AnswersLast, [Next]_vars, NEW c \in Creates, answer'[c] # answer[c]
  PROVE  /\ answer[c] = 0
         /\ \/ answer'[c] = 201 /\ Committed(c)'
            \/ answer'[c] \in {404, 409, 422} /\ status'[c] = "absent"
            \/ answer'[c] = 500 /\ status'[c] = "absent"
            \/ answer'[c] = 500 /\ c \in Fragile
         /\ answer'[c] = 409 => pc[c] = "conflicts"
<1> USE RequestsAssumption DEF IndInv, TypeOK, Requests, RowFollowsRequest, Committed
<1>0. answer[c] = 0
  BY RequestStays DEF AnswersLast
<1>1. ASSUME NEW d \in Creates, ReceiveCreate(d) \/ ServeCreate(d) PROVE d = c /\ ServeCreate(c)
  BY <1>1
  DEF ReceiveCreate, ServeCreate, GetRoom, CheckConflicts, Insert, ExclusionViolation,
      WaitForRival, ExclusionClear, DeadlockAbort, CommitCreate, Refresh, ReadConflicts, Goto, Reply
<1>2. CASE ServeCreate(c)
  <2>1. CASE GetRoom(c)
    BY <1>0, <2>1 DEF GetRoom, Reply, Goto, db
  <2>2. CASE DeadlockAbort(c)
    BY <1>0, <2>2 DEF DeadlockAbort, Reply, Goto
  <2>3. CASE Refresh(c)
    BY <1>0, <2>3 DEF Refresh, Reply, Goto, db
  <2>4. CASE ReadConflicts(c)
    BY <1>0, <2>4 DEF ReadConflicts, Reply, Goto, db
  <2> QED
    BY <1>2, <2>1, <2>2, <2>3, <2>4
    DEF ServeCreate, CheckConflicts, Insert, ExclusionViolation, WaitForRival, ExclusionClear,
        CommitCreate
<1>3. ASSUME NEW x \in Cancels, ReceiveCancel(x) \/ ServeCancel(x) \/ CommitUnheard(x)
      PROVE  FALSE
  BY <1>3
  DEF ReceiveCancel, ServeCancel, LockRow, FlushCancel, CommitCancel, CommitUnheard, Goto, Reply
<1>4. ASSUME NEW r \in Requests, Fail(r) PROVE c \in Fragile /\ answer'[c] = 500
  BY <1>4 DEF Fail, Goto, Reply
<1>5. CASE (\E m \in Rooms : SwitchRoom(m)) \/ Tick \/ UNCHANGED vars
  BY <1>5 DEF SwitchRoom, Tick, vars
<1> QED
  BY <1>0, <1>1, <1>2, <1>3, <1>4, <1>5 DEF Next

LEMMA NewConflict ==
  ASSUME IndInv, [Next]_vars, NEW c \in Creates, pc[c] # "conflicts", pc'[c] = "conflicts"
  PROVE  pc[c] \in {"check", "exclude"} /\ Conflicts(c) # {}
<1> USE RequestsAssumption DEF IndInv, TypeOK, Requests
<1>1. ASSUME NEW d \in Creates, ReceiveCreate(d) \/ ServeCreate(d)
      PROVE  CheckConflicts(c) \/ ExclusionViolation(c)
  BY <1>1
  DEF ReceiveCreate, ServeCreate, GetRoom, CheckConflicts, Insert, ExclusionViolation,
      WaitForRival, ExclusionClear, DeadlockAbort, CommitCreate, Refresh, ReadConflicts, Goto, Reply
<1>2. CASE CheckConflicts(c)
  BY <1>2 DEF CheckConflicts, Goto
<1>3. CASE ExclusionViolation(c)
  BY <1>3 DEF ExclusionViolation, Unblocked
<1>4. ASSUME NEW x \in Cancels, ReceiveCancel(x) \/ ServeCancel(x) \/ CommitUnheard(x)
      PROVE  FALSE
  BY <1>4
  DEF ReceiveCancel, ServeCancel, LockRow, FlushCancel, CommitCancel, CommitUnheard, Goto, Reply
<1>5. ASSUME NEW r \in Requests, Fail(r) PROVE FALSE
  BY <1>5 DEF Fail, Goto, Reply
<1>6. CASE (\E m \in Rooms : SwitchRoom(m)) \/ Tick \/ UNCHANGED vars
  BY <1>6 DEF SwitchRoom, Tick, vars
<1> QED
  BY <1>1, <1>2, <1>3, <1>4, <1>5, <1>6 DEF Next

LEMMA NextConflictsAreReal ==
  ASSUME IndInv, AnswersLast, ConflictsAreReal, [Next]_vars
  PROVE  ConflictsAreReal'
<1> SUFFICES ASSUME NEW c \in Creates, pc'[c] = "conflicts" \/ answer'[c] = 409
             PROVE  Defeated(c)'
  BY DEF ConflictsAreReal
<1>1. CASE pc[c] = "conflicts" \/ answer[c] = 409
  <2>1. pc[c] # "idle"
    BY <1>1 DEF AnswersLast, Requests
  <2> QED
    BY <1>1, <2>1, DefeatLasts DEF ConflictsAreReal
<1>2. CASE pc[c] # "conflicts" /\ pc'[c] = "conflicts"
  <2>1. pc[c] \in {"check", "exclude"} /\ Conflicts(c) # {}
    BY <1>2, NewConflict
  <2>2. Acceptable(c)
    BY <2>1 DEF IndInv, PastRules
  <2> QED
    BY <2>1, <2>2, ConflictDefeats, DefeatLasts
<1>3. CASE answer[c] # 409 /\ answer'[c] = 409
  BY <1>1, <1>3, NewAnswer
<1> QED
  BY <1>1, <1>2, <1>3

LEMMA NextAnswerTellsTruth ==
  ASSUME IndInv, IndInv', AnswersLast, AnswerTellsTruth, [Next]_vars
  PROVE  AnswerTellsTruth'
<1> SUFFICES ASSUME NEW c \in Creates
             PROVE  /\ answer'[c] = 201 => Committed(c)'
                    /\ answer'[c] \in {403, 404, 409, 422} => status'[c] = "absent"
                    /\ answer'[c] = 500 /\ c \notin Fragile => status'[c] = "absent"
  BY DEF AnswerTellsTruth
<1>1. CASE answer'[c] # answer[c]
  BY <1>1, NewAnswer
<1>2. CASE answer'[c] = answer[c] /\ answer[c] # 0
  <2>1. pc'[c] = "done"
    BY <1>2, RequestStays DEF AnswersLast, IndInv, Requests
  <2>2. status'[c] # "pending"
    BY <2>1 DEF IndInv, RowFollowsRequest
  <2>3. Committed(c) => Committed(c)'
    BY StepOnBookings DEF BookingsKept, Enters, Leaves, Committed, IndInv, TypeOK
  <2>4. status[c] = "absent" => status'[c] = "absent"
    <3>1. CASE BookingsKept
      BY <2>2, <3>1 DEF BookingsKept, Committed, IndInv, TypeOK
    <3>2. ASSUME NEW d \in Creates, Enters(d) \/ Leaves(d)
          PROVE  status[c] = "absent" => status'[c] = "absent"
      BY <3>2 DEF Enters, Leaves, IndInv, TypeOK
    <3> QED
      BY <3>1, <3>2, StepOnBookings
  <2> QED
    BY <1>2, <2>3, <2>4 DEF AnswerTellsTruth
<1> QED
  BY <1>1, <1>2

\* How a cancellation comes by its success.
LEMMA NewSuccess ==
  ASSUME IndInv, [Next]_vars, NEW x \in Cancels, answer[x] # 200, answer'[x] = 200
  PROVE  /\ wish[x] \in Wishes /\ wish' = wish
         /\ status[wish[x].id] = "active" /\ status'[wish[x].id] = "cancelled"
         /\ \A y \in Cancels \ {x} : answer'[y] = answer[y]
<1> USE RequestsAssumption DEF IndInv, TypeOK, Requests
<1>1. ASSUME NEW c \in Creates, ReceiveCreate(c) \/ ServeCreate(c) PROVE FALSE
  BY <1>1
  DEF ReceiveCreate, ServeCreate, GetRoom, CheckConflicts, Insert, ExclusionViolation,
      WaitForRival, ExclusionClear, DeadlockAbort, CommitCreate, Refresh, ReadConflicts, Goto, Reply
<1>2. ASSUME NEW y \in Cancels, ReceiveCancel(y) \/ ServeCancel(y) \/ CommitUnheard(y)
      PROVE  CommitCancel(x)
  BY <1>2
  DEF ReceiveCancel, ServeCancel, LockRow, FlushCancel, CommitCancel, CommitUnheard, Goto, Reply
<1>3. CASE CommitCancel(x)
  <2>1. wish[x] \in Wishes /\ status[wish[x].id] = "active"
    BY <1>3 DEF CommitCancel, RequestsGiven, LockProtects
  <2> QED
    BY <1>3, <2>1 DEF CommitCancel, SettleCancel, Reply, Goto, Wishes
<1>4. ASSUME NEW r \in Requests, Fail(r) PROVE FALSE
  BY <1>4 DEF Fail, Goto, Reply
<1>5. CASE (\E m \in Rooms : SwitchRoom(m)) \/ Tick \/ UNCHANGED vars
  BY <1>5 DEF SwitchRoom, Tick, vars
<1> QED
  BY <1>1, <1>2, <1>3, <1>4, <1>5 DEF Next

LEMMA NextSuccessIsCancelled ==
  ASSUME IndInv, AnswersLast, SuccessIsCancelled, [Next]_vars
  PROVE  SuccessIsCancelled'
<1> SUFFICES ASSUME NEW x \in Cancels, answer'[x] = 200
             PROVE  wish'[x] \in Wishes /\ status'[wish'[x].id] = "cancelled"
  BY DEF SuccessIsCancelled
<1>1. CASE answer[x] # 200
  BY <1>1, NewSuccess
<1>2. CASE answer[x] = 200
  <2>1. wish[x] \in Wishes /\ status[wish[x].id] = "cancelled"
    BY <1>2 DEF SuccessIsCancelled
  <2>2. wish'[x] = wish[x]
    BY <1>2, RequestStays DEF AnswersLast, IndInv, Requests
  <2>3. status'[wish[x].id] = "cancelled"
    BY <2>1, StepOnBookings
    DEF BookingsKept, Enters, Leaves, Committed, Wishes, IndInv, TypeOK
  <2> QED
    BY <2>1, <2>2, <2>3
<1> QED
  BY <1>1, <1>2

LEMMA NextCancelledOnce ==
  ASSUME IndInv, AnswersLast, SuccessIsCancelled, CancelledOnce, [Next]_vars
  PROVE  CancelledOnce'
<1> SUFFICES ASSUME NEW x \in Cancels, NEW y \in Cancels, answer'[x] = 200, answer'[y] = 200,
                    wish'[x].id = wish'[y].id
             PROVE  x = y
  BY DEF CancelledOnce
<1>1. ASSUME NEW u \in Cancels, NEW v \in Cancels, u # v, answer[u] # 200, answer'[u] = 200,
             answer'[v] = 200, wish'[u].id = wish'[v].id
      PROVE  FALSE
  <2>1. wish' = wish /\ answer[v] = 200 /\ status[wish[u].id] = "active"
    BY <1>1, NewSuccess
  <2> QED
    BY <1>1, <2>1 DEF SuccessIsCancelled
<1>2. CASE answer[x] = 200 /\ answer[y] = 200
  BY <1>2, RequestStays DEF CancelledOnce, AnswersLast, IndInv, Requests
<1> QED
  BY <1>1, <1>2

\* The answers given are true in every reachable state.
THEOREM AnswerInvariance == Spec => []AnswerInv
<1>1. Init => AnswerInv
  BY RequestsAssumption
  DEF Init, AnswerInv, AnswersLast, AnswerTellsTruth, ConflictsAreReal, SuccessIsCancelled,
      CancelledOnce, Requests
<1>2. IndInv /\ IndInv' /\ AnswerInv /\ [Next]_vars => AnswerInv'
  BY NextAnswersLast, NextAnswerTellsTruth, NextConflictsAreReal, NextSuccessIsCancelled,
     NextCancelledOnce
  DEF AnswerInv
<1> QED
  BY <1>1, <1>2, Invariance, PTL DEF Spec

\* An answer tells what became of the booking: 201 only for a committed row, a refusal or a
\* deadlock's 500 only when the request left nothing behind.
THEOREM AnswersAreTrue == Spec => []AnswerTellsTruth
  BY AnswerInvariance, PTL DEF AnswerInv

\* Overlapping bookings of which the first is not empty share a minute.
LEMMA OverlapMeansCommonMinute ==
  ASSUME NEW a \in Inputs, NEW b \in Inputs, Overlaps(a, b), a.start < a.end, b.start < b.end
  PROVE  a.room = b.room /\ Minutes(a) \cap Minutes(b) # {}
<1>1. a.start \in Int /\ a.end \in Int /\ b.start \in Int /\ b.end \in Int
  BY InputsAssumption
<1>2. CASE a.start <= b.start
  BY <1>1, <1>2, b.start \in Minutes(a) /\ b.start \in Minutes(b) DEF Overlaps, Minutes
<1>3. CASE b.start < a.start
  BY <1>1, <1>3, a.start \in Minutes(a) /\ a.start \in Minutes(b) DEF Overlaps, Minutes
<1> QED
  BY <1>1, <1>2, <1>3 DEF Overlaps

LEMMA AnswerInvLoser == IndInv /\ AnswerInv => LoserHasWinner
<1> SUFFICES ASSUME IndInv, AnswerInv, NEW c \in Creates, answer[c] = 409
             PROVE  \E d \in Creates \ {c} :
                      /\ Committed(d)
                      /\ body[d].room = body[c].room
                      /\ Minutes(body[d]) \cap Minutes(body[c]) # {}
  BY DEF LoserHasWinner
<1>1. Defeated(c) /\ pc[c] # "idle"
  BY DEF AnswerInv, ConflictsAreReal, AnswersLast, Requests
<1>2. PICK d \in Creates \ {c} : Committed(d) /\ Overlaps(body[d], body[c])
  BY <1>1 DEF Defeated
<1>3. body[c] \in Inputs /\ body[d] \in Inputs
  BY <1>1, <1>2 DEF IndInv, RequestsGiven, RowFollowsRequest, Committed
<1>4. body[d].start < body[d].end /\ body[c].start < body[c].end
  BY <1>1, <1>2 DEF IndInv, PastRules, Acceptable, ValidTimes, Committed, Defeated
<1> QED
  BY <1>2, <1>3, <1>4, OverlapMeansCommonMinute

\* Nobody is refused for nothing: whoever gets a 409 lost to a booking that was really made.
THEOREM LosersHaveWinners == Spec => []LoserHasWinner
  BY AnswerInvLoser, Invariance, AnswerInvariance, PTL

\* At most one request is told that it cancelled a booking.
THEOREM CancelledOnceHolds == Spec => []CancelledOnce
  BY AnswerInvariance, PTL DEF AnswerInv

\* Only the second reading of the conflicts answers 409, and nothing else names them.
LEMMA NewRefusal ==
  ASSUME IndInv, [Next]_vars, NEW c \in Creates,
         (answer[c] # 409 /\ answer'[c] = 409) \/ named'[c] # named[c]
  PROVE  ReadConflicts(c)
<1> USE RequestsAssumption DEF IndInv, TypeOK, Requests
<1>1. ASSUME NEW d \in Creates, ReceiveCreate(d) \/ ServeCreate(d) PROVE ReadConflicts(c)
  BY <1>1
  DEF ReceiveCreate, ServeCreate, GetRoom, CheckConflicts, Insert, ExclusionViolation,
      WaitForRival, ExclusionClear, DeadlockAbort, CommitCreate, Refresh, ReadConflicts, Goto, Reply
<1>2. ASSUME NEW x \in Cancels, ReceiveCancel(x) \/ ServeCancel(x) \/ CommitUnheard(x)
      PROVE  FALSE
  BY <1>2
  DEF ReceiveCancel, ServeCancel, LockRow, FlushCancel, CommitCancel, CommitUnheard, Goto, Reply
<1>3. ASSUME NEW r \in Requests, Fail(r) PROVE FALSE
  BY <1>3 DEF Fail, Goto, Reply
<1>4. CASE (\E m \in Rooms : SwitchRoom(m)) \/ Tick \/ UNCHANGED vars
  BY <1>4 DEF SwitchRoom, Tick, vars
<1> QED
  BY <1>1, <1>2, <1>3, <1>4 DEF Next

LEMMA NextUnnamedIsCancelled ==
  ASSUME IndInv, AnswerInv, UnnamedIsCancelled, [Next]_vars
  PROVE  UnnamedIsCancelled'
<1> SUFFICES ASSUME NEW c \in Creates, answer'[c] = 409, named'[c] = {}
             PROVE  \E d \in Creates \ {c} :
                      status'[d] = "cancelled" /\ Overlaps(body'[d], body'[c])
  BY DEF UnnamedIsCancelled, Overlaps
<1>1. CASE ReadConflicts(c)
  <2>1. /\ pc[c] = "conflicts" /\ Conflicts(c) = {}
        /\ status' = status /\ body' = body
    BY <1>1 DEF ReadConflicts, db, IndInv, TypeOK
  <2>2. PICK d \in Creates \ {c} : Committed(d) /\ Overlaps(body[d], body[c])
    BY <2>1 DEF AnswerInv, ConflictsAreReal, Defeated
  <2>3. status[d] # "active"
    BY <2>1, <2>2 DEF Conflicts, Rivals
  <2> QED
    BY <2>1, <2>2, <2>3 DEF Committed
<1>2. CASE answer[c] = 409 /\ named[c] = {}
  <2>1. PICK d \in Creates \ {c} : status[d] = "cancelled" /\ Overlaps(body[d], body[c])
    BY <1>2 DEF UnnamedIsCancelled
  <2>2. pc[c] # "idle" /\ pc[d] # "idle"
    BY <1>2, <2>1 DEF AnswerInv, AnswersLast, IndInv, RowFollowsRequest, Requests
  <2>3. body'[c] = body[c] /\ body'[d] = body[d]
    BY <2>2, RequestStays DEF IndInv
  <2>4. status'[d] = "cancelled"
    BY <2>1, StepOnBookings DEF BookingsKept, Enters, Leaves, Committed, IndInv, TypeOK
  <2> QED
    BY <2>1, <2>3, <2>4
<1> QED
  BY <1>1, <1>2, NewRefusal

\* A 409 that names nobody is no mistake: what stood in the way was cancelled before it was read
\* again, so as long as nothing is cancelled a 409 says who holds the room.
THEOREM UnnamedIsCancelledHolds == Spec => []UnnamedIsCancelled
<1>1. Init => UnnamedIsCancelled
  BY DEF Init, UnnamedIsCancelled, Requests
<1> QED
  BY <1>1, NextUnnamedIsCancelled, Invariance, AnswerInvariance, PTL DEF Spec

(***************************************************************************)
(* A room that is off.                                                     *)
(***************************************************************************)

\* c has not passed get_room, and if it has an answer it has no row
NotAdmitted(c) == pc[c] \in {"room", "done"} /\ status[c] = "absent"

LEMMA OffKeepsOut ==
  ASSUME IndInv, [Next]_vars, NEW c \in Creates, NotAdmitted(c), AskedRoomIsOff(c)
  PROVE  NotAdmitted(c)'
<1> USE RequestsAssumption DEF IndInv, TypeOK, Requests, NotAdmitted
<1>1. ASSUME NEW d \in Creates, ReceiveCreate(d) \/ ServeCreate(d) PROVE NotAdmitted(c)'
  <2>1. CASE d # c
    BY <1>1, <2>1
    DEF ReceiveCreate, ServeCreate, GetRoom, CheckConflicts, Insert, ExclusionViolation,
        WaitForRival, ExclusionClear, DeadlockAbort, CommitCreate, Refresh, ReadConflicts,
        Unblocked, Goto, Reply, db
  <2>2. CASE d = c
    BY <1>1, <2>2
    DEF ReceiveCreate, ServeCreate, GetRoom, CheckConflicts, Insert, ExclusionViolation,
        WaitForRival, ExclusionClear, DeadlockAbort, CommitCreate, Refresh, ReadConflicts,
        Unblocked, Goto, Reply, db, AskedRoomIsOff
  <2> QED
    BY <2>1, <2>2
<1>2. ASSUME NEW x \in Cancels, ReceiveCancel(x) \/ ServeCancel(x) \/ CommitUnheard(x)
      PROVE  NotAdmitted(c)'
  <2>1. pc'[c] = pc[c]
    BY <1>2
    DEF ReceiveCancel, ServeCancel, LockRow, FlushCancel, CommitCancel, CommitUnheard, Goto, Reply
  <2>2. status'[c] = status[c]
    BY <1>2
    DEF ReceiveCancel, ServeCancel, LockRow, FlushCancel, CommitCancel, CommitUnheard,
        SettleCancel, LockProtects, db
  <2> QED
    BY <2>1, <2>2
<1>3. ASSUME NEW r \in Requests, Fail(r) PROVE NotAdmitted(c)'
  BY <1>3 DEF Fail, Goto, Reply
<1>4. CASE (\E m \in Rooms : SwitchRoom(m)) \/ Tick \/ UNCHANGED vars
  BY <1>4 DEF SwitchRoom, Tick, vars, db
<1> QED
  BY <1>1, <1>2, <1>3, <1>4 DEF Next

\* A room that is off when it is asked for and stays off is not booked by that request.
THEOREM ClosedRoomStaysFreeHolds == Spec => ClosedRoomStaysFree
<1>1. ASSUME NEW c \in Creates
      PROVE  Spec => [](pc[c] = "room" /\ []AskedRoomIsOff(c) => []~Committed(c))
  <2>1. IndInv /\ pc[c] = "room" => NotAdmitted(c)
    BY DEF IndInv, RowFollowsRequest, NotAdmitted
  <2>2. IndInv /\ [Next]_vars /\ NotAdmitted(c) /\ AskedRoomIsOff(c) => NotAdmitted(c)'
    BY OffKeepsOut
  <2>3. NotAdmitted(c) => ~Committed(c)
    BY DEF NotAdmitted, Committed
  <2> QED
    BY <2>1, <2>2, <2>3, Invariance, PTL DEF Spec
<1> QED
  BY <1>1 DEF ClosedRoomStaysFree
=============================================================================
