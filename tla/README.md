# AiSpace in TLA+

AiSpace books the meeting rooms of one office.  A FastAPI process (one uvicorn worker, one asyncio
loop) serves a JSON API and HTMX pages over PostgreSQL; a phrase such as "the small room tomorrow at
eleven" is turned into a draft by an LLM.  The promise the whole system exists for is in
`app/models.py`: two active bookings of one room never overlap.  This directory models the parts of
the program that keep that promise and the promises made around it, checks the models with TLC on
small instances, and proves the main results with TLAPS for every size.

Source paths below are relative to `src/`.

## Inventory

| Component | State | Operations | Hard behaviour |
|---|---|---|---|
| Booking commands (`app/services/bookings.py`, migration 0001) | rows of `bookings`, row locks, open transactions | `create_booking`, `cancel_booking` | every await is a point where other requests run; the exclusion constraint waits, refuses or deadlocks; connections die; a COMMIT may be applied and not acknowledged |
| Time rules (`validate_times`, `app/timeutils.py`) | none | the rules of a booking | boundaries: running slot, office zone, end of day, horizon |
| Alternatives of a 409 (`free_slots_same_day`, `free_rooms`, `alternatives_for`) | none of its own: it reads bookings and rooms twice | what to offer a refused client | a greedy choice over a sorted list; reads that are stale when the client acts on them |
| Rate limiter (`app/ratelimit.py`) | a deque of times per key, in memory | `check` | the edge of the window, rounding of `Retry-After`, restart |
| Rooms (`app/services/rooms.py`) | rows of `rooms` | create, update, list | unique names under a race; a form that writes stale fields; rooms switched off or resized under a request that has loaded them |
| Phrases (`app/services/nl_booking.py`, `app/llm/`) | a draft held by the client | `draft_from_text`, `complete_json` | a slow external call between reading the rooms and judging the draft; retries; the connection held meanwhile |
| Accounts and sessions (`app/services/auth.py`, `app/deps.py`) | rows of `users`, `auth_sessions` | register, log in, log out, authenticate | registration race; expiry and cleanup against other logins |
| Timeline (`app/web/timeline.py`, the schedule and the form of `app/web/routes.py`) | none | day view, week view, which cells are links, what a form is filled in with | half-hour cells over quarter-hour slots; times compared as text |
| Startup (`app/seed.py`, `docker/entrypoint.sh`) | administrator, demo rooms | `seed` | runs at every start, also after one that died |
| Sessions of the database (`app/db.py`, `app/deps.py`) | the connection pool | one session for each request | who keeps a connection, and for how long; a commit gives it back |
| Shell (`app/main.py`, `app/errors.py`, `app/web/routes.py`, templates) | none | routing, errors to statuses | - |
| Calendar export (`app/services/ics.py`) | none | one formatter | folding by octets |

The components meet in the database: a booking command reads a room that the rooms administration
changes, reads and writes rows that other booking commands change, and hands its `now` to the time
rules and the alternatives.  The rate limiter stands in front of logins and phrases.  A draft ends
in a `POST /bookings` like any other.  All of them share one pool of connections.  There are no
callbacks and no queues: concurrency is requests on one event loop and transactions in one database
at READ COMMITTED.

What makes each component correct:

* booking commands: no double booking; the answer tells what happened to the row; of racing
  requests one wins; a cancellation happens once; history is not rewritten; everything ends;
* time rules: nothing that is over is booked, everything accepted is on the grid, in the day;
* alternatives: the slots offered are free, distinct, keep the rules, and are the nearest; the rooms
  are free and the best;
* rate limiter: no window holds more than the limit; `Retry-After` is honest;
* phrases: a draft called ready can be posted; a phrase costs a bounded number of calls; a slow LLM
  does not stop the rest;
* accounts: one account per address; a session works until it expires or is closed, not longer;
* rooms: names are distinct; a form overwrites no more than it names; the demo rooms come whole;
* timeline: every booking is shown on its day, every start that can be booked is a link, and a link
  leads to a form that can be sent;
* pool: no end of a request leaves a connection behind, and whoever needs no LLM waits for the pool
  only.

## Plan

In order of importance; all but the last are done.

1. `TimeRules`, `BookingLedger` (abstract) and `Bookings` (detailed), with `BookingsProofs`.
2. `Office`, what one request sees of rooms and bookings, and `Alternatives` on top of it.
3. `RateLimiter` with `RateLimiterProofs`.
4. `Drafts` on top of `Office`: the retry loop of `llm/client.py`, the draft and what makes it stale.
5. `SessionBook` (abstract) and `Accounts` (detailed): registration race, login, cleanup, logout.
6. `Rooms`: unique names, full-form updates, the seed and a container that dies.
7. `Timeline` on top of `Office`: the views, the links and the form, checked along `Alternatives`.
8. `Pool`: who keeps a database connection while time passes, with `PoolProofs`.
9. The proofs of `Accounts`, `Rooms`, `Drafts`, `Alternatives` and `Timeline`.  Every invariant and
   every action property that a run checks, and both refinements, are now proved.
10. To come: the safety facts that the liveness arguments of `Bookings`, `Accounts`, `Rooms` and
   `Drafts` rest on (each step brings its request nearer to its answer, and someone can always move).

```
TimeRules --- Office --- Alternatives --\ --- AlternativesProofs
    |            |------ Timeline ------/      (a run, and theorems, of both)
    |            \------ Drafts --- DraftsProofs
    |
    |                BookingLedger --- BookingLedgerProofs
    |                      |   (implemented by)
    \------------------ Bookings --- BookingsProofs

SessionBook --- (implemented by) Accounts --- AccountsProofs
RateLimiter --- RateLimiterProofs
Rooms --- RoomsProofs
Pool --- PoolProofs
```

## Modules

### TimeRules

`validate_times` and the helpers of `timeutils.py` as predicates on integers.  An instant is a whole
number of minutes.  This loses nothing: starts and ends with seconds are refused outright,
`floor_to_slot` drops the seconds of the current time, and for an integer `s`, `s <= now + Horizon`
has the same truth value for `now` and for the minute `now` lies in.  Local time is UTC plus a
constant, as it is in Asia/Almaty; a zone with daylight saving is outside the model.  The order in
which `validate_times` tests its rules only selects the message of the 422, so `ValidTimes` is their
conjunction.

### BookingLedger

What the booking commands promise: a ledger in which a booking appears only if no active one clashes
with it, and an active booking may be cancelled once.  Two actions, one variable.

### Bookings

Every request is a process with a program counter; each `await` on the database is a step.

| Action | Code |
|---|---|
| `ReceiveCreate`, `GetRoom` | `create_booking` 233-236: take `now`, read the room, apply the rules |
| `CheckConflicts` | 238: the pre-check, a snapshot of committed rows |
| `Insert`, `ExclusionViolation`, `WaitForRival`, `ExclusionClear`, `DeadlockAbort` | 244-253: the flush in the savepoint and the outcomes of the constraint |
| `CommitCreate`, `Refresh` | 254-256 |
| `ReadConflicts` | `_conflict_error` 191-194 |
| `ReceiveCancel`, `LockRow`, `FlushCancel`, `CommitCancel`, `CommitUnheard` | `cancel_booking` 269-285 |
| `Fail` | the process or the connection of a request dies: the server rolls its transaction back |
| `SwitchRoom`, `Tick` | `update_room` changing `is_active`; time |

The exclusion constraint is code of PostgreSQL and is modelled from what `create_booking` relies on.
An insert first writes its row and index entry (`pending`) and only then looks for conflicting rows.
It fails on a committed one, waits for the transaction of one in doubt - another insert, or a
cancellation flushed and not committed - and passes when there is none.  Hence two inserts can find
each other, wait for each other, and be separated by the deadlock detector.  A savepoint that is
undone (`ExclusionViolation`) takes its row with it, which ends the wait of those that waited for it.

A row lock is taken by `SELECT ... FOR UPDATE`, kept until COMMIT or rollback, and a waiter sees the
row as last committed.  The refusals of `cancel_booking` end the transaction and free the lock in the
same step; nothing of the program runs in between.

`answer` and `named` record what the client is told.

### Office

What one request sees while others work: the clock, the rows of `rooms` (open or not, capacity, name)
and the active bookings, with the queries of `bookings.py` that search them (`find_conflicts`,
`free_rooms`) and the steps by which others change them.  Booking and cancelling are one step each:
`Bookings` and its refinement of the ledger justify that.  `UpdateRoom` is `update_room`: it may switch
a room, resize it and rename it.  `Verdict` is what `create_booking` answers when nobody comes between.

A session of SQLAlchemy has one object for a row.  A later SELECT of the same session finds the row by
what the table says, and leaves the object that is already loaded as it was.  `free_rooms` selects by
the table and sorts the objects, so what it returns depends on what the request has loaded before:
`known` is that, `Seen` is what the request sees of a room, `Listing` what it has loaded after a
`list_rooms`.  `Sortings` are the lists a sort by the key of `free_rooms` may leave; names are unique in
the table, but of two rooms that were loaded at different times each may have the name of the other, so
there can be more than one.  Who needs no more than the first of the list asks for it with `IsBest`.

### Alternatives

One refused request is followed from `create_booking` to the client that takes one of the slots of
the 409.  The rest of the world goes on between the reads and after them.  The form of the web lists
the rooms before it books (`routes.py` 362), the API loads only the room that is asked for: `Arrive`
has both, and so the rooms of a 409 are sorted by rows as old as the request or by rows as they are.

| Operator | Code |
|---|---|
| `Candidates` | the loop through the day, `free_slots_same_day` 158-163 |
| `Pick`, `Turn`, `Picked` | the greedy loop 166-171; the sort by distance is a recursion over distances, at each of which the earlier start has its turn first, as in a stable sort of ascending times |
| `FreeSlots` | the whole function; the answer lists the slots in order of time, the model keeps their set |
| `RoomOffers` | `free_rooms` as `alternatives_for` calls it, cut at `MAX_ALTERNATIVES`: a set, for the sort may leave more than one list |

The properties do not repeat the algorithm: they describe the right offer by sets of minutes.

### Timeline

The schedule and the form are computed from the office as one request finds it, so the module has
operators and no actions, and its properties are invariants: `MCAlternatives` extends `Alternatives`
and `Timeline` and takes the office through its states.

| Operator | Code |
|---|---|
| `DayRow`, `WeekRow`, `WeekRoom`, `WeekStart` | the two views of `routes.py` 225-254, `GET /schedule` of `api/rooms.py`, `week_start` |
| `Cells`, `IsLink` | `build_row` 91-107 of `timeline.py` |
| `TimeOptions`, `FilledEnd` | `time_options`, and the end `new_booking` fills in (`routes.py` 341-346) |
| `FromLink` | what `POST /bookings` gets when the form behind a link is sent as it is |

`TimelineAssumption` names the settings under which a link can lead to a booking at all: cells and
working hours on the grid of slots, and a day that ends an hour before midnight.  The hour that
`new_booking` adds is added to a time of day; after 23:00 it would start again at `00:00`.

### RateLimiter

`check` runs without an await, so a call is a step.  Time is counted in ticks, `Second` ticks to a
second, because `Retry-After` truncates to seconds.  Two history variables, `admitted` and `promise`,
record what was let through and what the last refusal promised.

### Drafts

One phrase at a time, again and again, through the office of `Office`.

| Action | Code |
|---|---|
| `Arrive` | `check_rate_limit`, the rules for the text, and `now` (`nl_booking.py` 35-72); the page of the web has listed the rooms before (`routes.py` 408) |
| `ListRooms` | 74: the rooms of the prompt; a missing API key answers 503 |
| `Call`, `Sleep` | one attempt of `complete_json` and the pause before the next |
| `Judge` | 82-136: everything from the answer of the LLM to the next await, three returns included |
| `FindRoom` | 139-156: no room was named; `Company` is `parsed.attendees or 1`, `Found` the rooms `free_rooms` returns, of which `free[0]` is the best by the rows in `known`, loaded before the call |
| `CheckRoom` | 158-167: the named room; its alternatives are the subject of `Alternatives` |
| `Confirm` | the client posts a ready draft as it is |
| `Interfere` | a step of somebody else |

The LLM is outside the program.  A call ends in any of the ways `complete_json` tells apart, and a
parsed answer is any member of `Phrases`, whatever the user said.  `heard` and `news` are history:
how the calls of this phrase ended, and which rooms others changed since it arrived.

`README.md:76-77` promises the smallest free room that seats the company.  The sort goes by rows that
may be as old as the call of the LLM is long, so what holds is `SmallestUnlessResized`: a room that was
made bigger meanwhile may still be taken for the smallest.  Without that exception TLC refutes the
property on the instance of `drafts`.

### SessionBook and Accounts

`SessionBook` says what sessions promise: a token works from its issue until its time has come or
somebody logs out with it, and never again.  `Accounts` is the code: rows of `auth_sessions` that
outlive their sessions until a later login of the same user deletes them, and rows of `users` under a
unique index.

| Action | Code |
|---|---|
| `ReceiveRegister`, `SelectEmail`, `InsertUser`, `CommitUser` | `register_user` 55-74; over the web a registration goes on to log in |
| `ReceiveLogin`, `Authenticate` | the login routes and `authenticate` |
| `Cleanup`, `IssueToken` | `create_session`: the DELETE, then the row and the commit |
| `ReceiveLogout`, `DestroySession`, `CommitLogout` | `destroy_session` 117-119: the DELETE, then the commit |
| `Works` | `user_by_token` |
| `Fail`, `Restart` | a connection dies between two steps; the container starts again and its seed finds the administrator there |

The unique index is code of PostgreSQL: an insert waits for another of the same address that is in
doubt, and is refused when that one stays.  A DELETE is visible when it is committed and keeps its
rows (`doomed`) from other DELETEs until then, be it that of a login or of a logout; one that finds some
of its rows held waits and then takes all of them at once.

### Rooms

An administrator is a process that sends one request: a page of forms that was read long before it is
posted, a `PATCH`, or a `POST`.

| Action | Code |
|---|---|
| `SeedCount`, `SeedCommit` | `seed.py` 69-72: the setting `SEED_DEMO_ROOMS` (`demo`, read anew by each start), the count, and the one commit of all the demo rooms |
| `OpenPage`, `PostForm` | `admin_rooms`, `admin_update_room`: the form posts each of its fields, changed or not |
| `PostPatch`, `PostRoom`, `Malformed` | `PATCH` and `POST` of the API, and `admin_create_room`; a body the schemas refuse |
| `GetRoom` | `update_room` 55-62: the row as loaded decides which columns the UPDATE sets |
| `WriteRow`, `EnterName`, `DeadlockAbort` | the flush in `_unique_name` and its outcomes |
| `Commit` | 48 and 63 |
| `Fail`, `Restart` | a connection dies; the container dies, in its seed too, and is started again |

`_unique_name` catches an `IntegrityError`.  What leads to one is code of PostgreSQL: a row is written
by one transaction at a time, and its new name enters the unique index after that, waiting for every
transaction that may still take or give up that name.  Two rooms that exchange their names wait for
each other and one of them gets a 500.

### Pool

A request takes a connection with the statement that loads its user and gives it back with a commit
or its end.  A request of one transaction (a page, a cancellation, a login) is one of `Visitors`; one of
`Returners` asks the pool again after a commit: `create_booking` refreshes its row, and a registration
over the web commits the account and then opens a session.  `draft_from_text` waits for the LLM with
the connection in hand.

| Action | Code |
|---|---|
| `Arrive`, `Take` | `optional_user`; the first statement after a commit |
| `Exhausted` | the pool gives up after `PoolTimeout` with an error no handler knows: a 500 |
| `Finish`, `CommitFirst` | the rest of the transaction; `create_booking` 254-255, `register_user` 73 |
| `CallGoesOn` | an operation on the network ends in time and the next one of the call begins |
| `CallAnswers`, `CallFails`, `CallEnds` | the ways an attempt of `complete_json` ends |
| `Pause`, `CallAgain` | `asyncio.sleep(0.5 * attempt)`, and the next attempt |
| `Tick` | time passes when nobody has anything else to do |

The pool is SQLAlchemy's default (`db.py` 15 gives no size): 5 connections and 10 more, 30 s to wait.
It is external and serves waiters in any order.  Statements take no time at the scale of a tick, which
stands for some seconds.  httpx counts its timeout for each operation on the network, to connect, to
write and to read a piece of the answer, so nothing bounds the time of a whole call and the model has
no bound on it either: a phrase may keep its connection for as long as it likes.

## Runs

Every run is exhaustive.  An hour has four ticks and a slot two, so the clock can stand inside a
slot; office time is one tick ahead of UTC, so local and UTC boundaries differ.

| Run | Instance | Shows |
|---|---|---|
| `bookings` | 3 creates, 1 cancellation, 2 users (one administrator), 1 room, 3 bodies of which two pairs overlap and one pair touches; the clock moves from the middle of the running slot to the next | `NoOverlap`, `AnswerTellsTruth`, `LoserHasWinner`, `UnnamedIsCancelled`, `NothingOverIsBooked`; refines `BookingLedger` |
| `faults` | 2 creates, 2 cancellations, all of which may fail at any await; a body that breaks a rule | `CancelledOnce`, `HistoryKept`, `IndInv` with `LockProtects` and what implies `NoOverlap`; refines `BookingLedger` |
| `live` | 3 creates for one slot, 1 cancellation, fairness | `EveryRequestAnswered`, `DeadlockHasSurvivor`, `ClosedRoomStaysFree` |
| `alternatives` | 4 rooms (one too small by as much as another is too big; two are closed and opened, one is resized and renamed, one may take the size and name that one had), a day of seven slots, cells of two slots, requests of one and two slots | `OffersKeepRules`, `OffersAreChoices`, `NearestAreOffered`, `BestRoomsAreOffered`; `BookingsAreShown`, `NoBookableStartWithoutLink`, `LinkIsBooking` |
| `limiter` | 2 keys, 2 hits in a window of three ticks, 9 ticks | `WindowBound`, `DequeIsRecentPast`, `RetryHonest` |
| `drafts` | 2 rooms, 13 answers of the LLM (with and without a room, a day, an end, a company; outside the working day; no booking at all), 1 retry, others at work, who may make the smaller room the bigger one | `RefusalIsNews`, `UnreadyHasReason`, `ReadyKeepsRules`, `OnlyFailuresRepeated`, `SmallestUnlessResized`, `EveryPhraseAnswered` |
| `accounts` | 2 registrations, 1 login, 1 logout, three spellings of two addresses of which one is the administrator's, sessions that expire | `OneAccountPerAddress`, `RefusedHasOwner`, `EveryRequestAnswered`; refines `SessionBook` |
| `rooms` | 3 requests of any kind, 2 demo rooms and 1 more, names of which two are one after `strip`, a table that is empty or has a room, each start with and without the demo rooms | `NamesDistinct`, `DemoRoomsWhole`, `OnlyPostedColumns`, `EveryRequestAnswered` |
| `pool` | 2 connections, 3 phrases of 2 attempts, 1 visitor, 1 request that comes back to the pool; 3 ticks to wait for the pool, 2 for an operation of a call, of which a call has any number, 1 for a pause | `OnlySlowPhrasesHoldUp`, `AnsweredInTime` |
| `race`, `horizon`, `slow` | the instances above | the disagreements below |

Why the bounds suffice.  A double booking takes two inserts; a third makes cycles of three waiters,
a waiter that wakes up to another rival, and a loser whose winner lost to somebody else possible.
One room is enough because nothing in the code relates bookings of different rooms.  Two
cancellations are the least that can overwrite each other.  Two clock values are enough for `now` to
be older than the clock, since a request reads the clock once.  Requests that are alike are declared
symmetric in the safety runs; the liveness run uses no symmetry.  In `limiter` three windows fit in
the time, so hits leave the deque one by one and the deque empties more than once.  In `drafts` one
retry is the least that tells a call that is repeated from one that is not, and two clock values let
time pass while the LLM thinks.  In `accounts` a session lives one tick of two, so that a login can
meet a row that is expired and one that is exactly at its end; the wait of one DELETE for another is
met both ways between the login and the logout.  In `rooms` the third request meets what two others
have left: a name given up and taken, a row behind a lock that is rolled back.  A form changes at
most one of its fields, so that a value that comes back is one nobody typed.  In `pool` two
operations of a call, or a call and its retry, outlast the wait for a connection, as 40 s outlast 30
s, and there is a phrase more than there are connections; a request may be followed by another, so
the run does not end.  In `drafts` and `alternatives` a room changes its place in the order of
`free_rooms` by being resized, in `alternatives` by being renamed too, before or after the request
has loaded it.  In `alternatives` the day is Sunday (`Weekday0`), the last of its week, and the next
begins another.

Deadlock checking is off in `accounts` and `rooms` and only there: every request may be done, and the
clock at its bound.

Each module states its types in `TypeOK`.  In `Bookings`, `Pool`, `Accounts` and `Rooms` it is part
of the inductive invariant, in `Alternatives` it is the theorem `TypeCorrect`.  `DraftsProofs` has
the types of the office and says the rest of the draft field by field (`DraftProper`); only that the
list of rooms a draft offers is a sequence stays with TLC there.  The runs spend their time on the
other properties.

### Fairness

`FairSpec` assumes weak fairness of the next step of each request.  asyncio resumes every task whose
await is over, PostgreSQL ends every statement that need not wait, and its deadlock detector looks at
every wait that lasts (`deadlock_timeout`).  Weak fairness of the whole request suffices: a
request waiting for a lock is not assumed to get it before others, only to move when it can.  There is
no fairness of arrivals, failures, the administrator or the clock.  `Rooms` assumes the same of its
requests, and of the seed nothing.  `Drafts` assumes the same of the phrase, and with it that every
call ends: httpx limits each operation on the network, which excludes a server that falls silent, and
that one does not send its answer in pieces for ever is assumed.  How a call ends never is, so a phrase
is answered because the attempts are counted.  `Pool` needs no fairness, and no end of a call either:
`AnsweredInTime` bounds the waits of those who need no LLM by a number of ticks.

## Where the code departs from what is said of it

* `race`: `README.md:195` and the comment of `bookings.py` say the loser of a race gets the same 409.
  When both inserts write their row before either looks for conflicts, PostgreSQL ends the cycle with
  `deadlock_detected`; that is no `IntegrityError`, so the loser gets a 500.  No booking is lost or
  doubled: `DeadlockHasSurvivor` and `NoOverlap` hold.
* `horizon`: `README.md:68-69` and `194` promise the free slots of the room with a 409.  On the day
  the horizon falls on, `free_slots_same_day` offers slots beyond it, which answer 422 when taken at
  once.
* `slow`: `app/errors.py:78` says the rest of the service goes on when the LLM fails, and
  `README.md:145` that a failure of DeepSeek does not break it.  A phrase keeps its connection for as
  long as its calls and the pause between them last, 40 s and more; while as many phrases wait as the
  pool has connections, 15 by default, whoever needs no LLM waits 30 s and gets a 500.
  `OnlySlowPhrasesHoldUp` is what does hold: fewer phrases hold nobody up.

Four narrower gaps are not called disagreements, because what is said can be read either way; the
runs show what holds instead.  The conflicts of a 409 are read again after they were found, so that a
cancellation in between leaves a 409 that names nobody (`UnnamedIsCancelled`).  `is_active` is read
without a lock before the insert, so that a room switched off in between is booked nevertheless
(`ClosedRoomStaysFree`).  `now` and the rooms of a draft are read before the LLM is called, so that a
draft that is `ready` may be refused for what happened meanwhile (`RefusalIsNews`).  The rooms of a
draft are found by the table and sorted by what was loaded before that call, so that a room that was
resized in between may be chosen by its old size (`SmallestUnlessResized`).

## Proofs

Checked by TLAPS for every number of requests, users, rooms and keys and all settings that satisfy
the named assumptions, which TLC evaluates in the runs:

| Assumption | What it asks, and why it may |
|---|---|
| `CalendarAssumption`, `SettingsAssumption` | a day of whole hours, a fixed offset; slots of at least a minute, working hours that are times of a day (`config.py` 36-37) |
| `GridAssumption` | slots divide the hour and the day begins on one: otherwise `free_slots_same_day` walks off the grid of `validate_times` |
| `TimelineAssumption` | cells and closing time on the grid too, a day that ends an hour before midnight, a slot and an hour among the lengths allowed: otherwise no link can lead to a booking |
| `RoomsAssumption` of `Office`, `OthersAssumption`, `AlternativesAssumption`, `DraftsAssumption` | finitely many rooms with a capacity and, at first, distinct names (the unique index), whatever an update makes of them; what others book, what is asked for and what the LLM extracts are records of the right kind |
| `RequestsAssumption`, `InputsAssumption`, `ClockAssumption`, `AccountsAssumption` | the kinds of request are disjoint, and so are ids and the values that stand for nothing; to normalise an address twice is to normalise it once |
| `RoomsAssumption` of `Rooms` | there are demo rooms (`seed.py`) and their names differ; to strip a string twice is to strip it once; a name is not null |
| `LimiterAssumption`, `PoolAssumption` | a limit of at least 1 (with 0, `check` reads `hits[0]` of an empty deque); a pool, attempts and timeouts of at least 1; finitely many requests |

Every inductive invariant was checked by TLC on the instance of its run before it was proved.

`BookingLedgerProofs`: `LedgerNeverDoubleBooks`, by the obvious invariant.

`BookingsProofs`.  `NoOverlap` is not inductive: from a state in which two clashing rows are past the
constraint and neither is committed, both commits are possible.  The inductive invariant `IndInv`
adds what excludes that state:

* `RowFollowsRequest` - where a request stands tells what its row is (a row is `pending` exactly
  between the insert and the commit);
* `NoSettledOverlap` - a row that has passed the constraint, committed or about to be, overlaps no
  other such row.  `ExclusionClear` establishes it because it sees pending rows as well as active
  ones; every other step can only shrink the set of settled rows or leave it alone;
* `LockProtects` - a cancellation that has decided holds the row lock of an active row, so nobody
  else settles that row meanwhile;
* `PastRules` - a row that exists passed the rules at the `now` of its request; with the lemma that
  `FloorToSlot` gives back less than a slot, `NothingOverIsBooked` follows;
* `RequestsGiven` and `TypeOK`.

From `Invariance` follow `TypeCorrect`, `NoOverlapHolds`, `AcceptedIsNotOver`, `NothingOverHolds`
and the action property `HistoryIsKept`.  `Implements` shows that `CommitCreate` is `Book` of the
ledger, `SettleCancel` (in `CommitCancel` and `CommitUnheard`) is `Cancel`, and every other step
stutters.  A second invariant about answers, on top of `IndInv`, gives `AnswersAreTrue`,
`LosersHaveWinners` and `CancelledOnceHolds`.  With it, `UnnamedIsCancelledHolds`: only
`ReadConflicts` answers 409 and names anybody (lemma `NewRefusal`), and when it names nobody the
booking the request had lost to is there no longer.  `ClosedRoomStaysFreeHolds` is a property of
whole behaviours: while the room stays off, `NotAdmitted` - the request has not passed `get_room`,
or is done without a row - is kept by every step (lemma `OffKeepsOut`), and a request that is not
admitted has no committed row.

`RateLimiterProofs`.  `DequeIsRecentPastHolds`, `WindowBoundHolds`, `RetryHonestHolds`.
`WindowBound` speaks of the whole history of admissions while `check` only sees the deque.
`DequeIsRecentPast` ties the two together: the deque is the end of the history and all that precedes
it is out of the window.  The other half of the invariant says that the deque is ascending and that
a promise is not earlier than the moment its head leaves the window.

`PoolProofs`.  `AnsweredInTime` is not inductive: a bound on the time since a request arrived says
nothing of how much of it is left.  `IndInv` says for each place a request that needs no LLM may
stand at how long it has waited there and since it arrived (`TimeInHand`): each wait for a
connection adds at most `PoolTimeout`, and time passes only while nobody who waits must give up.  Of
phrases it says nothing but that they keep a connection (`PhraseKeeps`, `PhraseTime`), so that the
bound does not depend on the LLM. `ConnectionsInHand` says that the connections given out are
exactly those of the requests at work, in a call, between two or reading again, and never more than
`Size`.  When someone spends time waiting, none is free and nobody is at work, so every connection
is with a phrase in its call or its pause: that is `OnlySlowPhrasesHoldUpHolds`.

`AccountsProofs`.  `OneAccountPerAddress` speaks of accounts that exist; two inserts of one address in
doubt at once would break it one commit later.  `AddressesDistinct` therefore counts the accounts in
doubt too, and `AccountFollowsRequest` ties a row to where its request stands.  `RefusedHasOwnerHolds`
needs that an account never goes once it is there.  `Implements` maps a login's `IssueToken` to the
issue of a token in `SessionBook`, the commit of a logout to its end and the clock to time;
`SessionsFollowRequests` says that a cleanup has only expired sessions in hand, so that deleting them
ends nothing that still worked, and a logout no session but its own, so that its commit ends that one;
every other step, the DELETE of a logout included, stutters.

`RoomsProofs`.  `NamesDistinct` speaks of the table, but a name is taken when it enters the unique
index.  `NamesReserved` says that a name in the index belongs to one row, be it committed or in
doubt (`Named`); `WritesWhatWasPosted` says that what is written is what was posted, stripped.
`EnterName` puts a name in the index after a look at both the table and the names in doubt; the seed
puts all of its names there at once, into an empty table and with nobody served.  `StartsAlone` -
nobody is served while the container starts - gives `DemoRoomsWholeHolds`: a start that was asked
for demo rooms serves no empty office. `OnlyPostedColumnsHolds` compares the rows before and after a
step.

`DraftsProofs`.  The hard one is `RefusalIsNews`, because between the rooms of the prompt and the
confirmation everything a draft relies on can change.  `ReliesOrNews` carries it through every await:
each room of the prompt is open or in `news`, each open room is in the prompt or in `news`, the room of
a ready draft is free or in `news`.  `DraftProper` - the times of a draft keep the rules at its `now`
unless the draft itself says otherwise - gives `ReadyKeepsRulesHolds`, `UnreadyHasReasonHolds` and the
part of `RefusalIsNews` about 422.  `SmallestUnlessResizedHolds` follows from the order of
`free_rooms` (`BestIsSmallest`): the sort compares what the session has, which is the table for every
room that was not changed since.

`AlternativesProofs` has the theorems of `Alternatives` and of `Timeline`.

* The inductive invariant is small: bookings lie in the working hours of one day, the request keeps
  the rules at its `now`, and so do its slots.  What is long is the arithmetic: slots counted from the
  full hour are slots counted from midnight (`PastSlotIsRest`), the floor of an instant is the last
  boundary before it (`AlignedBelowFloor`), and a day is what its midnights enclose (`DayIs`).
* `OffersAreChoicesHolds` and `NearestAreOfferedHolds` are about the greedy loop.  `Handled(P, C, T, a)`
  is its loop invariant: with the turns of the starts in `T` over, `P` are candidates, no more than
  allowed, no two of which meet, and each candidate of `T` that is not in `P` has a `Reason`.  One turn
  keeps it (`TurnHandles`), because whoever has his turn later is not nearer.
  `BookableIsCandidate` says that the stepping loop has met every start that could be booked.
* `BestRoomsAreOfferedHolds` needs that whatever list the sort leaves has each room once
  (`SortingListsAll`): an injection of the first n numbers into n rooms reaches all of them.
* The greedy loop is an induction over distances.  A theorem of the library that takes a predicate
  cannot be applied, so lemma `UpTo` says the same with a set: a set that has 0 and with each number
  the next one has all of them, by the least number it would lack.
* `BookingsAreShownHolds`: a booking of a day meets the working hours of that day and of no other
  (`MeetsItsDay`), and lies in the week that is read as one interval (`WeekEncloses`).
  `NoBookableStartWithoutLinkHolds` and `LinkIsBookingHolds` follow a cell to its form
  (`FilledEndFits`, `LinkTimes`).

Only model-checked, since every safety property of the passing runs is proved:

* liveness under fairness (`EveryRequestAnswered` of three modules, `DeadlockHasSurvivor`,
  `EveryPhraseAnswered`), which the prover cannot treat;
* the disagreements, which are counterexamples.

## Not modelled

Listed with reasons in `PROJECT.json`.  Left out for good: formatting, templates, routing and the
calendar export (no state), password hashing (external), and queries that change nothing.  The text
of the prompt and the aliases of the rooms, which only the prompt uses, have no part in any rule.
