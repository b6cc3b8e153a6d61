-------------------------------- MODULE Rooms --------------------------------
(***************************************************************************)
(* The rooms of the office: create_room and update_room of                 *)
(* app/services/rooms.py, the JSON API and the page of forms that call     *)
(* them, and the demo rooms app/seed.py adds when the container starts.    *)
(*                                                                         *)
(* An administrator is a process that sends one request; each await on the *)
(* database is a step.  A page of forms is read long before it is posted   *)
(* and outlives a restart.  SQLAlchemy sends an UPDATE of the columns that *)
(* differ from the row it has loaded.  The server gives the row to one     *)
(* UPDATE at a time and enters the new name into the unique index after it *)
(* has written the row: a name in doubt is waited for.                     *)
(*                                                                         *)
(* Of the columns three stand for all: name is unique, location is on the  *)
(* form and may be cleared, description may be cleared but is not on the   *)
(* form.                                                                   *)
(***************************************************************************)
EXTENDS FiniteSets, Functions

CONSTANTS
  Editors,    \* requests of administrators
  NewRooms,   \* ids of the rooms administrators may create
  NewRows,    \* what they may create
  DemoRooms,  \* DEMO_ROOMS
  DemoRow,
  Offers,     \* what people write into each column
  Strip,      \* str.strip()
  Patches,    \* bodies of PATCH: some columns with a value or Null
  Null,
  NoRow

RoomIds == NewRooms \cup DemoRooms
Fields == {"name", "location", "description"}
FormFields == {"name", "location"}
Clearable == {"location", "description"}
Stored == {Strip[v] : v \in DOMAIN Strip}
Row == [Fields -> Stored]
Body(F) == UNION {[G -> DOMAIN Strip] : G \in SUBSET F}

ASSUME RoomsAssumption ==
  /\ NewRooms \cap DemoRooms = {} /\ DemoRooms # {}
  /\ Offers \in [Fields -> SUBSET DOMAIN Strip]
  /\ Null \notin Offers["name"] /\ Strip[Null] = Null
  /\ Stored \subseteq DOMAIN Strip /\ \A v \in Stored : Strip[v] = v
  /\ DemoRow \in [DemoRooms -> Row]
  /\ \A d, e \in DemoRooms : DemoRow[d].name = DemoRow[e].name => d = e
  /\ NewRows \subseteq Row /\ Patches \subseteq Body(Fields)
  /\ NoRow \notin Row

VARIABLES
  phase,   \* of the container: the seed starts, is about to commit, the server runs
  demo,    \* settings.seed_demo_rooms, as this container was started
  rooms,   \* the committed rows
  pc,      \* the next step of each request
  target,  \* the room it is about
  posted,  \* the columns its form or its body names
  sets,    \* the columns of its INSERT or UPDATE
  answer   \* the status it answered, 0 before: 200 stands for 201 and for the 303 of a page

vars == <<phase, demo, rooms, pc, target, posted, sets, answer>>

TypeOK ==
  /\ phase \in {"start", "fill", "serving"} /\ demo \in BOOLEAN
  /\ rooms \in [RoomIds -> Row \cup {NoRow}]
  /\ pc \in [Editors -> {"idle", "page", "get", "write", "index", "commit", "done"}]
  /\ target \in [Editors -> RoomIds \cup {NoRow}]
  /\ posted \in [Editors -> Body(Fields)]
  /\ sets \in [Editors -> Body(Fields)]
  /\ answer \in [Editors -> {0, 200, 404, 409, 422, 500}]

Nothing == [f \in {} |-> Null]

Init ==
  /\ phase = "start" /\ demo \in BOOLEAN
  /\ \/ rooms = [r \in RoomIds |-> NoRow]
     \/ \E r \in NewRooms, row \in NewRows : rooms = [s \in RoomIds |-> IF s = r THEN row ELSE NoRow]
  /\ pc = [e \in Editors |-> "idle"]
  /\ target = [e \in Editors |-> NoRow]
  /\ posted = [e \in Editors |-> Nothing]
  /\ sets = [e \in Editors |-> Nothing]
  /\ answer = [e \in Editors |-> 0]
-----------------------------------------------------------------------------
(***************************************************************************)
(* The start of the container: the seed, then the server.                  *)
(***************************************************************************)

Table == {r \in RoomIds : rooms[r] # NoRow}

\* without the setting nothing is counted and nothing added
SeedCount ==
  /\ phase = "start"
  /\ phase' = IF demo /\ Table = {} THEN "fill" ELSE "serving"
  /\ UNCHANGED <<demo, rooms, pc, target, posted, sets, answer>>

\* mutant of SeedCommit: a commit for each room
SeedCommitEach ==
  /\ phase = "fill"
  /\ \E d \in DemoRooms \ Table :
       /\ rooms' = [rooms EXCEPT ![d] = DemoRow[d]]
       /\ phase' = IF DemoRooms \subseteq Table \cup {d} THEN "serving" ELSE "fill"
  /\ UNCHANGED <<demo, pc, target, posted, sets, answer>>

\* one commit for all the rooms
SeedCommit ==
  /\ phase = "fill"
  /\ rooms' = [r \in RoomIds |-> IF r \in DemoRooms THEN DemoRow[r] ELSE rooms[r]]
  /\ phase' = "serving"
  /\ UNCHANGED <<demo, pc, target, posted, sets, answer>>
-----------------------------------------------------------------------------
(***************************************************************************)
(* The requests.                                                           *)
(***************************************************************************)

Goto(e, step) == pc' = [pc EXCEPT ![e] = step]
Ask(e, r, p) == target' = [target EXCEPT ![e] = r] /\ posted' = [posted EXCEPT ![e] = p]

\* the requests of E end, and whatever they held ends with them
End(E, code) ==
  /\ pc' = [e \in Editors |-> IF e \in E THEN "done" ELSE pc[e]]
  /\ answer' = [e \in Editors |-> IF e \in E THEN code ELSE answer[e]]
  /\ target' = [e \in Editors |-> IF e \in E THEN NoRow ELSE target[e]]
  /\ posted' = [e \in Editors |-> IF e \in E THEN Nothing ELSE posted[e]]
  /\ sets' = [e \in Editors |-> IF e \in E THEN Nothing ELSE sets[e]]

Reply(e, code) == End({e}, code)

\* GET /admin/rooms: the forms show every room as it is now, active or not
OpenPage(e) ==
  /\ pc[e] = "idle" /\ phase = "serving"
  /\ \E r \in Table : Ask(e, r, Restrict(rooms[r], FormFields))
  /\ Goto(e, "page")
  /\ UNCHANGED <<phase, demo, rooms, sets, answer>>

\* the administrator changes at most one field; the form posts them all
PostForm(e) ==
  /\ pc[e] = "page" /\ phase = "serving"
  /\ \/ UNCHANGED posted
     \/ \E f \in FormFields : \E v \in Offers[f] : posted' = [posted EXCEPT ![e][f] = v]
  /\ Goto(e, "get")
  /\ UNCHANGED <<phase, demo, rooms, target, sets, answer>>

PostPatch(e) ==
  /\ pc[e] = "idle" /\ phase = "serving"
  /\ \E r \in RoomIds, p \in Patches : Ask(e, r, p)
  /\ Goto(e, "get")
  /\ UNCHANGED <<phase, demo, rooms, sets, answer>>

\* create_room, by the form or by the API; the row gets an id of its own
PostRoom(e) ==
  /\ pc[e] = "idle" /\ phase = "serving"
  /\ \E r \in NewRooms \ Table, row \in NewRows :
       /\ \A x \in Editors : target[x] # r
       /\ Ask(e, r, row)
       /\ sets' = [sets EXCEPT ![e] = row]
  /\ Goto(e, "write")
  /\ UNCHANGED <<phase, demo, rooms, answer>>

\* RoomIn and RoomPatch: a name or a capacity out of bounds
Malformed(e) ==
  /\ pc[e] \in {"idle", "page"} /\ phase = "serving"
  /\ Reply(e, 422)
  /\ UNCHANGED <<phase, demo, rooms>>

\* what setattr writes: None only where the column may be cleared, strings stripped
Columns(p) ==
  [f \in {g \in DOMAIN p : p[g] # Null \/ g \in Clearable} |-> Strip[p[f]]]

\* the row with the columns of c in place of its own
Over(c, row) == [f \in Fields |-> IF f \in DOMAIN c THEN c[f] ELSE row[f]]

\* mutant of Changed: the whole row as it was loaded goes back with the new values
ChangedAll(p, row) == Over(Columns(p), row)

\* the columns of the UPDATE: those that differ from the row as loaded
Changed(p, row) == Restrict(Columns(p), {f \in DOMAIN Columns(p) : Columns(p)[f] # row[f]})

\* get_room(active_only=False)
GetRoom(e) ==
  /\ pc[e] = "get"
  /\ \/ target[e] \notin Table /\ Reply(e, 404)
     \/ /\ target[e] \in Table
        /\ sets' = [sets EXCEPT ![e] = Changed(posted[e], rooms[target[e]])]
        /\ Goto(e, IF sets'[e] = Nothing THEN "commit" ELSE "write")
        /\ UNCHANGED <<target, posted, answer>>
  /\ UNCHANGED <<phase, demo, rooms>>

\* the requests whose row is written and not committed
InDoubt == {x \in Editors : pc[x] \in {"index", "commit"} /\ sets[x] # Nothing}

\* the flush of the savepoint: the row is written when no other transaction has it
WriteRow(e) ==
  /\ pc[e] = "write"
  /\ \A x \in InDoubt : target[x] # target[e]
  /\ Goto(e, IF "name" \in DOMAIN sets[e] THEN "index" ELSE "commit")
  /\ UNCHANGED <<phase, demo, rooms, target, posted, sets, answer>>

\* the transactions that may give up or take the name e wants
Blockers(e) ==
  {x \in InDoubt \ {e} :
     \/ target[x] \in Table /\ rooms[target[x]].name = sets[e].name
     \/ pc[x] = "commit" /\ "name" \in DOMAIN sets[x] /\ sets[x].name = sets[e].name}

Taken(e) == \E r \in Table \ {target[e]} : rooms[r].name = sets[e].name

\* mutant of EnterName: a SELECT that sees committed names only
EnterNameSelect(e) ==
  /\ pc[e] = "index"
  /\ \/ Taken(e) /\ Reply(e, 409)
     \/ ~Taken(e) /\ Goto(e, "commit") /\ UNCHANGED <<target, posted, sets, answer>>
  /\ UNCHANGED <<phase, demo, rooms>>

\* mutant of EnterName: a violation undoes the savepoint and the same row is written again
EnterNameAgain(e) ==
  /\ pc[e] = "index"
  /\ Blockers(e) = {}
  /\ Goto(e, IF Taken(e) THEN "write" ELSE "commit")
  /\ UNCHANGED <<phase, demo, rooms, target, posted, sets, answer>>

\* the unique index: a violation undoes the savepoint and _unique_name answers 409
EnterName(e) ==
  /\ pc[e] = "index"
  /\ Blockers(e) = {}
  /\ \/ Taken(e) /\ Reply(e, 409)
     \/ ~Taken(e) /\ Goto(e, "commit") /\ UNCHANGED <<target, posted, sets, answer>>
  /\ UNCHANGED <<phase, demo, rooms>>

\* e is on a cycle of requests that wait for each other's names
InDeadlock(e) ==
  \E S \in SUBSET Editors :
    /\ e \in S
    /\ \A s \in S : pc[s] = "index" /\ Blockers(s) \cap S # {}

\* 40P01 is no IntegrityError: _unique_name lets it pass and the request ends with a 500
DeadlockAbort(e) ==
  /\ pc[e] = "index" /\ InDeadlock(e)
  /\ Reply(e, 500)
  /\ UNCHANGED <<phase, demo, rooms>>

\* the row as the commit leaves it: an UPDATE keeps the columns it does not set
Written(e) == IF rooms[target[e]] = NoRow THEN sets[e] ELSE Over(sets[e], rooms[target[e]])

Commit(e) ==
  /\ pc[e] = "commit"
  /\ rooms' = [rooms EXCEPT ![target[e]] = Written(e)]
  /\ Reply(e, 200)
  /\ UNCHANGED <<phase, demo>>

Serve(e) == GetRoom(e) \/ WriteRow(e) \/ EnterName(e) \/ DeadlockAbort(e) \/ Commit(e)

Running == {e \in Editors : pc[e] \notin {"idle", "page", "done"}}

\* the connection of a request dies: its transaction is rolled back
Fail(e) ==
  /\ e \in Running
  /\ Reply(e, 500)
  /\ UNCHANGED <<phase, demo, rooms>>

\* the container dies, in the seed or while it serves, and is started again, with what the
\* settings say by then
Restart ==
  /\ phase # "start"
  /\ phase' = "start" /\ demo' \in BOOLEAN
  /\ End(Running, 500)
  /\ UNCHANGED rooms

Next ==
  \/ SeedCount \/ SeedCommit \/ Restart
  \/ \E e \in Editors :
       OpenPage(e) \/ PostForm(e) \/ PostPatch(e) \/ PostRoom(e) \/ Malformed(e) \/ Serve(e) \/ Fail(e)

Spec == Init /\ [][Next]_vars

\* asyncio resumes every request whose await is over; PostgreSQL ends every statement that need
\* not wait, and its deadlock detector looks at every wait that lasts
FairSpec == Spec /\ \A e \in Editors : WF_vars(Serve(e))
-----------------------------------------------------------------------------
(***************************************************************************)
(* Properties.                                                             *)
(***************************************************************************)

\* Two rooms never have the same name, as people read it: not when two administrators create or
\* rename at once, nor when a rename meets another that is rolled back.
NamesDistinct ==
  \A r, s \in Table : r # s => Strip[rooms[r].name] # Strip[rooms[s].name]

\* A page of forms or a body that was overtaken undoes no more than what it names: a commit
\* changes a column only to what its own request posted for it, so a description entered by a
\* colleague survives every form, and a column nobody posted is what it was.
OnlyPostedColumns ==
  [][\A r \in Table : \A f \in Fields :
       /\ r \in Table'
       /\ rooms'[r][f] # rooms[r][f] =>
            \E e \in Editors :
              /\ target[e] = r /\ pc[e] # "done" /\ answer'[e] = 200
              /\ f \in DOMAIN posted[e] /\ rooms'[r][f] = Strip[posted[e][f]]]_vars

\* However often the container dies in its seed, and whatever SEED_DEMO_ROOMS was at each start,
\* the demo rooms are there all together or not at all; a start that adds them was asked to and
\* finds no other room, and one that was asked for them serves no empty office.
DemoRoomsWhole ==
  /\ DemoRooms \subseteq Table \/ DemoRooms \cap Table = {}
  /\ phase = "fill" => demo /\ Table = {}
  /\ phase = "serving" /\ demo => Table # {}

\* Every request that is sent is answered: waiting for a row or for a name ends with the
\* transaction that has it, and renames that wait for each other are separated.
EveryRequestAnswered == \A e \in Editors : e \in Running ~> pc[e] = "done"
=============================================================================
