----------------------------- MODULE RoomsProofs -----------------------------
(***************************************************************************)
(* Theorems about Rooms, for every set of requests, rooms and names and    *)
(* for every way to strip a string.                                        *)
(***************************************************************************)
EXTENDS Rooms, TLAPS

\* the steps between the statement that loads or makes a row and the commit
Writing == {"write", "index", "commit"}

\* What a request is about to write is what it posted, stripped; only a new room is not there yet,
\* and it has all its columns.
WritesWhatWasPosted ==
  \A e \in Editors :
    /\ pc[e] \in {"page", "get"} \cup Writing => target[e] \in RoomIds
    /\ pc[e] = "index" => "name" \in DOMAIN sets[e]
    /\ pc[e] \in Writing =>
         /\ DOMAIN sets[e] \subseteq DOMAIN posted[e]
         /\ \A f \in DOMAIN sets[e] : sets[e][f] = Strip[posted[e][f]]
         /\ target[e] \in Table \/ (target[e] \in NewRooms /\ sets[e] \in Row)

\* the requests that have their name in the index and are not committed
Named == {e \in Editors : pc[e] = "commit" /\ "name" \in DOMAIN sets[e]}

\* A name that is in the index belongs to one row, be it committed or in doubt.
NamesReserved ==
  /\ \A r, s \in Table : r # s => rooms[r].name # rooms[s].name
  /\ \A e \in Named : \A r \in Table \ {target[e]} : rooms[r].name # sets[e].name
  /\ \A d, e \in Named : d # e => sets[d].name # sets[e].name

\* Nobody is served while the container starts.
StartsAlone == phase # "serving" => Running = {}

IndInv ==
  /\ TypeOK
  /\ WritesWhatWasPosted
  /\ NamesReserved
  /\ StartsAlone
  /\ DemoRoomsWhole
-----------------------------------------------------------------------------
(***************************************************************************)
(* Rows and bodies.                                                        *)
(***************************************************************************)

LEMMA BodyType ==
  ASSUME NEW F, NEW p
  PROVE  p \in Body(F) <=> DOMAIN p \subseteq F /\ p \in [DOMAIN p -> DOMAIN Strip]
<1>1. p \in Body(F) <=> \E G \in SUBSET F : p \in [G -> DOMAIN Strip]
  BY DEF Body
<1> QED
  BY <1>1

\* What is stored is stripped already, and may be posted as it is.
LEMMA StoredStripped ==
  /\ Stored \subseteq DOMAIN Strip
  /\ \A v \in Stored : Strip[v] = v
  /\ \A v \in DOMAIN Strip : Strip[v] \in Stored
  /\ "name" \in Fields
  BY RoomsAssumption DEF Stored, Fields

LEMMA NothingIsBody == Nothing \in Body(Fields) /\ DOMAIN Nothing = {}
  BY BodyType DEF Nothing

LEMMA RowIsBody == \A row \in Row : row \in Body(Fields) /\ DOMAIN row = Fields
  BY BodyType, StoredStripped DEF Row

LEMMA FormIsBody == \A row \in Row : Restrict(row, FormFields) \in Body(Fields)
<1> SUFFICES ASSUME NEW row \in Row PROVE Restrict(row, FormFields) \in Body(Fields)
  OBVIOUS
<1>1. FormFields \subseteq Fields /\ row \in [Fields -> DOMAIN Strip]
  BY StoredStripped DEF Row, FormFields, Fields
<1>2. Restrict(row, FormFields) \in [FormFields -> DOMAIN Strip]
  BY <1>1 DEF Restrict
<1> QED
  BY <1>1, <1>2, BodyType

\* An UPDATE over a row is a row, and changes the columns it sets.
LEMMA OverIsRow ==
  ASSUME NEW c, NEW row \in Row, \A f \in DOMAIN c : c[f] \in Stored
  PROVE  Over(c, row) \in Row
  BY DEF Over, Row

\* The columns of an UPDATE are among those posted, with their values stripped.
LEMMA ChangedColumns ==
  ASSUME NEW p, NEW row
  PROVE  /\ DOMAIN Changed(p, row) \subseteq DOMAIN p
         /\ Changed(p, row) = [f \in DOMAIN Changed(p, row) |-> Strip[p[f]]]
  BY DEF Changed, Columns, Restrict
-----------------------------------------------------------------------------
(***************************************************************************)
(* The invariant holds at first, and a request that ends leaves nothing.   *)
(***************************************************************************)

LEMMA InitIndInv == Init => IndInv
<1> SUFFICES ASSUME Init PROVE IndInv
  OBVIOUS
<1>1. TypeOK
  <2>1. NewRooms \subseteq RoomIds /\ NewRows \subseteq Row
    BY RoomsAssumption DEF RoomIds
  <2> QED
    BY <2>1, NothingIsBody DEF Init, TypeOK
<1>2. WritesWhatWasPosted
  BY DEF Init, WritesWhatWasPosted, Writing
<1>3. NamesReserved
  BY DEF Init, NamesReserved, Named, Table
<1>4. StartsAlone
  BY DEF Init, StartsAlone, Running
<1>5. DemoRoomsWhole
  <2>1. NewRooms \cap DemoRooms = {}
    BY RoomsAssumption
  <2> QED
    BY <2>1 DEF Init, DemoRoomsWhole, Table, RoomIds
<1> QED
  BY <1>1, <1>2, <1>3, <1>4, <1>5 DEF IndInv

LEMMA EndKeeps ==
  ASSUME IndInv, NEW E \in SUBSET Editors, NEW code \in {200, 404, 409, 422, 500}, End(E, code),
         UNCHANGED <<phase, demo, rooms>>
  PROVE  IndInv'
<1> USE DEF IndInv, End
<1>1. TypeOK'
  BY NothingIsBody DEF TypeOK
<1>2. WritesWhatWasPosted'
  BY DEF WritesWhatWasPosted, TypeOK, Writing, Table
<1>3. NamesReserved'
  <2>1. Table' = Table
    BY DEF Table
  <2>2. Named' \subseteq Named
    BY DEF Named, TypeOK
  <2>3. \A e \in Named' : e \in Editors \ E
    BY DEF Named, TypeOK
  <2>4. \A e \in Editors \ E : sets'[e] = sets[e] /\ target'[e] = target[e]
    OBVIOUS
  <2> QED
    BY <2>1, <2>2, <2>3, <2>4 DEF NamesReserved
<1>4. StartsAlone'
  BY DEF StartsAlone, Running
<1>5. DemoRoomsWhole'
  BY DEF DemoRoomsWhole, Table
<1> QED
  BY <1>1, <1>2, <1>3, <1>4, <1>5

LEMMA ReplyKeeps ==
  ASSUME IndInv, NEW e \in Editors, NEW code \in {200, 404, 409, 422, 500}, Reply(e, code),
         UNCHANGED <<phase, demo, rooms>>
  PROVE  IndInv'
  BY EndKeeps DEF Reply
-----------------------------------------------------------------------------
(***************************************************************************)
(* One lemma for each step that does more than answer.                     *)
(***************************************************************************)

LEMMA SeedCountStep == ASSUME IndInv, SeedCount PROVE IndInv'
<1> USE DEF IndInv, SeedCount
<1>1. TypeOK'
  BY DEF TypeOK
<1>2. WritesWhatWasPosted'
  BY DEF WritesWhatWasPosted, Table
<1>3. NamesReserved'
  BY DEF NamesReserved, Named, Table
<1>4. StartsAlone'
  BY DEF StartsAlone, Running
<1>5. DemoRoomsWhole'
  BY DEF DemoRoomsWhole, Table
<1> QED
  BY <1>1, <1>2, <1>3, <1>4, <1>5

LEMMA SeedCommitStep == ASSUME IndInv, SeedCommit PROVE IndInv'
<1> USE DEF IndInv, SeedCommit
<1>1. Table = {} /\ Table' = DemoRooms
  BY RoomsAssumption DEF DemoRoomsWhole, Table, RoomIds, TypeOK
<1>2. \A r \in Table' : rooms'[r] = DemoRow[r]
  BY <1>1 DEF RoomIds
<1>3. \A e \in Editors : pc[e] \notin {"get"} \cup Writing
  BY DEF StartsAlone, Running, Writing
<1>4. TypeOK'
  BY RoomsAssumption DEF TypeOK, RoomIds
<1>5. WritesWhatWasPosted'
  BY <1>3 DEF WritesWhatWasPosted, Writing
<1>6. NamesReserved'
  BY <1>1, <1>2, <1>3, RoomsAssumption DEF NamesReserved, Named, Writing
<1>7. StartsAlone'
  BY DEF StartsAlone
<1>8. DemoRoomsWhole'
  BY <1>1, RoomsAssumption DEF DemoRoomsWhole
<1> QED
  BY <1>4, <1>5, <1>6, <1>7, <1>8

LEMMA RestartStep == ASSUME IndInv, Restart PROVE IndInv'
<1> USE DEF IndInv, Restart, End
<1>1. \A e \in Editors : pc'[e] \in {"idle", "page", "done"}
  BY DEF TypeOK, Running
<1>2. TypeOK'
  BY NothingIsBody DEF TypeOK
<1>3. WritesWhatWasPosted'
  BY <1>1 DEF WritesWhatWasPosted, Writing, Running, TypeOK
<1>4. NamesReserved'
  BY <1>1 DEF NamesReserved, Named, Table
<1>5. StartsAlone'
  BY <1>1 DEF StartsAlone, Running
<1>6. DemoRoomsWhole'
  BY DEF DemoRoomsWhole, Table
<1> QED
  BY <1>2, <1>3, <1>4, <1>5, <1>6

\* A request that goes to a step before the index, or with no name, changes nothing that others see.
LEMMA QuietKeeps ==
  ASSUME IndInv, NEW e \in Editors, NEW step, Goto(e, step), phase = "serving",
         step = "commit" => "name" \notin DOMAIN sets'[e],
         \A x \in Editors \ {e} : sets'[x] = sets[x] /\ target'[x] = target[x],
         UNCHANGED <<phase, demo, rooms>>
  PROVE  NamesReserved' /\ StartsAlone' /\ DemoRoomsWhole'
<1>1. NamesReserved'
  <2>1. Table' = Table
    BY DEF Table
  <2>2. \A x \in Named' : x \in Named /\ x # e
    BY DEF IndInv, TypeOK, Named, Goto
  <2> QED
    BY <2>1, <2>2 DEF IndInv, NamesReserved, Named
<1>2. StartsAlone' /\ DemoRoomsWhole'
  BY DEF IndInv, StartsAlone, DemoRoomsWhole, Table
<1> QED
  BY <1>1, <1>2

LEMMA OpenPageStep == ASSUME IndInv, NEW e \in Editors, OpenPage(e) PROVE IndInv'
<1> USE DEF IndInv, OpenPage, Ask, Goto
<1>1. \A r \in Table : Restrict(rooms[r], FormFields) \in Body(Fields)
  BY FormIsBody DEF Table, TypeOK
<1>2. TypeOK'
  BY <1>1 DEF TypeOK, Table
<1>3. WritesWhatWasPosted'
  BY DEF WritesWhatWasPosted, TypeOK, Table, Writing
<1>5. NamesReserved' /\ StartsAlone' /\ DemoRoomsWhole'
  <2>1. Goto(e, "page") /\ phase = "serving" /\ UNCHANGED <<phase, demo, rooms>>
    OBVIOUS
  <2>2. \A x \in Editors \ {e} : sets'[x] = sets[x] /\ target'[x] = target[x]
    BY DEF TypeOK
  <2> QED
    BY <2>1, <2>2, QuietKeeps
<1> QED
  BY <1>2, <1>3, <1>5

LEMMA PostFormStep == ASSUME IndInv, NEW e \in Editors, PostForm(e) PROVE IndInv'
<1> USE DEF IndInv, PostForm, Goto
<1>1. posted' \in [Editors -> Body(Fields)]
  <2>1. ASSUME NEW f \in FormFields, NEW v \in Offers[f], posted' = [posted EXCEPT ![e][f] = v]
        PROVE  posted' \in [Editors -> Body(Fields)]
    <3>1. v \in DOMAIN Strip
      BY RoomsAssumption DEF FormFields, Fields
    <3>2. [posted[e] EXCEPT ![f] = v] \in Body(Fields)
      BY <3>1, BodyType DEF TypeOK
    <3> QED
      BY <2>1, <3>2 DEF TypeOK
  <2> QED
    BY <2>1 DEF TypeOK
<1>2. TypeOK'
  BY <1>1 DEF TypeOK
<1>3. WritesWhatWasPosted'
  BY DEF WritesWhatWasPosted, TypeOK, Table, Writing
<1>5. NamesReserved' /\ StartsAlone' /\ DemoRoomsWhole'
  BY QuietKeeps DEF TypeOK
<1> QED
  BY <1>2, <1>3, <1>5

LEMMA PostPatchStep == ASSUME IndInv, NEW e \in Editors, PostPatch(e) PROVE IndInv'
<1> USE DEF IndInv, PostPatch, Ask, Goto
<1>1. TypeOK'
  BY RoomsAssumption DEF TypeOK
<1>2. WritesWhatWasPosted'
  BY DEF WritesWhatWasPosted, TypeOK, Table, Writing
<1>5. NamesReserved' /\ StartsAlone' /\ DemoRoomsWhole'
  <2>1. Goto(e, "get") /\ phase = "serving" /\ UNCHANGED <<phase, demo, rooms>>
    OBVIOUS
  <2>2. \A x \in Editors \ {e} : sets'[x] = sets[x] /\ target'[x] = target[x]
    BY DEF TypeOK
  <2> QED
    BY <2>1, <2>2, QuietKeeps
<1> QED
  BY <1>1, <1>2, <1>5

LEMMA PostRoomStep == ASSUME IndInv, NEW e \in Editors, PostRoom(e) PROVE IndInv'
<1> USE DEF IndInv, PostRoom, Ask, Goto
<1>1. NewRooms \subseteq RoomIds /\ NewRows \subseteq Row
  BY RoomsAssumption DEF RoomIds
<1>2. TypeOK'
  BY <1>1, RowIsBody DEF TypeOK
<1>3. \A row \in NewRows : \A f \in DOMAIN row : row[f] = Strip[row[f]]
  BY <1>1, StoredStripped DEF Row
<1>4. WritesWhatWasPosted'
  BY <1>1, <1>3, RowIsBody DEF WritesWhatWasPosted, TypeOK, Table, Writing
<1>5. NamesReserved' /\ StartsAlone' /\ DemoRoomsWhole'
  <2>1. Goto(e, "write") /\ phase = "serving" /\ UNCHANGED <<phase, demo, rooms>>
    OBVIOUS
  <2>2. \A x \in Editors \ {e} : sets'[x] = sets[x] /\ target'[x] = target[x]
    BY DEF TypeOK
  <2> QED
    BY <2>1, <2>2, QuietKeeps
<1> QED
  BY <1>2, <1>4, <1>5

\* A request that is served finds the server running.
LEMMA Serving == IndInv => \A e \in Editors : pc[e] \in {"get"} \cup Writing => phase = "serving"
  BY DEF IndInv, StartsAlone, Running, Writing

LEMMA GetRoomStep == ASSUME IndInv, NEW e \in Editors, GetRoom(e) PROVE IndInv'
<1>1. CASE Reply(e, 404)
  BY <1>1, ReplyKeeps DEF GetRoom
<1>2. CASE /\ target[e] \in Table
           /\ sets' = [sets EXCEPT ![e] = Changed(posted[e], rooms[target[e]])]
           /\ Goto(e, IF sets'[e] = Nothing THEN "commit" ELSE "write")
           /\ UNCHANGED <<target, posted, answer, phase, demo, rooms>>
  <2> DEFINE columns == Changed(posted[e], rooms[target[e]])
  <2>1. /\ DOMAIN columns \subseteq DOMAIN posted[e] /\ columns \in Body(Fields)
        /\ \A f \in DOMAIN columns : columns[f] = Strip[posted[e][f]]
    <3>1. DOMAIN posted[e] \subseteq Fields /\ posted[e] \in [DOMAIN posted[e] -> DOMAIN Strip]
      BY BodyType DEF IndInv, TypeOK
    <3>2. columns \in [DOMAIN columns -> DOMAIN Strip]
      BY <3>1, ChangedColumns, StoredStripped
    <3> QED
      BY <3>1, <3>2, ChangedColumns, BodyType
  <2> HIDE DEF columns
  <2>2. sets' = [sets EXCEPT ![e] = columns] /\ sets'[e] = columns
    BY <1>2 DEF IndInv, TypeOK, columns
  <2>3. TypeOK'
    BY <1>2, <2>1, <2>2 DEF IndInv, TypeOK, Goto
  <2>4. WritesWhatWasPosted'
    BY <1>2, <2>1, <2>2 DEF GetRoom, IndInv, WritesWhatWasPosted, TypeOK, Goto, Writing, Table
  <2>5. NamesReserved' /\ StartsAlone' /\ DemoRoomsWhole'
    <3>1. phase = "serving"
      BY Serving DEF GetRoom
    <3>2. \A x \in Editors \ {e} : sets'[x] = sets[x] /\ target'[x] = target[x]
      BY <1>2, <2>2 DEF IndInv, TypeOK
    <3>3. CASE columns = Nothing
      <4>1. Goto(e, "commit") /\ "name" \notin DOMAIN sets'[e] /\ UNCHANGED <<phase, demo, rooms>>
        BY <1>2, <2>2, <3>3, NothingIsBody
      <4> QED
        BY <3>1, <3>2, <4>1, QuietKeeps
    <3>4. CASE columns # Nothing
      <4>1. Goto(e, "write") /\ UNCHANGED <<phase, demo, rooms>>
        BY <1>2, <2>2, <3>4
      <4> QED
        BY <3>1, <3>2, <4>1, QuietKeeps
    <3> QED
      BY <3>3, <3>4
  <2> QED
    BY <2>3, <2>4, <2>5 DEF IndInv
<1> QED
  BY <1>1, <1>2 DEF GetRoom

LEMMA WriteRowStep == ASSUME IndInv, NEW e \in Editors, WriteRow(e) PROVE IndInv'
<1>1. TypeOK' /\ WritesWhatWasPosted'
  BY DEF WriteRow, Goto, IndInv, TypeOK, WritesWhatWasPosted, Writing, Table
<1>2. NamesReserved' /\ StartsAlone' /\ DemoRoomsWhole'
  <2>1. phase = "serving"
    BY Serving DEF WriteRow, Writing
  <2>2. CASE "name" \in DOMAIN sets[e]
    BY <2>1, <2>2, QuietKeeps DEF WriteRow
  <2>3. CASE "name" \notin DOMAIN sets[e]
    BY <2>1, <2>3, QuietKeeps DEF WriteRow
  <2> QED
    BY <2>2, <2>3
<1> QED
  BY <1>1, <1>2 DEF IndInv

\* The name that enters the index is no other row's and in nobody's hand.
LEMMA EnterNameStep == ASSUME IndInv, NEW e \in Editors, EnterName(e) PROVE IndInv'
<1>1. CASE Taken(e)
  BY <1>1, ReplyKeeps DEF EnterName
<1>2. CASE ~Taken(e)
  <2> USE <1>2 DEF IndInv, EnterName
  <2>1. Goto(e, "commit") /\ UNCHANGED <<phase, demo, rooms, target, posted, sets, answer>>
    OBVIOUS
  <2>2. TypeOK' /\ WritesWhatWasPosted'
    BY <2>1 DEF TypeOK, WritesWhatWasPosted, Writing, Table, Goto
  <2>3. NamesReserved'
    <3>1. Table' = Table /\ Named' = Named \cup {e}
      BY <2>1 DEF Table, Named, Goto, TypeOK, WritesWhatWasPosted
    <3>2. \A r \in Table \ {target[e]} : rooms[r].name # sets[e].name
      BY DEF Taken
    <3>3. \A d \in Named \ {e} : sets[d].name # sets[e].name
      BY NothingIsBody DEF Named, Blockers, InDoubt
    <3> QED
      BY <2>1, <3>1, <3>2, <3>3 DEF NamesReserved
  <2>4. StartsAlone' /\ DemoRoomsWhole'
    BY <2>1, Serving DEF StartsAlone, DemoRoomsWhole, Table, Writing
  <2> QED
    BY <2>2, <2>3, <2>4
<1> QED
  BY <1>1, <1>2 DEF EnterName

\* What a commit leaves is a row with the columns it was to write.
LEMMA WrittenRow ==
  ASSUME IndInv, NEW e \in Editors, pc[e] = "commit"
  PROVE  /\ target[e] \in RoomIds /\ Written(e) \in Row
         /\ \A f \in DOMAIN sets[e] : f \in Fields /\ Written(e)[f] = sets[e][f]
         /\ target[e] \in Table =>
              \A f \in Fields \ DOMAIN sets[e] : Written(e)[f] = rooms[target[e]][f]
         /\ target[e] \notin Table => "name" \in DOMAIN sets[e] /\ target[e] \in NewRooms
<1> USE DEF IndInv, WritesWhatWasPosted, Writing, TypeOK
<1>1. /\ DOMAIN sets[e] \subseteq Fields
      /\ \A f \in DOMAIN sets[e] : sets[e][f] \in Stored
  BY BodyType, StoredStripped
<1>2. CASE target[e] \in Table
  <2>1. rooms[target[e]] \in Row /\ Written(e) = Over(sets[e], rooms[target[e]])
    BY <1>2 DEF Table, Written
  <2> QED
    BY <1>1, <1>2, <2>1, OverIsRow DEF Over, Table
<1>3. CASE target[e] \notin Table
  <2>1. target[e] \in NewRooms /\ sets[e] \in Row /\ Written(e) = sets[e]
    BY <1>3 DEF Table, Written
  <2> QED
    BY <1>1, <1>3, <2>1, RowIsBody, StoredStripped
<1> QED
  BY <1>2, <1>3

\* A commit gives the row the name that was reserved for it, or leaves it its own.
LEMMA CommitStep == ASSUME IndInv, NEW e \in Editors, Commit(e) PROVE IndInv'
<1> DEFINE row == target[e]
<1>1. /\ pc[e] = "commit" /\ row \in RoomIds
      /\ rooms' = [rooms EXCEPT ![row] = Written(e)] /\ Written(e) \in Row /\ phase' = phase /\ demo' = demo
  BY WrittenRow DEF Commit
<1>2. Table' = Table \cup {row}
  BY <1>1, RoomsAssumption DEF Table, IndInv, TypeOK
<1>3. /\ pc' = [pc EXCEPT ![e] = "done"] /\ sets' = [sets EXCEPT ![e] = Nothing]
      /\ target' = [target EXCEPT ![e] = NoRow] /\ posted' = [posted EXCEPT ![e] = Nothing]
      /\ answer' = [answer EXCEPT ![e] = 200]
  <2>1. End({e}, 200)
    BY DEF Commit, Reply
  <2>2. /\ pc = [x \in Editors |-> pc[x]] /\ sets = [x \in Editors |-> sets[x]]
        /\ target = [x \in Editors |-> target[x]] /\ posted = [x \in Editors |-> posted[x]]
        /\ answer = [x \in Editors |-> answer[x]]
    BY DEF IndInv, TypeOK
  <2> QED
    BY <2>1, <2>2 DEF End
<1>4. TypeOK'
  BY <1>1, <1>3, NothingIsBody DEF IndInv, TypeOK
<1>5. WritesWhatWasPosted'
  BY <1>2, <1>3 DEF IndInv, TypeOK, WritesWhatWasPosted, Writing
<1>6. NamesReserved'
  <2>1. Named' = Named \ {e}
    BY <1>3 DEF Named, IndInv, TypeOK
  <2>2. \A d \in Named' : d \in Named /\ sets'[d] = sets[d] /\ target'[d] = target[d] /\ d # e
    BY <1>3, <2>1 DEF Named, IndInv, TypeOK
  <2>3. \A r \in Table \ {row} : rooms'[r] = rooms[r]
    BY <1>1 DEF Table, IndInv, TypeOK
  <2>4. rooms'[row] = Written(e)
    BY <1>1 DEF IndInv, TypeOK
  <2>5. CASE "name" \in DOMAIN sets[e]
    <3>1. e \in Named /\ rooms'[row].name = sets[e].name
      BY <1>1, <2>4, <2>5, WrittenRow DEF Named
    <3> QED
      BY <1>2, <2>1, <2>2, <2>3, <3>1 DEF IndInv, NamesReserved
  <2>6. CASE "name" \notin DOMAIN sets[e]
    <3>1. row \in Table /\ rooms'[row].name = rooms[row].name
      BY <1>1, <2>4, <2>6, WrittenRow, StoredStripped
    <3> QED
      BY <1>2, <2>1, <2>2, <2>3, <3>1 DEF IndInv, NamesReserved
  <2> QED
    BY <2>5, <2>6
<1>7. StartsAlone'
  BY <1>1, Serving DEF StartsAlone, Writing
<1>8. DemoRoomsWhole'
  <2>1. row \in Table \/ row \in NewRooms
    BY <1>1, WrittenRow
  <2>2. phase' = "serving"
    BY <1>1, Serving DEF Writing
  <2> QED
    BY <1>2, <2>1, <2>2, RoomsAssumption DEF IndInv, DemoRoomsWhole
<1> QED
  BY <1>4, <1>5, <1>6, <1>7, <1>8 DEF IndInv

LEMMA NextIndInv == IndInv /\ [Next]_vars => IndInv'
<1> SUFFICES ASSUME IndInv, [Next]_vars PROVE IndInv'
  OBVIOUS
<1>1. ASSUME NEW e \in Editors, Malformed(e) \/ DeadlockAbort(e) \/ Fail(e) PROVE IndInv'
  BY <1>1, ReplyKeeps DEF Malformed, DeadlockAbort, Fail
<1>2. ASSUME NEW e \in Editors, OpenPage(e) \/ PostForm(e) \/ PostPatch(e) \/ PostRoom(e)
      PROVE  IndInv'
  BY <1>2, OpenPageStep, PostFormStep, PostPatchStep, PostRoomStep
<1>3. ASSUME NEW e \in Editors, GetRoom(e) \/ WriteRow(e) \/ EnterName(e) \/ Commit(e)
      PROVE  IndInv'
  BY <1>3, GetRoomStep, WriteRowStep, EnterNameStep, CommitStep
<1>4. CASE UNCHANGED vars
  BY <1>4
  DEF vars, IndInv, TypeOK, WritesWhatWasPosted, NamesReserved, Named, StartsAlone, Running,
      DemoRoomsWhole, Table
<1> QED
  BY <1>1, <1>2, <1>3, <1>4, SeedCountStep, SeedCommitStep, RestartStep DEF Next, Serve

\* The inductive invariant holds: a name in the index belongs to one row, committed or in doubt.
THEOREM Invariance == Spec => []IndInv
  BY InitIndInv, NextIndInv, PTL DEF Spec

\* However administrators create and rename at once, no two rooms have the same name.
THEOREM NamesDistinctHolds == Spec => []NamesDistinct
<1>1. IndInv => NamesDistinct
  <2> SUFFICES ASSUME IndInv, NEW r \in Table, NEW s \in Table, r # s
               PROVE  Strip[rooms[r].name] # Strip[rooms[s].name]
    BY DEF NamesDistinct
  <2>1. rooms[r] \in Row /\ rooms[s] \in Row
    BY DEF IndInv, TypeOK, Table
  <2>2. rooms[r].name \in Stored /\ rooms[s].name \in Stored
    BY <2>1, StoredStripped DEF Row
  <2> QED
    BY <2>2, StoredStripped DEF IndInv, NamesReserved
<1> QED
  BY Invariance, <1>1, PTL

\* The demo rooms come all together, before any other room, or not at all.
THEOREM DemoRoomsWholeHolds == Spec => []DemoRoomsWhole
  BY Invariance, PTL DEF IndInv

\* Whatever a form or a body has missed, its commit changes only columns it posted, to what it
\* posted, and nothing else changes a room that is there.
THEOREM OnlyPostedColumnsHolds == Spec => OnlyPostedColumns
<1> DEFINE Posted == \A r \in Table : \A f \in Fields :
                       /\ r \in Table'
                       /\ rooms'[r][f] # rooms[r][f] =>
                            \E e \in Editors :
                              /\ target[e] = r /\ pc[e] # "done" /\ answer'[e] = 200
                              /\ f \in DOMAIN posted[e] /\ rooms'[r][f] = Strip[posted[e][f]]
<1>1. ASSUME IndInv, NEW e \in Editors, Commit(e) PROVE Posted
  <2> USE <1>1
  <2>1. pc[e] = "commit" /\ rooms' = [rooms EXCEPT ![target[e]] = Written(e)] /\ answer'[e] = 200
    BY DEF Commit, Reply, End
  <2>2. \A r \in Table \ {target[e]} : rooms'[r] = rooms[r]
    BY <2>1 DEF Table, IndInv, TypeOK
  <2>3. target[e] \in RoomIds => rooms'[target[e]] = Written(e) /\ Written(e) # NoRow
    BY <2>1, WrittenRow, RoomsAssumption DEF IndInv, TypeOK
  <2>4. \A f \in DOMAIN sets[e] : f \in DOMAIN posted[e] /\ sets[e][f] = Strip[posted[e][f]]
    BY <2>1 DEF IndInv, WritesWhatWasPosted, Writing
  <2>5. Table \subseteq Table'
    BY <2>2, <2>3 DEF Table
  <2> QED
    BY <2>1, <2>2, <2>3, <2>4, <2>5, WrittenRow DEF Table
<1>2. ASSUME IndInv, SeedCommit PROVE Posted
  BY <1>2 DEF IndInv, DemoRoomsWhole, SeedCommit
<1>3. ASSUME UNCHANGED rooms PROVE Posted
  BY <1>3 DEF Table
<1>4. ASSUME IndInv, [Next]_vars PROVE Posted
  <2>1. ASSUME ~SeedCommit, ~ \E e \in Editors : Commit(e) PROVE UNCHANGED rooms
    BY <1>4, <2>1
    DEF Next, Serve, SeedCount, Restart, OpenPage, PostForm, PostPatch, PostRoom, Malformed,
        GetRoom, WriteRow, EnterName, DeadlockAbort, Fail, vars
  <2> QED
    BY <1>1, <1>2, <1>3, <1>4, <2>1
<1>5. IndInv /\ [Next]_vars => [Posted]_vars
  BY <1>4
<1> QED
  BY Invariance, <1>5, PTL DEF Spec, OnlyPostedColumns
=============================================================================
