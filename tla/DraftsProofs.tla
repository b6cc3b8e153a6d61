----------------------------- MODULE DraftsProofs -----------------------------
(***************************************************************************)
(* Theorems about Drafts, for all rooms, meetings, settings and bounds and *)
(* whatever the LLM may extract from a phrase.                             *)
(***************************************************************************)
EXTENDS Drafts, TLAPS

\* The counters of the office and of the phrase.
OfficeTyped == OfficeTypeOK /\ now \in Int /\ now <= clock /\ listed \subseteq Rooms

\* What belongs to a phrase is there from one step to another and no longer.
PhraseFollowsStep ==
  /\ pc \in {"idle", "rooms", "call", "sleep", "find", "conflicts", "answered"}
  /\ pc \in {"idle", "rooms"} => listed = {} /\ heard = {}
  /\ draft # None => pc \in {"find", "conflicts", "answered"}
  /\ answer # 0 => pc = "answered"
  /\ draft # None /\ pc = "answered" => answer = 200
  /\ verdict # 0 => pc = "answered" /\ draft # None
  /\ OnlyFailuresRepeated

DraftFields == {"room", "start", "end", "attendees", "missing", "problems", "conflict", "rooms"}

\* A draft says what it lacks, and its times keep the rules of its "now" unless it says they do not.
DraftProper ==
  /\ DOMAIN draft = DraftFields
  /\ draft.room \in Rooms \cup {None} /\ draft.attendees \in Nat \cup {None}
  /\ \/ draft.start = None /\ "start_time" \in draft.missing
     \/ draft.start \in Int /\ draft.end \in Int
  /\ draft.start # None /\ "times" \notin draft.problems =>
       ValidTimes(draft.start, draft.end, now)

DraftFollowsStep ==
  /\ draft # None \/ answer = 200 \/ pc \in {"find", "conflicts"} => DraftProper
  /\ pc = "find" => draft.start # None /\ draft.room = None /\ draft.problems = {}
  /\ pc = "conflicts" => draft.start # None /\ draft.room # None
  /\ answer = 200 /\ draft.room = None => draft.missing # {} \/ draft.problems # {}

\* What the phrase relies on is so, or was changed since it arrived: the rooms of the prompt are
\* open, no others are, and the room of a draft is open and free.
ReliesOrNews ==
  /\ \A r \in listed : row[r].open \/ r \in news
  /\ pc \in {"call", "sleep", "find"} => \A r \in OpenRooms : r \in listed \cup news
  /\ draft # None \/ answer = 200 \/ pc \in {"find", "conflicts"} =>
       \/ draft.room = None
       \/ draft.room \in listed \cup news /\ (row[draft.room].open \/ draft.room \in news)
  /\ answer = 200 /\ verdict = 0 /\ Ready(draft) =>
       ~Busy(draft.room, Interval) \/ draft.room \in news

IndInv ==
  /\ OfficeTyped
  /\ PhraseFollowsStep
  /\ DraftFollowsStep
  /\ ReliesOrNews
  /\ RefusalIsNews
-----------------------------------------------------------------------------
LEMMA Settings ==
  /\ Day \in Nat \ {0} /\ TzOffset \in Int /\ DefaultDuration \in Nat
  /\ None \notin Rooms /\ None \notin Int /\ Phrases \subseteq Parsed
  /\ MinClock \in Int /\ MaxClock \in Int /\ MinClock <= MaxClock
  /\ Meetings \subseteq [room : Rooms, start : Int, end : Int]
  /\ FirstRows \in [Rooms -> Row] /\ Updates \in [Rooms -> SUBSET Row]
  BY CalendarAssumption, DraftsAssumption, OthersAssumption, RoomsAssumption

LEMMA InitIndInv == Init => IndInv
<1> SUFFICES ASSUME Init PROVE IndInv
  OBVIOUS
<1> USE Settings DEF Init, OfficeInit
<1>1. OfficeTyped
  BY DEF OfficeTyped, OfficeTypeOK
<1>2. PhraseFollowsStep
  BY DEF PhraseFollowsStep, OnlyFailuresRepeated
<1>3. DraftFollowsStep
  BY DEF DraftFollowsStep
<1>4. ReliesOrNews
  BY DEF ReliesOrNews
<1>5. RefusalIsNews
  BY DEF RefusalIsNews
<1> QED
  BY <1>1, <1>2, <1>3, <1>4, <1>5 DEF IndInv
-----------------------------------------------------------------------------
(***************************************************************************)
(* What the code makes of the parameters.                                  *)
(***************************************************************************)

LEMMA AtIsInstant ==
  ASSUME now \in Int, NEW p \in Phrases, NEW time \in Int
  PROVE  At(p, time) \in Int
<1>1. DayOf(now) \in Int
  BY Settings DEF DayOf, Local
<1>2. (IF p.date = None THEN DayOf(now) ELSE p.date) \in Int
  BY <1>1, Settings DEF Parsed
<1> QED
  BY <1>2, Settings DEF At

\* Every draft that the code makes of an answer of the LLM is proper.
LEMMA SketchProper ==
  ASSUME now \in Int, listed \subseteq Rooms, NEW p \in Phrases, draft' = Sketch(p), now' = now
  PROVE  /\ DraftProper'
         /\ draft'.room \in listed \cup {None}
         /\ draft'.conflict = FALSE
<1>1. /\ p.start \in Int \cup {None} /\ p.end \in Int \cup {None}
      /\ p.duration \in Nat \cup {None} /\ p.attendees \in Nat \cup {None}
  BY Settings DEF Parsed
<1>2. StartOf(p) \in Int \cup {None} /\ (StartOf(p) = None <=> p.start = None)
  BY <1>1, AtIsInstant, Settings DEF StartOf
<1>3. ASSUME p.start # None PROVE EndOf(p) \in Int
  <2>1. At(p, p.start) \in Int /\ (p.end # None => At(p, p.end) \in Int)
    BY <1>1, <1>3, AtIsInstant
  <2> QED
    BY <1>1, <1>3, <2>1, Settings DEF EndOf
<1>4. draft'.room \in listed \cup {None}
  BY DEF Sketch
<1>5. DOMAIN draft' = DraftFields
  BY DEF Sketch, DraftFields
<1>6. /\ draft'.start = StartOf(p) /\ draft'.end = EndOf(p) /\ draft'.attendees = p.attendees
      /\ draft'.conflict = FALSE
      /\ p.start = None => "start_time" \in draft'.missing
      /\ Breaks(p) => "times" \in draft'.problems
  BY DEF Sketch
<1>7. draft'.attendees \in Nat \cup {None}
  BY <1>1, <1>6
<1>8. draft'.start # None /\ "times" \notin draft'.problems =>
        ValidTimes(draft'.start, draft'.end, now)
  BY <1>2, <1>6 DEF Breaks
<1> QED
  BY <1>2, <1>3, <1>4, <1>5, <1>6, <1>7, <1>8 DEF DraftProper
-----------------------------------------------------------------------------
(***************************************************************************)
(* One lemma for each step of the phrase.                                  *)
(***************************************************************************)

LEMMA ArriveStep == ASSUME IndInv, Arrive PROVE IndInv'
<1> USE DEF IndInv, Arrive, Reply, office, OfficeTyped, OfficeTypeOK, PhraseFollowsStep
<1>1. OfficeTyped'
  BY Settings
<1>2. PhraseFollowsStep'
  BY DEF OnlyFailuresRepeated
<1>3. DraftFollowsStep'
  BY DEF DraftFollowsStep
<1>4. ReliesOrNews'
  BY DEF ReliesOrNews
<1>5. RefusalIsNews'
  BY DEF RefusalIsNews
<1> QED
  BY <1>1, <1>2, <1>3, <1>4, <1>5

LEMMA ListRoomsStep == ASSUME IndInv, ListRooms PROVE IndInv'
<1> USE DEF IndInv, ListRooms, Reply, office, OfficeTyped, OfficeTypeOK, PhraseFollowsStep
<1>1. OfficeTyped'
  BY DEF OpenRooms
<1>2. PhraseFollowsStep'
  BY DEF OnlyFailuresRepeated
<1>3. DraftFollowsStep'
  BY DEF DraftFollowsStep
<1>4. ReliesOrNews'
  BY DEF ReliesOrNews, OpenRooms
<1>5. RefusalIsNews'
  BY DEF RefusalIsNews
<1> QED
  BY <1>1, <1>2, <1>3, <1>4, <1>5

LEMMA CallStep == ASSUME IndInv, Call \/ Sleep PROVE IndInv'
<1> USE DEF IndInv, Call, Sleep, CallFails, CallEnds, Repeated, Reply, office, OfficeTyped,
            OfficeTypeOK, PhraseFollowsStep
<1>1. OfficeTyped'
  OBVIOUS
<1>2. PhraseFollowsStep'
  BY DEF OnlyFailuresRepeated
<1>3. DraftFollowsStep'
  BY DEF DraftFollowsStep
<1>4. ReliesOrNews'
  BY DEF ReliesOrNews, OpenRooms
<1>5. RefusalIsNews'
  BY DEF RefusalIsNews
<1> QED
  BY <1>1, <1>2, <1>3, <1>4, <1>5

LEMMA JudgeStep == ASSUME IndInv, Judge PROVE IndInv'
<1> USE DEF IndInv, Judge, Reply, office, OfficeTyped, OfficeTypeOK, PhraseFollowsStep
<1>1. OfficeTyped'
  OBVIOUS
<1>2. PhraseFollowsStep'
  BY DEF OnlyFailuresRepeated
<1>3. RefusalIsNews'
  BY DEF RefusalIsNews
<1>4. CASE answer' = 422 /\ draft' = draft /\ pc' = "answered"
  BY <1>1, <1>2, <1>3, <1>4 DEF DraftFollowsStep, ReliesOrNews
<1>5. ASSUME NEW p \in Phrases, draft' = Sketch(p),
             \/ draft'.start # None /\ draft'.room = None /\ draft'.problems = {}
                /\ pc' = "find" /\ UNCHANGED answer
             \/ draft'.start # None /\ draft'.room # None /\ "times" \notin draft'.problems
                /\ pc' = "conflicts" /\ UNCHANGED answer
             \/ /\ \/ draft'.start = None
                   \/ "times" \in draft'.problems
                   \/ draft'.room = None /\ draft'.problems # {}
                /\ pc' = "answered" /\ answer' = 200
      PROVE  IndInv'
  <2>1. /\ DraftProper' /\ draft'.room \in listed \cup {None}
        /\ listed' = listed /\ news' = news /\ row' = row
    BY <1>5, SketchProper
  <2>2. DraftFollowsStep'
    <3>1. draft'.start = None => draft'.missing # {}
      BY <2>1, Settings DEF DraftProper
    <3>2. "times" \in draft'.problems => draft'.problems # {}
      OBVIOUS
    <3>3. answer = 0
      OBVIOUS
    <3> HIDE DEF Judge, IndInv, OfficeTyped, PhraseFollowsStep
    <3> QED
      BY <1>5, <2>1, <3>1, <3>2, <3>3 DEF DraftFollowsStep
  <2>3. ReliesOrNews'
    <3>1. answer' = 200 => ~Ready(draft')
      BY <1>5, <2>1 DEF Ready, DraftProper
    <3> QED
      BY <1>5, <2>1, <3>1 DEF ReliesOrNews, OpenRooms
  <2> QED
    BY <1>1, <1>2, <1>3, <2>2, <2>3
<1> QED
  BY <1>4, <1>5

\* The room that is found is one of those looked for; a choice of rooms says that one is missing.
LEMMA FindRoomStep == ASSUME IndInv, FindRoom PROVE IndInv'
<1> USE DEF IndInv, Reply, office, OfficeTyped, OfficeTypeOK, PhraseFollowsStep
<1>1. pc = "find" /\ pc' = "answered" /\ answer' = 200 /\ verdict = 0
      /\ UNCHANGED <<clock, row, booked, now, known, listed, attempt, heard, verdict, news>>
  BY DEF FindRoom
<1>2. DraftProper /\ draft.start # None /\ draft.room = None /\ draft.problems = {}
  BY <1>1 DEF DraftFollowsStep
<1>3. draft.start \in Int /\ draft.end \in Int
  BY <1>2 DEF DraftProper
<1>4. OfficeTyped' /\ PhraseFollowsStep' /\ RefusalIsNews'
  BY <1>1 DEF OnlyFailuresRepeated, RefusalIsNews
<1>5. ASSUME NEW r \in Found, draft' = [draft EXCEPT !.room = r]
      PROVE  DraftFollowsStep' /\ ReliesOrNews'
  <2>1. r \in OpenRooms /\ r \in Rooms /\ ~Busy(r, Interval)
    BY DEF Found, RoomsFree, OpenRooms
  <2>2. /\ DOMAIN draft' = DraftFields /\ draft'.room = r /\ draft'.start = draft.start
        /\ draft'.end = draft.end /\ draft'.attendees = draft.attendees
        /\ draft'.missing = draft.missing /\ draft'.problems = draft.problems
    BY <1>2, <1>5 DEF DraftProper, DraftFields
  <2>3. DraftFollowsStep'
    <3>1. DraftProper'
      BY <1>1, <1>2, <2>1, <2>2 DEF DraftProper
    <3> QED
      BY <1>1, <2>1, <2>2, <3>1, Settings DEF DraftFollowsStep
  <2>4. ReliesOrNews'
    <3>1. r \in listed \cup news
      BY <1>1, <2>1 DEF ReliesOrNews
    <3>2. ~Busy(r, Interval)'
      BY <1>1, <2>1, <2>2 DEF Busy, Meets, Interval
    <3> QED
      BY <1>1, <2>1, <2>2, <3>1, <3>2 DEF ReliesOrNews
  <2> QED
    BY <2>3, <2>4
<1>6. ASSUME NEW choice,
             draft' = [draft EXCEPT !.missing = @ \cup {"room"},
                                    !.rooms = choice,
                                    !.problems = @ \cup {q \in {"full"} : draft.attendees # None}]
      PROVE  DraftFollowsStep' /\ ReliesOrNews'
  <2>1. /\ DOMAIN draft' = DraftFields /\ draft'.room = draft.room /\ draft'.start = draft.start
        /\ draft'.end = draft.end /\ draft'.attendees = draft.attendees
        /\ draft'.missing = draft.missing \cup {"room"}
        /\ "times" \in draft'.problems <=> "times" \in draft.problems
    BY <1>2, <1>6 DEF DraftProper, DraftFields
  <2>2. DraftFollowsStep'
    <3>1. DraftProper'
      BY <1>1, <1>2, <2>1 DEF DraftProper
    <3> QED
      BY <1>1, <2>1, <3>1 DEF DraftFollowsStep
  <2>3. ReliesOrNews'
    BY <1>1, <1>2, <2>1 DEF ReliesOrNews, OpenRooms, Ready
  <2> QED
    BY <2>2, <2>3
<1>7. \/ \E r \in Found : draft' = [draft EXCEPT !.room = r]
      \/ \E choice \in RoomChoices :
           draft' = [draft EXCEPT !.missing = @ \cup {"room"},
                                  !.rooms = choice,
                                  !.problems = @ \cup {q \in {"full"} : draft.attendees # None}]
  BY Zenon DEF FindRoom
<1> HIDE DEF IndInv
<1>8. DraftFollowsStep' /\ ReliesOrNews'
  BY <1>5, <1>6, <1>7, Zenon
<1> QED
  BY <1>4, <1>8 DEF IndInv

LEMMA CheckRoomStep == ASSUME IndInv, CheckRoom PROVE IndInv'
<1> USE DEF IndInv, Reply, office, OfficeTyped, OfficeTypeOK, PhraseFollowsStep
<1>1. pc = "conflicts" /\ pc' = "answered" /\ answer' = 200 /\ verdict = 0
      /\ UNCHANGED <<clock, row, booked, now, known, listed, attempt, heard, verdict, news>>
      /\ draft' = [draft EXCEPT !.conflict = Busy(draft.room, Interval)]
  BY DEF CheckRoom
<1>2. DraftProper /\ draft.start # None /\ draft.room # None
  BY <1>1 DEF DraftFollowsStep
<1>3. /\ DOMAIN draft' = DraftFields /\ draft'.room = draft.room /\ draft'.start = draft.start
      /\ draft'.end = draft.end /\ draft'.attendees = draft.attendees
      /\ draft'.missing = draft.missing /\ draft'.problems = draft.problems
      /\ draft'.conflict = Busy(draft.room, Interval)
  BY <1>1, <1>2 DEF DraftProper, DraftFields
<1>4. OfficeTyped' /\ PhraseFollowsStep' /\ RefusalIsNews'
  BY <1>1 DEF OnlyFailuresRepeated, RefusalIsNews
<1>5. DraftFollowsStep'
  <2>1. DraftProper'
    BY <1>1, <1>2, <1>3 DEF DraftProper
  <2> QED
    BY <1>1, <1>2, <1>3, <2>1 DEF DraftFollowsStep
<1>6. ReliesOrNews'
  <2>1. Ready(draft') => ~Busy(draft.room, Interval)
    BY <1>3 DEF Ready
  <2>2. Busy(draft.room, Interval)' <=> Busy(draft.room, Interval)
    BY <1>1, <1>3 DEF Busy, Meets, Interval
  <2> QED
    BY <1>1, <1>2, <1>3, <2>1, <2>2 DEF ReliesOrNews
<1> QED
  BY <1>4, <1>5, <1>6

\* A ready draft is refused for what the verdict says, which was not so, or is news.
LEMMA ConfirmStep == ASSUME IndInv, Confirm PROVE IndInv'
<1> USE DEF IndInv, Confirm, OfficeTyped, OfficeTypeOK, PhraseFollowsStep
<1>1. DraftProper /\ draft.room \in Rooms /\ draft.start \in Int /\ draft.end \in Int
  BY DEF DraftFollowsStep, DraftProper, Ready
<1>2. OfficeTyped'
  BY <1>1 DEF Enter, Wanted
<1>3. verdict' \in {201, 404, 409, 422}
  BY DEF Verdict
<1>4. PhraseFollowsStep'
  BY <1>3 DEF OnlyFailuresRepeated
<1>5. DraftFollowsStep'
  BY DEF DraftFollowsStep, DraftProper
<1>6. ReliesOrNews'
  BY <1>3 DEF ReliesOrNews
<1>7. RefusalIsNews'
  <2>1. verdict' = 404 => draft.room \in news
    BY <1>1, Settings DEF Verdict, Wanted, ReliesOrNews
  <2>2. verdict' = 422 => clock # now
    BY <1>1, Settings DEF Verdict, Wanted, DraftProper, Ready
  <2>3. verdict' = 409 => draft.room \in news
    <3>1. answer = 200 /\ verdict = 0 /\ Ready(draft) /\ draft.room # None
      BY DEF PhraseFollowsStep, DraftFollowsStep, Ready
    <3>2. ~Busy(draft.room, Interval) \/ draft.room \in news
      BY <3>1 DEF ReliesOrNews
    <3>3. Busy(draft.room, Interval) <=> Busy(Wanted.room, Wanted)
      BY DEF Busy, Meets, Interval, Wanted
    <3>4. verdict' = 409 => Busy(Wanted.room, Wanted)
      BY DEF Verdict
    <3> QED
      BY <3>2, <3>3, <3>4
  <2> QED
    BY <2>1, <2>2, <2>3 DEF RefusalIsNews
<1> QED
  BY <1>2, <1>4, <1>5, <1>6, <1>7

LEMMA ForgetStep == ASSUME IndInv, Forget PROVE IndInv'
  BY DEF IndInv, Forget, office, OfficeTyped, OfficeTypeOK, PhraseFollowsStep, OnlyFailuresRepeated,
         DraftFollowsStep, ReliesOrNews, OpenRooms, RefusalIsNews

\* Whatever others do, it is news about the room they do it to, and the clock goes on.
LEMMA InterfereStep == ASSUME IndInv, Interfere PROVE IndInv'
<1> USE DEF IndInv, Interfere, phrase
<1>1. OfficeTyped'
  <2> SUFFICES ASSUME OthersWork PROVE OfficeTyped'
    OBVIOUS
  <2> HIDE DEF Interfere
  <2>0. UNCHANGED <<now, listed>>
    BY DEF Interfere
  <2> USE Settings, <2>0 DEF OfficeTyped, OfficeTypeOK
  <2>1. ASSUME NEW m \in Meetings, Book(m) PROVE OfficeTyped'
    BY <2>1 DEF Book, Enter
  <2>2. ASSUME NEW m \in booked, Cancel(m) PROVE OfficeTyped'
    BY <2>2 DEF Cancel
  <2>3. ASSUME NEW r \in Rooms, UpdateRoom(r) PROVE OfficeTyped'
    BY <2>3 DEF UpdateRoom
  <2>4. CASE Tick
    BY <2>4 DEF Tick
  <2> QED
    BY <2>1, <2>2, <2>3, <2>4 DEF OthersWork
<1>2. news \subseteq news' /\ \A r \in Rooms : row'[r] # row[r] => r \in news'
  OBVIOUS
<1>3. \A m \in booked' : m \in booked \/ m.room \in news'
  OBVIOUS
<1>4. clock <= clock' /\ clock' \in Int
  BY Settings DEF OfficeTyped, OfficeTypeOK, OthersWork, Book, Cancel, UpdateRoom, Tick
<1>5. PhraseFollowsStep' /\ DraftFollowsStep'
  BY DEF PhraseFollowsStep, OnlyFailuresRepeated, DraftFollowsStep, DraftProper
<1>6. ReliesOrNews'
  <2>1. Busy(draft.room, Interval)' => Busy(draft.room, Interval) \/ draft.room \in news'
    BY <1>3 DEF Busy, Meets, Interval
  <2>2. draft # None \/ answer = 200 \/ pc \in {"find", "conflicts"} =>
          draft.room \in Rooms \cup {None}
    BY DEF DraftFollowsStep, DraftProper
  <2> QED
    BY <1>2, <2>1, <2>2 DEF ReliesOrNews, OpenRooms, OfficeTyped
<1>7. RefusalIsNews'
  BY <1>2, <1>4, Settings DEF RefusalIsNews, OfficeTyped, OfficeTypeOK
<1> QED
  BY <1>1, <1>5, <1>6, <1>7

LEMMA NextIndInv == IndInv /\ [Next]_vars => IndInv'
<1> SUFFICES ASSUME IndInv, [Next]_vars PROVE IndInv'
  OBVIOUS
<1>1. CASE UNCHANGED vars
  BY <1>1
  DEF vars, office, phrase, IndInv, OfficeTyped, OfficeTypeOK, PhraseFollowsStep,
      OnlyFailuresRepeated, DraftFollowsStep, DraftProper, ReliesOrNews, OpenRooms, Busy, Interval,
      RefusalIsNews
<1> QED
  BY <1>1, ArriveStep, ListRoomsStep, CallStep, JudgeStep, FindRoomStep, CheckRoomStep,
     ConfirmStep, ForgetStep, InterfereStep
  DEF Next, ServePhrase

\* The inductive invariant holds: what a phrase relies on is so, or has changed since it arrived.
THEOREM Invariance == Spec => []IndInv
  BY InitIndInv, NextIndInv, PTL DEF Spec

\* A ready draft that is refused is refused for something that happened meanwhile.
THEOREM RefusalIsNewsHolds == Spec => []RefusalIsNews
  BY Invariance, PTL DEF IndInv

\* A draft that is not ready says why, whatever the LLM returned.
THEOREM UnreadyHasReasonHolds == Spec => []UnreadyHasReason
<1>1. IndInv => UnreadyHasReason
  BY Settings DEF IndInv, DraftFollowsStep, DraftProper, UnreadyHasReason, Ready
<1> QED
  BY Invariance, <1>1, PTL

\* A ready draft keeps the rules, in a room that somebody offered.
THEOREM ReadyKeepsRulesHolds == Spec => []ReadyKeepsRules
<1>1. IndInv => ReadyKeepsRules
  BY DEF IndInv, DraftFollowsStep, DraftProper, ReliesOrNews, ReadyKeepsRules, Ready
<1> QED
  BY Invariance, <1>1, PTL

\* The first of the rooms in the order of free_rooms is one of the smallest of those that seat the
\* company, as far as the capacities it goes by are those of now.
LEMMA BestIsSmallest ==
  ASSUME OfficeTypeOK, NEW S \in SUBSET Rooms, NEW target \in Nat,
         \A s \in S : row[s].capacity >= target,
         NEW r, IsBest(r, S, target, known), AsRead(r),
         NEW s \in S, AsRead(s)
  PROVE  row[r].capacity <= row[s].capacity
<1>1. /\ r \in S /\ row[r].capacity \in Nat /\ row[s].capacity \in Nat
      /\ row[r].capacity >= target /\ row[s].capacity >= target
  BY DEF IsBest, OfficeTypeOK, Row
<1>2. CASE r = s
  BY <1>1, <1>2
<1>3. CASE r # s
  <2>1. ~BetterRoom(target, Seen(known, s), Seen(known, r))
    BY <1>3 DEF IsBest
  <2>2. ~(Abs(row[s].capacity - target) < Abs(row[r].capacity - target))
    <3>1. /\ Seen(known, s).capacity = row[s].capacity
          /\ Seen(known, r).capacity = row[r].capacity
      BY DEF AsRead
    <3> HIDE DEF Seen
    <3> QED
      BY <1>1, <2>1, <3>1 DEF BetterRoom
  <2> QED
    BY <1>1, <2>2 DEF Abs
<1> QED
  BY <1>2, <1>3

\* The room that the draft of a company gets is open and free and seats everybody when it is
\* chosen, and a smaller one that does too was passed over only for a capacity that has changed.
THEOREM SmallestUnlessResizedHolds == Spec => SmallestUnlessResized
<1>1. ASSUME IndInv, FindRoom, draft'.room # None
      PROVE  /\ WouldDo(draft'.room)
             /\ \A r \in Rooms :
                  WouldDo(r) /\ AsRead(r) /\ AsRead(draft'.room) =>
                    row[draft'.room].capacity <= row[r].capacity
  <2>1. /\ DraftProper /\ draft.start \in Int /\ draft.end \in Int /\ draft.room = None
        /\ OfficeTypeOK
    BY <1>1 DEF IndInv, FindRoom, DraftFollowsStep, DraftProper, OfficeTyped
  <2>2. PICK r \in Found : /\ draft.attendees # None /\ IsBest(r, Found, Company, known)
                           /\ draft' = [draft EXCEPT !.room = r]
    <3>1. ASSUME NEW choice,
                 draft' = [draft EXCEPT !.missing = @ \cup {"room"},
                                        !.rooms = choice,
                                        !.problems = @ \cup {q \in {"full"} : draft.attendees # None}]
          PROVE  draft'.room = draft.room
      BY <2>1, <3>1 DEF DraftProper, DraftFields
    <3> QED
      BY <1>1, <2>1, <3>1 DEF FindRoom
  <2>3. draft'.room = r /\ Company = draft.attendees /\ draft.attendees \in Nat
    BY <2>1, <2>2 DEF DraftProper, DraftFields, Company
  <2>4. \A s \in Rooms : s \in Found <=> WouldDo(s)
    <3>1. ASSUME NEW s \in Rooms
          PROVE  ~Busy(s, Interval) <=>
                   \A b \in booked : b.room = s => b.end <= draft.start \/ draft.end <= b.start
      BY <2>1 DEF Busy, Meets, Interval, OfficeTypeOK
    <3> QED
      BY <2>3, <3>1 DEF Found, RoomsFree, OpenRooms, WouldDo
  <2>5. Found \subseteq Rooms /\ \A s \in Found : row[s].capacity >= draft.attendees
    BY <2>3 DEF Found, RoomsFree, OpenRooms
  <2>6. \A s \in Found : AsRead(s) /\ AsRead(r) => row[r].capacity <= row[s].capacity
    BY <2>1, <2>2, <2>3, <2>5, BestIsSmallest
  <2> QED
    BY <2>2, <2>3, <2>4, <2>5, <2>6
<1>2. ASSUME IndInv, [Next]_vars, pc = "find", draft'.room # None
      PROVE  FindRoom
  <2>1. draft.room = None
    BY <1>2 DEF IndInv, DraftFollowsStep
  <2>2. draft' # draft
    BY <1>2, <2>1
  <2> QED
    BY <1>2, <2>2 DEF Next, ServePhrase, Arrive, ListRooms, Call, Sleep, Judge, CheckRoom,
                      Confirm, Forget, Interfere, phrase, vars
<1>3. IndInv /\ [Next]_vars =>
        [pc = "find" /\ draft'.room # None =>
           /\ WouldDo(draft'.room)
           /\ \A r \in Rooms :
                WouldDo(r) /\ AsRead(r) /\ AsRead(draft'.room) =>
                  row[draft'.room].capacity <= row[r].capacity]_vars
  BY <1>1, <1>2
<1> QED
  BY Invariance, <1>3, PTL DEF Spec, SmallestUnlessResized

\* No paid call is made again after an answer, a timeout or a refusal.
THEOREM OnlyFailuresRepeatedHolds == Spec => []OnlyFailuresRepeated
  BY Invariance, PTL DEF IndInv, PhraseFollowsStep
=============================================================================
