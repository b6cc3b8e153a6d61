------------------------------- MODULE Drafts -------------------------------
(***************************************************************************)
(* A booking by phrase: draft_from_text of app/services/nl_booking.py, the *)
(* retry loop of app/llm/client.py it calls, and the client that confirms  *)
(* the draft with a POST /bookings.                                        *)
(*                                                                         *)
(* The LLM is outside the program: a call ends in any of the ways the      *)
(* client distinguishes, with any parameters.  One phrase is followed      *)
(* through the office, where others work while the LLM thinks.             *)
(***************************************************************************)
EXTENDS Office

CONSTANTS
  Phrases,          \* what the LLM may extract: records of Parsed
  MaxRetries,       \* settings.llm_max_retries
  DefaultDuration,  \* DEFAULT_DURATION_MIN
  MaxAlternatives,  \* MAX_ALTERNATIVES
  None              \* null

\* the fields of ParsedPhrase the code looks at; end_time and start_time are local
Parsed ==
  [booking : BOOLEAN, room : Rooms \cup {None}, date : Int \cup {None},
   start : (0 .. Day - 1) \cup {None}, end : (0 .. Day - 1) \cup {None},
   duration : (Nat \ {0}) \cup {None}, attendees : (Nat \ {0}) \cup {None}]

ASSUME DraftsAssumption ==
  /\ None \notin Rooms \cup Int
  /\ Phrases \subseteq Parsed
  /\ MaxRetries \in Nat
  /\ DefaultDuration \in Nat
  /\ MaxAlternatives \in Nat

VARIABLES
  pc,       \* the next step of the phrase
  now,      \* the "now" taken when the phrase arrived
  known,    \* the rooms its session has loaded, as they were when it loaded them
  listed,   \* the rooms of the prompt
  attempt,  \* the attempt of complete_json that runs
  heard,    \* history: how the calls for this phrase ended
  draft,    \* the Draft, None before there is one
  answer,   \* the HTTP status of the phrase, 0 before it is answered
  verdict,  \* what POST /bookings answered to the draft as it is, 0 before
  news      \* history: the rooms that others booked, cancelled or changed since it arrived

phrase == <<pc, now, known, listed, attempt, heard, draft, answer, verdict>>
vars == <<office, phrase, news>>

Outcomes == {"transport", "busy", "timeout", "rejected", "refused", "garbled", "parsed"}

DraftType ==
  [room : Rooms \cup {None}, start : Int \cup {None}, end : Int \cup {None},
   attendees : Nat \cup {None},
   missing : SUBSET {"start_time", "room"}, problems : SUBSET {"room", "times", "full"},
   conflict : BOOLEAN, rooms : Seq(Rooms)]

TypeOK ==
  /\ OfficeTypeOK
  /\ pc \in {"idle", "rooms", "call", "sleep", "find", "conflicts", "answered"}
  /\ now \in MinClock .. MaxClock
  /\ DOMAIN known \subseteq Rooms /\ known \in [DOMAIN known -> Row]
  /\ listed \subseteq Rooms
  /\ attempt \in 0 .. MaxRetries
  /\ heard \subseteq Outcomes
  /\ draft = None \/ draft \in DraftType
  /\ answer \in {0, 200, 422, 429, 502, 503}
  /\ verdict \in {0, 201, 404, 409, 422}
  /\ news \subseteq Rooms

Init ==
  /\ OfficeInit
  /\ pc = "idle"
  /\ now = MinClock
  /\ known = <<>>
  /\ listed = {}
  /\ attempt = 0
  /\ heard = {}
  /\ draft = None
  /\ answer = 0
  /\ verdict = 0
  /\ news = {}
-----------------------------------------------------------------------------
(***************************************************************************)
(* The call of the LLM.                                                    *)
(***************************************************************************)

Reply(code) == pc' = "answered" /\ answer' = code

\* check_rate_limit and the rules for the text come first and answer at once; the page of the web
\* has listed the rooms before them, the API has not
Arrive ==
  /\ pc = "idle"
  /\ now' = clock
  /\ known' \in {<<>>, Listing(<<>>)}
  /\ \/ \E code \in {422, 429} : Reply(code)
     \/ pc' = "rooms" /\ UNCHANGED answer
  /\ news' = {}
  /\ UNCHANGED <<office, listed, attempt, heard, draft, verdict>>

\* list_rooms; without a key complete_json gives up before it calls
ListRooms ==
  /\ pc = "rooms"
  /\ listed' = OpenRooms
  /\ known' = Listing(known)
  /\ \/ Reply(503)
     \/ pc' = "call" /\ UNCHANGED answer
  /\ UNCHANGED <<office, now, attempt, heard, draft, verdict, news>>

\* mutant of Repeated: httpx.TimeoutException caught as the TransportError it is
RepeatedTimeout == {"transport", "busy", "timeout"}

\* what is worth another attempt: a network error, 429 and 5xx
Repeated == {"transport", "busy"}

\* mutant of CallFails: the attempts are not counted
CallFailsUncounted(o) ==
  /\ o \in Repeated
  /\ pc' = "sleep"
  /\ UNCHANGED <<attempt, answer>>

CallFails(o) ==
  /\ o \in Repeated
  /\ \/ attempt < MaxRetries /\ pc' = "sleep" /\ attempt' = attempt + 1 /\ UNCHANGED answer
     \/ attempt = MaxRetries /\ Reply(503) /\ UNCHANGED attempt

\* a timeout or a rejected key; any other 4xx, a body that does not parse or not validate
CallEnds(o) ==
  /\ o \notin Repeated \cup {"parsed"}
  /\ Reply(IF o \in {"timeout", "rejected"} THEN 503 ELSE 502)
  /\ UNCHANGED attempt

Call ==
  /\ pc = "call"
  /\ \E o \in Outcomes \ {"parsed"} :
       /\ CallFails(o) \/ CallEnds(o)
       /\ heard' = heard \cup {o}
  /\ UNCHANGED <<office, now, known, listed, draft, verdict, news>>

Sleep ==
  /\ pc = "sleep"
  /\ pc' = "call"
  /\ UNCHANGED <<office, now, known, listed, attempt, heard, draft, answer, verdict, news>>
-----------------------------------------------------------------------------
(***************************************************************************)
(* What the code makes of the parameters.                                  *)
(***************************************************************************)

\* local_dt: a local time of day as an instant; the day is today's unless one was named
At(p, time) == (IF p.date = None THEN DayOf(now) ELSE p.date) * Day + time - TzOffset

StartOf(p) == IF p.start = None THEN None ELSE At(p, p.start)

EndOf(p) ==
  IF p.start = None THEN None
  ELSE IF p.end # None THEN At(p, p.end)
  ELSE At(p, p.start) + (IF p.duration = None THEN DefaultDuration ELSE p.duration)

\* mutant of Breaks: the rules are applied only when the day was named
BreaksNamedDay(p) == p.start # None /\ p.date # None /\ ~ValidTimes(StartOf(p), EndOf(p), now)

\* validate_times refuses the interval
Breaks(p) == p.start # None /\ ~ValidTimes(StartOf(p), EndOf(p), now)

\* the part of the draft that needs no further query
Sketch(p) ==
  LET room == IF p.room \in listed THEN p.room ELSE None
      unknown == p.room # None /\ room = None
      bad == Breaks(p)
  IN  [room |-> room, start |-> StartOf(p), end |-> EndOf(p), attendees |-> p.attendees,
       missing |-> {m \in {"start_time"} : p.start = None}
                   \cup {m \in {"room"} : room = None /\ (p.start = None \/ bad)},
       problems |-> {q \in {"room"} : unknown} \cup {q \in {"times"} : bad},
       conflict |-> FALSE, rooms |-> <<>>]

\* the answer of the LLM is there: all that follows it without an await
Judge ==
  /\ pc = "call"
  /\ heard' = heard \cup {"parsed"}
  /\ \E p \in Phrases :
       \/ ~p.booking /\ Reply(422) /\ UNCHANGED draft
       \/ /\ p.booking
          /\ draft' = Sketch(p)
          /\ \/ /\ draft'.start # None /\ draft'.room = None /\ draft'.problems = {}
                /\ pc' = "find" /\ UNCHANGED answer
             \/ /\ draft'.start # None /\ draft'.room # None /\ "times" \notin draft'.problems
                /\ pc' = "conflicts" /\ UNCHANGED answer
             \/ /\ \/ draft'.start = None
                   \/ "times" \in draft'.problems
                   \/ draft'.room = None /\ draft'.problems # {}
                /\ Reply(200)
  /\ UNCHANGED <<office, now, known, listed, attempt, verdict, news>>

Interval == [start |-> draft.start, end |-> draft.end]

\* attendees or 1
Company == IF draft.attendees = None THEN 1 ELSE draft.attendees

\* mutant of Found: the rooms are not narrowed to the company
FoundAnySize == RoomsFree(Interval, 1, {})

\* free_rooms with min_capacity = attendees or 1
Found == RoomsFree(Interval, Company, {})

\* free[:MAX_ALTERNATIVES], in any order the sort may leave
RoomChoices ==
  {FirstOf(s, MaxAlternatives) : s \in FreeRooms(Interval, Company, {}, Company, known)}

\* mutant of FindRoom: a choice of rooms without the field that asks for it
FindRoomSilent ==
  /\ pc = "find"
  /\ \/ /\ draft.attendees # None
        /\ \E r \in Found : IsBest(r, Found, Company, known) /\ draft' = [draft EXCEPT !.room = r]
     \/ /\ draft.attendees = None \/ Found = {}
        /\ \E choice \in RoomChoices : draft' = [draft EXCEPT !.rooms = choice]
  /\ Reply(200)
  /\ UNCHANGED <<office, now, known, listed, attempt, heard, verdict, news>>

\* no room was named: the best free one for the company, or a choice
FindRoom ==
  /\ pc = "find"
  /\ \/ /\ draft.attendees # None
        /\ \E r \in Found : IsBest(r, Found, Company, known) /\ draft' = [draft EXCEPT !.room = r]
     \/ /\ draft.attendees = None \/ Found = {}
        /\ \E choice \in RoomChoices :
             draft' = [draft EXCEPT
               !.missing = @ \cup {"room"},
               !.rooms = choice,
               !.problems = @ \cup {q \in {"full"} : draft.attendees # None}]
  /\ Reply(200)
  /\ UNCHANGED <<office, now, known, listed, attempt, heard, verdict, news>>

\* mutant of CheckRoom: the room that was named is taken at its word
CheckRoomNever ==
  /\ pc = "conflicts"
  /\ Reply(200)
  /\ UNCHANGED <<office, now, known, listed, attempt, heard, draft, verdict, news>>

\* find_conflicts for the room that was named (its alternatives are the subject of Alternatives)
CheckRoom ==
  /\ pc = "conflicts"
  /\ draft' = [draft EXCEPT !.conflict = Busy(draft.room, Interval)]
  /\ Reply(200)
  /\ UNCHANGED <<office, now, known, listed, attempt, heard, verdict, news>>

\* Draft.ready
Ready(d) ==
  /\ d.room # None /\ d.start # None /\ d.end # None
  /\ d.missing = {} /\ d.problems = {} /\ ~d.conflict
-----------------------------------------------------------------------------
(***************************************************************************)
(* The client and the others.                                              *)
(***************************************************************************)

\* the fields of the draft go to POST /bookings as they are
Wanted == [room |-> draft.room, start |-> draft.start, end |-> draft.end]

Confirm ==
  /\ pc = "answered" /\ draft # None /\ verdict = 0
  /\ Ready(draft)
  /\ verdict' = Verdict(Wanted)
  /\ Enter(Wanted)
  /\ UNCHANGED <<clock, row, pc, now, known, listed, attempt, heard, draft, answer, news>>

\* the client is done and starts again
Forget ==
  /\ pc = "answered"
  /\ pc' = "idle" /\ known' = <<>> /\ listed' = {} /\ attempt' = 0 /\ heard' = {}
  /\ draft' = None /\ answer' = 0 /\ verdict' = 0
  /\ UNCHANGED <<office, now, news>>

\* somebody else changes the office
Interfere ==
  /\ OthersWork
  /\ news' = news \cup {r \in Rooms : row'[r] # row[r]}
                  \cup {m.room : m \in (booked' \ booked) \cup (booked \ booked')}
  /\ UNCHANGED phrase

ServePhrase == ListRooms \/ Call \/ Sleep \/ Judge \/ FindRoom \/ CheckRoom

Next == Arrive \/ ServePhrase \/ Confirm \/ Forget \/ Interfere

Spec == Init /\ [][Next]_vars

\* asyncio resumes the request, the database answers its queries, and every call of the LLM ends:
\* httpx limits each of its network operations, so one that does not is never silent for long
FairSpec == Spec /\ WF_vars(ServePhrase)
-----------------------------------------------------------------------------
(***************************************************************************)
(* Properties.                                                             *)
(***************************************************************************)

\* A draft called ready is refused only for something that happened after the phrase arrived: the
\* room was changed or taken meanwhile, or time went on.  Left alone, it can be posted as it is.
RefusalIsNews ==
  /\ verdict \in {404, 409} => draft.room \in news
  /\ verdict = 422 => clock > now

\* A draft that is not ready says why, whatever the LLM returned: every early return of
\* draft_from_text leaves a missing field, a problem or a conflict behind.
UnreadyHasReason ==
  answer = 200 /\ ~Ready(draft) =>
    draft.missing # {} \/ draft.problems # {} \/ draft.conflict

\* The draft never books what the rules forbid and never names a room nobody offered: whatever
\* the LLM made up, a ready draft keeps the rules at its "now".
ReadyKeepsRules ==
  answer = 200 /\ Ready(draft) =>
    /\ ValidTimes(draft.start, draft.end, now)
    /\ draft.room \in listed \cup news

\* r would do for the company of the draft: it is open, seats everybody and is free, by the
\* tables as they are
WouldDo(r) ==
  /\ row[r].open
  /\ row[r].capacity >= draft.attendees
  /\ \A b \in booked : b.room = r => b.end <= draft.start \/ draft.end <= b.start

\* nobody has changed the capacity of r since the session loaded it
AsRead(r) == Seen(known, r).capacity = row[r].capacity

\* However long the LLM took, the room chosen for a company would do when it is chosen, and none
\* that would do is smaller, unless the capacity of one of the two was changed after list_rooms:
\* the query finds the rooms by the capacities of now, the sort goes by those loaded before.
SmallestUnlessResized ==
  [][pc = "find" /\ draft'.room # None =>
       /\ WouldDo(draft'.room)
       /\ \A r \in Rooms :
            WouldDo(r) /\ AsRead(r) /\ AsRead(draft'.room) =>
              row[draft'.room].capacity <= row[r].capacity]_vars

\* A paid call is repeated only after a network error, 429 or 5xx: after a timeout, a refusal or
\* an answer no other call is made for the phrase (the comment of complete_json).
OnlyFailuresRepeated ==
  pc \in {"call", "sleep"} => heard \subseteq {"transport", "busy"}

\* Every phrase is answered, however the LLM fails.
EveryPhraseAnswered == pc = "rooms" ~> pc = "answered"
=============================================================================
