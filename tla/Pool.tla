-------------------------------- MODULE Pool --------------------------------
(***************************************************************************)
(* The connection pool of app/db.py and the time requests keep what they   *)
(* take from it.  A request takes a connection with its first statement,   *)
(* the one that loads its user, and returns it with a commit or with its   *)
(* end.  create_booking commits and then refreshes the row, a registration *)
(* over the web commits and then opens a session: these ask the pool       *)
(* twice.  draft_from_text keeps its connection while the LLM thinks and   *)
(* while complete_json pauses between two attempts.                        *)
(*                                                                         *)
(* Time is counted in ticks; statements take none at this scale.  httpx    *)
(* counts llm_timeout_seconds anew for each operation on the network (to   *)
(* connect, to write, to read a piece of the answer), so the timeout       *)
(* bounds each of these and not the call.  The pool, SQLAlchemy's default  *)
(* one, is modelled from how it is used: whoever finds no connection waits *)
(* PoolTimeout for one to come back, in no order the code could rely on.   *)
(***************************************************************************)
EXTENDS Integers, FiniteSets

CONSTANTS
  Visitors,     \* requests of one transaction: pages, lists, cancellations, logins
  Returners,    \* requests that ask the pool again after a commit
  Phrases,      \* POST /bookings/parse and the phrase form
  Size,         \* pool_size + max_overflow
  PoolTimeout,  \* pool_timeout
  CallTimeout,  \* settings.llm_timeout_seconds, for one operation of a call
  Backoff,      \* the pause before the second attempt; it grows with each
  Attempts      \* settings.llm_max_retries + 1

Others == Visitors \cup Returners
Requests == Others \cup Phrases

ASSUME PoolAssumption ==
  /\ Visitors \cap Returners = {} /\ Others \cap Phrases = {}
  /\ IsFiniteSet(Requests)
  /\ {Size, PoolTimeout, CallTimeout, Backoff, Attempts} \subseteq Nat \ {0}

VARIABLES
  pc,       \* the next step of each request
  held,     \* the requests that hold a connection
  age,      \* ticks since the present wait, operation on the network or pause began
  life,     \* history: ticks since a request that needs no LLM arrived
  attempt,  \* the attempt of complete_json that runs, from 0
  answer    \* the status it answered last, 0 while it runs

vars == <<pc, held, age, life, attempt, answer>>

TypeOK ==
  /\ pc \in [Requests -> {"idle", "wait", "busy", "call", "sleep", "rewait", "again"}]
  /\ held \subseteq Requests
  /\ age \in [Requests -> Nat]
  /\ life \in [Others -> Nat]
  /\ attempt \in [Phrases -> 0 .. Attempts - 1]
  /\ answer \in [Requests -> {0, 200, 409, 500, 503}]

Init ==
  /\ pc = [r \in Requests |-> "idle"]
  /\ held = {}
  /\ age = [r \in Requests |-> 0]
  /\ life = [o \in Others |-> 0]
  /\ attempt = [p \in Phrases |-> 0]
  /\ answer = [r \in Requests |-> 0]

Goto(r, step) == pc' = [pc EXCEPT ![r] = step]

\* a wait, an operation or a pause begins or is over
Restart(r) == age' = [age EXCEPT ![r] = 0]

\* the answer, and the end of the session, which returns the connection; another request may follow
Reply(r, code) ==
  /\ Goto(r, "idle")
  /\ held' = held \ {r}
  /\ answer' = [answer EXCEPT ![r] = code]
  /\ Restart(r)
  /\ life' = [o \in Others |-> IF o = r THEN 0 ELSE life[o]]
  /\ attempt' = [p \in Phrases |-> IF p = r THEN 0 ELSE attempt[p]]

FreeConnection == Cardinality(held) < Size
-----------------------------------------------------------------------------
Arrive(r) ==
  /\ pc[r] = "idle"
  /\ Goto(r, "wait")
  /\ answer' = [answer EXCEPT ![r] = 0]
  /\ UNCHANGED <<held, age, life, attempt>>

\* the first statement, and the first one after a commit, take a connection
Take(r) ==
  /\ FreeConnection
  /\ \/ pc[r] = "wait" /\ Goto(r, IF r \in Phrases THEN "call" ELSE "busy")
     \/ pc[r] = "rewait" /\ Goto(r, "again")
  /\ held' = held \cup {r}
  /\ Restart(r)
  /\ UNCHANGED <<life, attempt, answer>>

\* mutant of Exhausted: a request that found no connection asks again
ExhaustedAgain(r) ==
  /\ pc[r] \in {"wait", "rewait"}
  /\ ~FreeConnection
  /\ age[r] = PoolTimeout
  /\ Restart(r)
  /\ UNCHANGED <<pc, held, life, attempt, answer>>

\* QueuePool gives up: TimeoutError is nobody's DomainError and answers 500
Exhausted(r) ==
  /\ pc[r] \in {"wait", "rewait"}
  /\ ~FreeConnection
  /\ age[r] = PoolTimeout
  /\ Reply(r, 500)

\* the rest of the last transaction and its answer; without a second one it is a refusal
Finish(r) ==
  /\ pc[r] \in {"busy", "again"}
  /\ Reply(r, IF r \in Returners /\ pc[r] = "busy" THEN 409 ELSE 200)

\* create_booking and register_user commit, which returns the connection, before the refresh of
\* the row or the DELETE of create_session
CommitFirst(b) ==
  /\ pc[b] = "busy"
  /\ held' = held \ {b}
  /\ Goto(b, "rewait")
  /\ UNCHANGED <<age, life, attempt, answer>>

\* an operation on the network is done in time and the next one of the same call begins
CallGoesOn(p) ==
  /\ pc[p] = "call"
  /\ Restart(p)
  /\ UNCHANGED <<pc, held, life, attempt, answer>>

\* the LLM answers: what follows needs no other connection
CallAnswers(p) ==
  /\ pc[p] = "call"
  /\ Goto(p, "busy")
  /\ Restart(p)
  /\ UNCHANGED <<held, life, attempt, answer>>

\* a network error, 429 or 5xx: a pause before the next attempt, or the end
CallFails(p) ==
  /\ pc[p] = "call"
  /\ \/ /\ attempt[p] < Attempts - 1
        /\ attempt' = [attempt EXCEPT ![p] = @ + 1]
        /\ Goto(p, "sleep")
        /\ Restart(p)
        /\ UNCHANGED <<held, life, answer>>
     \/ /\ attempt[p] = Attempts - 1
        /\ Reply(p, 503)

Pause(p) == Backoff * attempt[p]

\* asyncio.sleep is over: the next attempt
CallAgain(p) ==
  /\ pc[p] = "sleep" /\ age[p] = Pause(p)
  /\ Goto(p, "call")
  /\ Restart(p)
  /\ UNCHANGED <<held, life, attempt, answer>>

\* mutant of CallEnds: the error is answered, the session of the request stays open
CallEndsLeaking(p) ==
  /\ pc[p] = "call"
  /\ Goto(p, "idle")
  /\ answer' = [answer EXCEPT ![p] = 503]
  /\ Restart(p)
  /\ attempt' = [attempt EXCEPT ![p] = 0]
  /\ UNCHANGED <<held, life>>

\* a refusal, a body that does not parse, or the timeout of an operation: none is tried again
CallEnds(p) ==
  /\ pc[p] = "call"
  /\ Reply(p, 503)

Serve(r) == Take(r) \/ Exhausted(r) \/ Finish(r)

ServePhrase(p) ==
  CallGoesOn(p) \/ CallAnswers(p) \/ CallFails(p) \/ CallEnds(p) \/ CallAgain(p)

\* a request that is not waiting for time to pass
Hurried(r) ==
  \/ pc[r] \in {"busy", "again"}
  \/ pc[r] \in {"wait", "rewait"} /\ (FreeConnection \/ age[r] = PoolTimeout)
  \/ pc[r] = "call" /\ age[r] = CallTimeout
  \/ pc[r] = "sleep" /\ age[r] = Pause(r)

Tick ==
  /\ \A r \in Requests : ~Hurried(r)
  /\ LET lasting == {r \in Requests : pc[r] # "idle"} IN
       /\ lasting # {}
       /\ age' = [r \in Requests |-> IF r \in lasting THEN age[r] + 1 ELSE age[r]]
       /\ life' = [o \in Others |-> IF o \in lasting THEN life[o] + 1 ELSE life[o]]
  /\ UNCHANGED <<pc, held, attempt, answer>>

Next ==
  \/ \E r \in Requests : Arrive(r) \/ Serve(r)
  \/ \E b \in Returners : CommitFirst(b)
  \/ \E p \in Phrases : ServePhrase(p)
  \/ Tick

Spec == Init /\ [][Next]_vars
-----------------------------------------------------------------------------
(***************************************************************************)
(* Properties.                                                             *)
(***************************************************************************)

\* Only the phrases make others wait, and only all together: whenever a request spends time
\* waiting for a connection, Size phrases are in their calls or pause between two, whatever
\* happened before.  No end of a request, by an answer, an error, a timeout or a TimeoutError,
\* leaves a connection behind.
OnlySlowPhrasesHoldUp ==
  [][\A r \in Requests :
       pc[r] \in {"wait", "rewait"} /\ age'[r] > age[r] =>
         Cardinality({p \in Phrases : pc[p] \in {"call", "sleep"}}) = Size]_vars

\* However long the LLM takes and however many phrases wait for it, whoever does not need it has
\* an answer, be it a 500, before the timeouts of the pool add up: one for a request of one
\* transaction, two for one that comes back to the pool, however the second wait begins.
AnsweredInTime ==
  /\ \A v \in Visitors : life[v] <= PoolTimeout
  /\ \A b \in Returners : life[b] <= 2 * PoolTimeout
-----------------------------------------------------------------------------
\* The docstring of ExternalServiceError, "the rest of the service goes on working", and the
\* README, "a failure of DeepSeek does not break the service": whoever needs no LLM is served.
OthersKeepWorking == \A o \in Others : answer[o] # 500
=============================================================================
