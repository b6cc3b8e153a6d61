------------------------------ MODULE PoolProofs ------------------------------
(***************************************************************************)
(* Theorems about Pool, for every number of requests and connections and   *)
(* for all timeouts and pauses.                                            *)
(***************************************************************************)
EXTENDS Pool, FiniteSetTheorems, TLAPS

\* the requests that have a connection to give back
Holders == {r \in Requests : pc[r] \in {"busy", "call", "sleep", "again"}}

\* Connections are held exactly where the code has one in hand, and by as many as there are.
ConnectionsInHand ==
  /\ held = Holders
  /\ Cardinality(held) <= Size
  /\ \A r \in Requests : pc[r] \in {"call", "sleep"} => r \in Phrases
  /\ \A r \in Requests : pc[r] \in {"rewait", "again"} => r \in Returners

\* Where a request that needs no LLM stands bounds the time since it arrived.
TimeInHand ==
  /\ \A r \in Requests :
       /\ pc[r] \in {"idle", "busy", "again"} => age[r] = 0
       /\ pc[r] \in {"wait", "rewait"} => age[r] <= PoolTimeout
  /\ \A o \in Others :
       /\ pc[o] = "idle" => life[o] = 0
       /\ pc[o] = "wait" => life[o] <= age[o]
       /\ pc[o] = "busy" => life[o] <= PoolTimeout
       /\ pc[o] = "rewait" => life[o] <= PoolTimeout + age[o]
       /\ pc[o] = "again" => life[o] <= 2 * PoolTimeout

IndInv == TypeOK /\ ConnectionsInHand /\ TimeInHand
-----------------------------------------------------------------------------
LEMMA Settings ==
  /\ Size \in Nat \ {0} /\ PoolTimeout \in Nat \ {0}
  /\ Attempts \in Nat \ {0}
  BY PoolAssumption

LEMMA Kinds ==
  /\ \A o \in Others : o \in Requests /\ o \notin Phrases
  /\ \A b \in Returners : b \in Others
  /\ \A p \in Phrases : p \in Requests /\ p \notin Others
  BY PoolAssumption DEF Requests, Others

LEMMA InitIndInv == Init => IndInv
<1> SUFFICES ASSUME Init PROVE IndInv
  OBVIOUS
<1>1. TypeOK
  BY Settings DEF Init, TypeOK
<1>2. ConnectionsInHand
  <2>1. held = {} /\ Holders = {}
    BY DEF Init, Holders
  <2>2. Cardinality(held) = 0
    BY <2>1, FS_EmptySet
  <2> QED
    BY <2>1, <2>2, Settings DEF Init, ConnectionsInHand
<1>3. TimeInHand
  BY Settings, Kinds DEF Init, TimeInHand
<1> QED
  BY <1>1, <1>2, <1>3 DEF IndInv

LEMMA ReplyType ==
  ASSUME TypeOK, NEW r \in Requests, NEW code \in {200, 409, 500, 503}, Reply(r, code)
  PROVE  TypeOK'
  BY Settings DEF TypeOK, Reply, Goto, Restart

LEMMA TypeStep == TypeOK /\ [Next]_vars => TypeOK'
<1> SUFFICES ASSUME TypeOK, [Next]_vars PROVE TypeOK'
  OBVIOUS
<1> USE DEF TypeOK, Goto, Restart
<1>1. ASSUME NEW r \in Requests, Arrive(r) PROVE TypeOK'
  BY <1>1, Settings DEF Arrive
<1>2. ASSUME NEW r \in Requests, Take(r) PROVE TypeOK'
  BY <1>2 DEF Take
<1>3. ASSUME NEW r \in Requests, Exhausted(r) PROVE TypeOK'
  BY <1>3, ReplyType DEF Exhausted
<1>4. ASSUME NEW r \in Requests, Finish(r) PROVE TypeOK'
  BY <1>4, ReplyType DEF Finish
<1>5. ASSUME NEW b \in Returners, CommitFirst(b) PROVE TypeOK'
  BY <1>5, Kinds DEF CommitFirst
<1>6. ASSUME NEW p \in Phrases, CallGoesOn(p) \/ CallAnswers(p) \/ CallAgain(p) PROVE TypeOK'
  BY <1>6, Kinds DEF CallGoesOn, CallAnswers, CallAgain
<1>7. ASSUME NEW p \in Phrases, CallFails(p) PROVE TypeOK'
  <2>1. CASE Reply(p, 503)
    BY <2>1, Kinds, ReplyType
  <2>2. CASE /\ attempt[p] < Attempts - 1
             /\ attempt' = [attempt EXCEPT ![p] = @ + 1]
             /\ Goto(p, "sleep") /\ Restart(p) /\ UNCHANGED <<held, life, answer>>
    BY <2>2, Kinds, Settings
  <2> QED
    BY <1>7, <2>1, <2>2 DEF CallFails
<1>8. ASSUME NEW p \in Phrases, CallEnds(p) PROVE TypeOK'
  BY <1>8, Kinds, ReplyType DEF CallEnds
<1>9. CASE Tick
  BY <1>9 DEF Tick
<1>10. CASE UNCHANGED vars
  BY <1>10 DEF vars
<1> QED
  BY <1>1, <1>2, <1>3, <1>4, <1>5, <1>6, <1>7, <1>8, <1>9, <1>10 DEF Next, Serve, ServePhrase
-----------------------------------------------------------------------------
LEMMA HeldIsFinite == ASSUME TypeOK PROVE IsFiniteSet(held) /\ Cardinality(held) \in Nat
<1>1. IsFiniteSet(held)
  BY PoolAssumption, FS_Subset DEF TypeOK
<1> QED
  BY <1>1, FS_CardinalityType

\* A request that goes to a place where none is in hand leaves the connections in hand as they are
\* without its own.
LEMMA Release ==
  ASSUME TypeOK, ConnectionsInHand, NEW r \in Requests, NEW step \in {"idle", "rewait"},
         held' = held \ {r}, pc' = [pc EXCEPT ![r] = step], step = "rewait" => r \in Returners
  PROVE  ConnectionsInHand'
<1>1. held' = Holders'
  BY DEF ConnectionsInHand, Holders, TypeOK
<1>2. Cardinality(held') <= Cardinality(held) /\ Cardinality(held') \in Nat
  <2>1. Cardinality(held) \in Nat
    BY HeldIsFinite
  <2>2. IsFiniteSet(held \ {r})
    BY HeldIsFinite, FS_RemoveElement
  <2>3. Cardinality(held \ {r}) = IF r \in held THEN Cardinality(held) - 1 ELSE Cardinality(held)
    BY HeldIsFinite, FS_RemoveElement
  <2>4. Cardinality(held \ {r}) \in Nat
    BY <2>2, FS_CardinalityType
  <2> QED
    BY <2>1, <2>3, <2>4
<1> QED
  BY <1>1, <1>2, HeldIsFinite, Settings DEF ConnectionsInHand, TypeOK

LEMMA ReplyReleases ==
  ASSUME TypeOK, ConnectionsInHand, NEW r \in Requests, NEW code, Reply(r, code)
  PROVE  ConnectionsInHand'
  BY Release DEF Reply, Goto

\* A phrase that goes from one step with a connection to another keeps it.
LEMMA PhraseKeeps ==
  ASSUME TypeOK, ConnectionsInHand, NEW p \in Phrases, NEW step \in {"call", "sleep", "busy"},
         pc[p] \in {"call", "sleep"}, pc' = [pc EXCEPT ![p] = step], held' = held
  PROVE  ConnectionsInHand'
  BY Kinds DEF ConnectionsInHand, Holders, TypeOK

LEMMA ConnectionsStep == TypeOK /\ ConnectionsInHand /\ [Next]_vars => ConnectionsInHand'
<1> SUFFICES ASSUME TypeOK, ConnectionsInHand, [Next]_vars PROVE ConnectionsInHand'
  OBVIOUS
<1> USE DEF Goto
<1>1. ASSUME NEW r \in Requests, Arrive(r) PROVE ConnectionsInHand'
  BY <1>1 DEF Arrive, ConnectionsInHand, Holders, TypeOK
<1>2. ASSUME NEW r \in Requests, Take(r) PROVE ConnectionsInHand'
  <2>1. held' = Holders'
    BY <1>2 DEF Take, ConnectionsInHand, Holders, TypeOK
  <2>2. Cardinality(held') <= Cardinality(held) + 1 /\ Cardinality(held') \in Nat
    <3>1. Cardinality(held) \in Nat
      BY HeldIsFinite
    <3>2. Cardinality(held \cup {r})
            = IF r \in held THEN Cardinality(held) ELSE Cardinality(held) + 1
      BY HeldIsFinite, FS_AddElement
    <3> QED
      BY <1>2, <3>1, <3>2 DEF Take
  <2>3. Cardinality(held') <= Size
    BY <1>2, <2>2, HeldIsFinite, Settings DEF Take, FreeConnection
  <2> QED
    BY <1>2, <2>1, <2>3 DEF Take, ConnectionsInHand, TypeOK
<1>3. ASSUME NEW r \in Requests, Exhausted(r) PROVE ConnectionsInHand'
  BY <1>3, ReplyReleases DEF Exhausted
<1>4. ASSUME NEW r \in Requests, Finish(r) PROVE ConnectionsInHand'
  BY <1>4, ReplyReleases DEF Finish
<1>5. ASSUME NEW b \in Returners, CommitFirst(b) PROVE ConnectionsInHand'
  BY <1>5, Kinds, Release DEF CommitFirst
<1>6. ASSUME NEW p \in Phrases, CallGoesOn(p) \/ CallAnswers(p) \/ CallAgain(p)
      PROVE  ConnectionsInHand'
  <2>1. CASE CallGoesOn(p)
    BY <2>1 DEF CallGoesOn, ConnectionsInHand, Holders
  <2>2. CASE CallAnswers(p) \/ CallAgain(p)
    BY <2>2, PhraseKeeps DEF CallAnswers, CallAgain
  <2> QED
    BY <1>6, <2>1, <2>2
<1>7. ASSUME NEW p \in Phrases, CallFails(p) PROVE ConnectionsInHand'
  <2>1. CASE Reply(p, 503)
    BY <2>1, Kinds, ReplyReleases
  <2>2. CASE pc[p] = "call" /\ Goto(p, "sleep") /\ UNCHANGED held
    BY <2>2, PhraseKeeps
  <2> QED
    BY <1>7, <2>1, <2>2 DEF CallFails
<1>8. ASSUME NEW p \in Phrases, CallEnds(p) PROVE ConnectionsInHand'
  BY <1>8, Kinds, ReplyReleases DEF CallEnds
<1>9. CASE Tick
  BY <1>9 DEF Tick, ConnectionsInHand, Holders
<1>10. CASE UNCHANGED vars
  BY <1>10 DEF vars, ConnectionsInHand, Holders
<1> QED
  BY <1>1, <1>2, <1>3, <1>4, <1>5, <1>6, <1>7, <1>8, <1>9, <1>10 DEF Next, Serve, ServePhrase
-----------------------------------------------------------------------------
LEMMA ReplyTime ==
  ASSUME TypeOK, TimeInHand, NEW r \in Requests, NEW code, Reply(r, code)
  PROVE  TimeInHand'
  BY Settings, Kinds DEF TypeOK, TimeInHand, Reply, Goto, Restart

\* Of the time of a phrase nothing is said but where it waits for the pool.
LEMMA PhraseTime ==
  ASSUME TypeOK, TimeInHand, NEW p \in Phrases, NEW step \in {"call", "sleep", "busy"},
         pc' = [pc EXCEPT ![p] = step], Restart(p), UNCHANGED life
  PROVE  TimeInHand'
  BY Settings, Kinds DEF TypeOK, TimeInHand, Restart

LEMMA TimeStep == IndInv /\ [Next]_vars => TimeInHand'
<1> SUFFICES ASSUME TypeOK, ConnectionsInHand, TimeInHand, [Next]_vars PROVE TimeInHand'
  BY DEF IndInv
<1> USE Settings, Kinds DEF TypeOK, Goto
<1>1. ASSUME NEW r \in Requests, Arrive(r) PROVE TimeInHand'
  BY <1>1 DEF Arrive, TimeInHand
<1>2. ASSUME NEW r \in Requests, Take(r) PROVE TimeInHand'
  BY <1>2 DEF Take, Restart, TimeInHand, ConnectionsInHand
<1>3. ASSUME NEW r \in Requests, Exhausted(r) PROVE TimeInHand'
  BY <1>3, ReplyTime DEF Exhausted
<1>4. ASSUME NEW r \in Requests, Finish(r) PROVE TimeInHand'
  BY <1>4, ReplyTime DEF Finish
<1>5. ASSUME NEW b \in Returners, CommitFirst(b) PROVE TimeInHand'
  BY <1>5 DEF CommitFirst, TimeInHand
<1>6. ASSUME NEW p \in Phrases, CallGoesOn(p) PROVE TimeInHand'
  BY <1>6 DEF CallGoesOn, Restart, TimeInHand
<1>7. ASSUME NEW p \in Phrases, CallAnswers(p) \/ CallAgain(p) PROVE TimeInHand'
  BY <1>7, PhraseTime DEF CallAnswers, CallAgain
<1>8. ASSUME NEW p \in Phrases, CallFails(p) PROVE TimeInHand'
  <2>1. CASE Reply(p, 503)
    BY <2>1, ReplyTime
  <2>2. CASE Goto(p, "sleep") /\ Restart(p) /\ UNCHANGED life
    BY <2>2, PhraseTime
  <2> QED
    BY <1>8, <2>1, <2>2 DEF CallFails
<1>9. ASSUME NEW p \in Phrases, CallEnds(p) PROVE TimeInHand'
  BY <1>9, ReplyTime DEF CallEnds
<1>10. CASE Tick
  BY <1>10 DEF Tick, Hurried, TimeInHand
<1>11. CASE UNCHANGED vars
  BY <1>11 DEF vars, TimeInHand
<1> QED
  BY <1>1, <1>2, <1>3, <1>4, <1>5, <1>6, <1>7, <1>8, <1>9, <1>10, <1>11
  DEF Next, Serve, ServePhrase
-----------------------------------------------------------------------------
\* The inductive invariant holds: who has a connection has it in hand, and how long it has been so.
THEOREM Invariance == Spec => []IndInv
<1>1. IndInv /\ [Next]_vars => IndInv'
  BY TypeStep, ConnectionsStep, TimeStep DEF IndInv
<1> QED
  BY InitIndInv, <1>1, PTL DEF Spec

\* However long the LLM takes, whoever does not need it is answered before the timeouts of the
\* pool add up, however many requests compete for however many connections.
THEOREM AnsweredInTimeHolds == Spec => []AnsweredInTime
<1>1. IndInv => AnsweredInTime
  <2> SUFFICES ASSUME IndInv PROVE AnsweredInTime
    OBVIOUS
  <2> USE Settings, Kinds DEF IndInv, TypeOK, ConnectionsInHand, TimeInHand
  <2>1. \A v \in Visitors : v \in Others /\ v \notin Returners
    BY PoolAssumption DEF Others
  <2>2. ASSUME NEW v \in Visitors PROVE life[v] <= PoolTimeout
    BY <2>1
  <2>3. ASSUME NEW b \in Returners PROVE life[b] <= 2 * PoolTimeout
    OBVIOUS
  <2> QED
    BY <2>2, <2>3 DEF AnsweredInTime
<1> QED
  BY Invariance, <1>1, PTL

\* Whoever spends time waiting for a connection waits for as many slow phrases as there are
\* connections: no request leaves one behind.
THEOREM OnlySlowPhrasesHoldUpHolds == Spec => OnlySlowPhrasesHoldUp
<1> DEFINE Calling == {p \in Phrases : pc[p] \in {"call", "sleep"}}
           Slow == \A r \in Requests :
                     pc[r] \in {"wait", "rewait"} /\ age'[r] > age[r] => Cardinality(Calling) = Size
<1>1. ASSUME IndInv, [Next]_vars PROVE Slow
  <2> SUFFICES ASSUME NEW r \in Requests, pc[r] \in {"wait", "rewait"}, age'[r] > age[r]
               PROVE  Cardinality(Calling) = Size
    OBVIOUS
  <2> USE <1>1, Settings, Kinds DEF IndInv, TypeOK
  <2>1. Tick
    <3>1. ASSUME NEW q \in Requests, Arrive(q) \/ CommitFirst(q) PROVE FALSE
      BY <3>1 DEF Arrive, CommitFirst
    <3>2. ASSUME NEW q \in Requests, Restart(q) PROVE FALSE
      BY <3>2 DEF Restart
    <3>3. ~UNCHANGED vars
      BY DEF vars
    <3> QED
      BY <3>1, <3>2, <3>3
      DEF Next, Serve, ServePhrase, Take, Exhausted, Finish, CallGoesOn, CallAnswers, CallFails,
          CallEnds, CallAgain, Reply
  <2>2. ~FreeConnection
    BY <2>1 DEF Tick, Hurried
  <2>3. held = Calling
    BY <2>1 DEF Tick, Hurried, ConnectionsInHand, Holders
  <2>4. Cardinality(held) = Size
    BY <2>2, HeldIsFinite DEF FreeConnection, ConnectionsInHand
  <2> QED
    BY <2>3, <2>4
<1>2. IndInv /\ [Next]_vars => [Slow]_vars
  BY <1>1
<1> QED
  BY Invariance, <1>2, PTL DEF Spec, OnlySlowPhrasesHoldUp
=============================================================================
