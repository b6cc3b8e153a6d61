---------------------------- MODULE AccountsProofs ----------------------------
(***************************************************************************)
(* Theorems about Accounts, for every set of requests and spellings, every *)
(* normalisation of addresses and every lifetime of a session.             *)
(***************************************************************************)
EXTENDS Accounts, TLAPS

\* Where a registration stands tells what its row is; the row has the address as it is normalised.
AccountFollowsRequest ==
  /\ status[Seed] = "present" /\ email[Seed] = Normal[AdminSpelling]
  /\ \A r \in Registers :
       /\ status[r] = "pending" <=> pc[r] = "commit"
       /\ status[r] = "present" => pc[r] \in {"cleanup", "issue", "done"}
       /\ status[r] # "absent" => email[r] = Mail(r)

\* A request that looks for its address was given one.
AddressTyped == \A r \in Openers : pc[r] \in {"select", "insert"} => typed[r] \in Spellings

\* An answer is the last thing a request does.
AnswersLast == \A r \in Requests : answer[r] # 0 => pc[r] = "done"

\* No address is held twice, be it by an account still in doubt.
AddressesDistinct ==
  \A a, b \in Accounts :
    a # b /\ status[a] # "absent" /\ status[b] # "absent" => email[a] # email[b]

\* What there is about sessions: a token is issued by the last step of its request, a logout has
\* a token that was issued and no other row in hand, and a cleanup only sessions that are over.
SessionsFollowRequests ==
  /\ \A r \in Openers :
       /\ r \in issued => pc[r] = "done"
       /\ since[r] <= clock
       /\ \A s \in doomed[r] : s \in issued /\ expires[s] < clock
  /\ \A x \in Logouts :
       /\ pc[x] \in {"delete", "commit"} => token[x] \in issued
       /\ pc[x] # "commit" => doomed[x] = {}
       /\ doomed[x] \subseteq {token[x]}

IndInv ==
  /\ TypeOK
  /\ AddressTyped
  /\ AccountFollowsRequest
  /\ AnswersLast
  /\ AddressesDistinct
  /\ RefusedHasOwner
  /\ SessionsFollowRequests
-----------------------------------------------------------------------------
(***************************************************************************)
(* Types.                                                                  *)
(***************************************************************************)

LEMMA Kinds ==
  /\ \A r \in Registers : r \in Requests /\ r \in Openers /\ r \in Accounts /\ r # Seed
  /\ \A l \in Logins : l \in Requests /\ l \in Openers /\ l \notin Registers
  /\ \A x \in Logouts : x \in Requests /\ x \notin Openers
  /\ Openers \subseteq Requests /\ Registers \subseteq Accounts
  /\ Seed \in Accounts /\ Seed \notin Requests
  BY AccountsAssumption DEF Requests, Openers, Accounts

LEMMA InitTypeOK == Init => TypeOK
  BY AccountsAssumption, Kinds DEF Init, TypeOK

LEMMA TypeStep == TypeOK /\ AddressTyped /\ [Next]_vars => TypeOK'
<1> SUFFICES ASSUME TypeOK, AddressTyped, [Next]_vars PROVE TypeOK'
  OBVIOUS
<1> USE AccountsAssumption, Kinds DEF TypeOK, Goto, Reply, accounts, sessions
<1>1. ASSUME NEW r \in Registers, ReceiveRegister(r) PROVE TypeOK'
  BY <1>1 DEF ReceiveRegister
<1>2. ASSUME NEW l \in Logins, ReceiveLogin(l) PROVE TypeOK'
  BY <1>2 DEF ReceiveLogin
<1>3. ASSUME NEW x \in Logouts, ReceiveLogout(x) PROVE TypeOK'
  BY <1>3 DEF ReceiveLogout
<1>4. ASSUME NEW r \in Registers, SelectEmail(r) PROVE TypeOK'
  BY <1>4 DEF SelectEmail
<1>5. ASSUME NEW r \in Registers, InsertUser(r) PROVE TypeOK'
  BY <1>5 DEF InsertUser, AddressTyped, Mail
<1>6. ASSUME NEW r \in Registers, CommitUser(r) PROVE TypeOK'
  BY <1>6 DEF CommitUser, Admit
<1>7. ASSUME NEW l \in Logins, Authenticate(l) PROVE TypeOK'
  BY <1>7 DEF Authenticate, Admit, Present
<1>8. ASSUME NEW r \in Openers, Cleanup(r) PROVE TypeOK'
  BY <1>8 DEF Cleanup, Stale, Openers, Requests
<1>9. ASSUME NEW r \in Openers, IssueToken(r) PROVE TypeOK'
  BY <1>9 DEF IssueToken, Openers, Requests
<1>10. ASSUME NEW x \in Logouts, DestroySession(x) \/ CommitLogout(x) PROVE TypeOK'
  BY <1>10 DEF DestroySession, CommitLogout
<1>11. ASSUME NEW r \in Requests, Fail(r) PROVE TypeOK'
  BY <1>11 DEF Fail, Rollback
<1>12. CASE Restart
  BY <1>12 DEF Restart, Rollback
<1>13. CASE Tick
  BY <1>13 DEF Tick
<1>14. CASE UNCHANGED vars
  BY <1>14 DEF vars
<1> QED
  BY <1>1, <1>2, <1>3, <1>4, <1>5, <1>6, <1>7, <1>8, <1>9, <1>10, <1>11, <1>12, <1>13, <1>14
  DEF Next, Serve, ServeRegister, ServeSession
-----------------------------------------------------------------------------
(***************************************************************************)
(* Accounts.                                                               *)
(***************************************************************************)

LEMMA InitIndInv == Init => IndInv
<1> SUFFICES ASSUME Init PROVE IndInv
  OBVIOUS
<1>1. TypeOK
  BY InitTypeOK
<1>2. AddressTyped /\ AccountFollowsRequest /\ AnswersLast /\ RefusedHasOwner
  BY Kinds DEF Init, AddressTyped, AccountFollowsRequest, AnswersLast, RefusedHasOwner
<1>3. AddressesDistinct
  BY Kinds DEF Init, AddressesDistinct, Accounts
<1>4. SessionsFollowRequests
  BY Kinds DEF Init, SessionsFollowRequests
<1> QED
  BY <1>1, <1>2, <1>3, <1>4 DEF IndInv

\* Where a request stands, what it was given and what its row is: the steps of the request itself
\* keep them together, and a failure ends the request and its row at once.
LEMMA FollowsStep ==
  ASSUME TypeOK, AddressTyped, AccountFollowsRequest, AnswersLast, [Next]_vars
  PROVE  AddressTyped' /\ AccountFollowsRequest' /\ AnswersLast'
<1> DEFINE Goal == AddressTyped' /\ AccountFollowsRequest' /\ AnswersLast'
<1> USE Kinds DEF TypeOK, AddressTyped, AccountFollowsRequest, AnswersLast, Mail, Goto, Reply,
                  accounts, sessions
<1>1. ASSUME NEW r \in Registers, ReceiveRegister(r) PROVE Goal
  BY <1>1 DEF ReceiveRegister
<1>2. ASSUME NEW l \in Logins, ReceiveLogin(l) PROVE Goal
  BY <1>2 DEF ReceiveLogin
<1>3. ASSUME NEW x \in Logouts, ReceiveLogout(x) PROVE Goal
  BY <1>3 DEF ReceiveLogout
<1>4. ASSUME NEW r \in Registers, SelectEmail(r) PROVE Goal
  BY <1>4 DEF SelectEmail
<1>5. ASSUME NEW r \in Registers, InsertUser(r) PROVE Goal
  BY <1>5 DEF InsertUser
<1>6. ASSUME NEW r \in Registers, CommitUser(r) PROVE Goal
  BY <1>6 DEF CommitUser, Admit
<1>7. ASSUME NEW l \in Logins, Authenticate(l) PROVE Goal
  BY <1>7 DEF Authenticate, Admit
<1>8. ASSUME NEW r \in Openers, Cleanup(r) PROVE Goal
  BY <1>8 DEF Cleanup, Openers
<1>9. ASSUME NEW r \in Openers, IssueToken(r) PROVE Goal
  BY <1>9 DEF IssueToken, Openers
<1>10. ASSUME NEW x \in Logouts, DestroySession(x) \/ CommitLogout(x) PROVE Goal
  BY <1>10 DEF DestroySession, CommitLogout
<1>11. ASSUME NEW r \in Requests, Fail(r) PROVE Goal
  BY <1>11 DEF Fail, Rollback, Running
<1>12. CASE Restart
  BY <1>12 DEF Restart, Rollback, Running
<1>13. CASE Tick
  BY <1>13 DEF Tick
<1>14. CASE UNCHANGED vars
  BY <1>14 DEF vars
<1> QED
  BY <1>1, <1>2, <1>3, <1>4, <1>5, <1>6, <1>7, <1>8, <1>9, <1>10, <1>11, <1>12, <1>13, <1>14
  DEF Next, Serve, ServeRegister, ServeSession

\* The rows of users, seen from outside: one insert of an address that nobody holds, a commit, a
\* rollback, or nothing.
InsertsFreeAddress ==
  \E r \in Registers :
    /\ status[r] = "absent"
    /\ \A a \in Accounts : status[a] # "absent" => email[a] # Mail(r)
    /\ status' = [status EXCEPT ![r] = "pending"]
    /\ email' = [email EXCEPT ![r] = Mail(r)]

SettlesRows ==
  /\ UNCHANGED email
  /\ \A a \in Accounts :
       /\ status[a] = "absent" => status'[a] = "absent"
       /\ status[a] = "present" => status'[a] = "present"

LEMMA RowsStep ==
  ASSUME TypeOK, AccountFollowsRequest, [Next]_vars
  PROVE  InsertsFreeAddress \/ SettlesRows
<1> USE Kinds DEF TypeOK, Goto, Reply, accounts, sessions
<1>1. ASSUME NEW r \in Registers, InsertUser(r) PROVE InsertsFreeAddress \/ SettlesRows
  BY <1>1 DEF InsertUser, AccountFollowsRequest, InsertsFreeAddress, SettlesRows, Present, Pending
<1>2. ASSUME NEW r \in Registers, CommitUser(r) PROVE SettlesRows
  BY <1>2 DEF CommitUser, Admit, AccountFollowsRequest, SettlesRows
<1>3. ASSUME NEW r \in Requests, Fail(r) PROVE SettlesRows
  BY <1>3 DEF Fail, Rollback, SettlesRows
<1>4. CASE Restart
  BY <1>4 DEF Restart, Rollback, SettlesRows
<1>5. ASSUME ~ \E r \in Registers : InsertUser(r) \/ CommitUser(r),
             ~ \E r \in Requests : Fail(r), ~Restart
      PROVE  SettlesRows
  BY <1>5
  DEF Next, Serve, ServeRegister, ServeSession, ReceiveRegister, ReceiveLogin, ReceiveLogout,
      SelectEmail, Authenticate, Cleanup, IssueToken, DestroySession, CommitLogout, Tick, vars, SettlesRows
<1> QED
  BY <1>1, <1>2, <1>3, <1>4, <1>5

LEMMA DistinctStep ==
  ASSUME TypeOK, AccountFollowsRequest, AddressesDistinct, [Next]_vars
  PROVE  AddressesDistinct'
<1>1. CASE InsertsFreeAddress
  BY <1>1, Kinds DEF InsertsFreeAddress, AddressesDistinct, TypeOK
<1>2. CASE SettlesRows
  BY <1>2 DEF SettlesRows, AddressesDistinct, TypeOK
<1> QED
  BY <1>1, <1>2, RowsStep

\* An account that is committed stays, with its address.
LEMMA PresentStays ==
  ASSUME TypeOK, AccountFollowsRequest, [Next]_vars, NEW mail
  PROVE  Present(mail) \subseteq Present(mail)'
<1>1. CASE InsertsFreeAddress
  BY <1>1, Kinds DEF InsertsFreeAddress, Present, TypeOK
<1>2. CASE SettlesRows
  BY <1>2 DEF SettlesRows, Present
<1> QED
  BY <1>1, <1>2, RowsStep

\* A registration is refused for an account that is there; all else leaves what was refused alone.
LEMMA RefusalStep ==
  ASSUME TypeOK, AnswersLast, [Next]_vars, NEW r \in Registers, answer'[r] = 409
  PROVE  \/ answer[r] = 409 /\ typed'[r] = typed[r]
         \/ /\ pc[r] \in {"select", "insert"} /\ Present(Mail(r)) # {}
            /\ UNCHANGED <<status, email, typed>>
<1> DEFINE Kept == answer[r] = 409 /\ typed'[r] = typed[r]
           Refused == /\ pc[r] \in {"select", "insert"} /\ Present(Mail(r)) # {}
                      /\ UNCHANGED <<status, email, typed>>
           Goal == Kept \/ Refused
<1> USE Kinds DEF TypeOK, AnswersLast, Goto, Reply, accounts, sessions
<1>1. ASSUME NEW q \in Registers, ReceiveRegister(q) PROVE Kept
  BY <1>1 DEF ReceiveRegister
<1>2. ASSUME NEW l \in Logins, ReceiveLogin(l) PROVE Kept
  BY <1>2 DEF ReceiveLogin
<1>3. ASSUME NEW q \in Registers, SelectEmail(q) PROVE Goal
  BY <1>3 DEF SelectEmail
<1>4. ASSUME NEW q \in Registers, InsertUser(q) PROVE Goal
  BY <1>4 DEF InsertUser
<1>5. ASSUME NEW q \in Registers, CommitUser(q) PROVE Kept
  BY <1>5 DEF CommitUser
<1>6. ASSUME NEW l \in Logins, Authenticate(l) PROVE Kept
  BY <1>6 DEF Authenticate
<1>7. ASSUME NEW o \in Openers, Cleanup(o) \/ IssueToken(o) PROVE Kept
  BY <1>7 DEF Cleanup, IssueToken
<1>8. ASSUME NEW x \in Logouts, ReceiveLogout(x) \/ DestroySession(x) \/ CommitLogout(x) PROVE Kept
  BY <1>8 DEF ReceiveLogout, DestroySession, CommitLogout
<1>9. ASSUME NEW q \in Requests, Fail(q) PROVE Kept
  BY <1>9 DEF Fail
<1>10. CASE Restart \/ Tick
  BY <1>10 DEF Restart, Tick
<1>11. CASE UNCHANGED vars
  BY <1>11 DEF vars
<1> HIDE DEF Goal
<1> QED
  BY <1>1, <1>2, <1>3, <1>4, <1>5, <1>6, <1>7, <1>8, <1>9, <1>10, <1>11
  DEF Goal, Next, Serve, ServeRegister, ServeSession, Openers

LEMMA RefusedStep ==
  ASSUME TypeOK, AccountFollowsRequest, AnswersLast, RefusedHasOwner, [Next]_vars
  PROVE  RefusedHasOwner'
<1> SUFFICES ASSUME NEW r \in Registers, answer'[r] = 409
             PROVE  (Present(Mail(r)))' \ {r} # {}
  BY DEF RefusedHasOwner
<1>1. CASE answer[r] = 409 /\ typed'[r] = typed[r]
  <2>1. Present(Mail(r)) \ {r} # {}
    BY <1>1 DEF RefusedHasOwner
  <2>2. Mail(r)' = Mail(r)
    BY <1>1 DEF Mail
  <2>3. \A mail : Present(mail) \subseteq {a \in Accounts : status'[a] = "present" /\ email'[a] = mail}
    BY PresentStays DEF Present
  <2> QED
    BY <2>1, <2>2, <2>3 DEF Present
<1>2. CASE /\ pc[r] \in {"select", "insert"} /\ Present(Mail(r)) # {}
           /\ UNCHANGED <<status, email, typed>>
  <2>1. r \notin Present(Mail(r))
    BY <1>2 DEF AccountFollowsRequest, Present
  <2> QED
    BY <1>2, <2>1 DEF Present, Mail
<1> QED
  BY <1>1, <1>2, RefusalStep
-----------------------------------------------------------------------------
(***************************************************************************)
(* Sessions.                                                               *)
(***************************************************************************)

\* What the book of sessions shows stays as it is.
SessionsRest == UNCHANGED <<clock, rows, issued, expires>>

LEMMA SessionsStep ==
  ASSUME TypeOK, SessionsFollowRequests, [Next]_vars
  PROVE  SessionsFollowRequests'
<1> DEFINE Goal == SessionsFollowRequests'
<1> USE Kinds DEF TypeOK, SessionsFollowRequests, Goto, Reply, accounts, sessions
<1>1. ASSUME NEW r \in Registers, ReceiveRegister(r) PROVE Goal
  BY <1>1 DEF ReceiveRegister
<1>2. ASSUME NEW l \in Logins, ReceiveLogin(l) PROVE Goal
  BY <1>2 DEF ReceiveLogin
<1>3. ASSUME NEW x \in Logouts, ReceiveLogout(x) PROVE Goal
  BY <1>3 DEF ReceiveLogout
<1>4. ASSUME NEW r \in Registers, SelectEmail(r) \/ InsertUser(r) PROVE Goal
  BY <1>4 DEF SelectEmail, InsertUser
<1>5. ASSUME NEW r \in Registers, CommitUser(r) PROVE Goal
  BY <1>5 DEF CommitUser, Admit
<1>6. ASSUME NEW l \in Logins, Authenticate(l) PROVE Goal
  BY <1>6 DEF Authenticate, Admit
<1>7. ASSUME NEW r \in Openers, Cleanup(r) PROVE Goal
  <2>1. \A s \in Stale(r) : s \in issued /\ expires[s] < clock
    BY DEF Stale
  <2> QED
    BY <1>7, <2>1 DEF Cleanup
<1>8. ASSUME NEW r \in Openers, IssueToken(r) PROVE Goal
  <2>1. r \notin issued
    BY <1>8 DEF IssueToken
  <2> QED
    BY <1>8, <2>1 DEF IssueToken
<1>9. ASSUME NEW x \in Logouts, DestroySession(x) \/ CommitLogout(x) PROVE Goal
  BY <1>9 DEF DestroySession, CommitLogout
<1>10. ASSUME NEW r \in Requests, Fail(r) PROVE Goal
  BY <1>10 DEF Fail, Rollback, Running
<1>11. CASE Restart
  BY <1>11 DEF Restart, Rollback, Running
<1>12. CASE Tick
  BY <1>12 DEF Tick
<1>13. CASE UNCHANGED vars
  BY <1>13 DEF vars
<1> HIDE DEF Goal
<1> QED
  BY <1>1, <1>2, <1>3, <1>4, <1>5, <1>6, <1>7, <1>8, <1>9, <1>10, <1>11, <1>12, <1>13
  DEF Goal, Next, Serve, ServeRegister, ServeSession, Openers

LEMMA NextIndInv == IndInv /\ [Next]_vars => IndInv'
  BY TypeStep, FollowsStep, DistinctStep, RefusedStep, SessionsStep DEF IndInv

\* The inductive invariant holds: rows follow their requests, no address is held twice even in
\* doubt, and what a cleanup has in hand is over.
THEOREM Invariance == Spec => []IndInv
  BY InitIndInv, NextIndInv, PTL DEF Spec

\* However registrations race and spell the address, no two accounts of it are committed.
THEOREM OneAccountPerAddressHolds == Spec => []OneAccountPerAddress
<1>1. IndInv => OneAccountPerAddress
  BY Kinds DEF IndInv, AddressesDistinct, AccountFollowsRequest, OneAccountPerAddress, Mail, Accounts
<1> QED
  BY Invariance, <1>1, PTL

\* Whoever is told that an address is taken is told the truth, for good.
THEOREM RefusedHasOwnerHolds == Spec => []RefusedHasOwner
  BY Invariance, PTL DEF IndInv
-----------------------------------------------------------------------------
(***************************************************************************)
(* The rows implement the book of sessions.                                *)
(***************************************************************************)

LEMMA InitBook == Init => Book!Init
  BY DEF Init, Book!Init, Works

\* Whoever neither issues, closes nor waits leaves the sessions as they are.
LEMMA RestStutters == SessionsRest => UNCHANGED Book!book
  BY DEF SessionsRest, Book!book, Works

\* What a cleanup removes was over, so that an issued token is all that changes.
LEMMA IssueIsIssue ==
  ASSUME IndInv, NEW r \in Openers, IssueToken(r)
  PROVE  Book!Issue(r)
<1> USE DEF IndInv, TypeOK, SessionsFollowRequests
<1>1. r \in Openers \ issued /\ issued' = issued \cup {r} /\ clock' = clock
  BY DEF IssueToken
<1>2. expires'[r] <= clock + Lifetime
  BY AccountsAssumption DEF IssueToken
<1>3. \A s \in issued : expires'[s] = expires[s]
  BY <1>1 DEF IssueToken
<1>4. \A t \in Openers : Works(t)' <=> Works(t) \/ (t = r /\ expires'[r] > clock)
  BY <1>1, <1>3 DEF IssueToken, Works
<1> QED
  BY <1>1, <1>2, <1>3, <1>4 DEF Book!Issue

\* A logout that found no row changes nothing that shows.
LEMMA LogoutIsClose ==
  ASSUME IndInv, NEW x \in Logouts, CommitLogout(x)
  PROVE  SessionsRest \/ \E t \in Openers : Book!Close(t)
<1>1. token[x] \in Openers
  BY DEF IndInv, TypeOK, SessionsFollowRequests, CommitLogout
<1>2. doomed[x] = {} => SessionsRest
  BY DEF CommitLogout, SessionsRest
<1>3. doomed[x] = {token[x]} => Book!Close(token[x])
  BY DEF CommitLogout, Book!Close, Works
<1>4. doomed[x] \subseteq {token[x]}
  BY DEF IndInv, SessionsFollowRequests
<1> QED
  BY <1>1, <1>2, <1>3, <1>4

LEMMA TickIsPass == ASSUME IndInv, Tick PROVE Book!Pass
  BY DEF IndInv, TypeOK, Tick, sessions, Book!Pass, Works

LEMMA StepImplements == IndInv /\ [Next]_vars => [Book!Next]_(Book!book)
<1> SUFFICES ASSUME IndInv, [Next]_vars PROVE [Book!Next]_(Book!book)
  OBVIOUS
<1>1. ASSUME NEW r \in Openers, IssueToken(r) PROVE Book!Next
  BY <1>1, IssueIsIssue DEF Book!Next
<1>2. ASSUME NEW x \in Logouts, CommitLogout(x) PROVE Book!Next \/ SessionsRest
  BY <1>2, LogoutIsClose DEF Book!Next
<1>3. CASE Tick
  BY <1>3, TickIsPass DEF Book!Next
<1>4. ASSUME ~ \E r \in Openers : IssueToken(r), ~ \E x \in Logouts : CommitLogout(x), ~Tick
      PROVE  SessionsRest
  BY <1>4
  DEF Next, Serve, ServeRegister, ServeSession, Openers, ReceiveRegister, ReceiveLogin,
      ReceiveLogout, SelectEmail, InsertUser, CommitUser, Authenticate, Cleanup, DestroySession, Fail,
      Restart, vars, sessions, SessionsRest
<1> QED
  BY <1>1, <1>2, <1>3, <1>4, RestStutters

\* The rows of auth_sessions implement the book of sessions, for every lifetime.
THEOREM Implements == Spec => ImplementsSessionBook
  BY InitBook, StepImplements, Invariance, PTL DEF Spec, ImplementsSessionBook, Book!Spec
=============================================================================
