------------------------------ MODULE Accounts ------------------------------
(***************************************************************************)
(* Accounts and sessions: register_user, authenticate, create_session,     *)
(* user_by_token and destroy_session of app/services/auth.py, the routes   *)
(* that chain them, and the administrator that app/seed.py adds at start.  *)
(*                                                                         *)
(* A request is a process; each await on the database is a step.  The      *)
(* account a request creates, and the session it opens, are named by the   *)
(* request.  A DELETE takes all its rows at once, when nobody else holds  *)
(* one, keeps them until it is committed and shows only then.  The unique  *)
(* index over users.email, as register_user relies on it, lets an insert   *)
(* wait for one in doubt and refuses it if that stays.                     *)
(***************************************************************************)
EXTENDS Integers, FiniteSets

CONSTANTS
  Registers,     \* requests to register
  Logins,        \* requests to log in
  Logouts,       \* requests to log out
  Spellings,     \* emails as people type them
  Normal,        \* normalize_email
  AdminSpelling, \* settings.admin_email
  Seed,          \* the account app/seed.py creates
  Lifetime,      \* settings.session_ttl_hours
  MaxClock,      \* bound of the clock
  Nobody

Requests == Registers \cup Logins \cup Logouts
Openers == Registers \cup Logins     \* a registration over the web logs in as well
Accounts == Registers \cup {Seed}

ASSUME AccountsAssumption ==
  /\ Registers \cap Logins = {} /\ Openers \cap Logouts = {}
  /\ Seed \notin Requests
  /\ AdminSpelling \in Spellings
  /\ Nobody \notin Spellings \cup Accounts \cup Openers
  /\ \A s \in Spellings : Normal[s] \in Spellings /\ Normal[Normal[s]] = Normal[s]
  /\ Lifetime \in Nat \ {0}
  /\ MaxClock \in Nat

VARIABLES
  clock,    \* now_utc()
  pc,       \* the next step of each request
  typed,    \* the email a request was given
  status,   \* the row of each account, "pending" while its insert is not committed
  email,    \* users.email
  who,      \* the account a login was let into
  since,    \* the "now" of create_session
  doomed,   \* the sessions a request has deleted and not committed
  rows,     \* auth_sessions: the committed rows
  owner,    \* auth_sessions.user_id
  expires,  \* auth_sessions.expires_at
  issued,   \* history: the sessions that were ever committed
  token,    \* the token a logout was given
  answer    \* the HTTP status of each request, 0 before it answers

accounts == <<status, email>>
sessions == <<rows, owner, expires, issued>>
vars == <<clock, pc, typed, accounts, who, since, doomed, sessions, token, answer>>

TypeOK ==
  /\ clock \in Nat
  /\ pc \in [Requests -> {"idle", "select", "insert", "commit", "cleanup", "issue", "delete",
                          "done"}]
  /\ typed \in [Openers -> Spellings \cup {Nobody}]
  /\ status \in [Accounts -> {"absent", "pending", "present"}]
  /\ email \in [Accounts -> Spellings \cup {Nobody}]
  /\ who \in [Openers -> Accounts \cup {Nobody}]
  /\ since \in [Openers -> Nat]
  /\ doomed \in [Requests -> SUBSET Openers]
  /\ rows \subseteq issued /\ issued \subseteq Openers
  /\ owner \in [Openers -> Accounts \cup {Nobody}]
  /\ expires \in [Openers -> Nat]
  /\ token \in [Logouts -> Openers \cup {Nobody}]
  /\ answer \in [Requests -> {0, 201, 204, 303, 401, 409, 422, 429, 500}]

Init ==
  /\ clock = 0
  /\ pc = [r \in Requests |-> "idle"]
  /\ typed = [r \in Openers |-> Nobody]
  /\ status = [a \in Accounts |-> IF a = Seed THEN "present" ELSE "absent"]
  /\ email = [a \in Accounts |-> IF a = Seed THEN Normal[AdminSpelling] ELSE Nobody]
  /\ who = [r \in Openers |-> Nobody]
  /\ since = [r \in Openers |-> 0]
  /\ doomed = [r \in Requests |-> {}]
  /\ rows = {} /\ issued = {}
  /\ owner = [r \in Openers |-> Nobody]
  /\ expires = [r \in Openers |-> 0]
  /\ token = [r \in Logouts |-> Nobody]
  /\ answer = [r \in Requests |-> 0]
-----------------------------------------------------------------------------
Goto(r, step) == pc' = [pc EXCEPT ![r] = step]

Reply(r, code) == Goto(r, "done") /\ answer' = [answer EXCEPT ![r] = code]

\* normalize_email of what was typed
Mail(r) == Normal[typed[r]]

Present(mail) == {a \in Accounts : status[a] = "present" /\ email[a] = mail}
Pending(mail) == {a \in Accounts : status[a] = "pending" /\ email[a] = mail}

\* create_session begins: it takes its "now"
Admit(r, a) ==
  /\ Goto(r, "cleanup")
  /\ who' = [who EXCEPT ![r] = a]
  /\ since' = [since EXCEPT ![r] = clock]

(***************************************************************************)
(* Registration.                                                           *)
(***************************************************************************)

\* the address, the name or the password may break a rule
ReceiveRegister(r) ==
  /\ pc[r] = "idle"
  /\ \/ /\ \E s \in Spellings : typed' = [typed EXCEPT ![r] = s]
        /\ Goto(r, "select")
        /\ UNCHANGED answer
     \/ Reply(r, 422) /\ UNCHANGED typed
  /\ UNCHANGED <<clock, accounts, who, since, doomed, sessions, token>>

SelectEmail(r) ==
  /\ pc[r] = "select"
  /\ \/ Present(Mail(r)) # {} /\ Reply(r, 409)
     \/ Present(Mail(r)) = {} /\ Goto(r, "insert") /\ UNCHANGED answer
  /\ UNCHANGED <<clock, typed, accounts, who, since, doomed, sessions, token>>

\* mutants of InsertUser: without the unique index; and refusing while the rival is in doubt
InsertUserUnindexed(r) ==
  /\ pc[r] = "insert"
  /\ status' = [status EXCEPT ![r] = "pending"]
  /\ email' = [email EXCEPT ![r] = Mail(r)]
  /\ Goto(r, "commit")
  /\ UNCHANGED <<clock, typed, who, since, doomed, sessions, token, answer>>

InsertUserImpatient(r) ==
  /\ pc[r] = "insert"
  /\ \/ /\ Present(Mail(r)) \cup Pending(Mail(r)) # {}
        /\ Reply(r, 409)
        /\ UNCHANGED accounts
     \/ /\ Present(Mail(r)) \cup Pending(Mail(r)) = {}
        /\ status' = [status EXCEPT ![r] = "pending"]
        /\ email' = [email EXCEPT ![r] = Mail(r)]
        /\ Goto(r, "commit")
        /\ UNCHANGED answer
  /\ UNCHANGED <<clock, typed, who, since, doomed, sessions, token>>

\* the savepoint: an IntegrityError is the same 409; a rival in doubt is waited for
InsertUser(r) ==
  /\ pc[r] = "insert"
  /\ Pending(Mail(r)) = {}
  /\ \/ /\ Present(Mail(r)) # {}
        /\ Reply(r, 409)
        /\ UNCHANGED accounts
     \/ /\ Present(Mail(r)) = {}
        /\ status' = [status EXCEPT ![r] = "pending"]
        /\ email' = [email EXCEPT ![r] = Mail(r)]
        /\ Goto(r, "commit")
        /\ UNCHANGED answer
  /\ UNCHANGED <<clock, typed, who, since, doomed, sessions, token>>

\* the API answers 201; the page goes on to log the new user in
CommitUser(r) ==
  /\ pc[r] = "commit"
  /\ status' = [status EXCEPT ![r] = "present"]
  /\ \/ Reply(r, 201) /\ UNCHANGED <<who, since>>
     \/ Admit(r, r) /\ UNCHANGED answer
  /\ UNCHANGED <<clock, typed, email, doomed, sessions, token>>
-----------------------------------------------------------------------------
(***************************************************************************)
(* Login.                                                                  *)
(***************************************************************************)

\* login_limiter comes first (RateLimiter says when it refuses)
ReceiveLogin(l) ==
  /\ pc[l] = "idle"
  /\ \/ /\ \E s \in Spellings : typed' = [typed EXCEPT ![l] = s]
        /\ Goto(l, "select")
        /\ UNCHANGED answer
     \/ Reply(l, 429) /\ UNCHANGED typed
  /\ UNCHANGED <<clock, accounts, who, since, doomed, sessions, token>>

\* authenticate: the password is right or wrong
Authenticate(l) ==
  /\ pc[l] = "select"
  /\ \/ Reply(l, 401) /\ UNCHANGED <<who, since>>
     \/ \E a \in Present(Mail(l)) : Admit(l, a) /\ UNCHANGED answer
  /\ UNCHANGED <<clock, typed, accounts, doomed, sessions, token>>

\* rows that a transaction has deleted and not committed
Held == UNION {doomed[r] : r \in Requests}

\* mutant of Stale: the sessions of everybody's past and future
StaleEver(r) == {s \in rows : owner[s] = who[r]}

\* the sessions of this user that create_session cleans up
Stale(r) == {s \in rows : owner[s] = who[r] /\ expires[s] < since[r]}

Cleanup(r) ==
  /\ pc[r] = "cleanup"
  /\ Stale(r) \cap Held = {}
  /\ doomed' = [doomed EXCEPT ![r] = Stale(r)]
  /\ Goto(r, "issue")
  /\ UNCHANGED <<clock, typed, accounts, who, since, sessions, token, answer>>

IssueToken(r) ==
  /\ pc[r] = "issue"
  /\ rows' = (rows \ doomed[r]) \cup {r}
  /\ issued' = issued \cup {r}
  /\ owner' = [owner EXCEPT ![r] = who[r]]
  /\ expires' = [expires EXCEPT ![r] = since[r] + Lifetime]
  /\ doomed' = [doomed EXCEPT ![r] = {}]
  /\ Reply(r, 303)
  /\ UNCHANGED <<clock, typed, accounts, who, since, token>>
-----------------------------------------------------------------------------
(***************************************************************************)
(* A request with a token, and logout.                                     *)
(***************************************************************************)

\* user_by_token finds a user
Works(t) == t \in rows /\ expires[t] > clock

\* anybody may log out with any token, one that works or one that does not
ReceiveLogout(x) ==
  /\ pc[x] = "idle"
  /\ \E t \in issued : token' = [token EXCEPT ![x] = t]
  /\ Goto(x, "delete")
  /\ UNCHANGED <<clock, typed, accounts, who, since, doomed, sessions, answer>>

DestroySession(x) ==
  /\ pc[x] = "delete"
  /\ token[x] \notin Held
  /\ doomed' = [doomed EXCEPT ![x] = rows \cap {token[x]}]
  /\ Goto(x, "commit")
  /\ UNCHANGED <<clock, typed, accounts, who, since, sessions, token, answer>>

CommitLogout(x) ==
  /\ pc[x] = "commit"
  /\ rows' = rows \ doomed[x]
  /\ doomed' = [doomed EXCEPT ![x] = {}]
  /\ Reply(x, 204)
  /\ UNCHANGED <<clock, typed, accounts, who, since, owner, expires, issued, token>>
-----------------------------------------------------------------------------
(***************************************************************************)
(* Failures and time.                                                      *)
(***************************************************************************)

\* mutant of Rollback: an account in doubt stays in doubt
RollbackNothing(R) ==
  /\ doomed' = [r \in Requests |-> IF r \in R THEN {} ELSE doomed[r]]
  /\ UNCHANGED status

\* the server rolls back the open transactions of R
Rollback(R) ==
  /\ status' = [a \in Accounts |->
                  IF a \in R /\ status[a] = "pending" THEN "absent" ELSE status[a]]
  /\ doomed' = [r \in Requests |-> IF r \in R THEN {} ELSE doomed[r]]

Running == {r \in Requests : pc[r] \notin {"idle", "done"}}

\* the connection of a request dies between two of its steps
Fail(r) ==
  /\ r \in Running
  /\ Rollback({r})
  /\ Reply(r, 500)
  /\ UNCHANGED <<clock, typed, email, who, since, sessions, token>>

\* the container restarts: every running request is lost, and the seed finds its account there
Restart ==
  /\ Running # {}
  /\ Rollback(Running)
  /\ pc' = [r \in Requests |-> IF r \in Running THEN "done" ELSE pc[r]]
  /\ answer' = [r \in Requests |-> IF r \in Running THEN 500 ELSE answer[r]]
  /\ UNCHANGED <<clock, typed, email, who, since, sessions, token>>

Tick ==
  /\ clock < MaxClock
  /\ clock' = clock + 1
  /\ UNCHANGED <<pc, typed, accounts, who, since, doomed, sessions, token, answer>>

ServeRegister(r) == SelectEmail(r) \/ InsertUser(r) \/ CommitUser(r)
ServeSession(r) == Cleanup(r) \/ IssueToken(r)

Serve(r) ==
  \/ r \in Registers /\ (ServeRegister(r) \/ ServeSession(r))
  \/ r \in Logins /\ (Authenticate(r) \/ ServeSession(r))
  \/ r \in Logouts /\ (DestroySession(r) \/ CommitLogout(r))

Next ==
  \/ \E r \in Registers : ReceiveRegister(r)
  \/ \E l \in Logins : ReceiveLogin(l)
  \/ \E x \in Logouts : ReceiveLogout(x)
  \/ \E r \in Requests : Serve(r) \/ Fail(r)
  \/ Restart
  \/ Tick

Spec == Init /\ [][Next]_vars

\* asyncio resumes every request whose await is over and PostgreSQL ends every statement that
\* need not wait
FairSpec == Spec /\ \A r \in Requests : WF_vars(Serve(r))
-----------------------------------------------------------------------------
(***************************************************************************)
(* Properties.                                                             *)
(***************************************************************************)

\* Two people do not share an address, nor one person have two accounts: however registrations
\* race, and however the address is spelled, at most one account of it is ever committed.
OneAccountPerAddress ==
  \A r \in Registers : \A a \in Accounts \ {r} :
    status[r] = "present" /\ status[a] = "present"
    => IF a = Seed THEN Normal[typed[r]] # Normal[AdminSpelling]
                   ELSE Normal[typed[r]] # Normal[typed[a]]

\* A 409 is never given for nothing: the address belongs to an account that exists and stays,
\* even when the rival was still in doubt as the request was refused.
RefusedHasOwner ==
  \A r \in Registers :
    answer[r] = 409 => Present(Mail(r)) \ {r} # {}

Book == INSTANCE SessionBook WITH
  Tokens <- Openers, time <- clock, until <- expires, live <- {t \in Openers : Works(t)}

\* The rows of auth_sessions, cleaned up only now and then by whoever logs in next, implement the
\* book of sessions: no cleanup, logout or failure of one request ends or revives the session of
\* another, and a token never works longer than its lifetime.
ImplementsSessionBook == Book!Spec

\* Every request is answered: whoever waits for an address in doubt, or for rows that somebody
\* else is deleting, goes on when that request ends, be it by a failure.
EveryRequestAnswered == \A r \in Requests : pc[r] # "idle" ~> pc[r] = "done"
=============================================================================
